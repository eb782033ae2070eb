------------------------------ MODULE MCArtifacts ------------------------------
(***************************************************************************)
(* Five parts of the system that share no state, one of which is chosen at *)
(* the start: the site graph, the binary files, the image, the noise of    *)
(* the text and the Python module.                                         *)
(***************************************************************************)
EXTENDS PyBinding, SiteStats, ArtifactFiles, ImageComic, TextNoise, Graphs

VARIABLE subject

vars == <<subject, siteVars, fileVars, comicVars, noiseVars, pyVars>>

-------------------------------------------------------------------------------
(* Site graph: up to four scenes out of three with one event and one with  *)
(* two, which is longer than the others; and seven equal scenes, all of    *)
(* them nearest to the first.                                              *)
mcScenes == {<< <<<<0, 0>>, <<0, 0>>>> >>, << <<<<0, 0>>, <<0, 1>>>> >>,
             << <<<<3, 0>>, <<3, 0>>>> >>, << <<<<0, 0>>, <<0, 1>>>>, <<<<2, 0>>, <<0, 0>>>> >>}
mcSites ==
    {[scenes |-> s, site_k |-> k] : s \in SeqOf(mcScenes, 4), k \in 0 .. 2}
        \cup {[scenes |-> [i \in 1..7 |-> << <<<<0, 0>>, <<0, 0>>>> >>], site_k |-> 1]}

(* Files: names that fill their field and shorter ones, one that is too    *)
(* long; values up to an infinity; segments of unequal width; an edge      *)
(* outside the graph.                                                      *)
mcNotFinite == 99
mcArtifacts ==
    {[kind |-> "target", scene |-> s, task |-> t, segments |-> v] :
        s \in {<<5, 6>>, <<5>>, <<5, 6, 7>>}, t \in {<<8>>, <<8, 8>>},
        v \in {<< <<1, 2>>, <<0, 3>> >>, << <<0>> >>, << <<1>>, <<2, 3>> >>, << <<mcNotFinite>> >>}}
    \cup {[kind |-> "latent", scene |-> s, values |-> v] :
            s \in {<<5, 6>>, <<5>>, <<5, 6, 7>>},
            v \in {<<>>, <<0, 0>>, <<1, 2, 3>>, <<1, mcNotFinite>>}}
    \cup {[kind |-> "site_graph", nodes |-> n, edges |-> e, lambda2 |-> l,
           min_degree |-> 1, max_degree |-> 2, mean_degree |-> 1] :
            n \in {2, 3}, l \in {0, 4, mcNotFinite},
            e \in {<<>>, << [src |-> 0, dst |-> 1, weight |-> 7] >>,
                   << [src |-> 0, dst |-> 1, weight |-> 7], [src |-> 1, dst |-> 2, weight |-> 1] >>,
                   << [src |-> 0, dst |-> 1, weight |-> mcNotFinite] >>}}

(* Noise: variants of two words; the thesaurus itself is another crate.    *)
mcSynonyms == [moved |-> {"shifted", "stirred"}, same |-> {"identical", "selfsame"},
               scene |-> {"view"}]

(* Drawings: a movement to every corner and one that does not move, panels *)
(* from the smallest to ones that leave room for the largest markers.      *)
mcMove(slot, from, to, shape) ==
    [time_slot |-> slot, start_point |-> from, end_point |-> to, shape |-> shape]
mcEvents == {<<>>, <<mcMove(1, <<-2, 2>>, <<2, -2>>, "star"), mcMove(1, <<0, 0>>, <<0, 0>>, "circle"),
                     mcMove(2, <<2, 2>>, <<-2, 2>>, "star")>>}
mcDrawings ==
    {[n_motion_slots |-> n, resolution |-> r, scatter |-> s, arrows |-> a, events |-> e] :
        n \in {1, 2}, r \in {0, 30, 130}, s \in BOOLEAN,
        a \in {"prev", "current", "next"}, e \in mcEvents}
    \cup {[n_motion_slots |-> n, resolution |-> 210, scatter |-> FALSE, arrows |-> "current", events |-> e] :
            n \in {1, 2}, e \in mcEvents}
    \cup {[n_motion_slots |-> 3, resolution |-> 100, scatter |-> TRUE, arrows |-> "next", events |-> e] :
            e \in mcEvents}

(* Python: two ways to build that are valid and one that is not, and for   *)
(* some fields a value that is accepted and one that is refused.           *)
mcArguments ==
    {[n_shapes |-> 2, n_motion_slots |-> 4, motion_events_per_shape |-> <<2, 2>>],
     [n_shapes |-> 2, motion_events_per_shape |-> <<4>>],
     [easing_family |-> "bounce"]}
mcPolicyArguments ==
    {[seed |-> 1, events_per_shape |-> 2, simultaneous |-> b, validation_scene_count |-> 4] : b \in BOOLEAN}
mcValues ==
    [resolution |-> {0, 64}, n_motion_slots |-> {1, 8}, n_motion_events_total |-> {None, 3},
     allow_simultaneous |-> BOOLEAN, text_typo_rate |-> {20, 1001},
     sound_sample_rate_hz |-> {0, 8000}, image_arrow_type |-> {"prev", "up"},
     site_k |-> {1, 40}, validation_scene_count |-> {1, 12},
     n_shapes |-> {2, 4}, motion_events_per_shape |-> {<<>>, <<1, 1>>, <<9>>}]
mcRanges ==
    [Settings EXCEPT !.n_shapes = 2, !.motion_events_per_shape = <<>>,
                     !.motion_events_per_shape_random_ranges =
                        <<[min |-> 1, max |-> 2], [min |-> 0, max |-> 3]>>]
mcFileConfigs == {None, mcRanges, [Settings EXCEPT !.site_k = 0]}
mcSampleTotals == {None, 0, 3}

-------------------------------------------------------------------------------
SiteIdle ==
    /\ site = None /\ graph = {} /\ visited = {} /\ queue = <<>> /\ scan = <<>> /\ start = 0
    /\ components = 0 /\ verdict = "idle"
FilesIdle ==
    artifact = None /\ file = <<>> /\ damage = "idle" /\ readAs = "none" /\ outcome = Unread
ComicIdle ==
    drawing = None /\ placements = <<>> /\ infos = <<>> /\ strokes = <<>> /\ comicStep = "idle"
NoiseIdle == word = "" /\ surface = "" /\ restored = "" /\ noiseStep = "idle"
PyIdle ==
    /\ held = None /\ origin = "none" /\ configFile = None /\ bridge = None
    /\ iterator = None /\ asked = None /\ delivered = <<>> /\ calls = MaxCalls

Init ==
    \/ subject = "site" /\ SiteInit /\ FilesIdle /\ ComicIdle /\ NoiseIdle /\ PyIdle
    \/ subject = "files" /\ FilesInit /\ SiteIdle /\ ComicIdle /\ NoiseIdle /\ PyIdle
    \/ subject = "comic" /\ ComicInit /\ SiteIdle /\ FilesIdle /\ NoiseIdle /\ PyIdle
    \/ subject = "noise" /\ NoiseInit /\ SiteIdle /\ FilesIdle /\ ComicIdle /\ PyIdle
    \/ subject = "python" /\ PyInit /\ SiteIdle /\ FilesIdle /\ ComicIdle /\ NoiseIdle

Next ==
    /\ UNCHANGED subject
    /\ \/ subject = "site" /\ SiteNext /\ UNCHANGED <<fileVars, comicVars, noiseVars, pyVars>>
       \/ subject = "files" /\ FilesNext /\ UNCHANGED <<siteVars, comicVars, noiseVars, pyVars>>
       \/ subject = "comic" /\ ComicNext /\ UNCHANGED <<siteVars, fileVars, noiseVars, pyVars>>
       \/ subject = "noise" /\ NoiseNext /\ UNCHANGED <<siteVars, fileVars, comicVars, pyVars>>
       \/ subject = "python" /\ PyNext /\ UNCHANGED <<siteVars, fileVars, comicVars, noiseVars>>

Spec == Init /\ [][Next]_vars

-------------------------------------------------------------------------------
(* An accepted graph's artifact after one of its edges got lost, was       *)
(* turned around or was written twice, or a new one came in.               *)
SpoiltArtifacts ==
    LET a == GraphArtifact
        with(edges) == [a EXCEPT !.edges = edges]
    IN  {with(RemoveAt(a.edges, k)) : k \in DOMAIN a.edges}
        \cup {with(ReplaceAt(a.edges, k, <<a.edges[k][2], a.edges[k][1]>>)) : k \in DOMAIN a.edges}
        \cup {with(Append(a.edges, a.edges[k])) : k \in DOMAIN a.edges}
        \cup {with(Append(a.edges, e)) : e \in {e \in Nodes \X Nodes : e[1] < e[2]} \ graph}

(* The search of connected_components_count, which walks the graph with a  *)
(* queue and marks what it has seen, ends with the number of classes of    *)
(* nodes that reach each other, and between two starts it has seen whole   *)
(* components only (site_graph.rs:320); the other search, of site-stats    *)
(* (site_stats.rs:297), agrees, so that the command accepts the artifact   *)
(* of every accepted graph, and of no graph with an edge lost or added.    *)
Reaches == ConnectionsIn([node |-> Nodes, edge |-> graph \cup {<<e[2], e[1]>> : e \in graph}])

ComponentsCounted ==
    subject = "site" /\ verdict \notin {"vectors", "invalid size"} =>
        /\ queue = <<>> /\ scan = <<>> =>
            \A i \in visited : NeighborsOf(i) \subseteq visited
        /\ queue = <<>> /\ scan = <<>> /\ start \notin Nodes =>
            /\ components = Cardinality({{j \in Nodes : Reaches[i, j]} : i \in Nodes})
            /\ components = CountConnectedComponents(GraphArtifact)
        /\ verdict = "accepted" =>
            /\ SiteStatsAccepts(GraphArtifact)
            /\ \A a \in SpoiltArtifacts : ~ SiteStatsAccepts(a)

(* A word that is reworded or mistyped once is read as it was, with one    *)
(* exception: "withn" is a typing error of both "within" and "with", so    *)
(* the decoder leaves it and cannot read the line (text_semantics.rs:1174; *)
(* the test of text_encoding.rs:566 expects that it always can).           *)
NoiseIsUndone ==
    subject = "noise" /\ noiseStep = "read" /\ restored # word =>
        word \in {"within", "with"} /\ surface = "withn"
===============================================================================
