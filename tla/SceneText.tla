------------------------------- MODULE SceneText -------------------------------
(***************************************************************************)
(* The text artifact of a scene and the decoder that reads it back         *)
(* (shapeflow-core/text_semantics.rs; text_encoding.rs only wraps it).     *)
(*                                                                         *)
(* A line is a sequence of tokens, each a tuple that begins with a word of *)
(* the grammar; the numbers and names the words carry follow it.  Synonyms *)
(* and typos, which are undone before a line is parsed, are not written.   *)
(***************************************************************************)
EXTENDS SceneTargets

CONSTANTS Profiles      \* the alteration profiles a run writes

VARIABLES
    text,       \* the lines written
    decoded     \* what the decoder makes of them

textVars == <<text, decoded>>

EventClauseReordered(profile) == profile \in {"event_clause", "fully"}
PairClauseReordered(profile)  == profile \in {"pair_clause", "fully"}

-------------------------------------------------------------------------------
(* What is said of a scene: its events in the order of their ids, and      *)
(* after each of them how every two shapes lie to each other, a shape      *)
(* standing where its last event in this order ended.                      *)
ById(s) == EventsWithIds(s, {e.global_event_index : e \in Range(s.motion_events)})

EventFrame(s, e) ==
    [event_index |-> e.global_event_index, shape_id |-> ShapeId(s.identity[e.shape_index]),
     start_point |-> e.start_point, end_point |-> e.end_point,
     duration_frames |-> e.duration_frames, easing |-> e.easing,
     simultaneous_with |-> SlotPeers(s, e)]

PositionAfter(s, k, i) ==
    LET moved == {j \in 1..k : ById(s)[j].shape_index = i}
    IN  IF moved = {} THEN s.shape_paths[i][1] ELSE ById(s)[Max(moved)].end_point

HorizontalRelation(a, b) ==
    IF a[1] < b[1] THEN "left of" ELSE IF a[1] > b[1] THEN "right of" ELSE "aligned horizontally"
VerticalRelation(a, b) ==
    IF a[2] > b[2] THEN "above" ELSE IF a[2] < b[2] THEN "below" ELSE "aligned vertically"
HorizontalPhrases == {"left of", "right of", "aligned horizontally"}
VerticalPhrases   == {"above", "below", "aligned vertically"}

ShapePairs(n) == SortSeq(SetToSeq({p \in (1..n) \X (1..n) : p[1] < p[2]}),
                         LAMBDA p, q : p[1] < q[1] \/ (p[1] = q[1] /\ p[2] < q[2]))

PairFrame(s, k, m) ==
    LET n == Len(s.shape_paths)
        p == ShapePairs(n)[m]
        a == PositionAfter(s, k, p[1])
        b == PositionAfter(s, k, p[2])
    IN  [pair_index |-> (k - 1) * Len(ShapePairs(n)) + m - 1,
         event_index |-> ById(s)[k].global_event_index,
         first |-> ShapeId(s.identity[p[1]]), second |-> ShapeId(s.identity[p[2]]),
         horizontal |-> HorizontalRelation(a, b), vertical |-> VerticalRelation(a, b)]

DeriveSemantics(s) ==
    [events |-> [k \in DOMAIN s.motion_events |-> EventFrame(s, ById(s)[k])],
     pairs  |-> FlattenSeq([k \in DOMAIN s.motion_events |->
                    [m \in DOMAIN ShapePairs(Len(s.shape_paths)) |-> PairFrame(s, k, m)]])]

-------------------------------------------------------------------------------
(* A movement is told by the quadrants it is sampled in, one sample per    *)
(* frame under the event's easing.                                         *)
Quadrant(x, y) ==
    IF x >= 0 /\ y >= 0 THEN "top right"
    ELSE IF x < 0 /\ y >= 0 THEN "top left"
    ELSE IF x < 0 /\ y < 0 THEN "bottom left" ELSE "bottom right"

(* Eased progress of frame k out of the last one, over last * last.        *)
EasedProgress(k, last, easing) ==
    CASE easing = "linear"   -> k * last
      [] easing = "ease_in"  -> k * k
      [] easing = "ease_out" -> last * last - (last - k) * (last - k)
      [] easing = "ease_in_out" ->
            IF 2 * k < last THEN 2 * k * k ELSE last * last - 2 * (last - k) * (last - k)

SampledQuadrants(e) ==
    LET last  == Max({e.duration_frames, 2}) - 1
        at(k, d) == e.start_point[d] * last * last
                    + (e.end_point[d] - e.start_point[d]) * EasedProgress(k, last, e.easing)
        step(path, k) ==
            LET q == Quadrant(at(k, 1), at(k, 2))
            IN  IF path # <<>> /\ Last(path) = q THEN path ELSE Append(path, q)
    IN  FoldLeft(step, <<>>, [k \in 1 .. last + 1 |-> k - 1])

ListWithAnd(items) ==
    IF Len(items) <= 2 THEN FlattenSeq([k \in DOMAIN items |->
                                IF k = 2 THEN <<<<"and">>, items[k]>> ELSE <<items[k]>>])
    ELSE FlattenSeq([k \in DOMAIN items |->
            IF k = Len(items) THEN <<<<"and">>, items[k]>> ELSE <<items[k], <<", ">>>>])

MovementClause(e) ==
    LET path    == SampledQuadrants(e)
        through == SubSeq(path, 2, Len(path) - 1)
        named   == [k \in DOMAIN through |-> <<"quadrant", through[k]>>]
    IN  IF Len(path) = 1 THEN <<<<"within", path[1]>>>>
        ELSE <<<<"from", path[1]>>, <<"to", Last(path)>>>>
             \o IF through = <<>> THEN <<>> ELSE <<<<"through">>>> \o ListWithAnd(named)

(* An identity is type and colour, a label colour and type.                *)
ShapeLabel(id) == <<"shape", id[2], id[1]>>

EventLine(e, profile, relative) ==
    LET moved == <<ShapeLabel(e.shape_id), <<"moved">>>> \o MovementClause(e)
                 \o (IF relative THEN <<<<"relative">>>> ELSE <<>>)
        peers == ListWithAnd([k \in DOMAIN e.simultaneous_with |->
                                <<"event", e.simultaneous_with[k]>>])
    IN  <<<<"Event", e.event_index>>>> \o
        IF peers = <<>> THEN moved
        ELSE IF EventClauseReordered(profile)
        THEN <<<<"At the same time as">>>> \o peers \o <<<<", ">>>> \o moved
        ELSE moved \o <<<<"This happened at the same time as">>>> \o peers

PairLine(p, profile) ==
    LET told == IF PairClauseReordered(profile) THEN <<p.vertical, p.horizontal>>
                ELSE <<p.horizontal, p.vertical>>
    IN  <<<<"Pair", p.pair_index>>, <<"event", p.event_index>>, <<"id", p.first>>,
          <<"is", told[1]>>, <<"id", p.second>>, <<"is", told[2]>>, <<"id", p.second>>>>

(* Mutant: the header names the last event instead of counting them.       *)
HeaderLastIndex(semantics) == <<<<"Scene", Len(semantics.events) - 1>>>>

Header(semantics) == <<<<"Scene", Len(semantics.events)>>>>

SceneLines(semantics, profile, relative) ==
    <<Header(semantics)>>
    \o [k \in DOMAIN semantics.events |-> EventLine(semantics.events[k], profile, relative[k])]
    \o [k \in DOMAIN semantics.pairs |-> PairLine(semantics.pairs[k], profile)]

(* The reference frame of each event line, drawn when it is mixed.         *)
ReferenceFrames(c, n) ==
    [1..n -> CASE c.text_reference_frame = "canonical" -> {FALSE}
               [] c.text_reference_frame = "relative"  -> {TRUE}
               [] c.text_reference_frame = "mixed"     -> BOOLEAN]

-------------------------------------------------------------------------------
(* The decoder.  A line it cannot parse is Unparsed, a text it refuses     *)
(* Refused.                                                                *)
Unparsed == [unparsed |-> TRUE]
Refused  == [refused |-> TRUE]

FirstOf(tokens, word) == SelectInSeq(tokens, LAMBDA t : t[1] = word)
Before(tokens, k) == SubSeq(tokens, 1, k - 1)
After(tokens, k)  == SubSeq(tokens, k + 1, Len(tokens))

(* The peers named by a clause: whatever the list, its events.             *)
ParsePeers(tokens) ==
    LET named == SelectSeq(tokens, LAMBDA t : t[1] = "event")
    IN  [k \in DOMAIN named |-> named[k][2]]

(* Only where a movement starts and ends survives.                         *)
ParseMovement(tokens) ==
    IF tokens[1][1] = "within" THEN <<tokens[1][2], tokens[1][2]>>
    ELSE <<tokens[1][2], tokens[2][2]>>

(* A clause in front ends at the first comma, one at the end takes the     *)
(* rest of the line.                                                       *)
ParseEventLine(line) ==
    LET body    == Tail(line)
        prefix  == body[1][1] = "At the same time as"
        comma   == FirstOf(body, ", ")
        main    == IF prefix THEN After(body, comma) ELSE body
        at      == FirstOf(main, "This happened at the same time as")
        clause  == IF at = 0 THEN main ELSE Before(main, at)
        peers   == (IF prefix THEN ParsePeers(Before(body, comma)) ELSE <<>>)
                   \o (IF at = 0 THEN <<>> ELSE ParsePeers(After(main, at)))
        moved   == FirstOf(clause, "moved")
        label   == Before(clause, moved)
        ends    == ParseMovement(After(clause, moved))
    IN  IF Len(label) # 1 \/ label[1][1] # "shape" THEN Unparsed
        ELSE [event_index |-> line[1][2], shape_id |-> <<label[1][3], label[1][2]>>,
              from |-> ends[1], to |-> ends[2], simultaneous_with |-> Sorted(Range(peers))]

(* Mutant: the horizontal relation is always read first.                   *)
ParsePairLineInOrder(line) ==
    IF line[4][2] \notin HorizontalPhrases \/ line[6][2] \notin VerticalPhrases THEN Unparsed
    ELSE [pair_index |-> line[1][2], event_index |-> line[2][2],
          first |-> line[3][2], second |-> line[5][2],
          horizontal |-> line[4][2], vertical |-> line[6][2]]

(* The two relations of a pair line come in either order.                  *)
ParsePairLine(line) ==
    LET told(phrases) == {line[k][2] : k \in {j \in {4, 6} : line[j][2] \in phrases}}
    IN  IF line[5] # line[7] \/ told(HorizontalPhrases) = {} \/ told(VerticalPhrases) = {}
        THEN Unparsed
        ELSE [pair_index |-> line[1][2], event_index |-> line[2][2],
              first |-> line[3][2], second |-> line[5][2],
              horizontal |-> CHOOSE h \in told(HorizontalPhrases) : TRUE,
              vertical |-> CHOOSE v \in told(VerticalPhrases) : TRUE]

(* The number of events the header announces, whatever scene it names.     *)
ParseHeader(lines) ==
    IF lines[1][1][1] = "Scene" THEN lines[1][1][2] ELSE Unparsed

LinesOf(lines, word) == SelectSeq(lines, LAMBDA l : l[1][1] = word)

Contiguous(indices, count) == indices = 0 .. count - 1

DecodeSemantics(lines) ==
    LET events == [k \in DOMAIN LinesOf(lines, "Event") |->
                        ParseEventLine(LinesOf(lines, "Event")[k])]
        pairs  == [k \in DOMAIN LinesOf(lines, "Pair") |->
                        ParsePairLine(LinesOf(lines, "Pair")[k])]
    IN  IF \/ Unparsed \in Range(events) \cup Range(pairs)
           \/ ~ Contiguous({e.event_index : e \in Range(events)}, Len(events))
           \/ ~ Contiguous({p.pair_index : p \in Range(pairs)}, Len(pairs))
           \/ ParseHeader(lines) # Len(events)
        THEN Refused
        ELSE [events |-> SortSeq(events, LAMBDA e, f : e.event_index < f.event_index),
              pairs  |-> SortSeq(pairs, LAMBDA p, q : p.pair_index < q.pair_index)]

-------------------------------------------------------------------------------
TextInit == text = <<>> /\ decoded = None

WriteText ==
    /\ stage = "targets"
    /\ \E profile \in Profiles, relative \in ReferenceFrames(config, Len(scene.motion_events)) :
            text' = SceneLines(DeriveSemantics(scene), profile, relative)
    /\ stage' = "text"
    /\ UNCHANGED <<config, counts, paths, scene, queries, targets, decoded>>

DecodeText ==
    /\ stage = "text"
    /\ decoded' = DecodeSemantics(text)
    /\ stage' = "decoded"
    /\ UNCHANGED <<config, counts, paths, scene, queries, targets, text>>

===============================================================================
