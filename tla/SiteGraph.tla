------------------------------- MODULE SiteGraph -------------------------------
(***************************************************************************)
(* The graph of a dataset's scenes and the checks it has to pass           *)
(* (shapeflow-core site_graph.rs and latent_state.rs): every scene joined  *)
(* to its nearest neighbours, one connected component, no hub, a second    *)
(* eigenvalue that is large enough.                                        *)
(*                                                                         *)
(* A scene is the sequence of its motion events, each a pair of points on  *)
(* an integer grid.  Weights are left out: they are a decreasing function  *)
(* of the distance.  The estimate of the eigenvalue is an outcome.         *)
(***************************************************************************)
EXTENDS Integers, Sequences, FiniteSets, SequencesExt, FiniteSetsExt

CONSTANTS Sites     \* the inputs: records of scenes and site_k

Points == Int \X Int

ASSUME SitesAssumption ==
    \A s \in Sites : s.scenes \in Seq(Seq(Points \X Points)) /\ s.site_k \in Nat

VARIABLES
    site,       \* the input of this run
    graph,      \* the edges, pairs with the smaller node first
    visited,    \* nodes the search has seen
    queue,      \* nodes it has seen and not looked at
    scan,       \* the node looked at and the next possible neighbour, or <<>>
    start,      \* the next node to start from
    components, \* components found
    verdict     \* how far the validation is, or how it ended

siteVars == <<site, graph, visited, queue, scan, start, components, verdict>>

(* The vector of a scene is the coordinates of its events one after the    *)
(* other; shorter ones are filled with zeros.                              *)
LatentVector(events) == FlattenSeq([k \in DOMAIN events |-> events[k][1] \o events[k][2]])

Padded(vectors) ==
    LET longest == Max({Len(v) : v \in Range(vectors)})
    IN  [i \in DOMAIN vectors |->
            vectors[i] \o [k \in 1 .. longest - Len(vectors[i]) |-> 0]]

Nodes == 0 .. Len(site.scenes) - 1

Vectors == Padded([i \in DOMAIN site.scenes |-> LatentVector(site.scenes[i])])

Distances ==
    LET vectors == Vectors
        squared(u, v) == [k \in DOMAIN u |-> (u[k] - v[k]) * (u[k] - v[k])]
    IN  [i \in Nodes |-> [j \in Nodes |-> SumFunction(squared(vectors[i + 1], vectors[j + 1]))]]

-------------------------------------------------------------------------------
(* The k nearest of every node, the smaller number first among equals, and *)
(* an edge wherever one of two nodes is among the nearest of the other.    *)
EffectiveK == Min({site.site_k, Len(site.scenes) - 1})

DirectedNeighbors ==
    LET distance == Distances
        before(i, j) == {m \in Nodes \ {i} : \/ distance[i][m] < distance[i][j]
                                             \/ distance[i][m] = distance[i][j] /\ m < j}
    IN  [i \in Nodes |-> {j \in Nodes \ {i} : Cardinality(before(i, j)) < EffectiveK}]

(* Mutant: an edge needs both nodes to be among the nearest of the other.  *)
MutualKnnGraph ==
    LET near == DirectedNeighbors
    IN  {e \in Nodes \X Nodes : e[1] < e[2] /\ e[2] \in near[e[1]] /\ e[1] \in near[e[2]]}

UndirectedKnnGraph ==
    LET near == DirectedNeighbors
    IN  {e \in Nodes \X Nodes : e[1] < e[2] /\ (e[2] \in near[e[1]] \/ e[1] \in near[e[2]])}

NeighborsOf(i) == {j \in Nodes : <<i, j>> \in graph \/ <<j, i>> \in graph}
Degree(i) == Cardinality(NeighborsOf(i))
MaxDegree == Max({Degree(i) : i \in Nodes})
HubCap == site.site_k * 5

-------------------------------------------------------------------------------
SiteInit ==
    /\ site \in Sites
    /\ graph = {} /\ visited = {} /\ queue = <<>> /\ scan = <<>> /\ start = 0 /\ components = 0
    /\ verdict = "vectors"

BuildGraph ==
    /\ verdict = "vectors"
    /\ IF site.site_k = 0 \/ site.scenes = <<>> \/ EffectiveK = 0
       THEN verdict' = "invalid size" /\ UNCHANGED graph
       ELSE verdict' = "search" /\ graph' = UndirectedKnnGraph
    /\ UNCHANGED <<site, visited, queue, scan, start, components>>

(* The search for components: from every node not seen yet, in order, ...  *)
(* Mutant: a node that was seen starts a component as well.                *)
StartAnyComponent ==
    /\ verdict = "search" /\ queue = <<>> /\ scan = <<>> /\ start \in Nodes
    /\ components' = components + 1
    /\ visited' = visited \cup {start}
    /\ queue' = <<start>>
    /\ start' = start + 1
    /\ UNCHANGED <<site, graph, scan, verdict>>

StartComponent ==
    /\ verdict = "search" /\ queue = <<>> /\ scan = <<>> /\ start \in Nodes
    /\ IF start \in visited THEN UNCHANGED <<components, visited, queue>>
       ELSE /\ components' = components + 1
            /\ visited' = visited \cup {start}
            /\ queue' = <<start>>
    /\ start' = start + 1
    /\ UNCHANGED <<site, graph, scan, verdict>>

(* ... breadth first over the neighbours not seen yet.                     *)
PopNode ==
    /\ verdict = "search" /\ queue # <<>> /\ scan = <<>>
    /\ scan' = <<Head(queue), 0>>
    /\ queue' = Tail(queue)
    /\ UNCHANGED <<site, graph, visited, start, components, verdict>>

LookAtNeighbor ==
    /\ verdict = "search" /\ scan # <<>>
    /\ LET node     == scan[1]
           neighbor == scan[2]
       IN  /\ IF neighbor \in NeighborsOf(node) \ visited
              THEN visited' = visited \cup {neighbor} /\ queue' = Append(queue, neighbor)
              ELSE UNCHANGED <<visited, queue>>
           /\ scan' = IF neighbor + 1 \in Nodes THEN <<node, neighbor + 1>> ELSE <<>>
    /\ UNCHANGED <<site, graph, start, components, verdict>>

(* The graph is judged; the power iteration comes last.                    *)
JudgeGraph ==
    /\ verdict = "search" /\ queue = <<>> /\ scan = <<>> /\ start \notin Nodes
    /\ verdict' = IF components # 1 THEN "disconnected"
                  ELSE IF MaxDegree > HubCap THEN "hub" ELSE "lambda2"
    /\ UNCHANGED <<site, graph, visited, queue, scan, start, components>>

EstimateLambda2 ==
    /\ verdict = "lambda2"
    /\ verdict' \in {"accepted", "below threshold", "not finite"}
    /\ UNCHANGED <<site, graph, visited, queue, scan, start, components>>

SiteNext == BuildGraph \/ StartComponent \/ PopNode \/ LookAtNeighbor \/ JudgeGraph \/ EstimateLambda2

SiteSpec == SiteInit /\ [][SiteNext]_siteVars

-------------------------------------------------------------------------------
(* The search judges connectivity, from one start and with a queue: a      *)
(* graph it lets pass has no part without edges to the rest, one it turns  *)
(* away as disconnected has (count_connected_components,                   *)
(* site_graph.rs:320).                                                     *)
ClosedPart(part) == \A i \in part : NeighborsOf(i) \subseteq part
Connected == \A part \in SUBSET Nodes : part # {} /\ ClosedPart(part) => part = Nodes

JudgedAsConnected ==
    /\ verdict \in {"hub", "lambda2", "accepted", "below threshold", "not finite"} => Connected
    /\ verdict = "disconnected" => ~ Connected

(* An edge means that for one of its ends fewer than k scenes are strictly *)
(* nearer than the other end, a missing one that for both at least k are   *)
(* as near; every scene has k neighbours, and in a graph that is accepted  *)
(* none has more than the cap, ties and paddings included                  *)
(* (build_undirected_knn_graph, site_graph.rs:223).                        *)
Joined ==
    LET distance == Distances
        nearer(i, j) == {m \in Nodes \ {i} : distance[i][m] < distance[i][j]}
        asNear(i, j) == {m \in Nodes \ {i, j} : distance[i][m] <= distance[i][j]}
        near(i, j) == Cardinality(nearer(i, j)) < EffectiveK
        far(i, j) == Cardinality(asNear(i, j)) >= EffectiveK
    IN  /\ \A i, j \in Nodes : i < j =>
              IF <<i, j>> \in graph THEN near(i, j) \/ near(j, i) ELSE far(i, j) /\ far(j, i)
        /\ \A i \in Nodes : Degree(i) >= EffectiveK

NearestAreJoined ==
    /\ verdict = "search" /\ start = 0 => Joined
    /\ verdict = "accepted" => MaxDegree <= HubCap
===============================================================================
