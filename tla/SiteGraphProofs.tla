---------------------------- MODULE SiteGraphProofs ----------------------------
(***************************************************************************)
(* The search over a site graph finds out whether it is connected, and the *)
(* graph joins every scene to its nearest, for any number of scenes.       *)
(*                                                                         *)
(* The invariant: what was seen is on the queue, under the scan or has all *)
(* its neighbours seen, so that what was seen is closed when both are      *)
(* empty.  From the first start only what every closed part around it has  *)
(* is seen; at a second start what was seen is a part without edges to the *)
(* rest.                                                                   *)
(*                                                                         *)
(* The graph that is searched is the one of the nearest neighbours: the    *)
(* ranks of the others around a node are different and without gaps,       *)
(* whatever the ties, so each asks for exactly k.                          *)
(***************************************************************************)
EXTENDS SiteGraph, SequenceLemmas

N == Len(site.scenes)

OnQueue(i) == \E k \in 1 .. Len(queue) : queue[k] = i

SearchTypes ==
    /\ site \in Sites
    /\ visited \subseteq Nodes /\ start \in Nat /\ start <= N /\ components \in Nat
    /\ queue \in Seq(visited)
    /\ scan # <<>> => scan = <<scan[1], scan[2]>> /\ scan[1] \in visited /\ scan[2] \in Nodes

(* Seen nodes are waiting or done; a node under the scan is done so far.   *)
Expanded(i) == NeighborsOf(i) \subseteq visited

Frontier ==
    /\ \A i \in visited : OnQueue(i) \/ (scan # <<>> /\ i = scan[1]) \/ Expanded(i)
    /\ scan # <<>> => \A j \in NeighborsOf(scan[1]) : j < scan[2] => j \in visited
    /\ \A i \in Nodes : i < start => i \in visited

Counted ==
    /\ components = 0 => start = 0 /\ visited = {} /\ queue = <<>> /\ scan = <<>>
    /\ components # 0 => visited # {}
    /\ components = 1 => \A part \in SUBSET Nodes : 0 \in part /\ ClosedPart(part) => visited \subseteq part
    /\ components > 1 => ~ Connected

SearchInv ==
    /\ SearchTypes /\ Frontier /\ Counted
    /\ verdict = "vectors" => components = 0
    /\ verdict = "search" => N > 0
    /\ JudgedAsConnected

-------------------------------------------------------------------------------
LEMMA ScenesListed ==
    \A s \in Sites : Len(s.scenes) \in Nat /\ s.scenes = [i \in 1 .. Len(s.scenes) |-> s.scenes[i]]
  <1>. SUFFICES ASSUME NEW s \in Sites
                PROVE  Len(s.scenes) \in Nat /\ s.scenes = [i \in 1 .. Len(s.scenes) |-> s.scenes[i]]
    OBVIOUS
  <1>1. PICK c \in Seq(Seq(Points \X Points)) : c = s.scenes
    BY SitesAssumption
  <1>2. Len(c) \in Nat /\ c = [i \in 1 .. Len(c) |-> c[i]]
    BY LenProperties
  <1>. QED  BY <1>1, <1>2

LEMMA InitSearches == SiteInit => SearchInv
  BY ScenesListed DEF SiteInit, SearchInv, SearchTypes, Frontier, Counted, JudgedAsConnected,
     Nodes, N, OnQueue

(* Nothing but the graph decides what is connected.                        *)
LEMMA ConnectedStays ==
    ASSUME site' = site, graph' = graph
    PROVE  (Connected' <=> Connected) /\ Nodes' = Nodes
           /\ \A part : ClosedPart(part)' <=> ClosedPart(part)
  BY DEF Connected, ClosedPart, NeighborsOf, Nodes

LEMMA BuildSearches ==
    ASSUME SearchInv, BuildGraph
    PROVE  SearchInv'
  <1>1. /\ components = 0 /\ start = 0 /\ visited = {} /\ queue = <<>> /\ scan = <<>>
        /\ site' = site /\ visited' = {} /\ queue' = <<>> /\ scan' = <<>> /\ start' = 0 /\ components' = 0
        /\ site \in Sites /\ Len(site.scenes) \in Nat
    BY ScenesListed DEF BuildGraph, SearchInv, SearchTypes, Counted
  <1>2. SearchTypes'
    <2>1. queue' \in Seq(visited') /\ start' <= Len(site'.scenes) /\ scan' = <<>>
      BY <1>1
    <2>. QED  BY <1>1, <2>1 DEF SearchTypes, N
  <1>3. Frontier'
    <2>1. \A i \in Nodes' : ~ (i < start')
      BY <1>1 DEF Nodes
    <2>. QED  BY <1>1, <2>1 DEF Frontier
  <1>4. Counted'
    BY <1>1 DEF Counted
  <1>5. verdict' = "search" => N' > 0
    BY <1>1, ScenesListed DEF BuildGraph, SearchInv, SearchTypes, N
  <1>6. verdict' = "search" \/ verdict' = "invalid size"
    BY DEF BuildGraph
  <1>. QED  BY <1>1, <1>2, <1>3, <1>4, <1>5, <1>6 DEF SearchInv, JudgedAsConnected

(* A start that was not seen: the seen part has no edges to the rest.      *)
LEMMA StartSearches ==
    ASSUME SearchInv, StartComponent
    PROVE  SearchInv'
  <1>1. /\ queue = <<>> /\ scan = <<>> /\ scan' = <<>> /\ start \in Nodes /\ start' = start + 1
        /\ verdict = "search" /\ UNCHANGED <<site, graph, verdict>>
    BY DEF StartComponent
  <1>2. /\ visited \subseteq Nodes /\ start \in Nat /\ start + 1 <= N /\ N \in Nat /\ components \in Nat
        /\ Nodes' = Nodes /\ N' = N
    BY <1>1, ScenesListed DEF SearchInv, SearchTypes, Nodes, N
  <1>3. \A i \in visited : Expanded(i)
    BY <1>1 DEF SearchInv, Frontier, OnQueue
  <1>4. ClosedPart(visited)
    BY <1>3 DEF ClosedPart, Expanded
  <1>5. CASE start \in visited
    <2>1. UNCHANGED <<components, visited, queue>>
      BY <1>5 DEF StartComponent
    <2>2. SearchTypes'
      BY <1>1, <1>2, <2>1 DEF SearchInv, SearchTypes
    <2>3. Frontier'
      <3>1. \A i \in Nodes : i < start + 1 => i \in visited
        BY <1>2, <1>5 DEF SearchInv, Frontier, Nodes
      <3>2. \A i \in visited : NeighborsOf(i)' \subseteq visited
        BY <1>1, <1>2, <1>3 DEF Expanded, NeighborsOf
      <3>. QED  BY <1>1, <1>2, <2>1, <3>1, <3>2 DEF Frontier, Expanded
    <2>4. Counted'
      BY <1>1, <1>2, <1>5, <2>1, ConnectedStays DEF SearchInv, Counted
    <2>. QED  BY <1>1, <1>2, <2>2, <2>3, <2>4 DEF SearchInv, JudgedAsConnected
  <1>6. CASE start \notin visited
    <2>1. components' = components + 1 /\ visited' = visited \cup {start} /\ queue' = <<start>>
      BY <1>6 DEF StartComponent
    <2>2. SearchTypes'
      <3>1. queue' \in Seq(visited')
        BY <2>1
      <3>. QED  BY <1>1, <1>2, <2>1, <3>1 DEF SearchInv, SearchTypes
    <2>3. Frontier'
      <3>1. \A i \in Nodes : i < start + 1 => i \in visited'
        BY <1>2, <2>1 DEF SearchInv, Frontier, Nodes
      <3>2. \A i : NeighborsOf(i)' = NeighborsOf(i)
        BY <1>1 DEF NeighborsOf, Nodes
      <3>3. \A i \in visited : Expanded(i)'
        BY <1>3, <2>1, <3>2 DEF Expanded
      <3>4. PICK s : s = start
        OBVIOUS
      <3>5. OnQueue(s)'
        BY <2>1, <3>4 DEF OnQueue
      <3>6. \A i \in visited' : OnQueue(i)' \/ Expanded(i)'
        BY <2>1, <3>3, <3>4, <3>5
      <3>. QED  BY <1>1, <1>2, <3>1, <3>6 DEF Frontier
    <2>4. Counted'
      <3>1. CASE components = 0
        <4>1. start = 0 /\ visited' = {0} /\ components' = 1
          BY <2>1, <3>1 DEF SearchInv, Counted
        <4>. QED  BY <4>1 DEF Counted
      <3>2. CASE components # 0
        <4>1. visited # {}
          BY <3>2 DEF SearchInv, Counted
        <4>2. ~ Connected
          BY <1>1, <1>2, <1>4, <1>6, <4>1 DEF Connected
        <4>. QED  BY <1>1, <1>2, <2>1, <3>2, <4>2, ConnectedStays DEF Counted
      <3>. QED  BY <3>1, <3>2
    <2>. QED  BY <1>1, <1>2, <2>2, <2>3, <2>4 DEF SearchInv, JudgedAsConnected
  <1>. QED  BY <1>5, <1>6

LEMMA PopSearches ==
    ASSUME SearchInv, PopNode
    PROVE  SearchInv'
  <1>1. PICK head : head = Head(queue)
    OBVIOUS
  <1>2. /\ queue \in Seq(visited) /\ queue # <<>> /\ visited \subseteq Nodes /\ Nodes \subseteq Nat
        /\ scan = <<>> /\ scan' = <<head, 0>> /\ queue' = Tail(queue)
        /\ site' = site /\ graph' = graph /\ visited' = visited /\ start' = start
        /\ components' = components /\ verdict' = verdict
    BY <1>1 DEF PopNode, SearchInv, SearchTypes, Nodes
  <1>3. head \in visited /\ 0 \in Nodes
    <2>1. head \in visited /\ head \in Nodes
      BY <1>1, <1>2, HeadTailProperties
    <2>. QED  BY <2>1, ScenesListed DEF Nodes, SearchInv, SearchTypes
  <1>4. Nodes' = Nodes /\ N' = N /\ \A i : NeighborsOf(i)' = NeighborsOf(i)
    BY <1>2 DEF Nodes, N, NeighborsOf
  <1>5. SearchTypes'
    <2>1. queue' \in Seq(visited')
      BY <1>2
    <2>2. scan' = <<scan'[1], scan'[2]>> /\ scan'[1] \in visited' /\ scan'[2] \in Nodes'
      BY <1>2, <1>3, <1>4
    <2>. QED  BY <1>2, <1>4, <2>1, <2>2 DEF SearchInv, SearchTypes
  <1>6. Frontier'
    <2>1. ASSUME NEW i \in visited
          PROVE  OnQueue(i)' \/ (scan' # <<>> /\ i = scan'[1]) \/ Expanded(i)'
      <3>1. CASE OnQueue(i)
        <4>1. PICK k \in 1 .. Len(queue) : queue[k] = i
          BY <3>1 DEF OnQueue
        <4>2. CASE k = 1
          BY <1>1, <1>2, <4>1, <4>2
        <4>3. CASE k # 1
          <5>1. k - 1 \in 1 .. Len(Tail(queue)) /\ Tail(queue)[k - 1] = i
            BY <1>2, <4>1, <4>3
          <5>. QED  BY <1>2, <5>1 DEF OnQueue
        <4>. QED  BY <4>2, <4>3
      <3>2. CASE Expanded(i)
        BY <1>2, <1>4, <3>2 DEF Expanded
      <3>. QED  BY <1>2, <3>1, <3>2 DEF SearchInv, Frontier
    <2>2. \A j \in Nodes : ~ (j < 0)
      BY <1>2
    <2>3. \A j \in NeighborsOf(head) : j \in Nodes
      BY DEF NeighborsOf
    <2>. QED  BY <1>2, <1>4, <2>1, <2>2, <2>3 DEF SearchInv, Frontier
  <1>7. Counted'
    <2>1. components # 0
      BY <1>2 DEF SearchInv, Counted
    <2>. QED  BY <1>2, <1>4, <2>1, ConnectedStays DEF SearchInv, Counted
  <1>8. JudgedAsConnected'
    BY <1>2, ConnectedStays DEF SearchInv, JudgedAsConnected
  <1>. QED  BY <1>2, <1>4, <1>5, <1>6, <1>7, <1>8 DEF PopNode, SearchInv

(* A neighbour that was not seen goes on the queue; when the last one was  *)
(* looked at, the node has all its neighbours seen.                        *)
LEMMA LookSearches ==
    ASSUME SearchInv, LookAtNeighbor
    PROVE  SearchInv'
  <1>1. PICK node, neighbor : node = scan[1] /\ neighbor = scan[2]
    OBVIOUS
  <1>2. /\ node \in visited /\ neighbor \in Nodes /\ visited \subseteq Nodes /\ Nodes \subseteq Nat
        /\ queue \in Seq(visited) /\ scan # <<>>
        /\ site' = site /\ graph' = graph /\ start' = start
        /\ components' = components /\ verdict' = verdict
        /\ scan' = IF neighbor + 1 \in Nodes THEN <<node, neighbor + 1>> ELSE <<>>
    BY <1>1 DEF LookAtNeighbor, SearchInv, SearchTypes, Nodes
  <1>3. Nodes' = Nodes /\ N' = N /\ \A i : NeighborsOf(i)' = NeighborsOf(i) /\ NeighborsOf(i) \subseteq Nodes
    BY <1>2 DEF Nodes, N, NeighborsOf
  <1>4. /\ visited \subseteq visited' /\ visited' \subseteq Nodes /\ queue' \in Seq(visited')
        /\ neighbor \in NeighborsOf(node) => neighbor \in visited'
        /\ \A i \in visited' : i \in visited \/ (i = neighbor /\ OnQueue(i)' /\ neighbor \in NeighborsOf(node))
        /\ \A i : OnQueue(i) => OnQueue(i)'
    <2>1. CASE neighbor \in NeighborsOf(node) \ visited
      <3>1. visited' = visited \cup {neighbor} /\ queue' = Append(queue, neighbor)
        BY <1>1, <2>1 DEF LookAtNeighbor
      <3>2. queue \in Seq(visited') /\ neighbor \in visited'
        BY <1>2, <3>1
      <3>3. /\ queue' \in Seq(visited') /\ Len(queue') = Len(queue) + 1 /\ Len(queue) \in Nat
            /\ queue'[Len(queue) + 1] = neighbor
            /\ \A k \in 1 .. Len(queue) : queue'[k] = queue[k]
        BY <3>1, <3>2
      <3>4. Len(queue) + 1 \in 1 .. Len(queue')
        BY <3>3
      <3>5. OnQueue(neighbor)'
        BY <3>3, <3>4 DEF OnQueue
      <3>6. \A i : OnQueue(i) => OnQueue(i)'
        BY <3>3 DEF OnQueue
      <3>. QED  BY <1>2, <2>1, <3>1, <3>3, <3>5, <3>6
    <2>2. CASE neighbor \notin NeighborsOf(node) \ visited
      <3>1. visited' = visited /\ queue' = queue
        BY <1>1, <2>2 DEF LookAtNeighbor
      <3>. QED  BY <1>2, <2>2, <3>1 DEF OnQueue
    <2>. QED  BY <2>1, <2>2
  <1>5. SearchTypes'
    <2>1. scan' # <<>> => scan' = <<scan'[1], scan'[2]>> /\ scan'[1] \in visited' /\ scan'[2] \in Nodes'
      BY <1>2, <1>3, <1>4
    <2>. QED  BY <1>2, <1>3, <1>4, <2>1 DEF SearchInv, SearchTypes
  <1>6. \A j \in NeighborsOf(node) : j < neighbor + 1 => j \in visited'
    <2>1. \A j \in NeighborsOf(node) : j < neighbor => j \in visited
      BY <1>1, <1>2 DEF SearchInv, Frontier
    <2>2. \A j \in NeighborsOf(node) : j \in Nat /\ neighbor \in Nat
      BY <1>2, <1>3
    <2>3. \A j \in NeighborsOf(node) : j < neighbor + 1 => j < neighbor \/ j = neighbor
      BY <2>2
    <2>. QED  BY <1>4, <2>1, <2>3
  <1>7. Frontier'
    <2>1. ASSUME NEW i \in visited
          PROVE  OnQueue(i)' \/ (scan' # <<>> /\ i = scan'[1]) \/ Expanded(i)'
      <3>1. CASE OnQueue(i)
        BY <1>4, <3>1
      <3>2. CASE i = node
        <4>1. CASE neighbor + 1 \in Nodes
          BY <1>2, <3>2, <4>1
        <4>2. CASE neighbor + 1 \notin Nodes
          <5>1. \A j \in Nodes : j < neighbor + 1
            BY <1>2, <4>2, ScenesListed DEF Nodes, SearchInv, SearchTypes
          <5>. QED  BY <1>3, <1>6, <3>2, <5>1 DEF Expanded
        <4>. QED  BY <4>1, <4>2
      <3>3. CASE Expanded(i)
        BY <1>3, <1>4, <3>3 DEF Expanded
      <3>. QED  BY <1>1, <3>1, <3>2, <3>3 DEF SearchInv, Frontier
    <2>2. (scan # <<>> => \A j \in NeighborsOf(scan[1]) : j < scan[2] => j \in visited)'
      <3>1. CASE neighbor + 1 \in Nodes
        <4>1. scan' = <<node, neighbor + 1>>
          BY <1>2, <3>1
        <4>2. \A j \in NeighborsOf(node)' : j < neighbor + 1 => j \in visited'
          BY <1>3, <1>6
        <4>. QED  BY <4>1, <4>2 DEF NeighborsOf
      <3>2. CASE neighbor + 1 \notin Nodes
        BY <1>2, <3>2
      <3>. QED  BY <3>1, <3>2
    <2>3. \A i \in Nodes' : i < start' => i \in visited'
      BY <1>2, <1>3, <1>4 DEF SearchInv, Frontier
    <2>. QED  BY <1>4, <2>1, <2>2, <2>3 DEF Frontier
  <1>8. Counted'
    <2>1. components # 0 /\ visited' # {}
      BY <1>2, <1>4 DEF SearchInv, Counted
    <2>2. ASSUME components = 1, NEW part \in SUBSET Nodes, 0 \in part, ClosedPart(part)
          PROVE  visited' \subseteq part
      <3>1. visited \subseteq part
        BY <2>2 DEF SearchInv, Counted
      <3>2. NeighborsOf(node) \subseteq part
        BY <1>2, <2>2, <3>1 DEF ClosedPart
      <3>. QED  BY <1>4, <3>1, <3>2
    <2>. QED  BY <1>2, <1>3, <2>1, <2>2, ConnectedStays DEF SearchInv, Counted
  <1>9. JudgedAsConnected'
    BY <1>2, ConnectedStays DEF SearchInv, JudgedAsConnected
  <1>. QED  BY <1>2, <1>3, <1>5, <1>7, <1>8, <1>9 DEF LookAtNeighbor, SearchInv

LEMMA UnchangedSearches ==
    ASSUME SearchInv, UNCHANGED <<site, graph, visited, queue, scan, start, components>>
    PROVE  SearchTypes' /\ Frontier' /\ Counted' /\ N' = N
  <1>1. Nodes' = Nodes /\ N' = N /\ \A i : NeighborsOf(i)' = NeighborsOf(i)
    BY DEF Nodes, N, NeighborsOf
  <1>2. \A i : OnQueue(i)' = OnQueue(i) /\ Expanded(i)' = Expanded(i)
    BY <1>1 DEF OnQueue, Expanded
  <1>3. SearchTypes'
    BY <1>1 DEF SearchInv, SearchTypes
  <1>4. Frontier'
    BY <1>1, <1>2 DEF SearchInv, Frontier
  <1>5. Counted'
    BY <1>1, ConnectedStays DEF SearchInv, Counted
  <1>. QED  BY <1>1, <1>3, <1>4, <1>5

(* After the last start everything was seen: from one start, the graph is  *)
(* connected, since with a closed part the rest is closed as well.         *)
LEMMA JudgeSearches ==
    ASSUME SearchInv, JudgeGraph
    PROVE  SearchInv'
  <1>1. /\ queue = <<>> /\ scan = <<>> /\ start \notin Nodes /\ verdict = "search"
        /\ site' = site /\ graph' = graph /\ visited' = visited /\ queue' = queue /\ scan' = scan
        /\ start' = start /\ components' = components
    BY DEF JudgeGraph
  <1>2. /\ N \in Nat /\ N > 0 /\ start = N /\ visited \subseteq Nodes /\ components \in Nat
        /\ 0 \in Nodes
    BY <1>1, ScenesListed DEF SearchInv, SearchTypes, Nodes, N
  <1>3. visited = Nodes
    <2>1. \A i \in Nodes : i < N
      BY <1>2 DEF Nodes, N
    <2>. QED  BY <1>2, <2>1 DEF SearchInv, Frontier
  <1>4. components # 0
    BY <1>2 DEF SearchInv, Counted
  <1>5. ASSUME components = 1 PROVE Connected
    <2>. SUFFICES ASSUME NEW part \in SUBSET Nodes, part # {}, ClosedPart(part)
                  PROVE  part = Nodes
      BY DEF Connected
    <2>1. \A p \in SUBSET Nodes : 0 \in p /\ ClosedPart(p) => p = Nodes
      BY <1>3, <1>5 DEF SearchInv, Counted
    <2>2. CASE 0 \in part
      BY <2>1, <2>2
    <2>3. CASE 0 \notin part
      <3>1. ClosedPart(Nodes \ part)
        BY DEF ClosedPart, NeighborsOf
      <3>2. Nodes \ part = Nodes
        BY <1>2, <2>1, <2>3, <3>1
      <3>. QED  BY <3>2
    <2>. QED  BY <2>2, <2>3
  <1>6. components # 1 => ~ Connected
    BY <1>2, <1>4 DEF SearchInv, Counted
  <1>7. \/ components # 1 /\ verdict' = "disconnected"
        \/ components = 1 /\ verdict' = "hub"
        \/ components = 1 /\ verdict' = "lambda2"
    BY DEF JudgeGraph
  <1>8. JudgedAsConnected'
    BY <1>1, <1>5, <1>6, <1>7, ConnectedStays DEF JudgedAsConnected
  <1>9. SearchTypes' /\ Frontier' /\ Counted' /\ N' = N
    BY <1>1, UnchangedSearches
  <1>10. verdict' # "vectors" /\ verdict' # "search"
    BY <1>7
  <1>. QED  BY <1>8, <1>9, <1>10 DEF SearchInv

LEMMA StepSearches == SearchInv /\ [SiteNext]_siteVars => SearchInv'
  <1>. SUFFICES ASSUME SearchInv, [SiteNext]_siteVars PROVE SearchInv'
    OBVIOUS
  <1>1. CASE BuildGraph
    BY <1>1, BuildSearches
  <1>2. CASE StartComponent
    BY <1>2, StartSearches
  <1>3. CASE PopNode
    BY <1>3, PopSearches
  <1>4. CASE LookAtNeighbor
    BY <1>4, LookSearches
  <1>5. CASE JudgeGraph
    BY <1>5, JudgeSearches
  <1>6. CASE EstimateLambda2
    <2>1. /\ verdict = "lambda2"
          /\ verdict' = "accepted" \/ verdict' = "below threshold" \/ verdict' = "not finite"
      BY <1>6 DEF EstimateLambda2
    <2>2. UNCHANGED <<site, graph, visited, queue, scan, start, components>>
      BY <1>6 DEF EstimateLambda2
    <2>3. Connected' <=> Connected
      BY <2>2, ConnectedStays
    <2>4. Connected
      BY <2>1 DEF SearchInv, JudgedAsConnected
    <2>5. JudgedAsConnected'
      BY <2>1, <2>3, <2>4 DEF JudgedAsConnected
    <2>. QED  BY <2>1, <2>2, <2>5, UnchangedSearches DEF SearchInv
  <1>7. CASE UNCHANGED siteVars
    <2>1. UNCHANGED <<site, graph, visited, queue, scan, start, components>> /\ verdict' = verdict
      BY <1>7 DEF siteVars
    <2>2. Connected' <=> Connected
      BY <2>1, ConnectedStays
    <2>3. JudgedAsConnected'
      BY <2>1, <2>2 DEF SearchInv, JudgedAsConnected
    <2>. QED  BY <2>1, <2>3, UnchangedSearches DEF SearchInv
  <1>. QED  BY <1>1, <1>2, <1>3, <1>4, <1>5, <1>6, <1>7 DEF SiteNext

(* A graph that validation lets pass as connected is connected and one it  *)
(* turns away is not, for any number of scenes, any k and any distances    *)
(* (count_connected_components, site_graph.rs:320).                        *)
THEOREM SearchIsRight == SiteSpec => []JudgedAsConnected
  <1>1. SearchInv => JudgedAsConnected
    BY DEF SearchInv
  <1>. QED  BY <1>1, InitSearches, StepSearches, PTL DEF SiteSpec

-------------------------------------------------------------------------------
(* The vectors of the scenes are as long as each other, and numbers.       *)
LEMMA LatentNumbers ==
    ASSUME NEW c \in Seq(Points \X Points)
    PROVE  LatentVector(c) \in Seq(Int)
  <1>1. \A e \in Points \X Points : e[1] \o e[2] \in Seq(Int)
    <2>. SUFFICES ASSUME NEW e \in Points \X Points PROVE e[1] \o e[2] \in Seq(Int)
      OBVIOUS
    <2>1. PICK p \in Points, q \in Points : p = e[1] /\ q = e[2]
      OBVIOUS
    <2>2. \A r \in Points : r \in Seq(Int)
      <3>1. \A x, y \in Int : <<x, y>> \in Seq(Int)
        OBVIOUS
      <3>. TAKE r \in Points
      <3>2. PICK x \in Int, y \in Int : r = <<x, y>>
        BY DEF Points
      <3>. QED  BY <3>1, <3>2
    <2>. QED  BY <2>1, <2>2
  <1>2. [k \in DOMAIN c |-> c[k][1] \o c[k][2]] \in Seq(Seq(Int))
    <2>1. DOMAIN c = 1 .. Len(c) /\ Len(c) \in Nat /\ \A k \in 1 .. Len(c) : c[k] \in Points \X Points
      BY LenProperties, ElementOfSeq
    <2>2. \A k \in 1 .. Len(c) : c[k][1] \o c[k][2] \in Seq(Int)
      BY <1>1, <2>1
    <2>. QED  BY <2>1, <2>2
  <1>. QED  BY <1>2, FlattenLayout DEF LatentVector

LEMMA PaddedNumbers ==
    ASSUME NEW n \in Nat, NEW vectors \in [1 .. n -> Seq(Int)]
    PROVE  \E m \in Nat : Padded(vectors) \in [1 .. n -> [1 .. m -> Int]]
  <1>1. CASE n = 0
    <2>1. Padded(vectors) \in [1 .. n -> [1 .. 0 -> Int]]
      BY <1>1 DEF Padded
    <2>. QED  BY <2>1
  <1>2. CASE n # 0
    <2>. DEFINE L == {Len(v) : v \in Range(vectors)}
    <2>1. \A i \in 1 .. n : Len(vectors[i]) \in L /\ Len(vectors[i]) \in Nat
      BY LenProperties DEF Range
    <2>2. L \subseteq Int /\ L # {}
      <3>1. 1 \in 1 .. n
        BY <1>2
      <3>2. \A v \in Range(vectors) : v \in Seq(Int)
        BY DEF Range
      <3>3. \A v \in Range(vectors) : Len(v) \in Int
        BY <3>2, LenProperties
      <3>. QED  BY <2>1, <3>1, <3>3
    <2>3. IsFiniteSet(L)
      <3>. DEFINE f == [i \in 1 .. n |-> Len(vectors[i])]
      <3>1. f \in Surjection(1 .. n, L)
        BY <2>1 DEF Surjection, Range
      <3>2. IsFiniteSet(1 .. n)
        <4>1. 1 \in Int /\ n \in Int
          OBVIOUS
        <4>. QED  BY <4>1, FS_Interval
      <3>. HIDE DEF f, L
      <3>. QED  BY <3>1, <3>2, FS_Surjection
    <2>. HIDE DEF L
    <2>4. PICK m : m = Max(L)
      OBVIOUS
    <2>5. m \in L /\ \A l \in L : l <= m
      BY <2>2, <2>3, <2>4, Maximum
    <2>6. m \in Nat
      <3>1. 1 \in 1 .. n
        BY <1>2
      <3>2. PICK a \in Nat : a = Len(vectors[1])
        BY <2>1, <3>1
      <3>3. a <= m /\ m \in Int
        BY <2>1, <2>2, <2>5, <3>1, <3>2
      <3>. QED  BY <3>3
    <2>7. ASSUME NEW i \in 1 .. n
          PROVE  vectors[i] \o [k \in 1 .. m - Len(vectors[i]) |-> 0] \in [1 .. m -> Int]
      <3>1. PICK v \in Seq(Int), l \in Nat : v = vectors[i] /\ l = Len(vectors[i]) /\ l <= m /\ l = Len(v)
        BY <2>1, <2>5
      <3>2. m - l \in Nat /\ l + (m - l) = m
        BY <2>6, <3>1
      <3>3. PICK d \in Nat : d = m - l
        BY <3>2
      <3>4. PICK z : z = [k \in 1 .. d |-> 0]
        OBVIOUS
      <3>5. z \in [1 .. d -> Int]
        BY <3>4
      <3>6. z \in Seq(Int) /\ Len(z) = d
        BY <3>5, LenProperties
      <3>7. v \o z \in Seq(Int) /\ Len(v \o z) = m
        <4>1. v \o z \in Seq(Int) /\ Len(v \o z) = Len(v) + Len(z)
          BY <3>6, ConcatProperties
        <4>2. Len(v) + Len(z) = m
          BY <3>1, <3>2, <3>3, <3>6
        <4>. QED  BY <4>1, <4>2
      <3>8. v \o z \in [1 .. m -> Int]
        BY <3>7, LenProperties
      <3>. QED  BY <3>1, <3>3, <3>4, <3>8
    <2>8. Padded(vectors) = [i \in 1 .. n |-> vectors[i] \o [k \in 1 .. m - Len(vectors[i]) |-> 0]]
      BY <2>4 DEF Padded, L
    <2>9. Padded(vectors) \in [1 .. n -> [1 .. m -> Int]]
      BY <2>7, <2>8
    <2>. QED  BY <2>6, <2>9
  <1>. QED  BY <1>1, <1>2

LEMMA DistancesAreNumbers ==
    ASSUME site \in Sites
    PROVE  Distances \in [Nodes -> [Nodes -> Int]]
  <1>1. PICK c \in Seq(Seq(Points \X Points)), n \in Nat : c = site.scenes /\ n = Len(c)
    BY SitesAssumption, LenProperties
  <1>2. PICK m \in Nat : Vectors \in [1 .. n -> [1 .. m -> Int]]
    <2>1. DOMAIN c = 1 .. n /\ \A i \in 1 .. n : c[i] \in Seq(Points \X Points)
      BY <1>1, LenProperties, ElementOfSeq
    <2>2. [i \in DOMAIN c |-> LatentVector(c[i])] \in [1 .. n -> Seq(Int)]
      BY <2>1, LatentNumbers
    <2>. QED  BY <1>1, <2>2, PaddedNumbers DEF Vectors
  <1>3. PICK w : w = Vectors
    OBVIOUS
  <1>. DEFINE squared(u, v) == [k \in DOMAIN u |-> (u[k] - v[k]) * (u[k] - v[k])]
  <1>4. ASSUME NEW i \in Nodes, NEW j \in Nodes
        PROVE  SumFunction(squared(w[i + 1], w[j + 1])) \in Int
    <2>1. i + 1 \in 1 .. n /\ j + 1 \in 1 .. n
      BY <1>1 DEF Nodes
    <2>2. PICK u \in [1 .. m -> Int], v \in [1 .. m -> Int] : u = w[i + 1] /\ v = w[j + 1]
      BY <1>2, <1>3, <2>1
    <2>3. PICK q : q = squared(u, v)
      OBVIOUS
    <2>4. DOMAIN q = 1 .. m /\ \A k \in 1 .. m : q[k] \in Int
      BY <2>3
    <2>5. IsFiniteSet(1 .. m)
      <3>1. 1 \in Int /\ m \in Int
        OBVIOUS
      <3>. QED  BY <3>1, FS_Interval
    <2>6. SumFunctionOnSet(q, 1 .. m) \in Int
      <3>1. \A k \in 1 .. m : q[k] \in Int /\ q[k] \in Int /\ q[k] <= q[k]
        BY <2>4
      <3>. QED  BY <2>5, <3>1, SumMonotone
    <2>. QED  BY <2>2, <2>3, <2>4, <2>6 DEF SumFunction
  <1>5. Distances = [i \in Nodes |-> [j \in Nodes |-> SumFunction(squared(w[i + 1], w[j + 1]))]]
    BY <1>3 DEF Distances
  <1>. HIDE DEF squared
  <1>. QED  BY <1>4, <1>5

(* The k nearest are k, whatever the ties.                                 *)
Nearer(V, d, j) == {m \in V : d[m] < d[j] \/ (d[m] = d[j] /\ m < j)}
Nearest(V, d, k) == {j \in V : Cardinality(Nearer(V, d, j)) < k}

LEMMA NearestCounted ==
    ASSUME NEW V \in SUBSET Int, IsFiniteSet(V), NEW d \in [V -> Int], NEW k \in 0 .. Cardinality(V)
    PROVE  Cardinality(Nearest(V, d, k)) = k
  <1>1. PICK n \in Nat : n = Cardinality(V)
    BY FS_CardinalityType
  <1>2. ASSUME NEW j \in V
        PROVE  /\ IsFiniteSet(Nearer(V, d, j)) /\ Cardinality(Nearer(V, d, j)) \in 0 .. n - 1
               /\ j \notin Nearer(V, d, j) /\ Nearer(V, d, j) \subseteq V
    <2>1. PICK s : s = Nearer(V, d, j)
      OBVIOUS
    <2>2. j \notin s /\ s \subseteq V
      <3>1. PICK x \in Int, y \in Int : x = d[j] /\ y = j
        OBVIOUS
      <3>2. ~ (x < x) /\ ~ (y < y)
        OBVIOUS
      <3>. QED  BY <2>1, <3>1, <3>2 DEF Nearer
    <2>3. IsFiniteSet(s) /\ Cardinality(s) <= n /\ Cardinality(s) \in Nat /\ (Cardinality(s) = n => s = V)
      BY <1>1, <2>2, FS_Subset, FS_CardinalityType
    <2>4. Cardinality(s) # n
      BY <2>2, <2>3
    <2>. QED  BY <2>1, <2>2, <2>3, <2>4
  <1>3. ASSUME NEW i \in V, NEW j \in V, i \in Nearer(V, d, j)
        PROVE  Cardinality(Nearer(V, d, i)) < Cardinality(Nearer(V, d, j))
    <2>1. Nearer(V, d, i) \subseteq Nearer(V, d, j)
      <3>. SUFFICES ASSUME NEW m \in V, d[m] < d[i] \/ (d[m] = d[i] /\ m < i)
                    PROVE  d[m] < d[j] \/ (d[m] = d[j] /\ m < j)
        BY DEF Nearer
      <3>1. d[i] < d[j] \/ (d[i] = d[j] /\ i < j)
        BY <1>3 DEF Nearer
      <3>2. PICK x \in Int, y \in Int, z \in Int : x = d[m] /\ y = d[i] /\ z = d[j]
        OBVIOUS
      <3>3. i \in Int /\ j \in Int /\ m \in Int
        OBVIOUS
      <3>. QED  BY <3>1, <3>2, <3>3
    <2>2. PICK s, t : s = Nearer(V, d, i) /\ t = Nearer(V, d, j)
      OBVIOUS
    <2>3. s \in SUBSET t /\ s # t
      BY <1>2, <1>3, <2>1, <2>2
    <2>4. /\ IsFiniteSet(t) /\ Cardinality(t) \in Nat /\ Cardinality(s) \in Nat
      BY <1>2, <2>2
    <2>5. Cardinality(s) <= Cardinality(t) /\ (Cardinality(s) = Cardinality(t) => s = t)
      BY <2>3, <2>4, FS_Subset
    <2>. QED  BY <2>2, <2>3, <2>4, <2>5
  <1>4. \A i, j \in V : i # j => i \in Nearer(V, d, j) \/ j \in Nearer(V, d, i)
    <2>. SUFFICES ASSUME NEW i \in V, NEW j \in V, i # j
                  PROVE  \/ d[i] < d[j] \/ (d[i] = d[j] /\ i < j)
                         \/ d[j] < d[i] \/ (d[j] = d[i] /\ j < i)
      BY DEF Nearer
    <2>1. PICK x \in Int, y \in Int : x = d[i] /\ y = d[j]
      OBVIOUS
    <2>2. i \in Int /\ j \in Int
      OBVIOUS
    <2>. QED  BY <2>1, <2>2
  <1>5. PICK f : f = [j \in V |-> Cardinality(Nearer(V, d, j))]
    OBVIOUS
  <1>6. f \in [V -> 0 .. n - 1]
    BY <1>2, <1>5
  <1>7. \A i, j \in V : f[i] = f[j] => i = j
    <2>. SUFFICES ASSUME NEW i \in V, NEW j \in V, f[i] = f[j], i # j PROVE FALSE
      OBVIOUS
    <2>1. f[i] < f[j] \/ f[j] < f[i]
      BY <1>3, <1>4, <1>5
    <2>2. PICK a \in Int : a = f[i] /\ a = f[j]
      BY <1>6
    <2>. QED  BY <2>1, <2>2
  <1>8. Cardinality(Below(V, f, k)) = k
    <2>1. k \in 0 .. n
      BY <1>1
    <2>. QED  BY <1>1, <1>6, <1>7, <2>1, Ranked
  <1>9. Below(V, f, k) = Nearest(V, d, k)
    BY <1>5 DEF Below, Nearest
  <1>. QED  BY <1>8, <1>9


(* The neighbours a node asks for, and the graph they make.                *)
LEMMA AsksForNearest ==
    ASSUME site \in Sites, EffectiveK \in Nat, EffectiveK <= N - 1, NEW d, d = Distances,
           NEW i \in Nodes
    PROVE  /\ d[i] \in [Nodes -> Int]
           /\ IsFiniteSet(Nodes) /\ N \in Nat
           /\ DirectedNeighbors[i] = Nearest(Nodes \ {i}, d[i], EffectiveK)
           /\ Cardinality(DirectedNeighbors[i]) = EffectiveK
  <1>1. N \in Nat /\ Nodes = 0 .. N - 1 /\ Nodes \subseteq Int
    BY ScenesListed DEF Nodes, N
  <1>2. IsFiniteSet(Nodes) /\ Cardinality(Nodes) = N
    <2>1. 0 \in Int /\ N - 1 \in Int
      BY <1>1
    <2>2. IsFiniteSet(0 .. N - 1) /\ Cardinality(0 .. N - 1) = IF 0 > N - 1 THEN 0 ELSE N - 1 - 0 + 1
      BY <2>1, FS_Interval
    <2>3. N # 0
      BY <1>1
    <2>. QED  BY <1>1, <2>2, <2>3
  <1>3. IsFiniteSet(Nodes \ {i}) /\ Cardinality(Nodes \ {i}) = N - 1
    BY <1>2, FS_RemoveElement
  <1>4. d[i] \in [Nodes -> Int]
    BY DistancesAreNumbers
  <1>5. PICK V, e : V = Nodes \ {i} /\ e = [j \in V |-> d[i][j]]
    OBVIOUS
  <1>6. e \in [V -> Int] /\ V \in SUBSET Int /\ IsFiniteSet(V) /\ EffectiveK \in 0 .. Cardinality(V)
    BY <1>1, <1>3, <1>4, <1>5
  <1>7. Cardinality(Nearest(V, e, EffectiveK)) = EffectiveK
    BY <1>6, NearestCounted
  <1>8. \A j \in V : Nearer(V, e, j) = Nearer(V, d[i], j)
    BY <1>5 DEF Nearer
  <1>9. Nearest(V, e, EffectiveK) = Nearest(V, d[i], EffectiveK)
    BY <1>8 DEF Nearest
  <1>10. DirectedNeighbors[i] = Nearest(V, d[i], EffectiveK)
    BY <1>5 DEF DirectedNeighbors, Nearest, Nearer
  <1>. QED  BY <1>1, <1>2, <1>4, <1>5, <1>7, <1>9, <1>10

LEMMA GraphJoins ==
    ASSUME site \in Sites, EffectiveK \in Nat, EffectiveK <= N - 1, graph = UndirectedKnnGraph
    PROVE  Joined
  <1>1. PICK d, near : d = Distances /\ near = DirectedNeighbors
    OBVIOUS
  <1>2. graph = {e \in Nodes \X Nodes : e[1] < e[2] /\ (e[2] \in near[e[1]] \/ e[1] \in near[e[2]])}
    BY <1>1 DEF UndirectedKnnGraph
  <1>3. \A i, j \in Nodes : <<i, j>> \in graph <=> i < j /\ (j \in near[i] \/ i \in near[j])
    BY <1>2
  <1>. DEFINE nearer(i, j) == {m \in Nodes \ {i} : d[i][m] < d[i][j]}
              asNear(i, j) == {m \in Nodes \ {i, j} : d[i][m] <= d[i][j]}
  <1>4. ASSUME NEW i \in Nodes, NEW j \in Nodes \ {i}
        PROVE  /\ j \in near[i] => Cardinality(nearer(i, j)) < EffectiveK
               /\ j \notin near[i] => Cardinality(asNear(i, j)) >= EffectiveK
    <2>0. /\ d[i] \in [Nodes -> Int]
          /\ near[i] = Nearest(Nodes \ {i}, d[i], EffectiveK)
      BY <1>1, AsksForNearest
    <2>1. PICK s : s = Nearer(Nodes \ {i}, d[i], j)
      OBVIOUS
    <2>2. nearer(i, j) \subseteq s
      BY <2>1 DEF Nearer
    <2>3. s \subseteq asNear(i, j)
      <3>1. d[i] \in [Nodes -> Int] /\ j \in Int
        BY <2>0 DEF Nodes
      <3>. SUFFICES ASSUME NEW m \in Nodes \ {i}, d[i][m] < d[i][j] \/ (d[i][m] = d[i][j] /\ m < j)
                    PROVE  m # j /\ d[i][m] <= d[i][j]
        BY <2>1 DEF Nearer
      <3>2. PICK x \in Int, y \in Int : x = d[i][m] /\ y = d[i][j]
        BY <3>1
      <3>3. x <= y
        BY <3>2
      <3>4. m # j
        <4>1. CASE x < y
          BY <3>2, <4>1
        <4>2. CASE x = y /\ m < j
          BY <3>1, <4>2
        <4>. QED  BY <3>2, <4>1, <4>2
      <3>. QED  BY <3>2, <3>3, <3>4
    <2>4. IsFiniteSet(asNear(i, j)) /\ IsFiniteSet(Nodes)
      <3>1. IsFiniteSet(Nodes)
        BY <1>1, AsksForNearest
      <3>. QED  BY <3>1, FS_Subset
    <2>5. j \in near[i] <=> Cardinality(s) < EffectiveK
      BY <2>0, <2>1 DEF Nearest
    <2>. HIDE DEF nearer, asNear
    <2>6. PICK p, q : p = nearer(i, j) /\ q = asNear(i, j)
      OBVIOUS
    <2>7. IsFiniteSet(s) /\ IsFiniteSet(q) /\ Cardinality(s) \in Nat /\ Cardinality(q) \in Nat
          /\ Cardinality(s) <= Cardinality(q)
      BY <2>3, <2>4, <2>6, FS_Subset, FS_CardinalityType
    <2>8. Cardinality(p) \in Nat /\ Cardinality(p) <= Cardinality(s)
      BY <2>2, <2>6, <2>7, FS_Subset, FS_CardinalityType
    <2>9. j \in near[i] => Cardinality(p) < EffectiveK
      BY <2>5, <2>7, <2>8
    <2>10. j \notin near[i] => Cardinality(q) >= EffectiveK
      BY <2>5, <2>7
    <2>. QED  BY <2>6, <2>9, <2>10
  <1>5. ASSUME NEW i \in Nodes
        PROVE  Degree(i) >= EffectiveK
    <2>1. PICK s, t : s = near[i] /\ t = NeighborsOf(i)
      OBVIOUS
    <2>2. s \subseteq Nodes \ {i} /\ Cardinality(s) = EffectiveK /\ IsFiniteSet(Nodes)
      BY <1>1, <2>1, AsksForNearest DEF Nearest
    <2>3. s \subseteq t
      <3>. SUFFICES ASSUME NEW j \in s PROVE <<i, j>> \in graph \/ <<j, i>> \in graph
        BY <2>1, <2>2 DEF NeighborsOf
      <3>1. i < j \/ j < i
        <4>1. i \in Int /\ j \in Int /\ i # j
          BY <2>2 DEF Nodes
        <4>. QED  BY <4>1
      <3>. QED  BY <1>3, <2>1, <2>2, <3>1
    <2>4. t \subseteq Nodes
      BY <2>1 DEF NeighborsOf
    <2>5. IsFiniteSet(t) /\ Cardinality(t) \in Nat
      BY <2>2, <2>4, FS_Subset, FS_CardinalityType
    <2>6. Cardinality(s) <= Cardinality(t)
      BY <2>3, <2>5, FS_Subset
    <2>. QED  BY <2>1, <2>2, <2>5, <2>6 DEF Degree
  <1>6. \A i, j \in Nodes : i < j =>
            IF <<i, j>> \in graph
            THEN Cardinality(nearer(i, j)) < EffectiveK \/ Cardinality(nearer(j, i)) < EffectiveK
            ELSE Cardinality(asNear(i, j)) >= EffectiveK /\ Cardinality(asNear(j, i)) >= EffectiveK
    <2>. HIDE DEF nearer, asNear
    <2>. SUFFICES ASSUME NEW i \in Nodes, NEW j \in Nodes, i < j
                  PROVE  IF <<i, j>> \in graph
                         THEN Cardinality(nearer(i, j)) < EffectiveK \/ Cardinality(nearer(j, i)) < EffectiveK
                         ELSE Cardinality(asNear(i, j)) >= EffectiveK /\ Cardinality(asNear(j, i)) >= EffectiveK
      OBVIOUS
    <2>1. i # j
      BY DEF Nodes
    <2>. QED  BY <1>3, <1>4, <2>1
  <1>. QED  BY <1>1, <1>5, <1>6 DEF Joined

-------------------------------------------------------------------------------
(* From the moment the graph is built it is the one of the scenes.         *)
KnnInv ==
    /\ SearchInv
    /\ verdict \notin {"vectors", "invalid size"} =>
           N > 0 /\ EffectiveK # 0 /\ graph = UndirectedKnnGraph
    /\ verdict \in {"lambda2", "accepted"} => MaxDegree <= HubCap

LEMMA EffectiveKBounds ==
    ASSUME site \in Sites, N > 0
    PROVE  EffectiveK \in Nat /\ EffectiveK <= N - 1 /\ HubCap \in Nat
  <1>1. PICK k \in Nat, n \in Nat : k = site.site_k /\ n = Len(site.scenes) /\ n = N
    BY ScenesListed, SitesAssumption DEF N
  <1>2. PICK a \in Nat : a = n - 1
    BY <1>1
  <1>3. PICK l : l = Min({k, a})
    OBVIOUS
  <1>4. l \in Nat /\ l <= a
    BY <1>3, MinOfTwo
  <1>. QED  BY <1>1, <1>2, <1>3, <1>4 DEF EffectiveK, HubCap

LEMMA GraphStays ==
    ASSUME site' = site
    PROVE  /\ UndirectedKnnGraph' = UndirectedKnnGraph /\ EffectiveK' = EffectiveK /\ N' = N
           /\ HubCap' = HubCap
           /\ graph' = graph => MaxDegree' = MaxDegree
  <1>1. EffectiveK' = EffectiveK /\ N' = N /\ HubCap' = HubCap /\ Nodes' = Nodes
    BY DEF EffectiveK, N, HubCap, Nodes
  <1>2. Distances' = Distances
    <2>1. Vectors' = Vectors
      BY DEF Vectors
    <2>. QED  BY <1>1, <2>1 DEF Distances
  <1>3. DirectedNeighbors' = DirectedNeighbors
    BY <1>1, <1>2 DEF DirectedNeighbors
  <1>4. UndirectedKnnGraph' = UndirectedKnnGraph
    BY <1>1, <1>3 DEF UndirectedKnnGraph
  <1>5. graph' = graph => MaxDegree' = MaxDegree
    BY <1>1 DEF MaxDegree, Degree, NeighborsOf
  <1>. QED  BY <1>1, <1>4, <1>5

LEMMA MaxDegreeCounts ==
    ASSUME site \in Sites, N > 0
    PROVE  MaxDegree \in Int
  <1>1. N \in Nat /\ Nodes = 0 .. N - 1 /\ 0 \in Nodes
    BY ScenesListed DEF Nodes, N
  <1>2. IsFiniteSet(Nodes)
    <2>1. 0 \in Int /\ N - 1 \in Int
      BY <1>1
    <2>. QED  BY <1>1, <2>1, FS_Interval
  <1>3. \A i \in Nodes : Degree(i) \in Int
    <2>. TAKE i \in Nodes
    <2>1. IsFiniteSet(NeighborsOf(i))
      BY <1>2, FS_Subset DEF NeighborsOf
    <2>. QED  BY <2>1, FS_CardinalityType DEF Degree
  <1>4. PICK S, f : S = {Degree(i) : i \in Nodes} /\ f = [i \in Nodes |-> Degree(i)]
    OBVIOUS
  <1>5. S \subseteq Int /\ S # {} /\ f \in Surjection(Nodes, S)
    BY <1>1, <1>3, <1>4 DEF Surjection
  <1>6. IsFiniteSet(S)
    BY <1>2, <1>5, FS_Surjection
  <1>7. Max(S) \in S
    BY <1>5, <1>6, Maximum
  <1>. QED  BY <1>4, <1>5, <1>7 DEF MaxDegree

LEMMA KnnStep ==
    ASSUME KnnInv, [SiteNext]_siteVars
    PROVE  KnnInv'
  <1>0. SearchInv' /\ site \in Sites
    BY StepSearches DEF KnnInv, SearchInv, SearchTypes
  <1>1. CASE BuildGraph
    <2>1. site' = site /\ verdict' \in {"search", "invalid size"}
      BY <1>1 DEF BuildGraph
    <2>2. verdict' = "search" => N > 0 /\ EffectiveK # 0 /\ graph' = UndirectedKnnGraph
      BY <1>0, <1>1, ScenesListed DEF BuildGraph, N
    <2>. QED  BY <1>0, <2>1, <2>2, GraphStays DEF KnnInv
  <1>2. CASE site' = site /\ graph' = graph /\ verdict' = verdict
    BY <1>0, <1>2, GraphStays DEF KnnInv
  <1>3. CASE StartComponent \/ PopNode \/ LookAtNeighbor \/ UNCHANGED siteVars
    BY <1>2, <1>3 DEF StartComponent, PopNode, LookAtNeighbor, siteVars
  <1>4. CASE JudgeGraph
    <2>1. /\ site' = site /\ graph' = graph /\ verdict = "search"
          /\ verdict' \in {"disconnected", "hub", "lambda2"}
          /\ verdict' = "lambda2" => ~ (MaxDegree > HubCap)
      BY <1>4 DEF JudgeGraph
    <2>2. N > 0 /\ EffectiveK # 0 /\ graph = UndirectedKnnGraph
      BY <2>1 DEF KnnInv
    <2>3. verdict' = "lambda2" => MaxDegree <= HubCap
      BY <1>0, <2>1, <2>2, EffectiveKBounds, MaxDegreeCounts
    <2>. QED  BY <1>0, <2>1, <2>2, <2>3, GraphStays DEF KnnInv
  <1>5. CASE EstimateLambda2
    <2>1. /\ site' = site /\ graph' = graph /\ verdict = "lambda2"
          /\ verdict' \in {"accepted", "below threshold", "not finite"}
      BY <1>5 DEF EstimateLambda2
    <2>2. N > 0 /\ EffectiveK # 0 /\ graph = UndirectedKnnGraph /\ MaxDegree <= HubCap
      BY <2>1 DEF KnnInv
    <2>. QED  BY <1>0, <2>1, <2>2, GraphStays DEF KnnInv
  <1>. QED  BY <1>1, <1>3, <1>4, <1>5 DEF SiteNext

(* The graph that is searched joins every scene to its nearest and no      *)
(* other pair, and an accepted one has no hub, for any scenes, any ties    *)
(* and any k (build_undirected_knn_graph, site_graph.rs:223).              *)
THEOREM GraphIsNearest == SiteSpec => []NearestAreJoined
  <1>1. SiteInit => KnnInv
    BY InitSearches DEF SiteInit, KnnInv
  <1>2. KnnInv => NearestAreJoined
    <2>. SUFFICES ASSUME KnnInv PROVE NearestAreJoined
      OBVIOUS
    <2>1. site \in Sites /\ (verdict = "accepted" => MaxDegree <= HubCap)
      BY DEF KnnInv, SearchInv, SearchTypes
    <2>2. CASE verdict = "search"
      <3>1. N > 0 /\ graph = UndirectedKnnGraph
        BY <2>2 DEF KnnInv
      <3>. QED  BY <2>1, <2>2, <3>1, EffectiveKBounds, GraphJoins DEF NearestAreJoined
    <2>. QED  BY <2>1, <2>2 DEF NearestAreJoined
  <1>. QED  BY <1>1, <1>2, KnnStep, PTL DEF SiteSpec
===============================================================================
