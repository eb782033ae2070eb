------------------------------ MODULE SceneTargets ------------------------------
(***************************************************************************)
(* The targets of a scene: ordered quadrant passage, crossing count,       *)
(* quadrant after moves and largest motion (shapeflow-core landscape.rs    *)
(* and target_generation.rs).                                              *)
(*                                                                         *)
(* The landscape is the linear one on the grid: any steepness keeps its    *)
(* order and its symmetry, which is all the targets use.  Memberships are  *)
(* kept as numerators over (2*Unit)^2, averages as sums.                   *)
(***************************************************************************)
EXTENDS SceneTable

VARIABLES
    queries,    \* the move the seed picks for each shape, from 0
    targets     \* the generated targets

targetVars == <<queries, targets>>

AxisMembership(v) == v + Unit

PositionalIdentity(p) ==
    LET u == AxisMembership(p[1])
        v == AxisMembership(p[2])
        w == 2 * Unit
    IN  <<u * v, (w - u) * v, (w - u) * (w - v), u * (w - v)>>

(* The first of the largest components, from 0.                            *)
DominantQuadrantIndex(m) ==
    CHOOSE q \in 0..3 : /\ \A r \in 0..3 : m[r + 1] <= m[q + 1]
                        /\ \A r \in 0 .. q - 1 : m[r + 1] < m[q + 1]

(* Mutant: the lower half of the axis belongs to the right.                *)
HardQuadrantAxisRight(p) ==
    IF p[2] >= 0 THEN IF p[1] < 0 THEN 1 ELSE 0
    ELSE IF p[1] < 0 THEN 2 ELSE 3

HardQuadrant(p) ==
    IF p[2] >= 0 THEN IF p[1] < 0 THEN 1 ELSE 0
    ELSE IF p[1] <= 0 THEN 2 ELSE 3

Memberships(s, i) ==
    [k \in DOMAIN s.shape_paths[i] |-> PositionalIdentity(s.shape_paths[i][k])]

Plus(m, n) == [q \in 1..4 |-> m[q] + n[q]]

(* Runs of samples with one dominant quadrant become one segment, the mean *)
(* of the run's memberships: the next sample joins the last run or begins  *)
(* another.                                                                *)
WithSample(runs, m) ==
    IF runs # <<>> /\ runs[Len(runs)].dominant = DominantQuadrantIndex(m)
    THEN [runs EXCEPT ![Len(runs)].sum = Plus(@, m)]
    ELSE Append(runs, [dominant |-> DominantQuadrantIndex(m), sum |-> m])

RunsOfSamples(memberships) ==
    LET runs[n \in 0 .. Len(memberships)] ==
            IF n = 0 THEN <<>> ELSE WithSample(runs[n - 1], memberships[n])
    IN  runs[Len(memberships)]

CompressIntoSegments(memberships) ==
    [k \in DOMAIN RunsOfSamples(memberships) |-> RunsOfSamples(memberships)[k].sum]

CountQuadrantTransitions(memberships) ==
    Cardinality({k \in 1 .. Len(memberships) - 1 :
        DominantQuadrantIndex(memberships[k]) # DominantQuadrantIndex(memberships[k + 1])})

(* The queried event of shape i, in the order of its moves.                *)
QueriedEvent(s, i, query) ==
    LET own        == {e \in Range(s.motion_events) : e.shape_index = i}
        earlier(e) == {f \in own : f.shape_event_index < e.shape_event_index}
    IN  CHOOSE e \in own : Cardinality(earlier(e)) = query

(* Mutant: where the queried move starts.                                  *)
QuadrantBeforeMove(s, i, query) ==
    [moves |-> query + 1, quadrant |-> HardQuadrant(QueriedEvent(s, i, query).start_point)]

(* Where shape i is after the queried move.                                *)
QuadrantAfterMoves(s, i, query) ==
    [moves |-> query + 1, quadrant |-> HardQuadrant(QueriedEvent(s, i, query).end_point)]

Squared(e) == LET d(k) == e.end_point[k] - e.start_point[k] IN d(1) * d(1) + d(2) * d(2)

(* The largest single motion: a loop over the events that keeps the best   *)
(* distance and, among equals, the smaller rank.                           *)
RankOf(s, e)    == ClassRank(s.identity[e.shape_index])
FallbackRank(s) == Min({ClassRank(s.identity[i]) : i \in DOMAIN s.identity})

Larger(s, best, e) ==
    IF Squared(e) > best.distance THEN [distance |-> Squared(e), rank |-> RankOf(s, e)]
    ELSE IF Squared(e) = best.distance /\ RankOf(s, e) < best.rank
    THEN [best EXCEPT !.rank = RankOf(s, e)]
    ELSE best

LargestMotionRank(s) ==
    LET best[n \in 0 .. Len(s.motion_events)] ==
            IF n = 0 THEN [distance |-> -1, rank |-> FallbackRank(s)]
            ELSE Larger(s, best[n - 1], s.motion_events[n])
    IN  best[Len(s.motion_events)].rank

SceneTargetsOf(s, query) ==
    [oqp |-> [i \in DOMAIN query |-> CompressIntoSegments(Memberships(s, i))],
     xct |-> [i \in DOMAIN query |-> CountQuadrantTransitions(Memberships(s, i))],
     zqh |-> [i \in DOMAIN query |-> QuadrantAfterMoves(s, i, query[i])],
     lme |-> LargestMotionRank(s)]

-------------------------------------------------------------------------------
TargetInit == queries = <<>> /\ targets = None

(* The whole scene fails with a shape that never moves; otherwise a mix of *)
(* seed and shape picks a move of each.                                    *)
GenerateTargets ==
    /\ stage = "scene"
    /\ \E q \in [DOMAIN counts -> 0 .. Max(Range(counts)) - 1] :
          /\ \A i \in DOMAIN counts : q[i] < counts[i]
          /\ queries' = q
          /\ targets' = SceneTargetsOf(scene, q)
    /\ stage' = "targets"
    /\ UNCHANGED <<config, counts, paths, scene>>

TargetsFail ==
    /\ stage = "scene"
    /\ \E i \in DOMAIN counts : counts[i] = 0
    /\ stage' = "targets failed"
    /\ UNCHANGED <<config, counts, paths, scene, queries, targets>>
===============================================================================
