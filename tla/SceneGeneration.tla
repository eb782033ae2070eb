----------------------------- MODULE SceneGeneration -----------------------------
(***************************************************************************)
(* generate_scene: from a configuration to the scene every encoder reads   *)
(* (shapeflow-core scene_generation.rs and trajectory.rs).                 *)
(*                                                                         *)
(* What the code draws from a seeded stream is a nondeterministic choice   *)
(* here.  Coordinates are integers, Unit standing for 1.0; a path bends by *)
(* whole grid steps.  Shapes are numbered from 1, events (ids, slots,      *)
(* shape events) from 0 as in the source.                                  *)
(***************************************************************************)
EXTENDS SceneConfig, SeedSchedule, FiniteSets, FiniteSetsExt

CONSTANTS
    Candidates,         \* the configurations a run starts from
    Policies,           \* the presets it may apply to them
    Unit,               \* the coordinate 1.0
    PathPoints,         \* PathPoints[n]: the points drawn for scenes of n shapes
    SamplesPerEvent,
    Identities(_, _)    \* Identities(assignment, n): the identities n shapes may get

ASSUME CandidatesAssumption ==
    (\A c \in Candidates : ConfigTypes(c)) /\ Policies \subseteq Presets
ASSUME SamplesAssumption == SamplesPerEvent \in Nat \ {0}

VARIABLES
    stage,      \* how far generation has come
    config,
    counts,     \* motion events per shape
    paths,      \* the shape paths sampled so far
    scene       \* the generated scene

genVars == <<stage, config, counts, paths, scene>>

Point == (-Unit .. Unit) \X (-Unit .. Unit)

ASSUME GridAssumption == Unit \in Nat \ {0} /\ \A n \in 1..6 : PathPoints[n] \subseteq Point

Clamp(v) == Max({-Unit, Min({Unit, v})})
Sign(v) == IF v > 0 THEN 1 ELSE IF v < 0 THEN -1 ELSE 0

-------------------------------------------------------------------------------
(* A path has one sample per step of each segment, after its first point.  *)
(* Between the ends of a segment a complex path leaves the straight line   *)
(* along its normal, to alternating sides, by 0.12 for every level.        *)
Bend(complexity) == ((complexity - 1) * Unit * 12) \div 96

Interpolate(a, b, step, bend) ==
    LET straight(d) == a[d] + ((b[d] - a[d]) * step) \div SamplesPerEvent
        normal      == <<- Sign(b[2] - a[2]), Sign(b[1] - a[1])>>
    IN  IF bend = 0 \/ step = SamplesPerEvent THEN <<straight(1), straight(2)>>
        ELSE <<Clamp(straight(1) + bend * normal[1]), Clamp(straight(2) + bend * normal[2])>>

TrajectoryPoints(ends, complexity) ==
    LET segments == Cardinality(DOMAIN ends) - 1
        side(k)  == IF k % 2 = 0 THEN 1 ELSE -1
    IN  [i \in 1 .. 1 + segments * SamplesPerEvent |->
            IF i = 1 THEN ends[0]
            ELSE LET k == (i - 2) \div SamplesPerEvent
                 IN  Interpolate(ends[k], ends[k + 1], ((i - 2) % SamplesPerEvent) + 1,
                                 side(k) * Bend(complexity))]

-------------------------------------------------------------------------------
(* How often each shape moves.  Counts over the budget are taken back one  *)
(* at a time from shapes above their minimum, so any vector between the    *)
(* minimums and the draw that meets the budget may come out; if none does, *)
(* the allocation is exhausted.                                            *)
Exhausted == <<>>

Budget(c) == IF c.n_motion_events_total = None THEN ModeCapacity(c)
             ELSE Min({c.n_motion_events_total, ModeCapacity(c)})

ReduceCountsToBudget(c, drawn, minimums) ==
    IF Total(drawn) <= Budget(c) THEN {drawn}
    ELSE LET reduced == {n \in [DOMAIN drawn -> 0 .. Max(Range(drawn))] :
                            /\ \A i \in DOMAIN drawn : n[i] \in minimums[i] .. drawn[i]
                            /\ Total(n) = Budget(c)}
         IN  IF reduced = {} THEN {Exhausted} ELSE reduced

RandomizedCounts(c) ==
    LET n == c.n_shapes
    IN  UNION {ReduceCountsToBudget(c, drawn, [i \in 1..n |-> 0]) :
                    drawn \in [1..n -> 0 .. c.n_motion_slots]}

RandomizedCountsWithRanges(c) ==
    LET ranges == c.motion_events_per_shape_random_ranges
        low    == [i \in DOMAIN ranges |-> ranges[i].min]
    IN  UNION {ReduceCountsToBudget(c, drawn, low) :
                    drawn \in {d \in [DOMAIN ranges -> 0 .. c.n_motion_slots] :
                                  \A i \in DOMAIN ranges : d[i] \in ranges[i].min .. ranges[i].max}}

ResolveMotionEvents(c) ==
    IF ~ c.randomize_motion_events_per_shape THEN {c.motion_events_per_shape}
    ELSE IF c.motion_events_per_shape_random_ranges # None THEN RandomizedCountsWithRanges(c)
    ELSE RandomizedCounts(c)

-------------------------------------------------------------------------------
(* The slots: distinct and in order for each shape, or over the whole      *)
(* scene when two shapes may not move at once.  SlotChoices is empty when  *)
(* there are fewer slots than events, the index overflow of the source.    *)
Slots(c) == 0 .. c.n_motion_slots - 1

Sorted(slots) ==
    [k \in 1 .. Cardinality(slots) |->
        CHOOSE s \in slots : Cardinality({t \in slots : t <= s}) = k]

(* Mutant: the slots are not sorted.                                       *)
SlotChoicesUnsorted(c, n) ==
    {[i \in DOMAIN n |-> SetToSeq(s[i])] :
        s \in {s \in [DOMAIN n -> SUBSET Slots(c)] : \A i \in DOMAIN n : Cardinality(s[i]) = n[i]}}

SlotChoices(c, n) ==
    IF c.allow_simultaneous
    THEN {[i \in DOMAIN n |-> Sorted(s[i])] :
            s \in {s \in [DOMAIN n -> SUBSET Slots(c)] :
                      \A i \in DOMAIN n : Cardinality(s[i]) = n[i]}}
    ELSE LET before(i) == Total(SubSeq(n, 1, i - 1))
         IN  {[i \in DOMAIN n |-> SubSeq(Sorted(s), before(i) + 1, before(i) + n[i])] :
                s \in kSubset(Total(n), Slots(c))}

(* A shape's k-th event runs from sample k*S of its path to sample (k+1)*S. *)
MotionEvent(c, path, shape, k, slot, id) ==
    [global_event_index |-> id, time_slot |-> slot, shape_index |-> shape, shape_event_index |-> k,
     start_point |-> path[k * SamplesPerEvent + 1],
     end_point |-> path[(k + 1) * SamplesPerEvent + 1],
     duration_frames |-> c.event_duration_frames, easing |-> c.easing_family]

(* The events in the order of their shapes.  Their ids are a permutation:  *)
(* a scene with simultaneous events reshuffles up to 32 times until two of *)
(* them are not neighbours, but keeps the last shuffle whatever it is, so  *)
(* every permutation remains possible.                                     *)
EventIds(total) == {[k \in 1..total |-> p[k] - 1] : p \in SetToSeqs(1..total)}

BuildMotionEvents(c, n, shapePaths, slots, ids) ==
    LET before(i) == Total(SubSeq(n, 1, i - 1))
    IN  FlattenSeq([i \in DOMAIN n |-> [k \in 1 .. n[i] |->
            MotionEvent(c, shapePaths[i], i, k - 1, slots[i][k], ids[before(i) + k])]])

(* The accounting compares the events with the counts they were built for. *)
GeneratedPerShape(events, n) ==
    [i \in 1..n |-> Cardinality({k \in DOMAIN events : events[k].shape_index = i})]

Accounted(c, events, n) ==
    /\ WithinCap(Len(events), c)
    /\ GeneratedPerShape(events, Len(n)) = n

-------------------------------------------------------------------------------
GenInit ==
    /\ stage = "config"
    /\ config \in Candidates
    /\ counts = <<>> /\ paths = <<>> /\ scene = None

(* The caller may put a policy over the configuration first.               *)
ApplyPreset ==
    /\ stage = "config" /\ config.generation_profile = None
    /\ \E p \in Policies : config' = ApplyPolicy(config, p)
    /\ UNCHANGED <<stage, counts, paths, scene>>

StartScene ==
    /\ stage = "config"
    /\ stage' = IF Validate(config) THEN "counts" ELSE "rejected"
    /\ UNCHANGED <<config, counts, paths, scene>>

ResolveCounts ==
    /\ stage = "counts"
    /\ counts' \in ResolveMotionEvents(config)
    /\ stage' = "paths"
    /\ UNCHANGED <<config, paths, scene>>

(* The next shape's path: a shape that does not move stays in the middle.  *)
SamplePath ==
    /\ stage = "paths" /\ Len(paths) < Len(counts)
    /\ LET n == counts[Len(paths) + 1]
       IN  IF n = 0 THEN paths' = Append(paths, <<<<0, 0>>>>)
           ELSE \E ends \in [0..n -> PathPoints[Len(counts)]] :
                    paths' = Append(paths, TrajectoryPoints(ends, config.trajectory_complexity))
    /\ UNCHANGED <<stage, config, counts, scene>>

BuildScene ==
    /\ stage = "paths" /\ counts # Exhausted /\ Len(paths) = Len(counts)
    /\ \E slots \in SlotChoices(config, counts), ids \in EventIds(Total(counts)),
          identity \in Identities(config.shape_identity_assignment, Len(counts)) :
          LET events == BuildMotionEvents(config, counts, paths, slots, ids)
          IN  /\ Accounted(config, events, counts)
              /\ scene' = [shape_paths |-> paths, motion_events |-> events, identity |-> identity,
                           expected_slots |-> config.n_motion_slots]
    /\ stage' = "scene"
    /\ paths' = <<>>
    /\ UNCHANGED <<config, counts>>

GenNext == ApplyPreset \/ StartScene \/ ResolveCounts \/ SamplePath \/ BuildScene

GenSpec == GenInit /\ [][GenNext]_genVars

-------------------------------------------------------------------------------
(* What validate accepts, generate can build: the drawn counts keep to the *)
(* cap, to the slots and to the minimums, and there are slots for them.    *)
AcceptedConfigGenerates ==
    stage = "paths" =>
        /\ counts # Exhausted
        /\ Total(counts) <= Budget(config)
        /\ SlotChoices(config, counts) # {}
        /\ config.motion_events_per_shape_random_ranges # None =>
               \A i \in DOMAIN counts :
                   counts[i] >= config.motion_events_per_shape_random_ranges[i].min

(* Over a valid configuration every policy gives a valid one, unless the   *)
(* counts it copies to its shapes do not fit the slots.                    *)
PolicyRejectedOnlyForCapacity ==
    (stage = "config" /\ Validate(config)) =>
        \A p \in Presets : LET c == ApplyPolicy(config, p)
                           IN  Validate(c) \/ Total(c.motion_events_per_shape) > ModeCapacity(c)

PositionsOf(i) == {k \in DOMAIN scene.motion_events : scene.motion_events[k].shape_index = i}

(* The events of a shape, in the order they are kept, have increasing      *)
(* slots and walk its path from end to end without a gap; ids number the   *)
(* events of the scene; and without simultaneous motion no slot is used    *)
(* twice.                                                                  *)
EventsFollowTheShape ==
    stage = "scene" =>
        LET events == scene.motion_events
        IN  /\ {events[k].global_event_index : k \in DOMAIN events} = 0 .. Len(events) - 1
            /\ \A k \in DOMAIN events : events[k].time_slot \in 0 .. config.n_motion_slots - 1
            /\ ~ config.allow_simultaneous =>
                   \A j, k \in DOMAIN events : events[j].time_slot = events[k].time_slot => j = k
            /\ \A i \in DOMAIN scene.shape_paths :
                   LET own  == PositionsOf(i)
                       path == scene.shape_paths[i]
                   IN  /\ \A j, k \in own : j < k =>
                              /\ events[j].time_slot < events[k].time_slot
                              /\ j + 1 \in own
                              /\ k = j + 1 => events[j].end_point = events[k].start_point
                       /\ \A k \in own :
                              /\ k - 1 \notin own => events[k].start_point = path[1]
                              /\ k + 1 \notin own => events[k].end_point = Last(path)

-------------------------------------------------------------------------------
(* Ids of the events that share an event's slot, in increasing order.      *)
SlotPeers(s, e) ==
    Sorted({f.global_event_index : f \in {f \in Range(s.motion_events) :
                f.time_slot = e.time_slot /\ f.global_event_index # e.global_event_index}})

(* The events of some ids, in the order of the ids.                        *)
EventsWithIds(s, ids) ==
    LET order == Sorted(ids)
    IN  [n \in DOMAIN order |->
            CHOOSE e \in Range(s.motion_events) : e.global_event_index = order[n]]
===============================================================================
