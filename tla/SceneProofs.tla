------------------------------- MODULE SceneProofs -------------------------------
(***************************************************************************)
(* From a configuration and its seed to a scene.  The random streams of a  *)
(* dataset never share a seed, and a session's scenes are seeded by its    *)
(* whole 64-bit seed; what validate accepts can be generated, and a policy *)
(* over a valid configuration is refused for one reason only.              *)
(*                                                                         *)
(* The invariant of generation: the configuration has the types of the     *)
(* source, from the first step on it is a valid one, and the counts that   *)
(* were resolved fit it.                                                   *)
(***************************************************************************)
EXTENDS SceneGeneration, SequenceLemmas

(* Two different streams of any two scenes of a dataset of at most a       *)
(* million scenes have different seeds: a text grammar never replays the   *)
(* trajectory of another scene.                                            *)
THEOREM StreamsDisjoint ==
    ASSUME NEW master \in Nat, NEW i \in Nat, NEW j \in Nat,
           i < TrajectoryOffset, j < TrajectoryOffset,
           NEW s \in Streams, NEW t \in Streams, s # t
    PROVE  StreamSeed(s, master, i) # StreamSeed(t, master, j)
  BY DEF Streams, StreamSeed, SceneLayout, TrajectoryOffset, TextGrammarOffset, LexicalNoiseOffset

(* Within a stream, different scenes have different seeds.                 *)
THEOREM ScenesDisjoint ==
    ASSUME NEW master \in Nat, NEW i \in Nat, NEW j \in Nat, i # j, NEW s \in Streams
    PROVE  StreamSeed(s, master, i) # StreamSeed(s, master, j)
  BY DEF Streams, StreamSeed, SceneLayout, TrajectoryOffset, TextGrammarOffset, LexicalNoiseOffset

(* If the last stream's seed does not overflow, none of them does.         *)
THEOREM DerivableIsEnough ==
    ASSUME NEW master \in Nat, NEW i \in Nat, Derivable(master, i), NEW s \in Streams
    PROVE  StreamSeed(s, master, i) \in 0 .. SeedLimit - 1
  BY SeedLimitAssumption
  DEF Streams, Derivable, StreamSeed, SceneLayout, TrajectoryOffset, TextGrammarOffset, LexicalNoiseOffset

(* Quotient and remainder, stated once with a symbolic divisor.            *)
LEMMA Division ==
    ASSUME NEW n \in Nat, NEW d \in Nat, d > 0
    PROVE  /\ (n \div d) \in Int
           /\ (n % d) \in 0 .. d - 1
           /\ n = d * (n \div d) + (n % d)
<1>1. (n \div d) \in Int
  BY SMT
<1>2. (n % d) \in 0 .. d - 1
  BY SMT
<1>3. n = d * (n \div d) + (n % d)
  BY SMT
<1>4. QED
  BY <1>1, <1>2, <1>3

(* Splitting a session seed into master seed and scene index loses nothing: *)
(* the layout seed of the session's scene is the session seed plus the     *)
(* scene's number, for every seed.                                         *)
THEOREM SessionSeedIsWhole ==
    ASSUME NEW seed \in Nat, NEW k \in Nat
    PROVE  /\ SessionMasterSeed(seed) \in 0 .. MasterSeeds - 1
           /\ SceneLayout(SessionMasterSeed(seed), EffectiveSceneIndex(seed, k)) = seed + k
<1> DEFINE q == seed \div MasterSeeds
           r == seed % MasterSeeds
<1>1. MasterSeeds \in Nat /\ MasterSeeds > 0
  BY DEF MasterSeeds
<1>2. q \in Int /\ r \in 0 .. MasterSeeds - 1 /\ seed = MasterSeeds * q + r
  BY <1>1, Division
<1>3. SceneLayout(SessionMasterSeed(seed), EffectiveSceneIndex(seed, k))
        = r + (q * MasterSeeds + k)
  BY DEF SessionMasterSeed, EffectiveSceneIndex, SceneLayout
<1>4. SessionMasterSeed(seed) = r
  BY DEF SessionMasterSeed
<1> HIDE DEF q, r
<1>5. r + (q * MasterSeeds + k) = seed + k
  BY <1>1, <1>2
<1>6. QED
  BY <1>2, <1>3, <1>4, <1>5

(* Different scenes of a session never have one layout seed.               *)
THEOREM SessionScenesDiffer ==
    ASSUME NEW seed \in Nat, NEW k \in Nat, NEW l \in Nat, k # l
    PROVE  SceneLayout(SessionMasterSeed(seed), EffectiveSceneIndex(seed, k))
             # SceneLayout(SessionMasterSeed(seed), EffectiveSceneIndex(seed, l))
<1>1. SceneLayout(SessionMasterSeed(seed), EffectiveSceneIndex(seed, k)) = seed + k
  BY SessionSeedIsWhole
<1>2. SceneLayout(SessionMasterSeed(seed), EffectiveSceneIndex(seed, l)) = seed + l
  BY SessionSeedIsWhole
<1>3. QED
  BY <1>1, <1>2

-------------------------------------------------------------------------------
-------------------------------------------------------------------------------
(* What the types of a configuration say of the fields the counts depend   *)
(* on.                                                                     *)
LEMMA FieldTypes ==
    ASSUME NEW c, ConfigTypes(c)
    PROVE  /\ c.n_shapes \in Nat /\ c.n_motion_slots \in Nat
           /\ c.allow_simultaneous \in BOOLEAN /\ c.shape_identity_assignment \in Assignments
           /\ c.easing_family \in Easings
           /\ c.motion_events_per_shape \in Seq(Nat)
           /\ c.n_motion_events_total # None => c.n_motion_events_total \in Nat
           /\ c.motion_events_per_shape_random_ranges # None =>
                  c.motion_events_per_shape_random_ranges \in Seq([min : Nat, max : Nat])
  <1>1. "n_shapes" \in Numbers \ Rates /\ "n_motion_slots" \in Numbers \ Rates
    BY DEF Numbers, Positive, Rates
  <1>2. c["n_shapes"] \in Nat /\ c["n_motion_slots"] \in Nat
    BY <1>1 DEF ConfigTypes
  <1>. QED  BY <1>2 DEF ConfigTypes

LEMMA BudgetBounds ==
    ASSUME NEW c, ConfigTypes(c)
    PROVE  /\ ModeCapacity(c) \in Nat /\ Budget(c) \in Nat /\ Budget(c) <= ModeCapacity(c)
           /\ \A n \in Nat : n <= ModeCapacity(c) /\ WithinCap(n, c) => n <= Budget(c)
  <1>1. c.n_shapes \in Nat /\ c.n_motion_slots \in Nat
    BY FieldTypes
  <1>2. ModeCapacity(c) \in Nat
    BY <1>1 DEF ModeCapacity
  <1>3. CASE c.n_motion_events_total = None
    BY <1>2, <1>3 DEF Budget
  <1>4. CASE c.n_motion_events_total # None
    <2>1. PICK cap \in Nat, m \in Nat : cap = c.n_motion_events_total /\ m = ModeCapacity(c)
      BY <1>2, <1>4, FieldTypes
    <2>2. Budget(c) = Min({cap, m})
      BY <1>4, <2>1 DEF Budget
    <2>3. Budget(c) \in {cap, m} /\ Budget(c) <= m
      BY <2>2, MinOfTwo
    <2>. QED  BY <1>4, <2>1, <2>3 DEF WithinCap
  <1>. QED  BY <1>3, <1>4

LEMMA TotalType ==
    ASSUME NEW n \in Nat, NEW f \in [1 .. n -> Nat]
    PROVE  IsFiniteSet(1 .. n) /\ Total(f) = SumFunctionOnSet(f, 1 .. n) /\ Total(f) \in Nat
           /\ \A i \in 1 .. n : f[i] <= Total(f)
  <1>1. IsFiniteSet(1 .. n)
    <2>1. 1 \in Int /\ n \in Int
      OBVIOUS
    <2>. QED  BY <2>1, FS_Interval
  <1>2. Total(f) = SumFunctionOnSet(f, 1 .. n)
    BY DEF Total, SumFunction
  <1>3. \A i \in 1 .. n : f[i] \in Nat
    OBVIOUS
  <1>. QED  BY <1>1, <1>2, <1>3, SumNatural

(* Counts are reduced to the budget whenever the minimums fit it, and then *)
(* to it exactly.                                                          *)
LEMMA ReducedFits ==
    ASSUME NEW c, ConfigTypes(c), NEW n \in Nat, n > 0,
           NEW drawn \in [1 .. n -> Nat], NEW low \in [1 .. n -> Nat],
           \A i \in 1 .. n : low[i] <= drawn[i], Total(low) <= Budget(c),
           NEW f \in ReduceCountsToBudget(c, drawn, low)
    PROVE  /\ f \in [1 .. n -> Nat] /\ Total(f) <= Budget(c)
           /\ \A i \in 1 .. n : f[i] \in low[i] .. drawn[i]
  <1>1. Budget(c) \in Nat
    BY BudgetBounds
  <1>2. CASE Total(drawn) <= Budget(c)
    <2>1. f = drawn
      BY <1>2 DEF ReduceCountsToBudget
    <2>. QED  BY <1>2, <2>1
  <1>3. CASE ~(Total(drawn) <= Budget(c))
    <2>. DEFINE top == Max(Range(drawn))
                reduced == {m \in [1 .. n -> 0 .. top] :
                              /\ \A i \in 1 .. n : m[i] \in low[i] .. drawn[i]
                              /\ Total(m) = Budget(c)}
    <2>1. f \in IF reduced = {} THEN {Exhausted} ELSE reduced
      <3>1. DOMAIN drawn = 1 .. n
        OBVIOUS
      <3>. QED  BY <1>3, <3>1 DEF ReduceCountsToBudget
    <2>2. PICK m \in [1 .. n -> Int] : /\ \A x \in 1 .. n : m[x] \in low[x] .. drawn[x]
                                       /\ SumFunctionOnSet(m, 1 .. n) = Budget(c)
      <3>1. IsFiniteSet(1 .. n) /\ SumFunctionOnSet(low, 1 .. n) <= Budget(c)
        BY TotalType
      <3>2. Budget(c) <= SumFunctionOnSet(drawn, 1 .. n) /\ Budget(c) \in Int
        BY <1>1, <1>3, TotalType
      <3>3. low \in [1 .. n -> Int] /\ drawn \in [1 .. n -> Int]
        OBVIOUS
      <3>. QED  BY <3>1, <3>2, <3>3, SumBetween
    <2>3. \A i \in 1 .. n : drawn[i] <= top /\ top \in Int
      <3>1. Range(drawn) \subseteq Int /\ IsFiniteSet(Range(drawn)) /\ Range(drawn) # {}
        <4>1. IsFiniteSet(1 .. n)
          BY TotalType
        <4>2. drawn \in Surjection(1 .. n, Range(drawn))
          BY DEF Surjection, Range
        <4>3. IsFiniteSet(Range(drawn))
          BY <4>1, <4>2, FS_Surjection
        <4>4. drawn[1] \in Range(drawn) /\ Range(drawn) \subseteq Int
          BY DEF Range
        <4>. QED  BY <4>3, <4>4
      <3>2. \A i \in 1 .. n : drawn[i] \in Range(drawn)
        BY DEF Range
      <3>3. PICK t, R : t = top /\ R = Range(drawn)
        OBVIOUS
      <3>4. t \in R /\ \A y \in R : y <= t
        BY <3>1, <3>3, Maximum
      <3>. QED  BY <3>1, <3>2, <3>3, <3>4
    <2>. HIDE DEF top
    <2>4. m \in reduced
      <3>1. m \in [1 .. n -> 0 .. top]
        <4>1. ASSUME NEW i \in 1 .. n PROVE m[i] \in 0 .. top
          BY <2>2, <2>3
        <4>. QED  BY <4>1
      <3>2. m \in [1 .. n -> Nat]
        BY <2>2
      <3>3. Total(m) = SumFunctionOnSet(m, 1 .. n)
        BY <3>2, TotalType
      <3>. QED  BY <2>2, <3>1, <3>3
    <2>5. f \in [1 .. n -> 0 .. top] /\ Total(f) = Budget(c)
          /\ \A i \in 1 .. n : f[i] \in low[i] .. drawn[i]
      BY <2>1, <2>4
    <2>. QED  BY <1>1, <2>5
  <1>. QED  BY <1>2, <1>3

(* Slots can be found for counts that fit them, all shapes together or,    *)
(* when they may move at once, each for itself.                            *)
LEMMA SlotsFound ==
    ASSUME NEW c, ConfigTypes(c), NEW n \in Nat, NEW f \in [1 .. n -> Nat],
           Total(f) <= ModeCapacity(c), \A i \in 1 .. n : f[i] <= c.n_motion_slots
    PROVE  SlotChoices(c, f) # {}
  <1>. DEFINE m == c.n_motion_slots
  <1>1. m \in Nat
    BY FieldTypes
  <1>2. ASSUME NEW k \in Nat, k <= m
        PROVE  0 .. k - 1 \in SUBSET Slots(c) /\ Cardinality(0 .. k - 1) = k
    <2>1. k - 1 \in Int /\ 0 \in Int
      OBVIOUS
    <2>2. Cardinality(0 .. k - 1) = IF 0 > k - 1 THEN 0 ELSE (k - 1) - 0 + 1
      BY <2>1, FS_Interval
    <2>3. Cardinality(0 .. k - 1) = k
      BY <2>2
    <2>. QED  BY <1>1, <1>2, <2>3 DEF Slots
  <1>3. DOMAIN f = 1 .. n
    OBVIOUS
  <1>4. CASE c.allow_simultaneous
    <2>. DEFINE s == [i \in 1 .. n |-> 0 .. f[i] - 1]
                All == {s2 \in [DOMAIN f -> SUBSET Slots(c)] :
                            \A i \in DOMAIN f : Cardinality(s2[i]) = f[i]}
    <2>1. s \in All
      BY <1>2
    <2>2. SlotChoices(c, f) = {[i \in DOMAIN f |-> Sorted(s2[i])] : s2 \in All}
      BY <1>4 DEF SlotChoices
    <2>. HIDE DEF s, All
    <2>. QED  BY <2>1, <2>2
  <1>5. CASE ~ c.allow_simultaneous
    <2>1. Total(f) \in Nat /\ Total(f) <= m
      BY <1>5, TotalType DEF ModeCapacity
    <2>2. 0 .. Total(f) - 1 \in kSubset(Total(f), Slots(c))
      BY <1>2, <2>1 DEF kSubset
    <2>. QED  BY <1>5, <2>2 DEF SlotChoices
  <1>. QED  BY <1>4, <1>5

-------------------------------------------------------------------------------
(* The counts that resolve from a valid configuration, whichever way it    *)
(* says how often shapes move.                                             *)
Generates(c, n) ==
    /\ n \in Seq(Nat) /\ n # Exhausted /\ Len(n) = c.n_shapes
    /\ Total(n) <= Budget(c)
    /\ SlotChoices(c, n) # {}
    /\ c.motion_events_per_shape_random_ranges # None =>
           \A i \in DOMAIN n : n[i] >= c.motion_events_per_shape_random_ranges[i].min

LEMMA FitsGenerates ==
    ASSUME NEW c, ConfigTypes(c), NEW n \in Nat, n > 0, n = c.n_shapes, NEW f \in [1 .. n -> Nat],
           Total(f) <= Budget(c), \A i \in 1 .. n : f[i] <= c.n_motion_slots,
           c.motion_events_per_shape_random_ranges # None =>
               \A i \in 1 .. n : f[i] >= c.motion_events_per_shape_random_ranges[i].min
    PROVE  Generates(c, f)
  <1>1. Total(f) \in Nat
    BY TotalType
  <1>2. Total(f) <= ModeCapacity(c)
    BY <1>1, BudgetBounds
  <1>3. SlotChoices(c, f) # {}
    BY <1>2, SlotsFound
  <1>4. f # Exhausted
    <2>1. DOMAIN f = 1 .. n /\ 1 \in 1 .. n
      OBVIOUS
    <2>2. DOMAIN Exhausted = {}
      BY DEF Exhausted
    <2>. QED  BY <2>1, <2>2
  <1>5. f \in Seq(Nat) /\ Len(f) = n
    OBVIOUS
  <1>. QED  BY <1>3, <1>4, <1>5 DEF Generates

LEMMA ExplicitGenerates ==
    ASSUME NEW c, ConfigTypes(c), SettingsOK(c), ExplicitCountsOK(c)
    PROVE  Generates(c, c.motion_events_per_shape)
  <1>1. PICK f, n : f = c.motion_events_per_shape /\ n = c.n_shapes /\ n \in Nat
    BY FieldTypes
  <1>2. n > 0
    BY <1>1 DEF SettingsOK
  <1>3. f \in [1 .. n -> Nat]
    <2>1. f \in Seq(Nat) /\ Len(f) = n
      BY <1>1, FieldTypes DEF ExplicitCountsOK
    <2>. QED  BY <2>1
  <1>4. Total(f) <= Budget(c)
    BY <1>1, <1>3, BudgetBounds, TotalType DEF ExplicitCountsOK
  <1>5. \A i \in 1 .. n : f[i] <= c.n_motion_slots
    BY <1>1, <1>3 DEF ExplicitCountsOK, EachFitsSlots
  <1>6. c.motion_events_per_shape_random_ranges = None
    BY DEF ExplicitCountsOK
  <1>. QED  BY <1>1, <1>2, <1>3, <1>4, <1>5, <1>6, FitsGenerates

LEMMA DrawnGenerate ==
    ASSUME NEW c, ConfigTypes(c), SettingsOK(c), c.motion_events_per_shape_random_ranges = None,
           NEW f \in RandomizedCounts(c)
    PROVE  Generates(c, f)
  <1>1. PICK n \in Nat, m \in Nat : n = c.n_shapes /\ m = c.n_motion_slots
    BY FieldTypes
  <1>2. n > 0
    BY <1>1 DEF SettingsOK
  <1>3. PICK low : low = [i \in 1 .. n |-> 0]
    OBVIOUS
  <1>4. PICK drawn \in [1 .. n -> 0 .. m] : f \in ReduceCountsToBudget(c, drawn, low)
    BY <1>1, <1>3 DEF RandomizedCounts
  <1>5. low \in [1 .. n -> Nat] /\ drawn \in [1 .. n -> Nat] /\ \A i \in 1 .. n : low[i] <= drawn[i]
    BY <1>1, <1>3
  <1>6. Total(low) <= Budget(c)
    <2>1. IsFiniteSet(1 .. n) /\ Total(low) = SumFunctionOnSet(low, 1 .. n)
      BY <1>5, TotalType
    <2>. DEFINE g == [s \in SUBSET (1 .. n) |-> 0]
    <2>2. Adds(g, low, 1 .. n)
      BY <1>3 DEF Adds
    <2>3. g[1 .. n] = 0
      OBVIOUS
    <2>. HIDE DEF g
    <2>4. Total(low) = 0
      BY <2>1, <2>2, <2>3, SumIs
    <2>5. Budget(c) \in Nat
      BY BudgetBounds
    <2>. QED  BY <2>4, <2>5
  <1>7. /\ f \in [1 .. n -> Nat] /\ Total(f) <= Budget(c)
        /\ \A i \in 1 .. n : f[i] \in low[i] .. drawn[i]
    BY <1>2, <1>4, <1>5, <1>6, ReducedFits
  <1>8. \A i \in 1 .. n : f[i] <= c.n_motion_slots
    BY <1>1, <1>5, <1>7
  <1>. QED  BY <1>1, <1>2, <1>7, <1>8, FitsGenerates

LEMMA RangedGenerate ==
    ASSUME NEW c, ConfigTypes(c), SettingsOK(c), c.motion_events_per_shape_random_ranges # None,
           RandomRangesOK(c), NEW f \in RandomizedCountsWithRanges(c)
    PROVE  Generates(c, f)
  <1>1. PICK n \in Nat, m \in Nat, ranges \in Seq([min : Nat, max : Nat]) :
            n = c.n_shapes /\ m = c.n_motion_slots /\ ranges = c.motion_events_per_shape_random_ranges
    BY FieldTypes
  <1>2. n > 0
    BY <1>1 DEF SettingsOK
  <1>3. ranges \in [1 .. n -> [min : Nat, max : Nat]] /\ DOMAIN ranges = 1 .. n
    <2>1. Len(ranges) = n
      BY <1>1 DEF RandomRangesOK
    <2>2. PICK R : R = [min : Nat, max : Nat] /\ ranges \in Seq(R)
      OBVIOUS
    <2>3. ranges \in [1 .. n -> R]
      BY <2>1, <2>2, LenProperties
    <2>. QED  BY <2>2, <2>3
  <1>4. PICK low : low = [i \in 1 .. n |-> ranges[i].min]
    OBVIOUS
  <1>5. low \in [1 .. n -> Nat]
    <2>1. \A i \in 1 .. n : ranges[i].min \in Nat
      BY <1>3
    <2>. QED  BY <1>4, <2>1
  <1>6. \A i \in 1 .. n : ranges[i].max \in Nat /\ ranges[i].max <= m /\ low[i] = ranges[i].min
    BY <1>1, <1>3, <1>4 DEF RandomRangesOK
  <1>7. PICK drawn \in [1 .. n -> 0 .. m] : /\ \A i \in 1 .. n : drawn[i] \in ranges[i].min .. ranges[i].max
                                            /\ f \in ReduceCountsToBudget(c, drawn, low)
    <2>1. RandomizedCountsWithRanges(c) =
              UNION {ReduceCountsToBudget(c, drawn, low) :
                  drawn \in {d \in [1 .. n -> 0 .. m] :
                      \A i \in 1 .. n : d[i] \in ranges[i].min .. ranges[i].max}}
      BY <1>1, <1>3, <1>4 DEF RandomizedCountsWithRanges
    <2>. QED  BY <2>1
  <1>8. drawn \in [1 .. n -> Nat] /\ \A i \in 1 .. n : low[i] <= drawn[i] /\ drawn[i] <= m
    <2>1. ASSUME NEW i \in 1 .. n
          PROVE  drawn[i] \in Nat /\ low[i] <= drawn[i] /\ drawn[i] <= m
      <3>1. drawn[i] \in ranges[i].min .. ranges[i].max /\ drawn[i] \in 0 .. m
        BY <1>7
      <3>2. ranges[i].min \in Nat /\ ranges[i].max \in Nat /\ low[i] = ranges[i].min
        BY <1>3, <1>6
      <3>. QED  BY <3>1, <3>2
    <2>2. drawn \in [1 .. n -> Nat]
      BY <2>1
    <2>. QED  BY <2>1, <2>2
  <1>9. Total(low) <= Budget(c)
    <2>1. Total(low) \in Nat
      BY <1>5, TotalType
    <2>2. Total(low) <= ModeCapacity(c) /\ WithinCap(Total(low), c)
      BY <1>1, <1>3, <1>4 DEF RandomRangesOK
    <2>. QED  BY <2>1, <2>2, BudgetBounds
  <1>10. /\ f \in [1 .. n -> Nat] /\ Total(f) <= Budget(c)
         /\ \A i \in 1 .. n : f[i] \in low[i] .. drawn[i]
    BY <1>2, <1>5, <1>7, <1>8, <1>9, ReducedFits
  <1>11. \A i \in 1 .. n : f[i] <= m /\ f[i] >= ranges[i].min
    <2>. TAKE i \in 1 .. n
    <2>1. f[i] \in low[i] .. drawn[i] /\ low[i] = ranges[i].min /\ drawn[i] <= m
          /\ low[i] \in Nat /\ drawn[i] \in Nat
      BY <1>5, <1>6, <1>8, <1>10
    <2>. QED  BY <2>1
  <1>. QED  BY <1>1, <1>2, <1>10, <1>11, FitsGenerates

LEMMA ResolvedGenerates ==
    ASSUME NEW c, ConfigTypes(c), Validate(c), NEW f \in ResolveMotionEvents(c)
    PROVE  Generates(c, f)
  <1>1. SettingsOK(c) /\ CountsOK(c)
    BY DEF Validate
  <1>2. CASE ~ c.randomize_motion_events_per_shape
    <2>1. ExplicitCountsOK(c) /\ f = c.motion_events_per_shape
      BY <1>1, <1>2 DEF CountsOK, ResolveMotionEvents
    <2>. QED  BY <1>1, <2>1, ExplicitGenerates
  <1>3. CASE c.randomize_motion_events_per_shape /\ c.motion_events_per_shape_random_ranges # None
    <2>1. RandomRangesOK(c) /\ f \in RandomizedCountsWithRanges(c)
      BY <1>1, <1>3 DEF CountsOK, ResolveMotionEvents
    <2>. QED  BY <1>1, <1>3, <2>1, RangedGenerate
  <1>4. CASE c.randomize_motion_events_per_shape /\ c.motion_events_per_shape_random_ranges = None
    <2>1. f \in RandomizedCounts(c)
      BY <1>4 DEF ResolveMotionEvents
    <2>. QED  BY <1>1, <1>4, <2>1, DrawnGenerate
  <1>. QED  BY <1>2, <1>3, <1>4

-------------------------------------------------------------------------------
(* The numbers of every policy are in the ranges validate checks.          *)
PolicyNumbers(p) ==
    /\ PresetShapes[p] \in 1 .. 6 /\ PresetComplexity[p] \in 1 .. 4
    /\ PresetSteepness[p][1] \in Nat \ {0} /\ PresetSteepness[p][2] \in Nat \ {0}
    /\ PresetText[p][2] \in 0 .. 1000 /\ PresetText[p][3] \in 0 .. 1000
    /\ PresetSiteK(p) \in Nat \ {0}

LEMMA PresetValues ==
    ASSUME NEW p \in Presets
    PROVE  PolicyNumbers(p)
  <1>1. PresetShapes[p] \in 1 .. 6
    BY DEF Presets, PresetShapes
  <1>2. PresetComplexity[p] \in 1 .. 4
    BY DEF Presets, PresetComplexity
  <1>3. PresetSteepness[p][1] \in Nat \ {0} /\ PresetSteepness[p][2] \in Nat \ {0}
    BY DEF Presets, PresetSteepness
  <1>4. PresetText[p][2] \in 0 .. 1000 /\ PresetText[p][3] \in 0 .. 1000
    BY DEF Presets, PresetText
  <1>5. PresetSiteK(p) \in Nat \ {0}
    BY DEF PresetSiteK
  <1>. QED  BY <1>1, <1>2, <1>3, <1>4, <1>5 DEF PolicyNumbers

LEMMA MaxOfTwo ==
    ASSUME NEW a \in Int, NEW b \in Int
    PROVE  Max({a, b}) \in {a, b} /\ a <= Max({a, b}) /\ b <= Max({a, b})
  <1>1. \E x \in {a, b} : \A y \in {a, b} : x >= y
    <2>1. CASE a <= b
      BY <2>1
    <2>2. CASE b <= a
      BY <2>2
    <2>. QED  BY <2>1, <2>2
  <1>2. PICK m : m = Max({a, b})
    OBVIOUS
  <1>3. m \in {a, b} /\ \A y \in {a, b} : m >= y
    BY <1>1, <1>2 DEF Max
  <1>. QED  BY <1>2, <1>3

(* What a policy leaves in a configuration.                                *)
Overridden == {"n_shapes", "trajectory_complexity", "x_steepness", "y_steepness",
               "text_synonym_rate", "text_typo_rate", "site_k", "validation_scene_count"}

FirstCount(c) == IF c.motion_events_per_shape = <<>> THEN 0 ELSE c.motion_events_per_shape[1]

PolicyResult(c, p, d) ==
    /\ d = [f \in DOMAIN Baseline(0) |-> d[f]]
    /\ \A f \in Numbers \ Overridden : d[f] = c[f]
    /\ d.allow_simultaneous = c.allow_simultaneous
    /\ d.shape_identity_assignment = c.shape_identity_assignment
    /\ d.easing_family = c.easing_family
    /\ d.n_shapes = PresetShapes[p] /\ d.trajectory_complexity = PresetComplexity[p]
    /\ d.x_steepness = PresetSteepness[p][1] /\ d.y_steepness = PresetSteepness[p][2]
    /\ d.text_synonym_rate = PresetText[p][2] /\ d.text_typo_rate = PresetText[p][3]
    /\ d.site_k = PresetSiteK(p)
    /\ d.validation_scene_count = Max({c.validation_scene_count, PresetSiteK(p) + 1})
    /\ d.motion_events_per_shape = [i \in 1 .. PresetShapes[p] |-> FirstCount(c)]
    /\ d.n_motion_events_total = None
    /\ d.randomize_motion_events_per_shape = FALSE
    /\ d.motion_events_per_shape_random_ranges = None

LEMMA PolicyFields ==
    ASSUME NEW c, ConfigTypes(c), NEW p
    PROVE  PolicyResult(c, p, ApplyPolicy(c, p))
  <1>1. PICK F : F = DOMAIN Baseline(0)
    OBVIOUS
  <1>2. /\ Overridden \subseteq F
        /\ {"motion_events_per_shape", "n_motion_events_total", "randomize_motion_events_per_shape",
            "motion_events_per_shape_random_ranges", "generation_profile", "text_reference_frame",
            "allow_simultaneous", "shape_identity_assignment", "easing_family"} \subseteq F
    BY <1>1 DEF Baseline, Overridden
  <1>3. PICK g : g = ApplyShapeCountProfile(c, PresetShapes[p])
    OBVIOUS
  <1>4. PICK first : first = FirstCount(c)
    OBVIOUS
  <1>5. c = [f \in F |-> c[f]]
    BY <1>1 DEF ConfigTypes
  <1>6. /\ g = [f \in F |-> g[f]]
        /\ g.n_shapes = PresetShapes[p]
        /\ g.motion_events_per_shape = [i \in 1 .. PresetShapes[p] |-> first]
        /\ g.n_motion_events_total = None
        /\ g.randomize_motion_events_per_shape = FALSE
        /\ g.motion_events_per_shape_random_ranges = None
        /\ \A f \in F \ {"n_shapes", "motion_events_per_shape", "n_motion_events_total",
                         "randomize_motion_events_per_shape", "motion_events_per_shape_random_ranges"} :
               g[f] = c[f]
    BY <1>2, <1>3, <1>4, <1>5 DEF ApplyShapeCountProfile, FirstCount, Overridden
  <1>7. PICK d : d = ApplyPolicy(c, p)
    OBVIOUS
  <1>8. \A f \in Numbers \ Overridden : f \in F /\
            f \notin {"motion_events_per_shape", "n_motion_events_total",
                      "randomize_motion_events_per_shape", "motion_events_per_shape_random_ranges",
                      "generation_profile", "text_reference_frame"}
    BY <1>1 DEF Numbers, Positive, Fractions, Overridden, Baseline
  <1>. QED  BY <1>1, <1>2, <1>3, <1>4, <1>6, <1>8 DEF ApplyPolicy, PolicyResult, Overridden

LEMMA PolicyTypes ==
    ASSUME NEW c, ConfigTypes(c), NEW p \in Presets
    PROVE  ConfigTypes(ApplyPolicy(c, p))
  <1>0. PolicyNumbers(p)
    BY PresetValues
  <1>1. PICK d, first, n : d = ApplyPolicy(c, p) /\ n = PresetShapes[p] /\ first = FirstCount(c)
    OBVIOUS
  <1>2. PolicyResult(c, p, d)
    BY <1>1, PolicyFields
  <1>3. n \in Nat /\ first \in Nat
    <2>1. n \in Nat
      BY <1>0, <1>1 DEF PolicyNumbers
    <2>2. c.motion_events_per_shape \in Seq(Nat)
      BY DEF ConfigTypes
    <2>3. PICK s \in Seq(Nat) : s = c.motion_events_per_shape
      BY <2>2
    <2>4. s # <<>> => s[1] \in Nat
      OBVIOUS
    <2>. QED  BY <1>1, <2>1, <2>3, <2>4 DEF FirstCount
  <1>4. (\A f \in Rates : d[f] \in Int) /\ \A f \in Numbers \ Rates : d[f] \in Nat
    <2>1. PresetSiteK(p) \in Nat /\ PresetComplexity[p] \in Nat /\ PresetSteepness[p][1] \in Nat
          /\ PresetSteepness[p][2] \in Nat /\ PresetText[p][2] \in Nat /\ PresetText[p][3] \in Nat
      <3>1. /\ PresetComplexity[p] \in 1 .. 4 /\ PresetSiteK(p) \in Nat \ {0}
            /\ PresetSteepness[p][1] \in Nat \ {0} /\ PresetSteepness[p][2] \in Nat \ {0}
            /\ PresetText[p][2] \in 0 .. 1000 /\ PresetText[p][3] \in 0 .. 1000
        BY <1>0 DEF PolicyNumbers
      <3>2. \A x \in 0 .. 1000 : x \in Nat
        OBVIOUS
      <3>3. PresetText[p][2] \in Nat /\ PresetText[p][3] \in Nat
        BY <3>1, <3>2, ZenonT(30)
      <3>4. \A x \in 1 .. 4 : x \in Nat
        OBVIOUS
      <3>5. PresetComplexity[p] \in Nat
        BY <3>1, <3>4, Zenon
      <3>. QED  BY <3>1, <3>3, <3>5, Zenon
    <2>2. d.validation_scene_count \in Nat
      <3>1. PICK a \in Nat, b \in Nat : a = c["validation_scene_count"] /\ b = PresetSiteK(p) + 1
        <4>1. "validation_scene_count" \in Numbers \ Rates
          BY DEF Numbers, Rates
        <4>2. c["validation_scene_count"] \in Nat
          BY <4>1 DEF ConfigTypes
        <4>. QED  BY <2>1, <4>2
      <3>2. d.validation_scene_count = Max({a, b})
        <4>1. d.validation_scene_count = Max({c.validation_scene_count, PresetSiteK(p) + 1})
          BY <1>2, Zenon DEF PolicyResult
        <4>2. c.validation_scene_count = a /\ PresetSiteK(p) + 1 = b
          BY <3>1
        <4>. QED  BY <4>1, <4>2, Zenon
      <3>3. PICK m : m = Max({a, b})
        OBVIOUS
      <3>4. m \in {a, b}
        BY <3>3, MaxOfTwo
      <3>. QED  BY <3>2, <3>3, <3>4
    <2>3. (\A f \in Rates : c[f] \in Int) /\ \A f \in Numbers \ Rates : c[f] \in Nat
      BY DEF ConfigTypes
    <2>4. ASSUME NEW f \in Overridden
          PROVE  d[f] \in Nat
      BY <1>1, <1>2, <1>3, <2>1, <2>2 DEF Overridden, PolicyResult
    <2>5. Rates \subseteq Numbers
      BY DEF Rates, Numbers, Positive, Fractions
    <2>6. \A f \in Numbers \ Overridden : d[f] = c[f]
      BY <1>2 DEF PolicyResult
    <2>7. ASSUME NEW f \in Rates PROVE d[f] \in Int
      BY <2>3, <2>4, <2>5, <2>6
    <2>8. ASSUME NEW f \in Numbers \ Rates PROVE d[f] \in Nat
      BY <2>3, <2>4, <2>6
    <2>. QED  BY <2>7, <2>8
  <1>5. d.motion_events_per_shape \in Seq(Nat)
    <2>1. PICK q : q = [i \in 1 .. n |-> first]
      OBVIOUS
    <2>2. q \in Seq(Nat)
      BY <1>3, <2>1
    <2>. QED  BY <1>1, <1>2, <2>1, <2>2 DEF PolicyResult
  <1>6. /\ d.shape_identity_assignment \in Assignments /\ d.easing_family \in Easings
        /\ d.allow_simultaneous \in BOOLEAN /\ d.randomize_motion_events_per_shape \in BOOLEAN
    BY <1>2 DEF PolicyResult, ConfigTypes
  <1>7. ConfigTypes(d)
    BY <1>2, <1>4, <1>5, <1>6 DEF PolicyResult, ConfigTypes
  <1>. QED  BY <1>1, <1>7

LEMMA PolicyValid ==
    ASSUME NEW c, ConfigTypes(c), Validate(c), NEW p \in Presets
    PROVE  \/ Validate(ApplyPolicy(c, p))
           \/ Total(ApplyPolicy(c, p).motion_events_per_shape) > ModeCapacity(ApplyPolicy(c, p))
  <1>0. PolicyNumbers(p)
    BY PresetValues
  <1>1. PICK d, first, n : d = ApplyPolicy(c, p) /\ n = PresetShapes[p] /\ first = FirstCount(c)
    OBVIOUS
  <1>2. PolicyResult(c, p, d)
    BY <1>1, PolicyFields
  <1>3. SettingsOK(c) /\ CountsOK(c)
    BY DEF Validate
  <1>4. n \in 1 .. 6
    BY <1>0, <1>1 DEF PolicyNumbers
  <1>5. SettingsOK(d)
    <2>1. d.master_seed = c.master_seed /\ d.schema_version = c.schema_version
      BY <1>2 DEF PolicyResult, Numbers, Overridden
    <2>2. \A f \in Positive : d[f] > 0
      <3>1. ASSUME NEW f \in Positive, f \in Overridden PROVE d[f] > 0
        <4>1. f \in {"x_steepness", "y_steepness", "site_k"}
          BY <3>1 DEF Positive, Overridden
        <4>2. /\ PresetSteepness[p][1] \in Nat \ {0} /\ PresetSteepness[p][2] \in Nat \ {0}
              /\ PresetSiteK(p) \in Nat \ {0}
          BY <1>0 DEF PolicyNumbers
        <4>3. /\ d["x_steepness"] = PresetSteepness[p][1] /\ d["y_steepness"] = PresetSteepness[p][2]
              /\ d["site_k"] = PresetSiteK(p)
          BY <1>2 DEF PolicyResult
        <4>. QED  BY <4>1, <4>2, <4>3
      <3>2. ASSUME NEW f \in Positive, f \notin Overridden PROVE d[f] > 0
        BY <1>2, <1>3, <3>2 DEF PolicyResult, SettingsOK, Numbers
      <3>. QED  BY <3>1, <3>2
    <2>3. \A f \in Fractions : d[f] \in 0 .. 1000
      <3>1. ASSUME NEW f \in Fractions, f \in Overridden PROVE d[f] \in 0 .. 1000
        <4>1. f \in {"text_synonym_rate", "text_typo_rate"}
          BY <3>1 DEF Fractions, Overridden
        <4>2. PICK x, y : x = PresetText[p][2] /\ y = PresetText[p][3]
          OBVIOUS
        <4>3. x \in 0 .. 1000 /\ y \in 0 .. 1000
          BY <1>0, <4>2 DEF PolicyNumbers
        <4>4. d["text_synonym_rate"] = x /\ d["text_typo_rate"] = y
          BY <1>2, <4>2 DEF PolicyResult
        <4>5. CASE f = "text_synonym_rate"
          BY <4>3, <4>4, <4>5
        <4>6. CASE f = "text_typo_rate"
          BY <4>3, <4>4, <4>6
        <4>. QED  BY <4>1, <4>5, <4>6
      <3>2. ASSUME NEW f \in Fractions, f \notin Overridden PROVE d[f] \in 0 .. 1000
        <4>1. c[f] \in 0 .. 1000
          BY <1>3 DEF SettingsOK
        <4>2. d[f] = c[f]
          BY <1>2, <3>2 DEF PolicyResult, Numbers
        <4>. QED  BY <4>1, <4>2
      <3>. QED  BY <3>1, <3>2
    <2>4. d.validation_scene_count >= 2 /\ d.site_k < d.validation_scene_count
      <3>1. PICK a \in Nat, k \in Nat, b \in Nat : /\ a = c.validation_scene_count /\ a >= 2
                                                  /\ k = PresetSiteK(p) /\ b = k + 1
        <4>1. c["validation_scene_count"] \in Nat
          BY DEF ConfigTypes, Numbers, Rates
        <4>2. PresetSiteK(p) \in Nat /\ c.validation_scene_count >= 2
          BY <1>0, <1>3 DEF SettingsOK, PolicyNumbers
        <4>. QED  BY <4>1, <4>2
      <3>2. PICK m : m = Max({a, b})
        OBVIOUS
      <3>3. m \in {a, b} /\ a <= m /\ b <= m
        BY <3>2, MaxOfTwo
      <3>. QED  BY <1>2, <3>1, <3>2, <3>3 DEF PolicyResult
    <2>5. d.n_shapes \in 1 .. 6 /\ d.trajectory_complexity \in 1 .. 4
      <3>1. d.n_shapes = n /\ d.trajectory_complexity = PresetComplexity[p]
        BY <1>1, <1>2 DEF PolicyResult
      <3>2. PresetComplexity[p] \in 1 .. 4
        BY <1>0 DEF PolicyNumbers
      <3>. QED  BY <1>4, <3>1, <3>2
    <2>. QED  BY <1>3, <2>1, <2>2, <2>3, <2>4, <2>5 DEF SettingsOK
  <1>6. d.n_motion_slots = c.n_motion_slots
    BY <1>2 DEF PolicyResult, Numbers, Positive, Overridden
  <1>7. first <= d.n_motion_slots
    <2>1. c.n_motion_slots \in Nat
      BY FieldTypes
    <2>2. CASE c.motion_events_per_shape = <<>>
      BY <1>1, <1>6, <2>1, <2>2 DEF FirstCount
    <2>3. CASE c.motion_events_per_shape # <<>>
      <3>1. EachFitsSlots(c)
        BY <1>3, <2>3 DEF CountsOK, ExplicitCountsOK, RandomRangesOK, RandomCountsOK
      <3>2. PICK s \in Seq(Nat) : s = c.motion_events_per_shape
        BY FieldTypes
      <3>3. 1 \in DOMAIN s
        BY <2>3, <3>2
      <3>. QED  BY <1>1, <1>6, <2>3, <3>1, <3>2, <3>3 DEF EachFitsSlots, FirstCount
    <2>. QED  BY <2>2, <2>3
  <1>8. ConfigTypes(d)
    BY <1>1, PolicyTypes
  <1>9. PICK q : q = d.motion_events_per_shape
    OBVIOUS
  <1>10. Total(q) \in Nat /\ Len(q) = n /\ DOMAIN q = 1 .. n /\ \A i \in 1 .. n : q[i] = first
    <2>1. q \in Seq(Nat) /\ q = [i \in 1 .. n |-> first]
      BY <1>1, <1>2, <1>8, <1>9 DEF PolicyResult, ConfigTypes
    <2>2. DOMAIN q = 1 .. n /\ \A i \in 1 .. n : q[i] = first
      BY <2>1
    <2>3. Len(q) = n
      BY <1>4, <2>1, <2>2
    <2>4. q \in [1 .. n -> Nat] /\ n \in Nat
      BY <1>4, <2>1, <2>2, <2>3
    <2>. QED  BY <2>2, <2>3, <2>4, TotalType
  <1>11. ModeCapacity(d) \in Nat
    BY <1>8, BudgetBounds
  <1>12. ASSUME ~(Total(q) > ModeCapacity(d))
         PROVE  Validate(d)
    <2>1. EachFitsSlots(d)
      BY <1>7, <1>9, <1>10 DEF EachFitsSlots
    <2>2. ExplicitCountsOK(d)
      <3>1. Len(d.motion_events_per_shape) = d.n_shapes
        BY <1>1, <1>2, <1>9, <1>10 DEF PolicyResult
      <3>2. Total(d.motion_events_per_shape) <= ModeCapacity(d)
        BY <1>9, <1>10, <1>11, <1>12
      <3>3. d.n_motion_events_total = None /\ d.motion_events_per_shape_random_ranges = None
        BY <1>2 DEF PolicyResult
      <3>. QED  BY <2>1, <3>1, <3>2, <3>3 DEF ExplicitCountsOK, WithinCap
    <2>. QED  BY <1>2, <1>5, <2>2 DEF PolicyResult, Validate, CountsOK
  <1>. QED  BY <1>1, <1>9, <1>12

-------------------------------------------------------------------------------
(* The events of a scene.                                                  *)
(* Sorted lists a set of slots in increasing order. *)
LEMMA SortedLists ==
    ASSUME NEW s \in SUBSET Nat, IsFiniteSet(s), NEW m, m = Cardinality(s)
    PROVE  /\ m \in Nat /\ Sorted(s) \in [1 .. m -> s]
           /\ \A j, k \in 1 .. m : j < k => Sorted(s)[j] < Sorted(s)[k]
  <1>. DEFINE rank(x) == Cardinality({t \in s : t <= x})
  <1>2. /\ m \in Nat
        /\ \A x \in s : rank(x) \in 1 .. m
        /\ \A x, y \in s : x < y => rank(x) < rank(y)
        /\ \A k \in 1 .. m : \E x \in s : rank(x) = k
    BY NumbersRanked
  <1>1. m \in Nat
    BY <1>2
  <1>3. ASSUME NEW x \in s, NEW y \in s, x < y
        PROVE  rank(x) < rank(y)
    BY <1>2, <1>3
  <1>5. \A k \in 1 .. m : \E x \in s : rank(x) = k
    BY <1>2
  <1>. DEFINE q == [k \in 1 .. m |-> CHOOSE x \in s : rank(x) = k]
  <1>6. Sorted(s) = q
    BY DEF Sorted
  <1>. HIDE DEF rank
  <1>7. \A k \in 1 .. m : q[k] \in s /\ rank(q[k]) = k
    <2>. TAKE k \in 1 .. m
    <2>1. PICK c : c = CHOOSE x \in s : rank(x) = k
      OBVIOUS
    <2>2. c \in s /\ rank(c) = k
      BY <1>5, <2>1
    <2>. QED  BY <2>1, <2>2
  <1>8. q \in [1 .. m -> s]
    BY <1>7
  <1>. HIDE DEF q
  <1>9. ASSUME NEW j \in 1 .. m, NEW k \in 1 .. m, j < k
        PROVE  q[j] < q[k]
    <2>1. PICK x \in s, y \in s : x = q[j] /\ y = q[k] /\ rank(x) = j /\ rank(y) = k
      BY <1>7
    <2>2. x \in Nat /\ y \in Nat
      OBVIOUS
    <2>3. ~(y < x) /\ x # y
      BY <1>3, <1>9, <2>1
    <2>. QED  BY <2>1, <2>2, <2>3
  <1>. QED  BY <1>1, <1>6, <1>8, <1>9

(* The ids of the events are a permutation of the numbers below their      *)
(* total.                                                                  *)
LEMMA IdsNumberTheEvents ==
    ASSUME NEW n \in Nat, NEW ids \in EventIds(n)
    PROVE  /\ DOMAIN ids = 1 .. n
           /\ {ids[k] : k \in 1 .. n} = 0 .. n - 1
           /\ \A j, k \in 1 .. n : ids[j] = ids[k] => j = k
  <1>1. IsFiniteSet(1 .. n) /\ Cardinality(1 .. n) = n
    <2>1. 1 \in Int /\ n \in Int
      OBVIOUS
    <2>2. IsFiniteSet(1 .. n) /\ Cardinality(1 .. n) = IF 1 > n THEN 0 ELSE n - 1 + 1
      BY <2>1, FS_Interval
    <2>. QED  BY <2>2
  <1>2. PICK p \in SetToSeqs(1 .. n) : ids = [k \in 1 .. n |-> p[k] - 1]
    BY DEF EventIds
  <1>3. p \in Injection(1 .. n, 1 .. n)
    BY <1>1, <1>2 DEF SetToSeqs, Injection, IsInjective
  <1>4. p \in Surjection(1 .. n, 1 .. n)
    <2>1. PICK S : S = 1 .. n
      OBVIOUS
    <2>. QED  BY <1>1, <1>3, <2>1, FS_Injection
  <1>5. p \in [1 .. n -> 1 .. n] /\ \A v \in 1 .. n : \E k \in 1 .. n : p[k] = v
    BY <1>4 DEF Surjection
  <1>6. ASSUME NEW k \in 1 .. n
        PROVE  ids[k] = p[k] - 1 /\ ids[k] \in 0 .. n - 1
    <2>1. PICK v \in 1 .. n : v = p[k]
      BY <1>5
    <2>2. ids[k] = v - 1
      BY <1>2, <2>1
    <2>. QED  BY <2>1, <2>2
  <1>7. ASSUME NEW v \in 0 .. n - 1
        PROVE  \E k \in 1 .. n : ids[k] = v
    <2>1. v + 1 \in 1 .. n
      OBVIOUS
    <2>2. PICK k \in 1 .. n : p[k] = v + 1
      BY <1>5, <2>1
    <2>3. ids[k] = v
      BY <1>6, <2>2
    <2>. QED  BY <2>3
  <1>8. ASSUME NEW j \in 1 .. n, NEW k \in 1 .. n, ids[j] = ids[k]
        PROVE  j = k
    <2>1. PICK v \in 1 .. n, w \in 1 .. n : v = p[j] /\ w = p[k]
      BY <1>5
    <2>2. v - 1 = w - 1
      BY <1>6, <1>8, <2>1
    <2>3. p[j] = p[k]
      BY <2>1, <2>2
    <2>. QED  BY <1>3, <2>3 DEF Injection, IsInjective
  <1>. QED  BY <1>2, <1>6, <1>7, <1>8

(* What of the counts comes before a shape, by their running totals. *)
LEMMA TotalBefore ==
    ASSUME NEW n \in Nat, NEW f \in [1 .. n -> Nat], NEW at \in [0 .. n -> Nat], at[0] = 0,
           \A i \in 1 .. n : at[i] = at[i - 1] + f[i]
    PROVE  Total(f) = at[n] /\ \A m \in 0 .. n : Total(SubSeq(f, 1, m)) = at[m]
  <1>1. \A m \in 0 .. n : SumFunctionOnSet(f, 1 .. m) = at[m]
    BY PrefixSums
  <1>2. Total(f) = at[n]
    <2>1. Total(f) = SumFunctionOnSet(f, 1 .. n)
      BY TotalType
    <2>2. n \in 0 .. n
      OBVIOUS
    <2>. QED  BY <1>1, <2>1, <2>2
  <1>3. ASSUME NEW m \in 0 .. n
        PROVE  Total(SubSeq(f, 1, m)) = at[m]
    <2>1. PICK g : g = SubSeq(f, 1, m)
      OBVIOUS
    <2>2. \A i \in 1 .. m : i \in 1 .. n /\ f[i] \in Nat
      OBVIOUS
    <2>3. /\ g \in Seq(Nat) /\ Len(g) = IF 1 <= m THEN m - 1 + 1 ELSE 0
          /\ \A i \in 1 .. m - 1 + 1 : g[i] = f[1 + i - 1]
      <3>1. 1 \in Int /\ m \in Int /\ \A i \in 1 .. m : f[i] \in Nat
        BY <2>2
      <3>. QED  BY <2>1, <3>1, SubSeqProperties
    <2>4. Len(g) = m /\ \A i \in 1 .. m : g[i] = f[i]
      BY <2>3
    <2>5. g \in [1 .. m -> Nat]
      BY <2>3, <2>4, LenProperties
    <2>6. IsFiniteSet(1 .. m) /\ Total(g) = SumFunctionOnSet(g, 1 .. m)
      <3>1. m \in Nat
        OBVIOUS
      <3>. QED  BY <2>5, <3>1, TotalType
    <2>7. SumFunctionOnSet(g, 1 .. m) = SumFunctionOnSet(f, 1 .. m)
      <3>1. \A i \in 1 .. m : f[i] \in Int /\ g[i] = f[i]
        BY <2>2, <2>4
      <3>. QED  BY <2>6, <3>1, SumSame
    <2>. QED  BY <1>1, <2>1, <2>6, <2>7
  <1>. QED  BY <1>2, <1>3

(* The slots of every shape are slots of the scene, in increasing order,   *)
(* and without simultaneous motion they are cut out of one list without    *)
(* repetitions.                                                            *)
SlotsInOrder(c, n, f, at, slots) ==
    /\ \A i \in 1 .. n : \A k \in 1 .. f[i] : slots[i][k] \in Slots(c)
    /\ \A i \in 1 .. n : \A j, k \in 1 .. f[i] : j < k => slots[i][j] < slots[i][k]
    /\ ~ c.allow_simultaneous =>
           \E q : /\ \A j, k \in 1 .. at[n] : q[j] = q[k] => j = k
                  /\ \A i \in 1 .. n : \A k \in 1 .. f[i] : slots[i][k] = q[at[i - 1] + k]

LEMMA ChosenInOrder ==
    ASSUME NEW c, ConfigTypes(c), NEW n \in Nat, NEW f \in [1 .. n -> Nat],
           NEW at \in [0 .. n -> Nat], at[0] = 0, \A i \in 1 .. n : at[i] = at[i - 1] + f[i],
           \A i \in 1 .. n : \A k \in 1 .. f[i] : at[i - 1] + k \in 1 .. at[n],
           NEW slots \in SlotChoices(c, f)
    PROVE  SlotsInOrder(c, n, f, at, slots)
  <1>1. IsFiniteSet(Slots(c)) /\ Slots(c) \subseteq Nat
    <2>1. PICK m \in Nat : m = c.n_motion_slots
      BY FieldTypes
    <2>2. 0 \in Int /\ m - 1 \in Int
      OBVIOUS
    <2>3. IsFiniteSet(0 .. m - 1)
      BY <2>2, FS_Interval
    <2>. QED  BY <2>1, <2>3 DEF Slots
  <1>2. \A s \in SUBSET Slots(c) : IsFiniteSet(s) /\ s \in SUBSET Nat
    BY <1>1, FS_Subset
  <1>3. DOMAIN f = 1 .. n
    OBVIOUS
  <1>4. CASE c.allow_simultaneous
    <2>1. PICK s \in [1 .. n -> SUBSET Slots(c)] : /\ \A i \in 1 .. n : Cardinality(s[i]) = f[i]
                                                   /\ slots = [i \in 1 .. n |-> Sorted(s[i])]
      BY <1>3, <1>4 DEF SlotChoices
    <2>2. ASSUME NEW i \in 1 .. n
          PROVE  /\ slots[i] \in [1 .. f[i] -> Slots(c)]
                 /\ \A j, k \in 1 .. f[i] : j < k => slots[i][j] < slots[i][k]
      <3>1. PICK own, m : own = s[i] /\ m = f[i]
        OBVIOUS
      <3>2. own \in SUBSET Nat /\ IsFiniteSet(own) /\ m = Cardinality(own) /\ own \subseteq Slots(c)
        BY <1>2, <2>1, <3>1
      <3>3. Sorted(own) \in [1 .. m -> own] /\ \A j, k \in 1 .. m : j < k => Sorted(own)[j] < Sorted(own)[k]
        BY <3>2, SortedLists
      <3>4. slots[i] = Sorted(own)
        BY <2>1, <3>1
      <3>. QED  BY <3>1, <3>2, <3>3, <3>4
    <2>. QED  BY <1>4, <2>2 DEF SlotsInOrder
  <1>5. CASE ~ c.allow_simultaneous
    <2>1. PICK s \in kSubset(Total(f), Slots(c)) :
              slots = [i \in 1 .. n |-> SubSeq(Sorted(s), Total(SubSeq(f, 1, i - 1)) + 1,
                                                          Total(SubSeq(f, 1, i - 1)) + f[i])]
      BY <1>3, <1>5 DEF SlotChoices
    <2>2. PICK q, m : q = Sorted(s) /\ m = at[n]
      OBVIOUS
    <2>3. Total(f) = m /\ \A i \in 0 .. n : Total(SubSeq(f, 1, i)) = at[i]
      BY <2>2, TotalBefore
    <2>4. s \in SUBSET Slots(c) /\ Cardinality(s) = m
      BY <2>1, <2>3 DEF kSubset
    <2>5. m \in Nat /\ q \in [1 .. m -> s] /\ \A j, k \in 1 .. m : j < k => q[j] < q[k]
      <3>1. s \in SUBSET Nat /\ IsFiniteSet(s)
        BY <1>2, <2>4
      <3>. QED  BY <2>2, <2>4, <3>1, SortedLists
    <2>6. \A k \in 1 .. m : q[k] \in Slots(c) /\ q[k] \in Nat
      BY <1>1, <2>4, <2>5
    <2>7. ASSUME NEW i \in 1 .. n, NEW k \in 1 .. f[i]
          PROVE  /\ at[i - 1] \in Nat /\ at[i - 1] + k \in 1 .. m
                 /\ slots[i][k] = q[at[i - 1] + k]
      <3>1. PICK a \in Nat, l \in Nat : a = at[i - 1] /\ l = f[i]
        OBVIOUS
      <3>2. a + k \in 1 .. m /\ a + l \in 1 .. m
        <4>1. k \in 1 .. l
          BY <3>1
        <4>2. l \in 1 .. l
          BY <4>1
        <4>3. \A x \in 1 .. l : a + x \in 1 .. m
          BY <2>2, <3>1
        <4>. QED  BY <4>1, <4>2, <4>3, Zenon
      <3>3. Total(SubSeq(f, 1, i - 1)) = a
        BY <2>3, <3>1
      <3>4. slots[i] = SubSeq(q, a + 1, a + l)
        BY <2>1, <2>2, <3>1, <3>3
      <3>5. \A p \in a + 1 .. a + l : q[p] \in Slots(c)
        <4>1. \A p \in a + 1 .. a + l : p \in 1 .. m
          BY <2>5, <3>2
        <4>. QED  BY <2>6, <4>1
      <3>6. \A p \in 1 .. (a + l) - (a + 1) + 1 : SubSeq(q, a + 1, a + l)[p] = q[(a + 1) + p - 1]
        <4>1. a + 1 \in Int /\ a + l \in Int
          OBVIOUS
        <4>. QED  BY <3>5, <4>1, SubSeqProperties
      <3>7. k \in 1 .. (a + l) - (a + 1) + 1 /\ (a + 1) + k - 1 = a + k
        <4>1. k \in 1 .. l
          BY <3>1
        <4>2. (a + l) - (a + 1) + 1 = l /\ (a + 1) + k - 1 = a + k
          BY <4>1
        <4>. QED  BY <4>1, <4>2
      <3>8. slots[i][k] = q[a + k]
        BY <3>4, <3>6, <3>7
      <3>. QED  BY <3>1, <3>2, <3>8
    <2>8. ASSUME NEW i \in 1 .. n, NEW j \in 1 .. f[i], NEW k \in 1 .. f[i], j < k
          PROVE  slots[i][j] < slots[i][k]
      <3>1. PICK a \in Nat : a = at[i - 1] /\ a + j \in 1 .. m /\ a + k \in 1 .. m
        BY <2>7
      <3>2. a + j < a + k
        BY <2>8, <3>1
      <3>3. q[a + j] < q[a + k]
        BY <2>5, <3>1, <3>2
      <3>. QED  BY <2>7, <3>1, <3>3
    <2>9. \A i \in 1 .. n : \A k \in 1 .. f[i] : slots[i][k] \in Slots(c)
      BY <2>6, <2>7
    <2>10. ASSUME NEW j \in 1 .. m, NEW k \in 1 .. m, q[j] = q[k]
           PROVE  j = k
      <3>1. q[j] \in Nat /\ ~ (q[j] < q[k]) /\ ~ (q[k] < q[j])
        BY <2>6, <2>10
      <3>2. ~ (j < k) /\ ~ (k < j)
        BY <2>5, <3>1
      <3>. QED  BY <3>2
    <2>11. /\ \A j, k \in 1 .. at[n] : q[j] = q[k] => j = k
           /\ \A i \in 1 .. n : \A k \in 1 .. f[i] : slots[i][k] = q[at[i - 1] + k]
      BY <2>2, <2>7, <2>10
    <2>12. \A i \in 1 .. n : \A j, k \in 1 .. f[i] : j < k => slots[i][j] < slots[i][k]
      BY <2>8
    <2>. DEFINE Lists(r) == /\ \A j, k \in 1 .. at[n] : r[j] = r[k] => j = k
                            /\ \A i \in 1 .. n : \A k \in 1 .. f[i] : slots[i][k] = r[at[i - 1] + k]
    <2>13. Lists(q)
      BY <2>11
    <2>14. \E r : Lists(r)
      <3>. HIDE DEF Lists
      <3>. QED  BY <2>13
    <2>. QED  BY <2>9, <2>12, <2>14 DEF SlotsInOrder
  <1>. QED  BY <1>4, <1>5

(* Where BuildMotionEvents puts the events: those of a shape one after the *)
(* other, shape after shape.                                               *)
Built(c, n, f, ps, slots, ids, events, at) ==
    /\ at \in [0 .. n -> Nat] /\ at[0] = 0
    /\ \A i \in 1 .. n : at[i] = at[i - 1] + f[i]
    /\ DOMAIN events = 1 .. at[n] /\ Len(events) = at[n]
    /\ at[n] = 0 => events = <<>>
    /\ \A i \in 1 .. n : \A k \in 1 .. f[i] :
           /\ at[i - 1] + k \in 1 .. at[n]
           /\ events[at[i - 1] + k] =
                  MotionEvent(c, ps[i], i, k - 1, slots[i][k], ids[at[i - 1] + k])
    /\ \A p \in 1 .. at[n] : \E i \in 1 .. n : \E k \in 1 .. f[i] : p = at[i - 1] + k

LEMMA BuiltInOrder ==
    ASSUME NEW c, NEW n \in Nat, NEW f \in [1 .. n -> Nat], NEW ps, NEW slots, NEW ids
    PROVE  \E at : Built(c, n, f, ps, slots, ids, BuildMotionEvents(c, f, ps, slots, ids), at)
  <1>. DEFINE before(i) == Total(SubSeq(f, 1, i - 1))
              M(i, k) == MotionEvent(c, ps[i], i, k - 1, slots[i][k], ids[before(i) + k])
  <1>1. PICK E : E = [i \in 1 .. n |-> [k \in 1 .. f[i] |-> M(i, k)]]
    OBVIOUS
  <1>2. PICK events : events = BuildMotionEvents(c, f, ps, slots, ids)
    OBVIOUS
  <1>3. events = FlattenSeq(E)
    <2>1. DOMAIN f = 1 .. n
      OBVIOUS
    <2>. QED  BY <1>1, <1>2, <2>1 DEF BuildMotionEvents
  <1>4. \A i \in 1 .. n : \A k \in 1 .. f[i] : M(i, k) = MotionEvent(c, ps[i], i, k - 1, slots[i][k], ids[before(i) + k])
    OBVIOUS
  <1>. HIDE DEF M, before
  <1>5. \A i \in 1 .. n : E[i] = [k \in 1 .. f[i] |-> M(i, k)]
    BY <1>1
  <1>6. PICK S : S = UNION {{M(i, k) : k \in 1 .. f[i]} : i \in 1 .. n}
    OBVIOUS
  <1>7. ASSUME NEW i \in 1 .. n
        PROVE  E[i] \in Seq(S) /\ Len(E[i]) = f[i] /\ \A k \in 1 .. f[i] : E[i][k] = M(i, k)
    <2>1. PICK l \in Nat, q \in {E[i]} : q = E[i] /\ l = f[i]
      OBVIOUS
    <2>2. \A k \in 1 .. l : M(i, k) \in S
      BY <1>6, <2>1
    <2>3. q = [k \in 1 .. l |-> M(i, k)]
      BY <1>5, <2>1
    <2>4. q \in [1 .. l -> S]
      BY <2>2, <2>3
    <2>5. q \in Seq(S) /\ Len(q) = l
      BY <2>4
    <2>. QED  BY <2>1, <2>3, <2>5
  <1>8. E \in Seq(Seq(S)) /\ Len(E) = n
    <2>1. PICK Q : Q = Seq(S)
      OBVIOUS
    <2>2. DOMAIN E = 1 .. n /\ \A i \in 1 .. n : E[i] \in Q
      BY <1>1, <1>7, <2>1
    <2>3. E \in [1 .. n -> Q]
      BY <1>1, <2>2
    <2>4. E \in Seq(Q) /\ Len(E) = n
      BY <2>3
    <2>. QED  BY <2>1, <2>4
  <1>9. PICK at : Layout(E, events, at)
    BY <1>3, <1>8, FlattenLayout
  <1>10. /\ at \in [0 .. n -> Nat] /\ at[0] = 0
         /\ \A i \in 1 .. n : at[i] = at[i - 1] + f[i]
         /\ DOMAIN events = 1 .. at[n] /\ Len(events) = at[n]
         /\ \A i \in 1 .. n : \A k \in 1 .. f[i] :
                at[i - 1] + k \in 1 .. at[n] /\ events[at[i - 1] + k] = M(i, k)
         /\ \A p \in 1 .. at[n] : \E i \in 1 .. n : \E k \in 1 .. f[i] : p = at[i - 1] + k
    <2>1. /\ at \in [0 .. n -> Nat] /\ at[0] = 0
          /\ \A i \in 1 .. n : at[i] = at[i - 1] + Len(E[i])
          /\ DOMAIN events = 1 .. at[n] /\ Len(events) = at[n]
          /\ \A i \in 1 .. n : \A k \in 1 .. Len(E[i]) :
                 at[i - 1] + k \in DOMAIN events /\ events[at[i - 1] + k] = E[i][k]
          /\ \A p \in DOMAIN events : \E i \in 1 .. n : \E k \in 1 .. Len(E[i]) : p = at[i - 1] + k
      BY <1>8, <1>9, Zenon DEF Layout
    <2>2. \A i \in 1 .. n : at[i] = at[i - 1] + f[i]
      BY <1>7, <2>1
    <2>3. ASSUME NEW i \in 1 .. n, NEW k \in 1 .. f[i]
          PROVE  at[i - 1] + k \in 1 .. at[n] /\ events[at[i - 1] + k] = M(i, k)
      <3>1. k \in 1 .. Len(E[i]) /\ E[i][k] = M(i, k)
        BY <1>7
      <3>. QED  BY <2>1, <3>1, Zenon
    <2>4. ASSUME NEW p \in 1 .. at[n]
          PROVE  \E i \in 1 .. n : \E k \in 1 .. f[i] : p = at[i - 1] + k
      <3>1. PICK i \in 1 .. n : \E k \in 1 .. Len(E[i]) : p = at[i - 1] + k
        BY <2>1, Zenon
      <3>2. Len(E[i]) = f[i]
        BY <1>7
      <3>. QED  BY <3>1, <3>2
    <2>. QED  BY <2>1, <2>2, <2>3, <2>4
  <1>11. \A i \in 1 .. n : before(i) = at[i - 1]
    <2>1. \A m \in 0 .. n : Total(SubSeq(f, 1, m)) = at[m]
      BY <1>10, TotalBefore
    <2>. QED  BY <2>1 DEF before
  <1>12. \A i \in 1 .. n : \A k \in 1 .. f[i] :
             events[at[i - 1] + k] = MotionEvent(c, ps[i], i, k - 1, slots[i][k], ids[at[i - 1] + k])
    <2>. TAKE i \in 1 .. n
    <2>. TAKE k \in 1 .. f[i]
    <2>1. events[at[i - 1] + k] = M(i, k) /\ before(i) = at[i - 1]
      BY <1>10, <1>11
    <2>2. M(i, k) = MotionEvent(c, ps[i], i, k - 1, slots[i][k], ids[before(i) + k])
      BY <1>4
    <2>. QED  BY <2>1, <2>2, Zenon
  <1>13. at[n] = 0 => events = <<>>
    <2>1. events \in Seq(S)
      BY <1>3, <1>8, FlattenLayout
    <2>2. Len(events) = at[n]
      BY <1>8, <1>9, Zenon DEF Layout
    <2>. QED  BY <2>1, <2>2, EmptySeq
  <1>14. Built(c, n, f, ps, slots, ids, events, at)
    BY <1>10, <1>12, <1>13 DEF Built
  <1>. QED  BY <1>2, <1>14

(* EventsFollowTheShape of any events and paths. *)
Follows(c, ps, events) ==
    /\ {events[k].global_event_index : k \in DOMAIN events} = 0 .. Len(events) - 1
    /\ \A k \in DOMAIN events : events[k].time_slot \in 0 .. c.n_motion_slots - 1
    /\ ~ c.allow_simultaneous =>
           \A j, k \in DOMAIN events : events[j].time_slot = events[k].time_slot => j = k
    /\ \A i \in DOMAIN ps :
           LET own == {k \in DOMAIN events : events[k].shape_index = i}
           IN  /\ \A j, k \in own : j < k =>
                      /\ events[j].time_slot < events[k].time_slot
                      /\ j + 1 \in own
                      /\ k = j + 1 => events[j].end_point = events[k].start_point
               /\ \A k \in own :
                      /\ k - 1 \notin own => events[k].start_point = ps[i][1]
                      /\ k + 1 \notin own => events[k].end_point = Last(ps[i])

LEMMA BuiltFollow ==
    ASSUME NEW c, ConfigTypes(c), NEW n \in Nat, NEW f \in [1 .. n -> Nat],
           NEW ps, DOMAIN ps = 1 .. n, \A i \in 1 .. n : Len(ps[i]) = 1 + f[i] * SamplesPerEvent,
           NEW slots \in SlotChoices(c, f), NEW ids \in EventIds(Total(f))
    PROVE  Follows(c, ps, BuildMotionEvents(c, f, ps, slots, ids))
  <1>1. PICK events : events = BuildMotionEvents(c, f, ps, slots, ids)
    OBVIOUS
  <1>2. PICK at \in [0 .. n -> Nat] : Built(c, n, f, ps, slots, ids, events, at)
    <2>1. PICK d : Built(c, n, f, ps, slots, ids, events, d)
      BY <1>1, BuiltInOrder
    <2>. QED  BY <2>1 DEF Built
  <1>3. /\ at[0] = 0 /\ \A i \in 1 .. n : at[i] = at[i - 1] + f[i]
        /\ DOMAIN events = 1 .. at[n] /\ Len(events) = at[n]
        /\ \A i \in 1 .. n : \A k \in 1 .. f[i] : at[i - 1] + k \in 1 .. at[n]
        /\ \A p \in 1 .. at[n] : \E i \in 1 .. n : \E k \in 1 .. f[i] : p = at[i - 1] + k
    BY <1>2, Zenon DEF Built
  <1>4. PICK m \in Nat : m = at[n] /\ Total(f) = m
    <2>1. at[0] = 0 /\ \A i \in 1 .. n : at[i] = at[i - 1] + f[i]
      BY <1>3
    <2>2. Total(f) = at[n]
      BY <2>1, TotalBefore
    <2>3. at[n] \in Nat
      OBVIOUS
    <2>. QED  BY <2>2, <2>3
  <1>5. SlotsInOrder(c, n, f, at, slots)
    BY <1>3, ChosenInOrder
  <1>6. ASSUME NEW i \in 1 .. n, NEW k \in 1 .. f[i]
        PROVE  /\ events[at[i - 1] + k].global_event_index = ids[at[i - 1] + k]
               /\ events[at[i - 1] + k].time_slot = slots[i][k]
               /\ events[at[i - 1] + k].shape_index = i
               /\ events[at[i - 1] + k].start_point = ps[i][(k - 1) * SamplesPerEvent + 1]
               /\ events[at[i - 1] + k].end_point = ps[i][k * SamplesPerEvent + 1]
    <2>1. PICK e : e = events[at[i - 1] + k]
      OBVIOUS
    <2>2. e = MotionEvent(c, ps[i], i, k - 1, slots[i][k], ids[at[i - 1] + k])
      BY <1>2, <2>1, Zenon DEF Built
    <2>3. (k - 1) + 1 = k
      OBVIOUS
    <2>. QED  BY <2>1, <2>2, <2>3 DEF MotionEvent
  <1>7. {events[p].global_event_index : p \in DOMAIN events} = 0 .. Len(events) - 1
    <2>1. ASSUME NEW p \in 1 .. m
          PROVE  events[p].global_event_index = ids[p]
      <3>1. PICK i \in 1 .. n : \E k \in 1 .. f[i] : p = at[i - 1] + k
        BY <1>3, <1>4
      <3>. QED  BY <1>6, <3>1
    <2>2. {ids[p] : p \in 1 .. m} = 0 .. m - 1
      BY <1>4, IdsNumberTheEvents
    <2>3. {events[p].global_event_index : p \in 1 .. m} = {ids[p] : p \in 1 .. m}
      BY <2>1
    <2>. QED  BY <1>3, <1>4, <2>2, <2>3
  <1>8. \A p \in DOMAIN events : events[p].time_slot \in 0 .. c.n_motion_slots - 1
    <2>. TAKE p \in DOMAIN events
    <2>1. PICK i \in 1 .. n : \E k \in 1 .. f[i] : p = at[i - 1] + k
      BY <1>3
    <2>2. PICK k \in 1 .. f[i] : p = at[i - 1] + k
      BY <2>1
    <2>3. slots[i][k] \in Slots(c)
      BY <1>5 DEF SlotsInOrder
    <2>. QED  BY <1>6, <2>2, <2>3 DEF Slots
  <1>9. ASSUME ~ c.allow_simultaneous, NEW j \in DOMAIN events, NEW k \in DOMAIN events,
               events[j].time_slot = events[k].time_slot
        PROVE  j = k
    <2>1. PICK q : /\ \A x, y \in 1 .. at[n] : q[x] = q[y] => x = y
                   /\ \A i \in 1 .. n : \A l \in 1 .. f[i] : slots[i][l] = q[at[i - 1] + l]
      BY <1>5, <1>9 DEF SlotsInOrder
    <2>2. ASSUME NEW p \in 1 .. at[n]
          PROVE  events[p].time_slot = q[p]
      <3>1. PICK i \in 1 .. n : \E l \in 1 .. f[i] : p = at[i - 1] + l
        BY <1>3
      <3>. QED  BY <1>6, <2>1, <3>1
    <2>3. q[j] = q[k]
      BY <1>3, <1>9, <2>2
    <2>. QED  BY <1>3, <2>1, <2>3
  <1>10. ASSUME NEW i \in 1 .. n, NEW own, own = {p \in DOMAIN events : events[p].shape_index = i}
         PROVE  /\ \A j, k \in own : j < k =>
                       /\ events[j].time_slot < events[k].time_slot
                       /\ j + 1 \in own
                       /\ k = j + 1 => events[j].end_point = events[k].start_point
                /\ \A k \in own :
                       /\ k - 1 \notin own => events[k].start_point = ps[i][1]
                       /\ k + 1 \notin own => events[k].end_point = Last(ps[i])
    <2>1. PICK a \in Nat, l \in Nat : a = at[i - 1] /\ l = f[i]
      OBVIOUS
    <2>2. \A k \in 1 .. l : /\ a + k \in own
                            /\ events[a + k].time_slot = slots[i][k]
                            /\ events[a + k].start_point = ps[i][(k - 1) * SamplesPerEvent + 1]
                            /\ events[a + k].end_point = ps[i][k * SamplesPerEvent + 1]
      BY <1>3, <1>6, <1>10, <2>1
    <2>3. ASSUME NEW p \in own
          PROVE  \E k \in 1 .. l : p = a + k
      <3>1. p \in 1 .. at[n] /\ events[p].shape_index = i
        BY <1>3, <1>10
      <3>2. PICK h \in 1 .. n : \E k \in 1 .. f[h] : p = at[h - 1] + k
        BY <1>3, <3>1
      <3>3. PICK k \in 1 .. f[h] : p = at[h - 1] + k
        BY <3>2
      <3>4. h = i
        BY <1>6, <3>1, <3>3
      <3>. QED  BY <2>1, <3>3, <3>4
    <2>4. ASSUME NEW j \in own, NEW k \in own, j < k
          PROVE  /\ events[j].time_slot < events[k].time_slot
                 /\ j + 1 \in own
                 /\ k = j + 1 => events[j].end_point = events[k].start_point
      <3>1. PICK x \in 1 .. l, y \in 1 .. l : j = a + x /\ k = a + y
        BY <2>3
      <3>2. x < y /\ x + 1 \in 1 .. l /\ j + 1 = a + (x + 1)
        BY <2>4, <3>1
      <3>3. slots[i][x] < slots[i][y]
        BY <1>5, <2>1, <3>2 DEF SlotsInOrder
      <3>4. k = j + 1 => y - 1 = x
        BY <3>1
      <3>. QED  BY <2>2, <3>1, <3>2, <3>3, <3>4
    <2>5. ASSUME NEW k \in own
          PROVE  /\ k - 1 \notin own => events[k].start_point = ps[i][1]
                 /\ k + 1 \notin own => events[k].end_point = Last(ps[i])
      <3>1. PICK x \in 1 .. l : k = a + x
        BY <2>3
      <3>2. SamplesPerEvent \in Nat
        BY SamplesAssumption
      <3>3. ASSUME k - 1 \notin own PROVE events[k].start_point = ps[i][1]
        <4>1. x = 1
          <5>1. CASE x # 1
            <6>1. x - 1 \in 1 .. l /\ k - 1 = a + (x - 1)
              BY <3>1, <5>1
            <6>. QED  BY <2>2, <3>3, <6>1
          <5>. QED  BY <5>1
        <4>2. (x - 1) * SamplesPerEvent + 1 = 1
          BY <3>2, <4>1
        <4>. QED  BY <2>2, <3>1, <4>2
      <3>4. ASSUME k + 1 \notin own PROVE events[k].end_point = Last(ps[i])
        <4>1. x = l
          <5>1. CASE x # l
            <6>1. x + 1 \in 1 .. l /\ k + 1 = a + (x + 1)
              BY <3>1, <5>1
            <6>. QED  BY <2>2, <3>4, <6>1
          <5>. QED  BY <5>1
        <4>2. Len(ps[i]) = l * SamplesPerEvent + 1
          <5>1. Len(ps[i]) = 1 + l * SamplesPerEvent
            BY <2>1
          <5>2. PICK z \in Nat : z = l * SamplesPerEvent
            BY <3>2
          <5>. QED  BY <5>1, <5>2
        <4>. QED  BY <2>2, <3>1, <4>1, <4>2 DEF Last
      <3>. QED  BY <3>3, <3>4
    <2>. QED  BY <2>4, <2>5
  <1>11. Follows(c, ps, events)
    BY <1>7, <1>8, <1>9, <1>10 DEF Follows
  <1>. QED  BY <1>1, <1>11

(* A path with a segment per event has as many points as its events need.  *)
LEMMA PathLength ==
    ASSUME NEW n \in Nat, NEW ends, DOMAIN ends = 0 .. n, NEW complexity
    PROVE  Len(TrajectoryPoints(ends, complexity)) = 1 + n * SamplesPerEvent
  <1>1. Cardinality(DOMAIN ends) - 1 = n
    <2>1. 0 \in Int /\ n \in Int
      OBVIOUS
    <2>2. Cardinality(0 .. n) = IF 0 > n THEN 0 ELSE n - 0 + 1
      BY <2>1, FS_Interval
    <2>. QED  BY <2>2
  <1>2. PICK m \in Nat : m = 1 + n * SamplesPerEvent
    <2>1. SamplesPerEvent \in Nat
      BY SamplesAssumption
    <2>2. n * SamplesPerEvent \in Nat
      BY <2>1
    <2>. QED  BY <2>2
  <1>3. PICK path : path = TrajectoryPoints(ends, complexity)
    OBVIOUS
  <1>4. DOMAIN path = 1 .. m /\ path = [i \in DOMAIN path |-> path[i]]
    BY <1>1, <1>2, <1>3 DEF TrajectoryPoints
  <1>5. PICK P : P = {path[i] : i \in 1 .. m}
    OBVIOUS
  <1>6. path \in [1 .. m -> P]
    BY <1>4, <1>5
  <1>7. path \in Seq(P) /\ Len(path) = m
    BY <1>6
  <1>. QED  BY <1>2, <1>3, <1>7

(* The paths sampled so far have a segment per event of their shapes.      *)
PathsFit(n, ps) ==
    /\ \E P : ps \in Seq(P)
    /\ Len(ps) <= Len(n)
    /\ \A i \in 1 .. Len(ps) : Len(ps[i]) = 1 + n[i] * SamplesPerEvent

LEMMA OneMoreFits ==
    ASSUME NEW n \in Seq(Nat), NEW ps, PathsFit(n, ps), Len(ps) < Len(n), NEW path,
           Len(path) = 1 + n[Len(ps) + 1] * SamplesPerEvent
    PROVE  PathsFit(n, Append(ps, path))
  <1>1. PICK P : ps \in Seq(P)
    BY DEF PathsFit
  <1>2. PICK Q : Q = P \cup {path}
    OBVIOUS
  <1>3. PICK m \in Nat : m = Len(ps)
    BY <1>1, LenProperties
  <1>4. ps \in Seq(Q)
    <2>1. ps \in [1 .. m -> P]
      BY <1>1, <1>3, LenProperties
    <2>2. ps \in [1 .. m -> Q]
      BY <1>2, <2>1
    <2>. QED  BY <2>2
  <1>5. PICK qs : qs = Append(ps, path)
    OBVIOUS
  <1>6. /\ qs \in Seq(Q) /\ Len(qs) = m + 1
        /\ \A i \in 1 .. m : qs[i] = ps[i]
        /\ qs[m + 1] = path
    <2>1. path \in Q
      BY <1>2
    <2>. QED  BY <1>3, <1>4, <1>5, <2>1, AppendProperties
  <1>7. ASSUME NEW i \in 1 .. m + 1
        PROVE  Len(qs[i]) = 1 + n[i] * SamplesPerEvent
    <2>1. CASE i = m + 1
      BY <1>3, <1>6, <2>1
    <2>2. CASE i # m + 1
      <3>1. i \in 1 .. m
        BY <2>2
      <3>2. Len(ps[i]) = 1 + n[i] * SamplesPerEvent
        BY <1>3, <3>1 DEF PathsFit
      <3>. QED  BY <1>6, <3>1, <3>2
    <2>. QED  BY <2>1, <2>2
  <1>8. m + 1 <= Len(n)
    <2>1. Len(n) \in Nat
      BY LenProperties
    <2>. QED  BY <1>3, <2>1
  <1>. QED  BY <1>5, <1>6, <1>7, <1>8 DEF PathsFit

-------------------------------------------------------------------------------
(* The invariant: what is generated from is a configuration, and after the *)
(* first step a valid one; the counts can be generated, the paths sampled  *)
(* so far fit them, and the events that are built of both follow them.     *)
GenInv ==
    /\ ConfigTypes(config)
    /\ stage \in {"counts", "paths"} => Validate(config)
    /\ stage \in {"config", "counts"} => paths = <<>>
    /\ stage = "paths" => Generates(config, counts) /\ PathsFit(counts, paths)
    /\ EventsFollowTheShape

LEMMA InitGenerates == GenInit => GenInv
  BY CandidatesAssumption DEF GenInit, GenInv, EventsFollowTheShape

LEMMA StepGenerates == GenInv /\ [GenNext]_genVars => GenInv'
  <1>. SUFFICES ASSUME GenInv, [GenNext]_genVars PROVE GenInv'
    OBVIOUS
  <1>1. CASE ApplyPreset
    <2>1. PICK p \in Policies : config' = ApplyPolicy(config, p)
      BY <1>1 DEF ApplyPreset
    <2>2. ConfigTypes(config')
      <3>1. p \in Presets /\ ConfigTypes(config)
        BY CandidatesAssumption DEF GenInv
      <3>. QED  BY <2>1, <3>1, PolicyTypes
    <2>3. stage' = "config" /\ paths' = <<>>
      BY <1>1 DEF ApplyPreset, GenInv
    <2>. QED  BY <2>2, <2>3 DEF GenInv, EventsFollowTheShape
  <1>2. CASE StartScene
    <2>1. /\ config' = config /\ paths' = paths /\ paths = <<>>
          /\ stage' = IF Validate(config) THEN "counts" ELSE "rejected"
      BY <1>2 DEF StartScene, GenInv
    <2>. QED  BY <2>1 DEF GenInv, EventsFollowTheShape
  <1>3. CASE ResolveCounts
    <2>1. /\ counts' \in ResolveMotionEvents(config) /\ config' = config /\ stage' = "paths"
          /\ paths' = <<>> /\ ConfigTypes(config) /\ Validate(config)
      BY <1>3 DEF ResolveCounts, GenInv
    <2>2. PICK c, n, ps : c = config /\ n = counts' /\ ps = paths'
      OBVIOUS
    <2>3. Generates(c, n)
      BY <2>1, <2>2, ResolvedGenerates
    <2>4. PathsFit(n, ps)
      <3>1. n \in Seq(Nat) /\ ps = <<>>
        BY <2>1, <2>2, <2>3 DEF Generates
      <3>2. ps \in Seq(Nat) /\ Len(ps) = 0 /\ Len(n) \in Nat
        BY <3>1
      <3>. QED  BY <3>2 DEF PathsFit
    <2>5. Generates(config', counts') /\ PathsFit(counts', paths')
      BY <2>1, <2>2, <2>3, <2>4 DEF Generates, PathsFit
    <2>6. ConfigTypes(config') /\ Validate(config')
      BY <2>1
    <2>. QED  BY <2>1, <2>5, <2>6 DEF GenInv, EventsFollowTheShape
  <1>4. CASE SamplePath
    <2>1. /\ stage = "paths" /\ stage' = stage /\ config' = config /\ counts' = counts
          /\ Len(paths) < Len(counts) /\ Generates(config, counts) /\ PathsFit(counts, paths)
          /\ ConfigTypes(config) /\ Validate(config)
      BY <1>4 DEF SamplePath, GenInv
    <2>2. PICK n, ps, k, path : /\ n = counts /\ ps = paths /\ k = n[Len(ps) + 1]
                                /\ paths' = Append(ps, path) /\ Len(path) = 1 + k * SamplesPerEvent
      <3>1. PICK k \in Nat : k = counts[Len(paths) + 1]
        <4>1. counts \in Seq(Nat) /\ Len(counts) \in Nat /\ Len(paths) \in Nat
          <5>1. PICK P : paths \in Seq(P)
            BY <2>1 DEF PathsFit
          <5>2. counts \in Seq(Nat)
            BY <2>1 DEF Generates
          <5>. QED  BY <5>1, <5>2, LenProperties
        <4>2. Len(paths) + 1 \in 1 .. Len(counts)
          BY <2>1, <4>1
        <4>. QED  BY <4>1, <4>2
      <3>2. CASE k = 0
        <4>1. paths' = Append(paths, <<<<0, 0>>>>)
          BY <1>4, <3>1, <3>2 DEF SamplePath
        <4>2. Len(<<<<0, 0>>>>) = 1 /\ 1 + 0 * SamplesPerEvent = 1
          BY SamplesAssumption
        <4>. QED  BY <3>1, <3>2, <4>1, <4>2
      <3>3. CASE k # 0
        <4>1. PICK ends \in [0 .. k -> PathPoints[Len(counts)]] :
                  paths' = Append(paths, TrajectoryPoints(ends, config.trajectory_complexity))
          BY <1>4, <3>1, <3>3 DEF SamplePath
        <4>2. DOMAIN ends = 0 .. k
          OBVIOUS
        <4>3. Len(TrajectoryPoints(ends, config.trajectory_complexity)) = 1 + k * SamplesPerEvent
          BY <4>2, PathLength
        <4>. QED  BY <3>1, <4>1, <4>3
      <3>. QED  BY <3>2, <3>3
    <2>3. PathsFit(n, Append(ps, path))
      <3>1. n \in Seq(Nat) /\ PathsFit(n, ps) /\ Len(ps) < Len(n)
        BY <2>1, <2>2 DEF Generates
      <3>. QED  BY <2>2, <3>1, OneMoreFits
    <2>4. Generates(config', counts') /\ PathsFit(counts', paths')
      BY <2>1, <2>2, <2>3 DEF Generates, PathsFit
    <2>5. ConfigTypes(config') /\ Validate(config') /\ stage' = "paths"
      BY <2>1
    <2>. QED  BY <2>4, <2>5 DEF GenInv, EventsFollowTheShape
  <1>5. CASE BuildScene
    <2>1. /\ config' = config /\ stage' = "scene" /\ ConfigTypes(config)
          /\ counts \in Seq(Nat) /\ PathsFit(counts, paths) /\ Len(paths) = Len(counts)
      BY <1>5 DEF BuildScene, GenInv, Generates
    <2>2. PICK slots \in SlotChoices(config, counts), ids \in EventIds(Total(counts)) :
              /\ scene'.shape_paths = paths
              /\ scene'.motion_events = BuildMotionEvents(config, counts, paths, slots, ids)
      BY <1>5 DEF BuildScene
    <2>3. PICK n \in Nat : n = Len(counts)
      BY <2>1, LenProperties
    <2>4. counts \in [1 .. n -> Nat]
      BY <2>1, <2>3, LenProperties
    <2>5. DOMAIN paths = 1 .. n /\ \A i \in 1 .. n : Len(paths[i]) = 1 + counts[i] * SamplesPerEvent
      BY <2>1, <2>3, LenProperties DEF PathsFit
    <2>6. Follows(config, paths, BuildMotionEvents(config, counts, paths, slots, ids))
      BY <2>1, <2>4, <2>5, BuiltFollow
    <2>7. Follows(config', scene'.shape_paths, scene'.motion_events)
      BY <2>1, <2>2, <2>6
    <2>8. EventsFollowTheShape'
      BY <2>7, Zenon DEF EventsFollowTheShape, PositionsOf, Follows
    <2>9. ConfigTypes(config')
      BY <2>1
    <2>. QED  BY <2>1, <2>8, <2>9 DEF GenInv
  <1>6. CASE UNCHANGED genVars
    BY <1>6 DEF genVars, GenInv, EventsFollowTheShape, PositionsOf
  <1>. QED  BY <1>1, <1>2, <1>3, <1>4, <1>5, <1>6 DEF GenNext

(* Whatever validate accepts, for any number of shapes, slots and events:  *)
(* the counts that resolve keep to the cap and to the minimums, and there  *)
(* are slots for them (resolve_motion_events_per_shape,                    *)
(* scene_generation.rs:422).                                               *)
THEOREM AcceptedGenerates == GenSpec => []AcceptedConfigGenerates
  <1>1. GenInv => AcceptedConfigGenerates
    BY DEF GenInv, AcceptedConfigGenerates, Generates
  <1>. QED  BY <1>1, InitGenerates, StepGenerates, PTL DEF GenSpec

(* A policy applied to any valid configuration gives a valid one, or one   *)
(* refused for the capacity of its slots only (apply_policy,               *)
(* config.rs:451).                                                         *)
THEOREM PolicySafe == GenSpec => []PolicyRejectedOnlyForCapacity
  <1>1. GenInv => PolicyRejectedOnlyForCapacity
    BY PolicyValid DEF GenInv, PolicyRejectedOnlyForCapacity
  <1>. QED  BY <1>1, InitGenerates, StepGenerates, PTL DEF GenSpec

(* The events of every scene, for any number of shapes, slots, events and  *)
(* samples and any way they are drawn, follow their shapes, and their ids  *)
(* number them (build_motion_events, scene_generation.rs:174).             *)
THEOREM ScenesFollowPaths == GenSpec => []EventsFollowTheShape
  <1>1. GenInv => EventsFollowTheShape
    BY DEF GenInv
  <1>. QED  BY <1>1, InitGenerates, StepGenerates, PTL DEF GenSpec
===============================================================================
