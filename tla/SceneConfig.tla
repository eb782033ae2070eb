------------------------------ MODULE SceneConfig ------------------------------
(***************************************************************************)
(* The configuration of a dataset: what validate accepts, what a policy    *)
(* overrides, and the baseline they start from (shapeflow-core/config.rs). *)
(*                                                                         *)
(* A configuration is a record with the fields of the source, the nested   *)
(* structs flattened.  Rates are in per mille.  The settings that are only *)
(* checked for their range and only used by renderers are kept as the      *)
(* numbers validate looks at.                                              *)
(***************************************************************************)
EXTENDS Integers, Sequences, SequencesExt

CONSTANT None          \* the absent option

MaxMasterSeedExclusive == 2^16
SchemaVersion == 1
Presets == {"standard", "hardness", "obstruction", "non_transitivity",
            "bridging", "spectral_gap"}

(* Settings that must be positive and those that are fractions.            *)
Positive == {"resolution", "event_duration_frames", "n_motion_slots",
             "sound_sample_rate_hz", "sound_frames_per_second", "num_threads",
             "x_steepness", "y_steepness", "lambda2_min", "site_k", "lambda2_iterations"}
Fractions == {"sound_modulation_depth_per_mille", "text_synonym_rate", "text_typo_rate"}

Total(counts) == SumFunction(counts)

Baseline(seed) ==
    [schema_version |-> SchemaVersion, master_seed |-> seed, generation_profile |-> None,
     resolution |-> 512, n_shapes |-> 3, trajectory_complexity |-> 2,
     event_duration_frames |-> 24, easing_family |-> "ease_in_out", n_motion_slots |-> 12,
     motion_events_per_shape |-> <<4, 4, 4>>, n_motion_events_total |-> None,
     allow_simultaneous |-> FALSE, shape_identity_assignment |-> "index_locked",
     randomize_motion_events_per_shape |-> TRUE,
     motion_events_per_shape_random_ranges |-> None,
     sound_sample_rate_hz |-> 44100, sound_frames_per_second |-> 24,
     sound_modulation_depth_per_mille |-> 250, sound_channel_mapping |-> "stereo_alternating",
     text_reference_frame |-> "canonical", text_synonym_rate |-> 0, text_typo_rate |-> 0,
     x_steepness |-> 3000, y_steepness |-> 2000,
     site_k |-> 10, lambda2_min |-> 50, validation_scene_count |-> 32,
     lambda2_iterations |-> 64, num_threads |-> 4]

(* What the types of the source say of any configuration, valid or not.    *)
Assignments == {"index_locked", "pair_unique_random"}
Easings == {"linear", "ease_in", "ease_out", "ease_in_out"}

Numbers == Positive \cup Fractions \cup
           {"master_seed", "schema_version", "n_shapes", "trajectory_complexity",
            "validation_scene_count"}
Rates == {"x_steepness", "y_steepness", "lambda2_min", "text_synonym_rate", "text_typo_rate"}

ConfigTypes(c) ==
    /\ c = [f \in DOMAIN Baseline(0) |-> c[f]]
    /\ \A f \in Rates : c[f] \in Int
    /\ \A f \in Numbers \ Rates : c[f] \in Nat
    /\ c.shape_identity_assignment \in Assignments /\ c.easing_family \in Easings
    /\ c.allow_simultaneous \in BOOLEAN /\ c.randomize_motion_events_per_shape \in BOOLEAN
    /\ c.motion_events_per_shape \in Seq(Nat)
    /\ c.n_motion_events_total # None => c.n_motion_events_total \in Nat
    /\ c.motion_events_per_shape_random_ranges # None =>
           c.motion_events_per_shape_random_ranges \in Seq([min : Nat, max : Nat])

ModeCapacity(c) ==
    IF c.allow_simultaneous THEN c.n_motion_slots * c.n_shapes ELSE c.n_motion_slots

-------------------------------------------------------------------------------
(* validate, in the order of the source: the settings of the renderers,    *)
(* the landscape and the site graph first ...                              *)
SettingsOK(c) ==
    /\ c.master_seed < MaxMasterSeedExclusive
    /\ c.schema_version = SchemaVersion
    /\ c.n_shapes \in 1..6
    /\ c.trajectory_complexity \in 1..4
    /\ \A f \in Positive : c[f] > 0
    /\ \A f \in Fractions : c[f] \in 0..1000
    /\ c.validation_scene_count >= 2
    /\ c.site_k < c.validation_scene_count

WithinCap(n, c) == c.n_motion_events_total # None => n <= c.n_motion_events_total

(* ... then the three ways to say how often each shape moves: ranges to    *)
(* draw from,                                                              *)
(* Mutant: the minimums are not held against the cap.                      *)
RandomRangesUncapped(c) ==
    LET ranges == c.motion_events_per_shape_random_ranges
    IN  /\ c.motion_events_per_shape = <<>> /\ Len(ranges) = c.n_shapes
        /\ \A i \in DOMAIN ranges : ranges[i].min <= ranges[i].max
                                    /\ ranges[i].max <= c.n_motion_slots

RandomRangesOK(c) ==
    LET ranges   == c.motion_events_per_shape_random_ranges
        minTotal == Total([i \in DOMAIN ranges |-> ranges[i].min])
    IN  /\ c.motion_events_per_shape = <<>>
        /\ Len(ranges) = c.n_shapes
        /\ \A i \in DOMAIN ranges : ranges[i].min <= ranges[i].max
                                    /\ ranges[i].max <= c.n_motion_slots
        /\ minTotal <= ModeCapacity(c)
        /\ WithinCap(minTotal, c)

(* anything up to the slots (counts given beside it are checked, then      *)
(* ignored),                                                               *)
EachFitsSlots(c) == \A i \in DOMAIN c.motion_events_per_shape :
                        c.motion_events_per_shape[i] <= c.n_motion_slots

RandomCountsOK(c) ==
    /\ Len(c.motion_events_per_shape) \in {0, c.n_shapes}
    /\ EachFitsSlots(c)

(* or the counts themselves.                                               *)
ExplicitCountsOK(c) ==
    LET total == Total(c.motion_events_per_shape)
    IN  /\ c.motion_events_per_shape_random_ranges = None
        /\ Len(c.motion_events_per_shape) = c.n_shapes
        /\ EachFitsSlots(c)
        /\ total <= ModeCapacity(c)
        /\ WithinCap(total, c)

CountsOK(c) ==
    IF ~ c.randomize_motion_events_per_shape THEN ExplicitCountsOK(c)
    ELSE IF c.motion_events_per_shape_random_ranges # None THEN RandomRangesOK(c)
    ELSE RandomCountsOK(c)

Validate(c) ==
    /\ SettingsOK(c)
    /\ c.n_motion_events_total # None => c.n_motion_events_total <= ModeCapacity(c)
    /\ CountsOK(c)

-------------------------------------------------------------------------------
(* A policy sets the number of shapes and gives each the first count, or   *)
(* none when the configuration holds no counts;                            *)
ApplyShapeCountProfile(c, n) ==
    LET first == IF c.motion_events_per_shape = <<>> THEN 0 ELSE c.motion_events_per_shape[1]
    IN  [c EXCEPT !.n_shapes = n, !.motion_events_per_shape = [i \in 1..n |-> first],
                  !.n_motion_events_total = None,
                  !.randomize_motion_events_per_shape = FALSE,
                  !.motion_events_per_shape_random_ranges = None]

PresetShapes == [standard |-> 2, hardness |-> 4, obstruction |-> 2,
                 non_transitivity |-> 3, bridging |-> 3, spectral_gap |-> 2]
PresetComplexity == [standard |-> 2, hardness |-> 4, obstruction |-> 1,
                     non_transitivity |-> 3, bridging |-> 3, spectral_gap |-> 2]
PresetSteepness == [standard |-> <<3000, 2000>>, hardness |-> <<1000, 1000>>,
                    obstruction |-> <<8000, 8000>>, non_transitivity |-> <<3000, 3000>>,
                    bridging |-> <<2000, 2000>>, spectral_gap |-> <<2500, 2500>>]
PresetText == [p \in Presets |->
    CASE p = "obstruction"      -> <<"mixed", 400, 20>>
      [] p = "non_transitivity" -> <<"canonical", 150, 10>>
      [] p = "bridging"         -> <<"canonical", 80, 0>>
      [] OTHER                  -> <<"canonical", 0, 0>>]
PresetSiteK(p) == IF p = "spectral_gap" THEN 3 ELSE 10

(* it fixes the difficulty of paths, landscape and text, and raises the    *)
(* scenes of the site graph above the k it asks for.                       *)
(* Mutant: the number of scenes stays below the policy's k.                *)
ApplyPolicyKeepingScenes(c, p) ==
    [ApplyShapeCountProfile(c, PresetShapes[p]) EXCEPT
        !.trajectory_complexity = PresetComplexity[p],
        !.site_k = PresetSiteK(p), !.generation_profile = p]

ApplyPolicy(c, p) ==
    [ApplyShapeCountProfile(c, PresetShapes[p]) EXCEPT
        !.trajectory_complexity = PresetComplexity[p],
        !.x_steepness = PresetSteepness[p][1], !.y_steepness = PresetSteepness[p][2],
        !.text_reference_frame = PresetText[p][1],
        !.text_synonym_rate = PresetText[p][2], !.text_typo_rate = PresetText[p][3],
        !.site_k = PresetSiteK(p),
        !.validation_scene_count = Max({c.validation_scene_count, PresetSiteK(p) + 1}),
        !.generation_profile = p]

(* from_policy: one slot per event of one shape, then the policy.          *)
FromPolicy(p, seed, eventsPerShape, simultaneous, sceneCount) ==
    ApplyPolicy([Baseline(seed) EXCEPT
                    !.n_shapes = 1, !.n_motion_slots = eventsPerShape,
                    !.motion_events_per_shape = <<eventsPerShape>>,
                    !.randomize_motion_events_per_shape = FALSE,
                    !.allow_simultaneous = simultaneous,
                    !.site_k = 1, !.validation_scene_count = sceneCount], p)
===============================================================================
