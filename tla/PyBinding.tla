------------------------------- MODULE PyBinding -------------------------------
(***************************************************************************)
(* The Python module (shapeflow-py/src/lib.rs): a configuration object     *)
(* that is built and changed field by field, the bridge made from it, and  *)
(* the iterator a bridge hands out.  All of them hold a copy.              *)
(*                                                                         *)
(* A scene is the pair of the configuration and the index it is generated  *)
(* from.  Arguments are records of the fields they set; a token the parser *)
(* of its field does not know is refused before anything else.             *)
(***************************************************************************)
EXTENDS SceneConfig

CONSTANTS
    Arguments,       \* arguments of the constructors that differ from the settings below
    PolicyArguments, \* sequences of arguments for from_policy
    Values,          \* for every field with a setter, the values it is called with
    FileConfigs,     \* what may stand in the configuration file
    IndexArguments, BatchSizes, SampleTotals,   \* arguments of iter_scenes
    Broken,          \* indices of scenes that cannot be generated
    MaxIndex,        \* the largest index (2^64 - 1 in the code)
    MaxCalls,        \* bound: calls that change the configuration object
    MaxDelivered     \* bound: scenes an iterator delivers

ASSUME BindingAssumption ==
    /\ {MaxIndex, MaxCalls, MaxDelivered} \subseteq Nat
    /\ IndexArguments \subseteq 0 .. MaxIndex
    /\ BatchSizes \subseteq Nat
    /\ SampleTotals \subseteq Nat \cup {None} /\ None \notin Nat

(* A configuration in the file has the fields of one; no constructor takes *)
(* the switch between drawn and given counts.                              *)
DrawnCounts == "randomize_motion_events_per_shape"
ASSUME ArgumentsAssumption ==
    /\ \A c \in FileConfigs \ {None} : c = [f \in DOMAIN c |-> c[f]] /\ DrawnCounts \in DOMAIN c
    /\ \A a \in Arguments : DrawnCounts \notin DOMAIN a

VARIABLES
    held,       \* the configuration object, None before it is built
    origin,     \* what built it: "arguments", "policy" or "file"
    configFile, \* the configuration file, None when it does not parse
    bridge,     \* the copy a bridge holds
    iterator,   \* configuration, next index, batch size and scenes remaining
    asked,      \* what the iterator was asked for
    delivered,  \* the scenes of the batches it returned
    calls

pyVars == <<held, origin, configFile, bridge, iterator, asked, delivered, calls>>
othersThanHeld == <<configFile, bridge, iterator, asked, delivered>>

-------------------------------------------------------------------------------
(* The tokens each parser knows.                                           *)
Tokens == [easing_family |-> Easings,
           sound_channel_mapping |-> {"mono_mix", "stereo_alternating"},
           text_reference_frame |-> {"canonical", "relative", "mixed"},
           image_arrow_type |-> {"prev", "current", "next"},
           x_nonlinearity |-> {"sigmoid", "tanh"},
           y_nonlinearity |-> {"sigmoid", "tanh"}]

(* ... and the rates of the text, which are checked where they are read.   *)
TextProbabilities == {"text_synonym_rate", "text_typo_rate"}

Readable(arguments) ==
    \A f \in DOMAIN arguments :
        /\ f \in DOMAIN Tokens => arguments[f] \in Tokens[f]
        /\ f \in TextProbabilities => arguments[f] \in 0..1000

(* The fields of the first record, and those only the second has.          *)
Over(f, g) == [x \in DOMAIN f \cup DOMAIN g |-> IF x \in DOMAIN f THEN f[x] ELSE g[x]]

(* Fields not given are those of the baseline: the counts per shape are    *)
(* still drawn at random, whatever counts are given.                       *)
Settings == Over(Baseline(0), [x_nonlinearity |-> "sigmoid", y_nonlinearity |-> "tanh",
                               video_keyframe_border |-> FALSE, image_frame_scatter |-> FALSE,
                               image_arrow_type |-> "next"])
FromArguments(arguments) == Over(arguments, Settings)

Defaults == [text_reference_frame |-> "canonical", text_synonym_rate |-> 0, text_typo_rate |-> 0,
             video_keyframe_border |-> FALSE, image_frame_scatter |-> FALSE,
             image_arrow_type |-> "next"]

PolicyConfig(p, arguments) ==
    Over(FromPolicy(p, arguments.seed, arguments.events_per_shape, arguments.simultaneous,
                    arguments.validation_scene_count),
         Settings)

-------------------------------------------------------------------------------
PyInit ==
    /\ held = None /\ origin = "none" /\ configFile \in FileConfigs
    /\ bridge = None /\ iterator = None /\ asked = None /\ delivered = <<>> /\ calls = 0

Build(config, by) ==
    /\ calls < MaxCalls
    /\ calls' = calls + 1
    /\ IF Validate(config) THEN held' = config /\ origin' = by ELSE UNCHANGED <<held, origin>>
    /\ UNCHANGED othersThanHeld

NewConfig == \E a \in Arguments : Readable(a) /\ Build(FromArguments(a), "arguments")

NewWithDefaults ==
    \E a \in Arguments : Readable(a) /\ Build(FromArguments(Over(Defaults, a)), "arguments")

FromToml == configFile # None /\ Build(configFile, "file")

FromPolicyWithDefaults ==
    \E p \in Presets : Build(ApplyPolicy(Settings, p), "policy")

NewFromPolicy ==
    \E p \in Presets, a \in PolicyArguments : Build(PolicyConfig(p, a), "policy")

(* apply_policy returns a new object, which takes the place of the old.    *)
ApplyPolicyToHeld ==
    held # None /\ \E p \in Presets : Build(ApplyPolicy(held, p), "policy")

(* Every setter changes a copy, which replaces the configuration when it   *)
(* is valid.                                                               *)
(* Mutant: the change stays when it is refused.                            *)
ApplyFirst(config) ==
    /\ held # None /\ calls < MaxCalls
    /\ calls' = calls + 1 /\ held' = config
    /\ UNCHANGED <<origin, othersThanHeld>>

ApplyWithValidation(config) ==
    /\ held # None /\ calls < MaxCalls
    /\ calls' = calls + 1
    /\ held' = IF Validate(config) THEN config ELSE held
    /\ UNCHANGED <<origin, othersThanHeld>>

SetField(fields) ==
    \E f \in fields \cap DOMAIN Values : \E v \in Values[f] :
        Readable(f :> v) /\ ApplyWithValidation([held EXCEPT ![f] = v])

SetSceneNumbers ==
    SetField({"resolution", "trajectory_complexity", "event_duration_frames", "n_motion_slots",
              "n_motion_events_total", "allow_simultaneous"})

SetMediaFields ==
    SetField({"sound_sample_rate_hz", "sound_frames_per_second", "sound_modulation_depth_per_mille",
              "text_synonym_rate", "text_typo_rate", "video_keyframe_border", "image_frame_scatter"})

SetTokens == SetField(DOMAIN Tokens)

SetLandscapeAndSite ==
    SetField({"x_steepness", "y_steepness", "site_k", "lambda2_min", "validation_scene_count",
              "lambda2_iterations", "num_threads"})

(* A longer list of counts repeats its last one.                           *)
Resized(counts, n) ==
    LET last == IF counts = <<>> THEN 1 ELSE counts[Len(counts)]
    IN  [i \in 1..n |-> IF i <= Len(counts) THEN counts[i] ELSE last]

SetNShapes ==
    \E n \in Values["n_shapes"] :
        ApplyWithValidation([held EXCEPT !.n_shapes = n,
                                         !.motion_events_per_shape = Resized(@, n)])

SetMotionEventsPerShape ==
    \E counts \in Values["motion_events_per_shape"] :
        ApplyWithValidation([held EXCEPT !.motion_events_per_shape = counts,
                                         !.n_shapes = Len(counts)])

-------------------------------------------------------------------------------
(* The file, written by the object or by somebody else.                    *)
WriteToml ==
    /\ held # None /\ configFile' = held
    /\ UNCHANGED <<held, origin, bridge, iterator, asked, delivered, calls>>

EditFile ==
    /\ configFile' \in FileConfigs
    /\ UNCHANGED <<held, origin, bridge, iterator, asked, delivered, calls>>

BridgeFromConfig ==
    /\ held # None /\ bridge = None /\ bridge' = held
    /\ UNCHANGED <<held, origin, configFile, iterator, asked, delivered, calls>>

BridgeFromPath ==
    /\ configFile # None /\ Validate(configFile) /\ bridge = None /\ bridge' = configFile
    /\ UNCHANGED <<held, origin, configFile, iterator, asked, delivered, calls>>

(* A total is needed unless the caller asks for a loop; a loop with a      *)
(* total ends all the same.                                                *)
NewIterator(config) ==
    /\ iterator = None
    /\ \E index \in IndexArguments, size \in BatchSizes, total \in SampleTotals, loop \in BOOLEAN :
        /\ size > 0 /\ (loop \/ total # None)
        /\ iterator' = [config |-> config, next_index |-> index, batch_size |-> size,
                        remaining |-> total]
        /\ asked' = [config |-> config, index |-> index, total |-> total]
    /\ delivered' = <<>>
    /\ UNCHANGED <<held, origin, configFile, bridge, calls>>

IterScenes == bridge # None /\ NewIterator(bridge)
IterScenesFromPath == configFile # None /\ Validate(configFile) /\ NewIterator(configFile)

SaturatingAdd(index, n) == IF index + n > MaxIndex THEN MaxIndex ELSE index + n

Batch(config, index, size) ==
    [k \in 1 .. size |-> [config |-> config, index |-> SaturatingAdd(index, k - 1)]]

(* Mutant: the iterator moves on before the batch is generated.            *)
NextBatchAdvancingFirst ==
    /\ iterator # None /\ iterator.remaining # 0 /\ Len(delivered) < MaxDelivered
    /\ LET size == IF iterator.remaining = None THEN iterator.batch_size
                   ELSE Min({iterator.batch_size, iterator.remaining})
       IN  /\ iterator' = [iterator EXCEPT
                !.next_index = SaturatingAdd(@, size),
                !.remaining = IF @ = None THEN None ELSE @ - size]
           /\ delivered' \in {delivered, delivered \o Batch(iterator.config, iterator.next_index, size)}
    /\ UNCHANGED <<held, origin, configFile, bridge, asked, calls>>

(* A batch is generated as a whole or the call fails and nothing changes;  *)
(* one with a scene that cannot be generated fails every time.             *)
NextBatch ==
    /\ iterator # None /\ iterator.remaining # 0 /\ Len(delivered) < MaxDelivered
    /\ LET size == IF iterator.remaining = None THEN iterator.batch_size
                   ELSE Min({iterator.batch_size, iterator.remaining})
           batch == Batch(iterator.config, iterator.next_index, size)
       IN  /\ \A k \in 1 .. size : batch[k].index \notin Broken
           /\ delivered' = delivered \o batch
           /\ iterator' = [iterator EXCEPT
                !.next_index = SaturatingAdd(@, size),
                !.remaining = IF @ = None THEN None ELSE @ - size]
    /\ UNCHANGED <<held, origin, configFile, bridge, asked, calls>>

PyNext ==
    \/ NewConfig \/ NewWithDefaults \/ FromToml \/ FromPolicyWithDefaults \/ NewFromPolicy
    \/ ApplyPolicyToHeld
    \/ SetSceneNumbers \/ SetMediaFields \/ SetTokens \/ SetLandscapeAndSite
    \/ SetNShapes \/ SetMotionEventsPerShape
    \/ WriteToml \/ EditFile \/ BridgeFromConfig \/ BridgeFromPath
    \/ IterScenes \/ IterScenesFromPath \/ NextBatch

PySpec == PyInit /\ [][PyNext]_pyVars

-------------------------------------------------------------------------------
(* Whatever is called in whatever order, the object, the bridges and the   *)
(* iterators made from it and from the file hold configurations that       *)
(* validate accepts; and one built from arguments draws the counts per     *)
(* shape at random, though it was given some, while one from a policy      *)
(* keeps to them (apply_with_validation, lib.rs:1033).                     *)
HeldConfigValid ==
    /\ held # None =>
        /\ Validate(held)
        /\ origin = "arguments" => held.randomize_motion_events_per_shape
        /\ origin = "policy" => ~ held.randomize_motion_events_per_shape
    /\ bridge # None => Validate(bridge)
    /\ iterator # None => Validate(iterator.config)

(* The scenes an iterator has returned are those of its configuration from *)
(* the index asked for on, none missing and none twice up to the largest   *)
(* index, where it stays; calls that failed, changes of the object and of  *)
(* the file in between change nothing, and no more are returned than asked *)
(* for (SceneBatchIterator::__next__, lib.rs:1326).                        *)
BatchesAreContiguous ==
    iterator # None =>
        /\ \A k \in DOMAIN delivered :
              delivered[k] = [config |-> asked.config, index |-> SaturatingAdd(asked.index, k - 1)]
        /\ asked.total # None => Len(delivered) + iterator.remaining = asked.total
===============================================================================
