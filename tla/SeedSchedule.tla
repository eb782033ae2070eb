------------------------------ MODULE SeedSchedule ------------------------------
(***************************************************************************)
(* The seeds of a scene's four random streams (shapeflow-core              *)
(* seed_schedule.rs) and the way the evaluation server spreads a 64-bit    *)
(* session seed over the master seed and the scene index                   *)
(* (shapeflow-human-eval/flow.rs).                                         *)
(***************************************************************************)
EXTENDS Integers

CONSTANT SeedLimit      \* 2^64 in the source: a sum that reaches it panics

ASSUME SeedLimitAssumption == SeedLimit \in Nat

TrajectoryOffset   == 1000000
TextGrammarOffset  == 2000000
LexicalNoiseOffset == 3000000

MasterSeeds == 65536    \* MAX_MASTER_SEED_EXCLUSIVE

SceneLayout(master, index) == master + index

Streams == {"scene_layout", "trajectory", "text_grammar", "lexical_noise"}

StreamSeed(stream, master, index) ==
    CASE stream = "scene_layout"  -> SceneLayout(master, index)
      [] stream = "trajectory"    -> SceneLayout(master, index) + TrajectoryOffset
      [] stream = "text_grammar"  -> SceneLayout(master, index) + TextGrammarOffset
      [] stream = "lexical_noise" -> SceneLayout(master, index) + LexicalNoiseOffset

Derivable(master, index) == StreamSeed("lexical_noise", master, index) < SeedLimit

(* The server's configuration keeps the seed modulo MasterSeeds; what the  *)
(* division dropped comes back in the scene index.                         *)
SessionMasterSeed(seed) == seed % MasterSeeds
EffectiveSceneIndex(seed, sceneIndex) == (seed \div MasterSeeds) * MasterSeeds + sceneIndex
===============================================================================
