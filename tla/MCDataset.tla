------------------------------- MODULE MCDataset -------------------------------
(***************************************************************************)
(* A dataset directory and an export target under a bounded series of      *)
(* generate commands, runs of the Python function and exports, any of them *)
(* interrupted: two good configurations with different shapes and frames,  *)
(* the second of which fails to build its second scene, and one whose site *)
(* graph is rejected.                                                      *)
(***************************************************************************)
EXTENDS Dataset

CONSTANTS c1, c2, c3

mcConfigs      == {c1, c2, c3}
mcShapeCount   == [c \in mcConfigs |-> IF c = c2 THEN 2 ELSE 1]
mcFrameCount   == [c \in mcConfigs |-> IF c = c2 THEN 2 ELSE 1]
mcArtifactDirs == <<"latent", "sound">>
mcUnbuildable  == {<<c2, 1>>}
mcAsk(config, scenes) == [config |-> config, scenes |-> scenes, samples |-> 24]
mcJobs == ({"command"} \X {mcAsk(c1, 2), mcAsk(c2, 1), mcAsk(c2, 2), mcAsk(c3, 1)})
          \cup ({"python"} \X {mcAsk(c1, 1), mcAsk(c2, 2)})
===============================================================================
