---------------------------- MODULE MCEvalSession ----------------------------
(* Instances of EvalSession for TLC.                                         *)
EXTENDS EvalSessionProperties, TLC

(* Safety runs only: workers are interchangeable, and so are instances. *)
Interchangeable == Permutations(Workers) \union Permutations(Instances)
=============================================================================
