------------------------------ MODULE EvalFlow ------------------------------
(***************************************************************************)
(* The question plan of one human-eval session, as index arithmetic        *)
(* (crates/shapeflow-human-eval/src/flow.rs).  A session asks TotalItems   *)
(* questions, numbered from 0.  They come in NModalities consecutive       *)
(* blocks; a block opens with Practice unscored questions followed by Real *)
(* scored ones.  The code uses 5, 2 and 5.                                 *)
(*                                                                         *)
(* A modality is identified here by its slot, the position of its block in *)
(* the session.  The permutation that says which of the five modalities a  *)
(* slot holds is drawn when the session is created and never changes, so   *)
(* it only renames the counters kept per modality.                         *)
(***************************************************************************)
EXTENDS Integers

CONSTANTS NModalities,  \* MODALITY_COUNT
          Practice,     \* PRACTICE_SCENES_PER_MODALITY
          Real          \* REAL_SCENES_PER_MODALITY

ASSUME FlowAssumption ==
    /\ NModalities \in Nat \ {0}
    /\ Practice \in Nat
    /\ Real \in Nat \ {0}

PerModality == Practice + Real

TotalItems == NModalities * PerModality

Items == 0 .. TotalItems - 1

(* The values a session cursor takes; TotalItems means "every question is past".   *)
Cursors == 0 .. TotalItems

Modalities == 0 .. NModalities - 1

ModalityOf(item) == item \div PerModality

IsScored(item) == item % PerModality >= Practice

(* First index after the block that holds item. *)
NextModalityStart(item) ==
    LET blockEnd == ModalityOf(item) * PerModality + PerModality
    IN  IF blockEnd < TotalItems THEN blockEnd ELSE TotalItems

(* Slips: one index too many; the whole block. *)
SkippedIndicesInclusive(item) == item .. NextModalityStart(item)
SkippedIndicesWholeBlock(item) == ModalityOf(item) * PerModality .. NextModalityStart(item) - 1

(* What "skip modality" passes over: the rest of the block, item included. *)
SkippedIndices(item) == item .. NextModalityStart(item) - 1

(* A modality's counters after one answer to item; practice answers count nowhere. *)
Credit(tally, item, right) ==
    [correct |-> tally.correct + (IF IsScored(item) /\ right THEN 1 ELSE 0),
     wrong   |-> tally.wrong + (IF IsScored(item) /\ ~right THEN 1 ELSE 0)]

(* The scored questions of one modality. *)
ScoredItems(m) == {item \in Items : ModalityOf(item) = m /\ IsScored(item)}
=============================================================================
