---------------------------- MODULE EvalProgress ----------------------------
(***************************************************************************)
(* What a human-eval session promises, whatever servers, tabs and agents   *)
(* act on it: the cursor passes every question once, in order; a question  *)
(* is passed by exactly one scored answer or by skipping the rest of its   *)
(* block; the score of a modality counts exactly the answers given to its  *)
(* scored questions; the session is finished only at the end and then      *)
(* nothing moves.  EvalSession implements this specification.              *)
(***************************************************************************)
EXTENDS EvalFlow

VARIABLES cursor,   \* index of the question the session waits for
          outcome,  \* how each question was passed
          score,    \* per modality, the numbers of right and wrong answers
          finished  \* the closing ratings were stored

vars == <<cursor, outcome, score, finished>>

Outcomes == {"open", "answered", "skipped"}

Tally == [correct : Nat, wrong : Nat]

TypeOK ==
    /\ cursor \in Cursors
    /\ outcome \in [Items -> Outcomes]
    /\ score \in [Modalities -> Tally]
    /\ finished \in BOOLEAN

Init ==
    /\ cursor = 0
    /\ outcome = [item \in Items |-> "open"]
    /\ score = [m \in Modalities |-> [correct |-> 0, wrong |-> 0]]
    /\ finished = FALSE

Answer(right) ==
    /\ ~finished
    /\ cursor < TotalItems
    /\ cursor' = cursor + 1
    /\ outcome' = [outcome EXCEPT ![cursor] = "answered"]
    /\ score' = [score EXCEPT ![ModalityOf(cursor)] = Credit(@, cursor, right)]
    /\ UNCHANGED finished

SkipModality ==
    /\ ~finished
    /\ cursor < TotalItems
    /\ cursor' = NextModalityStart(cursor)
    /\ outcome' = [item \in Items |-> IF item \in SkippedIndices(cursor)
                                      THEN "skipped" ELSE outcome[item]]
    /\ UNCHANGED <<score, finished>>

Finish ==
    /\ ~finished
    /\ cursor = TotalItems
    /\ finished' = TRUE
    /\ UNCHANGED <<cursor, outcome, score>>

Next == SkipModality \/ Finish \/ \E right \in BOOLEAN : Answer(right)

Spec == Init /\ [][Next]_vars
=============================================================================
