----------------------- MODULE EvalSessionProperties -----------------------
(***************************************************************************)
(* What must hold of EvalSession.                                          *)
(***************************************************************************)
EXTENDS EvalSession

(* Every question the cursor has passed was answered or is listed in         *)
(* skipped_questions, and no answer was recorded for a question it has not   *)
(* passed.  record_answer and advance_session_cursor move the cursor only    *)
(* from the index they were decided on, so neither a lost reply, a retry nor *)
(* two servers can jump a question or record one twice.                      *)
ProgressAccounted ==
    /\ \A item \in Items : item < row.next => item \in answered \union row.skipped
    /\ \A item \in answered : item < row.next

(* The counters of a modality are the number of its scored questions that    *)
(* were answered: no answer counts twice, for another modality (a stale      *)
(* cached task) or for a practice question.                                  *)
ScoresMatchAnswers ==
    \A m \in Modalities :
        row.score[m].correct + row.score[m].wrong = Cardinality(ScoredItems(m) \intersect answered)

(* Memory may lag behind the row but never leads it: no instance shows a     *)
(* question, a finished state or a pending confirmation the row does not     *)
(* have.  store_ratings relies on it: its UPDATE does not look at the cursor.*)
RuntimeBehind(i) ==
    runtime[i].loaded =>
        /\ runtime[i].index <= row.next
        /\ runtime[i].completed => row.completed
        /\ runtime[i].awaiting => runtime[i].index - 1 \in answered

RuntimeNeverLeads == \A i \in Instances : RuntimeBehind(i)

(* A handler that checked the cursor before an await still finds it there    *)
(* after: the mutex kept everybody else of the instance out, resumed pages   *)
(* included.                                                                 *)
CursorProtected(w) ==
    LET r == handler[w] IN
    r.attached /\ r.pc \in LockedSteps =>
        /\ lock[r.at] = w
        /\ Active(r.at)
        /\ r.pc \in {"submit_read", "submit_write", "skip_read", "skip_mark", "skip_write"} =>
             runtime[r.at].index = r.item
        /\ r.pc = "submit_mark" => runtime[r.at].index = r.item + 1

LockProtectsCursor == \A w \in Workers : CursorProtected(w)

(* Ratings close a session only when every question is past.                 *)
CompletedAtEnd == row.completed => row.next = TotalItems

(* A use of tools is noted only for a question whose answer was recorded,    *)
(* and a download only for a question the session has reached.               *)
MarkersReached ==
    /\ row.tools \subseteq answered
    /\ row.dataRoute \union row.dataMcp \subseteq 0 .. row.next

(* A skipped question was not answered.  Holds for one server with nothing   *)
(* but web requests and no failures; a skip that is interrupted between its  *)
(* two statements, or overtaken by an MCP answer, breaks it.                 *)
SkippedNotAnswered == row.skipped \intersect answered = {}

-----------------------------------------------------------------------------
(* The inductive invariant.  Besides the properties above it says what a     *)
(* handler has learnt before its statement and may still rely on.            *)

HandlerKnows(w) ==
    LET r == handler[w] IN
    /\ r.pc # "idle" => r.at \in Instances
    /\ ~r.attached => r.pc \in WriteSteps
    /\ r.pc \in RouteReads => r.item \in Items
    /\ r.pc \in AnswerSteps \union MarkSteps \union
                {"submit_read", "skip_read", "skip_write"} =>
         r.item \in Items /\ r.item <= row.next
    /\ r.pc \in AnswerSteps \union {"submit_read"} => r.plan = r.item
    /\ r.pc \in {"submit_mark", "mcp_mark"} => r.item \in answered
    /\ r.pc = "skip_write" => SkippedIndices(r.item) \subseteq row.skipped
    /\ r.pc = "resume_insert" => r.item \in Cursors /\ r.item <= row.next
    /\ r.pc \in RatingSteps => row.next = TotalItems

(* Everything a step relies on: checked here on small instances, proved      *)
(* inductive in EvalSessionProofs.                                           *)
InductiveInvariant ==
    /\ TypeOK
    /\ ProgressAccounted
    /\ CompletedAtEnd
    /\ MarkersReached
    /\ RuntimeNeverLeads
    /\ LockProtectsCursor
    /\ \A w \in Workers : HandlerKnows(w)

-----------------------------------------------------------------------------
(* The session as EvalProgress sees it.                                      *)

Outcome(item) ==
    IF item >= row.next THEN "open"
    ELSE IF item \in answered THEN "answered" ELSE "skipped"

Progress == INSTANCE EvalProgress WITH
    cursor <- row.next,
    outcome <- [item \in Items |-> Outcome(item)],
    score <- row.score,
    finished <- row.completed

(* The servers, tabs and agents together implement EvalProgress.             *)
ImplementsProgress == Progress!Spec

-----------------------------------------------------------------------------
(* Liveness.                                                                 *)

(* The runtime polls every ready task, and the mutex queues its waiters in   *)
(* order, so a handler that waits for it gets it.                            *)
HandlerFairness ==
    \A w \in Workers : WF_vars(HandlerStep(w)) /\ SF_vars(ResumeInsert(w))

(* A participant who goes on: reloads the page, answers the question it      *)
(* shows, proceeds, and rates at the end.                                    *)
ParticipantFairness ==
    \A i \in Instances :
        /\ WF_vars(ResumeFromMemory(i))
        /\ WF_vars(Proceed(i))
        /\ SF_vars(\E w \in Workers : Resume(w, i))
        /\ SF_vars(\E w \in Workers, q \in Items, right \in BOOLEAN :
                       Submit(w, i, q, right, FALSE))
        /\ SF_vars(\E w \in Workers : Ratings(w, i))

FairSpec == Spec /\ HandlerFairness /\ ParticipantFairness

(* Every request is answered.                                                *)
RequestsEnd == \A w \in Workers : handler[w].pc # "idle" ~> handler[w].pc = "idle"

(* A participant who goes on reaches the end of a human session.             *)
HumanSessionCompletes == row.isHuman ~> row.completed

(* A page that lags behind the row catches up if its participant goes on.    *)
LaggingPageCatchesUp ==
    \A i \in Instances :
        Active(i) /\ runtime[i].index < row.next ~> ~Active(i) \/ runtime[i].index = row.next
=============================================================================
