---------------------------- MODULE EvalSession ----------------------------
(***************************************************************************)
(* One human-eval session as the server runs it.  The session has one row  *)
(* in the shared database and, on every server instance that has seen its  *)
(* page, a RuntimeSession kept in memory under the instance's mutex        *)
(* (crates/shapeflow-human-eval/src/server.rs, db.rs).  The web handlers   *)
(* work on the runtime session and write through to the row; the MCP tools *)
(* (mcp.rs) and the data routes know only the row.                         *)
(*                                                                         *)
(* A request in progress is a worker.  Everything a handler does between   *)
(* two awaits is one step, every database statement is one step, and the   *)
(* submit, skip and ratings handlers hold the mutex from their first step  *)
(* to their last.  A request that is refused without touching any state is *)
(* a stuttering step, so refusals are the guards below.                    *)
(***************************************************************************)
EXTENDS EvalFlow, FiniteSets

CONSTANTS Instances,  \* server processes that share the database
          Workers,    \* requests that can be in progress at once
          Nobody,     \* "no worker" and "no instance"
          SoundBlock, \* the block whose modality is sound
          Requests,   \* optional request kinds that clients send
          Faults      \* what may go wrong: "db" and "crash"

RequestKinds == {"skip", "tools", "data", "sound", "mcp"}

ASSUME SessionAssumption ==
    /\ Nobody \notin Instances \union Workers
    /\ SoundBlock \in Modalities
    /\ Requests \subseteq RequestKinds
    /\ Faults \subseteq {"db", "crash"}

VARIABLES row,       \* the human_eval_sessions row
          runtime,   \* per instance, the entry of AppState.sessions
          lock,      \* per instance, the holder of the AppState.sessions mutex
          handler,   \* per worker, the request it serves
          answered   \* history: questions whose answer was recorded

vars == <<row, runtime, lock, handler, answered>>

-----------------------------------------------------------------------------
(* State.                                                                    *)

NoItem == -1

Row == [next : Cursors, completed : BOOLEAN, isHuman : BOOLEAN,
        score : [Modalities -> [correct : Nat, wrong : Nat]],
        tools : SUBSET Items, skipped : SUBSET Items,
        dataRoute : SUBSET Items, dataMcp : SUBSET Items]

RuntimeSession == [loaded : BOOLEAN, index : Cursors, awaiting : BOOLEAN,
                   completed : BOOLEAN, cached : Items \union {NoItem}]

Unloaded == [loaded |-> FALSE, index |-> 0, awaiting |-> FALSE,
             completed |-> FALSE, cached |-> NoItem]

(* A handler is named for the database statement it waits for.               *)
MarkSteps == {"submit_mark", "mcp_mark", "skip_mark", "data_mark", "mcp_data_mark"}
AnswerSteps == {"submit_write", "mcp_answer_write"}
RatingSteps == {"ratings_write", "mcp_feedback_write"}
WriteSteps == MarkSteps \union AnswerSteps \union RatingSteps \union {"skip_write"}
RouteReads == {"data_read", "sound_read"}
ReadSteps == RouteReads \union
             {"submit_read", "skip_read", "resume_read", "mcp_answer_read",
              "mcp_feedback_read", "mcp_data_read"}
Steps == {"idle", "resume_insert"} \union ReadSteps \union WriteSteps
LockedSteps == {"submit_read", "submit_write", "submit_mark",
                "skip_read", "skip_mark", "skip_write", "ratings_write"}

Handler == [pc : Steps, at : Instances \union {Nobody},
            item : Cursors \union {NoItem}, plan : Items \union {NoItem},
            right : BOOLEAN, tools : BOOLEAN, attached : BOOLEAN]

Idle == [pc |-> "idle", at |-> Nobody, item |-> NoItem, plan |-> NoItem,
         right |-> FALSE, tools |-> FALSE, attached |-> TRUE]

(* The type of every variable. *)
TypeOK ==
    /\ row \in Row
    /\ runtime \in [Instances -> RuntimeSession]
    /\ lock \in [Instances -> Workers \union {Nobody}]
    /\ handler \in [Workers -> Handler]
    /\ answered \in SUBSET Items

NewRow(isHuman) ==
    [next |-> 0, completed |-> FALSE, isHuman |-> isHuman,
     score |-> [m \in Modalities |-> [correct |-> 0, wrong |-> 0]],
     tools |-> {}, skipped |-> {}, dataRoute |-> {}, dataMcp |-> {}]

NewRuntime(index, cached) ==
    [loaded |-> TRUE, index |-> index, awaiting |-> FALSE,
     completed |-> FALSE, cached |-> cached]

(* The session was just created: by the setup form, which leaves a runtime   *)
(* session on the instance that served it, or by the MCP tool start_session, *)
(* which makes the row of an AI session and nothing else.  Nobody knows its  *)
(* uuid before, so nothing interleaves with its creation.                    *)
Init ==
    /\ \E isHuman \in BOOLEAN :
         /\ row = NewRow(isHuman)
         /\ \/ \E i \in Instances :
                 runtime = [j \in Instances |-> IF j = i THEN NewRuntime(0, NoItem)
                                                ELSE Unloaded]
            \/ ~isHuman /\ runtime = [j \in Instances |-> Unloaded]
    /\ lock = [i \in Instances |-> Nobody]
    /\ handler = [w \in Workers |-> Idle]
    /\ answered = {}

-----------------------------------------------------------------------------
(* Database statements.  Each is atomic: one UPDATE, or a transaction that   *)
(* locks the row before it reads it.                                         *)

(* Slip: the UPDATE does not compare the cursor. *)
HitsAnyCursor(r) ==
    r.pc \in AnswerSteps \union RatingSteps \union {"skip_write"} => ~row.completed

(* The WHERE clause of the statement that handler r waits for. *)
Hits(r) ==
    /\ r.pc \in AnswerSteps \union {"skip_write"} =>
         ~row.completed /\ row.next = r.item
    /\ r.pc \in RatingSteps => ~row.completed

RecordAnswer(r) ==
    [row EXCEPT !.next = r.item + 1,
                !.score[ModalityOf(r.plan)] = Credit(@, r.plan, r.right)]

(* Slip: a skip passes one question. *)
AdvanceCursorByOne(r) == [row EXCEPT !.next = r.item + 1]

AdvanceCursor(r) == [row EXCEPT !.next = NextModalityStart(r.item)]

StoreRatings == [row EXCEPT !.completed = TRUE]

AppendMarkers(r) ==
    CASE r.pc \in {"submit_mark", "mcp_mark"} -> [row EXCEPT !.tools = @ \union {r.item}]
      [] r.pc = "skip_mark" -> [row EXCEPT !.skipped = @ \union SkippedIndices(r.item)]
      [] r.pc = "data_mark" -> [row EXCEPT !.dataRoute = @ \union {r.item}]
      [] r.pc = "mcp_data_mark" -> [row EXCEPT !.dataMcp = @ \union {r.item}]

(* The statement of handler r takes effect. *)
Execute(r) ==
    /\ Hits(r)
    /\ row' = CASE r.pc \in AnswerSteps -> RecordAnswer(r)
                [] r.pc = "skip_write" -> AdvanceCursor(r)
                [] r.pc \in RatingSteps -> StoreRatings
                [] r.pc \in MarkSteps -> AppendMarkers(r)
    /\ answered' = IF r.pc \in AnswerSteps THEN answered \union {r.item} ELSE answered

-----------------------------------------------------------------------------
(* Handlers: common steps.                                                   *)

Waits(w, step) == handler[w].pc = step /\ handler[w].attached

MutexFree(i) == lock[i] = Nobody

Request(w, i, step) ==
    /\ handler[w].pc = "idle"
    /\ handler' = [handler EXCEPT ![w] = [Idle EXCEPT !.pc = step, !.at = i]]

Continue(w, step) ==
    /\ handler' = [handler EXCEPT ![w].pc = step]
    /\ UNCHANGED lock

(* Slip: the guard outlives its handler. *)
NeverUnlocked(w) == lock

(* The handler returns; a mutex guard it holds is dropped. *)
Unlocked(w) == [i \in Instances |-> IF lock[i] = w THEN Nobody ELSE lock[i]]

Return(w) ==
    /\ handler' = [handler EXCEPT ![w] = Idle]
    /\ lock' = Unlocked(w)

(* The handler returns an error or a rejection and leaves the rest alone. *)
Refuse(w) == Return(w) /\ UNCHANGED <<row, runtime, answered>>

(* Slip: whatever is cached is used. *)
PlanFromCache(session, item) == IF session.cached # NoItem THEN session.cached ELSE item

(* cache_or_rebuild_task_artifacts: the question the handler works on. *)
PlanFor(session, item) == IF session.cached = item THEN session.cached ELSE item

Cached(session) ==
    IF session.index < TotalItems
    THEN [session EXCEPT !.cached = PlanFor(session, session.index)]
    ELSE session

Active(i) == runtime[i].loaded /\ ~runtime[i].completed

-----------------------------------------------------------------------------
(* GET /start/:uuid.  The page of a session the instance knows is served     *)
(* from memory.  Otherwise the row is read with the mutex released, and the  *)
(* runtime session built from it is inserted whatever is there by then.      *)

ResumeFromMemory(i) ==
    /\ MutexFree(i)
    /\ Active(i)
    /\ runtime' = [runtime EXCEPT ![i] = Cached(@)]
    /\ UNCHANGED <<row, lock, handler, answered>>

Resume(w, i) ==
    /\ MutexFree(i)
    /\ ~runtime[i].loaded
    /\ Request(w, i, "resume_read")
    /\ UNCHANGED <<row, runtime, lock, answered>>

ResumeRead(w) ==
    /\ Waits(w, "resume_read")
    /\ \/ row.completed /\ Refuse(w)
       \/ /\ ~row.completed
          /\ handler' = [handler EXCEPT ![w].pc = "resume_insert", ![w].item = row.next]
          /\ UNCHANGED <<row, runtime, lock, answered>>

(* Slip: the runtime session is inserted without the mutex. *)
ResumeInsertUnlocked(w) ==
    /\ Waits(w, "resume_insert")
    /\ runtime' = [runtime EXCEPT ![handler[w].at] = Cached(NewRuntime(handler[w].item, NoItem))]
    /\ Return(w)
    /\ UNCHANGED <<row, answered>>

ResumeInsert(w) ==
    LET i == handler[w].at IN
    /\ Waits(w, "resume_insert")
    /\ MutexFree(i)
    /\ runtime' = [runtime EXCEPT ![i] = Cached(NewRuntime(handler[w].item, NoItem))]
    /\ Return(w)
    /\ UNCHANGED <<row, answered>>

-----------------------------------------------------------------------------
(* POST /events: an answer to question q, with the mutex held throughout.    *)

Submit(w, i, q, right, tools) ==
    /\ MutexFree(i)
    /\ Active(i)
    /\ ~runtime[i].awaiting
    /\ runtime[i].index < TotalItems
    /\ q = runtime[i].index
    /\ handler[w].pc = "idle"
    /\ lock' = [lock EXCEPT ![i] = w]
    /\ runtime' = [runtime EXCEPT ![i].cached = PlanFor(runtime[i], q)]
    /\ handler' = [handler EXCEPT ![w] =
                     [Idle EXCEPT !.pc = "submit_read", !.at = i, !.item = q,
                                  !.plan = PlanFor(runtime[i], q),
                                  !.right = right, !.tools = tools]]
    /\ UNCHANGED <<row, answered>>

(* The row is read back: somebody else may have finished or moved the session. *)
SubmitRead(w) ==
    /\ Waits(w, "submit_read")
    /\ \/ /\ row.completed
          /\ runtime' = [runtime EXCEPT ![handler[w].at].completed = TRUE]
          /\ Return(w)
          /\ UNCHANGED <<row, answered>>
       \/ ~row.completed /\ row.next # handler[w].item /\ Refuse(w)
       \/ /\ ~row.completed /\ row.next = handler[w].item
          /\ Continue(w, "submit_write")
          /\ UNCHANGED <<row, runtime, answered>>

SubmitWrite(w) ==
    LET r == handler[w] IN
    /\ Waits(w, "submit_write")
    /\ \/ /\ Execute(r)
          /\ \/ /\ r.tools
                /\ runtime' = [runtime EXCEPT ![r.at].index = r.item + 1]
                /\ Continue(w, "submit_mark")
             \/ /\ ~r.tools
                /\ runtime' = [runtime EXCEPT ![r.at].index = r.item + 1,
                                              ![r.at].awaiting = TRUE]
                /\ Return(w)
       \/ ~Hits(r) /\ Refuse(w)

SubmitMark(w) ==
    /\ Waits(w, "submit_mark")
    /\ Execute(handler[w])
    /\ runtime' = [runtime EXCEPT ![handler[w].at].awaiting = TRUE]
    /\ Return(w)

(* Slip: the confirmation stays pending. *)
ProceedStillAwaiting(i) ==
    /\ MutexFree(i)
    /\ Active(i)
    /\ runtime[i].awaiting
    /\ runtime' = [runtime EXCEPT ![i] = Cached(@)]
    /\ UNCHANGED <<row, lock, handler, answered>>

(* POST /proceed: no await, so a single step. *)
Proceed(i) ==
    /\ MutexFree(i)
    /\ Active(i)
    /\ runtime[i].awaiting
    /\ runtime' = [runtime EXCEPT ![i] = Cached([@ EXCEPT !.awaiting = FALSE])]
    /\ UNCHANGED <<row, lock, handler, answered>>

-----------------------------------------------------------------------------
(* POST /skip-modality: mark the rest of the block as skipped, then move the *)
(* cursor; two statements.                                                   *)

Skip(w, i) ==
    /\ MutexFree(i)
    /\ Active(i)
    /\ row.isHuman
    /\ runtime[i].index < TotalItems
    /\ handler[w].pc = "idle"
    /\ lock' = [lock EXCEPT ![i] = w]
    /\ handler' = [handler EXCEPT ![w] = [Idle EXCEPT !.pc = "skip_read", !.at = i,
                                                      !.item = runtime[i].index]]
    /\ UNCHANGED <<row, runtime, answered>>

SkipRead(w) ==
    LET r == handler[w] IN
    /\ Waits(w, "skip_read")
    /\ \/ /\ row.completed
          /\ runtime' = [runtime EXCEPT ![r.at].completed = TRUE]
          /\ Return(w)
          /\ UNCHANGED <<row, answered>>
       \/ /\ ~row.completed /\ row.next >= TotalItems
          /\ runtime' = [runtime EXCEPT ![r.at].index = row.next,
                                        ![r.at].awaiting = FALSE,
                                        ![r.at].cached = NoItem]
          /\ Return(w)
          /\ UNCHANGED <<row, answered>>
       \/ ~row.completed /\ row.next < TotalItems /\ row.next # r.item /\ Refuse(w)
       \/ /\ ~row.completed /\ row.next < TotalItems /\ row.next = r.item
          /\ Continue(w, "skip_mark")
          /\ UNCHANGED <<row, runtime, answered>>

SkipMark(w) ==
    /\ Waits(w, "skip_mark")
    /\ Execute(handler[w])
    /\ Continue(w, "skip_write")
    /\ UNCHANGED runtime

(* Slip: the runtime cursor moves although the row did not. *)
SkipWriteUnchecked(w) ==
    LET r == handler[w] IN
    /\ Waits(w, "skip_write")
    /\ Execute(r) \/ (~Hits(r) /\ UNCHANGED <<row, answered>>)
    /\ runtime' = [runtime EXCEPT ![r.at] =
                     Cached([@ EXCEPT !.index = NextModalityStart(r.item),
                                      !.awaiting = FALSE, !.cached = NoItem])]
    /\ Return(w)

SkipWrite(w) ==
    LET r == handler[w] IN
    /\ Waits(w, "skip_write")
    /\ \/ /\ Execute(r)
          /\ runtime' = [runtime EXCEPT ![r.at] =
                           Cached([@ EXCEPT !.index = NextModalityStart(r.item),
                                            !.awaiting = FALSE, !.cached = NoItem])]
          /\ Return(w)
       \/ ~Hits(r) /\ Refuse(w)

-----------------------------------------------------------------------------
(* POST /ratings closes the session once the runtime cursor is at the end.   *)

(* Slip: ratings are taken at any time. *)
RatingsAnyTime(w, i) ==
    /\ MutexFree(i)
    /\ Active(i)
    /\ Request(w, i, "ratings_write")
    /\ lock' = [lock EXCEPT ![i] = w]
    /\ UNCHANGED <<row, runtime, answered>>

Ratings(w, i) ==
    /\ MutexFree(i)
    /\ Active(i)
    /\ runtime[i].index >= TotalItems
    /\ Request(w, i, "ratings_write")
    /\ lock' = [lock EXCEPT ![i] = w]
    /\ UNCHANGED <<row, runtime, answered>>

RatingsWrite(w) ==
    LET r == handler[w] IN
    /\ Waits(w, "ratings_write")
    /\ \/ /\ Execute(r)
          /\ runtime' = [runtime EXCEPT ![r.at].completed = TRUE]
          /\ Return(w)
       \/ ~Hits(r) /\ Refuse(w)

-----------------------------------------------------------------------------
(* GET /data/... and GET /sound-reference/... for question q, without the     *)
(* mutex.  Both mark the question in the same column; a sound reference of a *)
(* shape the question does not show is refused after the mark.               *)

RouteRequest(w, i, q, step) ==
    /\ handler[w].pc = "idle"
    /\ handler' = [handler EXCEPT ![w] = [Idle EXCEPT !.pc = step, !.at = i, !.item = q]]
    /\ UNCHANGED <<row, runtime, lock, answered>>

(* Slip: the requested question is not compared with the current one. *)
RouteReadAnyQuestion(w, step, offered) ==
    LET served == ~row.completed /\ row.next < TotalItems /\ offered IN
    /\ Waits(w, step)
    /\ \/ ~served /\ Refuse(w)
       \/ served /\ Continue(w, "data_mark") /\ UNCHANGED <<row, runtime, answered>>

RouteRead(w, step, offered) ==
    LET served == /\ ~row.completed /\ row.next < TotalItems
                  /\ row.next = handler[w].item /\ offered IN
    /\ Waits(w, step)
    /\ \/ ~served /\ Refuse(w)
       \/ served /\ Continue(w, "data_mark") /\ UNCHANGED <<row, runtime, answered>>

DataRequest(w, i, q) == RouteRequest(w, i, q, "data_read")

DataRead(w) == RouteRead(w, "data_read", TRUE)

SoundReferenceRequest(w, i, q) == RouteRequest(w, i, q, "sound_read")

SoundReferenceRead(w) ==
    RouteRead(w, "sound_read", ModalityOf(row.next) = SoundBlock)

DataMark(w) ==
    /\ Waits(w, "data_mark")
    /\ Execute(handler[w])
    /\ Return(w)
    /\ UNCHANGED runtime

-----------------------------------------------------------------------------
(* MCP tools.  They take the current question from the row they have just    *)
(* read; the caller does not name it.                                        *)

McpCall(w, i, step, right, tools) ==
    /\ handler[w].pc = "idle"
    /\ handler' = [handler EXCEPT ![w] = [Idle EXCEPT !.pc = step, !.at = i,
                                                      !.right = right, !.tools = tools]]
    /\ UNCHANGED <<row, runtime, lock, answered>>

(* load_current_question_state, and the refusals of its callers. *)
McpRead(w, readStep, ready, writeStep) ==
    /\ Waits(w, readStep)
    /\ \/ (row.completed \/ ~ready) /\ Refuse(w)
       \/ /\ ~row.completed /\ ready
          /\ handler' = [handler EXCEPT ![w].pc = writeStep, ![w].item = row.next,
                           ![w].plan = IF row.next < TotalItems THEN row.next ELSE NoItem]
          /\ UNCHANGED <<row, runtime, lock, answered>>

McpAnswerRead(w) ==
    McpRead(w, "mcp_answer_read", row.next < TotalItems, "mcp_answer_write")

McpAnswerWrite(w) ==
    LET r == handler[w] IN
    /\ Waits(w, "mcp_answer_write")
    /\ \/ /\ Execute(r)
          /\ IF r.tools THEN Continue(w, "mcp_mark") ELSE Return(w)
          /\ UNCHANGED runtime
       \/ ~Hits(r) /\ Refuse(w)

McpMark(w) ==
    /\ Waits(w, "mcp_mark")
    /\ Execute(handler[w])
    /\ Return(w)
    /\ UNCHANGED runtime

McpFeedbackRead(w) ==
    McpRead(w, "mcp_feedback_read", row.next >= TotalItems, "mcp_feedback_write")

McpFeedbackWrite(w) ==
    LET r == handler[w] IN
    /\ Waits(w, "mcp_feedback_write")
    /\ \/ Execute(r) /\ Return(w) /\ UNCHANGED runtime
       \/ ~Hits(r) /\ Refuse(w)

McpDataRead(w) ==
    McpRead(w, "mcp_data_read", row.next < TotalItems, "mcp_data_mark")

McpDataMark(w) ==
    /\ Waits(w, "mcp_data_mark")
    /\ Execute(handler[w])
    /\ Return(w)
    /\ UNCHANGED runtime

-----------------------------------------------------------------------------
(* Failures.                                                                 *)

(* A statement fails, or the client goes away and the handler is dropped at  *)
(* its await: the handler ends, with no effect on the row or the runtime.    *)
Abandon(w) ==
    /\ "db" \in Faults
    /\ handler[w].pc # "idle"
    /\ Refuse(w)

(* The same, while the statement is on its way: the handler is gone and its  *)
(* mutex free, the statement may still take effect.                          *)
Detach(w) ==
    /\ "db" \in Faults
    /\ handler[w].pc \in WriteSteps
    /\ handler[w].attached
    /\ handler' = [handler EXCEPT ![w].attached = FALSE]
    /\ lock' = Unlocked(w)
    /\ UNCHANGED <<row, runtime, answered>>

LateEffect(w) ==
    /\ ~handler[w].attached
    /\ \/ Execute(handler[w])
       \/ ~Hits(handler[w]) /\ UNCHANGED <<row, answered>>
    /\ Return(w)
    /\ UNCHANGED runtime

(* An instance stops and is replaced: memory, mutex and handlers are lost,   *)
(* statements on their way are not.                                          *)
Crash(i) ==
    /\ "crash" \in Faults
    /\ runtime' = [runtime EXCEPT ![i] = Unloaded]
    /\ lock' = [lock EXCEPT ![i] = Nobody]
    /\ handler' = [w \in Workers |->
                     IF handler[w].at # i THEN handler[w]
                     ELSE IF handler[w].pc \in WriteSteps
                          THEN [handler[w] EXCEPT !.attached = FALSE] ELSE Idle]
    /\ UNCHANGED <<row, answered>>

-----------------------------------------------------------------------------
(* The system.                                                               *)

(* What the web page of the session sends. *)
WebRequest(w, i) ==
    \/ Resume(w, i)
    \/ Ratings(w, i)
    \/ "skip" \in Requests /\ Skip(w, i)
    \/ \E q \in Items, right, tools \in BOOLEAN :
         (tools => "tools" \in Requests) /\ Submit(w, i, q, right, tools)

(* What an agent sends. *)
AgentRequest(w, i) ==
    \/ /\ "mcp" \in Requests
       /\ \/ \E right, tools \in BOOLEAN :
               /\ tools => "tools" \in Requests
               /\ McpCall(w, i, "mcp_answer_read", right, tools)
          \/ McpCall(w, i, "mcp_feedback_read", FALSE, FALSE)
          \/ "data" \in Requests /\ McpCall(w, i, "mcp_data_read", FALSE, FALSE)
    \/ "data" \in Requests /\ \E q \in Items : DataRequest(w, i, q)
    \/ "sound" \in Requests /\ \E q \in Items : SoundReferenceRequest(w, i, q)

(* One more step of a request in progress. *)
HandlerStep(w) ==
    \/ ResumeRead(w) \/ ResumeInsert(w)
    \/ SubmitRead(w) \/ SubmitWrite(w) \/ SubmitMark(w)
    \/ SkipRead(w) \/ SkipMark(w) \/ SkipWrite(w)
    \/ RatingsWrite(w)
    \/ DataRead(w) \/ SoundReferenceRead(w) \/ DataMark(w)
    \/ McpAnswerRead(w) \/ McpAnswerWrite(w) \/ McpMark(w)
    \/ McpFeedbackRead(w) \/ McpFeedbackWrite(w)
    \/ McpDataRead(w) \/ McpDataMark(w)
    \/ LateEffect(w)

Fault ==
    \/ \E w \in Workers : Abandon(w) \/ Detach(w)
    \/ \E i \in Instances : Crash(i)

Next ==
    \/ \E i \in Instances : ResumeFromMemory(i) \/ Proceed(i)
    \/ \E w \in Workers, i \in Instances : WebRequest(w, i) \/ AgentRequest(w, i)
    \/ \E w \in Workers : HandlerStep(w)
    \/ Fault

Spec == Init /\ [][Next]_vars
=============================================================================
