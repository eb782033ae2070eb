----------------------------- MODULE McpSessions -----------------------------
(***************************************************************************)
(* One MCP-over-HTTP session, as McpSessionManager keeps it                *)
(* (crates/shapeflow-human-eval/src/mcp_session.rs, with the Postgres      *)
(* table mcp_http_sessions).  The session has one record in the database   *)
(* and, on every instance that serves it, a cached handle and the time of  *)
(* its last use.  An instance without a handle rebuilds one from the       *)
(* record; a reaper closes the session when an instance has not used it    *)
(* for MCP_IDLE_TIMEOUT; the record of a session nobody has used for as    *)
(* long is deleted by a trigger on the table.                              *)
(*                                                                         *)
(* A task is a request, a reaper pass over this session or the end of a    *)
(* service.  One step of a task is what it does between two awaits: taking *)
(* an RwLock for one map operation, a statement, a call of the handle.     *)
(***************************************************************************)
EXTENDS Integers, FiniteSets

CONSTANTS Instances,   \* server processes that share the database
          Tasks,       \* tasks that can be under way at once
          Nobody,      \* "no task" and "no instance"
          MaxHandles,  \* handles that can be alive at once
          Timeout,     \* MCP_IDLE_TIMEOUT, in ticks
          Faults       \* what may go wrong: "db", "initialize", "exit", "crash"

ASSUME McpAssumption ==
    /\ Nobody \notin Instances \union Tasks
    /\ MaxHandles \in Nat \ {0}
    /\ Timeout \in Nat \ {0}
    /\ Faults \subseteq {"db", "initialize", "exit", "crash"}

VARIABLES record,    \* the mcp_http_sessions row
          cache,     \* per instance, McpSessionManager.sessions
          activity,  \* per instance, McpSessionManager.session_activity
          lock,      \* per instance, the holder of rehydrate_lock
          service,   \* per instance, the handles a spawned service runs for
          dead,      \* handles whose worker has ended
          task,      \* what every task does
          known      \* the client has been told the session id

vars == <<record, cache, activity, lock, service, dead, task, known>>

-----------------------------------------------------------------------------
(* State.                                                                    *)

NoHandle == 0
Handles == 1 .. MaxHandles

(* Ticks since the last use; Timeout stands for "at least MCP_IDLE_TIMEOUT". *)
Ages == 0 .. Timeout
NoEntry == -1

Record == [exists : BOOLEAN, initialized : BOOLEAN, closed : BOOLEAN,
           stored : BOOLEAN, age : Ages]

NoRecord == [exists |-> FALSE, initialized |-> FALSE, closed |-> FALSE,
             stored |-> FALSE, age |-> 0]

(* The steps a task takes while it holds rehydrate_lock. *)
RehydrateSteps == {"locked_seen", "load", "insert", "insert_touch", "replay",
                   "increment", "last_touch", "undo_cache", "undo_activity", "undo_handle"}

CreateSteps == {"create_row", "init_lookup", "init_handle", "init_persist", "init_touch"}

(* The steps that use the handle the task has. *)
HandleSteps == {"insert_touch", "replay", "undo_cache", "undo_activity", "undo_handle",
                "close_activity", "close_handle"}

Steps == RehydrateSteps \union CreateSteps \union
         {"idle", "drop_cache", "drop_activity",
          "touch", "seen", "acquire",
          "close_cache", "close_activity", "close_handle", "close_mark"}

Task == [pc : Steps, at : Instances \union {Nobody},
         handle : Handles \union {NoHandle}, reaper : BOOLEAN]

Idle == [pc |-> "idle", at |-> Nobody, handle |-> NoHandle, reaper |-> FALSE]

(* The type of every variable. *)
TypeOK ==
    /\ record \in Record
    /\ cache \in [Instances -> Handles \union {NoHandle}]
    /\ activity \in [Instances -> Ages \union {NoEntry}]
    /\ lock \in [Instances -> Tasks \union {Nobody}]
    /\ service \in [Instances -> SUBSET Handles]
    /\ dead \in SUBSET Handles
    /\ task \in [Tasks -> Task]
    /\ known \in BOOLEAN

(* create_session, up to its INSERT: the id is new, so nobody else uses it. *)
Init ==
    \E t \in Tasks, i \in Instances :
        /\ record = NoRecord
        /\ cache = [j \in Instances |-> IF j = i THEN 1 ELSE NoHandle]
        /\ activity = [j \in Instances |-> IF j = i THEN 0 ELSE NoEntry]
        /\ lock = [j \in Instances |-> Nobody]
        /\ service = [j \in Instances |-> {}]
        /\ dead = {}
        /\ task = [u \in Tasks |->
                     IF u = t THEN [Idle EXCEPT !.pc = "create_row", !.at = i, !.handle = 1]
                     ELSE Idle]
        /\ known = FALSE

-----------------------------------------------------------------------------
(* The record.                                                               *)

(* A trigger of the table deletes every stale record before an INSERT or an  *)
(* UPDATE.  Postgres refuses to update a record its own trigger has deleted: *)
(* an UPDATE of a stale record is an error and leaves it where it is, and a  *)
(* write for another session is what deletes it.                             *)
Fresh == record.exists /\ record.age < Timeout

(* Slip: an upsert in the place of an UPDATE. *)
LastSeenUpserted == [record EXCEPT !.exists = TRUE, !.closed = FALSE, !.age = 0]

LastSeenUpdated == IF Fresh THEN [record EXCEPT !.age = 0] ELSE record

MarkedClosed == IF Fresh THEN [record EXCEPT !.closed = TRUE, !.age = 0] ELSE record

(* The session can be rebuilt from its record. *)
Live == record.exists /\ record.initialized /\ ~record.closed /\ record.stored

-----------------------------------------------------------------------------
(* Tasks.                                                                    *)

At(t, step) == task[t].pc = step

Go(t, step) == task' = [task EXCEPT ![t].pc = step]

GoWith(t, step, h) == task' = [task EXCEPT ![t].pc = step, ![t].handle = h]

Begin(t, i, step, h) ==
    /\ At(t, "idle")
    /\ task' = [task EXCEPT ![t] = [pc |-> step, at |-> i, handle |-> h, reaper |-> FALSE]]

(* Slip: the lock outlives the task. *)
EndLocked(t) ==
    /\ task' = [task EXCEPT ![t] = Idle]
    /\ UNCHANGED lock

(* The task ends; the guard of rehydrate_lock is dropped with it. *)
End(t) ==
    /\ task' = [task EXCEPT ![t] = Idle]
    /\ lock' = [i \in Instances |-> IF lock[i] = t THEN Nobody ELSE lock[i]]

Fails(fault, t) ==
    /\ fault \in Faults
    /\ End(t)
    /\ UNCHANGED <<record, cache, activity, service, dead, known>>

(* A handle nothing refers to any more can be used again. *)
InUse ==
    {cache[i] : i \in Instances} \union UNION {service[i] : i \in Instances}
        \union {task[t].handle : t \in Tasks}

Unused == Handles \ InUse

(* The tasks that may still take one; bound: Lookup leaves one for each. *)
Rebuilding == {t \in Tasks : task[t].pc \in {"acquire", "load", "insert"}}

-----------------------------------------------------------------------------
(* create_session and initialize_session, which serve the client's first     *)
(* request together.                                                         *)

CreateRow(t) ==
    /\ At(t, "create_row")
    /\ \/ /\ record' = [NoRecord EXCEPT !.exists = TRUE]
          /\ Go(t, "init_lookup")
       \/ /\ "db" \in Faults
          /\ Go(t, "drop_cache")
          /\ UNCHANGED record
    /\ UNCHANGED <<cache, activity, lock, service, dead, known>>

InitLookup(t) ==
    /\ At(t, "init_lookup")
    /\ IF cache[task[t].at] = NoHandle THEN End(t)
       ELSE GoWith(t, "init_handle", cache[task[t].at]) /\ UNCHANGED lock
    /\ UNCHANGED <<record, cache, activity, service, dead, known>>

InitHandle(t) ==
    /\ At(t, "init_handle")
    /\ IF task[t].handle \in dead THEN End(t)
       ELSE Go(t, "init_persist") /\ UNCHANGED lock
    /\ UNCHANGED <<record, cache, activity, service, dead, known>>

InitPersist(t) ==
    /\ At(t, "init_persist")
    /\ IF Fresh
       THEN /\ record' = [record EXCEPT !.initialized = TRUE, !.closed = FALSE,
                                        !.stored = TRUE, !.age = 0]
            /\ Go(t, "init_touch")
            /\ UNCHANGED lock
       ELSE End(t) /\ UNCHANGED record
    /\ UNCHANGED <<cache, activity, service, dead, known>>

InitTouch(t) ==
    /\ At(t, "init_touch")
    /\ activity' = [activity EXCEPT ![task[t].at] = 0]
    /\ known' = TRUE
    /\ End(t)
    /\ UNCHANGED <<record, cache, service, dead>>

-----------------------------------------------------------------------------
(* get_or_rehydrate_session, which every later request goes through.         *)

Lookup(t, i) ==
    /\ known
    /\ cache[i] = NoHandle => Cardinality(Unused) > Cardinality(Rebuilding)
    /\ IF cache[i] # NoHandle THEN Begin(t, i, "touch", cache[i])
       ELSE Begin(t, i, "acquire", NoHandle)
    /\ UNCHANGED <<record, cache, activity, lock, service, dead, known>>

Touch(t) ==
    /\ At(t, "touch")
    /\ activity' = [activity EXCEPT ![task[t].at] = 0]
    /\ Go(t, "seen")
    /\ UNCHANGED <<record, cache, lock, service, dead, known>>

(* The handle is returned once last_seen_at is updated. *)
Seen(t) ==
    /\ At(t, "seen") \/ At(t, "locked_seen")
    /\ record' = LastSeenUpdated
    /\ End(t)
    /\ UNCHANGED <<cache, activity, service, dead, known>>

(* Slip: the cache is not looked up again once the lock is held. *)
AcquireBlindly(t) ==
    LET i == task[t].at IN
    /\ At(t, "acquire")
    /\ lock[i] = Nobody
    /\ lock' = [lock EXCEPT ![i] = t]
    /\ Go(t, "load")
    /\ UNCHANGED <<record, cache, activity, service, dead, known>>

Acquire(t) ==
    LET i == task[t].at IN
    /\ At(t, "acquire")
    /\ lock[i] = Nobody
    /\ lock' = [lock EXCEPT ![i] = t]
    /\ IF cache[i] # NoHandle THEN GoWith(t, "locked_seen", cache[i]) ELSE Go(t, "load")
    /\ UNCHANGED <<record, cache, activity, service, dead, known>>

Load(t) ==
    /\ At(t, "load")
    /\ IF Live THEN Go(t, "insert") /\ UNCHANGED lock ELSE End(t)
    /\ UNCHANGED <<record, cache, activity, service, dead, known>>

(* cache_session keeps a handle that is already there; a new handle gets a   *)
(* service after it was touched.                                             *)
Insert(t) ==
    LET i == task[t].at IN
    /\ At(t, "insert")
    /\ IF cache[i] # NoHandle
       THEN GoWith(t, "last_touch", cache[i]) /\ UNCHANGED <<cache, dead>>
       ELSE \E h \in Unused :
              /\ \A g \in Unused : h <= g
              /\ cache' = [cache EXCEPT ![i] = h]
              /\ dead' = dead \ {h}
              /\ GoWith(t, "insert_touch", h)
    /\ UNCHANGED <<record, activity, lock, service, known>>

InsertTouch(t) ==
    LET i == task[t].at IN
    /\ At(t, "insert_touch")
    /\ activity' = [activity EXCEPT ![i] = 0]
    /\ service' = [service EXCEPT ![i] = @ \union {task[t].handle}]
    /\ Go(t, "replay")
    /\ UNCHANGED <<record, cache, lock, dead, known>>

Replay(t) ==
    /\ At(t, "replay")
    /\ \/ task[t].handle \notin dead /\ Go(t, "increment")
       \/ (task[t].handle \in dead \/ "initialize" \in Faults) /\ Go(t, "undo_cache")
    /\ UNCHANGED <<record, cache, activity, lock, service, dead, known>>

(* An error leaves the new handle cached. *)
Increment(t) ==
    /\ At(t, "increment")
    /\ IF Fresh /\ Live
       THEN record' = [record EXCEPT !.age = 0] /\ Go(t, "last_touch") /\ UNCHANGED lock
       ELSE End(t) /\ UNCHANGED record
    /\ UNCHANGED <<cache, activity, service, dead, known>>

LastTouch(t) ==
    /\ At(t, "last_touch")
    /\ activity' = [activity EXCEPT ![task[t].at] = 0]
    /\ End(t)
    /\ UNCHANGED <<record, cache, service, dead, known>>

-----------------------------------------------------------------------------
(* remove_session takes whatever handle is cached under the id, then, if     *)
(* there was one, the activity entry.                                        *)

RemoveHandle(t, step) ==
    /\ At(t, step)
    /\ cache' = [cache EXCEPT ![task[t].at] = NoHandle]
    /\ UNCHANGED <<record, activity, service, dead, known>>

Present(t) == cache[task[t].at] # NoHandle

RemoveActivity(t, step) ==
    /\ At(t, step)
    /\ activity' = [activity EXCEPT ![task[t].at] = NoEntry]
    /\ UNCHANGED <<record, cache, service, dead, known>>

(* A failed replay: remove what is cached, close the handle just made.       *)
UndoCache(t) ==
    /\ RemoveHandle(t, "undo_cache")
    /\ Go(t, IF Present(t) THEN "undo_activity" ELSE "undo_handle")
    /\ UNCHANGED lock

UndoActivity(t) ==
    RemoveActivity(t, "undo_activity") /\ Go(t, "undo_handle") /\ UNCHANGED lock

UndoHandle(t) ==
    /\ At(t, "undo_handle")
    /\ dead' = dead \union {task[t].handle}
    /\ End(t)
    /\ UNCHANGED <<record, cache, activity, service, known>>

(* Slip: the manager is not told that the service has ended. *)
ServiceEndUnnoticed(t, i, h) ==
    /\ h \in service[i]
    /\ h \in dead \/ "exit" \in Faults
    /\ At(t, "idle")
    /\ service' = [service EXCEPT ![i] = @ \ {h}]
    /\ dead' = dead \union {h}
    /\ UNCHANGED <<record, cache, activity, lock, task, known>>

(* A spawned service ends: remove_session, by id, as after a create_session  *)
(* whose INSERT failed.  The service of the first handle is rmcp's, which    *)
(* calls close_session when it ends: Close.                                  *)
ServiceEnd(t, i, h) ==
    /\ h \in service[i]
    /\ h \in dead \/ "exit" \in Faults
    /\ Begin(t, i, "drop_cache", NoHandle)
    /\ service' = [service EXCEPT ![i] = @ \ {h}]
    /\ dead' = dead \union {h}
    /\ UNCHANGED <<record, cache, activity, lock, known>>

DropCache(t) ==
    /\ RemoveHandle(t, "drop_cache")
    /\ IF Present(t) THEN Go(t, "drop_activity") /\ UNCHANGED lock ELSE End(t)

DropActivity(t) == RemoveActivity(t, "drop_activity") /\ End(t)

-----------------------------------------------------------------------------
(* close_session_internal, for the client or the reaper.                     *)

Close(t, i) ==
    /\ known
    /\ Begin(t, i, "close_cache", NoHandle)
    /\ UNCHANGED <<record, cache, activity, lock, service, dead, known>>

(* reap_idle_sessions; one reaper per instance. *)
Reap(t, i) ==
    /\ activity[i] = Timeout
    /\ \A u \in Tasks : ~(task[u].reaper /\ task[u].at = i)
    /\ At(t, "idle")
    /\ task' = [task EXCEPT ![t] = [pc |-> "close_cache", at |-> i,
                                    handle |-> NoHandle, reaper |-> TRUE]]
    /\ UNCHANGED <<record, cache, activity, lock, service, dead, known>>

CloseCache(t) ==
    /\ RemoveHandle(t, "close_cache")
    /\ IF Present(t) THEN GoWith(t, "close_activity", cache[task[t].at])
       ELSE Go(t, "close_mark")
    /\ UNCHANGED lock

CloseActivity(t) ==
    RemoveActivity(t, "close_activity") /\ Go(t, "close_handle") /\ UNCHANGED lock

CloseHandle(t) ==
    /\ At(t, "close_handle")
    /\ dead' = dead \union {task[t].handle}
    /\ Go(t, "close_mark")
    /\ UNCHANGED <<record, cache, activity, lock, service, known>>

CloseMark(t) ==
    /\ At(t, "close_mark")
    /\ record' = MarkedClosed
    /\ End(t)
    /\ UNCHANGED <<cache, activity, service, dead, known>>

-----------------------------------------------------------------------------
(* Time and failures.                                                        *)

(* A tick passes. *)
Tick ==
    /\ activity' = [i \in Instances |->
                      IF activity[i] \in 0 .. Timeout - 1 THEN activity[i] + 1 ELSE activity[i]]
    /\ record' = IF Fresh THEN [record EXCEPT !.age = @ + 1] ELSE record
    /\ <<activity, record>>' # <<activity, record>>
    /\ UNCHANGED <<cache, lock, service, dead, task, known>>

(* A write for another session runs the trigger. *)
Cleanup ==
    /\ record.exists /\ ~Fresh
    /\ record' = NoRecord
    /\ UNCHANGED <<cache, activity, lock, service, dead, task, known>>

(* A statement fails: every such error ends the task where it stands. *)
DbError(t) ==
    /\ task[t].pc \in {"init_persist", "seen", "locked_seen", "load", "increment", "close_mark"}
    /\ Fails("db", t)

InitializeError(t) == At(t, "init_handle") /\ Fails("initialize", t)

(* An instance stops and is replaced. *)
Crash(i) ==
    /\ "crash" \in Faults
    /\ cache' = [cache EXCEPT ![i] = NoHandle]
    /\ activity' = [activity EXCEPT ![i] = NoEntry]
    /\ lock' = [lock EXCEPT ![i] = Nobody]
    /\ service' = [service EXCEPT ![i] = {}]
    /\ task' = [t \in Tasks |-> IF task[t].at = i THEN Idle ELSE task[t]]
    /\ UNCHANGED <<record, dead, known>>

-----------------------------------------------------------------------------
(* The system.                                                               *)

TaskStep(t) ==
    \/ CreateRow(t) \/ InitLookup(t) \/ InitHandle(t) \/ InitPersist(t) \/ InitTouch(t)
    \/ Touch(t) \/ Seen(t) \/ Acquire(t) \/ Load(t) \/ Insert(t) \/ InsertTouch(t)
    \/ Replay(t) \/ Increment(t) \/ LastTouch(t)
    \/ UndoCache(t) \/ UndoActivity(t) \/ UndoHandle(t)
    \/ DropCache(t) \/ DropActivity(t)
    \/ CloseCache(t) \/ CloseActivity(t) \/ CloseHandle(t) \/ CloseMark(t)

Fault ==
    \/ \E t \in Tasks : DbError(t) \/ InitializeError(t)
    \/ \E i \in Instances : Crash(i)

Next ==
    \/ \E t \in Tasks, i \in Instances :
         \/ Lookup(t, i) \/ Close(t, i) \/ Reap(t, i)
         \/ \E h \in Handles : ServiceEnd(t, i, h)
    \/ \E t \in Tasks : TaskStep(t)
    \/ Tick \/ Cleanup \/ Fault

Spec == Init /\ [][Next]_vars

(* tokio runs every task that can go on, hands its Mutex out in the order of *)
(* arrival, and wakes the task of a service whose worker has ended.          *)
Fairness ==
    /\ \A t \in Tasks : WF_vars(TaskStep(t)) /\ SF_vars(Acquire(t))
    /\ \A i \in Instances, h \in Handles :
         SF_vars(h \in dead /\ \E t \in Tasks : ServiceEnd(t, i, h))

FairSpec == Spec /\ Fairness

(* Requests, closes and reaper passes are short beside a tick. *)
PromptSpec == Init /\ [][Next /\ (Tick => \A t \in Tasks : At(t, "idle"))]_vars

-----------------------------------------------------------------------------
(* Properties.                                                               *)

(* A handle that get_or_rehydrate_session has made for a session is never    *)
(* thrown away because another one got into the cache first: the second look *)
(* at the cache, under rehydrate_lock, and the load that follows it are one  *)
(* critical section, whatever closes, failures and crashes come in between.  *)
NeverDiscarded ==
    \A t \in Tasks :
        At(t, "load") \/ At(t, "insert") => cache[task[t].at] = NoHandle

(* rehydrate_lock is held by exactly the task that is rebuilding a handle on *)
(* that instance: every return, early or not, and every error releases it.   *)
LockHeld ==
    \A t \in Tasks, i \in Instances :
        lock[i] = t <=> task[t].pc \in RehydrateSteps /\ task[t].at = i

(* A session is created once, before its client knows of it. *)
CreatedOnce ==
    \A t \in Tasks : task[t].pc \in CreateSteps =>
        /\ ~known
        /\ \A u \in Tasks \ {t} : task[u].pc \notin CreateSteps

(* A task under way is on an instance, and has the handle its step is for. *)
Placed ==
    \A t \in Tasks :
        /\ ~At(t, "idle") => task[t].at \in Instances
        /\ task[t].pc \in HandleSteps => task[t].handle \in Handles

(* The strengthening of TypeOK and NeverDiscarded that every step keeps. *)
SessionInvariant == TypeOK /\ Placed /\ CreatedOnce /\ LockHeld /\ NeverDiscarded

(* What a client was told about stays closed once it is closed, and a        *)
(* record that has been deleted does not come back: a late last_seen_at,     *)
(* rehydrate_count or close statement of any instance revives no session.    *)
ClosedIsFinal ==
    [][known /\ (record.closed \/ ~record.exists) => (record'.closed \/ ~record'.exists)]_vars

(* A request, a close, a reaper pass and the end of a service all end: no    *)
(* error path keeps rehydrate_lock.                                          *)
TasksEnd == \A t \in Tasks : ~At(t, "idle") ~> At(t, "idle")

(* A handle whose worker has ended does not stay in the cache, where every   *)
(* request would find it and fail.                                           *)
DeadHandleDropped ==
    \A i \in Instances : cache[i] \in dead ~> cache[i] \notin dead

(* "closing idle MCP session {session_id} after inactivity timeout"          *)
(* (mcp_session.rs:112): when the reaper closes the record, nobody has used  *)
(* the session for the timeout.                                              *)
ReaperClosesIdle ==
    [][\A t \in Tasks :
         task[t].reaper /\ At(t, "close_mark") /\ ~record.closed /\ record'.closed
           => \A i \in Instances : activity[i] \in {Timeout, NoEntry}]_vars
=============================================================================
