-------------------------- MODULE McpSessionsProofs --------------------------
(***************************************************************************)
(* The invariant of McpSessions, and that a closed session stays closed,   *)
(* for any instances, tasks, handles, timeout and faults.                  *)
(***************************************************************************)
EXTENDS McpSessions, TLAPS

-----------------------------------------------------------------------------
(* What the moves of a task keep.                                            *)

(* The part of the invariant that is about the tasks and rehydrate_lock. *)
Control ==
    /\ task \in [Tasks -> Task]
    /\ lock \in [Instances -> Tasks \union {Nobody}]
    /\ Placed /\ CreatedOnce /\ LockHeld

Rebuilds(t) == At(t, "load") \/ At(t, "insert")

(* A task that ends releases the lock if it holds it. *)
LEMMA EndKeepsControl ==
    ASSUME SessionInvariant, NEW t \in Tasks, End(t), known' = known
    PROVE  /\ Control'
           /\ \A u \in Tasks : Rebuilds(u)' => u # t /\ task'[u] = task[u]
<1>1. task' \in [Tasks -> Task] /\ lock' \in [Instances -> Tasks \union {Nobody}]
  BY DEF End, SessionInvariant, TypeOK, Task, Idle, Steps
<1>2. /\ task'[t] = Idle
      /\ \A u \in Tasks \ {t} : task'[u] = task[u]
  BY DEF End, SessionInvariant, TypeOK
<1>3. Placed' /\ CreatedOnce'
  BY <1>2 DEF SessionInvariant, Placed, CreatedOnce, At, Idle, HandleSteps, CreateSteps
<1>4. LockHeld'
  BY <1>2, McpAssumption
     DEF End, SessionInvariant, TypeOK, LockHeld, Idle, RehydrateSteps
<1>5. \A u \in Tasks : Rebuilds(u)' => u # t /\ task'[u] = task[u]
  BY <1>2 DEF Rebuilds, At, Idle
<1> QED
  BY <1>1, <1>3, <1>4, <1>5 DEF Control

(* A task that goes from one step to another keeps the lock it holds. *)
LEMMA GoKeepsControl ==
    ASSUME SessionInvariant, NEW t \in Tasks, NEW step \in Steps \ {"idle"},
           ~At(t, "idle"), Go(t, step), lock' = lock, known' = known,
           step \in CreateSteps => task[t].pc \in CreateSteps,
           step \in RehydrateSteps <=> task[t].pc \in RehydrateSteps,
           step \in HandleSteps => task[t].handle \in Handles
    PROVE  /\ Control'
           /\ \A u \in Tasks : Rebuilds(u)' =>
              (u = t /\ step \in {"load", "insert"}) \/ (u # t /\ task'[u] = task[u])
<1>1. task' \in [Tasks -> Task] /\ lock' \in [Instances -> Tasks \union {Nobody}]
  BY DEF Go, SessionInvariant, TypeOK, Task
<1>2. /\ task'[t].pc = step
      /\ task'[t].at = task[t].at
      /\ task'[t].handle = task[t].handle
      /\ \A u \in Tasks \ {t} : task'[u] = task[u]
  BY DEF Go, SessionInvariant, TypeOK, Task
<1>3. Placed' /\ CreatedOnce'
  BY <1>2 DEF SessionInvariant, Placed, CreatedOnce, At
<1>4. LockHeld'
  BY <1>2 DEF SessionInvariant, LockHeld
<1>5. \A u \in Tasks : Rebuilds(u)' =>
        (u = t /\ step \in {"load", "insert"}) \/ (u # t /\ task'[u] = task[u])
  BY <1>2 DEF Rebuilds, At
<1> QED
  BY <1>1, <1>3, <1>4, <1>5 DEF Control

(* A task begins with no lock. *)
LEMMA BeginKeepsControl ==
    ASSUME SessionInvariant, NEW t \in Tasks, NEW i \in Instances,
           NEW step \in Steps \ ({"idle"} \union CreateSteps \union RehydrateSteps \union HandleSteps),
           NEW h \in Handles \union {NoHandle}, NEW r \in BOOLEAN,
           At(t, "idle"), lock' = lock, known' = known,
           task' = [task EXCEPT ![t] = [pc |-> step, at |-> i, handle |-> h, reaper |-> r]]
    PROVE  /\ Control'
           /\ \A u \in Tasks : Rebuilds(u)' => u # t /\ task'[u] = task[u]
<1>1. task' \in [Tasks -> Task] /\ lock' \in [Instances -> Tasks \union {Nobody}]
  BY DEF SessionInvariant, TypeOK, Task
<1>2. /\ task'[t].pc = step /\ task'[t].at = i
      /\ \A u \in Tasks \ {t} : task'[u] = task[u]
  BY DEF SessionInvariant, TypeOK
<1>3. Placed' /\ CreatedOnce'
  BY <1>2 DEF SessionInvariant, Placed, CreatedOnce, At
<1>4. LockHeld'
  BY <1>2 DEF SessionInvariant, LockHeld, At, RehydrateSteps
<1>5. \A u \in Tasks : Rebuilds(u)' => u # t /\ task'[u] = task[u]
  BY <1>2 DEF Rebuilds, At, RehydrateSteps
<1> QED
  BY <1>1, <1>3, <1>4, <1>5 DEF Control

(* What a statement makes of the record is a record. *)
LEMMA RecordsKept ==
    ASSUME record \in Record
    PROVE  /\ NoRecord \in Record
           /\ [NoRecord EXCEPT !.exists = TRUE] \in Record
           /\ LastSeenUpdated \in Record
           /\ MarkedClosed \in Record
           /\ [record EXCEPT !.age = 0] \in Record
           /\ [record EXCEPT !.initialized = TRUE, !.closed = FALSE,
                             !.stored = TRUE, !.age = 0] \in Record
<1> 0 \in Ages
  BY McpAssumption DEF Ages
<1> QED
  BY DEF NoRecord, LastSeenUpdated, MarkedClosed, Record

-----------------------------------------------------------------------------
(* create_session and initialize_session.                                    *)

(* The new record is a record; a failed INSERT undoes the cache. *)
LEMMA CreateRowKeeps ==
    ASSUME SessionInvariant, NEW t \in Tasks, CreateRow(t)
    PROVE  SessionInvariant'
<1>1. /\ record' \in Record
      /\ cache' = cache /\ activity' = activity /\ service' = service
      /\ dead' = dead /\ known' = known /\ lock' = lock
      /\ \E step \in {"init_lookup", "drop_cache"} : Go(t, step)
  BY RecordsKept DEF CreateRow, SessionInvariant, TypeOK
<1>2. Control' /\ (\A u \in Tasks : Rebuilds(u)' => u # t /\ task'[u] = task[u])
  BY <1>1, GoKeepsControl
     DEF CreateRow, At, Steps, CreateSteps, RehydrateSteps, HandleSteps
<1> QED
  BY <1>1, <1>2
     DEF SessionInvariant, TypeOK, Control, NeverDiscarded, Rebuilds, Placed, At

(* The cached handle is taken, or the request ends. *)
LEMMA InitLookupKeeps ==
    ASSUME SessionInvariant, NEW t \in Tasks, InitLookup(t)
    PROVE  SessionInvariant'
<1>1. CASE cache[task[t].at] = NoHandle
  <2>1. /\ End(t)
        /\ record' = record /\ cache' = cache /\ activity' = activity
        /\ service' = service /\ dead' = dead /\ known' = known
    BY <1>1 DEF InitLookup
  <2> QED
    BY <2>1, EndKeepsControl
       DEF SessionInvariant, TypeOK, Control, NeverDiscarded, Rebuilds, Placed, At
<1>2. CASE cache[task[t].at] # NoHandle
  BY <1>2
     DEF InitLookup, GoWith, SessionInvariant, TypeOK, Placed, CreatedOnce, LockHeld,
         NeverDiscarded, At, Task, Idle, Steps, RehydrateSteps, CreateSteps, HandleSteps,
         Handles, NoHandle
<1> QED
  BY <1>1, <1>2

(* The handle takes the initialize request, or its worker has ended. *)
LEMMA InitHandleKeeps ==
    ASSUME SessionInvariant, NEW t \in Tasks, InitHandle(t)
    PROVE  SessionInvariant'
<1>1. /\ record' = record
      /\ cache' = cache /\ activity' = activity /\ service' = service
      /\ dead' = dead /\ known' = known
      /\ End(t) \/ (Go(t, "init_persist") /\ lock' = lock)
  BY RecordsKept DEF InitHandle, SessionInvariant, TypeOK
<1>2. CASE End(t)
  BY <1>1, <1>2, EndKeepsControl
     DEF SessionInvariant, TypeOK, Control, NeverDiscarded, Rebuilds, Placed, At
<1>3. CASE Go(t, "init_persist") /\ lock' = lock
  <2>1. Control' /\ (\A u \in Tasks : Rebuilds(u)' => u # t /\ task'[u] = task[u])
    BY <1>1, <1>3, GoKeepsControl
       DEF InitHandle, At, Steps, CreateSteps, RehydrateSteps, HandleSteps
  <2> QED
    BY <1>1, <2>1
       DEF SessionInvariant, TypeOK, Control, NeverDiscarded, Rebuilds, Placed, At
<1> QED
  BY <1>1, <1>2, <1>3

(* The record is initialized, or is stale or gone. *)
LEMMA InitPersistKeeps ==
    ASSUME SessionInvariant, NEW t \in Tasks, InitPersist(t)
    PROVE  SessionInvariant'
<1>1. /\ record' \in Record
      /\ cache' = cache /\ activity' = activity /\ service' = service
      /\ dead' = dead /\ known' = known
      /\ End(t) \/ (Go(t, "init_touch") /\ lock' = lock)
  BY RecordsKept DEF InitPersist, SessionInvariant, TypeOK
<1>2. CASE End(t)
  BY <1>1, <1>2, EndKeepsControl
     DEF SessionInvariant, TypeOK, Control, NeverDiscarded, Rebuilds, Placed, At
<1>3. CASE Go(t, "init_touch") /\ lock' = lock
  <2>1. Control' /\ (\A u \in Tasks : Rebuilds(u)' => u # t /\ task'[u] = task[u])
    BY <1>1, <1>3, GoKeepsControl
       DEF InitPersist, At, Steps, CreateSteps, RehydrateSteps, HandleSteps
  <2> QED
    BY <1>1, <2>1
       DEF SessionInvariant, TypeOK, Control, NeverDiscarded, Rebuilds, Placed, At
<1> QED
  BY <1>1, <1>2, <1>3

(* The session is known, and nobody creates it any more. *)
LEMMA InitTouchKeeps ==
    ASSUME SessionInvariant, NEW t \in Tasks, InitTouch(t)
    PROVE  SessionInvariant'
  BY McpAssumption
     DEF InitTouch, End, SessionInvariant, TypeOK, Placed, CreatedOnce, LockHeld,
         NeverDiscarded, At, Task, Idle, Steps, CreateSteps, HandleSteps, Ages

-----------------------------------------------------------------------------
(* get_or_rehydrate_session.                                                 *)

(* A use is noted. *)
LEMMA TouchKeeps ==
    ASSUME SessionInvariant, NEW t \in Tasks, Touch(t)
    PROVE  SessionInvariant'
<1>1. /\ activity' \in [Instances -> Ages \union {NoEntry}]
      /\ record' = record /\ cache' = cache /\ service' = service /\ dead' = dead /\ known' = known
      /\ lock' = lock
      /\ Go(t, "seen")
  BY McpAssumption DEF Touch, Ages, SessionInvariant, TypeOK, Placed, At
<1>2. Control' /\ (\A u \in Tasks : Rebuilds(u)' => u # t /\ task'[u] = task[u])
  BY <1>1, GoKeepsControl
     DEF Touch, SessionInvariant, Placed, At, Steps, CreateSteps, RehydrateSteps, HandleSteps
<1> QED
  BY <1>1, <1>2 DEF SessionInvariant, TypeOK, Control, NeverDiscarded, Rebuilds, Placed, At

(* The record is seen, or is stale or gone. *)
LEMMA SeenKeeps ==
    ASSUME SessionInvariant, NEW t \in Tasks, Seen(t)
    PROVE  SessionInvariant'
<1>1. /\ record' \in Record
      /\ End(t)
      /\ cache' = cache /\ activity' = activity /\ service' = service
      /\ dead' = dead /\ known' = known
  BY RecordsKept DEF Seen, SessionInvariant, TypeOK
<1> QED
  BY <1>1, EndKeepsControl
     DEF SessionInvariant, TypeOK, Control, NeverDiscarded, Rebuilds, Placed, At

(* The lock is free, and then the task's. *)
LEMMA AcquireKeeps ==
    ASSUME SessionInvariant, NEW t \in Tasks, Acquire(t)
    PROVE  SessionInvariant'
<1> DEFINE i == task[t].at
<1>1. /\ i \in Instances /\ lock[i] = Nobody /\ Nobody \notin Tasks
      /\ lock' = [lock EXCEPT ![i] = t]
      /\ record' = record /\ cache' = cache /\ activity' = activity
      /\ service' = service /\ dead' = dead /\ known' = known
  BY McpAssumption DEF Acquire, SessionInvariant, Placed, At
<1>2. /\ task' \in [Tasks -> Task]
      /\ task'[t].pc \in {"locked_seen", "load"} /\ task'[t].at = i
      /\ task'[t].pc = "load" => cache[i] = NoHandle
      /\ \A u \in Tasks \ {t} : task'[u] = task[u]
  BY <1>1 DEF Acquire, Go, GoWith, SessionInvariant, TypeOK, Task, Steps, RehydrateSteps
<1>3. TypeOK'
  BY <1>1, <1>2 DEF SessionInvariant, TypeOK
<1>4. Placed' /\ CreatedOnce'
  BY <1>1, <1>2 DEF SessionInvariant, Placed, CreatedOnce, At, CreateSteps, HandleSteps
<1>5. LockHeld'
  BY <1>1, <1>2 DEF Acquire, SessionInvariant, TypeOK, LockHeld, At, RehydrateSteps
<1>6. NeverDiscarded'
  BY <1>1, <1>2 DEF SessionInvariant, NeverDiscarded, At
<1> QED
  BY <1>3, <1>4, <1>5, <1>6 DEF SessionInvariant

(* Nothing was cached when the task got the lock, and only its holder can    *)
(* have cached anything since.                                              *)
LEMMA LoadKeeps ==
    ASSUME SessionInvariant, NEW t \in Tasks, Load(t)
    PROVE  SessionInvariant'
<1>1. /\ record' = record /\ cache' = cache /\ activity' = activity
      /\ service' = service /\ dead' = dead /\ known' = known
  BY DEF Load
<1>2. CASE End(t)
  BY <1>1, <1>2, EndKeepsControl
     DEF SessionInvariant, TypeOK, Control, NeverDiscarded, Rebuilds, Placed, At
<1>3. CASE Go(t, "insert") /\ lock' = lock
  <2>1. Control' /\ (\A u \in Tasks : Rebuilds(u)' => u = t \/ (u # t /\ task'[u] = task[u]))
    BY <1>1, <1>3, GoKeepsControl
       DEF Load, At, Steps, CreateSteps, RehydrateSteps, HandleSteps
  <2>2. cache[task[t].at] = NoHandle /\ task'[t].at = task[t].at
    BY <1>3 DEF Load, Go, SessionInvariant, NeverDiscarded, TypeOK, Task, At
  <2> QED
    BY <1>1, <2>1, <2>2
       DEF SessionInvariant, TypeOK, Control, NeverDiscarded, Rebuilds, Placed, At
<1> QED
  BY <1>2, <1>3 DEF Load

(* Only the holder of the lock puts a handle into the cache. *)
LEMMA InsertKeeps ==
    ASSUME SessionInvariant, NEW t \in Tasks, Insert(t)
    PROVE  SessionInvariant'
<1> DEFINE i == task[t].at
<1>1. /\ i \in Instances /\ lock[i] = t
      /\ record' = record /\ activity' = activity /\ lock' = lock
      /\ service' = service /\ known' = known
      /\ cache[i] = NoHandle
  BY DEF Insert, SessionInvariant, Placed, LockHeld, NeverDiscarded, RehydrateSteps, At
<1>2. PICK h \in Handles : /\ cache' = [cache EXCEPT ![i] = h]
                           /\ dead' = dead \ {h}
                           /\ GoWith(t, "insert_touch", h)
  BY <1>1 DEF Insert, Unused
<1>3. /\ task' \in [Tasks -> Task]
      /\ task'[t].pc = "insert_touch" /\ task'[t].at = i /\ task'[t].handle = h
      /\ \A u \in Tasks \ {t} : task'[u] = task[u]
  BY <1>2 DEF GoWith, SessionInvariant, TypeOK, Task, Steps, RehydrateSteps
<1>4. TypeOK'
  BY <1>1, <1>2, <1>3 DEF SessionInvariant, TypeOK
<1>5. Placed' /\ CreatedOnce'
  BY <1>1, <1>3 DEF SessionInvariant, Placed, CreatedOnce, At, CreateSteps
<1>6. LockHeld'
  BY <1>1, <1>3 DEF Insert, SessionInvariant, LockHeld, At, RehydrateSteps
<1>7. ASSUME NEW u \in Tasks, At(u, "load")' \/ At(u, "insert")'
      PROVE  cache'[task'[u].at] = NoHandle
  <2>1. u # t /\ task'[u] = task[u] /\ (At(u, "load") \/ At(u, "insert"))
    BY <1>3, <1>7 DEF At
  <2>2. task[u].at # i
    BY <1>1, <2>1 DEF SessionInvariant, LockHeld, RehydrateSteps, At
  <2> QED
    BY <1>2, <2>1, <2>2 DEF SessionInvariant, TypeOK, Placed, NeverDiscarded, At
<1> QED
  BY <1>4, <1>5, <1>6, <1>7 DEF SessionInvariant, NeverDiscarded

(* The new handle gets its service. *)
LEMMA InsertTouchKeeps ==
    ASSUME SessionInvariant, NEW t \in Tasks, InsertTouch(t)
    PROVE  SessionInvariant'
<1>1. /\ activity' \in [Instances -> Ages \union {NoEntry}]
      /\ service' \in [Instances -> SUBSET Handles]
      /\ record' = record /\ cache' = cache /\ dead' = dead /\ known' = known
      /\ lock' = lock
      /\ Go(t, "replay")
  BY McpAssumption DEF InsertTouch, Placed, HandleSteps, At, Ages, SessionInvariant, TypeOK
<1>2. Control' /\ (\A u \in Tasks : Rebuilds(u)' => u # t /\ task'[u] = task[u])
  BY <1>1, GoKeepsControl
     DEF InsertTouch, SessionInvariant, Placed, At, Steps, CreateSteps, RehydrateSteps, HandleSteps
<1> QED
  BY <1>1, <1>2 DEF SessionInvariant, TypeOK, Control, NeverDiscarded, Rebuilds, Placed, At

(* The initialize request is replayed, or is not. *)
LEMMA ReplayKeeps ==
    ASSUME SessionInvariant, NEW t \in Tasks, Replay(t)
    PROVE  SessionInvariant'
<1>1. /\ record' = record /\ cache' = cache /\ activity' = activity /\ service' = service /\ dead' = dead /\ known' = known
      /\ lock' = lock
      /\ \E step \in {"increment", "undo_cache"} : Go(t, step)
  BY DEF Replay, SessionInvariant, TypeOK
<1>2. Control' /\ (\A u \in Tasks : Rebuilds(u)' => u # t /\ task'[u] = task[u])
  BY <1>1, GoKeepsControl
     DEF Replay, SessionInvariant, Placed, At, Steps, CreateSteps, RehydrateSteps, HandleSteps
<1> QED
  BY <1>1, <1>2 DEF SessionInvariant, TypeOK, Control, NeverDiscarded, Rebuilds, Placed, At

(* The record counts the rebuild, or is closed, stale or gone. *)
LEMMA IncrementKeeps ==
    ASSUME SessionInvariant, NEW t \in Tasks, Increment(t)
    PROVE  SessionInvariant'
<1>1. /\ record' \in Record
      /\ cache' = cache /\ activity' = activity /\ service' = service
      /\ dead' = dead /\ known' = known
      /\ End(t) \/ (Go(t, "last_touch") /\ lock' = lock)
  BY RecordsKept DEF Increment, SessionInvariant, TypeOK
<1>2. CASE End(t)
  BY <1>1, <1>2, EndKeepsControl
     DEF SessionInvariant, TypeOK, Control, NeverDiscarded, Rebuilds, Placed, At
<1>3. CASE Go(t, "last_touch") /\ lock' = lock
  <2>1. Control' /\ (\A u \in Tasks : Rebuilds(u)' => u # t /\ task'[u] = task[u])
    BY <1>1, <1>3, GoKeepsControl
       DEF Increment, At, Steps, CreateSteps, RehydrateSteps, HandleSteps
  <2> QED
    BY <1>1, <2>1
       DEF SessionInvariant, TypeOK, Control, NeverDiscarded, Rebuilds, Placed, At
<1> QED
  BY <1>1, <1>2, <1>3

(* A use is noted. *)
LEMMA LastTouchKeeps ==
    ASSUME SessionInvariant, NEW t \in Tasks, LastTouch(t)
    PROVE  SessionInvariant'
<1>1. /\ activity' \in [Instances -> Ages \union {NoEntry}]
      /\ record' = record /\ cache' = cache /\ service' = service /\ dead' = dead /\ known' = known
      /\ End(t)
  BY McpAssumption DEF LastTouch, Ages, SessionInvariant, TypeOK, Placed, At
<1> QED
  BY <1>1, EndKeepsControl
     DEF SessionInvariant, TypeOK, Control, NeverDiscarded, Rebuilds, Placed, At

-----------------------------------------------------------------------------
(* remove_session and close_session_internal: the cache only loses handles.  *)

(* A handle leaves the cache. *)
LEMMA UndoCacheKeeps ==
    ASSUME SessionInvariant, NEW t \in Tasks, UndoCache(t)
    PROVE  SessionInvariant'
<1>1. /\ cache' = [cache EXCEPT ![task[t].at] = NoHandle]
      /\ record' = record /\ activity' = activity /\ service' = service /\ dead' = dead /\ known' = known
      /\ lock' = lock
      /\ \E step \in {"undo_activity", "undo_handle"} : Go(t, step)
  BY DEF UndoCache, RemoveHandle, SessionInvariant, TypeOK
<1>2. Control' /\ (\A u \in Tasks : Rebuilds(u)' => u # t /\ task'[u] = task[u])
  BY <1>1, GoKeepsControl
     DEF UndoCache, RemoveHandle, SessionInvariant, Placed, At, Steps, CreateSteps, RehydrateSteps, HandleSteps
<1> QED
  BY <1>1, <1>2 DEF SessionInvariant, TypeOK, Control, NeverDiscarded, Rebuilds, Placed, At

(* The use is forgotten. *)
LEMMA UndoActivityKeeps ==
    ASSUME SessionInvariant, NEW t \in Tasks, UndoActivity(t)
    PROVE  SessionInvariant'
<1>1. /\ activity' \in [Instances -> Ages \union {NoEntry}]
      /\ record' = record /\ cache' = cache /\ service' = service /\ dead' = dead /\ known' = known
      /\ lock' = lock
      /\ Go(t, "undo_handle")
  BY DEF UndoActivity, RemoveActivity, SessionInvariant, TypeOK
<1>2. Control' /\ (\A u \in Tasks : Rebuilds(u)' => u # t /\ task'[u] = task[u])
  BY <1>1, GoKeepsControl
     DEF UndoActivity, RemoveActivity, SessionInvariant, Placed, At, Steps, CreateSteps, RehydrateSteps, HandleSteps
<1> QED
  BY <1>1, <1>2 DEF SessionInvariant, TypeOK, Control, NeverDiscarded, Rebuilds, Placed, At

(* The worker of the new handle ends. *)
LEMMA UndoHandleKeeps ==
    ASSUME SessionInvariant, NEW t \in Tasks, UndoHandle(t)
    PROVE  SessionInvariant'
<1>1. /\ dead' \in SUBSET Handles
      /\ End(t)
      /\ record' = record /\ cache' = cache /\ activity' = activity
      /\ service' = service /\ known' = known
  BY DEF UndoHandle, SessionInvariant, TypeOK, Placed, At, HandleSteps
<1> QED
  BY <1>1, EndKeepsControl
     DEF SessionInvariant, TypeOK, Control, NeverDiscarded, Rebuilds, Placed, At

(* A handle leaves the cache. *)
LEMMA DropCacheKeeps ==
    ASSUME SessionInvariant, NEW t \in Tasks, DropCache(t)
    PROVE  SessionInvariant'
<1>1. /\ cache' = [cache EXCEPT ![task[t].at] = NoHandle]
      /\ record' = record /\ activity' = activity
      /\ service' = service /\ dead' = dead /\ known' = known
      /\ End(t) \/ (Go(t, "drop_activity") /\ lock' = lock)
  BY DEF DropCache, RemoveHandle
<1>2. Control' /\ (\A u \in Tasks : Rebuilds(u)' => u # t /\ task'[u] = task[u])
  <2>1. CASE End(t)
    BY <1>1, <2>1, EndKeepsControl
  <2>2. CASE Go(t, "drop_activity") /\ lock' = lock
    BY <1>1, <2>2, GoKeepsControl
       DEF DropCache, RemoveHandle, At, Steps, CreateSteps, RehydrateSteps, HandleSteps
  <2> QED
    BY <1>1, <2>1, <2>2
<1> QED
  BY <1>1, <1>2
     DEF SessionInvariant, TypeOK, Control, NeverDiscarded, Rebuilds, Placed, At

(* The use is forgotten. *)
LEMMA DropActivityKeeps ==
    ASSUME SessionInvariant, NEW t \in Tasks, DropActivity(t)
    PROVE  SessionInvariant'
<1>1. /\ activity' \in [Instances -> Ages \union {NoEntry}]
      /\ record' = record /\ cache' = cache /\ service' = service /\ dead' = dead /\ known' = known
      /\ End(t)
  BY DEF DropActivity, RemoveActivity, SessionInvariant, TypeOK
<1> QED
  BY <1>1, EndKeepsControl
     DEF SessionInvariant, TypeOK, Control, NeverDiscarded, Rebuilds, Placed, At

(* A handle leaves the cache. *)
LEMMA CloseCacheKeeps ==
    ASSUME SessionInvariant, NEW t \in Tasks, CloseCache(t)
    PROVE  SessionInvariant'
<1>1. /\ task[t].at \in Instances
      /\ cache' = [cache EXCEPT ![task[t].at] = NoHandle] /\ lock' = lock
      /\ record' = record /\ activity' = activity
      /\ service' = service /\ dead' = dead /\ known' = known
  BY DEF CloseCache, RemoveHandle, SessionInvariant, Placed, At
<1>2. /\ task' \in [Tasks -> Task]
      /\ task'[t].pc \in {"close_activity", "close_mark"} /\ task'[t].at = task[t].at
      /\ task'[t].pc = "close_activity" => task'[t].handle \in Handles
      /\ \A u \in Tasks \ {t} : task'[u] = task[u]
  BY <1>1 DEF CloseCache, Present, Go, GoWith, SessionInvariant, TypeOK, Task, Steps
<1>3. TypeOK'
  BY <1>1, <1>2 DEF SessionInvariant, TypeOK
<1>4. Placed' /\ CreatedOnce'
  BY <1>1, <1>2 DEF SessionInvariant, Placed, CreatedOnce, At, CreateSteps, HandleSteps
<1>5. LockHeld'
  BY <1>1, <1>2 DEF CloseCache, RemoveHandle, SessionInvariant, LockHeld, At, RehydrateSteps
<1>6. NeverDiscarded'
  BY <1>1, <1>2 DEF SessionInvariant, TypeOK, Placed, NeverDiscarded, At
<1> QED
  BY <1>3, <1>4, <1>5, <1>6 DEF SessionInvariant

(* The use is forgotten. *)
LEMMA CloseActivityKeeps ==
    ASSUME SessionInvariant, NEW t \in Tasks, CloseActivity(t)
    PROVE  SessionInvariant'
<1>1. /\ activity' \in [Instances -> Ages \union {NoEntry}]
      /\ record' = record /\ cache' = cache /\ service' = service /\ dead' = dead /\ known' = known
      /\ lock' = lock
      /\ Go(t, "close_handle")
  BY DEF CloseActivity, RemoveActivity, SessionInvariant, TypeOK
<1>2. Control' /\ (\A u \in Tasks : Rebuilds(u)' => u # t /\ task'[u] = task[u])
  BY <1>1, GoKeepsControl
     DEF CloseActivity, RemoveActivity, SessionInvariant, Placed, At, Steps, CreateSteps, RehydrateSteps, HandleSteps
<1> QED
  BY <1>1, <1>2 DEF SessionInvariant, TypeOK, Control, NeverDiscarded, Rebuilds, Placed, At

(* The worker of the handle ends. *)
LEMMA CloseHandleKeeps ==
    ASSUME SessionInvariant, NEW t \in Tasks, CloseHandle(t)
    PROVE  SessionInvariant'
<1>1. /\ dead' \in SUBSET Handles
      /\ record' = record /\ cache' = cache /\ activity' = activity /\ service' = service /\ known' = known
      /\ lock' = lock
      /\ Go(t, "close_mark")
  BY DEF CloseHandle, Placed, HandleSteps, At, SessionInvariant, TypeOK
<1>2. Control' /\ (\A u \in Tasks : Rebuilds(u)' => u # t /\ task'[u] = task[u])
  BY <1>1, GoKeepsControl
     DEF CloseHandle, SessionInvariant, Placed, At, Steps, CreateSteps, RehydrateSteps, HandleSteps
<1> QED
  BY <1>1, <1>2 DEF SessionInvariant, TypeOK, Control, NeverDiscarded, Rebuilds, Placed, At

(* The record is closed, or is stale or gone. *)
LEMMA CloseMarkKeeps ==
    ASSUME SessionInvariant, NEW t \in Tasks, CloseMark(t)
    PROVE  SessionInvariant'
<1>1. /\ record' \in Record
      /\ End(t)
      /\ cache' = cache /\ activity' = activity /\ service' = service
      /\ dead' = dead /\ known' = known
  BY RecordsKept DEF CloseMark, SessionInvariant, TypeOK
<1> QED
  BY <1>1, EndKeepsControl
     DEF SessionInvariant, TypeOK, Control, NeverDiscarded, Rebuilds, Placed, At

-----------------------------------------------------------------------------
(* What begins, time and failures.                                           *)

(* A task begins with no lock, and with a handle only to touch its session. *)
LEMMA BeginKeeps ==
    ASSUME SessionInvariant, NEW t \in Tasks, NEW i \in Instances,
           Lookup(t, i) \/ Close(t, i) \/ Reap(t, i)
    PROVE  SessionInvariant'
<1>1. /\ record' = record /\ cache' = cache /\ activity' = activity /\ lock' = lock
      /\ service' = service /\ dead' = dead /\ known' = known /\ At(t, "idle")
  BY DEF Lookup, Close, Reap, Begin
<1>2. \E step \in {"touch", "acquire", "close_cache"},
         h \in Handles \union {NoHandle}, r \in BOOLEAN :
        task' = [task EXCEPT ![t] = [pc |-> step, at |-> i, handle |-> h, reaper |-> r]]
  <2>1. NoHandle \in Handles \union {NoHandle} /\ cache[i] \in Handles \union {NoHandle}
    BY DEF SessionInvariant, TypeOK
  <2> QED
    BY <2>1 DEF Lookup, Close, Reap, Begin
<1>3. Control' /\ (\A u \in Tasks : Rebuilds(u)' => u # t /\ task'[u] = task[u])
  BY <1>1, <1>2, BeginKeepsControl DEF Steps, CreateSteps, RehydrateSteps, HandleSteps
<1> QED
  BY <1>1, <1>3
     DEF SessionInvariant, TypeOK, Control, NeverDiscarded, Rebuilds, Placed, At

(* A service that ends leaves the session to remove_session. *)
LEMMA ServiceEndKeeps ==
    ASSUME SessionInvariant, NEW t \in Tasks, NEW i \in Instances, NEW h \in Handles,
           ServiceEnd(t, i, h)
    PROVE  SessionInvariant'
<1>1. /\ record' = record /\ cache' = cache /\ activity' = activity /\ lock' = lock
      /\ known' = known /\ At(t, "idle")
      /\ service' \in [Instances -> SUBSET Handles] /\ dead' \in SUBSET Handles
      /\ task' = [task EXCEPT ![t] =
                    [pc |-> "drop_cache", at |-> i, handle |-> NoHandle, reaper |-> FALSE]]
  BY DEF ServiceEnd, Begin, SessionInvariant, TypeOK
<1>2. Control' /\ (\A u \in Tasks : Rebuilds(u)' => u # t /\ task'[u] = task[u])
  BY <1>1, BeginKeepsControl DEF Steps, CreateSteps, RehydrateSteps, HandleSteps
<1> QED
  BY <1>1, <1>2
     DEF SessionInvariant, TypeOK, Control, NeverDiscarded, Rebuilds, Placed, At

(* Time makes records and uses older. *)
LEMMA TickKeeps ==
    ASSUME SessionInvariant, Tick
    PROVE  SessionInvariant'
<1>1. record' \in Record
  <2>1. CASE Fresh
    <3>1. record.age + 1 \in Ages
      BY <2>1, McpAssumption DEF Fresh, SessionInvariant, TypeOK, Record, Ages
    <3> QED
      BY <2>1, <3>1 DEF Tick, SessionInvariant, TypeOK, Record
  <2>2. CASE ~Fresh
    BY <2>2 DEF Tick, SessionInvariant, TypeOK
  <2> QED
    BY <2>1, <2>2
<1>2. activity' \in [Instances -> Ages \union {NoEntry}]
  BY McpAssumption DEF Tick, SessionInvariant, TypeOK, Ages, NoEntry
<1>3. TypeOK'
  BY <1>1, <1>2 DEF Tick, SessionInvariant, TypeOK
<1>4. Placed' /\ CreatedOnce' /\ LockHeld' /\ NeverDiscarded'
  BY DEF Tick, SessionInvariant, Placed, CreatedOnce, LockHeld, NeverDiscarded, At
<1> QED
  BY <1>3, <1>4 DEF SessionInvariant

(* A stale record goes. *)
LEMMA CleanupKeeps ==
    ASSUME SessionInvariant, Cleanup
    PROVE  SessionInvariant'
<1>1. record' \in Record
  BY RecordsKept DEF Cleanup, SessionInvariant, TypeOK
<1> QED
  BY <1>1
     DEF Cleanup, SessionInvariant, TypeOK, Placed, CreatedOnce, LockHeld,
         NeverDiscarded, At

(* A failed statement or initialize ends the task. *)
LEMMA FailsKeeps ==
    ASSUME SessionInvariant, NEW t \in Tasks, DbError(t) \/ InitializeError(t)
    PROVE  SessionInvariant'
<1>1. /\ End(t)
      /\ record' = record /\ cache' = cache /\ activity' = activity
      /\ service' = service /\ dead' = dead /\ known' = known
  BY DEF DbError, InitializeError, Fails
<1> QED
  BY <1>1, EndKeepsControl
     DEF SessionInvariant, TypeOK, Control, NeverDiscarded, Rebuilds, Placed, At

(* The tasks and the lock of an instance end with it. *)
LEMMA CrashKeeps ==
    ASSUME SessionInvariant, NEW i \in Instances, Crash(i)
    PROVE  SessionInvariant'
<1>1. TypeOK'
  BY DEF Crash, SessionInvariant, TypeOK, Task, Idle, Steps, RehydrateSteps, CreateSteps,
         HandleSteps, Handles, NoHandle, NoEntry
<1>2. \A t \in Tasks : task'[t] = Idle \/ (task'[t] = task[t] /\ task[t].at # i)
  BY DEF Crash
<1>3. Placed' /\ CreatedOnce'
  BY <1>2
     DEF Crash, SessionInvariant, Placed, CreatedOnce, At, Idle, CreateSteps, HandleSteps
<1>4. LockHeld'
  BY <1>2, McpAssumption
     DEF Crash, SessionInvariant, TypeOK, LockHeld, Idle, Task, RehydrateSteps
<1>5. NeverDiscarded'
  BY <1>2
     DEF Crash, SessionInvariant, TypeOK, Placed, CreatedOnce, LockHeld, NeverDiscarded,
         At, Idle, Task
<1> QED
  BY <1>1, <1>3, <1>4, <1>5 DEF SessionInvariant

-----------------------------------------------------------------------------
(* The theorems.                                                             *)

LEMMA InitKeeps == Init => SessionInvariant
<1> SUFFICES ASSUME NEW t \in Tasks, NEW i \in Instances,
                    cache = [j \in Instances |-> IF j = i THEN 1 ELSE NoHandle],
                    activity = [j \in Instances |-> IF j = i THEN 0 ELSE NoEntry],
                    lock = [j \in Instances |-> Nobody],
                    service = [j \in Instances |-> {}],
                    record = NoRecord, dead = {}, known = FALSE,
                    task = [u \in Tasks |->
                              IF u = t THEN [Idle EXCEPT !.pc = "create_row", !.at = i, !.handle = 1]
                              ELSE Idle]
             PROVE  SessionInvariant
  BY DEF Init
<1>1. 1 \in Handles /\ 0 \in Ages /\ Nobody \notin Tasks
  BY McpAssumption DEF Handles, Ages
<1>2. /\ task \in [Tasks -> Task]
      /\ task[t].pc = "create_row" /\ task[t].at = i
      /\ \A u \in Tasks \ {t} : task[u].pc = "idle"
  BY <1>1 DEF Task, Idle, Steps, CreateSteps
<1>3. TypeOK
  BY <1>1, <1>2 DEF TypeOK, Record, NoRecord
<1>4. Placed /\ CreatedOnce /\ LockHeld /\ NeverDiscarded
  BY <1>1, <1>2
     DEF Placed, CreatedOnce, LockHeld, NeverDiscarded, At, CreateSteps, HandleSteps, RehydrateSteps
<1> QED
  BY <1>3, <1>4 DEF SessionInvariant

LEMMA StepKeeps ==
    ASSUME SessionInvariant, [Next]_vars
    PROVE  SessionInvariant'
<1>1. ASSUME NEW t \in Tasks, NEW i \in Instances,
             \/ Lookup(t, i) \/ Close(t, i) \/ Reap(t, i)
             \/ \E h \in Handles : ServiceEnd(t, i, h)
      PROVE  SessionInvariant'
  BY <1>1, BeginKeeps, ServiceEndKeeps
<1>2. ASSUME NEW t \in Tasks, TaskStep(t)
      PROVE  SessionInvariant'
  BY <1>2, CreateRowKeeps, InitLookupKeeps, InitHandleKeeps, InitPersistKeeps, InitTouchKeeps,
     TouchKeeps, SeenKeeps, AcquireKeeps, LoadKeeps, InsertKeeps, InsertTouchKeeps,
     ReplayKeeps, IncrementKeeps, LastTouchKeeps, UndoCacheKeeps, UndoActivityKeeps,
     UndoHandleKeeps, DropCacheKeeps, DropActivityKeeps, CloseCacheKeeps,
     CloseActivityKeeps, CloseHandleKeeps, CloseMarkKeeps
     DEF TaskStep
<1>3. CASE Tick \/ Cleanup \/ Fault
  BY <1>3, TickKeeps, CleanupKeeps, FailsKeeps, CrashKeeps DEF Fault
<1>4. CASE UNCHANGED vars
  BY <1>4
     DEF vars, SessionInvariant, TypeOK, Placed, CreatedOnce, LockHeld, NeverDiscarded,
         At
<1> QED
  BY <1>1, <1>2, <1>3, <1>4 DEF Next

(* The invariant holds for any number of instances, tasks and handles, any   *)
(* timeout and any faults.                                                   *)
THEOREM SessionInvariantHolds == Spec => []SessionInvariant
<1>1. SessionInvariant /\ [Next]_vars => SessionInvariant'
  BY StepKeeps
<1> QED
  BY InitKeeps, <1>1, PTL DEF Spec

(* get_or_rehydrate_session throws away no handle it has made. *)
THEOREM HandleNeverDiscarded == Spec => []NeverDiscarded
<1>1. SessionInvariant => NeverDiscarded
  BY DEF SessionInvariant
<1> QED
  BY SessionInvariantHolds, <1>1, PTL

(* A step writes the record through a statement that finds it fresh, and     *)
(* only the creation of the session, before anybody knows of it, makes or    *)
(* opens a record.                                                           *)
LEMMA StepKeepsClosed ==
    ASSUME SessionInvariant, Next, known, record.closed \/ ~record.exists
    PROVE  record'.closed \/ ~record'.exists
<1>1. record \in Record
  BY DEF SessionInvariant, TypeOK
<1>2. ASSUME NEW t \in Tasks, NEW i \in Instances,
             \/ Lookup(t, i) \/ Close(t, i) \/ Reap(t, i)
             \/ \E h \in Handles : ServiceEnd(t, i, h)
      PROVE  record'.closed \/ ~record'.exists
  BY <1>2 DEF Lookup, Close, Reap, ServiceEnd
<1>3. ASSUME NEW t \in Tasks, TaskStep(t)
      PROVE  record'.closed \/ ~record'.exists
  <2>1. ~CreateRow(t) /\ ~InitPersist(t)
    BY DEF CreateRow, InitPersist, SessionInvariant, CreatedOnce, CreateSteps, At
  <2>2. CASE Seen(t)
    BY <1>1, <2>2 DEF Seen, LastSeenUpdated, Record
  <2>3. CASE CloseMark(t)
    BY <1>1, <2>3 DEF CloseMark, MarkedClosed, Record
  <2>4. CASE Increment(t)
    BY <2>4 DEF Increment, Live
  <2>5. CASE /\ ~Seen(t) /\ ~CloseMark(t) /\ ~Increment(t)
    BY <1>3, <2>1, <2>5
       DEF TaskStep, InitLookup, InitHandle, InitTouch, Touch, Acquire, Load, Insert,
           InsertTouch, Replay, LastTouch, UndoCache, UndoActivity, UndoHandle,
           DropCache, DropActivity, CloseCache, CloseActivity, CloseHandle,
           RemoveHandle, RemoveActivity
  <2> QED
    BY <2>2, <2>3, <2>4, <2>5
<1>4. CASE Tick
  BY <1>1, <1>4 DEF Tick, Record
<1>5. CASE Cleanup
  BY <1>5 DEF Cleanup, NoRecord
<1>6. CASE Fault
  BY <1>6 DEF Fault, DbError, InitializeError, Fails, Crash
<1> QED
  BY <1>2, <1>3, <1>4, <1>5, <1>6 DEF Next

(* No late statement of any instance revives a session that is closed or     *)
(* whose record is gone.                                                     *)
THEOREM ClosedStaysClosed == Spec => ClosedIsFinal
<1>1. /\ SessionInvariant
      /\ [Next]_vars
      => [known /\ (record.closed \/ ~record.exists)
            => (record'.closed \/ ~record'.exists)]_vars
  BY StepKeepsClosed
<1> QED
  BY SessionInvariantHolds, <1>1, PTL DEF Spec, ClosedIsFinal
=============================================================================
