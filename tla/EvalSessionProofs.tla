------------------------- MODULE EvalSessionProofs -------------------------
(***************************************************************************)
(* Proofs about EvalSession, for every number of modalities, questions,    *)
(* instances and workers and every choice of requests and faults.          *)
(***************************************************************************)
EXTENDS EvalSessionProperties, FiniteSetTheorems, TLAPS

-----------------------------------------------------------------------------
(* Index arithmetic.                                                         *)

(* The plan has at least one question, and its length is a number. *)
LEMMA PlanLength ==
    /\ PerModality \in Nat \ {0}
    /\ TotalItems \in Nat \ {0}
<1>1. PerModality \in Nat \ {0}
  BY FlowAssumption DEF PerModality
<1>2. NModalities * PerModality >= 1
  BY <1>1, FlowAssumption
<1>3. QED
  BY <1>1, <1>2, FlowAssumption DEF TotalItems

(* A question belongs to the block its index falls in. *)
LEMMA BlockOfItem ==
    ASSUME NEW item \in Items
    PROVE  /\ ModalityOf(item) \in Modalities
           /\ ModalityOf(item) * PerModality <= item
           /\ item < ModalityOf(item) * PerModality + PerModality
           /\ ModalityOf(item) * PerModality + PerModality <= TotalItems
<1>. DEFINE q == item \div PerModality
<1>1. item \in Nat /\ item < NModalities * PerModality
  BY PlanLength DEF Items, TotalItems
<1>2. q \in Nat /\ q * PerModality <= item /\ item < q * PerModality + PerModality
  BY <1>1, PlanLength
<1>3. q < NModalities
  <2>1. SUFFICES ASSUME q >= NModalities PROVE FALSE
    BY <1>2, FlowAssumption
  <2>2. q * PerModality >= NModalities * PerModality
    BY <2>1, <1>2, PlanLength, FlowAssumption
  <2>3. QED
    BY <2>2, <1>1, <1>2, PlanLength, FlowAssumption
<1>4. (q + 1) * PerModality <= NModalities * PerModality
  BY <1>2, <1>3, PlanLength, FlowAssumption
<1>5. (q + 1) * PerModality = q * PerModality + PerModality
  BY <1>2, PlanLength
<1>6. QED
  BY <1>2, <1>3, <1>4, <1>5, FlowAssumption DEF ModalityOf, Modalities, TotalItems

(* Skipping moves the cursor forward, over questions of the plan only. *)
LEMMA SkipMovesForward ==
    ASSUME NEW item \in Items
    PROVE  /\ NextModalityStart(item) \in Cursors
           /\ item < NextModalityStart(item)
           /\ SkippedIndices(item) = {k \in Items : item <= k /\ k < NextModalityStart(item)}
<1>. DEFINE end == ModalityOf(item) * PerModality + PerModality
<1>1. end \in Nat /\ item < end /\ end <= TotalItems
  BY BlockOfItem, PlanLength, FlowAssumption DEF Modalities
<1>2. NextModalityStart(item) = end
  BY <1>1, PlanLength DEF NextModalityStart
<1>3. QED
  BY <1>1, <1>2, PlanLength DEF Cursors, Items, SkippedIndices

-----------------------------------------------------------------------------
(* The parts of the inductive invariant.                                     *)

(* What it says of the row and the answers alone. *)
RowInvariant ==
    /\ row \in Row
    /\ answered \in SUBSET Items
    /\ ProgressAccounted
    /\ CompletedAtEnd
    /\ MarkersReached

(* The row only grows: this is all that a waiting handler relies on. *)
RowGrows ==
    /\ row.next <= row'.next
    /\ row.completed => row'.completed
    /\ row.skipped \subseteq row'.skipped
    /\ answered \subseteq answered'

(* A cached task is used for its own question only. *)
LEMMA PlanForItem ==
    ASSUME NEW session, NEW item
    PROVE  PlanFor(session, item) = item
BY DEF PlanFor

(* Drawing a page changes nothing but the cached task. *)
LEMMA CachedSession ==
    ASSUME NEW session \in RuntimeSession
    PROVE  /\ Cached(session) \in RuntimeSession
           /\ Cached(session).loaded = session.loaded
           /\ Cached(session).index = session.index
           /\ Cached(session).awaiting = session.awaiting
           /\ Cached(session).completed = session.completed
<1>1. CASE session.index < TotalItems
  <2>1. session.index \in Items
    BY <1>1, PlanLength DEF RuntimeSession, Cursors, Items
  <2>2. Cached(session) = [session EXCEPT !.cached = session.index]
    BY <1>1, PlanForItem DEF Cached
  <2>3. QED
    BY <2>1, <2>2 DEF RuntimeSession
<1>2. CASE ~(session.index < TotalItems)
  BY <1>2 DEF Cached
<1>3. QED
  BY <1>1, <1>2

LEMMA RowUnchanged ==
    ASSUME RowInvariant, UNCHANGED <<row, answered>>
    PROVE  RowInvariant' /\ RowGrows
BY PlanLength DEF RowInvariant, RowGrows, ProgressAccounted, CompletedAtEnd, MarkersReached, Row, Cursors

(* Every statement leaves a good row behind and only adds to it. *)
LEMMA ExecuteKeepsRow ==
    ASSUME InductiveInvariant, NEW w \in Workers,
           handler[w].pc \in WriteSteps, Execute(handler[w])
    PROVE  RowInvariant' /\ RowGrows
<1>. DEFINE r == handler[w]
<1>1. /\ row \in Row
      /\ answered \in SUBSET Items
      /\ row.next \in Cursors
      /\ row.tools \subseteq Items
      /\ row.skipped \subseteq Items
      /\ row.dataRoute \subseteq Items
      /\ row.dataMcp \subseteq Items
      /\ row.completed \in BOOLEAN
      /\ row.score \in [Modalities -> [correct : Nat, wrong : Nat]]
  BY DEF InductiveInvariant, TypeOK, Row
<1>2. /\ ProgressAccounted
      /\ CompletedAtEnd
      /\ MarkersReached
      /\ HandlerKnows(w)
      /\ Hits(r)
  BY DEF InductiveInvariant, Execute
<1>3. TotalItems \in Nat \ {0}
  BY PlanLength
<1>4. CASE r.pc \in AnswerSteps
  <2>1. row' = RecordAnswer(r) /\ answered' = answered \union {r.item}
    BY <1>4 DEF Execute, AnswerSteps, RatingSteps, MarkSteps
  <2>2. r.item \in Items /\ r.plan = r.item /\ row.next = r.item /\ ~row.completed
    BY <1>2, <1>4 DEF HandlerKnows, Hits
  <2>3. /\ row' = [row EXCEPT !.next = r.item + 1, !.score = row'.score]
        /\ row'.score \in [Modalities -> [correct : Nat, wrong : Nat]]
    <3>1. row'.score = [row.score EXCEPT ![ModalityOf(r.plan)] = Credit(@, r.plan, r.right)]
      BY <2>1, <1>1 DEF RecordAnswer, Row
    <3>2. Credit(row.score[ModalityOf(r.plan)], r.plan, r.right)
             \in [correct : Nat, wrong : Nat]
      BY <1>1, <2>2, BlockOfItem DEF Credit
    <3>3. row' = [row EXCEPT !.next = r.item + 1, !.score = row'.score]
      BY <2>1, <1>1 DEF RecordAnswer, Row
    <3>4. row'.score \in [Modalities -> [correct : Nat, wrong : Nat]]
      BY <3>1, <3>2, <1>1
    <3>5. QED
      BY <3>3, <3>4
  <2>4. r.item + 1 \in Cursors
    BY <2>2, <1>3 DEF Items, Cursors
  <2>5. row' \in Row /\ answered' \in SUBSET Items
    BY <1>1, <2>1, <2>2, <2>3, <2>4 DEF Row
  <2>6. /\ row'.next = r.item + 1
        /\ row'.completed = row.completed
        /\ row'.skipped = row.skipped
        /\ row'.tools = row.tools
        /\ row'.dataRoute = row.dataRoute
        /\ row'.dataMcp = row.dataMcp
    BY <1>1, <2>3 DEF Row
  <2>7. ProgressAccounted'
    BY <1>1, <1>2, <1>3, <2>1, <2>2, <2>6 DEF ProgressAccounted, Items
  <2>8. CompletedAtEnd'
    BY <2>2, <2>6 DEF CompletedAtEnd
  <2>9. MarkersReached'
    BY <1>2, <1>3, <2>1, <2>2, <2>6 DEF MarkersReached, Items
  <2>10. RowGrows
    BY <1>3, <2>1, <2>2, <2>6 DEF RowGrows, Items
  <2>11. QED
    BY <2>5, <2>7, <2>8, <2>9, <2>10 DEF RowInvariant
<1>5. CASE r.pc = "skip_write"
  <2>1. row' = AdvanceCursor(r) /\ answered' = answered
    BY <1>5 DEF Execute, AnswerSteps, RatingSteps, MarkSteps
  <2>2. r.item \in Items /\ row.next = r.item /\ ~row.completed
          /\ SkippedIndices(r.item) \subseteq row.skipped
    BY <1>2, <1>5 DEF HandlerKnows, Hits
  <2>3. /\ NextModalityStart(r.item) \in Cursors
        /\ r.item < NextModalityStart(r.item)
        /\ SkippedIndices(r.item) = {k \in Items : r.item <= k /\ k < NextModalityStart(r.item)}
    BY <2>2, SkipMovesForward
  <2>4. /\ row' \in Row
        /\ row'.next = NextModalityStart(r.item)
        /\ row'.completed = row.completed
        /\ row'.skipped = row.skipped
        /\ row'.tools = row.tools
        /\ row'.dataRoute = row.dataRoute
        /\ row'.dataMcp = row.dataMcp
    BY <1>1, <2>1, <2>3 DEF AdvanceCursor, Row
  <2>5. ProgressAccounted'
    <3>1. ASSUME NEW item \in Items, item < row'.next
          PROVE  item \in answered' \union row'.skipped
      BY <1>2, <2>1, <2>2, <2>3, <2>4, <3>1 DEF ProgressAccounted, Items, Cursors
    <3>2. ASSUME NEW item \in answered'
          PROVE  item < row'.next
      BY <1>1, <1>2, <2>1, <2>2, <2>3, <2>4, <3>2 DEF ProgressAccounted, Items, Cursors
    <3>3. QED
      BY <3>1, <3>2 DEF ProgressAccounted
  <2>6. CompletedAtEnd'
    BY <2>2, <2>4 DEF CompletedAtEnd
  <2>7. MarkersReached'
    BY <1>2, <1>3, <2>1, <2>2, <2>3, <2>4 DEF MarkersReached, Items, Cursors
  <2>8. RowGrows
    BY <1>3, <2>1, <2>2, <2>3, <2>4 DEF RowGrows, Items, Cursors
  <2>9. QED
    BY <1>1, <2>1, <2>4, <2>5, <2>6, <2>7, <2>8 DEF RowInvariant
<1>6. CASE r.pc \in RatingSteps
  <2>1. row' = StoreRatings /\ answered' = answered
    BY <1>6 DEF Execute, AnswerSteps, RatingSteps, MarkSteps
  <2>2. row.next = TotalItems
    BY <1>2, <1>6 DEF HandlerKnows
  <2>3. /\ row' \in Row
        /\ row'.next = row.next
        /\ row'.completed
        /\ row'.skipped = row.skipped
        /\ row'.tools = row.tools
        /\ row'.dataRoute = row.dataRoute
        /\ row'.dataMcp = row.dataMcp
    BY <1>1, <2>1 DEF StoreRatings, Row
  <2>4. QED
    BY <1>1, <1>2, <1>3, <2>1, <2>2, <2>3
       DEF RowInvariant, RowGrows, ProgressAccounted, CompletedAtEnd, MarkersReached
<1>7. CASE r.pc \in MarkSteps
  <2>1. row' = AppendMarkers(r) /\ answered' = answered
    BY <1>7 DEF Execute, AnswerSteps, RatingSteps, MarkSteps
  <2>2. r.item \in Items /\ r.item <= row.next
    BY <1>2, <1>7 DEF HandlerKnows
  <2>3. SkippedIndices(r.item) \subseteq Items
    BY <2>2, SkipMovesForward
  <2>4. r.pc \in {"submit_mark", "mcp_mark"} => r.item \in answered
    BY <1>2 DEF HandlerKnows
  <2>5. /\ row' \in Row
        /\ row'.next = row.next
        /\ row'.completed = row.completed
        /\ row.skipped \subseteq row'.skipped
        /\ row'.tools \subseteq row.tools \union
              (IF r.pc \in {"submit_mark", "mcp_mark"} THEN {r.item} ELSE {})
        /\ row'.dataRoute \subseteq row.dataRoute \union {r.item}
        /\ row'.dataMcp \subseteq row.dataMcp \union {r.item}
    <3>1. CASE r.pc \in {"submit_mark", "mcp_mark"}
      <4>1. row' = [row EXCEPT !.tools = @ \union {r.item}]
        BY <2>1, <3>1 DEF AppendMarkers
      <4>2. QED
        BY <4>1, <1>1, <2>2, <3>1 DEF Row
    <3>2. CASE r.pc = "skip_mark"
      <4>1. row' = [row EXCEPT !.skipped = @ \union SkippedIndices(r.item)]
        BY <2>1, <3>2 DEF AppendMarkers
      <4>2. QED
        BY <4>1, <1>1, <2>3, <3>2 DEF Row
    <3>3. CASE r.pc = "data_mark"
      <4>1. row' = [row EXCEPT !.dataRoute = @ \union {r.item}]
        BY <2>1, <3>3 DEF AppendMarkers
      <4>2. QED
        BY <4>1, <1>1, <2>2, <3>3 DEF Row
    <3>4. CASE r.pc = "mcp_data_mark"
      <4>1. row' = [row EXCEPT !.dataMcp = @ \union {r.item}]
        BY <2>1, <3>4 DEF AppendMarkers
      <4>2. QED
        BY <4>1, <1>1, <2>2, <3>4 DEF Row
    <3>5. QED
      BY <1>7, <3>1, <3>2, <3>3, <3>4 DEF MarkSteps
  <2>6. r.item \in 0 .. row.next
    BY <2>2, <1>1, <1>3 DEF Items, Cursors
  <2>7. ProgressAccounted' /\ CompletedAtEnd'
    BY <1>2, <2>1, <2>5 DEF ProgressAccounted, CompletedAtEnd
  <2>8. MarkersReached'
    BY <1>2, <2>1, <2>4, <2>5, <2>6 DEF MarkersReached
  <2>9. RowGrows
    BY <1>1, <1>3, <2>1, <2>5 DEF RowGrows, Cursors
  <2>10. QED
    BY <1>1, <2>1, <2>5, <2>7, <2>8, <2>9 DEF RowInvariant
<1>8. QED
  BY <1>4, <1>5, <1>6, <1>7 DEF WriteSteps

-----------------------------------------------------------------------------
(* Steps of one worker.                                                      *)

(* The row a good invariant speaks of, and how far its cursor goes. *)
LEMMA RowOfInvariant ==
    ASSUME InductiveInvariant
    PROVE  RowInvariant /\ row.next \in Cursors /\ row.completed \in BOOLEAN
BY DEF InductiveInvariant, RowInvariant, TypeOK, Row

(* A waiting handler still knows what it knew. *)
LEMMA HandlerStays ==
    ASSUME RowInvariant, RowInvariant', RowGrows,
           NEW v \in Workers, handler'[v] = handler[v],
           handler[v] \in Handler, HandlerKnows(v)
    PROVE  HandlerKnows(v)'
<1>1. row.next \in Cursors /\ row'.next \in Cursors
  BY DEF RowInvariant, Row
<1>2. handler[v].item \in Cursors \union {NoItem}
  BY DEF Handler
<1>3. TotalItems \in Nat
  BY PlanLength
<1>4. QED
  BY <1>1, <1>2, <1>3
     DEF HandlerKnows, RowGrows, Cursors, Items, NoItem, RatingSteps, AnswerSteps

(* An instance whose runtime session does not change stays behind the row. *)
LEMMA RuntimeStays ==
    ASSUME RowInvariant, RowInvariant', RowGrows,
           NEW i \in Instances, runtime'[i] = runtime[i],
           runtime[i] \in RuntimeSession, RuntimeBehind(i)
    PROVE  RuntimeBehind(i)'
<1>1. row.next \in Cursors /\ row'.next \in Cursors
  BY DEF RowInvariant, Row
<1>2. runtime[i].index \in Cursors
  BY DEF RuntimeSession
<1>3. TotalItems \in Nat
  BY PlanLength
<1>4. QED
  BY <1>1, <1>2, <1>3 DEF RuntimeBehind, RowGrows, Cursors

(* What is left to show of a step of worker w: the others keep their         *)
(* knowledge because the row only grows, and their cursors because nobody    *)
(* touches an instance whose mutex somebody else holds.                      *)
LEMMA WorkerStep ==
    ASSUME InductiveInvariant, RowInvariant', RowGrows,
           NEW w \in Workers,
           handler' = [handler EXCEPT ![w] = handler'[w]],
           handler'[w] \in Handler,
           runtime' \in [Instances -> RuntimeSession],
           lock' \in [Instances -> Workers \union {Nobody}],
           \A j \in Instances : lock[j] \notin {w, Nobody} =>
                lock'[j] = lock[j] /\ runtime'[j] = runtime[j],
           \A j \in Instances : RuntimeBehind(j)',
           HandlerKnows(w)', CursorProtected(w)'
    PROVE  InductiveInvariant'
<1>1. RowInvariant /\ handler \in [Workers -> Handler]
  BY RowOfInvariant DEF InductiveInvariant, TypeOK
<1>2. ASSUME NEW v \in Workers, v # w
      PROVE  HandlerKnows(v)' /\ CursorProtected(v)'
  <2>1. handler'[v] = handler[v] /\ handler[v] \in Handler
    BY <1>1, <1>2
  <2>2. HandlerKnows(v) /\ CursorProtected(v)
    BY DEF InductiveInvariant, LockProtectsCursor
  <2>3. HandlerKnows(v)'
    BY <1>1, <2>1, <2>2, HandlerStays
  <2>4. CursorProtected(v)'
    <3>1. SUFFICES ASSUME handler[v].attached, handler[v].pc \in LockedSteps
                   PROVE  CursorProtected(v)'
      BY <2>1 DEF CursorProtected
    <3>2. handler[v].at \in Instances
      BY <2>2, <3>1 DEF HandlerKnows, LockedSteps
    <3>3. lock[handler[v].at] = v
      BY <2>2, <3>1 DEF CursorProtected
    <3>4. v # Nobody
      BY SessionAssumption
    <3>5. /\ lock'[handler[v].at] = lock[handler[v].at]
          /\ runtime'[handler[v].at] = runtime[handler[v].at]
      BY <3>2, <3>3, <3>4, <1>2
    <3>6. QED
      BY <2>1, <2>2, <3>5 DEF CursorProtected, Active
  <2>5. QED
    BY <2>3, <2>4
<1>3. \A v \in Workers : HandlerKnows(v)' /\ CursorProtected(v)'
  BY <1>2
<1>4. TypeOK'
  BY <1>1 DEF TypeOK, RowInvariant
<1>5. QED
  BY <1>3, <1>4 DEF InductiveInvariant, RowInvariant, RuntimeNeverLeads, LockProtectsCursor

(* An idle worker's record is well-typed. *)
LEMMA IdleTyped == Idle \in Handler
BY PlanLength DEF Idle, Handler, Steps, NoItem

(* An idle worker knows nothing and protects nothing. *)
LEMMA IdleKnowsNothing ==
    ASSUME NEW w \in Workers, handler'[w] = Idle
    PROVE  Idle \in Handler /\ HandlerKnows(w)' /\ CursorProtected(w)'
<1>1. Idle \in Handler
  BY IdleTyped
<1>2. HandlerKnows(w)' /\ CursorProtected(w)'
  BY DEF Idle, HandlerKnows, RouteReads, CursorProtected, AnswerSteps, MarkSteps, RatingSteps,
         WriteSteps, LockedSteps
<1>3. QED
  BY <1>1, <1>2

(* A handler returns: only the row and its own instance may have changed. *)
LEMMA ReturnStep ==
    ASSUME InductiveInvariant, RowInvariant', RowGrows,
           NEW w \in Workers, Return(w),
           runtime' \in [Instances -> RuntimeSession],
           \A j \in Instances : lock[j] \notin {w, Nobody} => runtime'[j] = runtime[j],
           \A j \in Instances : RuntimeBehind(j)'
    PROVE  InductiveInvariant'
<1>1. /\ handler \in [Workers -> Handler]
      /\ lock \in [Instances -> Workers \union {Nobody}]
  BY DEF InductiveInvariant, TypeOK
<1>2. /\ handler' = [handler EXCEPT ![w] = Idle]
      /\ lock' = [i \in Instances |-> IF lock[i] = w THEN Nobody ELSE lock[i]]
  BY DEF Return, Unlocked
<1>3. handler'[w] = Idle /\ handler' = [handler EXCEPT ![w] = handler'[w]]
  BY <1>1, <1>2
<1>4. lock' \in [Instances -> Workers \union {Nobody}]
  BY <1>1, <1>2
<1>5. \A j \in Instances : lock[j] \notin {w, Nobody} =>
           lock'[j] = lock[j] /\ runtime'[j] = runtime[j]
  BY <1>2
<1>6. handler'[w] \in Handler /\ HandlerKnows(w)' /\ CursorProtected(w)'
  BY <1>3, IdleKnowsNothing
<1>7. QED
  BY <1>3, <1>4, <1>5, <1>6, WorkerStep

(* Every runtime session stays behind when none changes. *)
LEMMA RuntimesStay ==
    ASSUME InductiveInvariant, RowInvariant', RowGrows, UNCHANGED runtime
    PROVE  /\ runtime' \in [Instances -> RuntimeSession]
           /\ \A j \in Instances : RuntimeBehind(j)'
<1>1. /\ RowInvariant
      /\ runtime \in [Instances -> RuntimeSession]
      /\ \A j \in Instances : RuntimeBehind(j)
  BY RowOfInvariant DEF InductiveInvariant, TypeOK, RuntimeNeverLeads
<1>2. ASSUME NEW j \in Instances
      PROVE  RuntimeBehind(j)'
  BY <1>1, RuntimeStays
<1>3. QED
  BY <1>1, <1>2

LEMMA RefuseStep ==
    ASSUME InductiveInvariant, NEW w \in Workers, Refuse(w)
    PROVE  InductiveInvariant'
<1>1. Return(w) /\ UNCHANGED runtime /\ UNCHANGED <<row, answered>>
  BY DEF Refuse
<1>2. RowInvariant' /\ RowGrows
  BY <1>1, RowOfInvariant, RowUnchanged
<1>3. QED
  BY <1>1, <1>2, RuntimesStay, ReturnStep

(* One runtime session changes, that of an instance nobody else has locked. *)
LEMMA OneRuntimeChanges ==
    ASSUME InductiveInvariant, RowInvariant', RowGrows, NEW w \in Workers,
           NEW i \in Instances, NEW session \in RuntimeSession,
           lock[i] \in {w, Nobody},
           runtime' = [runtime EXCEPT ![i] = session],
           RuntimeBehind(i)'
    PROVE  /\ runtime' \in [Instances -> RuntimeSession]
           /\ \A j \in Instances : RuntimeBehind(j)'
           /\ \A j \in Instances : lock[j] \notin {w, Nobody} => runtime'[j] = runtime[j]
<1>1. /\ RowInvariant
      /\ runtime \in [Instances -> RuntimeSession]
      /\ \A j \in Instances : RuntimeBehind(j)
  BY RowOfInvariant DEF InductiveInvariant, TypeOK, RuntimeNeverLeads
<1>2. ASSUME NEW j \in Instances, j # i
      PROVE  RuntimeBehind(j)'
  BY <1>1, <1>2, RuntimeStays
<1>3. QED
  BY <1>1, <1>2

(* A worker goes on and holds, or takes, the mutex of at most one instance. *)
LEMMA ContinueStep ==
    ASSUME InductiveInvariant, RowInvariant', RowGrows, NEW w \in Workers,
           NEW r \in Handler, handler' = [handler EXCEPT ![w] = r],
           \/ UNCHANGED lock
           \/ \E i \in Instances : MutexFree(i) /\ lock' = [lock EXCEPT ![i] = w],
           runtime' \in [Instances -> RuntimeSession],
           \A j \in Instances : lock[j] \notin {w, Nobody} => runtime'[j] = runtime[j],
           \A j \in Instances : RuntimeBehind(j)',
           HandlerKnows(w)', CursorProtected(w)'
    PROVE  InductiveInvariant'
<1>1. /\ handler \in [Workers -> Handler]
      /\ lock \in [Instances -> Workers \union {Nobody}]
  BY DEF InductiveInvariant, TypeOK
<1>2. handler'[w] = r /\ handler' = [handler EXCEPT ![w] = handler'[w]]
  BY <1>1
<1>3. /\ lock' \in [Instances -> Workers \union {Nobody}]
      /\ \A j \in Instances : lock[j] \notin {w, Nobody} => lock'[j] = lock[j]
  BY <1>1 DEF MutexFree
<1>4. QED
  BY <1>2, <1>3, WorkerStep

(* A worker goes on while the row and the memory stay as they are. *)
LEMMA QuietStep ==
    ASSUME InductiveInvariant, UNCHANGED <<row, answered>>, UNCHANGED runtime,
           NEW w \in Workers,
           NEW r \in Handler, handler' = [handler EXCEPT ![w] = r],
           \/ UNCHANGED lock
           \/ \E i \in Instances : MutexFree(i) /\ lock' = [lock EXCEPT ![i] = w],
           HandlerKnows(w)', CursorProtected(w)'
    PROVE  InductiveInvariant'
<1>1. RowInvariant' /\ RowGrows
  BY RowOfInvariant, RowUnchanged
<1>2. /\ runtime' \in [Instances -> RuntimeSession]
      /\ \A j \in Instances : RuntimeBehind(j)'
  BY <1>1, RuntimesStay
<1>3. QED
  BY <1>1, <1>2, ContinueStep

(* What the invariant says of the request in progress. *)
LEMMA HandlerFacts ==
    ASSUME InductiveInvariant, NEW w \in Workers
    PROVE  /\ handler[w] \in Handler
           /\ handler \in [Workers -> Handler]
           /\ HandlerKnows(w)
           /\ CursorProtected(w)
BY DEF InductiveInvariant, TypeOK, LockProtectsCursor

(* What the invariant says of an instance. *)
LEMMA InstanceFacts ==
    ASSUME InductiveInvariant, NEW i \in Instances
    PROVE  /\ runtime[i] \in RuntimeSession
           /\ runtime \in [Instances -> RuntimeSession]
           /\ lock[i] \in Workers \union {Nobody}
           /\ lock \in [Instances -> Workers \union {Nobody}]
           /\ RuntimeBehind(i)
BY DEF InductiveInvariant, TypeOK, RuntimeNeverLeads

(* A step of an instance that nobody has locked, without a worker. *)
LEMMA MemoryStep ==
    ASSUME InductiveInvariant, UNCHANGED <<row, answered>>, UNCHANGED <<lock, handler>>,
           NEW i \in Instances, MutexFree(i),
           NEW session \in RuntimeSession,
           runtime' = [runtime EXCEPT ![i] = session],
           RuntimeBehind(i)'
    PROVE  InductiveInvariant'
<1>1. RowInvariant /\ RowInvariant' /\ RowGrows
  BY RowOfInvariant, RowUnchanged
<1>2. runtime' \in [Instances -> RuntimeSession]
  BY InstanceFacts
<1>3. ASSUME NEW j \in Instances, j # i
      PROVE  RuntimeBehind(j)' /\ runtime'[j] = runtime[j]
  BY <1>1, <1>3, InstanceFacts, RuntimeStays
<1>4. ASSUME NEW w \in Workers
      PROVE  HandlerKnows(w)' /\ CursorProtected(w)'
  <2>1. HandlerKnows(w)'
    BY <1>1, HandlerFacts, HandlerStays
  <2>2. CursorProtected(w)'
    <3>1. SUFFICES ASSUME handler[w].attached, handler[w].pc \in LockedSteps
                   PROVE  CursorProtected(w)'
      BY DEF CursorProtected
    <3>2. handler[w].at \in Instances /\ lock[handler[w].at] = w /\ w # Nobody
      BY <3>1, HandlerFacts, SessionAssumption DEF HandlerKnows, CursorProtected, LockedSteps
    <3>3. runtime'[handler[w].at] = runtime[handler[w].at]
      BY <3>2, <1>3 DEF MutexFree
    <3>4. QED
      BY <3>3, HandlerFacts DEF CursorProtected, Active
  <2>3. QED
    BY <2>1, <2>2
<1>5. TypeOK'
  BY <1>1, <1>2 DEF TypeOK, InductiveInvariant, RowInvariant
<1>6. QED
  BY <1>1, <1>3, <1>4, <1>5 DEF InductiveInvariant, RowInvariant, RuntimeNeverLeads, LockProtectsCursor

-----------------------------------------------------------------------------
(* The handlers, one lemma per route.                                        *)

LEMMA MemorySteps ==
    ASSUME InductiveInvariant, NEW i \in Instances,
           ResumeFromMemory(i) \/ Proceed(i)
    PROVE  InductiveInvariant'
<1>1. CASE ResumeFromMemory(i)
  <2>1. /\ UNCHANGED <<row, answered>>
        /\ UNCHANGED <<lock, handler>>
        /\ MutexFree(i)
        /\ runtime' = [runtime EXCEPT ![i] = Cached(runtime[i])]
    BY <1>1 DEF ResumeFromMemory
  <2>2. /\ Cached(runtime[i]) \in RuntimeSession
        /\ runtime'[i] = Cached(runtime[i])
    BY <2>1, InstanceFacts, CachedSession
  <2>3. RuntimeBehind(i)'
    BY <2>1, <2>2, InstanceFacts, CachedSession DEF RuntimeBehind
  <2>4. QED
    BY <2>1, <2>2, <2>3, MemoryStep
<1>2. CASE Proceed(i)
  <2>. DEFINE session == [runtime[i] EXCEPT !.awaiting = FALSE]
  <2>1. /\ UNCHANGED <<row, answered>>
        /\ UNCHANGED <<lock, handler>>
        /\ MutexFree(i)
        /\ runtime' = [runtime EXCEPT ![i] = Cached(session)]
    BY <1>2 DEF Proceed
  <2>2. /\ session \in RuntimeSession
        /\ session.loaded = runtime[i].loaded
        /\ session.index = runtime[i].index
        /\ session.completed = runtime[i].completed
        /\ ~session.awaiting
    BY InstanceFacts DEF RuntimeSession
  <2>3. Cached(session) \in RuntimeSession /\ runtime'[i] = Cached(session)
    BY <2>1, <2>2, InstanceFacts, CachedSession
  <2>4. RuntimeBehind(i)'
    <3>. HIDE DEF session
    <3>1. /\ Cached(session).loaded = session.loaded
          /\ Cached(session).index = session.index
          /\ Cached(session).awaiting = session.awaiting
          /\ Cached(session).completed = session.completed
      BY <2>2, CachedSession
    <3>2. QED
      BY <2>1, <2>2, <2>3, <3>1, InstanceFacts DEF RuntimeBehind
  <2>5. QED
    BY <2>1, <2>3, <2>4, MemoryStep
<1>3. QED
  BY <1>1, <1>2

LEMMA PageSteps ==
    ASSUME InductiveInvariant, NEW w \in Workers,
           (\E i \in Instances : Resume(w, i)) \/ ResumeRead(w) \/ ResumeInsert(w)
    PROVE  InductiveInvariant'
<1>1. ASSUME NEW i \in Instances, Resume(w, i)
      PROVE  InductiveInvariant'
  <2>. DEFINE r == [Idle EXCEPT !.pc = "resume_read", !.at = i]
  <2>1. /\ UNCHANGED <<row, answered>>
        /\ UNCHANGED runtime
        /\ UNCHANGED lock
        /\ handler' = [handler EXCEPT ![w] = r]
    BY <1>1 DEF Resume, Request
  <2>2. r \in Handler /\ handler'[w] = r
    BY <2>1, HandlerFacts, PlanLength DEF Idle, Handler, Steps, ReadSteps, RouteReads
  <2>3. HandlerKnows(w)' /\ CursorProtected(w)'
    BY <2>2 DEF HandlerKnows, RouteReads, CursorProtected, Idle, AnswerSteps, MarkSteps, RatingSteps,
                WriteSteps, LockedSteps
  <2>4. QED
    BY <2>1, <2>2, <2>3, QuietStep
<1>2. CASE ResumeRead(w)
  <2>1. CASE Refuse(w)
    BY <2>1, RefuseStep
  <2>2. CASE ~Refuse(w)
    <3>. DEFINE r == [handler[w] EXCEPT !.pc = "resume_insert", !.item = row.next]
    <3>1. /\ Waits(w, "resume_read")
          /\ UNCHANGED <<row, answered>>
          /\ UNCHANGED runtime
          /\ UNCHANGED lock
          /\ handler' = [handler EXCEPT ![w] = r]
      BY <1>2, <2>2, HandlerFacts DEF ResumeRead
    <3>2. r \in Handler /\ handler'[w] = r /\ row.next \in Cursors
      BY <3>1, HandlerFacts, RowOfInvariant DEF Handler, Steps
    <3>3. HandlerKnows(w)' /\ CursorProtected(w)'
      BY <3>1, <3>2, HandlerFacts, PlanLength
         DEF Waits, HandlerKnows, RouteReads, CursorProtected, AnswerSteps, MarkSteps, RatingSteps,
             WriteSteps, LockedSteps, Handler, Cursors
    <3>4. QED
      BY <3>1, <3>2, <3>3, QuietStep
  <2>3. QED
    BY <2>1, <2>2
<1>3. CASE ResumeInsert(w)
  <2>. DEFINE session == Cached(NewRuntime(handler[w].item, NoItem))
  <2>1. PICK at \in Instances : at = handler[w].at
    BY <1>3, HandlerFacts DEF ResumeInsert, Waits, HandlerKnows
  <2>2. /\ Waits(w, "resume_insert")
        /\ MutexFree(at)
        /\ runtime' = [runtime EXCEPT ![at] = session]
        /\ Return(w)
        /\ UNCHANGED <<row, answered>>
    BY <1>3, <2>1 DEF ResumeInsert
  <2>3. handler[w].item \in Cursors /\ handler[w].item <= row.next
    BY <2>2, HandlerFacts DEF Waits, HandlerKnows
  <2>4. NewRuntime(handler[w].item, NoItem) \in RuntimeSession
    BY <2>3 DEF NewRuntime, RuntimeSession
  <2>5. /\ session \in RuntimeSession
        /\ session.index = handler[w].item
        /\ ~session.completed
        /\ ~session.awaiting
    BY <2>4, CachedSession DEF NewRuntime
  <2>6. /\ runtime'[at].index <= row'.next
        /\ ~runtime'[at].completed
        /\ ~runtime'[at].awaiting
    <3>. HIDE DEF session
    <3>1. QED
      BY <2>2, <2>3, <2>5, InstanceFacts
  <2>7. RuntimeBehind(at)'
    BY <2>6 DEF RuntimeBehind
  <2>8. RowInvariant' /\ RowGrows
    BY <2>2, RowOfInvariant, RowUnchanged
  <2>9. lock[at] \in {w, Nobody}
    BY <2>2 DEF MutexFree
  <2>10. /\ runtime' \in [Instances -> RuntimeSession]
         /\ \A j \in Instances : RuntimeBehind(j)'
         /\ \A j \in Instances : lock[j] \notin {w, Nobody} => runtime'[j] = runtime[j]
    <3>. HIDE DEF session
    <3>1. QED
      BY <2>2, <2>5, <2>7, <2>8, <2>9, OneRuntimeChanges
  <2>11. QED
    BY <2>2, <2>8, <2>10, ReturnStep
<1>4. QED
  BY <1>1, <1>2, <1>3

(* A handler that holds the mutex of its instance returns with a new runtime *)
(* session there.                                                            *)
LEMMA LockedReturn ==
    ASSUME InductiveInvariant, RowInvariant', RowGrows, NEW w \in Workers,
           NEW at \in Instances, at = handler[w].at,
           handler[w].attached, handler[w].pc \in LockedSteps,
           NEW session \in RuntimeSession,
           runtime' = [runtime EXCEPT ![at] = session], Return(w),
           session.loaded =>
               /\ session.index <= row'.next
               /\ session.completed => row'.completed
               /\ session.awaiting => session.index - 1 \in answered'
    PROVE  InductiveInvariant'
<1>1. lock[at] \in {w, Nobody}
  BY HandlerFacts DEF CursorProtected
<1>2. runtime'[at] = session
  BY InstanceFacts
<1>3. RuntimeBehind(at)'
  BY <1>2 DEF RuntimeBehind
<1>4. /\ runtime' \in [Instances -> RuntimeSession]
      /\ \A j \in Instances : RuntimeBehind(j)'
      /\ \A j \in Instances : lock[j] \notin {w, Nobody} => runtime'[j] = runtime[j]
  BY <1>1, <1>3, OneRuntimeChanges
<1>5. QED
  BY <1>4, ReturnStep

(* The instance a handler works at, and what its mutex guarantees. *)
LEMMA LockedInstance ==
    ASSUME InductiveInvariant, NEW w \in Workers,
           handler[w].attached, handler[w].pc \in LockedSteps
    PROVE  \E at \in Instances :
               /\ at = handler[w].at
               /\ lock[at] = w
               /\ runtime[at] \in RuntimeSession
               /\ runtime[at].loaded
               /\ ~runtime[at].completed
               /\ RuntimeBehind(at)
BY HandlerFacts, InstanceFacts DEF HandlerKnows, CursorProtected, LockedSteps, Active

LEMMA SubmitSteps ==
    ASSUME InductiveInvariant, NEW w \in Workers,
           \/ \E i \in Instances, q \in Items, right, tools \in BOOLEAN :
                  Submit(w, i, q, right, tools)
           \/ SubmitRead(w) \/ SubmitWrite(w) \/ SubmitMark(w)
    PROVE  InductiveInvariant'
<1>1. ASSUME NEW i \in Instances, NEW q \in Items,
             NEW right \in BOOLEAN, NEW tools \in BOOLEAN,
             Submit(w, i, q, right, tools)
      PROVE  InductiveInvariant'
  <2>. DEFINE r == [Idle EXCEPT !.pc = "submit_read", !.at = i, !.item = q, !.plan = q,
                                !.right = right, !.tools = tools]
              session == [runtime[i] EXCEPT !.cached = q]
  <2>1. /\ MutexFree(i)
        /\ Active(i)
        /\ q = runtime[i].index
        /\ lock' = [lock EXCEPT ![i] = w]
        /\ runtime' = [runtime EXCEPT ![i] = session]
        /\ handler' = [handler EXCEPT ![w] = r]
        /\ UNCHANGED <<row, answered>>
    BY <1>1, PlanForItem DEF Submit
  <2>2. RowInvariant' /\ RowGrows
    BY <2>1, RowOfInvariant, RowUnchanged
  <2>3. r \in Handler /\ handler'[w] = r
    <3>1. "submit_read" \in Steps /\ q \in Cursors
      BY PlanLength DEF Steps, ReadSteps, Items, Cursors
    <3>2. r \in Handler
      BY <3>1, IdleTyped DEF Handler
    <3>3. QED
      BY <2>1, <3>2, HandlerFacts
  <2>4. /\ session \in RuntimeSession
        /\ session.loaded = runtime[i].loaded
        /\ session.index = runtime[i].index
        /\ session.awaiting = runtime[i].awaiting
        /\ session.completed = runtime[i].completed
        /\ runtime'[i] = session
    BY <2>1, InstanceFacts DEF RuntimeSession
  <2>5. RuntimeBehind(i)'
    BY <2>1, <2>4, InstanceFacts DEF RuntimeBehind
  <2>6. lock[i] = Nobody
    BY <2>1 DEF MutexFree
  <2>7. /\ runtime' \in [Instances -> RuntimeSession]
        /\ \A j \in Instances : RuntimeBehind(j)'
        /\ \A j \in Instances : lock[j] \notin {w, Nobody} => runtime'[j] = runtime[j]
    BY <2>1, <2>2, <2>4, <2>5, <2>6, OneRuntimeChanges
  <2>8. HandlerKnows(w)'
    <3>1. q <= row'.next
      BY <2>1, InstanceFacts DEF RuntimeBehind, Active
    <3>2. QED
      BY <2>3, <3>1 DEF HandlerKnows, Idle, AnswerSteps, MarkSteps, RatingSteps
  <2>9. CursorProtected(w)'
    <3>1. handler'[w].pc = "submit_read" /\ handler'[w].at = i /\ handler'[w].item = q
      BY <2>3 DEF Idle
    <3>2. lock'[i] = w
      BY <2>1, InstanceFacts
    <3>3. Active(i)' /\ runtime'[i].index = q
      BY <2>1, <2>4 DEF Active
    <3>4. QED
      BY <3>1, <3>2, <3>3 DEF CursorProtected
  <2>10. QED
    BY <2>1, <2>2, <2>3, <2>7, <2>8, <2>9, ContinueStep
<1>2. CASE SubmitRead(w)
  <2>1. Waits(w, "submit_read") /\ handler[w].attached /\ handler[w].pc \in LockedSteps
    BY <1>2 DEF SubmitRead, Waits, LockedSteps
  <2>2. PICK at \in Instances :
             /\ at = handler[w].at
             /\ lock[at] = w
             /\ runtime[at] \in RuntimeSession
             /\ runtime[at].loaded
             /\ ~runtime[at].completed
             /\ RuntimeBehind(at)
    BY <2>1, LockedInstance
  <2>3. CASE Refuse(w)
    BY <2>3, RefuseStep
  <2>4. CASE /\ row.completed
             /\ runtime' = [runtime EXCEPT ![at].completed = TRUE]
             /\ Return(w)
             /\ UNCHANGED <<row, answered>>
    <3>. DEFINE session == [runtime[at] EXCEPT !.completed = TRUE]
    <3>1. /\ session \in RuntimeSession
          /\ session.index = runtime[at].index
          /\ session.awaiting = runtime[at].awaiting
          /\ runtime' = [runtime EXCEPT ![at] = session]
      BY <2>2, <2>4 DEF RuntimeSession
    <3>2. RowInvariant' /\ RowGrows
      BY <2>4, RowOfInvariant, RowUnchanged
    <3>3. session.loaded =>
             /\ session.index <= row'.next
             /\ session.completed => row'.completed
             /\ session.awaiting => session.index - 1 \in answered'
      BY <2>2, <2>4, <3>1 DEF RuntimeBehind
    <3>. HIDE DEF session
    <3>4. QED
      BY <2>1, <2>2, <2>4, <3>1, <3>2, <3>3, LockedReturn
  <2>5. CASE /\ ~row.completed /\ row.next = handler[w].item
             /\ Continue(w, "submit_write")
             /\ UNCHANGED <<row, runtime, answered>>
    <3>. DEFINE r == [handler[w] EXCEPT !.pc = "submit_write"]
    <3>1. /\ UNCHANGED <<row, answered>>
          /\ UNCHANGED runtime
          /\ UNCHANGED lock
          /\ handler' = [handler EXCEPT ![w] = r]
      BY <2>5 DEF Continue
    <3>2. r \in Handler /\ handler'[w] = r
      BY <3>1, HandlerFacts DEF Handler, Steps, WriteSteps, AnswerSteps
    <3>3. HandlerKnows(w)'
      BY <2>1, <3>1, <3>2, HandlerFacts
         DEF Waits, HandlerKnows, Handler, AnswerSteps, MarkSteps, RatingSteps, WriteSteps
    <3>4. CursorProtected(w)'
      BY <2>1, <3>1, <3>2, HandlerFacts DEF Waits, CursorProtected, Handler, LockedSteps, Active
    <3>5. QED
      BY <3>1, <3>2, <3>3, <3>4, QuietStep
  <2>6. QED
    BY <1>2, <2>2, <2>3, <2>4, <2>5 DEF SubmitRead
<1>3. CASE SubmitWrite(w)
  <2>1. /\ Waits(w, "submit_write")
        /\ handler[w].attached
        /\ handler[w].pc \in LockedSteps
        /\ handler[w].pc \in WriteSteps
        /\ handler[w].pc \in AnswerSteps
    BY <1>3 DEF SubmitWrite, Waits, LockedSteps, WriteSteps, AnswerSteps
  <2>2. PICK at \in Instances :
             /\ at = handler[w].at
             /\ lock[at] = w
             /\ runtime[at] \in RuntimeSession
             /\ runtime[at].loaded
             /\ ~runtime[at].completed
             /\ RuntimeBehind(at)
    BY <2>1, LockedInstance
  <2>3. CASE Refuse(w)
    BY <2>3, RefuseStep
  <2>4. CASE Execute(handler[w])
    <3>0. PICK item \in Items : item = handler[w].item
      BY <2>1, HandlerFacts DEF HandlerKnows
    <3>1. RowInvariant' /\ RowGrows
      BY <2>1, <2>4, ExecuteKeepsRow
    <3>2. /\ item + 1 \in Cursors
          /\ row'.next = item + 1
          /\ answered' = answered \union {item}
      <4>1. row' = RecordAnswer(handler[w]) /\ answered' = answered \union {item}
        BY <2>1, <2>4, <3>0 DEF Execute, AnswerSteps, RatingSteps, MarkSteps
      <4>2. row'.next = item + 1
        BY <3>0, <4>1, RowOfInvariant DEF RecordAnswer, RowInvariant, Row
      <4>3. QED
        BY <4>1, <4>2, PlanLength DEF Items, Cursors
    <3>3. CASE /\ handler[w].tools
               /\ runtime' = [runtime EXCEPT ![at].index = item + 1]
               /\ Continue(w, "submit_mark")
      <4>. DEFINE r == [handler[w] EXCEPT !.pc = "submit_mark"]
                  session == [runtime[at] EXCEPT !.index = item + 1]
      <4>1. /\ UNCHANGED lock
            /\ handler' = [handler EXCEPT ![w] = r]
            /\ runtime' = [runtime EXCEPT ![at] = session]
        BY <3>3 DEF Continue
      <4>2. r \in Handler /\ handler'[w] = r
        BY <4>1, HandlerFacts DEF Handler, Steps, WriteSteps, MarkSteps
      <4>3. /\ session \in RuntimeSession
            /\ session.index = item + 1
            /\ session.loaded
            /\ ~session.completed
            /\ runtime'[at] = session
        BY <2>2, <3>2, <4>1, InstanceFacts DEF RuntimeSession
      <4>4. RuntimeBehind(at)'
        BY <3>2, <4>3 DEF RuntimeBehind, Items, Cursors
      <4>5. /\ runtime' \in [Instances -> RuntimeSession]
            /\ \A j \in Instances : RuntimeBehind(j)'
            /\ \A j \in Instances : lock[j] \notin {w, Nobody} => runtime'[j] = runtime[j]
        <5>. HIDE DEF session
        <5>1. QED
          BY <2>2, <3>1, <4>1, <4>3, <4>4, OneRuntimeChanges
      <4>6. HandlerKnows(w)'
        BY <2>1, <3>0, <3>2, <4>2, HandlerFacts, PlanLength
           DEF Waits, HandlerKnows, Handler, AnswerSteps, MarkSteps, RatingSteps, WriteSteps,
               Items, Cursors
      <4>7. CursorProtected(w)'
        <5>1. handler'[w].pc = "submit_mark" /\ handler'[w].at = at /\ handler'[w].item = item
          BY <2>2, <3>0, <4>2, HandlerFacts DEF Handler
        <5>2. lock'[at] = w
          BY <2>2, <4>1
        <5>3. Active(at)' /\ runtime'[at].index = item + 1
          BY <4>3 DEF Active
        <5>4. QED
          BY <5>1, <5>2, <5>3 DEF CursorProtected
      <4>8. QED
        <5>. HIDE DEF session
        <5>1. QED
          BY <3>1, <4>1, <4>2, <4>5, <4>6, <4>7, ContinueStep
    <3>4. CASE /\ ~handler[w].tools
               /\ runtime' = [runtime EXCEPT ![at].index = item + 1, ![at].awaiting = TRUE]
               /\ Return(w)
      <4>. DEFINE session == [runtime[at] EXCEPT !.index = item + 1, !.awaiting = TRUE]
      <4>1. /\ session \in RuntimeSession
            /\ session.index = item + 1
            /\ ~session.completed
            /\ runtime' = [runtime EXCEPT ![at] = session]
        BY <2>2, <3>2, <3>4, InstanceFacts DEF RuntimeSession
      <4>. HIDE DEF session
      <4>2. session.loaded =>
               /\ session.index <= row'.next
               /\ session.completed => row'.completed
               /\ session.awaiting => session.index - 1 \in answered'
        <5>1. session.index <= row'.next
          BY <3>2, <4>1 DEF Cursors
        <5>2. session.completed => row'.completed
          BY <4>1
        <5>3. session.index - 1 \in answered'
          <6>1. session.index - 1 = item
            BY <4>1 DEF Items
          <6>2. QED
            BY <3>2, <6>1
        <5>4. QED
          BY <5>1, <5>2, <5>3
      <4>3. Return(w)
        BY <3>4
      <4>4. QED
        BY <2>1, <2>2, <3>1, <4>1, <4>2, <4>3, LockedReturn
    <3>5. QED
      BY <1>3, <2>1, <2>2, <2>4, <3>0, <3>3, <3>4, RefuseStep DEF SubmitWrite
  <2>5. QED
    BY <1>3, <2>3, <2>4 DEF SubmitWrite
<1>4. CASE SubmitMark(w)
  <2>1. /\ Waits(w, "submit_mark")
        /\ handler[w].attached
        /\ handler[w].pc \in LockedSteps
        /\ handler[w].pc \in WriteSteps
        /\ Execute(handler[w])
        /\ Return(w)
    BY <1>4 DEF SubmitMark, Waits, LockedSteps, WriteSteps, MarkSteps
  <2>2. PICK at \in Instances :
             /\ at = handler[w].at
             /\ lock[at] = w
             /\ runtime[at] \in RuntimeSession
             /\ runtime[at].loaded
             /\ ~runtime[at].completed
             /\ RuntimeBehind(at)
    BY <2>1, LockedInstance
  <2>3. RowInvariant' /\ RowGrows
    BY <2>1, ExecuteKeepsRow
  <2>. DEFINE session == [runtime[at] EXCEPT !.awaiting = TRUE]
  <2>4. /\ session \in RuntimeSession
        /\ session.index = runtime[at].index
        /\ ~session.completed
        /\ runtime' = [runtime EXCEPT ![at] = session]
    BY <1>4, <2>2 DEF SubmitMark, RuntimeSession
  <2>5. handler[w].item \in Items /\ handler[w].item \in answered
    BY <2>1, HandlerFacts DEF Waits, HandlerKnows, MarkSteps
  <2>6. runtime[at].index = handler[w].item + 1
    BY <2>1, <2>2, HandlerFacts DEF Waits, CursorProtected
  <2>7. runtime[at].index - 1 = handler[w].item
    BY <2>5, <2>6 DEF Items
  <2>8. runtime[at].index <= row'.next
    BY <2>2, <2>3, RowOfInvariant DEF RuntimeBehind, RowGrows, RowInvariant, Row, Cursors,
                                   RuntimeSession
  <2>9. session.loaded =>
             /\ session.index <= row'.next
             /\ session.completed => row'.completed
             /\ session.awaiting => session.index - 1 \in answered'
    BY <2>3, <2>4, <2>5, <2>7, <2>8 DEF RowGrows
  <2>. HIDE DEF session
  <2>10. QED
    BY <2>1, <2>2, <2>3, <2>4, <2>9, LockedReturn
<1>5. QED
  BY <1>1, <1>2, <1>3, <1>4

LEMMA SkipSteps ==
    ASSUME InductiveInvariant, NEW w \in Workers,
           \/ \E i \in Instances : Skip(w, i)
           \/ SkipRead(w) \/ SkipMark(w) \/ SkipWrite(w)
    PROVE  InductiveInvariant'
<1>1. ASSUME NEW i \in Instances, Skip(w, i)
      PROVE  InductiveInvariant'
  <2>. DEFINE r == [Idle EXCEPT !.pc = "skip_read", !.at = i, !.item = runtime[i].index]
  <2>1. /\ MutexFree(i)
        /\ Active(i)
        /\ runtime[i].index < TotalItems
        /\ lock' = [lock EXCEPT ![i] = w]
        /\ handler' = [handler EXCEPT ![w] = r]
        /\ UNCHANGED runtime
        /\ UNCHANGED <<row, answered>>
    BY <1>1 DEF Skip
  <2>2. /\ runtime[i].index \in Cursors
        /\ runtime[i].index \in Items
        /\ runtime[i].index <= row.next
    BY <2>1, InstanceFacts, PlanLength DEF RuntimeSession, RuntimeBehind, Active, Items, Cursors
  <2>3. r \in Handler /\ handler'[w] = r
    <3>1. "skip_read" \in Steps
      BY DEF Steps, ReadSteps
    <3>2. r \in Handler
      BY <2>2, <3>1, IdleTyped DEF Handler
    <3>3. QED
      BY <2>1, <3>2, HandlerFacts
  <2>4. HandlerKnows(w)'
    <3>1. /\ handler'[w].pc = "skip_read"
          /\ handler'[w].at = i
          /\ handler'[w].attached
          /\ handler'[w].item = runtime[i].index
      BY <2>3 DEF Idle
    <3>2. row'.next = row.next
      BY <2>1
    <3>3. QED
      BY <2>2, <3>1, <3>2 DEF HandlerKnows, AnswerSteps, MarkSteps, RatingSteps
  <2>5. CursorProtected(w)'
    <3>1. /\ handler'[w].pc = "skip_read"
          /\ handler'[w].at = i
          /\ handler'[w].item = runtime[i].index
      BY <2>3 DEF Idle
    <3>2. lock'[i] = w
      BY <2>1, InstanceFacts
    <3>3. Active(i)' /\ runtime'[i] = runtime[i]
      BY <2>1 DEF Active
    <3>4. QED
      BY <3>1, <3>2, <3>3 DEF CursorProtected
  <2>6. QED
    BY <2>1, <2>3, <2>4, <2>5, QuietStep
<1>2. CASE SkipRead(w)
  <2>1. Waits(w, "skip_read") /\ handler[w].attached /\ handler[w].pc \in LockedSteps
    BY <1>2 DEF SkipRead, Waits, LockedSteps
  <2>2. PICK at \in Instances :
             /\ at = handler[w].at
             /\ lock[at] = w
             /\ runtime[at] \in RuntimeSession
             /\ runtime[at].loaded
             /\ ~runtime[at].completed
             /\ RuntimeBehind(at)
    BY <2>1, LockedInstance
  <2>3. CASE Refuse(w)
    BY <2>3, RefuseStep
  <2>4. CASE /\ row.completed
             /\ runtime' = [runtime EXCEPT ![at].completed = TRUE]
             /\ Return(w)
             /\ UNCHANGED <<row, answered>>
    <3>. DEFINE session == [runtime[at] EXCEPT !.completed = TRUE]
    <3>1. /\ session \in RuntimeSession
          /\ session.index = runtime[at].index
          /\ session.awaiting = runtime[at].awaiting
          /\ runtime' = [runtime EXCEPT ![at] = session]
      BY <2>2, <2>4 DEF RuntimeSession
    <3>2. RowInvariant' /\ RowGrows
      BY <2>4, RowOfInvariant, RowUnchanged
    <3>3. session.loaded =>
             /\ session.index <= row'.next
             /\ session.completed => row'.completed
             /\ session.awaiting => session.index - 1 \in answered'
      BY <2>2, <2>4, <3>1 DEF RuntimeBehind
    <3>. HIDE DEF session
    <3>4. QED
      BY <2>1, <2>2, <2>4, <3>1, <3>2, <3>3, LockedReturn
  <2>5. CASE /\ ~row.completed /\ row.next >= TotalItems
             /\ runtime' = [runtime EXCEPT ![at].index = row.next,
                                           ![at].awaiting = FALSE,
                                           ![at].cached = NoItem]
             /\ Return(w)
             /\ UNCHANGED <<row, answered>>
    <3>. DEFINE session == [runtime[at] EXCEPT !.index = row.next, !.awaiting = FALSE,
                                               !.cached = NoItem]
    <3>1. RowInvariant' /\ RowGrows /\ row.next \in Cursors
      BY <2>5, RowOfInvariant, RowUnchanged
    <3>2. /\ session \in RuntimeSession
          /\ session.index = row'.next
          /\ ~session.awaiting
          /\ ~session.completed
          /\ runtime' = [runtime EXCEPT ![at] = session]
      BY <2>2, <2>5, <3>1, InstanceFacts DEF RuntimeSession
    <3>. HIDE DEF session
    <3>3. session.loaded =>
             /\ session.index <= row'.next
             /\ session.completed => row'.completed
             /\ session.awaiting => session.index - 1 \in answered'
      BY <3>1, <3>2 DEF RowInvariant, Row, Cursors
    <3>4. Return(w)
      BY <2>5
    <3>5. QED
      BY <2>1, <2>2, <3>1, <3>2, <3>3, <3>4, LockedReturn
  <2>6. CASE /\ ~row.completed /\ row.next < TotalItems /\ row.next = handler[w].item
             /\ Continue(w, "skip_mark")
             /\ UNCHANGED <<row, runtime, answered>>
    <3>. DEFINE r == [handler[w] EXCEPT !.pc = "skip_mark"]
    <3>1. /\ UNCHANGED <<row, answered>>
          /\ UNCHANGED runtime
          /\ UNCHANGED lock
          /\ handler' = [handler EXCEPT ![w] = r]
      BY <2>6 DEF Continue
    <3>2. r \in Handler /\ handler'[w] = r
      BY <3>1, HandlerFacts DEF Handler, Steps, WriteSteps, MarkSteps
    <3>3. HandlerKnows(w)'
      BY <2>1, <3>1, <3>2, HandlerFacts
         DEF Waits, HandlerKnows, Handler, AnswerSteps, MarkSteps, RatingSteps, WriteSteps
    <3>4. CursorProtected(w)'
      BY <2>1, <3>1, <3>2, HandlerFacts DEF Waits, CursorProtected, Handler, LockedSteps, Active
    <3>5. QED
      BY <3>1, <3>2, <3>3, <3>4, QuietStep
  <2>7. QED
    BY <1>2, <2>2, <2>3, <2>4, <2>5, <2>6 DEF SkipRead
<1>3. CASE SkipMark(w)
  <2>. DEFINE r == [handler[w] EXCEPT !.pc = "skip_write"]
  <2>1. /\ Waits(w, "skip_mark")
        /\ handler[w].attached
        /\ handler[w].pc \in WriteSteps
        /\ Execute(handler[w])
        /\ UNCHANGED runtime
        /\ UNCHANGED lock
        /\ handler' = [handler EXCEPT ![w] = r]
    BY <1>3 DEF SkipMark, Waits, Continue, WriteSteps, MarkSteps
  <2>2. RowInvariant' /\ RowGrows
    BY <2>1, ExecuteKeepsRow
  <2>3. /\ runtime' \in [Instances -> RuntimeSession]
        /\ \A j \in Instances : RuntimeBehind(j)'
    BY <2>1, <2>2, RuntimesStay
  <2>4. r \in Handler /\ handler'[w] = r
    BY <2>1, HandlerFacts DEF Handler, Steps, WriteSteps
  <2>5. SkippedIndices(handler[w].item) \subseteq row'.skipped
    <3>1. row' = AppendMarkers(handler[w])
      BY <2>1 DEF Waits, Execute, AnswerSteps, RatingSteps, MarkSteps
    <3>2. row' = [row EXCEPT !.skipped = @ \union SkippedIndices(handler[w].item)]
      BY <2>1, <3>1 DEF Waits, AppendMarkers
    <3>3. QED
      BY <3>2, RowOfInvariant DEF RowInvariant, Row
  <2>6. HandlerKnows(w)'
    <3>1. handler[w].item \in Items /\ handler[w].item <= row.next
      BY <2>1, HandlerFacts DEF Waits, HandlerKnows, MarkSteps
    <3>2. handler[w].item <= row'.next
      BY <2>2, <3>1, RowOfInvariant DEF RowGrows, RowInvariant, Row, Cursors, Items
    <3>3. /\ handler'[w].pc = "skip_write"
          /\ handler'[w].at = handler[w].at
          /\ handler'[w].item = handler[w].item
          /\ handler'[w].attached
      BY <2>1, <2>4, HandlerFacts DEF Handler
    <3>4. handler[w].at \in Instances
      BY <2>1, HandlerFacts DEF Waits, HandlerKnows
    <3>5. QED
      BY <2>5, <3>1, <3>2, <3>3, <3>4 DEF HandlerKnows, AnswerSteps, MarkSteps, RatingSteps
  <2>7. CursorProtected(w)'
    BY <2>1, <2>4, HandlerFacts DEF Waits, CursorProtected, Handler, LockedSteps, Active
  <2>8. QED
    BY <2>1, <2>2, <2>3, <2>4, <2>6, <2>7, ContinueStep
<1>4. CASE SkipWrite(w)
  <2>1. /\ Waits(w, "skip_write")
        /\ handler[w].attached
        /\ handler[w].pc \in LockedSteps
        /\ handler[w].pc \in WriteSteps
    BY <1>4 DEF SkipWrite, Waits, LockedSteps, WriteSteps
  <2>2. PICK at \in Instances :
             /\ at = handler[w].at
             /\ lock[at] = w
             /\ runtime[at] \in RuntimeSession
             /\ runtime[at].loaded
             /\ ~runtime[at].completed
             /\ RuntimeBehind(at)
    BY <2>1, LockedInstance
  <2>3. CASE Refuse(w)
    BY <2>3, RefuseStep
  <2>4. CASE Execute(handler[w]) /\ ~Refuse(w)
    <3>0. PICK item \in Items : item = handler[w].item
      BY <2>1, HandlerFacts DEF Waits, HandlerKnows
    <3>. DEFINE moved == [runtime[at] EXCEPT !.index = NextModalityStart(item),
                                             !.awaiting = FALSE, !.cached = NoItem]
                session == Cached(moved)
    <3>1. RowInvariant' /\ RowGrows
      BY <2>1, <2>4, ExecuteKeepsRow
    <3>2. row'.next = NextModalityStart(item) /\ NextModalityStart(item) \in Cursors
      <4>1. row' = AdvanceCursor(handler[w])
        BY <2>1, <2>4 DEF Waits, Execute, AnswerSteps, RatingSteps, MarkSteps
      <4>2. row'.next = NextModalityStart(item)
        BY <3>0, <4>1, RowOfInvariant DEF AdvanceCursor, RowInvariant, Row
      <4>3. QED
        BY <4>2, SkipMovesForward
    <3>3. Return(w) /\ runtime' = [runtime EXCEPT ![at] = session]
      BY <1>4, <2>2, <2>4, <3>0 DEF SkipWrite
    <3>4. /\ moved \in RuntimeSession
          /\ moved.index = NextModalityStart(item)
          /\ ~moved.awaiting
          /\ ~moved.completed
      BY <2>2, <3>2 DEF RuntimeSession
    <3>. HIDE DEF moved
    <3>5. /\ session \in RuntimeSession
          /\ session.index = row'.next
          /\ ~session.awaiting
          /\ ~session.completed
      BY <3>2, <3>4, CachedSession
    <3>. HIDE DEF session
    <3>6. session.loaded =>
             /\ session.index <= row'.next
             /\ session.completed => row'.completed
             /\ session.awaiting => session.index - 1 \in answered'
      BY <3>2, <3>5 DEF Cursors
    <3>7. QED
      BY <2>1, <2>2, <3>1, <3>3, <3>5, <3>6, LockedReturn
  <2>5. QED
    BY <1>4, <2>3, <2>4 DEF SkipWrite
<1>5. QED
  BY <1>1, <1>2, <1>3, <1>4

LEMMA RatingsSteps ==
    ASSUME InductiveInvariant, NEW w \in Workers,
           (\E i \in Instances : Ratings(w, i)) \/ RatingsWrite(w)
    PROVE  InductiveInvariant'
<1>1. ASSUME NEW i \in Instances, Ratings(w, i)
      PROVE  InductiveInvariant'
  <2>. DEFINE r == [Idle EXCEPT !.pc = "ratings_write", !.at = i]
  <2>1. /\ MutexFree(i)
        /\ Active(i)
        /\ runtime[i].index >= TotalItems
        /\ lock' = [lock EXCEPT ![i] = w]
        /\ handler' = [handler EXCEPT ![w] = r]
        /\ UNCHANGED runtime
        /\ UNCHANGED <<row, answered>>
    BY <1>1 DEF Ratings, Request
  <2>2. row.next = TotalItems
    <3>1. runtime[i].index \in Cursors /\ runtime[i].index <= row.next
      BY <2>1, InstanceFacts DEF RuntimeSession, RuntimeBehind, Active
    <3>2. QED
      BY <2>1, <3>1, RowOfInvariant, PlanLength DEF Cursors
  <2>3. r \in Handler /\ handler'[w] = r
    <3>1. "ratings_write" \in Steps
      BY DEF Steps, WriteSteps, RatingSteps
    <3>2. r \in Handler
      BY <3>1, IdleTyped DEF Handler
    <3>3. QED
      BY <2>1, <3>2, HandlerFacts
  <2>4. HandlerKnows(w)'
    <3>1. /\ handler'[w].pc = "ratings_write"
          /\ handler'[w].at = i
          /\ handler'[w].attached
      BY <2>3 DEF Idle
    <3>2. row'.next = row.next
      BY <2>1
    <3>3. QED
      BY <2>2, <3>1, <3>2 DEF HandlerKnows, RouteReads, AnswerSteps, MarkSteps, RatingSteps
  <2>5. CursorProtected(w)'
    <3>1. handler'[w].pc = "ratings_write" /\ handler'[w].at = i
      BY <2>3 DEF Idle
    <3>2. lock'[i] = w
      BY <2>1, InstanceFacts
    <3>3. Active(i)'
      BY <2>1 DEF Active
    <3>4. QED
      BY <3>1, <3>2, <3>3 DEF CursorProtected
  <2>6. QED
    BY <2>1, <2>3, <2>4, <2>5, QuietStep
<1>2. CASE RatingsWrite(w)
  <2>1. /\ Waits(w, "ratings_write")
        /\ handler[w].attached
        /\ handler[w].pc \in LockedSteps
        /\ handler[w].pc \in WriteSteps
    BY <1>2 DEF RatingsWrite, Waits, LockedSteps, WriteSteps, RatingSteps
  <2>2. PICK at \in Instances :
             /\ at = handler[w].at
             /\ lock[at] = w
             /\ runtime[at] \in RuntimeSession
             /\ runtime[at].loaded
             /\ ~runtime[at].completed
             /\ RuntimeBehind(at)
    BY <2>1, LockedInstance
  <2>3. CASE Refuse(w)
    BY <2>3, RefuseStep
  <2>4. CASE Execute(handler[w]) /\ ~Refuse(w)
    <3>. DEFINE session == [runtime[at] EXCEPT !.completed = TRUE]
    <3>1. RowInvariant' /\ RowGrows
      BY <2>1, <2>4, ExecuteKeepsRow
    <3>2. row'.completed /\ row'.next = row.next /\ answered' = answered
      <4>1. row' = StoreRatings /\ answered' = answered
        BY <2>1, <2>4 DEF Waits, Execute, AnswerSteps, RatingSteps, MarkSteps
      <4>2. QED
        BY <4>1, RowOfInvariant DEF StoreRatings, RowInvariant, Row
    <3>3. Return(w) /\ runtime' = [runtime EXCEPT ![at] = session]
      BY <1>2, <2>2, <2>4 DEF RatingsWrite, RuntimeSession
    <3>4. /\ session \in RuntimeSession
          /\ session.index = runtime[at].index
          /\ session.awaiting = runtime[at].awaiting
      BY <2>2 DEF RuntimeSession
    <3>. HIDE DEF session
    <3>5. session.loaded =>
             /\ session.index <= row'.next
             /\ session.completed => row'.completed
             /\ session.awaiting => session.index - 1 \in answered'
      BY <2>2, <3>2, <3>4 DEF RuntimeBehind
    <3>6. QED
      BY <2>1, <2>2, <3>1, <3>3, <3>4, <3>5, LockedReturn
  <2>5. QED
    BY <1>2, <2>3, <2>4 DEF RatingsWrite
<1>3. QED
  BY <1>1, <1>2

(* A step that waits for a statement without holding the mutex. *)
LEMMA UnlockedStep ==
    ASSUME InductiveInvariant, UNCHANGED <<row, runtime, lock, answered>>,
           NEW w \in Workers,
           NEW r \in Handler, handler' = [handler EXCEPT ![w] = r],
           r.pc \notin LockedSteps, HandlerKnows(w)'
    PROVE  InductiveInvariant'
<1>1. handler'[w] = r
  BY HandlerFacts
<1>2. CursorProtected(w)'
  BY <1>1 DEF CursorProtected
<1>3. QED
  BY <1>2, QuietStep

(* A statement takes effect, and its handler returns. *)
LEMMA ExecuteAndReturn ==
    ASSUME InductiveInvariant, NEW w \in Workers, handler[w].pc \in WriteSteps,
           Execute(handler[w]), Return(w), UNCHANGED runtime
    PROVE  InductiveInvariant'
BY ExecuteKeepsRow, RuntimesStay, ReturnStep

(* A request that starts by reading the row, without the mutex. *)
LEMMA ReadRequest ==
    ASSUME InductiveInvariant, UNCHANGED <<row, runtime, lock, answered>>,
           NEW w \in Workers,
           NEW r \in Handler, handler' = [handler EXCEPT ![w] = r],
           r.pc \in ReadSteps \ LockedSteps,
           r.at \in Instances, r.attached,
           r.pc \in RouteReads => r.item \in Items
    PROVE  InductiveInvariant'
<1>1. handler'[w] = r
  BY HandlerFacts
<1>2. HandlerKnows(w)'
  BY <1>1 DEF HandlerKnows, ReadSteps, RouteReads, AnswerSteps, MarkSteps, RatingSteps, LockedSteps
<1>3. QED
  BY <1>2, UnlockedStep

LEMMA RouteRequestStep ==
    ASSUME InductiveInvariant, NEW w \in Workers, NEW i \in Instances, NEW q \in Items,
           NEW step \in RouteReads, RouteRequest(w, i, q, step)
    PROVE  InductiveInvariant'
<1>. DEFINE r == [Idle EXCEPT !.pc = step, !.at = i, !.item = q]
<1>1. UNCHANGED <<row, runtime, lock, answered>> /\ handler' = [handler EXCEPT ![w] = r]
  BY DEF RouteRequest
<1>2. r \in Handler
  <2>1. step \in Steps /\ q \in Cursors
    BY PlanLength DEF Steps, ReadSteps, Items, Cursors
  <2>2. QED
    BY <2>1, IdleTyped DEF Handler
<1>3. r.pc = step /\ r.at = i /\ r.item = q /\ r.attached
  BY DEF Idle
<1>4. r.pc \in ReadSteps \ LockedSteps
  BY <1>3 DEF ReadSteps, RouteReads, LockedSteps
<1>. HIDE DEF r
<1>5. QED
  BY <1>1, <1>2, <1>3, <1>4, ReadRequest

LEMMA RouteReadStep ==
    ASSUME InductiveInvariant, NEW w \in Workers,
           NEW step \in RouteReads, NEW offered, RouteRead(w, step, offered)
    PROVE  InductiveInvariant'
<1>1. Waits(w, step)
  BY DEF RouteRead
<1>2. CASE Refuse(w)
  BY <1>2, RefuseStep
<1>3. CASE /\ row.next = handler[w].item
           /\ Continue(w, "data_mark")
           /\ UNCHANGED <<row, runtime, answered>>
  <2>. DEFINE r == [handler[w] EXCEPT !.pc = "data_mark"]
  <2>1. handler' = [handler EXCEPT ![w] = r] /\ UNCHANGED <<row, runtime, lock, answered>>
    BY <1>3 DEF Continue
  <2>2. r \in Handler /\ handler'[w] = r
    BY <2>1, HandlerFacts DEF Handler, Steps, WriteSteps, MarkSteps
  <2>3. r.pc \notin LockedSteps
    BY HandlerFacts DEF Handler, LockedSteps
  <2>4. HandlerKnows(w)'
    <3>1. handler[w].item \in Items /\ handler[w].at \in Instances /\ handler[w].attached
      BY <1>1, HandlerFacts DEF Waits, HandlerKnows, RouteReads
    <3>2. /\ handler'[w].pc = "data_mark"
          /\ handler'[w].at = handler[w].at
          /\ handler'[w].item = handler[w].item
          /\ handler'[w].attached
      BY <2>2, <3>1, HandlerFacts DEF Handler
    <3>3. handler[w].item <= row'.next
      BY <1>3, <2>1, <3>1 DEF Items
    <3>4. QED
      BY <3>1, <3>2, <3>3 DEF HandlerKnows, AnswerSteps, RatingSteps
  <2>5. QED
    BY <2>1, <2>2, <2>3, <2>4, UnlockedStep
<1>4. QED
  BY <1>2, <1>3 DEF RouteRead

LEMMA DataSteps ==
    ASSUME InductiveInvariant, NEW w \in Workers,
           \/ \E i \in Instances, q \in Items :
                  DataRequest(w, i, q) \/ SoundReferenceRequest(w, i, q)
           \/ DataRead(w) \/ SoundReferenceRead(w) \/ DataMark(w)
    PROVE  InductiveInvariant'
<1>1. ASSUME NEW i \in Instances, NEW q \in Items,
             DataRequest(w, i, q) \/ SoundReferenceRequest(w, i, q)
      PROVE  InductiveInvariant'
  BY <1>1, RouteRequestStep DEF DataRequest, SoundReferenceRequest, RouteReads
<1>2. CASE DataRead(w)
  BY <1>2, RouteReadStep DEF DataRead, RouteReads
<1>3. CASE SoundReferenceRead(w)
  BY <1>3, RouteReadStep DEF SoundReferenceRead, RouteReads
<1>4. CASE DataMark(w)
  BY <1>4, ExecuteAndReturn DEF DataMark, Waits, WriteSteps, MarkSteps
<1>5. QED
  BY <1>1, <1>2, <1>3, <1>4

(* The tools read the row, then wait for a statement about the question they *)
(* found there.                                                              *)
LEMMA McpReadStep ==
    ASSUME InductiveInvariant, NEW w \in Workers, NEW readStep, NEW ready,
           NEW writeStep \in {"mcp_answer_write", "mcp_feedback_write", "mcp_data_mark"},
           McpRead(w, readStep, ready, writeStep),
           readStep # "idle",
           ready => IF writeStep = "mcp_feedback_write" THEN row.next >= TotalItems
                                                        ELSE row.next < TotalItems
    PROVE  InductiveInvariant'
<1>1. CASE Refuse(w)
  BY <1>1, RefuseStep
<1>2. CASE ~Refuse(w)
  <2>. DEFINE plan == IF row.next < TotalItems THEN row.next ELSE NoItem
              r == [handler[w] EXCEPT !.pc = writeStep, !.item = row.next, !.plan = plan]
  <2>1. /\ Waits(w, readStep)
        /\ ready
        /\ handler' = [handler EXCEPT ![w] = r]
        /\ UNCHANGED <<row, runtime, lock, answered>>
    BY <1>2, HandlerFacts DEF McpRead
  <2>2. /\ row.next \in Cursors
        /\ plan \in Items \union {NoItem}
        /\ row.next < TotalItems => plan = row.next /\ row.next \in Items
    BY RowOfInvariant, PlanLength DEF Cursors, Items
  <2>. HIDE DEF plan
  <2>3. r \in Handler
    BY <2>2, HandlerFacts DEF Handler, Steps, WriteSteps, MarkSteps, AnswerSteps, RatingSteps
  <2>4. /\ r.pc = writeStep
        /\ r.at = handler[w].at
        /\ r.item = row.next
        /\ r.plan = plan
        /\ r.attached
    BY <2>1, HandlerFacts DEF Handler, Waits
  <2>5. handler'[w] = r
    BY <2>1, HandlerFacts
  <2>6. handler[w].at \in Instances
    BY <2>1, HandlerFacts DEF HandlerKnows, Waits
  <2>. HIDE DEF r
  <2>7. HandlerKnows(w)'
    <3>1. row'.next = row.next /\ row.next <= row.next
      BY <2>1, <2>2, PlanLength DEF Cursors
    <3>2. CASE writeStep = "mcp_feedback_write"
      <4>1. row.next = TotalItems
        BY <2>1, <2>2, <3>2, PlanLength DEF Cursors
      <4>2. QED
        BY <2>4, <2>5, <2>6, <3>1, <3>2, <4>1
           DEF HandlerKnows, RouteReads, AnswerSteps, MarkSteps, RatingSteps
    <3>3. CASE writeStep # "mcp_feedback_write"
      <4>1. row.next \in Items /\ plan = row.next
        BY <2>1, <2>2, <3>3
      <4>2. QED
        BY <2>4, <2>5, <2>6, <3>1, <3>3, <4>1
           DEF HandlerKnows, AnswerSteps, MarkSteps, RatingSteps
    <3>4. QED
      BY <3>2, <3>3
  <2>8. r.pc \notin LockedSteps
    BY <2>4 DEF LockedSteps
  <2>9. QED
    BY <2>1, <2>3, <2>5, <2>7, <2>8, UnlockedStep DEF r
<1>3. QED
  BY <1>1, <1>2

LEMMA McpSteps ==
    ASSUME InductiveInvariant, NEW w \in Workers,
           \/ \E i \in Instances, right, tools \in BOOLEAN,
                 step \in {"mcp_answer_read", "mcp_feedback_read", "mcp_data_read"} :
                    McpCall(w, i, step, right, tools)
           \/ McpAnswerRead(w) \/ McpAnswerWrite(w) \/ McpMark(w)
           \/ McpFeedbackRead(w) \/ McpFeedbackWrite(w)
           \/ McpDataRead(w) \/ McpDataMark(w)
    PROVE  InductiveInvariant'
<1>1. ASSUME NEW i \in Instances, NEW right \in BOOLEAN, NEW tools \in BOOLEAN,
             NEW step \in {"mcp_answer_read", "mcp_feedback_read", "mcp_data_read"},
             McpCall(w, i, step, right, tools)
      PROVE  InductiveInvariant'
  <2>. DEFINE r == [Idle EXCEPT !.pc = step, !.at = i, !.right = right, !.tools = tools]
  <2>1. UNCHANGED <<row, runtime, lock, answered>> /\ handler' = [handler EXCEPT ![w] = r]
    BY <1>1 DEF McpCall
  <2>2. r \in Handler
    BY IdleTyped DEF Handler, Steps, ReadSteps
  <2>3. r.pc = step /\ r.at = i /\ r.attached
    BY DEF Idle
  <2>4. r.pc \in ReadSteps \ LockedSteps /\ r.pc \notin RouteReads
    BY <2>3 DEF ReadSteps, RouteReads, LockedSteps
  <2>. HIDE DEF r
  <2>5. QED
    BY <2>1, <2>2, <2>3, <2>4, ReadRequest
<1>2. CASE McpAnswerRead(w)
  BY <1>2, McpReadStep DEF McpAnswerRead
<1>3. CASE McpAnswerWrite(w)
  <2>1. CASE Refuse(w)
    BY <2>1, RefuseStep
  <2>2. CASE Execute(handler[w]) /\ Return(w) /\ UNCHANGED runtime
    BY <1>3, <2>2, ExecuteAndReturn DEF McpAnswerWrite, Waits, WriteSteps, AnswerSteps
  <2>3. CASE Execute(handler[w]) /\ Continue(w, "mcp_mark") /\ UNCHANGED runtime
    <3>. DEFINE r == [handler[w] EXCEPT !.pc = "mcp_mark"]
    <3>1. /\ Waits(w, "mcp_answer_write")
          /\ handler[w].pc \in WriteSteps
          /\ handler[w].pc \in AnswerSteps
          /\ handler' = [handler EXCEPT ![w] = r]
          /\ UNCHANGED lock
      BY <1>3, <2>3 DEF McpAnswerWrite, Waits, Continue, WriteSteps, AnswerSteps
    <3>2. RowInvariant' /\ RowGrows
      BY <2>3, <3>1, ExecuteKeepsRow
    <3>3. /\ runtime' \in [Instances -> RuntimeSession]
          /\ \A j \in Instances : RuntimeBehind(j)'
      BY <2>3, <3>2, RuntimesStay
    <3>4. r \in Handler /\ handler'[w] = r
      BY <3>1, HandlerFacts DEF Handler, Steps, WriteSteps, MarkSteps
    <3>5. /\ handler'[w].pc = "mcp_mark"
          /\ handler'[w].at = handler[w].at
          /\ handler'[w].item = handler[w].item
          /\ handler'[w].attached
      BY <3>1, <3>4, HandlerFacts DEF Handler, Waits
    <3>6. /\ handler[w].item \in Items
          /\ handler[w].item <= row.next
          /\ handler[w].at \in Instances
      BY <3>1, HandlerFacts DEF HandlerKnows, Waits
    <3>7. handler[w].item \in answered' /\ handler[w].item <= row'.next
      BY <2>3, <3>1, <3>2, <3>6, RowOfInvariant
         DEF Execute, RowGrows, RowInvariant, Row, Cursors, Items
    <3>8. HandlerKnows(w)'
      BY <3>5, <3>6, <3>7 DEF HandlerKnows, AnswerSteps, RatingSteps
    <3>9. CursorProtected(w)'
      BY <3>5 DEF CursorProtected, LockedSteps
    <3>10. QED
      BY <2>3, <3>1, <3>2, <3>3, <3>4, <3>8, <3>9, ContinueStep
  <2>4. QED
    BY <1>3, <2>1, <2>2, <2>3 DEF McpAnswerWrite
<1>4. CASE McpMark(w)
  BY <1>4, ExecuteAndReturn DEF McpMark, Waits, WriteSteps, MarkSteps
<1>5. CASE McpFeedbackRead(w)
  BY <1>5, McpReadStep DEF McpFeedbackRead
<1>6. CASE McpFeedbackWrite(w)
  <2>1. CASE Refuse(w)
    BY <2>1, RefuseStep
  <2>2. CASE Execute(handler[w]) /\ Return(w) /\ UNCHANGED runtime
    BY <1>6, <2>2, ExecuteAndReturn DEF McpFeedbackWrite, Waits, WriteSteps, RatingSteps
  <2>3. QED
    BY <1>6, <2>1, <2>2 DEF McpFeedbackWrite
<1>7. CASE McpDataRead(w)
  BY <1>7, McpReadStep DEF McpDataRead
<1>8. CASE McpDataMark(w)
  BY <1>8, ExecuteAndReturn DEF McpDataMark, Waits, WriteSteps, MarkSteps
<1>9. QED
  BY <1>1, <1>2, <1>3, <1>4, <1>5, <1>6, <1>7, <1>8

-----------------------------------------------------------------------------
(* Failures.                                                                 *)

LEMMA DetachSteps ==
    ASSUME InductiveInvariant, NEW w \in Workers,
           Abandon(w) \/ Detach(w) \/ LateEffect(w)
    PROVE  InductiveInvariant'
<1>1. CASE Abandon(w)
  BY <1>1, RefuseStep DEF Abandon
<1>2. CASE Detach(w)
  <2>. DEFINE r == [handler[w] EXCEPT !.attached = FALSE]
  <2>1. /\ handler[w].pc \in WriteSteps
        /\ handler' = [handler EXCEPT ![w] = r]
        /\ lock' = [i \in Instances |-> IF lock[i] = w THEN Nobody ELSE lock[i]]
        /\ UNCHANGED <<row, answered>>
        /\ UNCHANGED runtime
    BY <1>2 DEF Detach, Unlocked
  <2>2. RowInvariant /\ RowInvariant' /\ RowGrows
    BY <2>1, RowOfInvariant, RowUnchanged
  <2>3. /\ runtime' \in [Instances -> RuntimeSession]
        /\ \A j \in Instances : RuntimeBehind(j)'
    BY <2>1, <2>2, RuntimesStay
  <2>4. lock \in [Instances -> Workers \union {Nobody}]
    BY DEF InductiveInvariant, TypeOK
  <2>5. /\ lock' \in [Instances -> Workers \union {Nobody}]
        /\ \A j \in Instances : lock[j] \notin {w, Nobody} =>
                lock'[j] = lock[j] /\ runtime'[j] = runtime[j]
    BY <2>1, <2>4
  <2>6. r \in Handler /\ handler'[w] = r
    BY <2>1, HandlerFacts DEF Handler
  <2>7. /\ handler'[w].pc = handler[w].pc
        /\ handler'[w].at = handler[w].at
        /\ handler'[w].item = handler[w].item
        /\ handler'[w].plan = handler[w].plan
        /\ ~handler'[w].attached
    BY <2>6, HandlerFacts DEF Handler
  <2>8. HandlerKnows(w)'
    BY <2>1, <2>7, HandlerFacts DEF HandlerKnows
  <2>9. CursorProtected(w)'
    BY <2>7 DEF CursorProtected
  <2>10. handler' = [handler EXCEPT ![w] = handler'[w]]
    BY <2>1, <2>6
  <2>11. QED
    BY <2>2, <2>3, <2>5, <2>6, <2>8, <2>9, <2>10, WorkerStep
<1>3. CASE LateEffect(w)
  <2>1. handler[w].pc \in WriteSteps /\ Return(w) /\ UNCHANGED runtime
    BY <1>3, HandlerFacts DEF LateEffect, HandlerKnows
  <2>2. CASE Execute(handler[w])
    BY <2>1, <2>2, ExecuteAndReturn
  <2>3. CASE UNCHANGED <<row, answered>>
    BY <2>1, <2>3, RefuseStep DEF Refuse
  <2>4. QED
    BY <1>3, <2>2, <2>3 DEF LateEffect
<1>4. QED
  BY <1>1, <1>2, <1>3

(* A crash empties one instance.  The statements on their way outlive it, and *)
(* what their handlers knew of the row stays true.                            *)
LEMMA CrashStep ==
    ASSUME InductiveInvariant, NEW i \in Instances, Crash(i)
    PROVE  InductiveInvariant'
<1>1. /\ runtime' = [runtime EXCEPT ![i] = Unloaded]
      /\ lock' = [lock EXCEPT ![i] = Nobody]
      /\ handler' = [w \in Workers |->
                       IF handler[w].at # i THEN handler[w]
                       ELSE IF handler[w].pc \in WriteSteps
                            THEN [handler[w] EXCEPT !.attached = FALSE] ELSE Idle]
      /\ UNCHANGED <<row, answered>>
  BY DEF Crash
<1>2. RowInvariant /\ RowInvariant' /\ RowGrows
  BY <1>1, RowOfInvariant, RowUnchanged
<1>3. Unloaded \in RuntimeSession /\ ~Unloaded.loaded
  BY PlanLength DEF Unloaded, RuntimeSession, Cursors
<1>4. /\ runtime' \in [Instances -> RuntimeSession]
      /\ lock' \in [Instances -> Workers \union {Nobody}]
  BY <1>1, <1>3, InstanceFacts
<1>5. ASSUME NEW j \in Instances
      PROVE  RuntimeBehind(j)'
  <2>1. CASE j = i
    BY <1>1, <1>3, <2>1, InstanceFacts DEF RuntimeBehind
  <2>2. CASE j # i
    BY <1>1, <1>2, <2>2, InstanceFacts, RuntimeStays
  <2>3. QED
    BY <2>1, <2>2
<1>6. ASSUME NEW w \in Workers
      PROVE  handler'[w] \in Handler /\ HandlerKnows(w)' /\ CursorProtected(w)'
  <2>1. CASE handler[w].at # i
    <3>1. handler'[w] = handler[w]
      BY <1>1, <2>1
    <3>2. HandlerKnows(w)'
      BY <1>2, <3>1, HandlerFacts, HandlerStays
    <3>3. CursorProtected(w)'
      <4>1. SUFFICES ASSUME handler[w].attached, handler[w].pc \in LockedSteps
                     PROVE  CursorProtected(w)'
        BY <3>1 DEF CursorProtected
      <4>2. handler[w].at \in Instances
        BY <4>1, HandlerFacts DEF HandlerKnows, LockedSteps
      <4>3. /\ lock'[handler[w].at] = lock[handler[w].at]
            /\ runtime'[handler[w].at] = runtime[handler[w].at]
        BY <1>1, <2>1, <4>2, InstanceFacts
      <4>4. QED
        BY <3>1, <4>3, HandlerFacts DEF CursorProtected, Active
    <3>4. QED
      BY <3>1, <3>2, <3>3, HandlerFacts
  <2>2. CASE handler[w].at = i /\ handler[w].pc \in WriteSteps
    <3>1. handler'[w] = [handler[w] EXCEPT !.attached = FALSE]
      BY <1>1, <2>2
    <3>2. handler'[w] \in Handler
      BY <3>1, HandlerFacts DEF Handler
    <3>3. /\ handler'[w].pc = handler[w].pc
          /\ handler'[w].at = handler[w].at
          /\ handler'[w].item = handler[w].item
          /\ handler'[w].plan = handler[w].plan
          /\ ~handler'[w].attached
      BY <3>1, HandlerFacts DEF Handler
    <3>4. HandlerKnows(w)'
      BY <1>1, <2>2, <3>3, HandlerFacts DEF HandlerKnows
    <3>5. CursorProtected(w)'
      BY <3>3 DEF CursorProtected
    <3>6. QED
      BY <3>2, <3>4, <3>5
  <2>3. CASE handler[w].at = i /\ handler[w].pc \notin WriteSteps
    <3>1. handler'[w] = Idle
      BY <1>1, <2>3
    <3>2. QED
      BY <3>1, IdleKnowsNothing
  <2>4. QED
    BY <2>1, <2>2, <2>3
<1>7. handler' \in [Workers -> Handler]
  BY <1>1, <1>6
<1>8. TypeOK'
  BY <1>2, <1>4, <1>7 DEF TypeOK, RowInvariant
<1>9. QED
  BY <1>2, <1>5, <1>6, <1>8
     DEF InductiveInvariant, RowInvariant, RuntimeNeverLeads, LockProtectsCursor

-----------------------------------------------------------------------------
(* The theorems.                                                             *)

LEMMA InitEstablishes == Init => InductiveInvariant
<1>. SUFFICES ASSUME Init PROVE InductiveInvariant
  OBVIOUS
<1>1. PICK isHuman \in BOOLEAN :
         /\ row = NewRow(isHuman)
         /\ \A i \in Instances : runtime[i] \in {NewRuntime(0, NoItem), Unloaded}
         /\ runtime \in [Instances -> {NewRuntime(0, NoItem), Unloaded}]
  BY DEF Init
<1>2. /\ lock = [i \in Instances |-> Nobody]
      /\ handler = [w \in Workers |-> Idle]
      /\ answered = {}
  BY DEF Init
<1>3. /\ row \in Row
      /\ row.next = 0
      /\ ~row.completed
      /\ row.tools = {} /\ row.dataRoute = {} /\ row.dataMcp = {}
  BY <1>1, PlanLength DEF NewRow, Row, Cursors
<1>4. {NewRuntime(0, NoItem), Unloaded} \subseteq RuntimeSession
  BY PlanLength DEF NewRuntime, Unloaded, RuntimeSession, Cursors
<1>5. TypeOK
  BY <1>1, <1>2, <1>3, <1>4, IdleTyped DEF TypeOK
<1>6. ProgressAccounted /\ CompletedAtEnd /\ MarkersReached
  BY <1>2, <1>3, PlanLength DEF ProgressAccounted, CompletedAtEnd, MarkersReached, Items
<1>7. RuntimeNeverLeads
  BY <1>1, <1>3 DEF RuntimeNeverLeads, RuntimeBehind, NewRuntime, Unloaded
<1>8. \A w \in Workers : HandlerKnows(w) /\ CursorProtected(w)
  BY <1>2 DEF HandlerKnows, RouteReads, CursorProtected, Idle, AnswerSteps, MarkSteps,
              RatingSteps, WriteSteps, LockedSteps
<1>9. QED
  BY <1>5, <1>6, <1>7, <1>8 DEF InductiveInvariant, LockProtectsCursor

LEMMA NextPreserves == InductiveInvariant /\ [Next]_vars => InductiveInvariant'
<1>. SUFFICES ASSUME InductiveInvariant, [Next]_vars PROVE InductiveInvariant'
  OBVIOUS
<1>1. ASSUME NEW i \in Instances, ResumeFromMemory(i) \/ Proceed(i)
      PROVE  InductiveInvariant'
  BY <1>1, MemorySteps
<1>2. ASSUME NEW w \in Workers, NEW i \in Instances, WebRequest(w, i)
      PROVE  InductiveInvariant'
  BY <1>2, PageSteps, RatingsSteps, SkipSteps, SubmitSteps DEF WebRequest
<1>3. ASSUME NEW w \in Workers, NEW i \in Instances, AgentRequest(w, i)
      PROVE  InductiveInvariant'
  BY <1>3, McpSteps, DataSteps DEF AgentRequest
<1>4. ASSUME NEW w \in Workers, HandlerStep(w)
      PROVE  InductiveInvariant'
  BY <1>4, PageSteps, SubmitSteps, SkipSteps, RatingsSteps, DataSteps, McpSteps, DetachSteps
     DEF HandlerStep
<1>5. CASE Fault
  BY <1>5, DetachSteps, CrashStep DEF Fault
<1>6. CASE UNCHANGED vars
  BY <1>6
     DEF vars, InductiveInvariant, TypeOK, ProgressAccounted, CompletedAtEnd, MarkersReached,
         RuntimeNeverLeads, RuntimeBehind, LockProtectsCursor, CursorProtected, Active,
         HandlerKnows
<1>7. QED
  BY <1>1, <1>2, <1>3, <1>4, <1>5, <1>6 DEF Next

(* The inductive invariant holds in every reachable state, for any number of *)
(* questions, servers and requests, and whatever requests and faults occur.  *)
THEOREM InvariantHolds == Spec => []InductiveInvariant
<1>1. Init => InductiveInvariant
  BY InitEstablishes
<1>2. InductiveInvariant /\ [Next]_vars => InductiveInvariant'
  BY NextPreserves
<1>3. QED
  BY <1>1, <1>2, PTL DEF Spec

(* The variables of the session keep their types; in particular no usage     *)
(* mark, cursor or cached task names a question outside the plan.            *)
THEOREM TypeCorrect == Spec => []TypeOK
<1>1. InductiveInvariant => TypeOK
  BY DEF InductiveInvariant
<1>2. QED
  BY <1>1, InvariantHolds, PTL

(* No question is jumped and none is recorded twice (record_answer and       *)
(* advance_session_cursor).                                                  *)
THEOREM NothingJumped == Spec => []ProgressAccounted
<1>1. InductiveInvariant => ProgressAccounted
  BY DEF InductiveInvariant
<1>2. QED
  BY <1>1, InvariantHolds, PTL

(* The ratings close a session only when every question is past, although    *)
(* store_ratings does not look at the cursor.                                *)
THEOREM ClosedAtEnd == Spec => []CompletedAtEnd
<1>1. InductiveInvariant => CompletedAtEnd
  BY DEF InductiveInvariant
<1>2. QED
  BY <1>1, InvariantHolds, PTL

(* No server shows more progress than the row has.                           *)
THEOREM MemoryBehindRow == Spec => []RuntimeNeverLeads
<1>1. InductiveInvariant => RuntimeNeverLeads
  BY DEF InductiveInvariant
<1>2. QED
  BY <1>1, InvariantHolds, PTL

(* The mutex that submit_route, skip_modality_route and ratings_route hold   *)
(* across their awaits keeps the cursor they checked where it was.           *)
THEOREM CursorStaysChecked == Spec => []LockProtectsCursor
<1>1. InductiveInvariant => LockProtectsCursor
  BY DEF InductiveInvariant
<1>2. QED
  BY <1>1, InvariantHolds, PTL

(* Usage marks name answered, or at least reached, questions.                *)
THEOREM MarksNameReachedQuestions == Spec => []MarkersReached
<1>1. InductiveInvariant => MarkersReached
  BY DEF InductiveInvariant
<1>2. QED
  BY <1>1, InvariantHolds, PTL

-----------------------------------------------------------------------------
(* The refinement of EvalProgress, and that the scores of a session count    *)
(* exactly its recorded answers.  Both look only at what a step does to the  *)
(* row: it leaves it alone or executes one statement.                        *)

(* A step leaves the row alone or executes the statement of one handler. *)
RowStep ==
    \/ UNCHANGED <<row, answered>>
    \/ \E w \in Workers : handler[w].pc \in WriteSteps /\ Execute(handler[w])

LEMMA EveryStepIsRowStep ==
    ASSUME InductiveInvariant, [Next]_vars
    PROVE  RowStep
<1>1. ASSUME NEW i \in Instances, ResumeFromMemory(i) \/ Proceed(i)
      PROVE  RowStep
  BY <1>1 DEF ResumeFromMemory, Proceed, RowStep
<1>2. ASSUME NEW w \in Workers, NEW i \in Instances, WebRequest(w, i)
      PROVE  RowStep
  BY <1>2 DEF WebRequest, Resume, Ratings, Skip, Submit, RowStep
<1>3. ASSUME NEW w \in Workers, NEW i \in Instances, AgentRequest(w, i)
      PROVE  RowStep
  BY <1>3 DEF AgentRequest, McpCall, DataRequest, SoundReferenceRequest, RouteRequest, RowStep
<1>4. ASSUME NEW w \in Workers, HandlerStep(w)
      PROVE  RowStep
  <2>1. CASE Refuse(w)
    BY <2>1 DEF Refuse, RowStep
  <2>2. CASE ResumeRead(w) \/ ResumeInsert(w)
    BY <2>2 DEF ResumeRead, ResumeInsert, Refuse, RowStep
  <2>3. CASE SubmitRead(w) \/ SkipRead(w) \/ DataRead(w) \/ SoundReferenceRead(w)
    BY <2>3 DEF SubmitRead, SkipRead, DataRead, SoundReferenceRead, RouteRead, Refuse, RowStep
  <2>4. CASE McpAnswerRead(w) \/ McpFeedbackRead(w) \/ McpDataRead(w)
    BY <2>4 DEF McpAnswerRead, McpFeedbackRead, McpDataRead, McpRead, Refuse, RowStep
  <2>5. CASE SubmitMark(w) \/ SkipMark(w) \/ DataMark(w) \/ McpMark(w) \/ McpDataMark(w)
    BY <2>5 DEF SubmitMark, SkipMark, DataMark, McpMark, McpDataMark, Waits, WriteSteps,
                MarkSteps, RowStep
  <2>6. CASE SubmitWrite(w) \/ McpAnswerWrite(w)
    BY <2>1, <2>6 DEF SubmitWrite, McpAnswerWrite, Waits, WriteSteps, AnswerSteps, RowStep
  <2>7. CASE SkipWrite(w) \/ RatingsWrite(w) \/ McpFeedbackWrite(w)
    BY <2>1, <2>7 DEF SkipWrite, RatingsWrite, McpFeedbackWrite, Waits, WriteSteps,
                      RatingSteps, RowStep
  <2>8. CASE LateEffect(w)
    BY <2>8, HandlerFacts DEF LateEffect, HandlerKnows, RowStep
  <2>9. QED
    BY <1>4, <2>2, <2>3, <2>4, <2>5, <2>6, <2>7, <2>8 DEF HandlerStep
<1>5. CASE Fault
  BY <1>5 DEF Fault, Abandon, Detach, Crash, Refuse, RowStep
<1>6. CASE UNCHANGED vars
  BY <1>6 DEF vars, RowStep
<1>7. QED
  BY <1>1, <1>2, <1>3, <1>4, <1>5, <1>6 DEF Next

(* What an answer, a skip, the ratings and a usage mark do to the row. *)
LEMMA StatementEffects ==
    ASSUME InductiveInvariant, NEW w \in Workers,
           handler[w].pc \in WriteSteps, Execute(handler[w])
    PROVE  LET r == handler[w] IN
           \/ /\ r.item \in Items /\ row.next = r.item /\ ~row.completed
              /\ row'.next = r.item + 1
              /\ row'.completed = row.completed
              /\ row'.score = [row.score EXCEPT ![ModalityOf(r.item)] = Credit(@, r.item, r.right)]
              /\ answered' = answered \union {r.item}
              /\ r.right \in BOOLEAN
           \/ /\ r.item \in Items /\ row.next = r.item /\ ~row.completed
              /\ row'.next = NextModalityStart(r.item)
              /\ row'.completed = row.completed
              /\ row'.score = row.score
              /\ answered' = answered
           \/ /\ row.next = TotalItems /\ ~row.completed
              /\ row'.completed = TRUE
              /\ row'.next = row.next
              /\ row'.score = row.score
              /\ answered' = answered
           \/ /\ row'.completed = row.completed
              /\ row'.next = row.next
              /\ row'.score = row.score
              /\ answered' = answered
<1>. DEFINE r == handler[w]
<1>1. row \in Row /\ row.next \in Cursors /\ Hits(r) /\ HandlerKnows(w) /\ r \in Handler
  BY RowOfInvariant, HandlerFacts DEF RowInvariant, Execute
<1>2. CASE r.pc \in AnswerSteps
  <2>1. row' = RecordAnswer(r) /\ answered' = answered \union {r.item}
    BY <1>2 DEF Execute, AnswerSteps, RatingSteps, MarkSteps
  <2>2. r.item \in Items /\ r.plan = r.item /\ row.next = r.item /\ ~row.completed
    BY <1>1, <1>2 DEF HandlerKnows, Hits
  <2>3. /\ row'.next = r.item + 1
        /\ row'.completed = row.completed
        /\ row'.score = [row.score EXCEPT ![ModalityOf(r.plan)] = Credit(@, r.plan, r.right)]
    BY <1>1, <2>1 DEF RecordAnswer, Row
  <2>4. r.right \in BOOLEAN
    BY <1>1 DEF Handler
  <2>5. QED
    BY <2>1, <2>2, <2>3, <2>4
<1>3. CASE r.pc = "skip_write"
  <2>1. row' = AdvanceCursor(r) /\ answered' = answered
    BY <1>3 DEF Execute, AnswerSteps, RatingSteps, MarkSteps
  <2>2. r.item \in Items /\ row.next = r.item /\ ~row.completed
    BY <1>1, <1>3 DEF HandlerKnows, Hits
  <2>3. QED
    BY <1>1, <2>1, <2>2 DEF AdvanceCursor, Row
<1>4. CASE r.pc \in RatingSteps
  <2>1. row' = StoreRatings /\ answered' = answered
    BY <1>4 DEF Execute, AnswerSteps, RatingSteps, MarkSteps
  <2>2. row.next = TotalItems /\ ~row.completed
    BY <1>1, <1>4 DEF HandlerKnows, Hits
  <2>3. QED
    BY <1>1, <2>1, <2>2 DEF StoreRatings, Row
<1>5. CASE r.pc \in MarkSteps
  <2>1. row' = AppendMarkers(r) /\ answered' = answered
    BY <1>5 DEF Execute, AnswerSteps, RatingSteps, MarkSteps
  <2>2. row'.completed = row.completed /\ row'.next = row.next /\ row'.score = row.score
    BY <1>1, <1>5, <2>1 DEF AppendMarkers, MarkSteps, Row
  <2>3. QED
    BY <2>1, <2>2
<1>6. QED
  BY <1>2, <1>3, <1>4, <1>5 DEF WriteSteps

-----------------------------------------------------------------------------
(* Refinement.                                                               *)

(* EvalProgress asks the same questions: its plan is the session's. *)
LEMMA SamePlan ==
    /\ Progress!PerModality = PerModality
    /\ Progress!TotalItems = TotalItems
    /\ Progress!Items = Items
    /\ Progress!Cursors = Cursors
    /\ Progress!Modalities = Modalities
    /\ \A item : Progress!ModalityOf(item) = ModalityOf(item)
    /\ \A item : Progress!IsScored(item) = IsScored(item)
    /\ \A item : Progress!NextModalityStart(item) = NextModalityStart(item)
    /\ \A item : Progress!SkippedIndices(item) = SkippedIndices(item)
    /\ \A tally, item, right : Progress!Credit(tally, item, right) = Credit(tally, item, right)
<1>1. Progress!PerModality = PerModality
  BY DEF Progress!PerModality, PerModality
<1>2. Progress!TotalItems = TotalItems
  BY <1>1 DEF Progress!TotalItems, TotalItems
<1>3. /\ Progress!Items = Items
      /\ Progress!Cursors = Cursors
      /\ Progress!Modalities = Modalities
  BY <1>2 DEF Progress!Items, Items, Progress!Cursors, Cursors, Progress!Modalities, Modalities
<1>4. \A item : Progress!ModalityOf(item) = ModalityOf(item)
  BY <1>1 DEF Progress!ModalityOf, ModalityOf
<1>5. \A item : Progress!IsScored(item) = IsScored(item)
  BY <1>1 DEF Progress!IsScored, IsScored
<1>6. \A item : Progress!NextModalityStart(item) = NextModalityStart(item)
  BY <1>1, <1>2, <1>4 DEF Progress!NextModalityStart, NextModalityStart
<1>7. \A item : Progress!SkippedIndices(item) = SkippedIndices(item)
  BY <1>6 DEF Progress!SkippedIndices, SkippedIndices
<1>8. \A tally, item, right : Progress!Credit(tally, item, right) = Credit(tally, item, right)
  BY <1>5 DEF Progress!Credit, Credit
<1>9. QED
  BY <1>1, <1>2, <1>3, <1>4, <1>5, <1>6, <1>7, <1>8

LEMMA InitRefines == Init => Progress!Init
<1>. SUFFICES ASSUME Init PROVE Progress!Init
  OBVIOUS
<1>1. PICK isHuman \in BOOLEAN : row = NewRow(isHuman)
  BY DEF Init
<1>2. /\ row.next = 0
      /\ row.score = [m \in Modalities |-> [correct |-> 0, wrong |-> 0]]
      /\ row.completed = FALSE
  BY <1>1 DEF NewRow
<1>3. \A item \in Items : Outcome(item) = "open"
  BY <1>2, PlanLength DEF Outcome, Items
<1>4. QED
  BY <1>2, <1>3, SamePlan DEF Progress!Init

LEMMA StepRefines ==
    ASSUME InductiveInvariant, InductiveInvariant', [Next]_vars
    PROVE  [Progress!Next]_(Progress!vars)
<1>1. /\ row.next \in Cursors
      /\ row'.next \in Cursors
      /\ answered \subseteq Items
      /\ \A item \in answered : item < row.next
      /\ row.completed \in BOOLEAN
      /\ row.score \in [Modalities -> [correct : Nat, wrong : Nat]]
  BY DEF InductiveInvariant, TypeOK, Row, ProgressAccounted
<1>2. TotalItems \in Nat \ {0}
  BY PlanLength
<1>3. CASE UNCHANGED <<row, answered>>
  <2>1. \A item \in Items : Outcome(item)' = Outcome(item)
    BY <1>3 DEF Outcome
  <2>2. QED
    BY <1>3, <2>1 DEF Progress!vars
<1>4. ASSUME NEW w \in Workers, handler[w].pc \in WriteSteps, Execute(handler[w])
      PROVE  [Progress!Next]_(Progress!vars)
  <2>1. CASE \E item \in Items, right \in BOOLEAN :
               /\ row.next = item /\ ~row.completed
               /\ row'.next = item + 1
               /\ row'.completed = row.completed
               /\ row'.score = [row.score EXCEPT ![ModalityOf(item)] = Credit(@, item, right)]
               /\ answered' = answered \union {item}
    <3>1. PICK item \in Items, right \in BOOLEAN :
               /\ row.next = item /\ ~row.completed
               /\ row'.next = item + 1
               /\ row'.completed = row.completed
               /\ row'.score = [row.score EXCEPT ![ModalityOf(item)] = Credit(@, item, right)]
               /\ answered' = answered \union {item}
      BY <2>1
    <3>2. ASSUME NEW k \in Items
          PROVE  Outcome(k)' = IF k = item THEN "answered" ELSE Outcome(k)
      BY <1>1, <1>2, <3>1, <3>2 DEF Outcome, Items, Cursors
    <3>3. [k \in Items |-> Outcome(k)]'
             = [[k \in Items |-> Outcome(k)] EXCEPT ![item] = "answered"]
      BY <3>2
    <3>4. Progress!Answer(right)
      BY <1>2, <3>1, <3>3, SamePlan DEF Progress!Answer, Items
    <3>5. QED
      BY <3>4 DEF Progress!Next
  <2>2. CASE \E item \in Items :
               /\ row.next = item /\ ~row.completed
               /\ row'.next = NextModalityStart(item)
               /\ row'.completed = row.completed
               /\ row'.score = row.score
               /\ answered' = answered
    <3>1. PICK item \in Items :
               /\ row.next = item /\ ~row.completed
               /\ row'.next = NextModalityStart(item)
               /\ row'.completed = row.completed
               /\ row'.score = row.score
               /\ answered' = answered
      BY <2>2
    <3>2. /\ item < NextModalityStart(item)
          /\ NextModalityStart(item) \in Cursors
          /\ SkippedIndices(item) = {k \in Items : item <= k /\ k < NextModalityStart(item)}
      BY SkipMovesForward
    <3>3. ASSUME NEW k \in Items
          PROVE  Outcome(k)' = IF k \in SkippedIndices(item) THEN "skipped" ELSE Outcome(k)
      BY <1>1, <1>2, <3>1, <3>2, <3>3 DEF Outcome, Items, Cursors
    <3>4. [k \in Items |-> Outcome(k)]'
             = [k \in Items |-> IF k \in SkippedIndices(item) THEN "skipped"
                                ELSE [j \in Items |-> Outcome(j)][k]]
      BY <3>3
    <3>5. Progress!SkipModality
      BY <1>2, <3>1, <3>4, SamePlan DEF Progress!SkipModality, Items
    <3>6. QED
      BY <3>5 DEF Progress!Next
  <2>3. CASE /\ row.next = TotalItems /\ ~row.completed
             /\ row'.completed = TRUE
             /\ row'.next = row.next
             /\ row'.score = row.score
             /\ answered' = answered
    <3>1. \A k \in Items : Outcome(k)' = Outcome(k)
      BY <2>3 DEF Outcome
    <3>2. Progress!Finish
      BY <2>3, <3>1, SamePlan DEF Progress!Finish
    <3>3. QED
      BY <3>2 DEF Progress!Next
  <2>4. CASE /\ row'.completed = row.completed
             /\ row'.next = row.next
             /\ row'.score = row.score
             /\ answered' = answered
    <3>1. \A k \in Items : Outcome(k)' = Outcome(k)
      BY <2>4 DEF Outcome
    <3>2. QED
      BY <2>4, <3>1 DEF Progress!vars
  <2>5. QED
    BY <1>4, <2>1, <2>2, <2>3, <2>4, StatementEffects
<1>5. QED
  BY <1>3, <1>4, EveryStepIsRowStep DEF RowStep

(* The detailed system implements the abstract session: whatever the servers, *)
(* tabs and agents do, the row passes the questions in order, each by one     *)
(* answer or one skip, counts what was answered and closes at the end.        *)
THEOREM SessionImplementsProgress == Spec => ImplementsProgress
<1>1. Init => Progress!Init
  BY InitRefines
<1>2. InductiveInvariant /\ InductiveInvariant' /\ [Next]_vars => [Progress!Next]_(Progress!vars)
  BY StepRefines
<1>3. QED
  BY <1>1, <1>2, InvariantHolds, PTL DEF Spec, ImplementsProgress, Progress!Spec

-----------------------------------------------------------------------------
(* Scores.                                                                   *)

(* The scored questions are finitely many. *)
LEMMA ScoredItemsFinite ==
    ASSUME NEW m, NEW S
    PROVE  /\ IsFiniteSet(ScoredItems(m) \intersect S)
           /\ Cardinality(ScoredItems(m) \intersect S) \in Nat
<1>1. IsFiniteSet(Items)
  BY PlanLength, FS_Interval DEF Items
<1>2. ScoredItems(m) \intersect S \subseteq Items
  BY DEF ScoredItems
<1>3. QED
  BY <1>1, <1>2, FS_Subset, FS_CardinalityType

LEMMA ScoresKept ==
    ASSUME InductiveInvariant, ScoresMatchAnswers, [Next]_vars
    PROVE  ScoresMatchAnswers'
<1>1. /\ answered \subseteq Items
      /\ \A item \in answered : item < row.next
      /\ row.score \in [Modalities -> [correct : Nat, wrong : Nat]]
  BY DEF InductiveInvariant, TypeOK, Row, ProgressAccounted
<1>2. CASE row'.score = row.score /\ answered' = answered
  BY <1>2 DEF ScoresMatchAnswers
<1>3. CASE \E item \in Items, right \in BOOLEAN :
             /\ row.next = item
             /\ row'.score = [row.score EXCEPT ![ModalityOf(item)] = Credit(@, item, right)]
             /\ answered' = answered \union {item}
  <2>1. PICK item \in Items, right \in BOOLEAN :
             /\ row.next = item
             /\ row'.score = [row.score EXCEPT ![ModalityOf(item)] = Credit(@, item, right)]
             /\ answered' = answered \union {item}
    BY <1>3
  <2>2. item \notin answered
    BY <1>1, <2>1 DEF Items
  <2>3. ASSUME NEW m \in Modalities
        PROVE  row'.score[m].correct + row'.score[m].wrong
                  = Cardinality(ScoredItems(m) \intersect answered')
    <3>. DEFINE S == ScoredItems(m) \intersect answered
    <3>1. /\ row.score[m] \in [correct : Nat, wrong : Nat]
          /\ row.score[m].correct + row.score[m].wrong = Cardinality(S)
          /\ IsFiniteSet(S)
      BY <1>1, ScoredItemsFinite DEF ScoresMatchAnswers
    <3>2. CASE ModalityOf(item) = m /\ IsScored(item)
      <4>1. ScoredItems(m) \intersect answered' = S \union {item} /\ item \notin S
        BY <2>1, <2>2, <3>2 DEF ScoredItems
      <4>2. Cardinality(S \union {item}) = Cardinality(S) + 1
        BY <3>1, <4>1, FS_AddElement
      <4>3. row'.score[m] = Credit(row.score[m], item, right)
        BY <1>1, <2>1, <3>2
      <4>4. row'.score[m].correct + row'.score[m].wrong
               = row.score[m].correct + row.score[m].wrong + 1
        BY <3>1, <3>2, <4>3 DEF Credit
      <4>5. QED
        BY <3>1, <4>1, <4>2, <4>4
    <3>3. CASE ~(ModalityOf(item) = m /\ IsScored(item))
      <4>1. ScoredItems(m) \intersect answered' = S
        BY <2>1, <3>3 DEF ScoredItems
      <4>2. CASE ModalityOf(item) = m
        <5>1. row'.score[m] = Credit(row.score[m], item, right)
          BY <1>1, <2>1, <4>2
        <5>2. row'.score[m].correct + row'.score[m].wrong
                 = row.score[m].correct + row.score[m].wrong
          BY <3>1, <3>3, <4>2, <5>1 DEF Credit
        <5>3. QED
          BY <3>1, <4>1, <5>2
      <4>3. CASE ModalityOf(item) # m
        <5>1. row'.score[m] = row.score[m]
          BY <1>1, <2>1, <4>3
        <5>2. QED
          BY <3>1, <4>1, <5>1
      <4>4. QED
        BY <4>2, <4>3
    <3>4. QED
      BY <3>2, <3>3
  <2>4. QED
    BY <2>3 DEF ScoresMatchAnswers
<1>4. QED
  BY <1>2, <1>3, EveryStepIsRowStep, StatementEffects DEF RowStep

(* The counters of every modality are the number of its scored questions     *)
(* that were answered: record_answer credits each answer once, to the        *)
(* modality of the question it was given to, and practice answers to none.   *)
THEOREM ScoresAreExact == Spec => []ScoresMatchAnswers
<1>1. Init => ScoresMatchAnswers
  <2>1. SUFFICES ASSUME Init PROVE ScoresMatchAnswers
    OBVIOUS
  <2>2. PICK isHuman \in BOOLEAN : row = NewRow(isHuman)
    BY <2>1 DEF Init
  <2>3. \A m : Cardinality(ScoredItems(m) \intersect answered) = 0
    BY <2>1, FS_EmptySet DEF Init
  <2>4. QED
    BY <2>2, <2>3 DEF NewRow, ScoresMatchAnswers
<1>2. InductiveInvariant /\ ScoresMatchAnswers /\ [Next]_vars => ScoresMatchAnswers'
  BY ScoresKept
<1>3. QED
  BY <1>1, <1>2, InvariantHolds, PTL DEF Spec

-----------------------------------------------------------------------------
(* Skips.  With one server, web requests only and no failures, the mutex     *)
(* keeps everybody else from moving the cursor between the two statements of *)
(* a skip, so a question is marked as skipped only while no answer to it can *)
(* be recorded.                                                              *)

OneServer == \E i : Instances = {i}
WebOnly == "mcp" \notin Requests /\ Faults = {}

AgentSteps == {"mcp_answer_read", "mcp_answer_write", "mcp_mark", "mcp_feedback_read",
              "mcp_feedback_write", "mcp_data_read", "mcp_data_mark"}

(* Skipped questions are past, or about to be by the skip that marked them.  *)
SkipUndisturbed ==
    /\ \A w \in Workers : handler[w].attached /\ handler[w].pc \notin AgentSteps
    /\ \A w \in Workers : handler[w].pc \in {"skip_mark", "skip_write"} =>
           row.next = handler[w].item /\ ~row.completed
    /\ \A q \in row.skipped :
           \/ q < row.next
           \/ \E w \in Workers : handler[w].pc = "skip_write" /\ q \in SkippedIndices(handler[w].item)
    /\ SkippedNotAnswered

(* Only one handler at a time is between the lock and the unlock. *)
LEMMA OneLocked ==
    ASSUME InductiveInvariant, OneServer, SkipUndisturbed, NEW v \in Workers, NEW w \in Workers,
           handler[v].pc \in LockedSteps, handler[w].pc \in LockedSteps
    PROVE  v = w
<1>1. /\ handler[v].at \in Instances /\ handler[w].at \in Instances
      /\ lock[handler[v].at] = v /\ lock[handler[w].at] = w
  BY HandlerFacts DEF SkipUndisturbed, HandlerKnows, CursorProtected, LockedSteps
<1>2. QED
  BY <1>1 DEF OneServer

(* A worker moves on and the row stays: nothing is between the statements    *)
(* of a skip that was not there before.                                      *)
LEMMA QuietSkip ==
    ASSUME InductiveInvariant, SkipUndisturbed, UNCHANGED <<row, answered>>, NEW w \in Workers,
           NEW r, handler' = [handler EXCEPT ![w] = r],
           r.attached, r.pc \notin AgentSteps, handler[w].pc # "skip_write", r.pc # "skip_write",
           r.pc = "skip_mark" => row.next = r.item /\ ~row.completed
    PROVE  SkipUndisturbed'
<1>1. handler'[w] = r /\ \A v \in Workers \ {w} : handler'[v] = handler[v]
  BY HandlerFacts
<1>2. \A v \in Workers : handler'[v].attached /\ handler'[v].pc \notin AgentSteps
  BY <1>1 DEF SkipUndisturbed
<1>3. \A v \in Workers : handler'[v].pc \in {"skip_mark", "skip_write"} =>
           row'.next = handler'[v].item /\ ~row'.completed
  BY <1>1 DEF SkipUndisturbed
<1>4. ASSUME NEW q \in row'.skipped
      PROVE  \/ q < row'.next
             \/ \E v \in Workers : handler'[v].pc = "skip_write" /\ q \in SkippedIndices(handler'[v].item)
  BY <1>1 DEF SkipUndisturbed
<1>5. SkippedNotAnswered'
  BY DEF SkipUndisturbed, SkippedNotAnswered
<1>6. QED
  BY <1>2, <1>3, <1>4, <1>5 DEF SkipUndisturbed

LEMMA QuietReturn ==
    ASSUME InductiveInvariant, SkipUndisturbed, NEW w \in Workers, Return(w),
           UNCHANGED <<row, answered>>, handler[w].pc # "skip_write"
    PROVE  SkipUndisturbed'
<1>1. handler' = [handler EXCEPT ![w] = Idle]
  BY DEF Return
<1>2. Idle.attached /\ Idle.pc = "idle" /\ Idle.pc \notin AgentSteps
  BY DEF Idle, AgentSteps
<1>3. QED
  BY <1>1, <1>2, QuietSkip

(* A statement of a worker while no other is between those of a skip.        *)
LEMMA StatementSkip ==
    ASSUME InductiveInvariant, SkipUndisturbed, NEW w \in Workers,
           NEW r, handler' = [handler EXCEPT ![w] = r],
           r.attached, r.pc \notin AgentSteps, r.pc \notin {"skip_mark", "skip_write"},
           \A v \in Workers \ {w} : handler[v].pc \notin {"skip_mark", "skip_write"},
           \A q \in row'.skipped : q < row'.next,
           SkippedNotAnswered'
    PROVE  SkipUndisturbed'
<1>1. handler'[w] = r /\ \A v \in Workers \ {w} : handler'[v] = handler[v]
  BY HandlerFacts
<1>2. QED
  BY <1>1 DEF SkipUndisturbed

(* Requests, and the steps that only read the row.                           *)
LEMMA SkipRequests ==
    ASSUME InductiveInvariant, SkipUndisturbed, WebOnly, NEW w \in Workers, NEW i \in Instances,
           WebRequest(w, i) \/ AgentRequest(w, i)
    PROVE  SkipUndisturbed'
<1>. DEFINE Sends(r) == /\ handler[w].pc = "idle" /\ UNCHANGED <<row, answered>>
                       /\ handler' = [handler EXCEPT ![w] = r]
                       /\ r.attached /\ r.pc \notin AgentSteps \union {"skip_mark", "skip_write"}
<1>1. ASSUME NEW r, Sends(r)
      PROVE  SkipUndisturbed'
  BY <1>1, QuietSkip
<1>. HIDE DEF Sends
<1>2. CASE Resume(w, i) \/ Ratings(w, i)
  <2>1. PICK step \in {"resume_read", "ratings_write"} : Request(w, i, step)
    BY <1>2 DEF Resume, Ratings
  <2>. DEFINE r == [Idle EXCEPT !.pc = step, !.at = i]
  <2>2. r.attached /\ r.pc = step
    BY DEF Idle
  <2>3. Sends(r)
    BY <1>2, <2>1, <2>2 DEF Sends, Request, Resume, Ratings, AgentSteps
  <2>4. QED
    BY <1>1, <2>3
<1>3. CASE Skip(w, i)
  <2>. DEFINE r == [Idle EXCEPT !.pc = "skip_read", !.at = i, !.item = runtime[i].index]
  <2>1. r.attached /\ r.pc = "skip_read"
    BY DEF Idle
  <2>2. Sends(r)
    BY <1>3, <2>1 DEF Sends, Skip, AgentSteps
  <2>3. QED
    BY <1>1, <2>2
<1>4. ASSUME NEW q \in Items, NEW right \in BOOLEAN, NEW tools \in BOOLEAN,
             Submit(w, i, q, right, tools)
      PROVE  SkipUndisturbed'
  <2>. DEFINE r == [Idle EXCEPT !.pc = "submit_read", !.at = i, !.item = q,
                                !.plan = PlanFor(runtime[i], q),
                                !.right = right, !.tools = tools]
  <2>1. r.attached /\ r.pc = "submit_read"
    BY DEF Idle
  <2>2. Sends(r)
    BY <1>4, <2>1 DEF Sends, Submit, AgentSteps
  <2>3. QED
    BY <1>1, <2>2
<1>5. ASSUME NEW q \in Items, DataRequest(w, i, q) \/ SoundReferenceRequest(w, i, q)
      PROVE  SkipUndisturbed'
  <2>1. PICK step \in {"data_read", "sound_read"} : RouteRequest(w, i, q, step)
    BY <1>5 DEF DataRequest, SoundReferenceRequest
  <2>. DEFINE r == [Idle EXCEPT !.pc = step, !.at = i, !.item = q]
  <2>2. r.attached /\ r.pc = step
    BY DEF Idle
  <2>3. Sends(r)
    BY <2>1, <2>2 DEF Sends, RouteRequest, AgentSteps
  <2>4. QED
    BY <1>1, <2>3
<1>6. QED
  BY <1>2, <1>3, <1>4, <1>5 DEF WebRequest, AgentRequest, WebOnly

LEMMA SkipReads ==
    ASSUME InductiveInvariant, SkipUndisturbed, NEW w \in Workers,
           \/ ResumeRead(w) \/ ResumeInsert(w) \/ SubmitRead(w) \/ SkipRead(w)
           \/ DataRead(w) \/ SoundReferenceRead(w)
    PROVE  SkipUndisturbed'
<1>. /\ handler[w] \in Handler /\ handler[w].attached /\ handler[w].pc \notin AgentSteps
  BY HandlerFacts DEF SkipUndisturbed
<1>1. UNCHANGED <<row, answered>> /\ handler[w].pc # "skip_write"
  BY DEF ResumeRead, ResumeInsert, SubmitRead, SkipRead, DataRead, SoundReferenceRead, RouteRead,
         Refuse, Waits
<1>2. CASE Return(w)
  BY <1>1, <1>2, QuietReturn
<1>3. CASE ~Return(w)
  <2>1. PICK step \in {"resume_insert", "submit_write", "skip_mark", "data_mark"},
            item \in {row.next, handler[w].item} :
            /\ handler' = [handler EXCEPT ![w] = [handler[w] EXCEPT !.pc = step, !.item = item]]
            /\ step = "skip_mark" => row.next = item /\ ~row.completed
    <3>1. CASE ResumeRead(w)
      BY <1>3, <3>1, HandlerFacts DEF ResumeRead, Refuse
    <3>2. CASE SubmitRead(w) \/ DataRead(w) \/ SoundReferenceRead(w)
      <4>1. PICK step \in {"submit_write", "data_mark"} : Continue(w, step)
        BY <1>3, <3>2 DEF SubmitRead, DataRead, SoundReferenceRead, RouteRead, Refuse
      <4>2. handler' = [handler EXCEPT ![w] = [handler[w] EXCEPT !.pc = step, !.item = handler[w].item]]
        BY <4>1, HandlerFacts DEF Continue, Handler
      <4>3. QED
        BY <4>2
    <3>3. CASE SkipRead(w)
      <4>1. Continue(w, "skip_mark") /\ row.next = handler[w].item /\ ~row.completed
        BY <1>3, <3>3 DEF SkipRead, Refuse
      <4>2. handler' = [handler EXCEPT ![w] = [handler[w] EXCEPT !.pc = "skip_mark", !.item = handler[w].item]]
        BY <4>1, HandlerFacts DEF Continue, Handler
      <4>3. QED
        BY <4>1, <4>2
    <3>4. CASE ResumeInsert(w)
      BY <1>3, <3>4 DEF ResumeInsert
    <3>5. QED
      BY <3>1, <3>2, <3>3, <3>4
  <2>. DEFINE r == [handler[w] EXCEPT !.pc = step, !.item = item]
  <2>2. r.attached /\ r.pc = step /\ r.item = item
    BY DEF Handler
  <2>3. step \notin AgentSteps /\ step # "skip_write"
    BY DEF AgentSteps
  <2>4. QED
    BY <1>1, <2>1, <2>2, <2>3, QuietSkip
<1>4. QED
  BY <1>2, <1>3

(* The statements.  The one that answers holds the mutex, so no skip is      *)
(* under way; the ones of a skip find the cursor where it was.               *)
LEMMA SkipWrites ==
    ASSUME InductiveInvariant, OneServer, SkipUndisturbed, NEW w \in Workers,
           \/ SubmitWrite(w) \/ SubmitMark(w) \/ SkipMark(w) \/ SkipWrite(w)
           \/ RatingsWrite(w) \/ DataMark(w)
    PROVE  SkipUndisturbed'
<1>. DEFINE r == handler[w]
<1>0. Idle.attached /\ Idle.pc = "idle" /\ "idle" \notin AgentSteps \union {"skip_mark", "skip_write"}
  BY DEF Idle, AgentSteps
<1>1. /\ r \in Handler /\ r.attached /\ r.pc \notin AgentSteps
      /\ row \in Row /\ row.next \in Cursors /\ row.skipped \subseteq Items /\ ProgressAccounted
  BY HandlerFacts, RowOfInvariant DEF SkipUndisturbed, RowInvariant, Row
<1>2. TotalItems \in Nat
  BY PlanLength
<1>3. r.pc \in LockedSteps => \A v \in Workers \ {w} : handler[v].pc \notin {"skip_mark", "skip_write"}
  BY OneLocked DEF LockedSteps
<1>4. ASSUME \A v \in Workers \ {w} : handler[v].pc \notin {"skip_mark", "skip_write"},
             r.pc # "skip_write"
      PROVE  \A q \in row.skipped : q < row.next
  BY <1>4 DEF SkipUndisturbed
<1>5. \A q \in answered : q < row.next
  BY <1>1 DEF ProgressAccounted
<1>6. CASE SubmitWrite(w)
  <2>1. r.pc = "submit_write"
    BY <1>6 DEF SubmitWrite, Waits
  <2>2. CASE Refuse(w)
    BY <2>1, <2>2, QuietReturn DEF Refuse
  <2>3. CASE ~Refuse(w)
    <3>1. Execute(r)
      BY <1>6, <2>3 DEF SubmitWrite
    <3>2. /\ r.item \in Items /\ row.next = r.item
          /\ row' = RecordAnswer(r) /\ answered' = answered \union {r.item}
      BY <2>1, <3>1, HandlerFacts DEF Execute, Hits, HandlerKnows, AnswerSteps, RatingSteps, MarkSteps
    <3>3. row'.skipped = row.skipped /\ row'.next = r.item + 1
      BY <1>1, <3>2 DEF RecordAnswer, Row
    <3>4. \A q \in row'.skipped : q < row.next
      BY <1>3, <1>4, <2>1, <3>3 DEF LockedSteps
    <3>5. \A q \in row'.skipped : q < row'.next
      BY <1>1, <1>2, <3>2, <3>3, <3>4 DEF Items
    <3>6. SkippedNotAnswered'
      BY <1>1, <1>2, <3>2, <3>3, <3>4 DEF SkippedNotAnswered, SkipUndisturbed, Items
    <3>7. PICK s : /\ handler' = [handler EXCEPT ![w] = s] /\ s.attached
                   /\ s.pc \in {"submit_mark", "idle"}
      <4>1. CASE Continue(w, "submit_mark")
        <5>1. handler' = [handler EXCEPT ![w] = [r EXCEPT !.pc = "submit_mark"]]
          BY <4>1, HandlerFacts DEF Continue
        <5>2. [r EXCEPT !.pc = "submit_mark"].attached /\ [r EXCEPT !.pc = "submit_mark"].pc = "submit_mark"
          BY <1>1 DEF Handler
        <5>3. QED
          BY <5>1, <5>2
      <4>2. CASE Return(w)
        BY <1>0, <4>2 DEF Return
      <4>3. QED
        BY <1>6, <2>3, <4>1, <4>2 DEF SubmitWrite
    <3>8. QED
      BY <1>3, <2>1, <3>5, <3>6, <3>7, StatementSkip DEF LockedSteps, AgentSteps
  <2>4. QED
    BY <2>2, <2>3
<1>7. CASE SubmitMark(w) \/ DataMark(w)
  <2>1. r.pc \in {"submit_mark", "data_mark"} /\ Execute(r) /\ Return(w)
    BY <1>7 DEF SubmitMark, DataMark, Waits
  <2>2. row' = AppendMarkers(r) /\ answered' = answered
    BY <2>1 DEF Execute, AnswerSteps, RatingSteps, MarkSteps
  <2>3. row'.skipped = row.skipped /\ row'.next = row.next /\ row'.completed = row.completed
    BY <1>1, <2>1, <2>2 DEF AppendMarkers, Row
  <2>4. handler'[w] = Idle /\ \A v \in Workers \ {w} : handler'[v] = handler[v]
    BY <2>1, HandlerFacts DEF Return
  <2>5. SkippedNotAnswered'
    BY <2>2, <2>3 DEF SkipUndisturbed, SkippedNotAnswered
  <2>6. \A v \in Workers : handler'[v].attached /\ handler'[v].pc \notin AgentSteps
    BY <2>4 DEF SkipUndisturbed, Idle, AgentSteps
  <2>7. \A v \in Workers : handler'[v].pc \in {"skip_mark", "skip_write"} =>
           row'.next = handler'[v].item /\ ~row'.completed
    BY <2>3, <2>4 DEF SkipUndisturbed, Idle
  <2>8. ASSUME NEW q \in row'.skipped
        PROVE  \/ q < row'.next
               \/ \E v \in Workers : handler'[v].pc = "skip_write" /\ q \in SkippedIndices(handler'[v].item)
    BY <2>1, <2>3, <2>4 DEF SkipUndisturbed
  <2>9. QED
    BY <2>5, <2>6, <2>7, <2>8 DEF SkipUndisturbed
<1>8. CASE SkipMark(w)
  <2>1. r.pc = "skip_mark" /\ Execute(r) /\ Continue(w, "skip_write")
    BY <1>8 DEF SkipMark, Waits
  <2>2. row' = AppendMarkers(r) /\ answered' = answered
    BY <2>1 DEF Execute, AnswerSteps, RatingSteps, MarkSteps
  <2>3. /\ row'.skipped = row.skipped \union SkippedIndices(r.item)
        /\ row'.next = row.next /\ row'.completed = row.completed
    BY <1>1, <2>1, <2>2 DEF AppendMarkers, Row
  <2>4. r.item \in Items /\ row.next = r.item /\ ~row.completed
    BY <2>1, HandlerFacts DEF SkipUndisturbed, HandlerKnows, MarkSteps
  <2>5. /\ handler'[w] = [r EXCEPT !.pc = "skip_write"]
        /\ \A v \in Workers \ {w} : handler'[v] = handler[v]
    BY <2>1, HandlerFacts DEF Continue
  <2>6. handler'[w].attached /\ handler'[w].pc = "skip_write" /\ handler'[w].item = r.item
    BY <1>1, <2>5 DEF Handler
  <2>7. SkippedNotAnswered'
    <3>1. \A q \in SkippedIndices(r.item) : q \notin answered
      BY <1>1, <1>2, <1>5, <2>4, SkipMovesForward DEF Items, Cursors
    <3>2. QED
      BY <2>2, <2>3, <3>1 DEF SkipUndisturbed, SkippedNotAnswered
  <2>8. \A v \in Workers : handler'[v].attached /\ handler'[v].pc \notin AgentSteps
    BY <2>5, <2>6 DEF SkipUndisturbed, AgentSteps
  <2>9. \A v \in Workers : handler'[v].pc \in {"skip_mark", "skip_write"} =>
           row'.next = handler'[v].item /\ ~row'.completed
    <3>1. \A v \in Workers \ {w} : handler'[v].pc \notin {"skip_mark", "skip_write"}
      BY <1>3, <2>1, <2>5 DEF LockedSteps
    <3>2. QED
      BY <2>3, <2>4, <2>6, <3>1
  <2>10. ASSUME NEW q \in row'.skipped
         PROVE  \/ q < row'.next
                \/ \E v \in Workers : handler'[v].pc = "skip_write" /\ q \in SkippedIndices(handler'[v].item)
    BY <2>1, <2>3, <2>5, <2>6 DEF SkipUndisturbed
  <2>11. QED
    BY <2>7, <2>8, <2>9, <2>10 DEF SkipUndisturbed
<1>9. CASE SkipWrite(w)
  <2>1. r.pc = "skip_write"
    BY <1>9 DEF SkipWrite, Waits
  <2>2. row.next = r.item /\ ~row.completed
    BY <2>1 DEF SkipUndisturbed
  <2>3. Hits(r)
    BY <2>1, <2>2 DEF Hits, RatingSteps
  <2>4. Execute(r) /\ Return(w)
    BY <1>9, <2>3 DEF SkipWrite
  <2>5. row' = AdvanceCursor(r) /\ answered' = answered
    BY <2>1, <2>4 DEF Execute, AnswerSteps, RatingSteps, MarkSteps
  <2>6. row'.skipped = row.skipped /\ row'.next = NextModalityStart(r.item)
    BY <1>1, <2>5 DEF AdvanceCursor, Row
  <2>7. r.item \in Items
    BY <2>1, HandlerFacts DEF HandlerKnows
  <2>8. ASSUME NEW q \in row.skipped
        PROVE  q < row'.next
    <3>1. (q \in Items /\ q < row.next) \/ q \in SkippedIndices(r.item)
      BY <1>1, <1>3, <2>1 DEF SkipUndisturbed, LockedSteps
    <3>2. QED
      BY <1>1, <1>2, <2>2, <2>6, <2>7, <3>1, SkipMovesForward DEF Items, Cursors
  <2>9. SkippedNotAnswered'
    BY <2>5, <2>6 DEF SkipUndisturbed, SkippedNotAnswered
  <2>10. handler' = [handler EXCEPT ![w] = Idle]
    BY <2>4 DEF Return
  <2>11. \A v \in Workers \ {w} : handler[v].pc \notin {"skip_mark", "skip_write"}
    BY <1>3, <2>1 DEF LockedSteps
  <2>12. \A q \in row'.skipped : q < row'.next
    BY <2>6, <2>8
  <2>13. QED
    BY <1>0, <2>9, <2>10, <2>11, <2>12, StatementSkip
<1>10. CASE RatingsWrite(w)
  <2>1. r.pc = "ratings_write"
    BY <1>10 DEF RatingsWrite, Waits
  <2>2. CASE Refuse(w)
    BY <2>1, <2>2, QuietReturn DEF Refuse
  <2>3. CASE ~Refuse(w)
    <3>1. Execute(r) /\ Return(w)
      BY <1>10, <2>3 DEF RatingsWrite
    <3>2. row' = StoreRatings /\ answered' = answered
      BY <2>1, <3>1 DEF Execute, AnswerSteps, RatingSteps, MarkSteps
    <3>3. row'.skipped = row.skipped /\ row'.next = row.next
      BY <1>1, <3>2 DEF StoreRatings, Row
    <3>4. \A q \in row'.skipped : q < row'.next
      BY <1>3, <1>4, <2>1, <3>3 DEF LockedSteps
    <3>5. SkippedNotAnswered'
      BY <3>2, <3>3 DEF SkipUndisturbed, SkippedNotAnswered
    <3>6. handler' = [handler EXCEPT ![w] = Idle]
      BY <3>1 DEF Return
    <3>7. \A v \in Workers \ {w} : handler[v].pc \notin {"skip_mark", "skip_write"}
      BY <1>3, <2>1 DEF LockedSteps
    <3>8. QED
      BY <1>0, <3>4, <3>5, <3>6, <3>7, StatementSkip
  <2>4. QED
    BY <2>2, <2>3
<1>11. QED
  BY <1>6, <1>7, <1>8, <1>9, <1>10

LEMMA SkipStepHolds ==
    ASSUME OneServer, WebOnly, InductiveInvariant, SkipUndisturbed, [Next]_vars
    PROVE  SkipUndisturbed'
<1>1. ASSUME UNCHANGED <<row, answered, handler>>
      PROVE  SkipUndisturbed'
  BY <1>1 DEF SkipUndisturbed, SkippedNotAnswered
<1>2. ASSUME NEW i \in Instances, ResumeFromMemory(i) \/ Proceed(i)
      PROVE  SkipUndisturbed'
  BY <1>1, <1>2 DEF ResumeFromMemory, Proceed
<1>3. ASSUME NEW w \in Workers, HandlerStep(w)
      PROVE  SkipUndisturbed'
  <2>1. handler[w].attached /\ handler[w].pc \notin AgentSteps
    BY DEF SkipUndisturbed
  <2>2. /\ ~McpAnswerRead(w) /\ ~McpAnswerWrite(w) /\ ~McpMark(w) /\ ~McpFeedbackRead(w)
        /\ ~McpFeedbackWrite(w) /\ ~McpDataRead(w) /\ ~McpDataMark(w)
    BY <2>1 DEF McpAnswerRead, McpAnswerWrite, McpMark, McpFeedbackRead, McpFeedbackWrite,
                McpDataRead, McpDataMark, McpRead, Waits, AgentSteps
  <2>3. ~LateEffect(w)
    BY <2>1 DEF LateEffect
  <2>4. QED
    BY <1>3, <2>2, <2>3, SkipReads, SkipWrites DEF HandlerStep
<1>4. ~Fault
  BY DEF Fault, WebOnly, Abandon, Detach, Crash
<1>5. CASE UNCHANGED vars
  BY <1>1, <1>5 DEF vars
<1>6. QED
  BY <1>2, <1>3, <1>4, <1>5, SkipRequests DEF Next

(* With one server that gets nothing but web requests, downloads included,   *)
(* and no failures, no question is both skipped and answered                 *)
(* (skip_modality_route marks the block in one statement and moves the       *)
(* cursor in another).                                                       *)
THEOREM SkipsAreNotAnswered ==
    ASSUME OneServer, WebOnly
    PROVE  Spec => []SkippedNotAnswered
<1>1. Init => SkipUndisturbed
  BY DEF Init, NewRow, Idle, SkipUndisturbed, SkippedNotAnswered, AgentSteps
<1>2. InductiveInvariant /\ SkipUndisturbed /\ [Next]_vars => SkipUndisturbed'
  BY SkipStepHolds
<1>3. SkipUndisturbed => SkippedNotAnswered
  BY DEF SkipUndisturbed
<1>4. QED
  BY <1>1, <1>2, <1>3, InvariantHolds, PTL DEF Spec
=============================================================================
