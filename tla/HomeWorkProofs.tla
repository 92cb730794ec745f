--------------------------- MODULE HomeWorkProofs ---------------------------
(***************************************************************************)
(* Theorems about ScheduledWork, for every number of actions, workers,     *)
(* callers and cancellers and every bound on failures, about HomeSleep,    *)
(* for every number of concurrent calls, every sequence of hooks and every *)
(* bound on failures and rescues, and about FetchDueScan, for every queue  *)
(* and every limit.                                                        *)
(***************************************************************************)
EXTENDS ScheduledWork, HomeSleep, FetchDueScan, FiniteSetTheorems, SequenceTheorems,
        WellFoundedInduction, TLAPS

-----------------------------------------------------------------------------
(* The queue of scheduled work                                             *)
USE ConstantsAssumption DEF Terminal, States

-----------------------------------------------------------------------------
(***************************************************************************)
(* Type correctness                                                        *)
(***************************************************************************)
\* No variable of any component is touched by a step that leaves it alone.
LEMMA TypesUnchanged ==
  /\ StoreTypeOK /\ UNCHANGED store => StoreTypeOK'
  /\ ClockTypeOK /\ UNCHANGED clock => ClockTypeOK'
  /\ WorkerTypeOK /\ UNCHANGED worker => WorkerTypeOK'
  /\ CallerTypeOK /\ UNCHANGED caller => CallerTypeOK'
  /\ CancellerTypeOK /\ UNCHANGED canceller => CancellerTypeOK'
  /\ HistoryTypeOK /\ UNCHANGED history => HistoryTypeOK'
  /\ BudgetTypeOK /\ UNCHANGED budget => BudgetTypeOK'
  BY DEF StoreTypeOK, ClockTypeOK, WorkerTypeOK, CallerTypeOK,
         CancellerTypeOK, HistoryTypeOK, BudgetTypeOK,
         store, clock, worker, caller, canceller, history, budget

LEMMA WorkInitTyped == Init => TypeOK
  BY DEF Init, TypeOK, Nothing, WorkerSteps, CallerSteps, CancelSteps,
         StoreTypeOK, ClockTypeOK, WorkerTypeOK, CallerTypeOK,
         CancellerTypeOK, HistoryTypeOK, BudgetTypeOK

\* A command leaves the budget within its bound.
LEMMA CommandTyped ==
  ASSUME BudgetTypeOK, NEW ok \in BOOLEAN, NEW done \in BOOLEAN,
         Command(ok, done), UNCHANGED crashes
  PROVE  BudgetTypeOK'
  BY DEF BudgetTypeOK, Command

\* The ways a worker moves on keep its types.
LEMMA AbandonTyped ==
  ASSUME WorkerTypeOK, NEW w \in Workers, Abandon(w)
  PROVE  WorkerTypeOK'
  BY DEF WorkerTypeOK, Abandon, WorkerSteps, Nothing

LEMMA NextInBatchTyped ==
  ASSUME WorkerTypeOK, NEW w \in Workers, NextInBatch(w), cur[w] # NoAction
  PROVE  WorkerTypeOK'
  BY DEF WorkerTypeOK, NextInBatch, Goto, WorkerSteps

LEMMA AdvanceTyped ==
  ASSUME WorkerTypeOK, NEW w \in Workers, NEW step \in WorkerSteps,
         Advance(w, step),
         cur[w] = NoAction <=> step \in {"idle", "scan", "pick"}
  PROVE  WorkerTypeOK'
  BY DEF WorkerTypeOK, Advance, Goto, WorkerSteps

\* A Schedule call that returns keeps the types.
LEMMA ReturnTyped ==
  ASSUME CallerTypeOK, HistoryTypeOK, NEW c \in Callers, NEW ok \in BOOLEAN,
         ReturnSchedule(c, ok), req[c] # NoAction,
         UNCHANGED <<runs, attempted, cancelled>>
  PROVE  CallerTypeOK' /\ HistoryTypeOK'
  BY DEF CallerTypeOK, HistoryTypeOK, ReturnSchedule, CallerSteps, With

\* A Schedule call that continues keeps the types.
LEMMA CallerGotoTyped ==
  ASSUME CallerTypeOK, NEW c \in Callers, NEW step \in CallerSteps,
         req[c] # NoAction, step # "idle",
         spc' = [spc EXCEPT ![c] = step], UNCHANGED req
  PROVE  CallerTypeOK'
  BY DEF CallerTypeOK, CallerSteps

LEMMA CancelReturnsTyped ==
  ASSUME CancellerTypeOK, NEW x \in Cancellers, CancelReturns(x)
  PROVE  CancellerTypeOK'
  BY DEF CancellerTypeOK, CancelReturns, CancelSteps

\* Each step of a Schedule call keeps the types.
LEMMA ScheduleTyped ==
  ASSUME TypeOK, NEW c \in Callers, ScheduleStep(c)
  PROVE  TypeOK'
  <1> USE DEF TypeOK
  <1>1. ASSUME NEW a \in Actions, BeginSchedule(c, a) PROVE TypeOK'
    <2>1. CallerTypeOK' /\ HistoryTypeOK'
      BY <1>1 DEF BeginSchedule, CallerTypeOK, HistoryTypeOK, CallerSteps
    <2>2. StoreTypeOK' /\ ClockTypeOK' /\ WorkerTypeOK' /\ CancellerTypeOK'
            /\ BudgetTypeOK'
      BY <1>1, TypesUnchanged DEF BeginSchedule
    <2> QED  BY <2>1, <2>2
  <1>2. CASE SchedulePayload(c)
    <2>1. PICK ok \in BOOLEAN, done \in BOOLEAN : SchedulePayload(c)!(ok, done)
      BY <1>2 DEF SchedulePayload
    <2>2. req[c] \in Actions /\ req[c] # NoAction
      BY <2>1 DEF CallerTypeOK
    <2>3. StoreTypeOK'
      BY <2>1, <2>2 DEF StoreTypeOK, With, Without
    <2>4. CallerTypeOK' /\ HistoryTypeOK'
      <3>1. CASE ReturnSchedule(c, ok)
        BY <2>1, <2>2, <3>1, ReturnTyped
      <3>2. CASE ~ReturnSchedule(c, ok)
        BY <2>1, <2>2, <3>2, CallerGotoTyped DEF HistoryTypeOK, CallerSteps
      <3> QED  BY <3>1, <3>2
    <2>5. ClockTypeOK' /\ WorkerTypeOK' /\ CancellerTypeOK' /\ BudgetTypeOK'
      BY <2>1, TypesUnchanged, CommandTyped
    <2> QED  BY <2>3, <2>4, <2>5
  <1>3. CASE ScheduleIndex(c)
    <2>1. PICK ok \in BOOLEAN, done \in BOOLEAN : ScheduleIndex(c)!(ok, done)
      BY <1>3 DEF ScheduleIndex
    <2>2. req[c] \in Actions /\ req[c] # NoAction
      BY <2>1 DEF CallerTypeOK
    <2>3. StoreTypeOK'
      BY <2>1, <2>2 DEF StoreTypeOK, With, Without
    <2>4. CallerTypeOK' /\ HistoryTypeOK'
      BY <2>1, <2>2, CallerGotoTyped, TypesUnchanged DEF AfterIndex, CallerSteps
    <2>5. ClockTypeOK' /\ WorkerTypeOK' /\ CancellerTypeOK' /\ BudgetTypeOK'
      BY <2>1, TypesUnchanged, CommandTyped
    <2> QED  BY <2>3, <2>4, <2>5
  <1>4. CASE ScheduleEnqueue(c)
    <2>1. PICK ok \in BOOLEAN, done \in BOOLEAN : ScheduleEnqueue(c)!(ok, done)
      BY <1>4 DEF ScheduleEnqueue
    <2>2. req[c] \in Actions /\ req[c] # NoAction
      BY <2>1 DEF CallerTypeOK
    <2>3. StoreTypeOK'
      BY <2>1, <2>2 DEF StoreTypeOK, With, Without
    <2>4. CallerTypeOK' /\ HistoryTypeOK'
      <3>1. CASE ReturnSchedule(c, ok)
        BY <2>1, <2>2, <3>1, ReturnTyped
      <3>2. CASE ~ReturnSchedule(c, ok)
        BY <2>1, <2>2, <3>2, CallerGotoTyped DEF HistoryTypeOK, CallerSteps
      <3> QED  BY <3>1, <3>2
    <2>5. ClockTypeOK' /\ WorkerTypeOK' /\ CancellerTypeOK' /\ BudgetTypeOK'
      BY <2>1, TypesUnchanged, CommandTyped
    <2> QED  BY <2>3, <2>4, <2>5
  <1>5. CASE ScheduleUndoIndex(c)
    <2>1. PICK ok \in BOOLEAN, done \in BOOLEAN : ScheduleUndoIndex(c)!(ok, done)
      BY <1>5 DEF ScheduleUndoIndex
    <2>2. req[c] \in Actions /\ req[c] # NoAction
      BY <2>1 DEF CallerTypeOK
    <2>3. StoreTypeOK'
      BY <2>1, <2>2 DEF StoreTypeOK, With, Without
    <2>4. CallerTypeOK' /\ HistoryTypeOK'
      BY <2>1, <2>2, CallerGotoTyped, TypesUnchanged DEF AfterIndex, CallerSteps
    <2>5. ClockTypeOK' /\ WorkerTypeOK' /\ CancellerTypeOK' /\ BudgetTypeOK'
      BY <2>1, TypesUnchanged, CommandTyped
    <2> QED  BY <2>3, <2>4, <2>5
  <1>6. CASE ScheduleUndoPayload(c)
    <2>1. PICK ok \in BOOLEAN, done \in BOOLEAN : ScheduleUndoPayload(c)!(ok, done)
      BY <1>6 DEF ScheduleUndoPayload
    <2>2. req[c] \in Actions /\ req[c] # NoAction
      BY <2>1 DEF CallerTypeOK
    <2>3. StoreTypeOK'
      BY <2>1, <2>2 DEF StoreTypeOK, With, Without
    <2>4. CallerTypeOK' /\ HistoryTypeOK'
      BY <2>1, <2>2, ReturnTyped
    <2>5. ClockTypeOK' /\ WorkerTypeOK' /\ CancellerTypeOK' /\ BudgetTypeOK'
      BY <2>1, TypesUnchanged, CommandTyped
    <2> QED  BY <2>3, <2>4, <2>5
  <1> QED  BY <1>1, <1>2, <1>3, <1>4, <1>5, <1>6 DEF ScheduleStep

\* Each step of a worker keeps the types.
LEMMA WorkerTyped ==
  ASSUME TypeOK, NEW w \in Workers, WorkerStep(w)
  PROVE  TypeOK'
  <1> USE DEF TypeOK
  <1>1. CASE Tick(w)
    <2>1. WorkerTypeOK'
      BY <1>1 DEF Tick, WorkerTypeOK, StoreTypeOK, WorkerSteps, Goto
    <2>2. StoreTypeOK' /\ ClockTypeOK' /\ CallerTypeOK' /\ CancellerTypeOK'
            /\ HistoryTypeOK' /\ BudgetTypeOK'
      BY <1>1, TypesUnchanged DEF Tick
    <2> QED  BY <2>1, <2>2
  <1>2. CASE ReadEntry(w)
    <2>1. PICK a \in scan[w], ok \in BOOLEAN : ReadEntry(w)!(a, ok)
      BY <1>2 DEF ReadEntry
    <2>2. a \in Actions
      BY DEF WorkerTypeOK
    <2>3. WorkerTypeOK'
      <3>1. CASE Abandon(w)
        BY <3>1, AbandonTyped
      <3>2. CASE ReadResult(ok, payload[a]) = "drop"
        <4>1. /\ wpc[w] = "scan" /\ wpc' = [wpc EXCEPT ![w] = "drop"]
              /\ scan' = [scan EXCEPT ![w] = @ \ {a}]
              /\ cur' = [cur EXCEPT ![w] = a]
              /\ UNCHANGED <<copy, expired>>
          BY <2>1, <3>2 DEF Goto
        <4> QED  BY <2>2, <4>1 DEF WorkerTypeOK, WorkerSteps
      <3>3. CASE ReadResult(ok, payload[a]) = "keep"
        <4>1. payload[a] \in States
          BY <2>2 DEF StoreTypeOK
        <4>2. /\ scan' = [scan EXCEPT ![w] = @ \ {a}]
              /\ copy' = [copy EXCEPT ![w][a] = payload[a]]
              /\ UNCHANGED <<wpc, cur, expired>>
          BY <2>1, <3>3
        <4> QED  BY <2>2, <4>1, <4>2 DEF WorkerTypeOK
      <3> QED  BY <2>1, <3>1, <3>2, <3>3
    <2>4. StoreTypeOK' /\ ClockTypeOK' /\ CallerTypeOK' /\ CancellerTypeOK'
            /\ HistoryTypeOK' /\ BudgetTypeOK'
      BY <2>1, TypesUnchanged, CommandTyped
    <2> QED  BY <2>3, <2>4
  <1>3. CASE DropEntry(w)
    <2>1. PICK ok \in BOOLEAN, done \in BOOLEAN : DropEntry(w)!(ok, done)
      BY <1>3 DEF DropEntry
    <2>2. cur[w] \in Actions /\ cur[w] # NoAction
      BY <2>1 DEF WorkerTypeOK
    <2>3. StoreTypeOK'
      BY <2>1, <2>2 DEF StoreTypeOK, WorkerTypeOK, With, Without
    <2>4. WorkerTypeOK'
      <3>1. CASE Abandon(w)
        BY <3>1, AbandonTyped
      <3>2. CASE ~Abandon(w)
        BY <2>1, <2>2, <3>2 DEF WorkerTypeOK, WorkerSteps, Goto
      <3> QED  BY <3>1, <3>2
    <2>5. ClockTypeOK' /\ CallerTypeOK' /\ CancellerTypeOK' /\ HistoryTypeOK'
            /\ BudgetTypeOK'
      BY <2>1, TypesUnchanged, CommandTyped
    <2> QED  BY <2>3, <2>4, <2>5
  <1>4. CASE EndFetch(w)
    <2>1. WorkerTypeOK'
      BY <1>4 DEF EndFetch, Advance, WorkerTypeOK, StoreTypeOK, WorkerSteps, Goto
    <2>2. StoreTypeOK' /\ ClockTypeOK' /\ CallerTypeOK' /\ CancellerTypeOK'
            /\ HistoryTypeOK' /\ BudgetTypeOK'
      BY <1>4, TypesUnchanged DEF EndFetch
    <2> QED  BY <2>1, <2>2
  <1>5. CASE PickAction(w)
    <2>1. WorkerTypeOK'
      BY <1>5 DEF PickAction, FirstCommand, WorkerTypeOK, StoreTypeOK, WorkerSteps, Goto
    <2>2. StoreTypeOK' /\ ClockTypeOK' /\ CallerTypeOK' /\ CancellerTypeOK'
            /\ HistoryTypeOK' /\ BudgetTypeOK'
      BY <1>5, TypesUnchanged DEF PickAction
    <2> QED  BY <2>1, <2>2
  <1>6. CASE EndTick(w)
    <2>1. WorkerTypeOK'
      BY <1>6 DEF EndTick, WorkerTypeOK, StoreTypeOK, WorkerSteps, Goto
    <2>2. StoreTypeOK' /\ ClockTypeOK' /\ CallerTypeOK' /\ CancellerTypeOK'
            /\ HistoryTypeOK' /\ BudgetTypeOK'
      BY <1>6, TypesUnchanged DEF EndTick
    <2> QED  BY <2>1, <2>2
  <1>7. CASE AcquireLock(w)
    <2>1. PICK ok \in BOOLEAN, done \in BOOLEAN : AcquireLock(w)!(ok, done)
      BY <1>7 DEF AcquireLock
    <2>2. cur[w] \in Actions /\ cur[w] # NoAction
      BY <2>1 DEF WorkerTypeOK
    <2>3. StoreTypeOK'
      BY <2>1, <2>2 DEF StoreTypeOK, WorkerTypeOK, With, Without
    <2>4. WorkerTypeOK'
      <3>1. CASE NextInBatch(w)
        BY <2>2, <3>1, NextInBatchTyped
      <3>2. CASE ok /\ cur[w] \notin locks
        <4>1. /\ wpc' = [wpc EXCEPT ![w] = "begin"]
              /\ copy' = [copy EXCEPT ![w][cur[w]] = "processing"]
              /\ UNCHANGED <<scan, cur, expired>>
          BY <2>1, <3>2 DEF Goto, AfterAcquire
        <4> QED  BY <2>2, <4>1 DEF WorkerTypeOK, WorkerSteps
      <3> QED  BY <2>1, <3>1, <3>2
    <2>5. ClockTypeOK' /\ CallerTypeOK' /\ CancellerTypeOK' /\ HistoryTypeOK'
            /\ BudgetTypeOK'
      BY <2>1, TypesUnchanged, CommandTyped
    <2> QED  BY <2>3, <2>4, <2>5
  <1>8. CASE SaveProcessing(w)
    <2>1. PICK ok \in BOOLEAN, done \in BOOLEAN : SaveProcessing(w)!(ok, done)
      BY <1>8 DEF SaveProcessing
    <2>2. cur[w] \in Actions /\ cur[w] # NoAction
      BY <2>1 DEF WorkerTypeOK
    <2>3. StoreTypeOK'
      BY <2>1, <2>2 DEF StoreTypeOK, WorkerTypeOK, With, Without
    <2>4. WorkerTypeOK'
      BY <2>1, <2>2, AdvanceTyped, NextInBatchTyped DEF WorkerSteps
    <2>5. ClockTypeOK' /\ CallerTypeOK' /\ CancellerTypeOK' /\ HistoryTypeOK'
            /\ BudgetTypeOK'
      BY <2>1, TypesUnchanged, CommandTyped
    <2> QED  BY <2>3, <2>4, <2>5
  <1>9. CASE Handle(w)
    <2>1. cur[w] \in Actions /\ cur[w] # NoAction
      BY <1>9 DEF Handle, WorkerTypeOK
    <2>2. WorkerTypeOK'
      BY <1>9, <2>1 DEF Handle, WorkerTypeOK, WorkerSteps, Goto
    <2>3. ClockTypeOK' /\ HistoryTypeOK'
      BY <1>9, <2>1 DEF Handle, ClockTypeOK, HistoryTypeOK
    <2>4. StoreTypeOK' /\ CallerTypeOK' /\ CancellerTypeOK' /\ BudgetTypeOK'
      BY <1>9, TypesUnchanged DEF Handle
    <2> QED  BY <2>2, <2>3, <2>4
  <1>10. CASE SaveOutcome(w)
    <2>1. PICK ok \in BOOLEAN, done \in BOOLEAN : SaveOutcome(w)!(ok, done)
      BY <1>10 DEF SaveOutcome
    <2>2. cur[w] \in Actions /\ cur[w] # NoAction
      BY <2>1 DEF WorkerTypeOK
    <2>3. StoreTypeOK'
      BY <2>1, <2>2 DEF StoreTypeOK, WorkerTypeOK, With, Without
    <2>4. WorkerTypeOK'
      <3>1. CASE NextInBatch(w)
        BY <2>2, <3>1, NextInBatchTyped
      <3>2. CASE ok
        <4>1. /\ wpc' = [wpc EXCEPT ![w] = "unlock"]
              /\ expired' = [expired EXCEPT ![w] = cur[w] \in lapsed]
              /\ UNCHANGED <<scan, copy, cur>>
          BY <2>1, <3>2 DEF Goto
        <4> QED  BY <2>2, <4>1 DEF WorkerTypeOK, WorkerSteps
      <3> QED  BY <2>1, <3>1, <3>2
    <2>5. ClockTypeOK' /\ CallerTypeOK' /\ CancellerTypeOK' /\ HistoryTypeOK'
            /\ BudgetTypeOK'
      BY <2>1, TypesUnchanged, CommandTyped
    <2> QED  BY <2>3, <2>4, <2>5
  <1>11. CASE DeleteLock(w)
    <2>1. PICK ok \in BOOLEAN, done \in BOOLEAN : DeleteLock(w)!(ok, done)
      BY <1>11 DEF DeleteLock
    <2>2. cur[w] \in Actions /\ cur[w] # NoAction
      BY <2>1 DEF WorkerTypeOK
    <2>3. StoreTypeOK'
      BY <2>1, <2>2 DEF StoreTypeOK, WorkerTypeOK, With, Without
    <2>4. WorkerTypeOK'
      BY <2>1, <2>2, AdvanceTyped, NextInBatchTyped DEF WorkerSteps
    <2>5. ClockTypeOK' /\ CallerTypeOK' /\ CancellerTypeOK' /\ HistoryTypeOK'
            /\ BudgetTypeOK'
      BY <2>1, TypesUnchanged, CommandTyped
    <2> QED  BY <2>3, <2>4, <2>5
  <1>12. CASE RemoveIndex(w)
    <2>1. PICK ok \in BOOLEAN, done \in BOOLEAN : RemoveIndex(w)!(ok, done)
      BY <1>12 DEF RemoveIndex
    <2>2. cur[w] \in Actions /\ cur[w] # NoAction
      BY <2>1 DEF WorkerTypeOK
    <2>3. StoreTypeOK'
      BY <2>1, <2>2 DEF StoreTypeOK, WorkerTypeOK, With, Without
    <2>4. WorkerTypeOK'
      BY <2>1, <2>2, AdvanceTyped, NextInBatchTyped
      DEF WorkerSteps, AfterRemoveIndex
    <2>5. ClockTypeOK' /\ CallerTypeOK' /\ CancellerTypeOK' /\ HistoryTypeOK'
            /\ BudgetTypeOK'
      BY <2>1, TypesUnchanged, CommandTyped
    <2> QED  BY <2>3, <2>4, <2>5
  <1>13. CASE DeleteExpired(w)
    <2>1. PICK ok \in BOOLEAN, done \in BOOLEAN : DeleteExpired(w)!(ok, done)
      BY <1>13 DEF DeleteExpired
    <2>2. cur[w] \in Actions /\ cur[w] # NoAction
      BY <2>1 DEF WorkerTypeOK
    <2>3. StoreTypeOK'
      BY <2>1, <2>2 DEF StoreTypeOK, WorkerTypeOK, With, Without
    <2>4. WorkerTypeOK'
      BY <2>1, <2>2, AdvanceTyped, NextInBatchTyped DEF WorkerSteps
    <2>5. ClockTypeOK' /\ CallerTypeOK' /\ CancellerTypeOK' /\ HistoryTypeOK'
            /\ BudgetTypeOK'
      BY <2>1, TypesUnchanged, CommandTyped
    <2> QED  BY <2>3, <2>4, <2>5
  <1>14. CASE RemoveFromQueue(w)
    <2>1. PICK ok \in BOOLEAN, done \in BOOLEAN : RemoveFromQueue(w)!(ok, done)
      BY <1>14 DEF RemoveFromQueue
    <2>2. cur[w] \in Actions /\ cur[w] # NoAction
      BY <2>1 DEF WorkerTypeOK
    <2>3. StoreTypeOK'
      BY <2>1, <2>2 DEF StoreTypeOK, WorkerTypeOK, With, Without
    <2>4. WorkerTypeOK'
      BY <2>1, <2>2, NextInBatchTyped
    <2>5. ClockTypeOK' /\ CallerTypeOK' /\ CancellerTypeOK' /\ HistoryTypeOK'
            /\ BudgetTypeOK'
      BY <2>1, TypesUnchanged, CommandTyped
    <2> QED  BY <2>3, <2>4, <2>5
  <1> QED
    BY <1>1, <1>2, <1>3, <1>4, <1>5, <1>6, <1>7, <1>8, <1>9, <1>10,
       <1>11, <1>12, <1>13, <1>14 DEF WorkerStep

\* Each step of a cancellation keeps the types.
LEMMA CancelTyped ==
  ASSUME TypeOK, NEW x \in Cancellers, CancelStep(x)
  PROVE  TypeOK'
  <1> USE DEF TypeOK
  <1>1. ASSUME NEW actor \in Actors, BeginCancel(x, actor) PROVE TypeOK'
    <2>1. PICK members \in SUBSET Actions :
              /\ cpc' = [cpc EXCEPT ![x] = "remove"]
              /\ rest' = [rest EXCEPT ![x] = members]
              /\ snap' = [snap EXCEPT ![x] = members]
      BY <1>1 DEF BeginCancel, StoreTypeOK
    <2>3. CancellerTypeOK'
      BY <2>1 DEF CancellerTypeOK, CancelSteps
    <2>2. StoreTypeOK' /\ ClockTypeOK' /\ WorkerTypeOK' /\ CallerTypeOK'
            /\ HistoryTypeOK' /\ BudgetTypeOK'
      BY <1>1, TypesUnchanged DEF BeginCancel
    <2> QED  BY <2>2, <2>3
  <1>2. CASE CancelDequeue(x)
    <2>1. PICK ok \in BOOLEAN, done \in BOOLEAN : CancelDequeue(x)!(ok, done)
      BY <1>2 DEF CancelDequeue
    <2>2. Member(x) \in Actions /\ Member(x) \in rest[x]
      BY <2>1 DEF CancellerTypeOK, Member
    <2>3. StoreTypeOK'
      BY <2>1, <2>2 DEF StoreTypeOK, Without
    <2>4. CancellerTypeOK'
      <3>1. CASE CancelReturns(x)
        BY <3>1, CancelReturnsTyped
      <3>2. CASE ~CancelReturns(x)
        BY <2>1, <2>2, <3>2 DEF CancelGoto, CancellerTypeOK, CancelSteps
      <3> QED  BY <3>1, <3>2
    <2>5. ClockTypeOK' /\ WorkerTypeOK' /\ CallerTypeOK' /\ HistoryTypeOK'
            /\ BudgetTypeOK'
      BY <2>1, TypesUnchanged, CommandTyped
    <2> QED  BY <2>3, <2>4, <2>5
  <1>3. CASE CancelPayload(x)
    <2>1. PICK ok \in BOOLEAN, done \in BOOLEAN : CancelPayload(x)!(ok, done)
      BY <1>3 DEF CancelPayload
    <2>2. Member(x) \in Actions /\ Member(x) \in rest[x]
      BY <2>1 DEF CancellerTypeOK, Member
    <2>3. StoreTypeOK'
      BY <2>1, <2>2 DEF StoreTypeOK, Without
    <2>4. CancellerTypeOK'
      <3>1. CASE CancelReturns(x)
        BY <3>1, CancelReturnsTyped
      <3>2. CASE ~CancelReturns(x)
        BY <2>1, <2>2, <3>2 DEF CancelGoto, CancellerTypeOK, CancelSteps
      <3> QED  BY <3>1, <3>2
    <2>5. ClockTypeOK' /\ WorkerTypeOK' /\ CallerTypeOK' /\ HistoryTypeOK'
            /\ BudgetTypeOK'
      BY <2>1, TypesUnchanged, CommandTyped
    <2> QED  BY <2>3, <2>4, <2>5
  <1>4. CASE CancelLock(x)
    <2>1. PICK ok \in BOOLEAN, done \in BOOLEAN : CancelLock(x)!(ok, done)
      BY <1>4 DEF CancelLock
    <2>2. Member(x) \in Actions /\ Member(x) \in rest[x]
      BY <2>1 DEF CancellerTypeOK, Member
    <2>3. StoreTypeOK'
      BY <2>1, <2>2 DEF StoreTypeOK, Without
    <2>4. CancellerTypeOK'
      <3>1. CASE CancelReturns(x)
        BY <3>1, CancelReturnsTyped
      <3>2. CASE ~CancelReturns(x)
        BY <2>1, <2>2, <3>2 DEF CancelGoto, CancellerTypeOK, CancelSteps
      <3> QED  BY <3>1, <3>2
    <2>5. ClockTypeOK' /\ WorkerTypeOK' /\ CallerTypeOK' /\ HistoryTypeOK'
            /\ BudgetTypeOK'
      BY <2>1, TypesUnchanged, CommandTyped
    <2> QED  BY <2>3, <2>4, <2>5
  <1>5. CASE CancelIndex(x)
    <2>1. PICK ok \in BOOLEAN, done \in BOOLEAN : CancelIndex(x)!(ok, done)
      BY <1>5 DEF CancelIndex
    <2>2. StoreTypeOK' /\ HistoryTypeOK'
      BY <2>1 DEF StoreTypeOK, HistoryTypeOK, CancellerTypeOK
    <2>3. CancellerTypeOK'
      BY <2>1, CancelReturnsTyped
    <2>4. ClockTypeOK' /\ WorkerTypeOK' /\ CallerTypeOK' /\ BudgetTypeOK'
      BY <2>1, TypesUnchanged, CommandTyped
    <2> QED  BY <2>2, <2>3, <2>4
  <1> QED  BY <1>1, <1>2, <1>3, <1>4, <1>5 DEF CancelStep

\* The passing of time and process stops keep the types.
LEMMA EnvironmentTyped ==
  ASSUME TypeOK, Environment
  PROVE  TypeOK'
  <1> USE DEF TypeOK
  <1>1. ASSUME NEW a \in Actions,
               \/ BecomeDue(a) \/ RetentionLapse(a)
               \/ PayloadExpires(a) \/ LockExpires(a)
        PROVE  TypeOK'
    <2>1. StoreTypeOK' /\ ClockTypeOK'
      <3>1. CASE BecomeDue(a) \/ RetentionLapse(a)
        BY <3>1, TypesUnchanged DEF BecomeDue, RetentionLapse, ClockTypeOK
      <3>2. CASE PayloadExpires(a)
        BY <3>2 DEF PayloadExpires, StoreTypeOK, ClockTypeOK
      <3>3. CASE LockExpires(a)
        BY <3>3, TypesUnchanged DEF LockExpires, StoreTypeOK
      <3> QED  BY <1>1, <3>1, <3>2, <3>3
    <2>2. WorkerTypeOK' /\ CallerTypeOK' /\ CancellerTypeOK'
            /\ HistoryTypeOK' /\ BudgetTypeOK'
      BY <1>1, TypesUnchanged
      DEF BecomeDue, RetentionLapse, PayloadExpires, LockExpires
    <2> QED  BY <2>1, <2>2
  <1>2. ASSUME NEW w \in Workers, WorkerStops(w) PROVE TypeOK'
    <2>1. BudgetTypeOK'
      BY <1>2 DEF WorkerStops, Crashes, BudgetTypeOK
    <2> QED
      BY <1>2, <2>1, AbandonTyped, TypesUnchanged DEF WorkerStops, Crashes
  <1>3. ASSUME NEW c \in Callers, CallerStops(c) PROVE TypeOK'
    <2>1. BudgetTypeOK'
      BY <1>3 DEF CallerStops, Crashes, BudgetTypeOK
    <2>2. CallerTypeOK'
      BY <1>3 DEF CallerStops, CallerTypeOK, CallerSteps
    <2> QED
      BY <1>3, <2>1, <2>2, TypesUnchanged DEF CallerStops, Crashes
  <1>4. ASSUME NEW x \in Cancellers, CancellerStops(x) PROVE TypeOK'
    <2>1. BudgetTypeOK'
      BY <1>4 DEF CancellerStops, Crashes, BudgetTypeOK
    <2> QED
      BY <1>4, <2>1, CancelReturnsTyped, TypesUnchanged
      DEF CancellerStops, Crashes
  <1> QED  BY <1>1, <1>2, <1>3, <1>4 DEF Environment

\* In every behaviour every variable keeps its type.
THEOREM WorkTypeCorrect == Spec => []TypeOK
  <1>1. Init => TypeOK
    BY WorkInitTyped
  <1>2. TypeOK /\ [Next]_vars => TypeOK'
    <2> SUFFICES ASSUME TypeOK, [Next]_vars PROVE TypeOK'
      OBVIOUS
    <2>1. CASE Next
      BY <2>1, ScheduleTyped, WorkerTyped, CancelTyped, EnvironmentTyped
      DEF Next
    <2>2. CASE UNCHANGED vars
      BY <2>2, TypesUnchanged DEF vars, TypeOK
    <2> QED  BY <2>1, <2>2
  <1> QED  BY <1>1, <1>2, PTL DEF Spec

-----------------------------------------------------------------------------
(***************************************************************************)
(* At-most-once dispatch with one worker                                   *)
(***************************************************************************)
LEMMA InitOnce == Init => OnceInv
  BY DEF Init, OnceInv, HandledAtMostOnce, NothingDispatchedIsPending,
         DispatchIsFirst, HeldWorkIsDue, Nothing

\* A step that leaves the workers, the clock and the dispatch counts alone,
\* and writes Pending only for actions that are not due, keeps the invariant.
LEMMA BystanderOnce ==
  ASSUME TypeOK, OnceInv, UNCHANGED <<worker, due, runs>>,
         \A a \in Actions : a \in due => payload'[a] \in {payload[a], "none"},
         \A c \in Callers : req'[c] \notin due
  PROVE  OnceInv'
  <1> USE DEF worker
  <1>1. HandledAtMostOnce' /\ HeldWorkIsDue'
    BY DEF OnceInv, HandledAtMostOnce, HeldWorkIsDue
  <1>2. NothingDispatchedIsPending'
    BY DEF OnceInv, NothingDispatchedIsPending
  <1>3. DispatchIsFirst'
    <2> SUFFICES ASSUME NEW w \in Workers PROVE DispatchIsFirst!(w)'
      BY DEF DispatchIsFirst
    <2>1. wpc[w] = "handle" => cur[w] \in Actions /\ cur[w] \in due
      BY DEF OnceInv, HeldWorkIsDue, TypeOK, WorkerTypeOK
    <2> QED  BY <2>1 DEF OnceInv, DispatchIsFirst
  <1> QED  BY <1>1, <1>2, <1>3 DEF OnceInv

LEMMA ScheduleOnce ==
  ASSUME TypeOK, OnceInv, NEW c \in Callers, ScheduleStep(c)
  PROVE  OnceInv'
  <1>1. UNCHANGED <<worker, due, runs>>
    BY DEF ScheduleStep, BeginSchedule, SchedulePayload, ScheduleIndex,
           ScheduleEnqueue, ScheduleUndoIndex, ScheduleUndoPayload, clock,
           history
  <1>2. \A a \in Actions : a \in due => payload'[a] \in {payload[a], "none"}
    <2>1. req[c] \notin due
      BY DEF OnceInv, HeldWorkIsDue
    <2>2. CASE SchedulePayload(c)
      <3>1. PICK done \in BOOLEAN :
               payload' = IF done THEN [payload EXCEPT ![req[c]] = "pending"]
                                  ELSE payload
        BY <2>2 DEF SchedulePayload
      <3> QED  BY <2>1, <3>1 DEF TypeOK, StoreTypeOK
    <2>3. CASE ~SchedulePayload(c)
      BY <2>3 DEF ScheduleStep, BeginSchedule, ScheduleIndex, ScheduleEnqueue,
           ScheduleUndoIndex, ScheduleUndoPayload, store, TypeOK, StoreTypeOK
    <2> QED  BY <2>2, <2>3
  <1>3. \A d \in Callers : req'[d] \notin due
    <2>1. NoAction \notin due
      BY DEF TypeOK, ClockTypeOK
    <2>2. CASE \E a \in Actions : BeginSchedule(c, a)
      BY <2>2 DEF BeginSchedule, Registrable, OnceInv, HeldWorkIsDue, TypeOK,
                  CallerTypeOK
    <2>3. CASE UNCHANGED req \/ req' = [req EXCEPT ![c] = NoAction]
      BY <2>1, <2>3 DEF OnceInv, HeldWorkIsDue, TypeOK, CallerTypeOK
    <2> QED
      BY <2>2, <2>3
      DEF ScheduleStep, SchedulePayload, ScheduleIndex, ScheduleEnqueue,
          ScheduleUndoIndex, ScheduleUndoPayload, ReturnSchedule
  <1> QED  BY <1>1, <1>2, <1>3, BystanderOnce

LEMMA CancelOnce ==
  ASSUME TypeOK, OnceInv, NEW x \in Cancellers, CancelStep(x)
  PROVE  OnceInv'
  <1>1. UNCHANGED <<worker, due, runs, req>>
    BY DEF CancelStep, BeginCancel, CancelDequeue, CancelPayload, CancelLock,
           CancelIndex, clock, history, caller
  <1>2. \A a \in Actions : a \in due => payload'[a] \in {payload[a], "none"}
    BY DEF CancelStep, BeginCancel, CancelDequeue, CancelPayload, CancelLock,
           CancelIndex, store, TypeOK, StoreTypeOK
  <1>3. \A d \in Callers : req'[d] \notin due
    BY <1>1 DEF OnceInv, HeldWorkIsDue
  <1> QED  BY <1>1, <1>2, <1>3, BystanderOnce

\* With one worker, a step of it keeps the invariant: it alone holds work.
LEMMA WorkerOnce ==
  ASSUME TypeOK, OnceInv, SingleWorker, NEW w \in Workers, WorkerStep(w)
  PROVE  OnceInv'
  <1> USE DEF OnceInv, HandledAtMostOnce, NothingDispatchedIsPending,
              DispatchIsFirst, HeldWorkIsDue
  <1>1. /\ \A v \in Workers : v = w
        /\ wpc \in [Workers -> WorkerSteps] /\ cur[w] \in Actions \union {NoAction}
        /\ scan \in [Workers -> SUBSET Actions] /\ due \subseteq Actions
        /\ copy \in [Workers -> [Actions -> States]]
        /\ cur \in [Workers -> Actions \union {NoAction}]
        /\ payload \in [Actions -> States] /\ runs \in [Actions -> Nat]
        /\ cur[w] = NoAction <=> wpc[w] \in {"idle", "scan", "pick"}
    BY DEF SingleWorker, TypeOK, WorkerTypeOK, StoreTypeOK, ClockTypeOK,
           HistoryTypeOK
  <1>2. CASE Tick(w)
    BY <1>1, <1>2
    DEF Tick, caller, clock, history, Goto, caller, clock, history, store
  <1>3. CASE ReadEntry(w)
    BY <1>1, <1>3
    DEF ReadEntry, ReadResult, Abandon, Nothing, Goto, caller, clock, history, store
  <1>4. CASE DropEntry(w)
    BY <1>1, <1>4
    DEF DropEntry, Abandon, Nothing, Goto, caller, clock, history, store
  <1>5. CASE EndFetch(w)
    BY <1>1, <1>5
    DEF EndFetch, Advance, Goto, caller, clock, history, store
  <1>6. CASE PickAction(w)
    BY <1>1, <1>6
    DEF PickAction, FirstCommand, Goto, caller, clock, history, store
  <1>7. CASE EndTick(w)
    BY <1>1, <1>7
    DEF EndTick, Goto, caller, clock, history, store
  <1>8. CASE AcquireLock(w)
    BY <1>1, <1>8
    DEF AcquireLock, AfterAcquire, NextInBatch, Goto, caller, clock, history, store
  <1>9. CASE SaveProcessing(w)
    <2>1. /\ wpc[w] = "begin" /\ cur[w] \in Actions /\ cur[w] \in due
          /\ runs[cur[w]] = 0 /\ copy[w][cur[w]] # "pending"
      BY <1>1, <1>9 DEF SaveProcessing
    <2>2. /\ UNCHANGED <<due, runs, req>>
          /\ \A a \in Actions : a # cur[w] => payload'[a] = payload[a]
          /\ payload'[cur[w]] \in {payload[cur[w]], "processing"}
      BY <1>1, <1>9, <2>1 DEF SaveProcessing, clock, history, caller
    <2>3. CASE NextInBatch(w)
      BY <1>1, <2>1, <2>2, <2>3 DEF NextInBatch, Goto
    <2>4. CASE /\ wpc' = [wpc EXCEPT ![w] = "handle"]
               /\ UNCHANGED <<scan, copy, cur>>
               /\ payload'[cur[w]] = "processing"
      BY <1>1, <2>1, <2>2, <2>4
    <2> QED  BY <1>1, <1>9, <2>1, <2>3, <2>4 DEF SaveProcessing, Command, Advance, Goto
  <1>10. CASE Handle(w)
    BY <1>1, <1>10
    DEF Handle, Goto, caller, clock, history, store
  <1>11. CASE SaveOutcome(w)
    BY <1>1, <1>11
    DEF SaveOutcome, NextInBatch, Goto, caller, clock, history, store
  <1>12. CASE DeleteLock(w)
    BY <1>1, <1>12
    DEF DeleteLock, Advance, NextInBatch, Goto, caller, clock, history, store
  <1>13. CASE RemoveIndex(w)
    BY <1>1, <1>13
    DEF RemoveIndex, AfterRemoveIndex, Advance, NextInBatch, Goto, caller, clock, history, store
  <1>14. CASE DeleteExpired(w)
    BY <1>1, <1>14
    DEF DeleteExpired, Advance, NextInBatch, Goto, caller, clock, history, store
  <1>15. CASE RemoveFromQueue(w)
    BY <1>1, <1>15
    DEF RemoveFromQueue, NextInBatch, Goto, caller, clock, history, store
  <1> QED
    BY <1>2, <1>3, <1>4, <1>5, <1>6, <1>7, <1>8,
       <1>9, <1>10, <1>11, <1>12, <1>13, <1>14, <1>15 DEF WorkerStep

LEMMA EnvironmentOnce ==
  ASSUME TypeOK, OnceInv, SingleWorker, Environment
  PROVE  OnceInv'
  <1>1. ASSUME NEW a \in Actions,
               \/ BecomeDue(a) \/ RetentionLapse(a)
               \/ PayloadExpires(a) \/ LockExpires(a)
        PROVE  OnceInv'
    <2>1. CASE BecomeDue(a)
      <3>1. /\ due' = due \union {a} /\ \A c \in Callers : req[c] # a
            /\ UNCHANGED <<payload, runs, req>> /\ UNCHANGED worker
        BY <2>1 DEF BecomeDue, store, caller, history
      <3>2. UNCHANGED <<wpc, scan, copy, cur>>
        BY <3>1 DEF worker
      <3>3. HandledAtMostOnce' /\ HeldWorkIsDue'
        BY <3>1, <3>2 DEF OnceInv, HandledAtMostOnce, HeldWorkIsDue
      <3>4. NothingDispatchedIsPending'
        BY <3>1, <3>2 DEF OnceInv, NothingDispatchedIsPending
      <3>5. DispatchIsFirst'
        BY <3>1, <3>2 DEF OnceInv, DispatchIsFirst
      <3> QED  BY <3>3, <3>4, <3>5 DEF OnceInv
    <2>2. CASE ~BecomeDue(a)
      <3>1. /\ UNCHANGED <<worker, due, runs, req>>
            /\ \A b \in Actions : payload'[b] \in {payload[b], "none"}
        BY <1>1, <2>2 DEF RetentionLapse, PayloadExpires, LockExpires, store,
                          clock, caller, history, TypeOK, StoreTypeOK
      <3>2. \A c \in Callers : req'[c] \notin due
        BY <3>1 DEF OnceInv, HeldWorkIsDue
      <3> QED  BY <3>1, <3>2, BystanderOnce
    <2> QED  BY <2>1, <2>2
  <1>2. ASSUME NEW w \in Workers, WorkerStops(w) PROVE OnceInv'
    <2>1. /\ UNCHANGED <<payload, due, runs, req>> /\ Abandon(w)
          /\ \A v \in Workers : v = w
      BY <1>2 DEF WorkerStops, Crashes, store, clock, history, caller,
                  SingleWorker
    <2> QED
      BY <2>1 DEF Abandon, Nothing, TypeOK, WorkerTypeOK, ClockTypeOK, OnceInv,
                  HandledAtMostOnce, HeldWorkIsDue, DispatchIsFirst,
                  NothingDispatchedIsPending
  <1>3. ASSUME NEW c \in Callers, CallerStops(c) PROVE OnceInv'
    <2>1. /\ UNCHANGED <<worker, due, runs, payload>>
          /\ req' = [req EXCEPT ![c] = NoAction]
      BY <1>3 DEF CallerStops, Crashes, store, clock, history
    <2>2. \A d \in Callers : req'[d] \notin due
      BY <2>1 DEF OnceInv, HeldWorkIsDue, TypeOK, CallerTypeOK, ClockTypeOK
    <2> QED  BY <2>1, <2>2, BystanderOnce
  <1>4. ASSUME NEW x \in Cancellers, CancellerStops(x) PROVE OnceInv'
    <2>1. UNCHANGED <<worker, due, runs, payload, req>>
      BY <1>4 DEF CancellerStops, Crashes, store, clock, history, caller
    <2>2. \A d \in Callers : req'[d] \notin due
      BY <2>1 DEF OnceInv, HeldWorkIsDue
    <2> QED  BY <2>1, <2>2, BystanderOnce
  <1> QED  BY <1>1, <1>2, <1>3, <1>4 DEF Environment

\* Every step of a system with one worker keeps the invariant.
LEMMA NextOnce ==
  ASSUME TypeOK, OnceInv, SingleWorker, [Next]_vars
  PROVE  OnceInv'
  <1>1. CASE Next
    BY <1>1, ScheduleOnce, WorkerOnce, CancelOnce, EnvironmentOnce DEF Next
  <1>2. CASE UNCHANGED vars
    <2>1. UNCHANGED <<worker, due, runs, payload, req>>
      BY <1>2 DEF vars, store, clock, history, caller
    <2>2. \A d \in Callers : req'[d] \notin due
      BY <2>1 DEF OnceInv, HeldWorkIsDue
    <2> QED  BY <2>1, <2>2, BystanderOnce
  <1> QED  BY <1>1, <1>2

\* With one worker no action is dispatched twice, whatever commands fail,
\* locks expire, processes stop, callers register and cancellers remove.
THEOREM AtMostOnce == SingleWorker => (Spec => []HandledAtMostOnce)
  <1> SUFFICES ASSUME SingleWorker PROVE Spec => []HandledAtMostOnce
    OBVIOUS
  <1>1. Init => OnceInv
    BY InitOnce
  <1>2. TypeOK /\ OnceInv /\ [Next]_vars => OnceInv'
    BY NextOnce
  <1>3. OnceInv => HandledAtMostOnce
    BY DEF OnceInv
  <1> QED  BY <1>1, <1>2, <1>3, WorkTypeCorrect, PTL DEF Spec

-----------------------------------------------------------------------------
(***************************************************************************)
(* What a worker holds, what is stored and what is being registered, for   *)
(* any number of workers, callers and cancellers                           *)
(*                                                                         *)
(* Registration writes Pending, but never for an action that is due; all   *)
(* that a worker reads, holds or has dispatched is due.  So nothing is     *)
(* Pending again once a worker has moved it on, whoever else is at work.   *)
(***************************************************************************)
\* A worker's commands after the handler of its action has returned.
Finishing == {"store", "unlock", "unindex", "purge", "dequeue"}

\* What worker w fetched or is busy with is due, what it finishes was
\* dispatched, and what it drops or handles is not stored as Pending.
HeldInv(w) ==
    /\ \A a \in Actions :
          copy[w][a] # "none" \/ a \in scan[w] \/ cur[w] = a => a \in due
    /\ \A a \in Actions : copy[w][a] \in Terminal => runs[a] > 0
    /\ \A a \in Actions : copy[w][a] = "processing" =>
          cur[w] = a /\ wpc[w] \in {"begin", "handle"}
    /\ wpc[w] = "acquire" => copy[w][cur[w]] = "pending"
    /\ wpc[w] \in {"begin", "handle"} => copy[w][cur[w]] = "processing"
    /\ wpc[w] = "store" => copy[w][cur[w]] \in Terminal
    /\ wpc[w] \in Finishing => runs[cur[w]] > 0
    /\ wpc[w] \in {"drop", "handle"} => payload[cur[w]] # "pending"

\* A stored state past Pending was reached by a due action, an outcome by a
\* dispatched one, and only an outcome has a TTL.
RecordInv(a) ==
    /\ runs[a] > 0 => a \in due /\ payload[a] # "pending"
    /\ payload[a] = "processing" => a \in due
    /\ payload[a] \in Terminal => runs[a] > 0
    /\ a \in volatile => payload[a] \in Terminal

\* What is being registered is not due, and a fresh ID has one registration.
RequestInv ==
    /\ accepted \subseteq attempted
    /\ \A c \in Callers :
          /\ req[c] \notin due
          /\ req[c] # NoAction => req[c] \in attempted
          /\ req[c] \notin FixedIDs \union {NoAction} =>
                /\ req[c] \notin accepted
                /\ \A d \in Callers : req[d] = req[c] => d = c

QueueInv ==
    /\ \A w \in Workers : HeldInv(w)
    /\ \A a \in Actions : RecordInv(a)
    /\ RequestInv

LEMMA InitQueue == Init => QueueInv
  BY DEF Init, Nothing, QueueInv, HeldInv, RecordInv, RequestInv, Finishing

\* Time and dispatch counts only advance, and Pending is written only for
\* actions that are not due.
Progresses ==
    /\ due \subseteq due'
    /\ \A a \in Actions : runs[a] > 0 => runs'[a] > 0
    /\ \A a \in due : payload'[a] = "pending" => payload[a] = "pending"

\* A step that progresses and leaves worker v alone keeps what v knows.
LEMMA HeldUntouched ==
  ASSUME TypeOK, NEW v \in Workers, HeldInv(v), Progresses,
         wpc'[v] = wpc[v], scan'[v] = scan[v], copy'[v] = copy[v],
         cur'[v] = cur[v]
  PROVE  HeldInv(v)'
  <1>1. cur[v] # NoAction => cur[v] \in Actions /\ cur[v] \in due
    BY DEF TypeOK, WorkerTypeOK, HeldInv
  <1>2. wpc[v] \in Finishing \union {"drop", "handle"} => cur[v] # NoAction
    BY DEF TypeOK, WorkerTypeOK, Finishing
  <1> QED  BY <1>1, <1>2 DEF HeldInv, Progresses

LEMMA RequestUntouched ==
  ASSUME RequestInv, UNCHANGED <<req, due, attempted, accepted>>
  PROVE  RequestInv'
  BY DEF RequestInv

\* A step that touches neither the workers nor the requests, and at most
\* removes records, keeps the invariant.
LEMMA BystanderQueue ==
  ASSUME TypeOK, QueueInv, UNCHANGED <<worker, req, due, runs, attempted, accepted>>,
         \A a \in Actions : payload'[a] \in {payload[a], "none"},
         \A a \in Actions : a \in volatile' =>
                               a \in volatile /\ payload'[a] = payload[a]
  PROVE  QueueInv'
  <1>1. Progresses
    BY DEF Progresses, TypeOK, HistoryTypeOK, ClockTypeOK
  <1>2. \A v \in Workers : HeldInv(v)'
    BY <1>1, HeldUntouched DEF QueueInv, worker
  <1>3. \A a \in Actions : RecordInv(a)'
    BY DEF QueueInv, RecordInv
  <1>4. RequestInv'
    BY RequestUntouched DEF QueueInv
  <1> QED  BY <1>2, <1>3, <1>4 DEF QueueInv

\* A Schedule call writes Pending, for its own request alone.
LEMMA ScheduleQueue ==
  ASSUME TypeOK, QueueInv, NEW c \in Callers, ScheduleStep(c)
  PROVE  QueueInv'
  <1>1. UNCHANGED <<worker, due, runs>>
    BY DEF ScheduleStep, BeginSchedule, SchedulePayload, ScheduleIndex,
           ScheduleEnqueue, ScheduleUndoIndex, ScheduleUndoPayload, clock,
           history
  <1>2. req[c] \notin due /\ req[c] \in Actions \union {NoAction}
    BY DEF QueueInv, RequestInv, TypeOK, CallerTypeOK
  <1>3. /\ payload \in [Actions -> States] /\ volatile \subseteq Actions
        /\ due \subseteq Actions /\ runs \in [Actions -> Nat]
    BY DEF TypeOK, StoreTypeOK, ClockTypeOK, HistoryTypeOK
  <1>4. /\ \A a \in Actions : a # req[c] =>
              payload'[a] = payload[a] /\ (a \in volatile' => a \in volatile)
        /\ \/ payload'[req[c]] \in {"pending", "none"} /\ req[c] \notin volatile'
           \/ /\ payload'[req[c]] = payload[req[c]]
              /\ req[c] \in volatile' => req[c] \in volatile
    <2>1. CASE SchedulePayload(c)
      <3>1. PICK done \in BOOLEAN :
               /\ spc[c] = "set"
               /\ payload' = IF done THEN [payload EXCEPT ![req[c]] = "pending"]
                                     ELSE payload
               /\ volatile' = Without(done, volatile, req[c])
        BY <2>1 DEF SchedulePayload
      <3>2. req[c] \in Actions
        BY <3>1 DEF TypeOK, CallerTypeOK
      <3> QED  BY <1>3, <3>1, <3>2 DEF Without
    <2>2. CASE ScheduleUndoPayload(c)
      <3>1. PICK done \in BOOLEAN :
               /\ spc[c] = "undoPayload"
               /\ payload' = IF done THEN [payload EXCEPT ![req[c]] = "none"]
                                     ELSE payload
               /\ volatile' = Without(done, volatile, req[c])
        BY <2>2 DEF ScheduleUndoPayload
      <3>2. req[c] \in Actions
        BY <3>1 DEF TypeOK, CallerTypeOK
      <3> QED  BY <1>3, <3>1, <3>2 DEF Without
    <2>3. CASE UNCHANGED <<payload, volatile>>
      BY <2>3
    <2> QED
      BY <2>1, <2>2, <2>3 DEF ScheduleStep, BeginSchedule, ScheduleIndex,
         ScheduleEnqueue, ScheduleUndoIndex, store
  <1>5. Progresses
    BY <1>1, <1>2, <1>3, <1>4 DEF Progresses
  <1>6. \A v \in Workers : HeldInv(v)'
    BY <1>1, <1>5, HeldUntouched DEF QueueInv, worker
  <1>7. ASSUME NEW a \in Actions PROVE RecordInv(a)'
    <2>1. RecordInv(a) /\ (a \in due => a # req[c])
      BY <1>2 DEF QueueInv
    <2>2. CASE a # req[c]
      BY <1>1, <1>4, <2>1, <2>2 DEF RecordInv
    <2>3. CASE a = req[c]
      BY <1>1, <1>3, <1>4, <2>1, <2>3 DEF RecordInv
    <2> QED  BY <2>2, <2>3
  <1>8. RequestInv'
    <2>1. RequestInv /\ req \in [Callers -> Actions \union {NoAction}]
      BY DEF QueueInv, TypeOK, CallerTypeOK
    <2>2. CASE \E a \in Actions : BeginSchedule(c, a)
      <3>1. PICK a \in Actions : BeginSchedule(c, a)
        BY <2>2
      <3>2. /\ a \notin due /\ (a \in FixedIDs \/ a \notin attempted)
            /\ req' = [req EXCEPT ![c] = a] /\ UNCHANGED accepted
            /\ attempted' = attempted \union {a}
        BY <3>1 DEF BeginSchedule, Registrable
      <3> QED  BY <1>1, <2>1, <3>2 DEF RequestInv
    <2>3. CASE UNCHANGED <<req, attempted, accepted>>
      BY <1>1, <2>1, <2>3, RequestUntouched
    <2>4. CASE /\ UNCHANGED attempted /\ req[c] # NoAction
               /\ \E ok \in BOOLEAN : ReturnSchedule(c, ok)
      <3>1. PICK ok \in BOOLEAN : /\ req' = [req EXCEPT ![c] = NoAction]
                                  /\ accepted' = With(ok, accepted, req[c])
        BY <2>4 DEF ReturnSchedule
      <3>2. NoAction \notin due /\ \A d \in Callers : req[d] \notin due
        BY <1>3, <2>1 DEF RequestInv
      <3>3. req[c] \in attempted
        BY <2>1, <2>4 DEF RequestInv
      <3>4. accepted' \subseteq accepted \union {req[c]}
        BY <3>1 DEF With
      <3> QED  BY <1>1, <2>1, <2>4, <3>1, <3>2, <3>3, <3>4 DEF RequestInv
    <2>5. /\ SchedulePayload(c) \/ ScheduleEnqueue(c) \/ ScheduleUndoPayload(c)
             => /\ UNCHANGED attempted /\ req[c] # NoAction
                /\ \/ \E ok \in BOOLEAN : ReturnSchedule(c, ok)
                   \/ UNCHANGED <<req, accepted>>
          /\ ScheduleIndex(c) \/ ScheduleUndoIndex(c)
             => UNCHANGED <<req, attempted, accepted>>
      BY DEF SchedulePayload, ScheduleEnqueue, ScheduleUndoPayload,
             ScheduleIndex, ScheduleUndoIndex, history, TypeOK, CallerTypeOK
    <2> QED  BY <2>2, <2>3, <2>4, <2>5 DEF ScheduleStep
  <1> QED  BY <1>6, <1>7, <1>8 DEF QueueInv

\* A cancellation only removes.
LEMMA CancelQueue ==
  ASSUME TypeOK, QueueInv, NEW x \in Cancellers, CancelStep(x)
  PROVE  QueueInv'
  <1>1. UNCHANGED <<worker, req, due, runs, attempted, accepted>>
    BY DEF CancelStep, BeginCancel, CancelDequeue, CancelPayload, CancelLock,
           CancelIndex, clock, history, caller
  <1>2. \/ UNCHANGED <<payload, volatile>>
        \/ /\ payload' = [payload EXCEPT ![Member(x)] = "none"]
           /\ volatile' = volatile \ {Member(x)}
    BY DEF CancelStep, BeginCancel, CancelDequeue, CancelPayload, CancelLock,
           CancelIndex, store, Without
  <1>3. \A a \in Actions : payload'[a] \in {payload[a], "none"}
    BY <1>2 DEF TypeOK, StoreTypeOK
  <1>4. \A a \in Actions : a \in volatile' =>
                              a \in volatile /\ payload'[a] = payload[a]
    BY <1>2 DEF TypeOK, StoreTypeOK
  <1> QED  BY <1>1, <1>3, <1>4, BystanderQueue

\* A step of a worker keeps what it knows of its own work.
LEMMA WorkerHeld ==
  ASSUME TypeOK, QueueInv, NEW w \in Workers, WorkerStep(w)
  PROVE  HeldInv(w)'
  <1>1. /\ wpc \in [Workers -> WorkerSteps] /\ cur[w] \in Actions \union {NoAction}
        /\ scan \in [Workers -> SUBSET Actions] /\ due \subseteq Actions
        /\ copy \in [Workers -> [Actions -> States]]
        /\ cur \in [Workers -> Actions \union {NoAction}]
        /\ payload \in [Actions -> States] /\ runs \in [Actions -> Nat]
        /\ cur[w] = NoAction <=> wpc[w] \in {"idle", "scan", "pick"}
    BY DEF TypeOK, WorkerTypeOK, StoreTypeOK, ClockTypeOK, HistoryTypeOK
  <1>2. HeldInv(w) /\ \A a \in Actions : RecordInv(a)
    BY DEF QueueInv
  <1> USE <1>1, <1>2 DEF HeldInv, Finishing
  <1>3. CASE Tick(w)
    BY <1>3 DEF Tick, clock, history, Goto, store
  <1>4. CASE ReadEntry(w)
    <2>1. UNCHANGED <<payload, due, runs>>
      BY <1>4 DEF ReadEntry, store, clock, history
    <2>2. CASE Abandon(w)
      BY <2>1, <2>2 DEF Abandon, Nothing
    <2>3. CASE \E a \in scan[w] :
                  /\ wpc[w] = "scan" /\ payload[a] # "pending"
                  /\ wpc' = [wpc EXCEPT ![w] = "drop"]
                  /\ scan' = [scan EXCEPT ![w] = @ \ {a}]
                  /\ cur' = [cur EXCEPT ![w] = a]
                  /\ UNCHANGED copy
      BY <2>1, <2>3
    <2>4. CASE \E a \in scan[w] :
                  /\ wpc[w] = "scan" /\ payload[a] \in {"pending"} \union Terminal
                  /\ scan' = [scan EXCEPT ![w] = @ \ {a}]
                  /\ copy' = [copy EXCEPT ![w][a] = payload[a]]
                  /\ UNCHANGED <<wpc, cur>>
      BY <2>1, <2>4 DEF RecordInv
    <2> QED  BY <1>4, <2>2, <2>3, <2>4 DEF ReadEntry, ReadResult, Goto
  <1>5. CASE DropEntry(w)
    BY <1>5 DEF DropEntry, Abandon, Nothing, Goto, clock, history
  <1>6. CASE EndFetch(w)
    BY <1>6 DEF EndFetch, Advance, Goto, clock, history, store
  <1>7. CASE PickAction(w)
    BY <1>7 DEF PickAction, FirstCommand, Goto, clock, history, store
  <1>8. CASE EndTick(w)
    BY <1>8 DEF EndTick, Goto, clock, history, store
  <1>9. CASE AcquireLock(w)
    BY <1>9 DEF AcquireLock, AfterAcquire, NextInBatch, Goto, clock, history
  <1>10. CASE SaveProcessing(w)
    <2>1. /\ wpc[w] = "begin" /\ cur[w] \in Actions
          /\ UNCHANGED <<due, runs>>
          /\ \A a \in Actions : payload'[a] \in {payload[a], "processing"}
      BY <1>10 DEF SaveProcessing, clock, history
    <2>2. CASE NextInBatch(w)
      BY <2>1, <2>2 DEF NextInBatch, Goto
    <2>3. CASE /\ wpc' = [wpc EXCEPT ![w] = "handle"]
               /\ UNCHANGED <<scan, copy, cur>>
               /\ payload'[cur[w]] = "processing"
      BY <2>1, <2>3
    <2> QED  BY <1>10, <2>1, <2>2, <2>3 DEF SaveProcessing, Command, Advance, Goto
  <1>11. CASE Handle(w)
    BY <1>11 DEF Handle, Goto, store
  <1>12. CASE SaveOutcome(w)
    BY <1>12 DEF SaveOutcome, NextInBatch, Goto, clock, history
  <1>13. CASE DeleteLock(w)
    BY <1>13 DEF DeleteLock, Advance, NextInBatch, Goto, clock, history
  <1>14. CASE RemoveIndex(w)
    BY <1>14 DEF RemoveIndex, AfterRemoveIndex, Advance, NextInBatch, Goto,
                 clock, history
  <1>15. CASE DeleteExpired(w)
    BY <1>15 DEF DeleteExpired, Advance, NextInBatch, Goto, clock, history
  <1>16. CASE RemoveFromQueue(w)
    BY <1>16 DEF RemoveFromQueue, NextInBatch, Goto, clock, history
  <1> QED
    BY <1>3, <1>4, <1>5, <1>6, <1>7, <1>8, <1>9, <1>10, <1>11, <1>12, <1>13,
       <1>14, <1>15, <1>16 DEF WorkerStep

\* What a step of worker w may do to the records: it writes only that of its
\* current action, Processing before the handler, the outcome and nothing
\* else after it; only Save of an outcome sets a TTL.
WorkerWrites(w) ==
    /\ UNCHANGED due
    /\ \A a \in Actions :
          \/ UNCHANGED <<payload[a], runs[a]>> /\ (a \in volatile' <=> a \in volatile)
          \/ /\ a = cur[w] /\ wpc[w] = "begin"
             /\ payload'[a] = "processing" /\ a \notin volatile'
             /\ runs'[a] = runs[a]
          \/ /\ a = cur[w] /\ wpc[w] = "handle"
             /\ payload'[a] = payload[a] /\ (a \in volatile' <=> a \in volatile)
             /\ runs'[a] = runs[a] + 1
          \/ /\ a = cur[w] /\ wpc[w] = "store"
             /\ payload'[a] = copy[w][a]
             /\ runs'[a] = runs[a]
          \/ /\ a = cur[w] /\ wpc[w] = "purge"
             /\ payload'[a] = "none" /\ a \notin volatile'
             /\ runs'[a] = runs[a]

LEMMA WorkerStepWrites ==
  ASSUME TypeOK, NEW w \in Workers, WorkerStep(w)
  PROVE  WorkerWrites(w)
  <1>1. /\ payload \in [Actions -> States] /\ runs \in [Actions -> Nat]
        /\ volatile \subseteq Actions /\ cur[w] \in Actions \union {NoAction}
        /\ cur[w] = NoAction <=> wpc[w] \in {"idle", "scan", "pick"}
    BY DEF TypeOK, WorkerTypeOK, StoreTypeOK, HistoryTypeOK
  <1>2. CASE SaveProcessing(w)
    BY <1>1, <1>2 DEF SaveProcessing, WorkerWrites, Without, clock, history
  <1>3. CASE Handle(w)
    BY <1>1, <1>3 DEF Handle, WorkerWrites, store
  <1>4. CASE SaveOutcome(w)
    <2>1. PICK done \in BOOLEAN :
             /\ wpc[w] = "store" /\ UNCHANGED <<due, runs>>
             /\ payload' = IF done THEN [payload EXCEPT ![cur[w]] = copy[w][cur[w]]]
                                   ELSE payload
             /\ volatile' = IF cur[w] \in lapsed THEN Without(done, volatile, cur[w])
                                                 ELSE With(done, volatile, cur[w])
      BY <1>4 DEF SaveOutcome, clock, history
    <2>2. CASE done
      BY <1>1, <2>1, <2>2 DEF WorkerWrites, With, Without
    <2>3. CASE ~done
      BY <1>1, <2>1, <2>3 DEF WorkerWrites, With, Without
    <2> QED  BY <2>2, <2>3
  <1>5. CASE DeleteExpired(w)
    BY <1>1, <1>5 DEF DeleteExpired, WorkerWrites, Without, clock, history
  <1>6. CASE UNCHANGED <<payload, volatile, runs, due>>
    BY <1>6 DEF WorkerWrites
  <1> QED
    BY <1>2, <1>3, <1>4, <1>5, <1>6
    DEF WorkerStep, Tick, ReadEntry, DropEntry, EndFetch, PickAction, EndTick,
        AcquireLock, DeleteLock, RemoveIndex, RemoveFromQueue, store, clock,
        history

LEMMA WorkerQueue ==
  ASSUME TypeOK, QueueInv, NEW w \in Workers, WorkerStep(w)
  PROVE  QueueInv'
  <1>1. WorkerWrites(w)
    BY WorkerStepWrites
  <1>2. UNCHANGED <<req, attempted, accepted>>
        /\ \A v \in Workers : v # w =>
              /\ wpc'[v] = wpc[v] /\ scan'[v] = scan[v]
              /\ copy'[v] = copy[v] /\ cur'[v] = cur[v]
    BY DEF TypeOK, WorkerTypeOK, WorkerStep, Tick, ReadEntry, DropEntry,
           EndFetch, PickAction, EndTick, AcquireLock, SaveProcessing, Handle,
           SaveOutcome, DeleteLock, RemoveIndex, DeleteExpired,
           RemoveFromQueue, Abandon, NextInBatch, Advance, AfterRemoveIndex,
           Goto, caller, history
  <1>3. HeldInv(w) /\ \A a \in Actions : RecordInv(a)
    BY DEF QueueInv
  <1>4. runs \in [Actions -> Nat] /\ cur[w] \in Actions \union {NoAction}
        /\ due \subseteq Actions /\ copy[w] \in [Actions -> States]
        /\ payload \in [Actions -> States]
    BY DEF TypeOK, HistoryTypeOK, WorkerTypeOK, ClockTypeOK, StoreTypeOK
  <1>5. Progresses
    BY <1>1, <1>3, <1>4 DEF Progresses, WorkerWrites, HeldInv
  <1>6. \A v \in Workers : HeldInv(v)'
    BY <1>2, <1>5, HeldUntouched, WorkerHeld DEF QueueInv
  <1>7. ASSUME NEW a \in Actions PROVE RecordInv(a)'
    <2>1. RecordInv(a)
      BY <1>3
    <2> QED
      BY <1>1, <1>3, <1>4, <2>1 DEF RecordInv, WorkerWrites, HeldInv, Finishing
  <1>8. RequestInv'
    BY <1>1, <1>2, RequestUntouched DEF QueueInv, WorkerWrites
  <1> QED  BY <1>6, <1>7, <1>8 DEF QueueInv

LEMMA EnvironmentQueue ==
  ASSUME TypeOK, QueueInv, Environment
  PROVE  QueueInv'
  <1>1. ASSUME NEW a \in Actions, BecomeDue(a) PROVE QueueInv'
    <2>1. /\ due' = due \union {a} /\ \A c \in Callers : req[c] # a
          /\ UNCHANGED <<payload, volatile, runs, req, attempted, accepted,
                         wpc, scan, copy, cur>>
      BY <1>1 DEF BecomeDue, store, caller, history, worker
    <2>2. \A w \in Workers : HeldInv(w)'
      BY <2>1 DEF QueueInv, HeldInv
    <2>3. \A b \in Actions : RecordInv(b)'
      BY <2>1 DEF QueueInv, RecordInv
    <2>4. RequestInv'
      BY <2>1 DEF QueueInv, RequestInv
    <2> QED  BY <2>2, <2>3, <2>4 DEF QueueInv
  <1>2. ASSUME NEW a \in Actions,
               RetentionLapse(a) \/ PayloadExpires(a) \/ LockExpires(a)
        PROVE  QueueInv'
    <2>1. /\ UNCHANGED <<worker, req, due, runs, attempted, accepted>>
          /\ \/ UNCHANGED <<payload, volatile>>
             \/ /\ payload' = [payload EXCEPT ![a] = "none"]
                /\ volatile' = volatile \ {a}
      BY <1>2 DEF RetentionLapse, PayloadExpires, LockExpires, store, clock,
                  caller, history
    <2>2. \A b \in Actions : payload'[b] \in {payload[b], "none"}
      BY <2>1 DEF TypeOK, StoreTypeOK
    <2>3. \A b \in Actions : b \in volatile' =>
                                b \in volatile /\ payload'[b] = payload[b]
      BY <2>1 DEF TypeOK, StoreTypeOK
    <2> QED  BY <2>1, <2>2, <2>3, BystanderQueue
  <1>3. ASSUME NEW w \in Workers, WorkerStops(w) PROVE QueueInv'
    <2>1. /\ UNCHANGED <<payload, volatile, due, runs, req, attempted, accepted>>
          /\ Abandon(w)
      BY <1>3 DEF WorkerStops, Crashes, store, clock, history, caller
    <2>2. Progresses
      BY <2>1 DEF Progresses
    <2>3. HeldInv(w)'
      BY <2>1 DEF Abandon, Nothing, TypeOK, WorkerTypeOK, ClockTypeOK, HeldInv,
                  Finishing
    <2>4. \A v \in Workers : v # w =>
             /\ wpc'[v] = wpc[v] /\ scan'[v] = scan[v]
             /\ copy'[v] = copy[v] /\ cur'[v] = cur[v]
      BY <2>1 DEF Abandon, TypeOK, WorkerTypeOK
    <2>5. \A v \in Workers : HeldInv(v)'
      BY <2>2, <2>3, <2>4, HeldUntouched DEF QueueInv
    <2>6. \A a \in Actions : RecordInv(a)'
      BY <2>1 DEF QueueInv, RecordInv
    <2> QED  BY <2>1, <2>5, <2>6, RequestUntouched DEF QueueInv
  <1>4. ASSUME NEW c \in Callers, CallerStops(c) PROVE QueueInv'
    <2>1. /\ UNCHANGED <<worker, due, runs, payload, volatile, attempted, accepted>>
          /\ req' = [req EXCEPT ![c] = NoAction]
      BY <1>4 DEF CallerStops, Crashes, store, clock, history
    <2>2. Progresses
      BY <2>1 DEF Progresses
    <2>3. \A v \in Workers : HeldInv(v)'
      BY <2>1, <2>2, HeldUntouched DEF QueueInv, worker
    <2>4. \A a \in Actions : RecordInv(a)'
      BY <2>1 DEF QueueInv, RecordInv
    <2>5. RequestInv'
      BY <2>1 DEF QueueInv, RequestInv, TypeOK, CallerTypeOK, ClockTypeOK
    <2> QED  BY <2>3, <2>4, <2>5 DEF QueueInv
  <1>5. ASSUME NEW x \in Cancellers, CancellerStops(x) PROVE QueueInv'
    <2>1. UNCHANGED <<worker, due, runs, payload, volatile, req, attempted, accepted>>
      BY <1>5 DEF CancellerStops, Crashes, store, clock, history, caller
    <2>2. \A b \in Actions : payload'[b] \in {payload[b], "none"}
      BY <2>1
    <2>3. \A b \in Actions : b \in volatile' =>
                                b \in volatile /\ payload'[b] = payload[b]
      BY <2>1
    <2> QED  BY <2>1, <2>2, <2>3, BystanderQueue
  <1> QED  BY <1>1, <1>2, <1>3, <1>4, <1>5 DEF Environment

\* Every step keeps the invariant.
LEMMA NextQueue ==
  ASSUME TypeOK, QueueInv, [Next]_vars
  PROVE  QueueInv'
  <1>1. CASE Next
    BY <1>1, ScheduleQueue, WorkerQueue, CancelQueue, EnvironmentQueue DEF Next
  <1>2. CASE UNCHANGED vars
    <2>1. UNCHANGED <<worker, req, due, runs, attempted, accepted, payload, volatile>>
      BY <1>2 DEF vars, store, clock, history, caller
    <2>2. \A b \in Actions : payload'[b] \in {payload[b], "none"}
      BY <2>1
    <2>3. \A b \in Actions : b \in volatile' =>
                                b \in volatile /\ payload'[b] = payload[b]
      BY <2>1
    <2> QED  BY <2>1, <2>2, <2>3, BystanderQueue
  <1> QED  BY <1>1, <1>2

LEMMA QueueCorrect == Spec => []QueueInv
  <1>1. TypeOK /\ QueueInv /\ [Next]_vars => QueueInv'
    BY NextQueue
  <1> QED  BY <1>1, InitQueue, WorkTypeCorrect, PTL DEF Spec

-----------------------------------------------------------------------------
(***************************************************************************)
(* Outcomes are final with one worker                                      *)
(***************************************************************************)
\* The outcome the worker holds is the stored one, if any is stored.
CopyAgrees ==
    \A w \in Workers : \A a \in Actions :
        copy[w][a] \in Terminal /\ payload[a] \in Terminal =>
            copy[w][a] = payload[a]

\* A stored outcome stays or goes, and Processing never becomes Pending.
FinalStep ==
    \A a \in Actions :
        /\ payload[a] \in Terminal => payload'[a] \in {payload[a], "none"}
        /\ payload[a] = "processing" => payload'[a] # "pending"

\* What others than the workers may do to the records.
OthersWrite ==
    /\ \A a \in Actions :
          \/ payload'[a] \in {payload[a], "none"}
          \/ payload'[a] = "pending" /\ a \notin due
    /\ UNCHANGED runs

LEMMA ScheduleWrites ==
  ASSUME TypeOK, QueueInv, NEW c \in Callers, ScheduleStep(c)
  PROVE  OthersWrite /\ UNCHANGED worker
  <1>1. req[c] \notin due /\ payload \in [Actions -> States]
    BY DEF QueueInv, RequestInv, TypeOK, StoreTypeOK
  <1>2. \/ UNCHANGED payload
        \/ payload' = [payload EXCEPT ![req[c]] = "pending"]
        \/ payload' = [payload EXCEPT ![req[c]] = "none"]
    BY DEF ScheduleStep, BeginSchedule, SchedulePayload, ScheduleIndex,
           ScheduleEnqueue, ScheduleUndoIndex, ScheduleUndoPayload, store
  <1>3. UNCHANGED <<worker, runs>>
    BY DEF ScheduleStep, BeginSchedule, SchedulePayload, ScheduleIndex,
           ScheduleEnqueue, ScheduleUndoIndex, ScheduleUndoPayload, history
  <1> QED  BY <1>1, <1>2, <1>3 DEF OthersWrite

LEMMA CancelWrites ==
  ASSUME TypeOK, NEW x \in Cancellers, CancelStep(x)
  PROVE  OthersWrite /\ UNCHANGED worker
  <1>1. \/ UNCHANGED payload
        \/ payload' = [payload EXCEPT ![Member(x)] = "none"]
    BY DEF CancelStep, BeginCancel, CancelDequeue, CancelPayload, CancelLock,
           CancelIndex, store
  <1>2. UNCHANGED <<worker, runs>>
    BY DEF CancelStep, BeginCancel, CancelDequeue, CancelPayload, CancelLock,
           CancelIndex, history
  <1> QED  BY <1>1, <1>2 DEF OthersWrite, TypeOK, StoreTypeOK

LEMMA EnvironmentWrites ==
  ASSUME TypeOK, Environment
  PROVE  /\ OthersWrite
         /\ \/ UNCHANGED worker
            \/ UNCHANGED payload /\ \E w \in Workers : Abandon(w)
  <1>1. CASE \E a \in Actions : PayloadExpires(a)
    BY <1>1 DEF PayloadExpires, OthersWrite, TypeOK, StoreTypeOK, history
  <1>2. CASE ~\E a \in Actions : PayloadExpires(a)
    <2>1. UNCHANGED <<payload, runs>>
      BY <1>2 DEF Environment, BecomeDue, RetentionLapse, LockExpires,
                  WorkerStops, CallerStops, CancellerStops, Crashes, store,
                  history
    <2>2. UNCHANGED worker \/ \E w \in Workers : Abandon(w)
      BY <1>2 DEF Environment, BecomeDue, RetentionLapse, LockExpires,
                  WorkerStops, CallerStops, CancellerStops
    <2> QED  BY <2>1, <2>2 DEF OthersWrite
  <1> QED  BY <1>1, <1>2

\* What a step of worker w may do to the actions it holds.
WorkerCopies(w) ==
    \A a \in Actions :
        \/ copy'[w][a] \in {copy[w][a], "none"}
        \/ /\ wpc[w] = "scan" /\ copy'[w][a] = payload[a]
           /\ payload[a] # "none" /\ UNCHANGED payload
        \/ copy'[w][a] = "processing" /\ a = cur[w] /\ wpc[w] = "acquire"
        \/ /\ wpc[w] = "handle" /\ a = cur[w] /\ UNCHANGED payload
           /\ copy'[w][a] \in Terminal /\ runs'[a] > 0

LEMMA WorkerStepCopies ==
  ASSUME TypeOK, NEW w \in Workers, WorkerStep(w)
  PROVE  WorkerCopies(w)
  <1>1. /\ copy \in [Workers -> [Actions -> States]] /\ runs \in [Actions -> Nat]
        /\ scan \in [Workers -> SUBSET Actions]
    BY DEF TypeOK, WorkerTypeOK, HistoryTypeOK
  <1>2. CASE ReadEntry(w)
    <2>1. UNCHANGED payload /\ wpc[w] = "scan"
      BY <1>2 DEF ReadEntry, store
    <2>2. CASE Abandon(w)
      BY <1>1, <2>2 DEF Abandon, Nothing, WorkerCopies
    <2>3. CASE UNCHANGED copy
      BY <2>3 DEF WorkerCopies
    <2>4. CASE \E a \in scan[w] : /\ payload[a] # "none"
                                  /\ copy' = [copy EXCEPT ![w][a] = payload[a]]
      BY <1>1, <2>1, <2>4 DEF WorkerCopies
    <2> QED  BY <1>2, <2>2, <2>3, <2>4 DEF ReadEntry, ReadResult
  <1>3. CASE AcquireLock(w)
    BY <1>1, <1>3 DEF AcquireLock, NextInBatch, WorkerCopies
  <1>4. CASE Handle(w)
    BY <1>1, <1>4 DEF Handle, WorkerCopies, store
  <1>5. CASE Abandon(w) \/ NextInBatch(w) \/ UNCHANGED copy
    BY <1>1, <1>5 DEF Abandon, NextInBatch, Nothing, WorkerCopies
  <1> QED
    BY <1>2, <1>3, <1>4, <1>5
    DEF WorkerStep, Tick, DropEntry, EndFetch, PickAction, EndTick,
        SaveProcessing, SaveOutcome, DeleteLock, RemoveIndex, DeleteExpired,
        RemoveFromQueue, AfterRemoveIndex, Advance

\* A step of others than the workers keeps the agreement and the outcomes.
LEMMA OthersFinal ==
  ASSUME TypeOK, QueueInv, CopyAgrees, OthersWrite,
         UNCHANGED worker \/ \E w \in Workers : Abandon(w)
  PROVE  CopyAgrees' /\ FinalStep
  <1>1. FinalStep
    BY DEF OthersWrite, FinalStep, QueueInv, RecordInv
  <1>2. \A w \in Workers, a \in Actions : copy'[w][a] \in {copy[w][a], "none"}
    BY DEF worker, Abandon, Nothing, TypeOK, WorkerTypeOK
  <1>3. \A a \in Actions : payload'[a] \in Terminal => payload'[a] = payload[a]
    BY DEF OthersWrite
  <1> QED  BY <1>1, <1>2, <1>3 DEF CopyAgrees

LEMMA WorkerFinal ==
  ASSUME TypeOK, QueueInv, OnceInv, CopyAgrees, SingleWorker,
         NEW w \in Workers, WorkerStep(w)
  PROVE  CopyAgrees' /\ FinalStep
  <1>1. WorkerWrites(w) /\ WorkerCopies(w)
    BY WorkerStepWrites, WorkerStepCopies
  <1>2. /\ \A a \in Actions : RecordInv(a)
        /\ HeldInv(w) /\ DispatchIsFirst
        /\ \A v \in Workers : v = w
    BY DEF QueueInv, OnceInv, SingleWorker
  <1>3. \A a \in Actions : a = cur[w] /\ wpc[w] \in {"begin", "handle"} =>
                              payload[a] \notin Terminal
    BY <1>2 DEF DispatchIsFirst, RecordInv
  <1>4. FinalStep
    BY <1>1, <1>2, <1>3 DEF FinalStep, WorkerWrites, HeldInv, CopyAgrees
  <1>5. ASSUME NEW a \in Actions, copy'[w][a] \in Terminal,
               payload'[a] \in Terminal
        PROVE  copy'[w][a] = payload'[a]
    <2>1. CASE copy'[w][a] = copy[w][a]
      BY <1>1, <1>5, <2>1 DEF WorkerWrites, CopyAgrees
    <2>2. CASE wpc[w] = "scan" /\ copy'[w][a] = payload[a] /\ UNCHANGED payload
      BY <2>2
    <2>3. CASE wpc[w] = "handle" /\ a = cur[w] /\ UNCHANGED payload
      BY <1>3, <1>5, <2>3
    <2> QED  BY <1>1, <1>5, <2>1, <2>2, <2>3 DEF WorkerCopies
  <1> QED  BY <1>2, <1>4, <1>5 DEF CopyAgrees

LEMMA NextFinal ==
  ASSUME TypeOK, QueueInv, OnceInv, CopyAgrees, SingleWorker, [Next]_vars
  PROVE  CopyAgrees' /\ FinalStep
  <1>1. CASE \E c \in Callers : ScheduleStep(c)
    BY <1>1, ScheduleWrites, OthersFinal
  <1>2. CASE \E w \in Workers : WorkerStep(w)
    BY <1>2, WorkerFinal
  <1>3. CASE \E x \in Cancellers : CancelStep(x)
    BY <1>3, CancelWrites, OthersFinal
  <1>4. CASE Environment
    BY <1>4, EnvironmentWrites, OthersFinal
  <1>5. CASE UNCHANGED vars
    <2>1. OthersWrite /\ UNCHANGED worker
      BY <1>5 DEF vars, store, history, OthersWrite
    <2> QED  BY <2>1, OthersFinal
  <1> QED  BY <1>1, <1>2, <1>3, <1>4, <1>5 DEF Next

\* With one worker a stored outcome never changes and is never overwritten by
\* an unfinished state, whatever commands fail, locks and records expire,
\* processes stop, and callers and cancellers do.
THEOREM OutcomesAlwaysFinal == SingleWorker => (Spec => OutcomesAreFinal)
  <1> SUFFICES ASSUME SingleWorker PROVE Spec => OutcomesAreFinal
    OBVIOUS
  <1>1. Init => OnceInv /\ CopyAgrees
    BY InitOnce DEF Init, Nothing, CopyAgrees
  <1>2. TypeOK /\ QueueInv /\ OnceInv /\ CopyAgrees /\ [Next]_vars =>
           OnceInv' /\ CopyAgrees' /\ [FinalStep]_vars
    BY NextOnce, NextFinal
  <1>3. Spec => [][FinalStep]_vars
    BY <1>1, <1>2, WorkTypeCorrect, QueueCorrect, PTL DEF Spec
  <1> QED  BY <1>3 DEF OutcomesAreFinal, FinalStep

-----------------------------------------------------------------------------
(***************************************************************************)
(* The queue implements at-most-once work, with one worker and as long as  *)
(* nothing is cancelled: then only the worker writes what is due, and what *)
(* it is about to write always follows from what is stored.                *)
(***************************************************************************)
\* What the worker holds as Pending is stored as Pending until it stores
\* Processing, and what is stored after Processing is an outcome or gone.
StageInv ==
    \A w \in Workers :
        /\ \A a \in Actions : copy[w][a] = "pending" => payload[a] = "pending"
        /\ wpc[w] = "begin" => payload[cur[w]] = "pending"
        /\ wpc[w] = "handle" => payload[cur[w]] = "processing"
        /\ wpc[w] \in Finishing \ {"store"} =>
              payload[cur[w]] \in Terminal \union {"none"}

\* The record of an action that is due changes only as the worker changes it,
\* or because the TTL of an outcome is over.
DueKept ==
    \A a \in due :
        \/ payload'[a] = payload[a]
        \/ payload[a] \in Terminal /\ payload'[a] = "none"

LEMMA ScheduleKeepsDue ==
  ASSUME TypeOK, QueueInv, NEW c \in Callers, ScheduleStep(c)
  PROVE  DueKept
  <1>1. req[c] \notin due /\ payload \in [Actions -> States] /\ due \subseteq Actions
    BY DEF QueueInv, RequestInv, TypeOK, StoreTypeOK, ClockTypeOK
  <1>2. \/ UNCHANGED payload
        \/ payload' = [payload EXCEPT ![req[c]] = "pending"]
        \/ payload' = [payload EXCEPT ![req[c]] = "none"]
    BY DEF ScheduleStep, BeginSchedule, SchedulePayload, ScheduleIndex,
           ScheduleEnqueue, ScheduleUndoIndex, ScheduleUndoPayload, store
  <1> QED  BY <1>1, <1>2 DEF DueKept

LEMMA EnvironmentKeepsDue ==
  ASSUME TypeOK, QueueInv, Environment
  PROVE  DueKept
  <1>1. ASSUME NEW a \in Actions, PayloadExpires(a) PROVE DueKept
    BY <1>1 DEF PayloadExpires, DueKept, QueueInv, RecordInv, TypeOK,
                StoreTypeOK, ClockTypeOK
  <1>2. CASE ~\E a \in Actions : PayloadExpires(a)
    BY <1>2 DEF Environment, BecomeDue, RetentionLapse, LockExpires,
                WorkerStops, CallerStops, CancellerStops, Crashes, store,
                DueKept
  <1> QED  BY <1>1, <1>2

\* Without a step of the worker the stages stay in order.
LEMMA OthersStage ==
  ASSUME TypeOK, QueueInv, StageInv, DueKept,
         UNCHANGED worker \/ \E w \in Workers : Abandon(w), SingleWorker
  PROVE  StageInv'
  <1>1. ASSUME UNCHANGED worker PROVE StageInv'
    <2> SUFFICES ASSUME NEW w \in Workers PROVE StageInv!(w)'
      BY DEF StageInv
    <2>1. HeldInv(w) /\ StageInv!(w) /\ UNCHANGED <<wpc, copy, cur>>
      BY <1>1 DEF QueueInv, StageInv, worker
    <2>2. wpc[w] \in Finishing \union {"begin", "handle"} => cur[w] \in Actions
      BY DEF TypeOK, WorkerTypeOK, Finishing
    <2> QED  BY <2>1, <2>2 DEF HeldInv, DueKept, Finishing
  <1>2. ASSUME NEW w \in Workers, Abandon(w) PROVE StageInv'
    BY <1>2 DEF Abandon, Nothing, StageInv, TypeOK, WorkerTypeOK, SingleWorker,
                Finishing
  <1> QED  BY <1>1, <1>2

\* The worker keeps them in order.
LEMMA WorkerStage ==
  ASSUME TypeOK, QueueInv, StageInv, SingleWorker, NEW w \in Workers,
         WorkerStep(w)
  PROVE  StageInv'
  <1>1. /\ wpc \in [Workers -> WorkerSteps] /\ cur[w] \in Actions \union {NoAction}
        /\ copy \in [Workers -> [Actions -> States]]
        /\ cur \in [Workers -> Actions \union {NoAction}]
        /\ scan \in [Workers -> SUBSET Actions]
        /\ payload \in [Actions -> States]
        /\ cur[w] = NoAction <=> wpc[w] \in {"idle", "scan", "pick"}
        /\ \A v \in Workers : v = w
    BY DEF TypeOK, WorkerTypeOK, StoreTypeOK, SingleWorker
  <1>2. HeldInv(w) /\ \A a \in Actions : RecordInv(a)
    BY DEF QueueInv
  <1> USE <1>1 DEF StageInv, Finishing
  <1>3. CASE Tick(w)
    BY <1>3 DEF Tick, Goto, store
  <1>4. CASE ReadEntry(w)
    BY <1>4 DEF ReadEntry, ReadResult, Abandon, Nothing, Goto, store
  <1>5. CASE DropEntry(w)
    BY <1>5 DEF DropEntry, Abandon, Nothing, Goto
  <1>6. CASE EndFetch(w)
    BY <1>6 DEF EndFetch, Advance, Goto, store
  <1>7. CASE PickAction(w)
    BY <1>7 DEF PickAction, FirstCommand, Goto, store
  <1>8. CASE EndTick(w)
    BY <1>8 DEF EndTick, Goto, store
  <1>9. CASE AcquireLock(w)
    BY <1>2, <1>9 DEF AcquireLock, AfterAcquire, NextInBatch, Goto, HeldInv
  <1>10. CASE SaveProcessing(w)
    <2>1. /\ wpc[w] = "begin" /\ cur[w] \in Actions
          /\ copy[w][cur[w]] = "processing"
          /\ \A a \in Actions : a # cur[w] => payload'[a] = payload[a]
      BY <1>2, <1>10 DEF SaveProcessing, HeldInv
    <2>2. CASE NextInBatch(w)
      BY <2>1, <2>2 DEF NextInBatch, Goto
    <2>3. CASE /\ wpc' = [wpc EXCEPT ![w] = "handle"]
               /\ UNCHANGED <<scan, copy, cur>>
               /\ payload'[cur[w]] = "processing"
      BY <2>1, <2>3
    <2> QED  BY <1>10, <2>1, <2>2, <2>3 DEF SaveProcessing, Command, Advance, Goto
  <1>11. CASE Handle(w)
    BY <1>11 DEF Handle, Goto, store
  <1>12. CASE SaveOutcome(w)
    <2>1. /\ wpc[w] = "store" /\ cur[w] \in Actions
          /\ copy[w][cur[w]] \in Terminal
          /\ \A a \in Actions : a # cur[w] => payload'[a] = payload[a]
      BY <1>2, <1>12 DEF SaveOutcome, HeldInv
    <2>2. CASE NextInBatch(w)
      BY <2>1, <2>2 DEF NextInBatch, Goto
    <2>3. CASE /\ wpc' = [wpc EXCEPT ![w] = "unlock"]
               /\ UNCHANGED <<scan, copy, cur>>
               /\ payload'[cur[w]] \in Terminal
      BY <2>1, <2>3
    <2> QED  BY <1>12, <2>1, <2>2, <2>3 DEF SaveOutcome, Command, Goto
  <1>13. CASE DeleteLock(w)
    BY <1>13 DEF DeleteLock, Advance, NextInBatch, Goto
  <1>14. CASE RemoveIndex(w)
    BY <1>14 DEF RemoveIndex, AfterRemoveIndex, Advance, NextInBatch, Goto
  <1>15. CASE DeleteExpired(w)
    <2>1. /\ wpc[w] = "purge" /\ cur[w] \in Actions /\ runs[cur[w]] > 0
          /\ payload[cur[w]] \in Terminal \union {"none"}
          /\ \A a \in Actions : \/ payload'[a] = payload[a]
                                \/ a = cur[w] /\ payload'[a] = "none"
      BY <1>2, <1>15 DEF DeleteExpired, HeldInv
    <2>2. CASE NextInBatch(w)
      BY <2>1, <2>2 DEF NextInBatch, Goto
    <2>3. CASE wpc' = [wpc EXCEPT ![w] = "dequeue"] /\ UNCHANGED <<scan, copy, cur>>
      BY <2>1, <2>3
    <2> QED  BY <1>15, <2>2, <2>3 DEF DeleteExpired, Advance, Goto
  <1>16. CASE RemoveFromQueue(w)
    BY <1>16 DEF RemoveFromQueue, NextInBatch, Goto
  <1> QED
    BY <1>3, <1>4, <1>5, <1>6, <1>7, <1>8, <1>9, <1>10, <1>11, <1>12, <1>13,
       <1>14, <1>15, <1>16 DEF WorkerStep

\* The stages of all work, as the abstract specification sees them.
Stage == [a \in Actions |-> StageOf(a)]

\* A step that changes one record at most changes one stage at most.
LEMMA StageMoves ==
  ASSUME TypeOK, TypeOK', NEW b \in Actions,
         \A a \in Actions : a # b =>
            payload'[a] = payload[a] /\ runs'[a] = runs[a]
  PROVE  /\ Stage' = [Stage EXCEPT ![b] = StageOf(b)']
         /\ runs' = [runs EXCEPT ![b] = runs'[b]]
  <1>1. runs \in [Actions -> Nat] /\ runs' \in [Actions -> Nat]
    BY DEF TypeOK, HistoryTypeOK
  <1>2. \A a \in Actions : a # b => StageOf(a)' = StageOf(a)
    BY DEF StageOf
  <1>3. Stage' = [a \in Actions |-> StageOf(a)']
    BY DEF Stage
  <1>4. Stage' = [Stage EXCEPT ![b] = StageOf(b)']
    BY <1>2, <1>3 DEF Stage
  <1> QED  BY <1>1, <1>4

\* A step that changes no stage and dispatches nothing is a stutter.
LEMMA StageStutters ==
  ASSUME TypeOK, UNCHANGED runs, \A a \in Actions : StageOf(a)' = StageOf(a)
  PROVE  UNCHANGED <<Stage, runs>>
  <1>1. Stage' = [a \in Actions |-> StageOf(a)']
    BY DEF Stage
  <1> QED  BY <1>1 DEF Stage

\* One action of the abstract specification, or a stutter.
AbsStep == (\E a \in Actions : \/ Once!Register(a) \/ Once!Withdraw(a)
                               \/ Once!Start(a) \/ Once!Apply(a)
                               \/ Once!Settle(a))
           \/ UNCHANGED <<Stage, runs>>

\* A Schedule call registers its work, or withdraws it.
LEMMA ScheduleImplements ==
  ASSUME TypeOK, TypeOK', QueueInv, NEW c \in Callers, ScheduleStep(c)
  PROVE  AbsStep
  <1>1. /\ req[c] \notin due /\ payload \in [Actions -> States] /\ UNCHANGED runs
        /\ runs \in [Actions -> Nat]
    BY DEF QueueInv, RequestInv, TypeOK, StoreTypeOK, HistoryTypeOK,
           ScheduleStep, BeginSchedule, SchedulePayload, ScheduleIndex,
           ScheduleEnqueue, ScheduleUndoIndex, ScheduleUndoPayload, history
  <1>2. \/ UNCHANGED payload
        \/ /\ req[c] \in Actions
           /\ \/ payload' = [payload EXCEPT ![req[c]] = "pending"]
              \/ payload' = [payload EXCEPT ![req[c]] = "none"]
    BY DEF ScheduleStep, BeginSchedule, SchedulePayload, ScheduleIndex,
           ScheduleEnqueue, ScheduleUndoIndex, ScheduleUndoPayload, store,
           TypeOK, CallerTypeOK
  <1>3. CASE UNCHANGED payload
    BY <1>1, <1>3, StageStutters DEF StageOf, AbsStep
  <1>4. CASE /\ req[c] \in Actions
             /\ \/ payload' = [payload EXCEPT ![req[c]] = "pending"]
                \/ payload' = [payload EXCEPT ![req[c]] = "none"]
    <2> DEFINE b == req[c]
    <2>1. b \in Actions
      BY <1>4
    <2>2. RecordInv(b)
      BY <2>1 DEF QueueInv
    <2>3. runs[b] = 0 /\ payload[b] \in {"none", "pending"}
      BY <1>1, <2>1, <2>2 DEF RecordInv
    <2>4. StageOf(b) = IF payload[b] = "pending" THEN "waiting" ELSE "absent"
      BY <2>3 DEF StageOf
    <2>5. PICK d \in Actions : d = b
      BY <2>1
    <2>6. Stage[d] = StageOf(d)
      BY DEF Stage
    <2>7. Stage' = [Stage EXCEPT ![d] = StageOf(d)']
      <3>1. \A a \in Actions : a # d =>
               payload'[a] = payload[a] /\ runs'[a] = runs[a]
        BY <1>1, <1>4, <2>5
      <3> QED  BY <3>1, StageMoves
    <2>8. CASE payload'[d] = "pending"
      <3>1. StageOf(d)' = "waiting"
        BY <2>8 DEF StageOf
      <3>2. CASE payload[d] = "pending"
        BY <2>3, <2>4, <2>5, <2>6, <2>7, <3>1, <3>2, <1>1 DEF AbsStep, Stage
      <3>3. CASE payload[d] = "none"
        BY <2>3, <2>4, <2>5, <2>6, <2>7, <3>1, <3>3, <1>1
        DEF AbsStep, Once!Register, Once!MoveStage, Stage
      <3> QED  BY <2>3, <2>5, <3>2, <3>3
    <2>9. CASE payload'[d] = "none"
      <3>1. StageOf(d)' = "absent"
        BY <1>1, <2>3, <2>5, <2>9 DEF StageOf
      <3>2. CASE payload[d] = "pending"
        BY <2>3, <2>4, <2>5, <2>6, <2>7, <3>1, <3>2, <1>1
        DEF AbsStep, Once!Withdraw, Once!MoveStage, Stage
      <3>3. CASE payload[d] = "none"
        BY <2>3, <2>4, <2>5, <2>6, <2>7, <3>1, <3>3, <1>1 DEF AbsStep, Stage
      <3> QED  BY <2>3, <2>5, <3>2, <3>3
    <2> QED  BY <1>1, <1>4, <2>5, <2>8, <2>9
  <1> QED  BY <1>2, <1>3, <1>4

\* Time and stopped processes change no stage: an outcome that expires stays
\* settled.
LEMMA EnvironmentImplements ==
  ASSUME TypeOK, QueueInv, Environment
  PROVE  AbsStep
  <1>1. UNCHANGED runs
    BY DEF Environment, BecomeDue, RetentionLapse, PayloadExpires, LockExpires,
           WorkerStops, CallerStops, CancellerStops, Crashes, history
  <1>2. \A a \in Actions : \/ payload'[a] = payload[a]
                           \/ /\ payload[a] \in Terminal /\ runs[a] > 0
                              /\ payload'[a] = "none"
    <2>1. ASSUME NEW b \in Actions, PayloadExpires(b), NEW a \in Actions
          PROVE  \/ payload'[a] = payload[a]
                 \/ /\ payload[a] \in Terminal /\ runs[a] > 0
                    /\ payload'[a] = "none"
      BY <2>1 DEF PayloadExpires, QueueInv, RecordInv, TypeOK, StoreTypeOK
    <2>2. CASE ~\E b \in Actions : PayloadExpires(b)
      BY <2>2 DEF Environment, BecomeDue, RetentionLapse, LockExpires,
                  WorkerStops, CallerStops, CancellerStops, Crashes, store
    <2> QED  BY <2>1, <2>2
  <1>3. \A a \in Actions : StageOf(a)' = StageOf(a)
    BY <1>1, <1>2 DEF StageOf
  <1> QED  BY <1>1, <1>3, StageStutters DEF AbsStep

\* The worker starts, applies and settles, in that order.
LEMMA WorkerImplements ==
  ASSUME TypeOK, TypeOK', QueueInv, OnceInv, StageInv, SingleWorker,
         NEW w \in Workers, WorkerStep(w)
  PROVE  AbsStep
  <1>1. WorkerWrites(w) /\ runs \in [Actions -> Nat] /\ payload \in [Actions -> States]
    BY WorkerStepWrites DEF TypeOK, HistoryTypeOK, StoreTypeOK
  <1>2. CASE \A a \in Actions : UNCHANGED <<payload[a], runs[a]>>
    <2>1. runs' \in [Actions -> Nat]
      BY DEF TypeOK, HistoryTypeOK
    <2>2. UNCHANGED runs /\ \A a \in Actions : StageOf(a)' = StageOf(a)
      BY <1>1, <1>2, <2>1 DEF StageOf
    <2> QED  BY <2>2, StageStutters DEF AbsStep
  <1>3. CASE ~\A a \in Actions : UNCHANGED <<payload[a], runs[a]>>
    <2>1. PICK b \in Actions : ~UNCHANGED <<payload[b], runs[b]>>
      BY <1>3
    <2>2. b = cur[w] /\ \A a \in Actions : a # b =>
             payload'[a] = payload[a] /\ runs'[a] = runs[a]
      BY <1>1, <2>1 DEF WorkerWrites
    <2>3. /\ Stage' = [Stage EXCEPT ![b] = StageOf(b)']
          /\ runs' = [runs EXCEPT ![b] = runs'[b]]
      BY <2>2, StageMoves
    <2>4. Stage[b] = StageOf(b) /\ Stage \in [Actions -> Once!Stages]
      BY <1>1 DEF Stage, StageOf, Once!Stages
    <2>5. RecordInv(b) /\ HeldInv(w) /\ runs[b] <= 1 /\ runs[b] \in Nat
          /\ payload[b] \in States
      BY <1>1 DEF QueueInv, OnceInv, HandledAtMostOnce
    <2>6. CASE /\ wpc[w] = "begin" /\ payload'[b] = "processing"
               /\ runs'[b] = runs[b]
      <3>1. payload[b] = "pending" /\ runs[b] = 0
        BY <2>2, <2>5, <2>6 DEF StageInv, RecordInv
      <3>2. StageOf(b) = "waiting" /\ StageOf(b)' = "started"
        BY <2>6, <3>1 DEF StageOf
      <3>3. UNCHANGED runs
        BY <1>1, <2>3, <2>6
      <3>4. Once!Start(b)
        BY <2>3, <2>4, <3>1, <3>2, <3>3 DEF Once!Start, Once!MoveStage, Stage
      <3> QED  BY <3>4 DEF AbsStep
    <2>7. CASE /\ wpc[w] = "handle" /\ payload'[b] = payload[b]
               /\ runs'[b] = runs[b] + 1
      <3>1. payload[b] = "processing" /\ runs[b] = 0
        BY <2>2, <2>7 DEF StageInv, OnceInv, DispatchIsFirst
      <3>2. StageOf(b) = "started" /\ StageOf(b)' = "started"
        BY <2>7, <3>1 DEF StageOf
      <3>3. UNCHANGED Stage
        BY <2>3, <2>4, <3>2
      <3>4. runs' = [runs EXCEPT ![b] = 1]
        BY <2>3, <2>7, <3>1
      <3>5. Once!Apply(b)
        BY <2>4, <3>1, <3>2, <3>3, <3>4 DEF Once!Apply, Stage
      <3> QED  BY <3>5 DEF AbsStep
    <2>8. CASE /\ wpc[w] = "store" /\ payload'[b] = copy[w][b]
               /\ runs'[b] = runs[b]
      <3>1. copy[w][b] \in Terminal /\ runs[b] = 1 /\ payload[b] # "pending"
        BY <2>2, <2>5, <2>8 DEF HeldInv, RecordInv
      <3>2. StageOf(b)' = "settled"
        BY <2>8, <3>1 DEF StageOf
      <3>3. UNCHANGED runs
        BY <1>1, <2>3, <2>8
      <3>4. CASE payload[b] = "processing"
        <4>1. StageOf(b) = "started"
          BY <3>4 DEF StageOf
        <4>2. Once!Settle(b)
          BY <2>3, <2>4, <3>1, <3>2, <3>3, <4>1
          DEF Once!Settle, Once!MoveStage, Stage
        <4> QED  BY <4>2 DEF AbsStep
      <3>5. CASE payload[b] \in Terminal \union {"none"}
        <4>1. StageOf(b) = "settled"
          BY <3>1, <3>5 DEF StageOf
        <4>2. UNCHANGED Stage
          BY <2>3, <2>4, <3>2, <4>1
        <4> QED  BY <3>3, <4>2 DEF AbsStep
      <3> QED  BY <2>5, <3>1, <3>4, <3>5
    <2>9. CASE /\ wpc[w] = "purge" /\ payload'[b] = "none"
               /\ runs'[b] = runs[b]
      <3>1. payload[b] \in Terminal \union {"none"} /\ runs[b] > 0
        BY <2>2, <2>5, <2>9 DEF HeldInv, StageInv, Finishing
      <3>2. StageOf(b) = "settled" /\ StageOf(b)' = "settled"
        BY <2>9, <3>1 DEF StageOf
      <3>3. UNCHANGED Stage /\ UNCHANGED runs
        BY <1>1, <2>3, <2>4, <2>9, <3>2
      <3> QED  BY <3>3 DEF AbsStep
    <2> QED  BY <1>1, <2>1, <2>6, <2>7, <2>8, <2>9 DEF WorkerWrites
  <1> QED  BY <1>2, <1>3

\* Every step of one worker without cancellations keeps the stages in order
\* and is a step of at-most-once work.
LEMMA NextImplements ==
  ASSUME TypeOK, TypeOK', QueueInv, OnceInv, StageInv, SingleWorker,
         Cancellers = {}, [Next]_vars
  PROVE  StageInv' /\ AbsStep
  <1>1. CASE \E c \in Callers : ScheduleStep(c)
    BY <1>1, ScheduleImplements, ScheduleKeepsDue, ScheduleWrites, OthersStage
  <1>2. CASE \E w \in Workers : WorkerStep(w)
    BY <1>2, WorkerImplements, WorkerStage
  <1>3. CASE Environment
    <2>1. UNCHANGED worker \/ \E w \in Workers : Abandon(w)
      BY <1>3, EnvironmentWrites
    <2>2. StageInv'
      BY <1>3, <2>1, EnvironmentKeepsDue, OthersStage
    <2> QED  BY <1>3, <2>2, EnvironmentImplements
  <1>4. CASE UNCHANGED vars
    <2>1. UNCHANGED worker /\ UNCHANGED <<payload, runs>>
      BY <1>4 DEF vars, store, history
    <2>2. DueKept
      BY <2>1 DEF DueKept
    <2>3. \A a \in Actions : StageOf(a)' = StageOf(a)
      BY <2>1 DEF StageOf
    <2>4. AbsStep
      BY <2>1, <2>3, StageStutters DEF AbsStep
    <2> QED  BY <2>1, <2>2, <2>4, OthersStage
  <1> QED  BY <1>1, <1>2, <1>3, <1>4 DEF Next

\* With one worker, and as long as nothing is cancelled, the queue implements
\* at-most-once work: an action is recorded as started before its handler is
\* dispatched, dispatched at most once and settled only after that, whatever
\* commands fail, records and locks expire, and processes stop.
THEOREM OnceWorkImplemented ==
  SingleWorker /\ Cancellers = {} => (Spec => ImplementsOnceWork)
  <1> SUFFICES ASSUME SingleWorker, Cancellers = {}
               PROVE  Spec => ImplementsOnceWork
    OBVIOUS
  <1>1. Init => OnceInv /\ StageInv /\ Once!AbsInit
    <2> SUFFICES ASSUME Init PROVE OnceInv /\ StageInv /\ Once!AbsInit
      OBVIOUS
    <2>1. StageInv
      BY DEF Init, Nothing, StageInv, Finishing
    <2>2. Once!AbsInit
      BY DEF Init, Nothing, Once!AbsInit, StageOf
    <2> QED  BY <2>1, <2>2, InitOnce
  <1>2. TypeOK /\ TypeOK' /\ QueueInv /\ OnceInv /\ StageInv /\ [Next]_vars =>
           OnceInv' /\ StageInv' /\ [Once!AbsNext]_Once!absVars
    <2> SUFFICES ASSUME TypeOK, TypeOK', QueueInv, OnceInv, StageInv, [Next]_vars
                 PROVE  OnceInv' /\ StageInv' /\ [Once!AbsNext]_Once!absVars
      OBVIOUS
    <2>1. OnceInv' /\ StageInv' /\ AbsStep
      BY NextOnce, NextImplements
    <2>2. [Once!AbsNext]_Once!absVars
      BY <2>1 DEF AbsStep, Once!AbsNext, Once!absVars, Stage
    <2> QED  BY <2>1, <2>2
  <1> QED
    BY <1>1, <1>2, WorkTypeCorrect, QueueCorrect, PTL
    DEF Spec, ImplementsOnceWork, Once!AbsSpec

-----------------------------------------------------------------------------
(***************************************************************************)
(* Accepted work is kept, for any number of workers, as long as nothing is *)
(* cancelled                                                               *)
(***************************************************************************)
\* What a step of the Schedule call c may do: it writes what belongs to its
\* request, and it returns nil only once the request is queued.
ScheduleChanges(c) ==
    /\ \A a \in Actions \ {req[c]} :
          /\ payload'[a] = payload[a]
          /\ (a \in index' <=> a \in index) /\ (a \in queue' <=> a \in queue)
          /\ (a \in volatile' <=> a \in volatile)
    /\ payload'[req[c]] = "pending" =>
          spc[c] = "set" \/ payload'[req[c]] = payload[req[c]]
    /\ req[c] \in index' => req[c] \in index \/ spc[c] = "sadd"
    /\ \A d \in Callers \ {c} : spc'[d] = spc[d] /\ req'[d] = req[d]
    /\ UNCHANGED <<worker, canceller, due, runs>>
    /\ attempted \subseteq attempted'
    /\ \/ UNCHANGED accepted
       \/ /\ spc[c] = "zadd" /\ accepted' = accepted \union {req[c]}
          /\ req[c] \in queue' /\ UNCHANGED <<payload, volatile, index>>

\* How a Schedule call gets from one command to the next.
ScheduleMoves(c) ==
    /\ spc'[c] = "set" =>
          /\ spc[c] = "idle" /\ UNCHANGED <<payload, index>>
          /\ req'[c] \in FixedIDs \/ req'[c] \notin attempted
          /\ req'[c] \in attempted'
    /\ spc'[c] = "sadd" => /\ spc[c] = "set" /\ UNCHANGED <<index, req>>
                           /\ payload'[req[c]] = "pending"
    /\ spc'[c] = "zadd" => /\ spc[c] = "sadd" /\ UNCHANGED <<payload, req>>
                           /\ req[c] \in index'

LEMMA ScheduleStepChanges ==
  ASSUME TypeOK, NEW c \in Callers, ScheduleStep(c)
  PROVE  ScheduleChanges(c) /\ ScheduleMoves(c)
  <1>1. /\ payload \in [Actions -> States] /\ spc \in [Callers -> CallerSteps]
        /\ req \in [Callers -> Actions \union {NoAction}]
        /\ req[c] = NoAction <=> spc[c] = "idle"
    BY DEF TypeOK, StoreTypeOK, CallerTypeOK
  <1> USE <1>1 DEF ScheduleChanges, ScheduleMoves
  <1>2. CASE \E a \in Actions : BeginSchedule(c, a)
    BY <1>2 DEF BeginSchedule, Registrable, store, clock
  <1>3. CASE SchedulePayload(c)
    <2>1. PICK ok \in BOOLEAN, done \in BOOLEAN : SchedulePayload(c)!(ok, done)
      BY <1>3 DEF SchedulePayload
    <2>2. CASE ok
      BY <2>1, <2>2 DEF Command, Without, clock
    <2>3. CASE ~ok
      BY <2>1, <2>3 DEF ReturnSchedule, With, Without, clock
    <2> QED  BY <2>2, <2>3
  <1>4. CASE ScheduleIndex(c)
    BY <1>4 DEF ScheduleIndex, Command, AfterIndex, With, clock, history
  <1>5. CASE ScheduleEnqueue(c)
    <2>1. PICK ok \in BOOLEAN, done \in BOOLEAN : ScheduleEnqueue(c)!(ok, done)
      BY <1>5 DEF ScheduleEnqueue
    <2>2. CASE ok
      BY <2>1, <2>2 DEF Command, With, clock, ReturnSchedule
    <2>3. CASE ~ok
      BY <2>1, <2>3 DEF With, clock
    <2> QED  BY <2>2, <2>3
  <1>6. CASE ScheduleUndoIndex(c)
    BY <1>6 DEF ScheduleUndoIndex, Without, clock, history
  <1>7. CASE ScheduleUndoPayload(c)
    <2>1. PICK ok \in BOOLEAN, done \in BOOLEAN : ScheduleUndoPayload(c)!(ok, done)
      BY <1>7 DEF ScheduleUndoPayload
    <2> QED  BY <2>1 DEF ReturnSchedule, With, Without, clock
  <1> QED  BY <1>2, <1>3, <1>4, <1>5, <1>6, <1>7 DEF ScheduleStep

\* A worker takes only its current action off the queue, when it drops or has
\* finished it, and off the index only when it finishes it.
WorkerUnlinks(w) ==
    /\ queue' \subseteq queue /\ index' \subseteq index
    /\ \A a \in queue \ queue' : a = cur[w] /\ wpc[w] \in {"drop", "dequeue"}
    /\ \A a \in index \ index' : a = cur[w] /\ wpc[w] = "unindex"
    /\ UNCHANGED <<spc, req, attempted, accepted, canceller>>

LEMMA WorkerStepUnlinks ==
  ASSUME NEW w \in Workers, WorkerStep(w)
  PROVE  WorkerUnlinks(w)
  BY DEF WorkerUnlinks, WorkerStep, Tick, ReadEntry, DropEntry, EndFetch,
         PickAction, EndTick, AcquireLock, SaveProcessing, Handle, SaveOutcome,
         DeleteLock, RemoveIndex, DeleteExpired, RemoveFromQueue, Without,
         store, caller, history

\* Time and stopped processes remove outcomes and forget calls, no more.
EnvironmentChanges ==
    /\ \A a \in Actions : /\ a \in volatile' => a \in volatile
                          /\ \/ payload'[a] = payload[a] /\ (a \in volatile' <=> a \in volatile)
                             \/ /\ payload[a] \in Terminal /\ runs[a] > 0
                                /\ payload'[a] = "none"
    /\ UNCHANGED <<queue, index, runs, attempted, accepted>>
    /\ \A c \in Callers : \/ spc'[c] = spc[c] /\ req'[c] = req[c]
                          \/ spc'[c] = "idle" /\ req'[c] = NoAction
    /\ UNCHANGED canceller \/ \E x \in Cancellers : CancelReturns(x)

LEMMA EnvironmentStepChanges ==
  ASSUME TypeOK, QueueInv, Environment
  PROVE  EnvironmentChanges
  <1>1. ASSUME NEW a \in Actions, PayloadExpires(a) PROVE EnvironmentChanges
    BY <1>1 DEF PayloadExpires, EnvironmentChanges, QueueInv, RecordInv, TypeOK,
                StoreTypeOK, caller, history
  <1>2. ASSUME NEW c \in Callers, CallerStops(c) PROVE EnvironmentChanges
    BY <1>2 DEF CallerStops, Crashes, EnvironmentChanges, TypeOK, CallerTypeOK,
                store, history
  <1>3. CASE \/ \E a \in Actions : BecomeDue(a) \/ RetentionLapse(a) \/ LockExpires(a)
             \/ \E w \in Workers : WorkerStops(w)
             \/ \E x \in Cancellers : CancellerStops(x)
    <2>1. UNCHANGED <<payload, volatile, queue, index, runs, attempted, accepted, spc, req>>
      BY <1>3 DEF BecomeDue, RetentionLapse, LockExpires, WorkerStops,
                  CancellerStops, Crashes, store, history, caller
    <2>2. UNCHANGED canceller \/ \E x \in Cancellers : CancelReturns(x)
      BY <1>3 DEF BecomeDue, RetentionLapse, LockExpires, WorkerStops,
                  CancellerStops
    <2> QED  BY <2>1, <2>2 DEF EnvironmentChanges
  <1> QED  BY <1>1, <1>2, <1>3 DEF Environment

\* A Schedule call that has stored the payload of a fresh ID finds it there.
RequestStored ==
    \A c \in Callers :
        spc[c] \in {"sadd", "zadd"} /\ req[c] \notin FixedIDs =>
            payload[req[c]] = "pending"

\* What a Schedule call writes belongs to nobody else's request, and to no
\* accepted action, unless it has a fixed ID.
LEMMA RequestIsOwn ==
  ASSUME QueueInv, NEW c \in Callers, spc[c] # "idle", TypeOK
  PROVE  /\ req[c] \in Actions /\ req[c] \notin due
         /\ req[c] \notin Reliable
         /\ \A d \in Callers \ {c} : spc[d] # "idle" /\ req[d] \notin FixedIDs =>
               req[d] \in Actions /\ req[d] # req[c]
  BY DEF QueueInv, RequestInv, TypeOK, CallerTypeOK, Reliable

LEMMA ScheduleKept ==
  ASSUME TypeOK, QueueInv, AcceptedWorkKept, RequestStored, NEW c \in Callers,
         ScheduleStep(c)
  PROVE  AcceptedWorkKept' /\ RequestStored'
  <1>1. ScheduleChanges(c) /\ ScheduleMoves(c)
    BY ScheduleStepChanges
  <1>2. \A a \in Actions \ {req[c]} :
           payload'[a] = payload[a] /\ (a \in queue' <=> a \in queue)
    BY <1>1 DEF ScheduleChanges
  <1>3. /\ accepted \subseteq Actions /\ UNCHANGED runs
        /\ spc \in [Callers -> CallerSteps] /\ req \in [Callers -> Actions \union {NoAction}]
        /\ \A d \in Callers : req[d] = NoAction <=> spc[d] = "idle"
    BY <1>1 DEF TypeOK, HistoryTypeOK, CallerTypeOK, ScheduleChanges
  <1>4. AcceptedWorkKept'
    <2> SUFFICES ASSUME NEW a \in Reliable', runs'[a] = 0
                 PROVE  \/ payload'[a] = "processing"
                        \/ payload'[a] = "pending" /\ a \in queue'
      BY DEF AcceptedWorkKept
    <2>1. CASE a \in accepted
      <3>1. a \in Reliable /\ a \in Actions /\ a # req[c]
        <4>1. a \in Reliable /\ a \in Actions
          BY <1>3, <2>1 DEF Reliable
        <4>2. CASE spc[c] = "idle"
          BY <1>3, <4>1, <4>2
        <4>3. CASE spc[c] # "idle"
          BY <4>1, <4>3, RequestIsOwn
        <4> QED  BY <4>1, <4>2, <4>3
      <3> QED  BY <1>2, <1>3, <3>1 DEF AcceptedWorkKept
    <2>2. CASE a \notin accepted
      <3>1. /\ spc[c] = "zadd" /\ a = req[c] /\ req[c] \in queue'
            /\ UNCHANGED payload
        BY <1>1, <2>2 DEF ScheduleChanges, Reliable
      <3> QED  BY <3>1 DEF RequestStored, Reliable
    <2> QED  BY <2>1, <2>2
  <1>5. RequestStored'
    <2> SUFFICES ASSUME NEW d \in Callers, spc'[d] \in {"sadd", "zadd"},
                        req'[d] \notin FixedIDs
                 PROVE  payload'[req'[d]] = "pending"
      BY DEF RequestStored
    <2>1. CASE d = c
      BY <1>1, <2>1 DEF ScheduleMoves, RequestStored
    <2>2. CASE d # c
      <3>1. spc'[d] = spc[d] /\ req'[d] = req[d]
        BY <1>1, <2>2 DEF ScheduleChanges
      <3>2. req[d] \in Actions /\ req[d] # req[c]
        BY <1>3, <2>2, <3>1 DEF QueueInv, RequestInv
      <3>3. payload[req[d]] = "pending"
        BY <3>1 DEF RequestStored
      <3>4. payload'[req[d]] = payload[req[d]]
        BY <1>2, <3>2
      <3> QED  BY <3>1, <3>3, <3>4
    <2> QED  BY <2>1, <2>2
  <1> QED  BY <1>4, <1>5

LEMMA WorkerKept ==
  ASSUME TypeOK, QueueInv, AcceptedWorkKept, RequestStored, NEW w \in Workers,
         WorkerStep(w)
  PROVE  AcceptedWorkKept' /\ RequestStored'
  <1>1. WorkerWrites(w) /\ WorkerUnlinks(w)
    BY WorkerStepWrites, WorkerStepUnlinks
  <1>2. HeldInv(w) /\ runs \in [Actions -> Nat] /\ accepted \subseteq Actions
        /\ cur[w] \in Actions \union {NoAction}
    BY DEF QueueInv, TypeOK, HistoryTypeOK, WorkerTypeOK
  <1>3. AcceptedWorkKept'
    <2> SUFFICES ASSUME NEW a \in Reliable', runs'[a] = 0
                 PROVE  \/ payload'[a] = "processing"
                        \/ payload'[a] = "pending" /\ a \in queue'
      BY DEF AcceptedWorkKept
    <2>1. a \in Reliable /\ a \in Actions
      BY <1>1, <1>2 DEF WorkerUnlinks, Reliable
    <2>2. CASE payload'[a] = payload[a] /\ runs'[a] = runs[a]
      <3>1. \/ payload[a] = "processing"
            \/ payload[a] = "pending" /\ a \in queue
        BY <2>1, <2>2 DEF AcceptedWorkKept
      <3>2. payload[a] = "pending" /\ a \in queue => a \in queue'
        BY <1>1, <1>2, <2>2 DEF WorkerUnlinks, HeldInv, Finishing
      <3> QED  BY <2>2, <3>1, <3>2
    <2>3. CASE payload'[a] = "processing"
      BY <2>3
    <2> QED
      BY <1>1, <1>2, <2>1, <2>2, <2>3 DEF WorkerWrites, HeldInv, Finishing
  <1>4. RequestStored'
    <2> SUFFICES ASSUME NEW d \in Callers, spc[d] \in {"sadd", "zadd"},
                        req[d] \notin FixedIDs
                 PROVE  payload'[req[d]] = "pending"
      BY <1>1 DEF RequestStored, WorkerUnlinks
    <2>1. req[d] \in Actions /\ req[d] \notin due
      BY RequestIsOwn
    <2>2. req[d] # cur[w]
      BY <1>2, <2>1 DEF HeldInv
    <2>3. payload'[req[d]] = payload[req[d]]
      BY <1>1, <2>1, <2>2 DEF WorkerWrites
    <2> QED  BY <2>3 DEF RequestStored
  <1> QED  BY <1>3, <1>4

LEMMA EnvironmentKept ==
  ASSUME TypeOK, QueueInv, AcceptedWorkKept, RequestStored, EnvironmentChanges
  PROVE  AcceptedWorkKept' /\ RequestStored'
  <1>1. AcceptedWorkKept'
    BY DEF AcceptedWorkKept, EnvironmentChanges, Reliable, TypeOK, HistoryTypeOK
  <1>2. RequestStored'
    BY DEF RequestStored, EnvironmentChanges, TypeOK, CallerTypeOK
  <1> QED  BY <1>1, <1>2

\* Work whose registration succeeded stays queued until a worker stores
\* Processing for it, for any number of workers, whatever commands fail and
\* processes stop, as long as nothing is cancelled.
THEOREM AcceptedWorkAlwaysKept ==
  Cancellers = {} => (Spec => []AcceptedWorkKept)
  <1> SUFFICES ASSUME Cancellers = {} PROVE Spec => []AcceptedWorkKept
    OBVIOUS
  <1>1. Init => AcceptedWorkKept /\ RequestStored
    BY DEF Init, AcceptedWorkKept, RequestStored, Reliable
  <1>2. TypeOK /\ QueueInv /\ AcceptedWorkKept /\ RequestStored /\ [Next]_vars
           => AcceptedWorkKept' /\ RequestStored'
    <2> SUFFICES ASSUME TypeOK, QueueInv, AcceptedWorkKept, RequestStored,
                        [Next]_vars
                 PROVE  AcceptedWorkKept' /\ RequestStored'
      OBVIOUS
    <2>1. CASE Next
      BY <2>1, ScheduleKept, WorkerKept, EnvironmentKept, EnvironmentStepChanges
      DEF Next
    <2>2. CASE UNCHANGED vars
      BY <2>2 DEF vars, store, caller, history, AcceptedWorkKept,
                  RequestStored, Reliable
    <2> QED  BY <2>1, <2>2
  <1> QED  BY <1>1, <1>2, WorkTypeCorrect, QueueCorrect, PTL DEF Spec

-----------------------------------------------------------------------------
(***************************************************************************)
(* No record is out of reach, with one worker and as long as nothing is    *)
(* cancelled                                                               *)
(***************************************************************************)
\* What worker w has read of accepted work is queued until the worker itself
\* removes it, and it does so only for what is unfinished nowhere: a dropped
\* entry has no outcome, and a finished one has left the index and is gone or
\* will be.
FoundInv(w) ==
    /\ wpc[w] \notin {"scan", "drop"} => scan[w] = {}
    /\ wpc[w] = "idle" => copy[w] = Nothing
    /\ \A a \in scan[w] : copy[w][a] = "none" /\ (a \in Reliable => a \in queue)
    /\ \A a \in Reliable : copy[w][a] # "none" => a \in queue
    /\ wpc[w] = "drop" => /\ copy[w][cur[w]] = "none" /\ cur[w] \notin scan[w]
                          /\ payload[cur[w]] \in {"none", "processing"}
    /\ wpc[w] \in {"unlock", "unindex"} /\ ~expired[w] /\ payload[cur[w]] # "none" =>
          cur[w] \in volatile
    /\ wpc[w] \in {"purge", "dequeue"} => cur[w] \notin index
    /\ wpc[w] = "dequeue" /\ payload[cur[w]] # "none" => cur[w] \in volatile

\* A Schedule call enqueues a fresh ID only once it is indexed.
RequestIndexed ==
    \A c \in Callers :
        spc[c] = "zadd" /\ req[c] \notin FixedIDs => req[c] \in index

ReachInv ==
    /\ RecordsReachable
    /\ RequestIndexed
    /\ \A w \in Workers : FoundInv(w)

LEMMA InitReach == Init => ReachInv
  BY DEF Init, Nothing, ReachInv, FoundInv, RequestIndexed, RecordsReachable,
         UnfinishedVisible, CleanupRetryable, Reliable

\* What is due keeps its record, but for an outcome whose TTL is over, its
\* place in the queue and its absence from the index.
DueUntouched ==
    /\ UNCHANGED worker
    /\ \A a \in due :
          /\ \/ payload'[a] = payload[a] /\ (a \in volatile => a \in volatile')
             \/ payload[a] \in Terminal /\ payload'[a] = "none"
          /\ (a \in queue' <=> a \in queue) /\ (a \in index' => a \in index)
          /\ (a \in Reliable' => a \in Reliable)

LEMMA OthersFound ==
  ASSUME TypeOK, TypeOK', NEW w \in Workers, HeldInv(w), FoundInv(w),
         DueUntouched
  PROVE  FoundInv(w)'
  <1>1. /\ UNCHANGED <<wpc, scan, copy, cur, expired>>
        /\ scan[w] \subseteq Actions
        /\ cur[w] \in Actions \union {NoAction}
        /\ cur[w] = NoAction <=> wpc[w] \in {"idle", "scan", "pick"}
    BY DEF DueUntouched, worker, TypeOK, WorkerTypeOK
  <1>2. \A a \in scan[w] : a \in due
    BY <1>1 DEF HeldInv
  <1>3. wpc[w] \notin {"idle", "scan", "pick"} => cur[w] \in due
    BY <1>1 DEF HeldInv
  <1>4. ASSUME NEW a \in Reliable', copy[w][a] # "none" PROVE a \in queue'
    <2>1. a \in Actions
      BY DEF Reliable, TypeOK, HistoryTypeOK
    <2> QED  BY <1>4, <2>1 DEF HeldInv, FoundInv, DueUntouched
  <1> QED  BY <1>1, <1>2, <1>3, <1>4 DEF FoundInv, DueUntouched

\* A step of the worker keeps what it has found.
LEMMA WorkerFound ==
  ASSUME TypeOK, TypeOK', QueueInv, StageInv, NEW w \in Workers, FoundInv(w),
         WorkerStep(w)
  PROVE  FoundInv(w)'
  <1>1. /\ wpc \in [Workers -> WorkerSteps] /\ cur[w] \in Actions \union {NoAction}
        /\ copy \in [Workers -> [Actions -> States]]
        /\ cur \in [Workers -> Actions \union {NoAction}]
        /\ scan \in [Workers -> SUBSET Actions]
        /\ expired \in [Workers -> BOOLEAN]
        /\ payload \in [Actions -> States]
        /\ queue \subseteq Actions /\ index \subseteq Actions
        /\ volatile \subseteq Actions
        /\ cur[w] = NoAction <=> wpc[w] \in {"idle", "scan", "pick"}
    BY DEF TypeOK, WorkerTypeOK, StoreTypeOK
  <1>2. HeldInv(w) /\ Reliable \subseteq Actions
    BY DEF QueueInv, TypeOK, HistoryTypeOK, Reliable
  <1>3. Reliable' = Reliable
    BY WorkerStepUnlinks DEF WorkerUnlinks, Reliable
  <1> USE <1>1, <1>2, <1>3 DEF FoundInv
  <1>4. CASE Tick(w)
    BY <1>4 DEF Tick, Goto, store, Nothing
  <1>5. CASE ReadEntry(w)
    <2>1. wpc[w] = "scan" /\ UNCHANGED <<payload, volatile, queue, index>>
      BY <1>5 DEF ReadEntry, store
    <2>2. CASE Abandon(w)
      BY <2>1, <2>2 DEF Abandon, Nothing
    <2>3. CASE \E a \in scan[w] :
                  /\ payload[a] \in {"none", "processing"}
                  /\ wpc' = [wpc EXCEPT ![w] = "drop"]
                  /\ scan' = [scan EXCEPT ![w] = @ \ {a}]
                  /\ cur' = [cur EXCEPT ![w] = a]
                  /\ UNCHANGED <<copy, expired>>
      BY <2>1, <2>3
    <2>4. CASE \E a \in scan[w] :
                  /\ scan' = [scan EXCEPT ![w] = @ \ {a}]
                  /\ copy' = [copy EXCEPT ![w][a] = payload[a]]
                  /\ UNCHANGED <<wpc, cur, expired>>
      BY <2>1, <2>4
    <2> QED  BY <1>5, <2>2, <2>3, <2>4 DEF ReadEntry, ReadResult, Goto
  <1>6. CASE DropEntry(w)
    <2>1. /\ wpc[w] = "drop" /\ UNCHANGED <<payload, volatile, index>>
          /\ cur[w] \in Actions
          /\ \A a \in queue : a # cur[w] => a \in queue'
      BY <1>6 DEF DropEntry, Without
    <2>2. CASE Abandon(w)
      BY <2>1, <2>2 DEF Abandon, Nothing
    <2>3. CASE /\ wpc' = [wpc EXCEPT ![w] = "scan"]
               /\ UNCHANGED <<scan, copy, expired>>
      BY <2>1, <2>3
    <2> QED  BY <1>6, <2>2, <2>3 DEF DropEntry, Goto
  <1>7. CASE EndFetch(w)
    BY <1>7 DEF EndFetch, Advance, Goto, store
  <1>8. CASE PickAction(w)
    BY <1>8 DEF PickAction, FirstCommand, Goto, store
  <1>9. CASE EndTick(w)
    BY <1>9 DEF EndTick, Goto, store
  <1>10. CASE AcquireLock(w)
    BY <1>10 DEF AcquireLock, AfterAcquire, NextInBatch, Goto, HeldInv
  <1>11. CASE SaveProcessing(w)
    <2>1. wpc[w] = "begin" /\ cur[w] \in Actions /\ UNCHANGED <<queue, index>>
      BY <1>11 DEF SaveProcessing
    <2>2. CASE NextInBatch(w)
      BY <2>1, <2>2 DEF NextInBatch, Goto
    <2>3. CASE wpc' = [wpc EXCEPT ![w] = "handle"] /\ UNCHANGED <<scan, copy, cur, expired>>
      BY <2>1, <2>3
    <2> QED  BY <1>11, <2>2, <2>3 DEF SaveProcessing, Advance, Goto
  <1>12. CASE Handle(w)
    BY <1>12 DEF Handle, Goto, store, HeldInv
  <1>13. CASE SaveOutcome(w)
    <2>1. wpc[w] = "store" /\ cur[w] \in Actions /\ UNCHANGED <<queue, index>>
      BY <1>13 DEF SaveOutcome
    <2>2. CASE NextInBatch(w)
      BY <2>1, <2>2 DEF NextInBatch, Goto
    <2>3. CASE /\ wpc' = [wpc EXCEPT ![w] = "unlock"]
               /\ expired' = [expired EXCEPT ![w] = cur[w] \in lapsed]
               /\ UNCHANGED <<scan, copy, cur>>
               /\ cur[w] \notin lapsed => cur[w] \in volatile'
      BY <2>1, <2>3
    <2> QED  BY <1>13, <2>2, <2>3 DEF SaveOutcome, Command, Goto, With
  <1>14. CASE DeleteLock(w)
    BY <1>14 DEF DeleteLock, Advance, NextInBatch, Goto
  <1>15. CASE RemoveIndex(w)
    <2>1. /\ wpc[w] = "unindex" /\ cur[w] \in Actions
          /\ UNCHANGED <<queue, payload, volatile>>
      BY <1>15 DEF RemoveIndex
    <2>2. CASE NextInBatch(w)
      BY <2>1, <2>2 DEF NextInBatch, Goto
    <2>3. CASE /\ wpc' = [wpc EXCEPT ![w] = IF expired[w] THEN "purge" ELSE "dequeue"]
               /\ UNCHANGED <<scan, copy, cur, expired>>
               /\ cur[w] \notin index'
      BY <2>1, <2>3
    <2> QED
      BY <1>15, <2>2, <2>3 DEF RemoveIndex, AfterRemoveIndex, Command, Advance,
                               Goto, Without
  <1>16. CASE DeleteExpired(w)
    <2>1. wpc[w] = "purge" /\ cur[w] \in Actions /\ UNCHANGED <<queue, index>>
      BY <1>16 DEF DeleteExpired
    <2>2. CASE NextInBatch(w)
      BY <2>1, <2>2 DEF NextInBatch, Goto
    <2>3. CASE /\ wpc' = [wpc EXCEPT ![w] = "dequeue"]
               /\ UNCHANGED <<scan, copy, cur, expired>>
               /\ payload'[cur[w]] = "none"
      BY <2>1, <2>3
    <2> QED  BY <1>16, <2>2, <2>3 DEF DeleteExpired, Command, Advance, Goto
  <1>17. CASE RemoveFromQueue(w)
    <2>1. /\ wpc[w] = "dequeue" /\ cur[w] \in Actions
          /\ \A a \in queue : a # cur[w] => a \in queue'
          /\ NextInBatch(w)
      BY <1>17 DEF RemoveFromQueue, Without
    <2> QED  BY <2>1 DEF NextInBatch, Goto
  <1> QED
    BY <1>4, <1>5, <1>6, <1>7, <1>8, <1>9, <1>10, <1>11, <1>12, <1>13, <1>14,
       <1>15, <1>16, <1>17 DEF WorkerStep

\* A step of a Schedule call keeps every record in reach.
LEMMA ScheduleReach ==
  ASSUME TypeOK, TypeOK', QueueInv, ReachInv, NEW c \in Callers, ScheduleStep(c)
  PROVE  ReachInv'
  <1>1. ScheduleChanges(c) /\ ScheduleMoves(c)
    BY ScheduleStepChanges
  <1>2. /\ accepted \subseteq Actions /\ due \subseteq Actions
        /\ UNCHANGED <<due, worker>>
        /\ req \in [Callers -> Actions \union {NoAction}]
        /\ \A d \in Callers : req[d] = NoAction <=> spc[d] = "idle"
        /\ req[c] \notin due
    BY <1>1 DEF TypeOK, HistoryTypeOK, CallerTypeOK, ClockTypeOK,
                ScheduleChanges, QueueInv, RequestInv
  <1>3. \A a \in Actions : a # req[c] =>
           /\ payload'[a] = payload[a]
           /\ (a \in index' <=> a \in index) /\ (a \in queue' <=> a \in queue)
           /\ (a \in volatile' <=> a \in volatile)
    BY <1>1 DEF ScheduleChanges
  <1>4. \A a \in Reliable' : \/ a \in Reliable /\ a # req[c]
                             \/ /\ spc[c] = "zadd" /\ a = req[c] /\ a \in queue'
                                /\ UNCHANGED <<payload, volatile, index>>
    <2> SUFFICES ASSUME NEW a \in Reliable'
                 PROVE  \/ a \in Reliable /\ a # req[c]
                        \/ /\ spc[c] = "zadd" /\ a = req[c] /\ a \in queue'
                           /\ UNCHANGED <<payload, volatile, index>>
      OBVIOUS
    <2>1. CASE a \in accepted
      <3>1. a \in Reliable /\ a \in Actions
        BY <1>2, <2>1 DEF Reliable
      <3>2. a # req[c]
        BY <1>2, <3>1, RequestIsOwn
      <3> QED  BY <3>1, <3>2
    <2>2. CASE a \notin accepted
      BY <1>1, <2>2 DEF ScheduleChanges, Reliable
    <2> QED  BY <2>1, <2>2
  <1>5. RecordsReachable'
    <2> SUFFICES ASSUME NEW a \in Reliable'
                 PROVE  /\ payload'[a] \in {"pending", "processing"} => a \in index'
                        /\ payload'[a] \in Terminal
                             /\ (a \in index' \/ a \notin volatile')
                           => a \in queue'
      BY DEF RecordsReachable, UnfinishedVisible, CleanupRetryable
    <2>1. CASE a \in Reliable /\ a # req[c]
      <3>1. a \in Actions
        BY <1>2, <2>1 DEF Reliable
      <3> QED
        BY <1>3, <2>1, <3>1 DEF ReachInv, RecordsReachable, UnfinishedVisible,
                                CleanupRetryable
    <2>2. CASE /\ spc[c] = "zadd" /\ a = req[c] /\ a \in queue'
               /\ UNCHANGED <<payload, volatile, index>>
      BY <2>2 DEF ReachInv, RequestIndexed, Reliable
    <2> QED  BY <1>4, <2>1, <2>2
  <1>6. RequestIndexed'
    <2> SUFFICES ASSUME NEW d \in Callers, spc'[d] = "zadd",
                        req'[d] \notin FixedIDs
                 PROVE  req'[d] \in index'
      BY DEF RequestIndexed
    <2>1. CASE d = c
      BY <1>1, <2>1 DEF ScheduleMoves
    <2>2. CASE d # c
      <3>1. spc[d] = "zadd" /\ req'[d] = req[d]
        BY <1>1, <2>2 DEF ScheduleChanges
      <3>2. req[d] \in Actions /\ req[d] # req[c]
        BY <1>2, <2>2, <3>1 DEF QueueInv, RequestInv
      <3> QED  BY <1>3, <3>1, <3>2 DEF ReachInv, RequestIndexed
    <2> QED  BY <2>1, <2>2
  <1>7. DueUntouched
    BY <1>2, <1>3, <1>4 DEF DueUntouched
  <1> QED  BY <1>5, <1>6, <1>7, OthersFound DEF ReachInv, QueueInv

\* A step of the worker keeps every record in reach.
LEMMA WorkerReach ==
  ASSUME TypeOK, TypeOK', QueueInv, StageInv, ReachInv, SingleWorker,
         NEW w \in Workers, WorkerStep(w)
  PROVE  ReachInv'
  <1>1. WorkerWrites(w) /\ WorkerUnlinks(w)
    BY WorkerStepWrites, WorkerStepUnlinks
  <1>2. /\ FoundInv(w) /\ HeldInv(w) /\ StageInv!(w)
        /\ Reliable' = Reliable /\ Reliable \subseteq Actions
        /\ cur[w] \in Actions \union {NoAction}
        /\ payload \in [Actions -> States]
    BY <1>1 DEF ReachInv, QueueInv, StageInv, WorkerUnlinks, Reliable, TypeOK,
                HistoryTypeOK, WorkerTypeOK, StoreTypeOK
  <1>3. RecordsReachable'
    <2> SUFFICES ASSUME NEW a \in Reliable, a \in Actions
                 PROVE  /\ payload'[a] \in {"pending", "processing"} => a \in index'
                        /\ payload'[a] \in Terminal
                             /\ (a \in index' \/ a \notin volatile')
                           => a \in queue'
      BY <1>2 DEF RecordsReachable, UnfinishedVisible, CleanupRetryable
    <2>1. /\ payload[a] \in {"pending", "processing"} => a \in index
          /\ payload[a] \in Terminal /\ (a \in index \/ a \notin volatile)
                => a \in queue
      BY DEF ReachInv, RecordsReachable, UnfinishedVisible, CleanupRetryable
    <2>2. a \in index \ index' =>
             /\ a = cur[w] /\ wpc[w] = "unindex"
             /\ payload[a] \in Terminal \union {"none"}
      BY <1>1, <1>2 DEF WorkerUnlinks, Finishing
    <2>3. a \in queue \ queue' =>
             /\ a = cur[w] /\ wpc[w] \in {"drop", "dequeue"}
             /\ \/ payload[a] \in {"none", "processing"}
                \/ a \notin index /\ a \in volatile
      BY <1>1, <1>2 DEF WorkerUnlinks, FoundInv
    <2>4. CASE payload'[a] = payload[a] /\ (a \in volatile' <=> a \in volatile)
      BY <1>1, <2>1, <2>2, <2>3, <2>4 DEF WorkerUnlinks
    <2>5. CASE a = cur[w] /\ wpc[w] = "begin" /\ payload'[a] = "processing"
      BY <1>2, <2>1, <2>2, <2>5
    <2>6. CASE a = cur[w] /\ wpc[w] = "store" /\ payload'[a] = copy[w][a]
      BY <1>2, <2>3, <2>6 DEF HeldInv, FoundInv
    <2>7. CASE payload'[a] = "none"
      BY <2>7
    <2> QED  BY <1>1, <2>4, <2>5, <2>6, <2>7 DEF WorkerWrites
  <1>4. RequestIndexed'
    <2> SUFFICES ASSUME NEW d \in Callers, spc[d] = "zadd",
                        req[d] \notin FixedIDs
                 PROVE  req[d] \in index'
      BY <1>1 DEF RequestIndexed, WorkerUnlinks
    <2>1. req[d] \in Actions /\ req[d] \notin due
      BY RequestIsOwn
    <2>2. req[d] # cur[w]
      BY <1>2, <2>1 DEF HeldInv
    <2> QED  BY <1>1, <2>2 DEF ReachInv, RequestIndexed, WorkerUnlinks
  <1>5. \A v \in Workers : FoundInv(v)'
    BY <1>2, WorkerFound DEF SingleWorker
  <1> QED  BY <1>3, <1>4, <1>5 DEF ReachInv

LEMMA EnvironmentReach ==
  ASSUME TypeOK, TypeOK', QueueInv, ReachInv, SingleWorker, Environment
  PROVE  ReachInv'
  <1>1. EnvironmentChanges
    BY EnvironmentStepChanges
  <1>2. RecordsReachable'
    BY <1>1 DEF EnvironmentChanges, ReachInv, RecordsReachable, TypeOK,
                UnfinishedVisible, CleanupRetryable, Reliable, HistoryTypeOK
  <1>3. RequestIndexed'
    BY <1>1 DEF EnvironmentChanges, ReachInv, RequestIndexed
  <1>4. CASE UNCHANGED worker
    <2>1. DueUntouched
      BY <1>1, <1>4 DEF DueUntouched, EnvironmentChanges, Reliable, TypeOK,
                        ClockTypeOK
    <2> QED  BY <1>2, <1>3, <2>1, OthersFound DEF ReachInv, QueueInv
  <1>5. CASE \E w \in Workers : Abandon(w)
    <2>1. \A v \in Workers : FoundInv(v)'
      BY <1>5 DEF Abandon, Nothing, FoundInv, SingleWorker, TypeOK,
                  WorkerTypeOK, HistoryTypeOK, Reliable
    <2> QED  BY <1>2, <1>3, <2>1 DEF ReachInv
  <1> QED  BY <1>4, <1>5, EnvironmentWrites

\* With one worker, and as long as nothing is cancelled, accepted work that is
\* unfinished is found through its actor, and an outcome whose cleanup is
\* unfinished through the queue, whatever commands fail, records and locks
\* expire, and processes stop.
THEOREM RecordsAlwaysReachable ==
  SingleWorker /\ Cancellers = {} => (Spec => []RecordsReachable)
  <1> SUFFICES ASSUME SingleWorker, Cancellers = {}
               PROVE  Spec => []RecordsReachable
    OBVIOUS
  <1>1. Init => OnceInv /\ StageInv /\ ReachInv
    BY InitOnce, InitReach DEF Init, Nothing, StageInv, Finishing
  <1>2. TypeOK /\ TypeOK' /\ QueueInv /\ OnceInv /\ StageInv /\ ReachInv
           /\ [Next]_vars => OnceInv' /\ StageInv' /\ ReachInv'
    <2> SUFFICES ASSUME TypeOK, TypeOK', QueueInv, OnceInv, StageInv, ReachInv,
                        [Next]_vars
                 PROVE  OnceInv' /\ StageInv' /\ ReachInv'
      OBVIOUS
    <2>1. OnceInv' /\ StageInv'
      BY NextOnce, NextImplements
    <2>2. CASE \E c \in Callers : ScheduleStep(c)
      BY <2>1, <2>2, ScheduleReach
    <2>3. CASE \E w \in Workers : WorkerStep(w)
      BY <2>1, <2>3, WorkerReach
    <2>4. CASE Environment
      BY <2>1, <2>4, EnvironmentReach
    <2>5. CASE UNCHANGED vars
      <3>1. /\ UNCHANGED <<payload, volatile, queue, index, spc, req, wpc, scan,
                           copy, cur, expired>>
            /\ Reliable' = Reliable
        BY <2>5 DEF vars, store, caller, history, worker, Reliable
      <3>2. RecordsReachable' /\ RequestIndexed'
        BY <3>1 DEF ReachInv, RecordsReachable, UnfinishedVisible,
                    CleanupRetryable, RequestIndexed
      <3>3. \A w \in Workers : FoundInv(w)'
        BY <3>1 DEF ReachInv, FoundInv
      <3> QED  BY <2>1, <3>2, <3>3 DEF ReachInv
    <2> QED  BY <2>1, <2>2, <2>3, <2>4, <2>5 DEF Next
  <1>3. ReachInv => RecordsReachable
    BY DEF ReachInv
  <1> QED  BY <1>1, <1>2, <1>3, WorkTypeCorrect, QueueCorrect, PTL DEF Spec

-----------------------------------------------------------------------------
(***************************************************************************)
(* Cancellation does not hide what is still queued, for any number of      *)
(* workers, callers and cancellers, as long as no two actions have one     *)
(* owner: CancelByActorID deletes the whole Set of the actor in the end    *)
(***************************************************************************)
OneActionEach == \A a, b \in Actions : ActorOf[a] = ActorOf[b] => a = b

\* What is indexed or being cancelled was registered; what a call is about to
\* store for the first time is neither.
Registered ==
    /\ index \ FixedIDs \subseteq attempted
    /\ \A x \in Cancellers : snap[x] \ FixedIDs \subseteq attempted
    /\ \A c \in Callers : req[c] \in Actions \ FixedIDs /\ spc[c] = "set" =>
          req[c] \notin index /\ \A x \in Cancellers : req[c] \notin snap[x]

\* A fresh ID about to be enqueued is indexed, unless a cancellation has
\* already removed its payload.
EnqueuedVisible ==
    \A c \in Callers :
        /\ req[c] \in Actions \ FixedIDs /\ spc[c] = "zadd"
        /\ payload[req[c]] = "pending"
        => req[c] \in index

\* The payload of every member that a cancellation is done with is gone.
MembersGone ==
    \A x \in Cancellers :
        /\ rest[x] \subseteq snap[x]
        /\ \A a \in snap[x] \ FixedIDs :
              a \notin rest[x] \/ (cpc[x] = "delLock" /\ a = Member(x)) =>
                 payload[a] # "pending"

DiscoveryInv ==
    CancelKeepsDiscovery /\ Registered /\ EnqueuedVisible /\ MembersGone

LEMMA InitDiscovery == Init => DiscoveryInv
  BY DEF Init, Nothing, DiscoveryInv, CancelKeepsDiscovery, Reliable,
         Registered, EnqueuedVisible, MembersGone

LEMMA ScheduleDiscovery ==
  ASSUME TypeOK, TypeOK', QueueInv, DiscoveryInv, NEW c \in Callers,
         ScheduleStep(c)
  PROVE  DiscoveryInv'
  <1>1. ScheduleChanges(c) /\ ScheduleMoves(c)
    BY ScheduleStepChanges
  <1>2. /\ accepted \subseteq Actions /\ index \subseteq Actions
        /\ index' \subseteq Actions /\ UNCHANGED <<cpc, rest, snap>>
        /\ \A x \in Cancellers : snap[x] \subseteq Actions
        /\ req \in [Callers -> Actions \union {NoAction}]
        /\ \A d \in Callers : req[d] = NoAction <=> spc[d] = "idle"
        /\ attempted \subseteq attempted'
        /\ req[c] # NoAction => req[c] \in attempted
    BY <1>1 DEF TypeOK, HistoryTypeOK, CallerTypeOK, StoreTypeOK, canceller,
                CancellerTypeOK, ScheduleChanges, QueueInv, RequestInv
  <1>3. \A a \in Actions : a # req[c] =>
           /\ payload'[a] = payload[a]
           /\ (a \in index' <=> a \in index) /\ (a \in queue' <=> a \in queue)
    BY <1>1 DEF ScheduleChanges
  <1>4. CancelKeepsDiscovery'
    <2> SUFFICES ASSUME NEW a \in Reliable', a \in queue', payload'[a] = "pending"
                 PROVE  a \in index'
      BY DEF CancelKeepsDiscovery
    <2>1. CASE a \in accepted
      <3>1. a \in Reliable /\ a \in Actions
        BY <1>2, <2>1 DEF Reliable
      <3>2. a # req[c]
        BY <1>2, <3>1, RequestIsOwn
      <3> QED  BY <1>3, <3>1, <3>2 DEF DiscoveryInv, CancelKeepsDiscovery
    <2>2. CASE a \notin accepted
      <3>1. /\ spc[c] = "zadd" /\ a = req[c] /\ UNCHANGED <<payload, index>>
            /\ a \notin FixedIDs
        BY <1>1, <2>2 DEF ScheduleChanges, Reliable
      <3>2. req[c] \in Actions
        BY <1>2, <3>1
      <3> QED  BY <3>1, <3>2 DEF DiscoveryInv, EnqueuedVisible
    <2> QED  BY <2>1, <2>2
  <1>5. index' \ FixedIDs \subseteq attempted'
    <2> SUFFICES ASSUME NEW a \in index', a \notin FixedIDs PROVE a \in attempted'
      OBVIOUS
    <2>1. a \in index \/ a = req[c]
      BY <1>2, <1>3
    <2>2. a = req[c] => a \in attempted
      BY <1>2
    <2> QED  BY <1>2, <2>1, <2>2 DEF DiscoveryInv, Registered
  <1>6. ASSUME NEW d \in Callers, req'[d] \in Actions \ FixedIDs, d # c
        PROVE  /\ req'[d] = req[d] /\ spc'[d] = spc[d]
               /\ payload'[req[d]] = payload[req[d]]
               /\ (req[d] \in index' <=> req[d] \in index)
    <2>1. req'[d] = req[d] /\ spc'[d] = spc[d]
      BY <1>1, <1>6 DEF ScheduleChanges
    <2>2. req[d] \in Actions /\ req[d] # req[c]
      BY <1>2, <1>6, <2>1 DEF QueueInv, RequestInv
    <2> QED  BY <1>3, <2>1, <2>2
  <1>7. Registered'
    <2>1. \A x \in Cancellers : snap'[x] \ FixedIDs \subseteq attempted'
      BY <1>2 DEF DiscoveryInv, Registered
    <2> SUFFICES ASSUME NEW d \in Callers, req'[d] \in Actions \ FixedIDs,
                        spc'[d] = "set"
                 PROVE  /\ req'[d] \notin index'
                        /\ \A x \in Cancellers : req'[d] \notin snap'[x]
      BY <1>5, <2>1 DEF Registered
    <2>2. CASE d = c
      <3>1. req'[c] \notin attempted /\ UNCHANGED index
        BY <1>1, <2>2 DEF ScheduleMoves
      <3> QED  BY <1>2, <2>2, <3>1 DEF DiscoveryInv, Registered
    <2>3. CASE d # c
      BY <1>2, <1>6, <2>3 DEF DiscoveryInv, Registered
    <2> QED  BY <2>2, <2>3
  <1>8. EnqueuedVisible'
    <2> SUFFICES ASSUME NEW d \in Callers, req'[d] \in Actions \ FixedIDs,
                        spc'[d] = "zadd", payload'[req'[d]] = "pending"
                 PROVE  req'[d] \in index'
      BY DEF EnqueuedVisible
    <2>1. CASE d = c
      BY <1>1, <2>1 DEF ScheduleMoves
    <2>2. CASE d # c
      BY <1>6, <2>2 DEF DiscoveryInv, EnqueuedVisible
    <2> QED  BY <2>1, <2>2
  <1>9. MembersGone'
    <2>1. ASSUME NEW x \in Cancellers, NEW a \in snap[x] \ FixedIDs,
                 payload'[a] = "pending"
          PROVE  payload[a] = "pending"
      <3>1. a \in Actions
        BY <1>2
      <3>2. CASE a = req[c]
        <4>1. spc[c] # "set"
          BY <3>1, <3>2 DEF DiscoveryInv, Registered
        <4> QED  BY <1>1, <2>1, <3>2, <4>1 DEF ScheduleChanges
      <3> QED  BY <1>3, <2>1, <3>1, <3>2
    <2> QED  BY <1>2, <2>1 DEF DiscoveryInv, MembersGone, Member
  <1> QED  BY <1>4, <1>7, <1>8, <1>9 DEF DiscoveryInv

LEMMA WorkerDiscovery ==
  ASSUME TypeOK, QueueInv, DiscoveryInv, NEW w \in Workers, WorkerStep(w)
  PROVE  DiscoveryInv'
  <1>1. WorkerWrites(w) /\ WorkerUnlinks(w)
    BY WorkerStepWrites, WorkerStepUnlinks
  <1>2. /\ HeldInv(w) /\ \A a \in Actions : RecordInv(a)
        /\ cur[w] \in Actions \union {NoAction}
        /\ index \subseteq Actions
        /\ accepted \subseteq Actions /\ UNCHANGED <<cpc, rest, snap>>
        /\ \A x \in Cancellers : snap[x] \subseteq Actions
    BY <1>1 DEF QueueInv, TypeOK, WorkerTypeOK, HistoryTypeOK, StoreTypeOK,
                CancellerTypeOK, WorkerUnlinks, canceller
  <1>3. \A a \in Actions : payload'[a] = "pending" => payload[a] = "pending"
    BY <1>1, <1>2 DEF WorkerWrites, HeldInv
  <1>4. \A a \in Actions : payload'[a] = "pending" /\ a \in index => a \in index'
    BY <1>1, <1>2, <1>3 DEF WorkerUnlinks, HeldInv, RecordInv, Finishing
  <1>5. CancelKeepsDiscovery'
    BY <1>1, <1>2, <1>3, <1>4 DEF DiscoveryInv, CancelKeepsDiscovery, Reliable,
                                  WorkerUnlinks
  <1>6. Registered'
    BY <1>1, <1>2 DEF DiscoveryInv, Registered, WorkerUnlinks
  <1>7. EnqueuedVisible'
    BY <1>1, <1>3, <1>4 DEF DiscoveryInv, EnqueuedVisible, WorkerUnlinks
  <1>8. MembersGone'
    BY <1>2, <1>3 DEF DiscoveryInv, MembersGone, Member
  <1> QED  BY <1>5, <1>6, <1>7, <1>8 DEF DiscoveryInv

LEMMA EnvironmentDiscovery ==
  ASSUME TypeOK, DiscoveryInv, EnvironmentChanges
  PROVE  DiscoveryInv'
  <1>1. /\ accepted \subseteq Actions /\ NoAction \notin Actions
        /\ cpc \in [Cancellers -> CancelSteps]
        /\ snap \in [Cancellers -> SUBSET Actions]
        /\ rest \in [Cancellers -> SUBSET Actions]
    BY DEF TypeOK, HistoryTypeOK, CancellerTypeOK
  <1>2. \A a \in Actions : payload'[a] = "pending" => payload[a] = "pending"
    BY DEF EnvironmentChanges
  <1>3. \A x \in Cancellers :
           \/ cpc'[x] = cpc[x] /\ rest'[x] = rest[x] /\ snap'[x] = snap[x]
           \/ rest'[x] = {} /\ snap'[x] = {}
    BY <1>1 DEF EnvironmentChanges, CancelReturns, canceller
  <1>4. CancelKeepsDiscovery'
    BY <1>1, <1>2 DEF DiscoveryInv, CancelKeepsDiscovery, Reliable,
                      EnvironmentChanges
  <1>5. Registered'
    BY <1>1, <1>3 DEF DiscoveryInv, Registered, EnvironmentChanges
  <1>6. EnqueuedVisible'
    BY <1>2 DEF DiscoveryInv, EnqueuedVisible, EnvironmentChanges
  <1>7. MembersGone'
    BY <1>1, <1>2, <1>3 DEF DiscoveryInv, MembersGone, Member
  <1> QED  BY <1>4, <1>5, <1>6, <1>7 DEF DiscoveryInv

\* A step of a cancellation: only its last one touches the index, and then
\* the payloads of all its members are gone.
LEMMA CancelDiscovery ==
  ASSUME TypeOK, QueueInv, DiscoveryInv, OneActionEach, NEW x \in Cancellers,
         CancelStep(x)
  PROVE  DiscoveryInv'
  <1>1. /\ UNCHANGED <<spc, req, attempted, accepted>>
        /\ queue' \subseteq queue /\ index' \subseteq index
        /\ \A y \in Cancellers \ {x} :
              cpc'[y] = cpc[y] /\ rest'[y] = rest[y] /\ snap'[y] = snap[y]
    BY DEF CancelStep, BeginCancel, CancelDequeue, CancelPayload, CancelLock,
           CancelIndex, CancelGoto, CancelReturns, Without, store, caller,
           history, TypeOK, CancellerTypeOK
  <1>2. /\ accepted \subseteq Actions /\ index \subseteq Actions
        /\ payload \in [Actions -> States]
        /\ snap \in [Cancellers -> SUBSET Actions]
        /\ rest \in [Cancellers -> SUBSET Actions]
        /\ cpc \in [Cancellers -> CancelSteps]
        /\ cpc[x] \in {"delPayload", "delLock"} => rest[x] # {}
    BY DEF TypeOK, HistoryTypeOK, CancellerTypeOK, StoreTypeOK
  <1>3. \A a \in Actions : payload'[a] = "pending" => payload[a] = "pending"
    BY <1>2 DEF CancelStep, BeginCancel, CancelDequeue, CancelPayload,
                CancelLock, CancelIndex, store
  <1>4. \A a \in Actions \ FixedIDs :
           payload'[a] = "pending" /\ a \in index => a \in index'
    <2>1. CASE CancelIndex(x)
      <3>1. /\ rest[x] = {}
            /\ \/ UNCHANGED index
               \/ index' = {a \in index :
                              ActorOf[a] \notin {ActorOf[b] : b \in snap[x]}}
        BY <2>1 DEF CancelIndex
      <3>2. \A a \in index : a \notin index' =>
               \E b \in snap[x] : ActorOf[a] = ActorOf[b]
        BY <3>1
      <3>3. \A a \in index : a \notin index' => a \in snap[x]
        BY <1>2, <3>2 DEF OneActionEach
      <3>4. \A a \in snap[x] \ FixedIDs : payload[a] # "pending"
        BY <3>1 DEF DiscoveryInv, MembersGone
      <3> QED  BY <1>3, <3>3, <3>4
    <2>2. CASE UNCHANGED index
      BY <2>2
    <2> QED
      BY <2>1, <2>2 DEF CancelStep, BeginCancel, CancelDequeue, CancelPayload,
                        CancelLock, store
  <1>5. \/ snap'[x] \subseteq index /\ rest'[x] = snap'[x] /\ cpc'[x] = "remove"
        \/ snap'[x] = {} /\ rest'[x] = {}
        \/ snap'[x] = snap[x] /\ rest'[x] = rest[x] /\ cpc'[x] = "delPayload"
        \/ /\ snap'[x] = snap[x] /\ rest'[x] = rest[x] /\ cpc'[x] = "delLock"
           /\ rest[x] # {} /\ payload'[Member(x)] = "none"
        \/ /\ snap'[x] = snap[x] /\ rest'[x] = rest[x] \ {Member(x)}
           /\ cpc[x] = "delLock" /\ cpc'[x] = "remove"
    <2>1. CASE \E actor \in Actors : BeginCancel(x, actor)
      BY <1>2, <2>1 DEF BeginCancel
    <2>2. CASE CancelReturns(x)
      BY <1>2, <2>2 DEF CancelReturns
    <2>3. CASE CancelDequeue(x)
      BY <1>2, <2>2, <2>3 DEF CancelDequeue, CancelGoto
    <2>4. CASE CancelPayload(x)
      <3>1. rest[x] # {} /\ Member(x) \in Actions
        BY <1>2, <2>4 DEF CancelPayload, Member
      <3> QED  BY <1>2, <2>2, <2>4, <3>1 DEF CancelPayload, CancelGoto, Command
    <2>5. CASE CancelLock(x)
      BY <1>2, <2>2, <2>5 DEF CancelLock, CancelGoto
    <2>6. CASE CancelIndex(x)
      BY <2>2, <2>6 DEF CancelIndex
    <2> QED  BY <2>1, <2>3, <2>4, <2>5, <2>6 DEF CancelStep
  <1>6. CancelKeepsDiscovery'
    BY <1>1, <1>2, <1>3, <1>4 DEF DiscoveryInv, CancelKeepsDiscovery, Reliable
  <1>7. Registered'
    <2>1. snap'[x] \subseteq index \union snap[x]
      BY <1>5
    <2>2. \A y \in Cancellers : snap'[y] \subseteq index \union snap[y]
      BY <1>1, <2>1
    <2> QED  BY <1>1, <2>2 DEF DiscoveryInv, Registered
  <1>8. EnqueuedVisible'
    BY <1>1, <1>3, <1>4 DEF DiscoveryInv, EnqueuedVisible
  <1>9. MembersGone'
    <2>1. ASSUME NEW y \in Cancellers, y # x
          PROVE  /\ rest'[y] \subseteq snap'[y]
                 /\ \A a \in snap'[y] \ FixedIDs :
                       a \notin rest'[y] \/ (cpc'[y] = "delLock" /\ a = Member(y)') =>
                          payload'[a] # "pending"
      <3>1. Member(y)' = Member(y)
        BY <1>1, <2>1 DEF Member
      <3> QED  BY <1>1, <1>2, <1>3, <2>1, <3>1 DEF DiscoveryInv, MembersGone
    <2>2. rest[x] \subseteq snap[x] /\ snap[x] \subseteq Actions
      BY <1>2 DEF DiscoveryInv, MembersGone
    <2>3. rest'[x] \subseteq snap'[x]
      BY <1>5, <2>2
    <2>4. rest'[x] = rest[x] => Member(x)' = Member(x)
      BY DEF Member
    <2>5. \A a \in snap[x] \ FixedIDs :
             a \notin rest[x] \/ (cpc[x] = "delLock" /\ a = Member(x)) =>
                payload[a] # "pending"
      BY DEF DiscoveryInv, MembersGone
    <2>6. ASSUME NEW a \in snap'[x] \ FixedIDs,
                 a \notin rest'[x] \/ (cpc'[x] = "delLock" /\ a = Member(x)')
          PROVE  payload'[a] # "pending"
      BY <1>3, <1>5, <2>2, <2>4, <2>5, <2>6
    <2> QED  BY <2>1, <2>3, <2>6 DEF MembersGone
  <1> QED  BY <1>6, <1>7, <1>8, <1>9 DEF DiscoveryInv

\* As long as no two actions have one owner, a cancellation never leaves an
\* accepted action queued for execution but hidden from its actor, however
\* its commands fail, wherever it stops and whoever else is at work.
THEOREM CancelAlwaysKeepsDiscovery ==
  OneActionEach => (Spec => []CancelKeepsDiscovery)
  <1> SUFFICES ASSUME OneActionEach PROVE Spec => []CancelKeepsDiscovery
    OBVIOUS
  <1>1. TypeOK /\ TypeOK' /\ QueueInv /\ DiscoveryInv /\ [Next]_vars
           => DiscoveryInv'
    <2> SUFFICES ASSUME TypeOK, TypeOK', QueueInv, DiscoveryInv, [Next]_vars
                 PROVE  DiscoveryInv'
      OBVIOUS
    <2>1. CASE \E c \in Callers : ScheduleStep(c)
      BY <2>1, ScheduleDiscovery
    <2>2. CASE \E w \in Workers : WorkerStep(w)
      BY <2>2, WorkerDiscovery
    <2>3. CASE \E x \in Cancellers : CancelStep(x)
      BY <2>3, CancelDiscovery
    <2>4. CASE Environment
      BY <2>4, EnvironmentStepChanges, EnvironmentDiscovery
    <2>5. CASE UNCHANGED vars
      BY <2>5 DEF vars, store, caller, canceller, history, DiscoveryInv,
                  CancelKeepsDiscovery, Registered, EnqueuedVisible,
                  MembersGone, Member, Reliable
    <2> QED  BY <2>1, <2>2, <2>3, <2>4, <2>5 DEF Next
  <1>2. DiscoveryInv => CancelKeepsDiscovery
    BY DEF DiscoveryInv
  <1> QED  BY <1>1, <1>2, InitDiscovery, WorkTypeCorrect, QueueCorrect, PTL DEF Spec

-----------------------------------------------------------------------------
(* The sleep of a character                                                *)
USE HomeAssumption

-----------------------------------------------------------------------------
(***************************************************************************)
(* Type correctness                                                        *)
(***************************************************************************)
\* An error leads to a step that needs no verified obligation, and to the
\* return itself where no claim is held yet.
PreClaim == {"idle", "s.check", "s.claim", "w.check", "w.pending", "w.claim"}

LEMMA ErrorTarget ==
  ASSUME NEW step \in Steps
  PROVE  /\ OnError(step) \in Steps
         /\ OnError(step) \notin VerifiedSteps
         /\ step \in PreClaim \ {"idle"} => OnError(step) = "idle"
  BY DEF Steps, SleepSteps, UndoSteps, WakeSteps, OnError, VerifiedSteps, PreClaim

LEMMA GotoTyped ==
  ASSUME HomeTypeOK, NEW c \in Requests, NEW step \in Steps, HomeGoto(c, step)
  PROVE  pc' \in [Requests -> Steps]
  BY DEF HomeTypeOK, HomeGoto

\* A failed command keeps the types of the steps and the bounds.
LEMMA FailsTyped ==
  ASSUME HomeTypeOK, NEW c \in Requests, Fails(c)
  PROVE  /\ pc' \in [Requests -> Steps]
         /\ sleepFaults' \in 0..MaxSleepFaults /\ stalls' \in 0..MaxStalls
         /\ rescues' \in 0..MaxRescues
  <1>1. OnError(pc[c]) \in Steps
    BY ErrorTarget DEF HomeTypeOK
  <1>2. pc' \in [Requests -> Steps]
    BY <1>1, GotoTyped DEF Fails
  <1>3. QED
    BY <1>2 DEF HomeTypeOK, Fails

\* A finished step goes on or fails; the bounds keep their types.
LEMMA DoneTyped ==
  ASSUME HomeTypeOK, NEW c \in Requests, NEW next \in Steps, Done(c, next)
  PROVE  /\ pc' \in [Requests -> Steps]
         /\ sleepFaults' \in 0..MaxSleepFaults /\ stalls' \in 0..MaxStalls
         /\ rescues' \in 0..MaxRescues
  <1>1. CASE HomeGoto(c, next) /\ UNCHANGED bounds
    BY <1>1, GotoTyped DEF HomeTypeOK, bounds
  <1>2. CASE Fails(c)
    BY <1>2, FailsTyped
  <1>3. QED
    BY <1>1, <1>2 DEF Done

LEMMA EnterTyped ==
  ASSUME HomeTypeOK, NEW c \in Requests, NEW at \in Steps, NEW next \in Steps,
         NEW allowed, EnterTx(c, at, allowed, next)
  PROVE  HomeTypeOK'
  <1>1. OnError(at) \in Steps
    BY ErrorTarget
  <1>2. row' \in Requests \cup {NoOne} /\ pc' \in [Requests -> Steps]
    BY <1>1, GotoTyped DEF EnterTx, HomeTypeOK
  <1>3. lost' \in [Requests -> BOOLEAN]
    BY DEF EnterTx, HomeTypeOK, Owns
  <1>4. QED
    BY <1>2, <1>3 DEF EnterTx, HomeTypeOK, timers, bounds

LEMMA TryClaimTyped ==
  ASSUME HomeTypeOK, NEW c \in Requests, NEW at, NEW next \in Steps, TryClaim(c, at, next)
  PROVE  HomeTypeOK'
  <1>1. claim' \in Requests \cup {NoOne, Orphan}
    BY DEF TryClaim, HomeTypeOK
  <1>2. "idle" \in Steps
    BY DEF Steps
  <1>3. /\ pc' \in [Requests -> Steps]
        /\ sleepFaults' \in 0..MaxSleepFaults /\ stalls' \in 0..MaxStalls
        /\ rescues' \in 0..MaxRescues
    BY <1>2, GotoTyped, FailsTyped DEF TryClaim, HomeTypeOK, bounds
  <1>4. QED
    BY <1>1, <1>3 DEF TryClaim, HomeTypeOK, sql, Keep

LEMMA RestoredItems ==
  /\ {"tired", "costume", "dungeon"} \subseteq Restored
  /\ \A i \in 1..Len(SqlHooks) : SqlHooks[i] \in Restored
  BY DEF Restored

LEMMA SleepInitTyped == HomeInit => HomeTypeOK
  <1>1. SqlHooks \in Seq(STRING) /\ Len(SqlHooks) > 0
    BY DEF HomeAssumption
  <1>2. Len(SqlHooks) \in Nat
    BY <1>1
  <1>3. 1 \in 1..Len(SqlHooks)
    BY <1>1, <1>2
  <1>4. HomeInit => hook \in [Requests -> 1..Len(SqlHooks)]
    BY <1>3 DEF HomeInit
  <1>5. HomeInit => pc \in [Requests -> Steps]
    BY DEF HomeInit, Steps
  <1>6. HomeInit => lost \in [Requests -> BOOLEAN] /\ seen \in [Requests -> BOOLEAN]
    BY DEF HomeInit
  <1>7. HomeInit => sleepFaults \in 0..MaxSleepFaults /\ stalls \in 0..MaxStalls /\ rescues \in 0..MaxRescues
    BY DEF HomeInit, HomeAssumption
  <1>8. HomeInit => used \subseteq Restored
    BY DEF HomeInit
  <1>9. QED
    BY <1>4, <1>5, <1>6, <1>7, <1>8 DEF HomeInit, HomeTypeOK

\* Every step of a call keeps the types.
LEMMA SleepTyped ==
  ASSUME HomeTypeOK, NEW c \in Requests, SleepStep(c)
  PROVE  HomeTypeOK'
  <1> USE DEF Keep, HomeGoto, sql, timers, bounds, Owns
  <1>1. CASE SleepCheck(c)
    BY <1>1 DEF SleepCheck, HomeTypeOK, Steps, SleepSteps
  <1>2. CASE TryClaim(c, "s.claim", "s.recheck")
    BY <1>2, TryClaimTyped DEF Steps, SleepSteps
  <1>3. CASE SleepRecheck(c)
    BY <1>3 DEF SleepRecheck, HomeTypeOK, Steps, SleepSteps
  <1>4. CASE EnterTx(c, "s.mark", MarkAllowed, "s.markCommit")
    BY <1>4, EnterTyped DEF Steps, SleepSteps
  <1>5. CASE CommitMark(c)
    BY <1>5, DoneTyped DEF CommitMark, LeaveTx, HomeTypeOK, Steps, SleepSteps
  <1>6. CASE CheckOwner(c, "s.ownTimer", "s.setTimer")
    BY <1>6, ErrorTarget DEF CheckOwner, HomeTypeOK, Steps, SleepSteps
  <1>7. CASE SetSleepTimer(c)
    <2>1. "s.ownAsleep" \in Steps /\ "s.ownJob" \in Steps
      BY DEF Steps, SleepSteps
    <2>2. OnError(pc[c]) \in Steps
      BY ErrorTarget DEF HomeTypeOK
    <2>3. /\ pc' \in [Requests -> Steps]
          /\ sleepFaults' \in 0..MaxSleepFaults /\ stalls' \in 0..MaxStalls
          /\ rescues' \in 0..MaxRescues
      BY <1>7, <2>1, <2>2, DoneTyped, GotoTyped DEF SetSleepTimer, HomeTypeOK
    <2>4. QED
      BY <1>7, <2>3 DEF SetSleepTimer, HomeTypeOK
  <1>8. CASE CheckOwner(c, "s.ownAsleep", "s.setAsleep")
    BY <1>8, ErrorTarget DEF CheckOwner, HomeTypeOK, Steps, SleepSteps
  <1>9. CASE SetAsleep(c)
    <2>1. "s.ownAsleep" \in Steps /\ "s.ownJob" \in Steps
      BY DEF Steps, SleepSteps
    <2>2. OnError(pc[c]) \in Steps
      BY ErrorTarget DEF HomeTypeOK
    <2>3. /\ pc' \in [Requests -> Steps]
          /\ sleepFaults' \in 0..MaxSleepFaults /\ stalls' \in 0..MaxStalls
          /\ rescues' \in 0..MaxRescues
      BY <1>9, <2>1, <2>2, DoneTyped, GotoTyped DEF SetAsleep, HomeTypeOK
    <2>4. QED
      BY <1>9, <2>3 DEF SetAsleep, HomeTypeOK
  <1>10. CASE CheckBeforeJob(c)
    BY <1>10 DEF CheckBeforeJob, HomeTypeOK, Steps, SleepSteps, UndoSteps
  <1>11. CASE EnterTx(c, "s.job", TRUE, "s.jobCommit")
    BY <1>11, EnterTyped DEF Steps, SleepSteps
  <1>12. CASE CommitJob(c)
    BY <1>12, DoneTyped DEF CommitJob, LeaveTx, HomeTypeOK, Steps, SleepSteps
  <1>13. CASE SleepReturns(c)
    BY <1>13 DEF SleepReturns, HomeTypeOK, Steps, SleepSteps, UndoSteps
  <1>14. QED
    BY <1>1, <1>2, <1>3, <1>4, <1>5, <1>6, <1>7, <1>8, <1>9, <1>10, <1>11, <1>12, <1>13
    DEF SleepStep

LEMMA UndoTyped ==
  ASSUME HomeTypeOK, NEW c \in Requests, UndoStep(c)
  PROVE  HomeTypeOK'
  <1> USE DEF Keep, HomeGoto, sql, timers, bounds, Owns, Settle
  <1>1. CASE UndoAsleep(c)
    BY <1>1, DoneTyped DEF UndoAsleep, HomeTypeOK, Steps, UndoSteps
  <1>2. CASE UndoSleep(c)
    BY <1>2, DoneTyped DEF UndoSleep, HomeTypeOK, Steps, UndoSteps
  <1>3. CASE EnterTx(c, "u.flag", UndoAllowed, "u.flagCommit")
    BY <1>3, EnterTyped DEF Steps, UndoSteps
  <1>4. CASE CommitUndo(c)
    BY <1>4, DoneTyped DEF CommitUndo, LeaveTx, HomeTypeOK, Steps
  <1>5. QED
    BY <1>1, <1>2, <1>3, <1>4 DEF UndoStep

LEMMA WakeTyped ==
  ASSUME HomeTypeOK, NEW c \in Requests, WakeStep(c)
  PROVE  HomeTypeOK'
  <1> USE DEF Keep, HomeGoto, sql, timers, bounds, Owns, Settle
  <1>1. ASSUME NEW at \in {"w.check", "w.recheck"}, NEW next \in WakeSteps, WakeCheck(c, at, next)
        PROVE  HomeTypeOK'
    BY <1>1, ErrorTarget DEF WakeCheck, HomeTypeOK, Steps, WakeSteps
  <1>2. CASE WakePending(c)
    BY <1>2 DEF WakePending, HomeTypeOK, Steps, WakeSteps
  <1>3. CASE TryClaim(c, "w.claim", "w.recheck")
    BY <1>3, TryClaimTyped DEF Steps, WakeSteps
  <1>4. CASE WakeReverify(c)
    BY <1>4 DEF WakeReverify, HomeTypeOK, Steps, WakeSteps
  <1>5. ASSUME NEW at \in WakeSteps, NEW next \in WakeSteps, EnterTx(c, at, NotSleeping, next)
        PROVE  HomeTypeOK'
    BY <1>5, EnterTyped DEF Steps
  <1>6. CASE CommitVitality(c)
    BY <1>6, DoneTyped DEF CommitVitality, LeaveTx, HomeTypeOK, Steps, WakeSteps
  <1>7. ASSUME NEW at \in WakeSteps, NEW next \in WakeSteps, CheckOwner(c, at, next)
        PROVE  HomeTypeOK'
    BY <1>7, ErrorTarget DEF CheckOwner, HomeTypeOK, Steps
  <1>8. CASE RunHook(c)
    <2>1. AfterHook(c) \in Steps /\ Done(c, AfterHook(c))
      BY <1>8 DEF RunHook, AfterHook, Steps, WakeSteps
    <2>2. hook[c] \in 1..Len(SqlHooks) /\ Len(SqlHooks) \in Nat
      BY DEF HomeTypeOK
    <2>3. hook' \in [Requests -> 1..Len(SqlHooks)]
      BY <1>8, <2>2 DEF RunHook, HomeTypeOK
    <2>4. QED
      BY <1>8, <2>1, <2>3, DoneTyped DEF RunHook, HomeTypeOK
  <1>9. ASSUME NEW at \in WakeSteps, NEW item, NEW next \in WakeSteps,
               ResetWithClaim(c, at, item, next)
        PROVE  HomeTypeOK'
    <2>1. next \in Steps /\ at \in Steps
      BY DEF Steps
    <2>2. CASE Done(c, next) /\ used' = used \ {item}
      BY <1>9, <2>1, <2>2, DoneTyped DEF ResetWithClaim, HomeTypeOK
    <2>3. CASE HomeGoto(c, OnError(at)) /\ UNCHANGED <<used, bounds>>
      BY <1>9, <2>1, <2>3, ErrorTarget DEF ResetWithClaim, HomeTypeOK
    <2>4. QED
      BY <1>9, <2>2, <2>3 DEF ResetWithClaim
  <1>10. CASE CheckBeforeDungeon(c)
    BY <1>10 DEF CheckBeforeDungeon, HomeTypeOK, Steps, WakeSteps
  <1>11. CASE CommitFinal(c)
    BY <1>11, DoneTyped DEF CommitFinal, LeaveTx, HomeTypeOK, Steps, WakeSteps
  <1>12. CASE ReleaseAsleep(c)
    BY <1>12, DoneTyped DEF ReleaseAsleep, HomeTypeOK, Steps
  <1>13. AfterDungeon(c) \in WakeSteps
    BY DEF AfterDungeon, WakeSteps
  <1>14. {"w.check", "w.pending", "w.recheck", "w.reverify", "w.recover", "w.recoverCommit",
          "w.ownHook", "w.hook", "w.ownCostume", "w.costume", "w.ownDungeon", "w.dungeon",
          "w.final", "w.finalCommit"} \subseteq WakeSteps
    BY DEF WakeSteps
  <1>15. QED
    BY <1>1, <1>2, <1>3, <1>4, <1>5, <1>6, <1>7, <1>8, <1>9, <1>10, <1>11, <1>12, <1>13, <1>14
    DEF WakeStep

LEMMA NextTyped == HomeTypeOK /\ [HomeNext]_homeVars => HomeTypeOK'
  <1> SUFFICES ASSUME HomeTypeOK, [HomeNext]_homeVars PROVE HomeTypeOK'
    OBVIOUS
  <1> USE DEF sql, timers, calls, bounds
  <1>1. ASSUME NEW c \in Requests, BeginSleep(c) \/ BeginWake(c) \/ CallStep(c) \/ StepFails(c)
                                  \/ Heartbeat(c) \/ Crash(c)
        PROVE  HomeTypeOK'
    <2>1. CASE BeginSleep(c) \/ BeginWake(c)
      BY <2>1 DEF BeginSleep, BeginWake, HomeGoto, Keep, HomeTypeOK, Steps, SleepSteps, WakeSteps
    <2>2. CASE SleepStep(c) \/ UndoStep(c) \/ WakeStep(c)
      BY <2>2, SleepTyped, UndoTyped, WakeTyped
    <2>3. CASE ReleaseClaim(c)
      BY <2>3 DEF ReleaseClaim, HomeGoto, Forget, HomeTypeOK, Steps
    <2>4. CASE StepFails(c)
      BY <2>4, ErrorTarget DEF StepFails, Fails, HomeGoto, Keep, HomeTypeOK
    <2>5. CASE Heartbeat(c)
      BY <2>5 DEF Heartbeat, HomeTypeOK
    <2>6. CASE Crash(c)
      BY <2>6 DEF Crash, HomeGoto, Forget, HomeTypeOK, Steps
    <2>7. QED
      BY <1>1, <2>1, <2>2, <2>3, <2>4, <2>5, <2>6 DEF CallStep
  <1>2. CASE ClaimLapses
    BY <1>2 DEF ClaimLapses, HomeTypeOK
  <1>3. CASE SleepExpires
    BY <1>3 DEF SleepExpires, HomeTypeOK
  <1>4. CASE Play
    BY <1>4 DEF Play, HomeTypeOK
  <1>5. CASE Rescue
    BY <1>5 DEF Rescue, HomeTypeOK
  <1>6. CASE UNCHANGED homeVars
    BY <1>6 DEF homeVars, HomeTypeOK
  <1>7. QED
    BY <1>1, <1>2, <1>3, <1>4, <1>5, <1>6 DEF HomeNext

\* The variables keep their types, for every number of calls.
THEOREM SleepTypeCorrect == HomeSpec => []HomeTypeOK
  BY SleepInitTyped, NextTyped, PTL DEF HomeSpec

-----------------------------------------------------------------------------
(***************************************************************************)
(* What the claim gives while no lease lapses under a live call            *)
(***************************************************************************)
\* Every call that has taken the claim still has it, so no two calls are past
\* their TryLock; and a Wake that has verified the obligation keeps it.
Held == \A c \in Requests : pc[c] \notin PreClaim => claim = c
Verified == \A c \in Requests : pc[c] \in VerifiedSteps => ~Awake
NoStall == stalls = 0
ClaimInv == HomeTypeOK /\ Held /\ Verified

LEMMA InitClaim == HomeInit => ClaimInv
  BY SleepInitTyped DEF HomeInit, ClaimInv, Held, Verified, PreClaim, VerifiedSteps

LEMMA VerifiedHolds == VerifiedSteps \cap PreClaim = {}
  BY DEF VerifiedSteps, PreClaim

\* A call that holds the claim moves on: nobody else is past its TryLock.
LEMMA HolderMoves ==
  ASSUME ClaimInv, NEW c \in Requests, pc[c] \notin PreClaim, NEW step \in Steps,
         HomeGoto(c, step), UNCHANGED claim, step \in VerifiedSteps => ~Awake'
  PROVE  Held' /\ Verified'
  <1>1. claim = c /\ \A d \in Requests : d # c => pc[d] \in PreClaim
    BY DEF ClaimInv, Held
  <1>2. pc'[c] = step /\ \A d \in Requests : d # c => pc'[d] = pc[d]
    BY DEF ClaimInv, HomeTypeOK, HomeGoto
  <1>3. QED
    BY <1>1, <1>2, VerifiedHolds DEF Held, Verified

\* A call that does not hold the claim yet moves on and changes nothing.
LEMMA EarlyMoves ==
  ASSUME ClaimInv, NEW c \in Requests, NEW step \in PreClaim,
         HomeGoto(c, step), UNCHANGED <<claim, pendingWake, asleep>>
  PROVE  Held' /\ Verified'
  <1>1. pc'[c] = step /\ \A d \in Requests : d # c => pc'[d] = pc[d]
    BY DEF ClaimInv, HomeTypeOK, HomeGoto
  <1>2. Awake' = Awake
    BY DEF Awake
  <1>3. QED
    BY <1>1, <1>2, VerifiedHolds DEF ClaimInv, Held, Verified

\* A call that holds the claim gives it up and is done.
LEMMA HolderLeaves ==
  ASSUME ClaimInv, NEW c \in Requests, HomeGoto(c, "idle"),
         claim' = claim \/ claim = c, UNCHANGED <<pendingWake, asleep>>
  PROVE  Held' /\ Verified'
  <1>1. pc'[c] = "idle" /\ \A d \in Requests : d # c => pc'[d] = pc[d]
    BY DEF ClaimInv, HomeTypeOK, HomeGoto
  <1>2. Awake' = Awake
    BY DEF Awake
  <1>3. QED
    BY <1>1, <1>2, VerifiedHolds DEF ClaimInv, Held, Verified, PreClaim

\* The claim is taken only when no call holds it.
LEMMA ClaimTaken ==
  ASSUME ClaimInv, NEW c \in Requests, NEW at \in PreClaim \ {"idle"},
         NEW next \in Steps \ VerifiedSteps, TryClaim(c, at, next)
  PROVE  Held' /\ Verified'
  <1>1. CASE claim # NoOne
    BY <1>1, EarlyMoves DEF TryClaim, sql, PreClaim
  <1>2. CASE claim = NoOne
    <2>1. \A d \in Requests : pc[d] \in PreClaim
      BY <1>2 DEF ClaimInv, Held
    <2>2. \A d \in Requests : d # c => pc'[d] = pc[d]
      BY DEF ClaimInv, HomeTypeOK, TryClaim, Fails, HomeGoto
    <2>3. \/ claim' = c /\ pc'[c] = next
          \/ pc'[c] = "idle"
      BY <1>2, ErrorTarget DEF ClaimInv, HomeTypeOK, TryClaim, Fails, HomeGoto
    <2>4. QED
      BY <2>1, <2>2, <2>3, VerifiedHolds DEF Held, Verified, PreClaim
  <1>3. QED
    BY <1>1, <1>2

\* The ways a step of the holder ends.
LEMMA HolderDone ==
  ASSUME ClaimInv, NEW c \in Requests, pc[c] \notin PreClaim, NEW next \in Steps,
         Done(c, next), UNCHANGED claim, next \in VerifiedSteps => ~Awake'
  PROVE  Held' /\ Verified'
  <1>1. OnError(pc[c]) \in Steps \ VerifiedSteps
    BY ErrorTarget DEF ClaimInv, HomeTypeOK
  <1>2. QED
    BY <1>1, HolderMoves DEF Done, Fails

LEMMA SleepKeepsClaim ==
  ASSUME ClaimInv, NEW c \in Requests, SleepStep(c)
  PROVE  Held' /\ Verified'
  <1> USE DEF sql, timers, Keep
  <1>0. \A step \in SleepSteps \cup UndoSteps \cup {"release"} :
           step \in Steps /\ step \notin VerifiedSteps
    BY DEF Steps, SleepSteps, UndoSteps, VerifiedSteps
  <1>1. CASE SleepCheck(c)
    BY <1>1, EarlyMoves DEF SleepCheck, PreClaim
  <1>2. CASE TryClaim(c, "s.claim", "s.recheck")
    BY <1>0, <1>2, ClaimTaken DEF PreClaim, SleepSteps
  <1>3. ASSUME NEW at \in SleepSteps \ PreClaim, NEW next \in SleepSteps, NEW allowed,
               EnterTx(c, at, allowed, next) \/ CheckOwner(c, at, next)
        PROVE  Held' /\ Verified'
    <2>1. OnError(at) \in Steps \ VerifiedSteps
      BY <1>0, ErrorTarget
    <2>2. \E step \in Steps \ VerifiedSteps : HomeGoto(c, step)
      BY <1>0, <1>3, <2>1 DEF EnterTx, CheckOwner
    <2>3. QED
      BY <1>3, <2>2, HolderMoves DEF EnterTx, CheckOwner
  <1>4. CASE CommitMark(c)
    BY <1>0, <1>4, HolderDone DEF CommitMark, LeaveTx, SleepSteps, PreClaim
  <1>5. CASE SetSleepTimer(c)
    BY <1>0, <1>5, HolderDone, HolderMoves, ErrorTarget
    DEF SetSleepTimer, SleepSteps, PreClaim
  <1>6. CASE SetAsleep(c)
    BY <1>0, <1>6, HolderDone, HolderMoves, ErrorTarget DEF SetAsleep, SleepSteps, PreClaim
  <1>7. CASE CommitJob(c)
    BY <1>0, <1>7, HolderDone DEF CommitJob, LeaveTx, SleepSteps, PreClaim
  <1>8. CASE SleepRecheck(c) \/ CheckBeforeJob(c) \/ SleepReturns(c)
    <2>1. \E step \in SleepSteps \cup UndoSteps \cup {"release"} : HomeGoto(c, step)
      BY <1>8 DEF SleepRecheck, CheckBeforeJob, SleepReturns, SleepSteps, UndoSteps
    <2>2. QED
      BY <1>0, <1>8, <2>1, HolderMoves DEF SleepRecheck, CheckBeforeJob, SleepReturns, PreClaim
  <1>9. {"s.mark", "s.markCommit", "s.ownTimer", "s.setTimer", "s.ownAsleep", "s.setAsleep",
         "s.job", "s.jobCommit"} \subseteq SleepSteps \ PreClaim
    BY DEF SleepSteps, PreClaim
  <1>10. QED
    BY <1>1, <1>2, <1>3, <1>4, <1>5, <1>6, <1>7, <1>8, <1>9 DEF SleepStep

LEMMA UndoKeepsClaim ==
  ASSUME ClaimInv, NEW c \in Requests, UndoStep(c)
  PROVE  Held' /\ Verified'
  <1> USE DEF sql, timers, Keep
  <1>0. \A step \in UndoSteps \cup {"release"} :
           step \in Steps /\ step \notin VerifiedSteps /\ step \notin PreClaim
    BY DEF Steps, UndoSteps, VerifiedSteps, PreClaim
  <1>1. CASE UndoAsleep(c)
    BY <1>0, <1>1, HolderDone DEF UndoAsleep, UndoSteps
  <1>2. CASE UndoSleep(c)
    BY <1>0, <1>2, HolderDone DEF UndoSleep, UndoSteps
  <1>3. CASE EnterTx(c, "u.flag", UndoAllowed, "u.flagCommit")
    <2>1. OnError("u.flag") = "release"
      BY DEF OnError
    <2>2. QED
      BY <1>0, <1>3, <2>1, HolderMoves DEF EnterTx, UndoSteps
  <1>4. CASE CommitUndo(c)
    BY <1>0, <1>4, HolderDone DEF CommitUndo, LeaveTx, UndoSteps
  <1>5. QED
    BY <1>1, <1>2, <1>3, <1>4 DEF UndoStep

LEMMA WakeKeepsClaim ==
  ASSUME ClaimInv, NEW c \in Requests, WakeStep(c)
  PROVE  Held' /\ Verified'
  <1> USE DEF sql, timers, Keep
  <1>0. WakeSteps \cup {"release"} \subseteq Steps
    BY DEF Steps
  <1>1. ASSUME NEW at \in WakeSteps \ PreClaim, NEW next \in WakeSteps, NEW allowed,
               EnterTx(c, at, allowed, next) \/ CheckOwner(c, at, next),
               at \in VerifiedSteps
        PROVE  Held' /\ Verified'
    <2>1. OnError(at) \in Steps \ VerifiedSteps
      BY <1>0, ErrorTarget
    <2>2. ~Awake /\ Awake' = Awake
      BY <1>1 DEF ClaimInv, Verified, Awake, EnterTx, CheckOwner
    <2>3. \E step \in Steps : HomeGoto(c, step)
      BY <1>0, <1>1, <2>1 DEF EnterTx, CheckOwner
    <2>4. QED
      BY <1>1, <2>2, <2>3, HolderMoves DEF EnterTx, CheckOwner
  <1>2. CASE WakeCheck(c, "w.check", "w.pending") \/ WakePending(c)
    BY <1>2, EarlyMoves DEF WakeCheck, WakePending, OnError, PreClaim
  <1>3. CASE TryClaim(c, "w.claim", "w.recheck")
    BY <1>0, <1>3, ClaimTaken DEF PreClaim, WakeSteps, VerifiedSteps
  <1>4. CASE WakeCheck(c, "w.recheck", "w.reverify")
    <2>1. OnError("w.recheck") = "release"
      BY DEF OnError
    <2>2. {"w.reverify", "release"} \subseteq Steps \ VerifiedSteps
      BY DEF Steps, WakeSteps, VerifiedSteps
    <2>3. QED
      BY <1>4, <2>1, <2>2, HolderMoves DEF WakeCheck, PreClaim
  <1>5. CASE WakeReverify(c)
    <2>1. "w.recover" \in Steps /\ "release" \in Steps \ VerifiedSteps
      BY DEF Steps, WakeSteps, VerifiedSteps
    <2>2. pc[c] \notin PreClaim /\ Awake' = Awake
      BY <1>5 DEF WakeReverify, PreClaim, Awake
    <2>3. QED
      BY <1>5, <2>1, <2>2, HolderMoves DEF WakeReverify
  <1>6. ASSUME pc[c] \in VerifiedSteps, NEW next \in Steps, Done(c, next),
               UNCHANGED <<claim, pendingWake, asleep>>
        PROVE  Held' /\ Verified'
    <2>1. ~Awake /\ Awake' = Awake
      BY <1>6 DEF ClaimInv, Verified, Awake
    <2>2. QED
      BY <1>6, <2>1, HolderDone, VerifiedHolds
  <1>7. CASE CommitVitality(c) \/ RunHook(c)
    BY <1>0, <1>6, <1>7
    DEF CommitVitality, RunHook, AfterHook, LeaveTx, WakeSteps, VerifiedSteps
  <1>8. ASSUME NEW at \in VerifiedSteps, NEW item, NEW next \in WakeSteps,
               ResetWithClaim(c, at, item, next)
        PROVE  Held' /\ Verified'
    <2>1. CASE Done(c, next)
      BY <1>0, <1>6, <1>8, <2>1 DEF ResetWithClaim
    <2>2. CASE HomeGoto(c, OnError(at))
      <3>1. at \in Steps
        BY DEF VerifiedSteps, Steps, WakeSteps
      <3>2. OnError(at) \in Steps \ VerifiedSteps
        BY <3>1, ErrorTarget
      <3>3. QED
        BY <1>8, <2>2, <3>2, HolderMoves, VerifiedHolds DEF ResetWithClaim
    <2>3. QED
      BY <1>8, <2>1, <2>2 DEF ResetWithClaim
  <1>9. CASE CheckBeforeDungeon(c)
    <2>1. "w.dungeon" \in Steps /\ "release" \in Steps \ VerifiedSteps
      BY DEF Steps, WakeSteps, VerifiedSteps
    <2>2. pc[c] \in VerifiedSteps \ PreClaim
      BY <1>9 DEF CheckBeforeDungeon, VerifiedSteps, PreClaim
    <2>3. ~Awake /\ Awake' = Awake
      BY <1>9, <2>2 DEF CheckBeforeDungeon, ClaimInv, Verified, Awake
    <2>4. QED
      BY <1>9, <2>1, <2>2, <2>3, HolderMoves DEF CheckBeforeDungeon
  <1>10. {"w.release", "release"} \subseteq Steps \ VerifiedSteps
    BY DEF Steps, WakeSteps, VerifiedSteps
  <1>11. CASE CommitFinal(c)
    BY <1>10, <1>11, HolderDone DEF CommitFinal, LeaveTx, PreClaim
  <1>12. CASE ReleaseAsleep(c)
    BY <1>10, <1>12, HolderDone, HolderMoves DEF ReleaseAsleep, PreClaim
  <1>13. AfterDungeon(c) \in WakeSteps
    BY DEF AfterDungeon, WakeSteps
  <1>14. /\ {"w.recover", "w.recoverCommit", "w.ownHook", "w.hook", "w.ownCostume", "w.costume",
             "w.ownDungeon", "w.dungeon", "w.final", "w.finalCommit"} \subseteq WakeSteps \ PreClaim
         /\ {"w.recover", "w.ownHook", "w.ownCostume", "w.costume", "w.dungeon", "w.final"}
              \subseteq VerifiedSteps
    BY DEF WakeSteps, PreClaim, VerifiedSteps
  <1>15. QED
    BY <1>1, <1>2, <1>3, <1>4, <1>5, <1>7, <1>8, <1>9, <1>11, <1>12, <1>13, <1>14 DEF WakeStep

\* Every step keeps the claim's meaning, unless a lease lapses under a call.
LEMMA NextClaim ==
  ASSUME ClaimInv, [HomeNext]_homeVars, NoStall'
  PROVE  ClaimInv'
  <1>1. HomeTypeOK'
    BY NextTyped DEF ClaimInv
  <1>2. ASSUME NEW c \in Requests, BeginSleep(c) \/ BeginWake(c) \/ CallStep(c) \/ StepFails(c)
                                  \/ Heartbeat(c) \/ Crash(c)
        PROVE  Held' /\ Verified'
    <2>1. CASE BeginSleep(c) \/ BeginWake(c)
      BY <2>1, EarlyMoves DEF BeginSleep, BeginWake, PreClaim, sql, timers
    <2>2. CASE SleepStep(c) \/ UndoStep(c) \/ WakeStep(c)
      BY <2>2, SleepKeepsClaim, UndoKeepsClaim, WakeKeepsClaim
    <2>3. CASE ReleaseClaim(c)
      <3>1. claim = c
        BY <2>3 DEF ReleaseClaim, ClaimInv, Held, PreClaim
      <3>2. QED
        BY <2>3, <3>1, HolderLeaves DEF ReleaseClaim, sql
    <2>4. CASE StepFails(c)
      <3>1. /\ pc[c] \in Steps \ {"idle"}
            /\ HomeGoto(c, OnError(pc[c]))
            /\ UNCHANGED <<claim, pendingWake, asleep>>
        BY <2>4 DEF StepFails, Fails, ClaimInv, HomeTypeOK, timers
      <3>2. CASE pc[c] \in PreClaim
        BY <3>1, <3>2, ErrorTarget, EarlyMoves DEF PreClaim
      <3>3. CASE pc[c] \notin PreClaim
        BY <3>1, <3>3, ErrorTarget, HolderMoves
      <3>4. QED
        BY <3>2, <3>3
    <2>5. CASE Heartbeat(c)
      BY <2>5 DEF Heartbeat, ClaimInv, Held, Verified, Awake, sql, timers
    <2>6. CASE Crash(c)
      BY <2>6, HolderLeaves DEF Crash
    <2>7. QED
      BY <1>2, <2>1, <2>2, <2>3, <2>4, <2>5, <2>6 DEF CallStep
  <1>3. CASE ClaimLapses
    <2>1. claim = Orphan
      BY <1>3 DEF ClaimLapses, ClaimInv, HomeTypeOK, NoStall
    <2>2. QED
      BY <1>1, <1>3, <2>1 DEF ClaimLapses, ClaimInv, Held, Verified, Awake, sql, calls,
                        HomeAssumption
  <1>4. CASE SleepExpires \/ Play \/ Rescue
    BY <1>1, <1>4 DEF SleepExpires, Play, Rescue, ClaimInv, Held, Verified, Awake, sql, timers, calls
  <1>5. CASE UNCHANGED homeVars
    BY <1>1, <1>5 DEF homeVars, sql, timers, calls, ClaimInv, Held, Verified, Awake
  <1>6. QED
    BY <1>1, <1>2, <1>3, <1>4, <1>5 DEF HomeNext, ClaimInv

\* Lapses are counted for good: none now means none before.
LEMMA StallsStay ==
  ASSUME HomeTypeOK, [HomeNext]_homeVars, NoStall'
  PROVE  NoStall
  <1> USE DEF bounds
  <1>1. stalls' = stalls \/ stalls' = stalls + 1
    <2>1. ASSUME NEW c \in Requests, NEW next, Done(c, next)
          PROVE  stalls' = stalls
      BY <2>1 DEF Done, Fails
    <2>2. ASSUME NEW c \in Requests, SleepStep(c) \/ UndoStep(c)
          PROVE  stalls' = stalls
      BY <2>1, <2>2 DEF SleepStep, SleepCheck, TryClaim, SleepRecheck, EnterTx, CommitMark,
                   CheckOwner, SetSleepTimer, SetAsleep, CheckBeforeJob, CommitJob,
                   SleepReturns, UndoStep, UndoAsleep, UndoSleep, CommitUndo, LeaveTx, Fails
    <2>3. ASSUME NEW c \in Requests, WakeStep(c)
          PROVE  stalls' = stalls
      BY <2>1, <2>3 DEF WakeStep, WakeCheck, WakePending, TryClaim, WakeReverify, EnterTx,
                   CommitVitality, CheckOwner, RunHook, ResetWithClaim, CheckBeforeDungeon,
                   CommitFinal, ReleaseAsleep, LeaveTx, Fails
    <2>4. ASSUME NEW c \in Requests, BeginSleep(c) \/ BeginWake(c) \/ ReleaseClaim(c)
                                    \/ StepFails(c) \/ Heartbeat(c) \/ Crash(c)
          PROVE  stalls' = stalls
      BY <2>4 DEF BeginSleep, BeginWake, ReleaseClaim, StepFails, Fails, Heartbeat, Crash
    <2>5. CASE ClaimLapses \/ SleepExpires \/ Play \/ Rescue \/ UNCHANGED homeVars
      BY <2>5 DEF ClaimLapses, SleepExpires, Play, Rescue, homeVars
    <2>6. QED
      BY <2>2, <2>3, <2>4, <2>5 DEF HomeNext, CallStep
  <1>2. QED
    BY <1>1 DEF NoStall, HomeTypeOK

\* The inductive invariant: until a lease lapses, the claim means what it says.
UnlessStalled == HomeTypeOK /\ (NoStall => ClaimInv)

LEMMA UnlessStalledStays == UnlessStalled /\ [HomeNext]_homeVars => UnlessStalled'
  <1> SUFFICES ASSUME UnlessStalled, [HomeNext]_homeVars
               PROVE  UnlessStalled'
    OBVIOUS
  <1>1. HomeTypeOK'
    BY NextTyped DEF UnlessStalled
  <1>2. ASSUME NoStall'
        PROVE  ClaimInv'
    BY <1>2, StallsStay, NextClaim DEF UnlessStalled
  <1>3. QED
    BY <1>1, <1>2 DEF UnlessStalled

\* The obligation that a Wake has verified under its claim stays until that
\* Wake ends it, whatever fails, until a lease lapses under a live call.
THEOREM VerifiedObligationStays == HomeSpec => []VerifiedWakeOwed
  <1>1. HomeInit => UnlessStalled
    BY SleepInitTyped, InitClaim DEF UnlessStalled
  <1>2. UnlessStalled => VerifiedWakeOwed
    BY DEF UnlessStalled, ClaimInv, Verified, NoStall, VerifiedWakeOwed
  <1>3. QED
    BY <1>1, UnlessStalledStays, <1>2, PTL DEF HomeSpec

\* A step that restores something is one of a Wake that has verified the
\* obligation.
LEMMA OnlyVerifiedRestore ==
  ASSUME ClaimInv, [HomeNext]_homeVars, used \ used' # {}
  PROVE  ~Awake
  <1> USE DEF sql
  <1>1. ASSUME NEW c \in Requests, SleepStep(c) \/ UndoStep(c)
        PROVE  used' = used
    BY <1>1 DEF SleepStep, SleepCheck, TryClaim, SleepRecheck, EnterTx, CommitMark, CheckOwner,
                SetSleepTimer, SetAsleep, CheckBeforeJob, CommitJob, SleepReturns, UndoStep,
                UndoAsleep, UndoSleep, CommitUndo
  <1>2. ASSUME NEW c \in Requests, WakeStep(c), used' # used
        PROVE  pc[c] \in VerifiedSteps
    BY <1>2 DEF WakeStep, WakeCheck, WakePending, TryClaim, WakeReverify, EnterTx,
                CommitVitality, CheckOwner, RunHook, ResetWithClaim, CheckBeforeDungeon,
                CommitFinal, ReleaseAsleep, VerifiedSteps
  <1>3. ASSUME NEW c \in Requests, BeginSleep(c) \/ BeginWake(c) \/ ReleaseClaim(c)
                                  \/ StepFails(c) \/ Heartbeat(c) \/ Crash(c)
        PROVE  used' = used
    BY <1>3 DEF BeginSleep, BeginWake, ReleaseClaim, StepFails, Heartbeat, Crash
  <1>4. CASE Play
    BY <1>4 DEF Play, ClaimInv, HomeTypeOK
  <1>5. CASE ClaimLapses \/ SleepExpires \/ Rescue \/ UNCHANGED homeVars
    BY <1>5 DEF ClaimLapses, SleepExpires, Rescue, homeVars
  <1>6. QED
    BY <1>1, <1>2, <1>3, <1>4, <1>5 DEF HomeNext, CallStep, ClaimInv, Verified

\* Nothing is restored for a character that owes no recovery, until a lease
\* lapses under a live call.
THEOREM RecoveryOwed == HomeSpec => RecoveryOnlyWhenOwed
  <1>1. HomeInit => UnlessStalled
    BY SleepInitTyped, InitClaim DEF UnlessStalled
  <1>2. UnlessStalled /\ [HomeNext]_homeVars => [stalls = 0 /\ used \ used' # {} => ~Awake]_homeVars
    BY OnlyVerifiedRestore DEF UnlessStalled, NoStall
  <1>3. QED
    BY <1>1, UnlessStalledStays, <1>2, PTL DEF HomeSpec, RecoveryOnlyWhenOwed

-----------------------------------------------------------------------------
(***************************************************************************)
(* What the claim gives although leases lapse                              *)
(***************************************************************************)
\* A call that holds the claim has held it since its TryLock, so what it has
\* found and done since then is still so; one that has lost it is let into no
\* transaction any more.  Only the row lock lets it finish the one it is in,
\* and keeps the others out of theirs until then.
Transactions == {"s.markCommit", "s.jobCommit", "u.flagCommit", "w.recoverCommit", "w.finalCommit"}

RowHeld == \A c \in Requests : pc[c] \in Transactions <=> row = c

\* The steps of Sleep after its mark, without and with those of its failure.
Marked == {"s.ownTimer", "s.setTimer", "s.ownAsleep", "s.setAsleep", "s.ownJob", "s.job",
           "s.jobCommit", "s.ownDone"}
Starting == Marked \cup UndoSteps \cup {"s.markCommit"}

\* A call at these has been in a transaction since it took the claim.
PastRow == Starting \cup {"w.recoverCommit", "w.ownHook", "w.hook", "w.ownCostume", "w.costume",
                          "w.ownDungeon", "w.dungeon", "w.final", "w.finalCommit", "w.release"}

HookItems(n) == {SqlHooks[i] : i \in 1..n}

\* What a Wake has given back by a step.
GivenBack(step, n) ==
    CASE step \in {"w.ownHook", "w.hook"} -> {"tired"} \cup HookItems(n - 1)
      [] step \in {"w.ownCostume", "w.costume"} -> {"tired"} \cup HookItems(Len(SqlHooks))
      [] step \in {"w.ownDungeon", "w.dungeon"} -> {"tired", "costume"} \cup HookItems(Len(SqlHooks))
      [] step \in {"w.final", "w.finalCommit", "w.release"} -> Restored
      [] OTHER -> {}

FirstHook == \A c \in Requests :
    pc[c] \in PreClaim \cup SleepSteps \cup UndoSteps
                \cup {"w.recheck", "w.reverify", "w.recover", "w.recoverCommit"} => hook[c] = 1

ClaimantOK(c) ==
    /\ pc[c] \notin PreClaim
    /\ pc[c] \in PastRow => \A d \in Requests : row = d => d = c
    /\ pc[c] = "s.mark" => ~asleep
    /\ pc[c] = "s.markCommit" => Awake
    /\ pc[c] \in Starting => ~owed
    /\ pc[c] \in Marked => pendingWake
    /\ pc[c] \in Marked \ {"s.job", "s.jobCommit", "s.ownDone"} /\ ~seen[c] => ~tempJob
    /\ pc[c] = "s.ownDone" => ~tempJob
    /\ owed => used \cap GivenBack(pc[c], hook[c]) = {}

\* A call in the last transaction of a Wake, or of a compensation.
LastCommits == \A c \in Requests :
    /\ pc[c] = "u.flagCommit" => ~owed
    /\ pc[c] = "w.finalCommit" => (owed => used = {})

OwedInv == owed => ~Awake /\ ~tempJob

OwedIInv ==
    /\ HomeTypeOK /\ RowHeld /\ FirstHook /\ LastCommits /\ OwedInv
    /\ \A c \in Requests : claim = c => ClaimantOK(c)

\* What a step of one call may do to what the others rely on.
Bystanders(c) ==
    /\ \A d \in Requests : d # c => pc'[d] = pc[d] /\ seen'[d] = seen[d] /\ hook'[d] = hook[d]
    /\ \/ row' = row
       \/ row = c /\ row' = NoOne
       \/ row = NoOne /\ row' = c /\ claim = c
    /\ claim' \in {claim, NoOne, Orphan, c} /\ (claim' = c => claim \in {c, NoOne})
    /\ asleep' = asleep \/ claim = c
    /\ pendingWake' = pendingWake \/ row = c
    /\ tempJob' => tempJob
    /\ used' \subseteq used
    /\ owed' => owed \/ (claim = c /\ pc[c] \in {"s.ownJob", "s.ownDone"})

OwnOK(c) ==
    /\ claim = c => ClaimantOK(c)
    /\ pc[c] \in Transactions <=> row = c
    /\ pc[c] \in PreClaim \cup SleepSteps \cup UndoSteps
                  \cup {"w.recheck", "w.reverify", "w.recover", "w.recoverCommit"} => hook[c] = 1
    /\ pc[c] = "u.flagCommit" => ~owed
    /\ pc[c] = "w.finalCommit" => (owed => used = {})

\* The invariant is that of the calls, one by one.
LEMMA EachCallOK ==
  /\ OwedIInv <=> HomeTypeOK /\ OwedInv /\ \A c \in Requests : OwnOK(c)
  /\ OwedIInv' <=> HomeTypeOK' /\ OwedInv' /\ \A c \in Requests : OwnOK(c)'
  BY DEF OwedIInv, OwnOK, RowHeld, FirstHook, LastCommits

LEMMA OthersKeep ==
  ASSUME OwedIInv, HomeTypeOK', NEW c \in Requests, Bystanders(c), NEW d \in Requests, d # c
  PROVE  OwnOK(d)'
  <1>1. pc'[d] = pc[d] /\ seen'[d] = seen[d] /\ hook'[d] = hook[d] /\ NoOne # d /\ Orphan # d /\ NoOne # c
    BY DEF Bystanders
  <1>2. OwnOK(d) /\ OwnOK(c) /\ OwedInv
    BY EachCallOK
  <1>3. pc[d] \in Transactions => (owed' => owed)
    BY <1>2 DEF Bystanders, OwnOK, ClaimantOK, PastRow, Starting, Marked
  <1>4. claim' = d => claim = d /\ claim # c
    BY <1>1 DEF Bystanders
  <1>5. claim' = d => ClaimantOK(d)'
    <2> SUFFICES ASSUME claim' = d PROVE ClaimantOK(d)'
      OBVIOUS
    <2>1. claim = d /\ claim # c /\ ClaimantOK(d)
      BY <1>2, <1>4 DEF OwnOK
    <2>2. /\ row' = row \/ row' = NoOne
          /\ asleep' = asleep /\ (owed' => owed) /\ (pendingWake' = pendingWake \/ row = c)
      BY <2>1 DEF Bystanders
    <2>3. pc[d] \in PastRow => /\ pendingWake' = pendingWake
                               /\ \A e \in Requests : row' = e => e = d
      BY <2>1, <2>2 DEF ClaimantOK
    <2>4. owed' => used' \cap GivenBack(pc'[d], hook'[d]) = {}
      BY <1>1, <2>1, <2>2 DEF ClaimantOK, Bystanders
    <2>5. "s.markCommit" \in PastRow /\ Marked \subseteq PastRow
      BY DEF PastRow, Starting
    <2>6. tempJob' => tempJob
      BY DEF Bystanders
    <2> HIDE DEF PastRow, Marked, Starting, PreClaim, GivenBack
    <2> QED
      BY <1>1, <2>1, <2>2, <2>3, <2>4, <2>5, <2>6 DEF ClaimantOK, Awake
  <1>6. row' = d <=> row = d
    BY <1>1 DEF Bystanders
  <1>7. used' \subseteq used
    BY DEF Bystanders
  <1>8. "u.flagCommit" \in Transactions /\ "w.finalCommit" \in Transactions
    BY DEF Transactions
  <1> QED
    BY <1>1, <1>2, <1>3, <1>5, <1>6, <1>7, <1>8 DEF OwnOK

\* Which steps those are.
LEMMA StepsOfOthers ==
  ASSUME HomeTypeOK, NEW c \in Requests,
         BeginSleep(c) \/ BeginWake(c) \/ CallStep(c) \/ StepFails(c) \/ Heartbeat(c) \/ Crash(c)
  PROVE  Bystanders(c)
  <1> USE DEF sql, timers, Keep, Settle, Bystanders, HomeTypeOK
  <1>1. ASSUME NEW next, Done(c, next)
        PROVE  \E step : HomeGoto(c, step)
    BY <1>1 DEF Done, Fails
  <1>2. ASSUME NEW at, NEW next, NEW allowed, EnterTx(c, at, allowed, next)
        PROVE  Bystanders(c)
    BY <1>2 DEF EnterTx, HomeGoto, Owns
  <1>3. ASSUME NEW at, NEW next, CheckOwner(c, at, next) \/ WakeCheck(c, at, next)
        PROVE  Bystanders(c)
    BY <1>3 DEF CheckOwner, WakeCheck, HomeGoto
  <1>4. ASSUME NEW at, NEW next, TryClaim(c, at, next)
        PROVE  Bystanders(c)
    BY <1>4 DEF TryClaim, Fails, HomeGoto
  <1>5. CASE SleepStep(c)
    <2>1. CASE CommitMark(c) \/ CommitJob(c)
      BY <1>1, <2>1 DEF CommitMark, CommitJob, LeaveTx, HomeGoto
    <2>2. CASE SleepCheck(c) \/ SleepRecheck(c) \/ CheckBeforeJob(c) \/ SleepReturns(c)
      BY <2>2 DEF SleepCheck, SleepRecheck, CheckBeforeJob, SleepReturns, HomeGoto, Owns
    <2>3. CASE SetSleepTimer(c) \/ SetAsleep(c)
      BY <1>1, <2>3 DEF SetSleepTimer, SetAsleep, HomeGoto, Owns
    <2> QED
      BY <1>2, <1>3, <1>4, <1>5, <2>1, <2>2, <2>3 DEF SleepStep
  <1>6. CASE UndoStep(c)
    <2>1. CASE UndoAsleep(c) \/ UndoSleep(c)
      BY <1>1, <2>1 DEF UndoAsleep, UndoSleep, HomeGoto
    <2>2. CASE CommitUndo(c)
      BY <1>1, <2>2 DEF CommitUndo, LeaveTx, HomeGoto
    <2> QED
      BY <1>2, <1>6, <2>1, <2>2 DEF UndoStep
  <1>7. CASE WakeStep(c)
    <2>1. CASE WakePending(c) \/ WakeReverify(c) \/ CheckBeforeDungeon(c)
      BY <2>1 DEF WakePending, WakeReverify, CheckBeforeDungeon, HomeGoto
    <2>2. CASE CommitVitality(c) \/ CommitFinal(c)
      BY <1>1, <2>2 DEF CommitVitality, CommitFinal, LeaveTx, HomeGoto
    <2>3. CASE RunHook(c) \/ ReleaseAsleep(c)
      BY <1>1, <2>3 DEF RunHook, ReleaseAsleep, HomeGoto
    <2>4. ASSUME NEW at, NEW item, NEW next, ResetWithClaim(c, at, item, next)
          PROVE  Bystanders(c)
      BY <1>1, <2>4 DEF ResetWithClaim, HomeGoto
    <2> QED
      BY <1>2, <1>3, <1>4, <1>7, <2>1, <2>2, <2>3, <2>4 DEF WakeStep
  <1>8. CASE ReleaseClaim(c) \/ BeginSleep(c) \/ BeginWake(c)
    BY <1>8 DEF ReleaseClaim, BeginSleep, BeginWake, Forget, HomeGoto
  <1>9. CASE StepFails(c) \/ Crash(c) \/ Heartbeat(c)
    BY <1>9 DEF StepFails, Crash, Heartbeat, Fails, Forget, HomeGoto
  <1> QED
    BY <1>5, <1>6, <1>7, <1>8, <1>9 DEF CallStep

\* Where a step of a call fails.
LEMMA FailureSteps ==
  ASSUME NEW step \in Steps
  PROVE  /\ step \in PreClaim \ {"idle"} => OnError(step) = "idle"
         /\ step \notin PreClaim \cup Marked \cup UndoSteps => OnError(step) = "release"
         /\ step \in Starting /\ OnError(step) # "release" =>
               step \in Marked \cup UndoSteps /\ OnError(step) \in {"u.asleep", "u.sleep", "u.flag"}
         /\ step \in Transactions \ {"s.jobCommit"} => OnError(step) = "release"
  BY DEF Steps, SleepSteps, UndoSteps, WakeSteps, OnError, PreClaim, Marked, Starting, Transactions

\* A call that is done, or whose step has failed, has little to rely on.
LEMMA StepFailed ==
  ASSUME OwedIInv, NEW c \in Requests, pc'[c] = OnError(pc[c]) \/ pc'[c] = "release", pc[c] # "idle", pc[c] # "release",
         hook' = hook, row' # c, (claim' = c) => (claim = c), owed' => owed,
         claim = c /\ pc'[c] # "release" => row' \in {row, NoOne}
  PROVE  OwnOK(c)'
  <1>1. pc[c] \in Steps
    BY DEF OwedIInv, HomeTypeOK
  <1>2. OwnOK(c)
    BY EachCallOK
  <1>3. CASE pc[c] \in PreClaim
    <2>1. pc'[c] \in {"idle", "release"} /\ claim # c
      BY <1>1, <1>2, <1>3, FailureSteps DEF OwnOK, ClaimantOK
    <2>2. hook'[c] = 1
      BY <1>2, <1>3 DEF OwnOK
    <2> QED
      BY <2>1, <2>2 DEF OwnOK, Transactions
  <1>4. CASE pc'[c] = "release"
    BY <1>4 DEF OwnOK, ClaimantOK, Transactions, PreClaim, SleepSteps, UndoSteps, WakeSteps,
                PastRow, Starting, Marked, GivenBack
  <1>5. CASE pc[c] \notin PreClaim /\ pc'[c] # "release"
    <2>1. pc[c] \in Starting /\ pc[c] \in Marked \cup UndoSteps /\ pc'[c] \in {"u.asleep", "u.sleep", "u.flag"}
      BY <1>1, <1>5, FailureSteps DEF Starting
    <2>2. hook'[c] = 1
      BY <1>2, <2>1 DEF OwnOK, Marked, SleepSteps
    <2>3. claim = c => ~owed' /\ \A d \in Requests : row' = d => d = c
      BY <1>2, <1>5, <2>1 DEF OwnOK, ClaimantOK, PastRow
    <2> QED
      BY <2>1, <2>2, <2>3
      DEF OwnOK, ClaimantOK, Transactions, PreClaim, UndoSteps, Marked, GivenBack
  <1> QED
    BY <1>3, <1>4, <1>5

LEMMA SleepOwn ==
  ASSUME OwedIInv, HomeTypeOK', NEW c \in Requests, SleepStep(c)
  PROVE  OwnOK(c)' /\ OwedInv'
  <1> USE DEF sql, timers, Keep, HomeGoto
  <1>1. OwnOK(c) /\ OwedInv /\ pc \in [Requests -> Steps] /\ c # NoOne /\ c # Orphan
    BY EachCallOK DEF OwedIInv, HomeTypeOK
  <1>2. \A d \in Requests : pc[d] \in Transactions => row = d
    BY DEF OwedIInv, RowHeld
  <1>3. CASE SleepCheck(c)
    BY <1>1, <1>3 DEF SleepCheck, OwnOK, ClaimantOK, OwedInv, Awake, PreClaim, SleepSteps, Transactions
  <1>4. CASE TryClaim(c, "s.claim", "s.recheck")
    <2>1. pc[c] = "s.claim" /\ row # c /\ hook[c] = 1 /\ pc'[c] \in {"idle", "s.recheck"} /\ hook' = hook
          /\ row' = row /\ owed' = owed /\ (pc'[c] = "idle" => claim' # c)
      BY <1>1, <1>4 DEF TryClaim, Fails, OwnOK, ClaimantOK, PreClaim, SleepSteps, Transactions, OnError
    <2>2. OwedInv'
      BY <1>1, <1>4 DEF TryClaim, OwedInv, Awake
    <2> QED
      BY <2>1, <2>2 DEF OwnOK, ClaimantOK, PreClaim, Transactions, PastRow, Starting, Marked, UndoSteps, GivenBack
  <1>5. CASE SleepRecheck(c)
    BY <1>1, <1>5 DEF SleepRecheck, OwnOK, ClaimantOK, OwedInv, Awake, PreClaim, SleepSteps, Transactions,
                      PastRow, Starting, Marked, UndoSteps, GivenBack
  <1>6. ASSUME NEW at \in {"s.mark", "s.job"}, NEW next, NEW allowed, EnterTx(c, at, allowed, next),
               ~(Owns(c) /\ allowed)
        PROVE  OwnOK(c)' /\ OwedInv'
    <2>1. /\ pc'[c] = OnError(pc[c]) /\ pc[c] # "idle" /\ pc[c] # "release"
          /\ hook' = hook /\ row' # c /\ claim' = claim /\ owed' = owed /\ row' = row
      BY <1>1, <1>6 DEF EnterTx
    <2>2. OwedInv'
      BY <1>1, <1>6 DEF EnterTx, OwedInv, Awake
    <2> QED
      BY <2>1, <2>2, StepFailed
  <1>7. CASE EnterTx(c, "s.mark", MarkAllowed, "s.markCommit")
    <2>1. CASE Owns(c) /\ MarkAllowed
      BY <1>1, <1>7, <2>1 DEF EnterTx, Owns, MarkAllowed, OwnOK, ClaimantOK, OwedInv, Awake, PreClaim, SleepSteps,
                    Transactions, PastRow, Starting, Marked, UndoSteps, GivenBack
    <2> QED
      BY <1>6, <1>7, <2>1
  <1>8. CASE EnterTx(c, "s.job", TRUE, "s.jobCommit")
    <2>1. CASE Owns(c)
      BY <1>1, <1>8, <2>1 DEF EnterTx, Owns, OwnOK, ClaimantOK, OwedInv, Awake, PreClaim, SleepSteps,
                    Transactions, PastRow, Starting, Marked, UndoSteps, GivenBack
    <2> QED
      BY <1>6, <1>8, <2>1
  <1>9. CASE CommitMark(c)
    <2>1. /\ pc[c] = "s.markCommit" /\ row = c /\ row' = NoOne /\ hook' = hook /\ owed' = owed
          /\ pendingWake' = TRUE /\ seen'[c] = tempJob /\ tempJob' = tempJob /\ claim' = claim /\ asleep' = asleep
      BY <1>9 DEF CommitMark, LeaveTx, OwedIInv, HomeTypeOK
    <2>2. OwedInv'
      BY <1>1, <2>1 DEF OwedInv, Awake
    <2>3. pc'[c] = "s.ownTimer" \/ pc'[c] = OnError(pc[c])
      BY <1>1, <1>9 DEF CommitMark, LeaveTx, Done, Fails
    <2>4. CASE pc'[c] = "s.ownTimer"
      BY <1>1, <2>1, <2>2, <2>4 DEF OwnOK, ClaimantOK, OwedInv, PreClaim, SleepSteps, Transactions, PastRow, Starting,
                    Marked, UndoSteps, GivenBack
    <2> QED
      BY <1>1, <2>1, <2>2, <2>3, <2>4, StepFailed
  <1>10. ASSUME NEW at \in {"s.ownTimer", "s.ownAsleep"}, NEW next \in {"s.setTimer", "s.setAsleep"},
                CheckOwner(c, at, next)
         PROVE  OwnOK(c)' /\ OwedInv'
    <2>1. OwedInv' /\ hook' = hook /\ row' = row /\ claim' = claim /\ owed' = owed
      BY <1>1, <1>10 DEF CheckOwner, OwedInv, Awake
    <2>2. row # c
      BY <1>1, <1>10 DEF CheckOwner, OwnOK, Transactions
    <2>3. CASE pc'[c] = next
      BY <1>1, <1>10, <2>1, <2>3 DEF CheckOwner, OwnOK, ClaimantOK, PreClaim, SleepSteps, Transactions, PastRow,
                    Starting, Marked, UndoSteps, GivenBack
    <2>4. pc'[c] = next \/ pc'[c] = OnError(pc[c])
      BY <1>1, <1>10 DEF CheckOwner
    <2> QED
      BY <1>1, <1>10, <2>1, <2>2, <2>3, <2>4, StepFailed DEF CheckOwner
  <1>11. CASE SetSleepTimer(c) \/ SetAsleep(c)
    <2>1. /\ pc[c] \in {"s.setTimer", "s.setAsleep"} /\ hook' = hook /\ row' = row /\ claim' = claim /\ owed' = owed
          /\ seen' = seen /\ tempJob' = tempJob /\ pendingWake' = pendingWake
      BY <1>11 DEF SetSleepTimer, SetAsleep
    <2>2. OwedInv'
      BY <1>1, <1>11 DEF SetSleepTimer, SetAsleep, OwedInv, Awake
    <2>3. row # c
      BY <1>1, <2>1 DEF OwnOK, Transactions
    <2>4. pc'[c] \in {"s.ownAsleep", "s.ownJob"} \/ pc'[c] = OnError(pc[c])
      BY <1>1, <1>11 DEF SetSleepTimer, SetAsleep, Done, Fails
    <2>5. CASE pc'[c] \in {"s.ownAsleep", "s.ownJob"}
      BY <1>1, <2>1, <2>2, <2>5 DEF OwnOK, ClaimantOK, PreClaim, SleepSteps, Transactions, PastRow,
                    Starting, Marked, UndoSteps, GivenBack
    <2> QED
      BY <1>1, <2>1, <2>2, <2>3, <2>4, <2>5, StepFailed
  <1>12. CASE CheckBeforeJob(c) \/ SleepReturns(c)
    <2>1. /\ pc[c] \in {"s.ownJob", "s.ownDone"} /\ hook' = hook /\ row' = row /\ claim' = claim
          /\ seen' = seen /\ tempJob' = tempJob /\ pendingWake' = pendingWake /\ asleep' = asleep
      BY <1>12 DEF CheckBeforeJob, SleepReturns
    <2>2. row # c
      BY <1>1, <2>1 DEF OwnOK, Transactions
    <2>3. CASE owed' /\ ~owed
      <3>1. claim = c /\ pc'[c] = "release" /\ (pc[c] = "s.ownJob" => ~seen[c])
        BY <1>1, <1>12, <2>3 DEF CheckBeforeJob, SleepReturns, Owns
      <3>2. pendingWake /\ ~tempJob
        BY <1>1, <2>1, <3>1 DEF OwnOK, ClaimantOK, Marked
      <3> QED
        BY <2>1, <2>2, <3>1, <3>2 DEF OwnOK, ClaimantOK, OwedInv, Awake, PreClaim, SleepSteps, Transactions,
                      PastRow, Starting, Marked, UndoSteps, GivenBack
    <2>4. CASE owed' => owed
      <3>1. OwedInv'
        BY <1>1, <2>1, <2>4 DEF OwedInv, Awake
      <3>2. \/ pc'[c] \in {"u.asleep", "release"}
            \/ pc'[c] = "s.job" /\ claim = c /\ pc[c] = "s.ownJob"
        <4>1. CASE CheckBeforeJob(c)
          BY <1>1, <4>1 DEF CheckBeforeJob, Owns
        <4>2. CASE SleepReturns(c)
          BY <1>1, <4>2 DEF SleepReturns
        <4> QED
          BY <1>12, <4>1, <4>2
      <3>3. pc'[c] = "u.asleep" => pc'[c] = OnError(pc[c])
        BY <2>1 DEF OnError
      <3>4. CASE pc'[c] = "s.job" /\ claim = c /\ pc[c] = "s.ownJob"
        BY <1>1, <2>1, <2>4, <3>1, <3>4 DEF OwnOK, ClaimantOK, PreClaim, SleepSteps, Transactions, PastRow,
                      Starting, Marked, UndoSteps, GivenBack
      <3> QED
        BY <1>1, <2>1, <2>2, <2>4, <3>1, <3>2, <3>3, <3>4, StepFailed
    <2> QED
      BY <2>3, <2>4
  <1>13. CASE CommitJob(c)
    <2>1. /\ pc[c] = "s.jobCommit" /\ row = c /\ row' = NoOne /\ hook' = hook /\ owed' = owed
          /\ pendingWake' = pendingWake /\ tempJob' = FALSE /\ claim' = claim /\ asleep' = asleep
      BY <1>13 DEF CommitJob, LeaveTx
    <2>2. OwedInv'
      BY <1>1, <2>1 DEF OwedInv, Awake
    <2>3. pc'[c] = "s.ownDone" \/ pc'[c] = OnError(pc[c])
      BY <1>1, <1>13 DEF CommitJob, LeaveTx, Done, Fails
    <2>4. CASE pc'[c] = "s.ownDone"
      BY <1>1, <2>1, <2>2, <2>4 DEF OwnOK, ClaimantOK, PreClaim, SleepSteps, Transactions, PastRow, Starting,
                    Marked, UndoSteps, GivenBack
    <2> QED
      BY <1>1, <2>1, <2>2, <2>3, <2>4, StepFailed
  <1> QED
    BY <1>3, <1>4, <1>5, <1>7, <1>8, <1>9, <1>10, <1>11, <1>12, <1>13 DEF SleepStep

LEMMA UndoOwn ==
  ASSUME OwedIInv, HomeTypeOK', NEW c \in Requests, UndoStep(c)
  PROVE  /\ OwnOK(c)' /\ OwedInv'
         /\ owed => UNCHANGED <<owed, pendingWake, sleep, asleep>>
  <1> USE DEF sql, timers, Keep, HomeGoto, Settle
  <1>1. OwnOK(c) /\ OwedInv /\ pc \in [Requests -> Steps] /\ c # NoOne /\ c # Orphan
    BY EachCallOK DEF OwedIInv, HomeTypeOK
  <1>2. owed \in BOOLEAN /\ pendingWake \in BOOLEAN /\ asleep \in BOOLEAN
    BY DEF OwedIInv, HomeTypeOK
  <1>3. CASE UndoAsleep(c) \/ UndoSleep(c)
    <2>1. /\ pc[c] \in {"u.asleep", "u.sleep"} /\ hook' = hook /\ row' = row /\ claim' = claim
          /\ tempJob' = tempJob /\ pendingWake' = pendingWake
      BY <1>3 DEF UndoAsleep, UndoSleep
    <2>2. claim = c => ~owed
      BY <1>1, <2>1 DEF OwnOK, ClaimantOK, Starting, UndoSteps
    <2>3. owed => UNCHANGED <<pendingWake, sleep, asleep>>
      BY <1>2, <1>3, <2>1, <2>2 DEF UndoAsleep, UndoSleep
    <2>4. owed' = owed
      BY <1>1, <1>2, <1>3, <2>3 DEF UndoAsleep, UndoSleep, OwedInv, Awake
    <2>5. OwedInv'
      BY <1>1, <2>1, <2>3, <2>4 DEF OwedInv, Awake
    <2>6. pc'[c] = OnError(pc[c]) /\ row # c
      BY <1>1, <1>3, <2>1 DEF UndoAsleep, UndoSleep, Done, Fails, OwnOK, Transactions, OnError
    <2> QED
      BY <1>1, <2>1, <2>3, <2>4, <2>5, <2>6, StepFailed
  <1>4. CASE EnterTx(c, "u.flag", UndoAllowed, "u.flagCommit")
    <2>1. /\ pc[c] = "u.flag" /\ hook' = hook /\ claim' = claim /\ owed' = owed /\ row # c
          /\ tempJob' = tempJob /\ pendingWake' = pendingWake /\ sleep' = sleep /\ asleep' = asleep
      BY <1>1, <1>4 DEF EnterTx
    <2>2. OwedInv'
      BY <1>1, <2>1 DEF OwedInv, Awake
    <2>3. CASE Owns(c)
      BY <1>1, <1>4, <2>1, <2>2, <2>3 DEF EnterTx, UndoAllowed, Owns, OwnOK, ClaimantOK, PreClaim, SleepSteps,
            Transactions, PastRow, Starting, Marked, UndoSteps, GivenBack
    <2>4. CASE ~Owns(c)
      <3>1. pc'[c] = OnError(pc[c]) /\ row' = row
        BY <1>1, <1>4, <2>4 DEF EnterTx
      <3> QED
        BY <1>1, <2>1, <2>2, <3>1, StepFailed
    <2> QED
      BY <2>1, <2>3, <2>4
  <1>5. CASE CommitUndo(c)
    <2>1. /\ pc[c] = "u.flagCommit" /\ hook' = hook /\ claim' = claim /\ row = c /\ row' = NoOne
          /\ tempJob' = tempJob /\ asleep' = asleep /\ ~owed
      BY <1>1, <1>5 DEF CommitUndo, LeaveTx, OwnOK
    <2>2. ~owed' /\ OwedInv'
      BY <1>2, <1>5, <2>1 DEF CommitUndo, OwedInv
    <2>3. pc'[c] = OnError(pc[c])
      BY <1>1, <1>5, <2>1 DEF CommitUndo, LeaveTx, Done, Fails, OnError
    <2> QED
      BY <1>1, <2>1, <2>2, <2>3, StepFailed
  <1> QED
    BY <1>3, <1>4, <1>5 DEF UndoStep

\* What a Wake gives back grows to all that a recovery restores.
LEMMA Recovered ==
  ASSUME NEW n \in 1..Len(SqlHooks)
  PROVE  /\ Restored = {"tired", "costume", "dungeon"} \cup HookItems(Len(SqlHooks))
         /\ HookItems(0) = {}
         /\ HookItems(n) = HookItems(n - 1) \cup {SqlHooks[n]}
  <1>1. Len(SqlHooks) \in Nat
    OBVIOUS
  <1>2. \A i \in 1..n : i \in 1..(n - 1) \/ i = n
    BY <1>1
  <1>3. HookItems(n) = HookItems(n - 1) \cup {SqlHooks[n]}
    BY <1>1, <1>2 DEF HookItems
  <1> QED
    BY <1>3 DEF Restored, HookItems

LEMMA WakeOwn ==
  ASSUME OwedIInv, HomeTypeOK', NEW c \in Requests, WakeStep(c)
  PROVE  /\ OwnOK(c)' /\ OwedInv'
         /\ owed /\ ~owed' => used' = {}
  <1> USE DEF sql, timers, Keep, HomeGoto, Settle
  <1>1. OwnOK(c) /\ OwedInv /\ pc \in [Requests -> Steps] /\ c # NoOne /\ c # Orphan
    BY EachCallOK DEF OwedIInv, HomeTypeOK
  <1>2. /\ owed \in BOOLEAN /\ pendingWake \in BOOLEAN /\ asleep \in BOOLEAN /\ used \subseteq Restored
        /\ hook \in [Requests -> 1..Len(SqlHooks)] /\ Len(SqlHooks) \in Nat
    BY DEF OwedIInv, HomeTypeOK
  <1>3. \A step \in {"w.recheck", "w.reverify", "w.recover"} :
           step \notin PreClaim \cup PastRow \cup Transactions \cup Marked \cup Starting /\ GivenBack(step, 1) = {}
    BY DEF PreClaim, PastRow, Starting, Marked, UndoSteps, Transactions, GivenBack
  \* Steps that store nothing.
  <1>4. ASSUME UNCHANGED <<pendingWake, asleep, tempJob, owed, hook>>
        PROVE  OwedInv' /\ owed' = owed /\ hook' = hook
    BY <1>1, <1>4 DEF OwedInv, Awake
  \* A step fails, or finds something that ends the call.
  <1>5. ASSUME pc[c] \notin {"idle", "release"}, pc'[c] = OnError(pc[c]) \/ pc'[c] = "release",
               UNCHANGED hook, (row' = row /\ row # c) \/ row' = NoOne, claim' = claim, owed' => owed
        PROVE  OwnOK(c)'
    BY <1>1, <1>5, StepFailed
  \* Between two transactions.
  <1>6. ASSUME NEW at, NEW next, pc[c] = at, pc'[c] = next, claim' = claim, row' = row, owed' = owed,
               at \in {"w.ownHook", "w.hook", "w.ownCostume", "w.costume", "w.ownDungeon", "w.dungeon"},
               next \in {"w.ownHook", "w.hook", "w.ownCostume", "w.costume", "w.ownDungeon", "w.dungeon",
                         "w.final", "w.release"},
               claim = c /\ owed => used' \cap GivenBack(next, hook'[c]) = {}
        PROVE  OwnOK(c)'
    BY <1>1, <1>6 DEF OwnOK, ClaimantOK, PreClaim, SleepSteps, UndoSteps, Transactions, PastRow, Starting, Marked
  <1>7. ASSUME NEW at, NEW next, WakeCheck(c, at, next),
               <<at, next>> \in {<<"w.check", "w.pending">>, <<"w.recheck", "w.reverify">>}
        PROVE  OwnOK(c)' /\ OwedInv' /\ owed' = owed
    <2>1. OwedInv' /\ owed' = owed /\ hook' = hook /\ row' = row /\ claim' = claim
      BY <1>4, <1>7 DEF WakeCheck
    <2>2. pc[c] = at /\ row # c /\ hook[c] = 1
      BY <1>1, <1>7 DEF WakeCheck, OwnOK, Transactions, PreClaim
    <2>3. CASE pc'[c] = next
      BY <1>1, <1>3, <1>7, <2>1, <2>2, <2>3 DEF OwnOK, ClaimantOK, PreClaim, Transactions
    <2> QED
      BY <1>1, <1>5, <1>7, <2>1, <2>2, <2>3 DEF WakeCheck
  <1>8. CASE WakePending(c)
    <2>1. OwedInv' /\ owed' = owed /\ hook' = hook /\ row' = row /\ claim' = claim
      BY <1>4, <1>8 DEF WakePending
    <2> QED
      BY <1>1, <1>8, <2>1 DEF WakePending, OwnOK, ClaimantOK, PreClaim, Transactions
  <1>9. CASE TryClaim(c, "w.claim", "w.recheck")
    <2>1. pc[c] = "w.claim" /\ row # c /\ hook[c] = 1 /\ pc'[c] \in {"idle", "w.recheck"} /\ hook' = hook
          /\ row' = row /\ owed' = owed /\ (pc'[c] = "idle" => claim' # c)
      BY <1>1, <1>9 DEF TryClaim, Fails, OwnOK, ClaimantOK, PreClaim, Transactions, OnError
    <2>2. OwedInv'
      BY <1>4, <1>9 DEF TryClaim
    <2> QED
      BY <1>3, <2>1, <2>2 DEF OwnOK, ClaimantOK, PreClaim, Transactions
  <1>10. CASE WakeReverify(c)
    <2>1. OwedInv' /\ owed' = owed /\ hook' = hook /\ row' = row /\ claim' = claim /\ pc[c] = "w.reverify"
      BY <1>4, <1>10 DEF WakeReverify
    <2>2. row # c /\ hook[c] = 1
      BY <1>1, <2>1 DEF OwnOK, Transactions
    <2>3. CASE pc'[c] = "w.recover"
      BY <1>1, <1>3, <2>1, <2>2, <2>3 DEF OwnOK, ClaimantOK, PreClaim, Transactions
    <2> QED
      BY <1>1, <1>5, <1>10, <2>1, <2>2, <2>3 DEF WakeReverify
  <1>11. ASSUME NEW at \in {"w.recover", "w.final"}, NEW next, NEW allowed, EnterTx(c, at, allowed, next),
                <<at, next>> \in {<<"w.recover", "w.recoverCommit">>, <<"w.final", "w.finalCommit">>}
         PROVE  OwnOK(c)' /\ OwedInv' /\ owed' = owed
    <2>1. /\ OwedInv' /\ owed' = owed /\ hook' = hook /\ claim' = claim /\ pc[c] = at /\ row = NoOne /\ used' = used
          /\ pendingWake' = pendingWake
      BY <1>4, <1>11 DEF EnterTx
    <2>2. CASE Owns(c) /\ allowed
      <3>1. pc'[c] = next /\ row' = c /\ claim = c
        BY <1>1, <1>11, <2>2 DEF EnterTx, Owns
      <3>2. CASE at = "w.recover"
        BY <1>1, <1>11, <2>1, <3>1, <3>2 DEF OwnOK, ClaimantOK, PreClaim, Transactions, PastRow, Starting, Marked,
                UndoSteps, GivenBack
      <3>3. CASE at = "w.final"
        <4>1. owed => used = {}
          BY <1>1, <1>2, <2>1, <3>1, <3>3 DEF OwnOK, ClaimantOK, GivenBack
        <4> QED
          BY <1>1, <1>11, <2>1, <3>1, <3>3, <4>1 DEF OwnOK, ClaimantOK, PreClaim, Transactions, PastRow, Starting,
                Marked, SleepSteps, UndoSteps
      <3> QED
        BY <1>11, <2>1, <3>2, <3>3
    <2>3. CASE ~(Owns(c) /\ allowed)
      <3>1. pc'[c] = OnError(at) /\ row' = row
        BY <1>1, <1>11, <2>3 DEF EnterTx
      <3>2. OwnOK(c)'
        BY <1>1, <1>5, <1>11, <2>1, <3>1
      <3> QED
        BY <2>1, <3>2
    <2> QED
      BY <2>2, <2>3
  <1>12. CASE CommitVitality(c)
    <2>1. /\ OwedInv' /\ owed' = owed /\ hook' = hook /\ claim' = claim /\ pc[c] = "w.recoverCommit" /\ row = c
          /\ row' = NoOne /\ used' = used \ {"tired"}
      BY <1>4, <1>12 DEF CommitVitality, LeaveTx
    <2>2. pc'[c] = "w.ownHook" \/ pc'[c] = OnError(pc[c])
      BY <1>1, <1>12, <2>1 DEF CommitVitality, LeaveTx, Done, Fails
    <2>3. CASE pc'[c] = "w.ownHook"
      <3>1. hook'[c] = 1
        BY <1>1, <2>1 DEF OwnOK
      <3>2. used' \cap GivenBack("w.ownHook", 1) = {}
        BY <2>1, Recovered, <1>2 DEF GivenBack
      <3> QED
        BY <1>1, <2>1, <2>3, <3>1, <3>2 DEF OwnOK, ClaimantOK, PreClaim, Transactions, PastRow, Starting, Marked,
                UndoSteps, SleepSteps
    <2> QED
      BY <1>1, <1>5, <2>1, <2>2, <2>3
  <1>13. ASSUME NEW at, NEW next, CheckOwner(c, at, next),
                <<at, next>> \in {<<"w.ownHook", "w.hook">>, <<"w.ownCostume", "w.costume">>}
         PROVE  OwnOK(c)' /\ OwedInv' /\ owed' = owed
    <2>1. OwedInv' /\ owed' = owed /\ hook' = hook /\ claim' = claim /\ pc[c] = at /\ row' = row /\ used' = used
      BY <1>4, <1>13 DEF CheckOwner
    <2>2. row # c
      BY <1>1, <1>13, <2>1 DEF OwnOK, Transactions
    <2>3. CASE pc'[c] = next
      <3>1. claim = c /\ owed => used' \cap GivenBack(next, hook'[c]) = {}
        BY <1>1, <1>13, <2>1 DEF OwnOK, ClaimantOK, GivenBack
      <3>2. OwnOK(c)'
        BY <1>6, <1>13, <2>1, <2>3, <3>1
      <3> QED
        BY <2>1, <3>2
    <2>4. CASE pc'[c] = OnError(at)
      BY <1>1, <1>5, <1>13, <2>1, <2>2, <2>4
    <2> QED
      BY <1>1, <1>13, <2>3, <2>4 DEF CheckOwner
  <1>14. CASE RunHook(c)
    <2>1. /\ OwedInv' /\ owed' = owed /\ claim' = claim /\ pc[c] = "w.hook" /\ row' = row
          /\ used' = used \ {SqlHooks[hook[c]]}
          /\ hook'[c] = IF hook[c] < Len(SqlHooks) THEN hook[c] + 1 ELSE hook[c]
      BY <1>1, <1>2, <1>14 DEF RunHook, OwedInv, Awake
    <2>2. row # c
      BY <1>1, <2>1 DEF OwnOK, Transactions
    <2>3. CASE pc'[c] = AfterHook(c)
      <3> DEFINE n == hook[c]
      <3>1. n \in 1..Len(SqlHooks)
        BY <1>2
      <3>2. HookItems(n) = HookItems(n - 1) \cup {SqlHooks[n]}
        BY <3>1, Recovered
      <3>3. claim = c /\ owed => used \cap ({"tired"} \cup HookItems(n - 1)) = {}
        BY <1>1, <2>1 DEF OwnOK, ClaimantOK, GivenBack
      <3>4. claim = c /\ owed => used' \cap ({"tired"} \cup HookItems(n)) = {}
        BY <2>1, <3>2, <3>3
      <3>5. CASE n < Len(SqlHooks)
        <4>1. AfterHook(c) = "w.ownHook" /\ hook'[c] = n + 1 /\ (n + 1) - 1 = n
          BY <1>2, <2>1, <3>1, <3>5 DEF AfterHook
        <4>2. claim = c /\ owed => used' \cap GivenBack("w.ownHook", hook'[c]) = {}
          BY <3>4, <4>1 DEF GivenBack
        <4>3. OwnOK(c)'
          BY <1>6, <2>1, <2>3, <4>1, <4>2
        <4> QED
          BY <2>1, <4>3
      <3>6. CASE ~(n < Len(SqlHooks))
        <4>1. AfterHook(c) = "w.ownCostume" /\ n = Len(SqlHooks)
          BY <1>2, <3>1, <3>6 DEF AfterHook
        <4>2. claim = c /\ owed => used' \cap GivenBack("w.ownCostume", hook'[c]) = {}
          BY <3>4, <4>1 DEF GivenBack
        <4>3. OwnOK(c)'
          BY <1>6, <2>1, <2>3, <4>1, <4>2
        <4> QED
          BY <2>1, <4>3
      <3> QED
        BY <3>5, <3>6
    <2>4. CASE pc'[c] = OnError(pc[c])
      <3>1. pc'[c] = "release"
        BY <2>1, <2>4 DEF OnError
      <3> QED
        BY <1>1, <2>1, <2>2, <3>1 DEF OwnOK, ClaimantOK, Transactions, PreClaim, SleepSteps, UndoSteps, WakeSteps,
                PastRow, Starting, Marked, GivenBack
    <2> QED
      BY <1>1, <1>14, <2>1, <2>3, <2>4 DEF RunHook, Done, Fails
  <1>15. ASSUME NEW at, NEW item, NEW next, ResetWithClaim(c, at, item, next),
                \/ at = "w.costume" /\ item = "costume" /\ next = "w.ownDungeon"
                \/ at = "w.dungeon" /\ item = "dungeon" /\ next \in {"w.final", "w.release"}
         PROVE  OwnOK(c)' /\ OwedInv' /\ owed' = owed
    <2>1. OwedInv' /\ owed' = owed /\ hook' = hook /\ claim' = claim /\ pc[c] = at /\ row' = row
      BY <1>4, <1>15 DEF ResetWithClaim
    <2>2. row # c
      BY <1>1, <1>15, <2>1 DEF OwnOK, Transactions
    <2>3. CASE pc'[c] = OnError(at)
      BY <1>1, <1>5, <1>15, <2>1, <2>2, <2>3
    <2>4. CASE pc'[c] = next /\ claim = c /\ used' = used \ {item}
      <3>1. owed => used' \cap GivenBack(next, hook'[c]) = {}
        BY <1>1, <1>2, <1>15, <2>1, <2>4, Recovered DEF OwnOK, ClaimantOK, GivenBack
      <3>2. OwnOK(c)'
        BY <1>6, <1>15, <2>1, <2>4, <3>1
      <3> QED
        BY <2>1, <3>2
    <2> QED
      BY <1>1, <1>15, <2>1, <2>3, <2>4 DEF ResetWithClaim, Done, Fails
  <1>16. CASE CheckBeforeDungeon(c)
    <2>1. /\ OwedInv' /\ owed' = owed /\ hook' = hook /\ claim' = claim /\ pc[c] = "w.ownDungeon" /\ row' = row
          /\ used' = used
      BY <1>4, <1>16 DEF CheckBeforeDungeon
    <2>2. row # c
      BY <1>1, <2>1 DEF OwnOK, Transactions
    <2>3. CASE pc'[c] = "w.dungeon"
      <3>1. claim = c /\ owed => used' \cap GivenBack("w.dungeon", hook'[c]) = {}
        BY <1>1, <2>1 DEF OwnOK, ClaimantOK, GivenBack
      <3>2. OwnOK(c)'
        BY <1>6, <2>1, <2>3, <3>1
      <3> QED
        BY <2>1, <3>2
    <2>4. CASE pc'[c] = "release"
      BY <1>1, <1>5, <2>1, <2>2, <2>4
    <2> QED
      BY <1>1, <1>16, <2>3, <2>4 DEF CheckBeforeDungeon
  <1>17. CASE CommitFinal(c)
    <2>1. /\ hook' = hook /\ claim' = claim /\ pc[c] = "w.finalCommit" /\ row = c /\ row' = NoOne
          /\ used' = used /\ pendingWake' = FALSE /\ tempJob' = tempJob /\ asleep' = asleep
          /\ owed' = (owed /\ asleep)
      BY <1>2, <1>17 DEF CommitFinal, LeaveTx
    <2>2. OwedInv' /\ (owed' => owed)
      BY <1>1, <2>1 DEF OwedInv, Awake
    <2>3. owed => used' = {}
      BY <1>1, <2>1 DEF OwnOK
    <2>4. CASE pc'[c] = "w.release"
      <3>1. owed' => used' \cap GivenBack(pc'[c], hook'[c]) = {}
        BY <2>2, <2>3
      <3> QED
        BY <1>1, <2>1, <2>2, <2>3, <2>4, <3>1 DEF OwnOK, ClaimantOK, PreClaim, Transactions, SleepSteps, UndoSteps,
                PastRow, Starting, Marked
    <2> QED
      BY <1>1, <1>5, <1>17, <2>1, <2>2, <2>3, <2>4 DEF CommitFinal, LeaveTx, Done, Fails
  <1>18. CASE ReleaseAsleep(c)
    <2>1. /\ hook' = hook /\ claim' = claim /\ pc[c] = "w.release" /\ row' = row
          /\ used' = used /\ pendingWake' = pendingWake /\ tempJob' = tempJob
          /\ owed' = (owed /\ (pendingWake' \/ asleep')) /\ (claim # c => asleep' = asleep)
      BY <1>18 DEF ReleaseAsleep
    <2>2. OwedInv' /\ (owed' => owed)
      BY <1>1, <2>1 DEF OwedInv, Awake
    <2>3. claim = c /\ owed => used' = {}
      BY <1>1, <1>2, <2>1 DEF OwnOK, ClaimantOK, GivenBack
    <2>4. claim # c => owed' = owed
      BY <1>1, <1>2, <2>1 DEF OwedInv, Awake
    <2>5. row # c
      BY <1>1, <2>1 DEF OwnOK, Transactions
    <2>6. pc'[c] = "release"
      BY <1>1, <1>18, <2>1 DEF ReleaseAsleep, Done, Fails, OnError
    <2> QED
      BY <1>1, <1>5, <2>1, <2>2, <2>3, <2>4, <2>5, <2>6
  <1>19. AfterDungeon(c) \in {"w.final", "w.release"}
    BY DEF AfterDungeon
  <1> QED
    BY <1>7, <1>8, <1>9, <1>10, <1>11, <1>12, <1>13, <1>14, <1>15, <1>16, <1>17, <1>18, <1>19 DEF WakeStep

\* The steps around the body of a call.
LEMMA AroundOwn ==
  ASSUME OwedIInv, HomeTypeOK', NEW c \in Requests,
         BeginSleep(c) \/ BeginWake(c) \/ ReleaseClaim(c) \/ StepFails(c) \/ Heartbeat(c) \/ Crash(c)
  PROVE  OwnOK(c)' /\ OwedInv' /\ owed' = owed
  <1> USE DEF sql, timers, Keep, HomeGoto
  <1>1. OwnOK(c) /\ OwedInv /\ pc \in [Requests -> Steps] /\ c # NoOne /\ c # Orphan
    BY EachCallOK DEF OwedIInv, HomeTypeOK
  <1>2. OwedInv' /\ owed' = owed
    <2>1. UNCHANGED <<owed, pendingWake, asleep, tempJob>>
      BY DEF BeginSleep, BeginWake, ReleaseClaim, StepFails, Heartbeat, Crash
    <2> QED
      BY <1>1, <2>1 DEF OwedInv, Awake
  <1>3. CASE BeginSleep(c) \/ BeginWake(c)
    BY <1>1, <1>2, <1>3 DEF BeginSleep, BeginWake, OwnOK, ClaimantOK, PreClaim, Transactions
  <1>4. CASE ReleaseClaim(c) \/ Crash(c)
    <2>1. pc'[c] = "idle" /\ claim' # c /\ row' # c
      BY <1>1, <1>4 DEF ReleaseClaim, Crash, OwnOK, Transactions
    <2>2. hook'[c] = 1
      BY <1>4 DEF ReleaseClaim, Crash, Forget, OwedIInv, HomeTypeOK
    <2> QED
      BY <1>2, <2>1, <2>2 DEF OwnOK, Transactions, PreClaim
  <1>5. CASE StepFails(c)
    <2>1. /\ pc'[c] = OnError(pc[c]) /\ pc[c] # "idle" /\ pc[c] # "release" /\ hook' = hook /\ claim' = claim
          /\ row' \in {row, NoOne} /\ row' # c
      BY <1>1, <1>5 DEF StepFails, Fails
    <2> QED
      BY <1>2, <2>1, StepFailed
  <1>6. CASE Heartbeat(c)
    BY <1>1, <1>2, <1>6 DEF Heartbeat, OwnOK, ClaimantOK, Awake
  <1> QED
    BY <1>2, <1>3, <1>4, <1>5, <1>6

\* What no call does: leases and timers end, and the character plays when it
\* is awake and owes nothing.
LEMMA EnvironmentOwed ==
  ASSUME OwedIInv, HomeTypeOK', ClaimLapses \/ SleepExpires \/ Play \/ Rescue \/ UNCHANGED homeVars
  PROVE  OwedIInv' /\ owed' = owed
  <1> USE DEF sql, timers, calls, homeVars
  <1>1. OwedInv /\ owed' = owed /\ UNCHANGED <<pc, lost, seen, hook, row, pendingWake, asleep>> /\ NoOne \notin Requests
    BY DEF ClaimLapses, SleepExpires, Play, Rescue, OwedIInv
  <1>2. CASE Play
    <2>1. Awake /\ ~owed /\ claim' = claim
      BY <1>1, <1>2 DEF Play, OwedInv
    <2>2. OwedInv'
      BY <1>1, <2>1 DEF OwedInv
    <2>3. ASSUME NEW c \in Requests
          PROVE  OwnOK(c)'
      <3>1. OwnOK(c)
        BY EachCallOK
      <3>2. claim = c => pc[c] \notin Marked
        BY <2>1, <3>1 DEF OwnOK, ClaimantOK, Awake
      <3> HIDE DEF sql, timers, calls, homeVars
      <3> QED
        BY <1>1, <2>1, <3>1, <3>2 DEF OwnOK, ClaimantOK, Awake, Marked
    <2> QED
      BY <1>1, <2>2, <2>3, EachCallOK
  <1>3. CASE ~Play
    <2>1. UNCHANGED <<used, tempJob>> /\ claim' \in {claim, NoOne}
      BY <1>3 DEF ClaimLapses, SleepExpires, Rescue
    <2>2. OwedInv'
      BY <1>1, <2>1 DEF OwedInv, Awake
    <2>3. ASSUME NEW c \in Requests
          PROVE  OwnOK(c)'
      <3>1. OwnOK(c)
        BY EachCallOK
      <3> HIDE DEF sql, timers, calls, homeVars
      <3> QED
        BY <1>1, <2>1, <3>1 DEF OwnOK, ClaimantOK, Awake
    <2> QED
      BY <1>1, <2>2, <2>3, EachCallOK
  <1> QED
    BY <1>2, <1>3

\* RecoveryComplete and CompensationKeepsSleep, of a step.
OwedStep ==
    /\ owed /\ ~owed' => used' = {}
    /\ \A c \in Requests : owed /\ pc[c] \in UndoSteps /\ pc'[c] # pc[c] => UNCHANGED <<pendingWake, sleep, asleep>>

\* A call at a compensation only fails, stops or goes on with it.
LEMMA OnlyUndoMoves ==
  ASSUME HomeTypeOK, NEW c \in Requests, pc[c] \in UndoSteps, pc'[c] # pc[c],
         BeginSleep(c) \/ BeginWake(c) \/ CallStep(c) \/ StepFails(c) \/ Heartbeat(c) \/ Crash(c)
  PROVE  UndoStep(c) \/ UNCHANGED <<pendingWake, sleep, asleep>>
  <1>1. pc[c] \in {"u.asleep", "u.sleep", "u.flag", "u.flagCommit"}
    BY DEF UndoSteps
  <1>2. ~SleepStep(c)
    BY <1>1 DEF SleepStep, SleepCheck, TryClaim, SleepRecheck, EnterTx, CommitMark, CheckOwner, SetSleepTimer,
                SetAsleep, CheckBeforeJob, CommitJob, SleepReturns
  <1>3. ~WakeStep(c)
    BY <1>1 DEF WakeStep, WakeCheck, WakePending, TryClaim, WakeReverify, EnterTx, CommitVitality, CheckOwner,
                RunHook, ResetWithClaim, CheckBeforeDungeon, CommitFinal, ReleaseAsleep
  <1> QED
    BY <1>2, <1>3 DEF CallStep, BeginSleep, BeginWake, ReleaseClaim, StepFails, Heartbeat, Crash, sql, timers

LEMMA NextOwed ==
  ASSUME OwedIInv, [HomeNext]_homeVars
  PROVE  OwedIInv' /\ OwedStep
  <1>1. HomeTypeOK /\ HomeTypeOK'
    BY NextTyped DEF OwedIInv
  <1>2. ASSUME NEW c \in Requests, BeginSleep(c) \/ BeginWake(c) \/ CallStep(c) \/ StepFails(c)
                                  \/ Heartbeat(c) \/ Crash(c)
        PROVE  OwedIInv' /\ OwedStep
    <2>1. Bystanders(c)
      BY <1>1, <1>2, StepsOfOthers
    <2>2. \A d \in Requests : d # c => OwnOK(d)'
      BY <1>1, <2>1, OthersKeep
    <2>3. OwnOK(c)' /\ OwedInv' /\ (owed /\ ~owed' => used' = {})
      <3>1. CASE SleepStep(c)
        <4>1. owed => owed'
          BY <1>1, <3>1 DEF SleepStep, SleepCheck, TryClaim, SleepRecheck, EnterTx, CommitMark, CheckOwner, SetSleepTimer,
                SetAsleep, CheckBeforeJob, CommitJob, SleepReturns, HomeTypeOK
        <4> QED
          BY <1>1, <3>1, <4>1, SleepOwn
      <3>2. CASE UndoStep(c)
        BY <1>1, <3>2, UndoOwn
      <3>3. CASE WakeStep(c)
        BY <1>1, <3>3, WakeOwn
      <3>4. CASE BeginSleep(c) \/ BeginWake(c) \/ ReleaseClaim(c) \/ StepFails(c) \/ Heartbeat(c) \/ Crash(c)
        BY <1>1, <3>4, AroundOwn
      <3> QED
        BY <1>2, <3>1, <3>2, <3>3, <3>4 DEF CallStep
    <2>4. ASSUME NEW d \in Requests, owed, pc[d] \in UndoSteps, pc'[d] # pc[d]
          PROVE  UNCHANGED <<pendingWake, sleep, asleep>>
      <3>1. d = c
        BY <2>1, <2>4 DEF Bystanders
      <3> QED
        BY <1>1, <1>2, <2>4, <3>1, OnlyUndoMoves, UndoOwn
    <2> QED
      BY <1>1, <2>2, <2>3, <2>4, EachCallOK DEF OwedStep
  <1>3. CASE ClaimLapses \/ SleepExpires \/ Play \/ Rescue \/ UNCHANGED homeVars
    <2>1. pc' = pc
      BY <1>3 DEF ClaimLapses, SleepExpires, Play, Rescue, homeVars, calls
    <2> QED
      BY <1>1, <1>3, <2>1, EnvironmentOwed DEF OwedStep
  <1> QED
    BY <1>2, <1>3 DEF HomeNext

LEMMA OwedInvariant == HomeSpec => []OwedIInv
  <1>1. HomeInit => OwedIInv
    <2> SUFFICES ASSUME HomeInit PROVE OwedIInv
      OBVIOUS
    <2>1. HomeTypeOK
      BY SleepInitTyped
    <2> QED
      BY <2>1 DEF HomeInit, OwedIInv, RowHeld, FirstHook, LastCommits, OwedInv, Transactions
  <1> QED
    BY <1>1, NextOwed, PTL DEF HomeSpec

\* A character whose Sleep has returned has no temporary job: from its mark on
\* the obligation to recover keeps it from taking one.
THEOREM TemporaryJobHasEnded == HomeSpec => []TemporaryJobEnds
  <1>1. OwedIInv => TemporaryJobEnds
    BY DEF OwedIInv, OwedInv, TemporaryJobEnds
  <1> QED
    BY <1>1, OwedInvariant, PTL

\* The recovery that a Sleep has promised is over only when all of it was given
\* back, although leases lapse under live calls and steps fail.
THEOREM RecoveryAlwaysComplete == HomeSpec => RecoveryComplete
  <1>1. OwedIInv /\ [HomeNext]_homeVars => [owed /\ ~owed' => used' = {}]_homeVars
    BY NextOwed DEF OwedStep
  <1> QED
    BY <1>1, OwedInvariant, PTL DEF HomeSpec, RecoveryComplete

\* The compensation of a Sleep that failed leaves what another Sleep has stored
\* alone: it no longer has the claim, or the row lock, when there is such a Sleep.
THEOREM CompensationSparesSleep == HomeSpec => CompensationKeepsSleep
  <1>1. OwedIInv /\ [HomeNext]_homeVars =>
           [\A c \in Requests : owed /\ pc[c] \in UndoSteps /\ pc'[c] # pc[c]
              => UNCHANGED <<pendingWake, sleep, asleep>>]_homeVars
    BY NextOwed DEF OwedStep
  <1> QED
    BY <1>1, OwedInvariant, PTL DEF HomeSpec, CompensationKeepsSleep

-----------------------------------------------------------------------------
(* The pages of a fetch                                                    *)

\* What a fetch that has not failed has read is the head of the queue: its
\* actions are found and stay queued, its other entries are gone.
ReadsOn ==
    /\ scanned <= Len(kind)
    /\ found = Live(1..scanned) /\ entries = found \cup (scanned + 1 .. Len(kind))
    /\ collected = Cardinality(found) /\ offset = collected /\ collected <= Limit

ScanIInv ==
    /\ kind \in Seq(Kinds) /\ Len(kind) <= MaxQueue
    /\ phase \in {"paging", "done", "failed"} /\ scanned \in 0..MaxScan
    /\ phase # "failed" => ReadsOn
    /\ phase = "done" => collected = Limit \/ scanned = MaxScan \/ scanned = Len(kind)
    /\ phase = "failed" =>
          /\ entries \subseteq Queue /\ Live(Queue) \subseteq entries
          /\ found = {} /\ collected = 0 /\ offset \in 0..MaxQueue

LEMMA LeastNumber ==
  ASSUME NEW T \in SUBSET Nat, T # {}
  PROVE \E x \in T : \A y \in T : x <= y
<1>1. PICK x \in T : \A y \in T : ~(<<y, x>> \in OpToRel(<, Nat))
  BY NatLessThanWellFounded, WFMin
<1>2. \A y \in T : ~(y < x)
  BY <1>1 DEF OpToRel
<1>3. QED
  BY <1>2

\* Parts of intervals are finite, and disjoint ones add up.
LEMMA FiniteParts ==
  ASSUME NEW a \in Int, NEW b \in Int, NEW S \in SUBSET (a..b)
  PROVE IsFiniteSet(S) /\ Cardinality(S) \in Nat
<1>1. IsFiniteSet(a..b)
  BY FS_Interval
<1>2. IsFiniteSet(S)
  BY <1>1, FS_Subset
<1>3. QED
  BY <1>2, FS_CardinalityType

LEMMA DisjointSizes ==
  ASSUME NEW S, IsFiniteSet(S), NEW T, IsFiniteSet(T), S \cap T = {}
  PROVE Cardinality(S \cup T) = Cardinality(S) + Cardinality(T) /\ IsFiniteSet(S \cup T)
<1>1. /\ IsFiniteSet(S \cup T)
      /\ Cardinality(S \cup T) = Cardinality(S) + Cardinality(T) - Cardinality(S \cap T)
  BY FS_Union
<1>2. Cardinality(S \cap T) = 0
  BY FS_EmptySet
<1>3. Cardinality(S) \in Nat /\ Cardinality(T) \in Nat
  BY FS_CardinalityType
<1>4. PICK x \in Nat, y \in Nat : x = Cardinality(S) /\ y = Cardinality(T)
  BY <1>3
<1>5. x + y - 0 = x + y
  OBVIOUS
<1>6. QED
  BY <1>1, <1>2, <1>4, <1>5

\* The actions of two adjoining parts of the queue.
LEMMA LiveParts ==
  ASSUME NEW a \in Nat, NEW b \in Nat, a <= b
  PROVE /\ Live(1..b) = Live(1..a) \cup Live(a + 1 .. b)
        /\ Cardinality(Live(1..b)) = Cardinality(Live(1..a)) + Cardinality(Live(a + 1 .. b))
        /\ Cardinality(Live(1..a)) \in Nat /\ Cardinality(Live(a + 1 .. b)) \in Nat
<1>1. 1..b = (1..a) \cup (a + 1 .. b) /\ (1..a) \cap (a + 1 .. b) = {}
  OBVIOUS
<1>2. PICK S, T, U : S = Live(1..a) /\ T = Live(a + 1 .. b) /\ U = Live(1..b)
  OBVIOUS
<1>3. U = S \cup T /\ S \cap T = {}
  BY <1>1, <1>2 DEF Live
<1>4. S \in SUBSET (1..a) /\ T \in SUBSET (a + 1 .. b)
  BY <1>2 DEF Live
<1>5. IsFiniteSet(S) /\ Cardinality(S) \in Nat /\ IsFiniteSet(T) /\ Cardinality(T) \in Nat
  <2>1. PICK i \in Int, j \in Int, k \in Int, l \in Int : i = 1 /\ j = a /\ k = a + 1 /\ l = b
    OBVIOUS
  <2>2. S \in SUBSET (i..j) /\ T \in SUBSET (k..l)
    BY <1>4, <2>1
  <2>3. QED
    BY <2>2, FiniteParts
<1>6. Cardinality(U) = Cardinality(S) + Cardinality(T)
  BY <1>3, <1>5, DisjointSizes
<1>7. QED
  BY <1>2, <1>3, <1>5, <1>6

\* A queue E of which the entries up to s that stay are F, and none after s is gone.
ReadUpTo(s, n, F, E) == F \subseteq 1..s /\ E = F \cup (s + 1 .. n)

\* Found entries come first in the queue, and the rest of it follows one by one.
LEMMA RankAt ==
  ASSUME NEW s \in Nat, NEW n \in Nat, NEW F, NEW E, ReadUpTo(s, n, F, E),
         NEW p \in Int, p \in E
  PROVE /\ p <= s => Rank(p, E) <= Cardinality(F)
        /\ p > s => Rank(p, E) = Cardinality(F) + (p - s)
        /\ Rank(p, E) \in Nat /\ Cardinality(F) \in Nat
<1> USE DEF ReadUpTo
<1>1. p \in Nat /\ p >= 1 /\ F \subseteq Nat
  OBVIOUS
<1>2. IsFiniteSet(F) /\ Cardinality(F) \in Nat
  <2>1. 1 \in Int /\ s \in Int
    OBVIOUS
  <2>2. QED
    BY <2>1, FiniteParts
<1>3. PICK R : R = {q \in E : q <= p}
  OBVIOUS
<1>4. Rank(p, E) = Cardinality(R)
  BY <1>3 DEF Rank
<1>5. CASE p <= s
  <2>1. R \in SUBSET F
    BY <1>1, <1>3, <1>5
  <2>2. Cardinality(R) <= Cardinality(F) /\ IsFiniteSet(R)
    BY <1>2, <2>1, FS_Subset
  <2>3. Cardinality(R) \in Nat
    BY <2>2, FS_CardinalityType
  <2>4. QED
    BY <1>1, <1>2, <1>4, <1>5, <2>2, <2>3
<1>6. CASE p > s
  <2>1. PICK I : I = s + 1 .. p
    OBVIOUS
  <2>2. R = F \cup I /\ F \cap I = {}
    <3>1. p <= n
      BY <1>1, <1>6
    <3>2. \A q : q \in R <=> q \in E /\ q <= p
      BY <1>3
    <3>3. \A q \in F : q \in Nat /\ q <= s /\ q <= p
      BY <1>1, <1>6
    <3>4. \A q : q \in I <=> q \in s + 1 .. n /\ q <= p
      BY <1>1, <2>1, <3>1
    <3>5. R = F \cup I
      BY <3>2, <3>3, <3>4
    <3>6. QED
      BY <2>1, <3>3, <3>5
  <2>3. IsFiniteSet(I) /\ Cardinality(I) = p - s
    BY <1>1, <1>6, <2>1, FS_Interval
  <2>4. Cardinality(R) = Cardinality(F) + Cardinality(I)
    BY <1>2, <2>2, <2>3, DisjointSizes
  <2>5. QED
    BY <1>1, <1>2, <1>4, <1>6, <2>3, <2>4
<1>7. QED
  BY <1>1, <1>5, <1>6

LEMMA PageSize ==
  ASSUME ScanIInv, scanned < MaxScan
  PROVE ToFetch \in Nat \ {0} /\ scanned + ToFetch <= MaxScan
BY PagingAssumption DEF ScanIInv, ToFetch

\* A page is what follows what has been read.
LEMMA PageNext ==
  ASSUME ScanIInv, phase = "paging", scanned < MaxScan
  PROVE \E b \in Nat :
           /\ Page = scanned + 1 .. b /\ scanned <= b /\ b <= Len(kind) /\ b <= MaxScan
           /\ b < Len(kind) => b = scanned + ToFetch
<1>1. PICK n \in Nat, s \in Nat, f \in Nat, o \in Nat :
         n = Len(kind) /\ s = scanned /\ f = ToFetch /\ o = offset
  <2>1. Len(kind) \in Nat /\ scanned \in Nat /\ ReadsOn
    BY PagingAssumption, LenProperties DEF ScanIInv
  <2>2. scanned \in Int /\ 1 \in Int /\ Live(1..scanned) \in SUBSET (1..scanned)
    BY <2>1 DEF Live
  <2>3. PICK c \in Int, L \in SUBSET Int : c = scanned /\ L = Live(1..scanned)
    BY <2>2
  <2>4. Cardinality(L) \in Nat
    BY <2>2, <2>3, FiniteParts
  <2>5. offset \in Nat
    BY <2>1, <2>3, <2>4 DEF ReadsOn
  <2>6. QED
    BY <2>1, <2>5, PageSize
<1>2. f > 0 /\ s + f <= MaxScan /\ s <= n /\ MaxScan \in Nat
  BY <1>1, PageSize, PagingAssumption DEF ScanIInv, ReadsOn
<1>3. PICK F \in SUBSET (1..s) : /\ entries = F \cup (s + 1 .. n) /\ o = Cardinality(F)
  BY <1>1 DEF ScanIInv, ReadsOn, Live
<1>4. PICK b \in Nat : b = IF s + f < n THEN s + f ELSE n
  OBVIOUS
<1>5. ASSUME NEW p \in entries
      PROVE p \in Page <=> p \in s + 1 .. b
  <2>1. /\ p <= s => Rank(p, entries) <= o
        /\ p > s => Rank(p, entries) = o + (p - s)
        /\ Rank(p, entries) \in Nat
    <3>1. PICK t \in Int : t = p
      BY <1>3, <1>5
    <3>2. PICK E : E = entries
      OBVIOUS
    <3>3. ReadUpTo(s, n, F, E) /\ t \in E
      BY <1>3, <1>5, <3>1, <3>2 DEF ReadUpTo
    <3>4. /\ t <= s => Rank(t, E) <= Cardinality(F)
          /\ t > s => Rank(t, E) = Cardinality(F) + (t - s)
          /\ Rank(t, E) \in Nat
      BY <3>3, RankAt
    <3>5. QED
      BY <1>3, <3>1, <3>2, <3>4
  <2>2. p \in Page <=> Rank(p, entries) \in o + 1 .. o + f
    BY <1>1, <1>5 DEF Page
  <2>3. p \in Nat /\ p <= n
    BY <1>2, <1>3, <1>5
  <2>4. PICK r \in Nat : r = Rank(p, entries)
    BY <2>1
  <2>5. QED
    BY <1>2, <1>4, <2>1, <2>2, <2>3, <2>4
<1>6. s + 1 .. b \subseteq entries
  BY <1>2, <1>3, <1>4
<1>7. Page \subseteq entries
  BY DEF Page
<1>8. Page = s + 1 .. b
  BY <1>5, <1>6, <1>7
<1>9. QED
  BY <1>1, <1>2, <1>4, <1>8

LEMMA HeadOf ==
  ASSUME NEW s \in Int, NEW b \in Int, NEW m \in Int, NEW R,
         R \subseteq s + 1 .. b, s + 1 .. m \subseteq R,
         \A p \in s + 1 .. b : p > m => p \notin R
  PROVE R = s + 1 .. m
<1>1. \A p \in R : p \in s + 1 .. m
  OBVIOUS
<1>2. QED
  BY <1>1

\* What is read of a page is its head, up to the action that fills the limit.
LEMMA ReadsHead ==
  ASSUME NEW s \in Nat, NEW b \in Nat, s < b, collected \in Nat, collected < Limit
  PROVE \E m \in s + 1 .. b :
           /\ ReadPart(s + 1 .. b) = s + 1 .. m
           /\ collected + Cardinality(Live(s + 1 .. m)) <= Limit
           /\ m < b => collected + Cardinality(Live(s + 1 .. m)) = Limit
<1> DEFINE Before(p) == Cardinality(Live(s + 1 .. p - 1))
<1>1. \A p \in s + 1 .. b : {q \in s + 1 .. b : q < p} = s + 1 .. p - 1
  OBVIOUS
<1>2. ReadPart(s + 1 .. b) = {p \in s + 1 .. b : collected + Before(p) < Limit}
  BY <1>1 DEF ReadPart
<1>3. ASSUME NEW p \in Nat, NEW q \in Nat, p <= q
      PROVE Before(p) \in Nat /\ Before(q) \in Nat /\ Before(p) <= Before(q)
  <2>1. PICK S, T : S = Live(s + 1 .. p - 1) /\ T = Live(s + 1 .. q - 1)
    OBVIOUS
  <2>2. S \in SUBSET T /\ T \in SUBSET (s + 1 .. q - 1)
    BY <1>3, <2>1 DEF Live
  <2>3. IsFiniteSet(T) /\ Cardinality(T) \in Nat
    <3>1. PICK c \in Int, d \in Int : c = s + 1 /\ d = q - 1
      OBVIOUS
    <3>2. QED
      BY <2>2, <3>1, FiniteParts
  <2>4. Cardinality(S) <= Cardinality(T) /\ IsFiniteSet(S)
    BY <2>2, <2>3, FS_Subset
  <2>5. QED
    BY <2>1, <2>3, <2>4, FS_CardinalityType
<1>4. Before(s + 1) = 0
  <2>1. Live(s + 1 .. (s + 1) - 1) = {}
    BY DEF Live
  <2>2. QED
    BY <2>1, FS_EmptySet
<1> DEFINE Out == {p \in s + 1 .. b : collected + Before(p) >= Limit}
<1>5. PICK m \in s + 1 .. b :
         /\ \A p \in s + 1 .. m : collected + Before(p) < Limit
         /\ m < b => collected + Before(m + 1) >= Limit
  <2>1. \A p \in s + 1 .. b : Before(p) \in Nat
    BY <1>3
  <2>2. \A p \in s + 1 .. b : p \notin Out => collected + Before(p) < Limit
    BY <2>1, PagingAssumption
  <2>3. CASE Out = {}
    <3>1. \A p \in s + 1 .. b : collected + Before(p) < Limit
      BY <2>2, <2>3
    <3>2. b \in s + 1 .. b /\ ~(b < b)
      OBVIOUS
    <3> HIDE DEF Before, Out
    <3>3. QED
      BY <3>1, <3>2
  <2>4. CASE Out # {}
    <3>1. Out \in SUBSET Nat
      OBVIOUS
    <3>2. PICK x \in Out : \A y \in Out : x <= y
      BY <2>4, <3>1, LeastNumber
    <3>3. x \in s + 1 .. b /\ collected + Before(x) >= Limit
      OBVIOUS
    <3>4. x # s + 1
      BY <1>4, <3>3, PagingAssumption
    <3>5. PICK m \in s + 1 .. b : x = m + 1
      BY <3>3, <3>4
    <3>6. \A p \in s + 1 .. m : p \notin Out /\ p \in s + 1 .. b
      BY <3>2, <3>5
    <3>7. \A p \in s + 1 .. m : collected + Before(p) < Limit
      BY <2>2, <3>6
    <3>8. collected + Before(m + 1) >= Limit
      BY <3>3, <3>5
    <3> HIDE DEF Before
    <3>9. QED
      BY <3>7, <3>8
  <2>5. QED
    BY <2>3, <2>4
<1>6. Before(m + 1) = Cardinality(Live(s + 1 .. m))
  <2>1. (m + 1) - 1 = m
    OBVIOUS
  <2>2. QED
    BY <2>1
<1>7. Before(m + 1) \in Nat /\ Before(m) \in Nat /\ Before(m + 1) <= Before(m) + 1
  <2>1. Before(m + 1) \in Nat /\ Before(m) \in Nat
    <3>1. m \in Nat /\ m + 1 \in Nat /\ m <= m + 1
      OBVIOUS
    <3> HIDE DEF Before
    <3>2. QED
      BY <1>3, <3>1
  <2>2. PICK S, T : S = Live(s + 1 .. m - 1) /\ T = Live(s + 1 .. m)
    OBVIOUS
  <2>3. S \in SUBSET (s + 1 .. m - 1) /\ T \in SUBSET (S \cup {m})
    BY <2>2 DEF Live
  <2>4. IsFiniteSet(S) /\ Cardinality(S) \in Nat
    <3>1. PICK c \in Int, d \in Int : c = s + 1 /\ d = m - 1
      OBVIOUS
    <3>2. QED
      BY <2>3, <3>1, FiniteParts
  <2>5. IsFiniteSet(S \cup {m}) /\ Cardinality(S \cup {m}) <= Cardinality(S) + 1
    <3>1. /\ IsFiniteSet(S \cup {m})
          /\ Cardinality(S \cup {m}) = Cardinality(S) \/ Cardinality(S \cup {m}) = Cardinality(S) + 1
      BY <2>4, FS_AddElement
    <3>2. QED
      BY <2>4, <3>1
  <2>6. Cardinality(T) <= Cardinality(S \cup {m}) /\ IsFiniteSet(T)
    BY <2>3, <2>5, FS_Subset
  <2>7. Cardinality(T) \in Nat /\ Cardinality(S \cup {m}) \in Nat
    BY <2>5, <2>6, FS_CardinalityType
  <2>8. Cardinality(T) <= Cardinality(S) + 1
    BY <2>4, <2>5, <2>6, <2>7
  <2>9. QED
    BY <1>6, <2>1, <2>2, <2>8
<1>8. ReadPart(s + 1 .. b) = s + 1 .. m
  <2>1. \A p \in s + 1 .. m : p \in ReadPart(s + 1 .. b)
    BY <1>2, <1>5
  <2>2. ASSUME NEW p \in s + 1 .. b, p > m
        PROVE p \notin ReadPart(s + 1 .. b)
    <3>1. m < b /\ m + 1 <= p /\ p \in Nat /\ m + 1 \in Nat
      BY <2>2
    <3>2. Before(m + 1) <= Before(p) /\ Before(p) \in Nat
      BY <1>3, <3>1
    <3>3. collected + Before(m + 1) >= Limit
      BY <1>5, <3>1
    <3>4. ~(collected + Before(p) < Limit)
      <4> HIDE DEF Before
      <4>1. QED
        BY <1>7, <3>2, <3>3, PagingAssumption
    <3>5. QED
      BY <1>2, <3>4
  <2>3. ReadPart(s + 1 .. b) \subseteq s + 1 .. b
    BY <1>2
  <2>4. QED
    <3>1. PICK R : R = ReadPart(s + 1 .. b)
      OBVIOUS
    <3>2. \A p \in s + 1 .. b : p > m => p \notin R
      BY <2>2, <3>1
    <3>3. R \subseteq s + 1 .. b /\ s + 1 .. m \subseteq R
      BY <2>1, <2>3, <3>1
    <3>4. s \in Int /\ b \in Int /\ m \in Int
      OBVIOUS
    <3>5. R = s + 1 .. m
      BY <3>2, <3>3, <3>4, HeadOf
    <3>6. QED
      BY <3>1, <3>5
<1>9. collected + Before(m) < Limit
  BY <1>5
<1>10. collected + Before(m + 1) <= Limit /\ (m < b => collected + Before(m + 1) = Limit)
  <2> HIDE DEF Before
  <2>1. QED
    BY <1>5, <1>7, <1>9, PagingAssumption
<1>11. QED
  BY <1>6, <1>8, <1>10

\* The numbers of a fetch that has not failed.
LEMMA ReadNumbers ==
  ASSUME ScanIInv, phase # "failed"
  PROVE /\ Len(kind) \in Nat /\ scanned \in Nat /\ collected \in Nat
        /\ scanned <= Len(kind) /\ scanned <= MaxScan /\ Len(kind) <= MaxQueue
        /\ collected <= scanned /\ collected <= Limit /\ offset = collected
        /\ collected = Cardinality(Live(1..scanned))
<1>1. Len(kind) \in Nat /\ scanned \in Nat /\ scanned <= MaxScan /\ ReadsOn
  BY PagingAssumption, LenProperties DEF ScanIInv
<1>2. PICK s \in Nat, L \in SUBSET Int : s = scanned /\ L = Live(1..s)
  <2>1. Live(1..scanned) \in SUBSET Int
    BY DEF Live
  <2>2. QED
    BY <1>1, <2>1
<1>3. L \in SUBSET (1..s)
  BY <1>2 DEF Live
<1>4. IsFiniteSet(1..s) /\ Cardinality(1..s) = s
  <2>1. PICK c \in Int, d \in Int : c = 1 /\ d = s
    OBVIOUS
  <2>2. IsFiniteSet(c..d) /\ Cardinality(c..d) = IF c > d THEN 0 ELSE d - c + 1
    BY FS_Interval
  <2>3. QED
    BY <2>1, <2>2
<1>5. IsFiniteSet(L) /\ Cardinality(L) <= s
  BY <1>3, <1>4, FS_Subset
<1>6. Cardinality(L) \in Nat
  BY <1>5, FS_CardinalityType
<1>7. QED
  BY <1>1, <1>2, <1>5, <1>6 DEF ReadsOn, ScanIInv

LEMMA ReadKeeps ==
  ASSUME ScanIInv, ReadPage
  PROVE ScanIInv'
<1>1. /\ phase = "paging" /\ scanned < MaxScan /\ collected < Limit /\ Page # {} /\ kind' = kind
      /\ ReadsOn
  BY DEF ReadPage, ScanIInv
<1>2. PICK s \in Nat, n \in Nat, c \in Nat : s = scanned /\ n = Len(kind) /\ c = collected
  BY <1>1, ReadNumbers
<1>3. /\ s <= n /\ n <= MaxQueue /\ c = Cardinality(Live(1..s)) /\ offset = c
      /\ ToFetch \in Nat /\ MaxScan \in Nat /\ Limit \in Nat /\ s < MaxScan
  BY <1>1, <1>2, ReadNumbers, PageSize, PagingAssumption
<1>4. PICK b \in Nat : /\ Page = s + 1 .. b /\ s <= b /\ b <= n /\ b <= MaxScan
                       /\ b < n => b = s + ToFetch
  BY <1>1, <1>2, PageNext
<1>5. s < b
  BY <1>1, <1>4
<1>6. PICK m \in s + 1 .. b :
         /\ ReadPart(s + 1 .. b) = s + 1 .. m
         /\ collected + Cardinality(Live(s + 1 .. m)) <= Limit
         /\ m < b => collected + Cardinality(Live(s + 1 .. m)) = Limit
  BY <1>1, <1>2, <1>5, ReadsHead
<1>7. PICK R, L, d : R = s + 1 .. m /\ L = Live(R) /\ d = Cardinality(L)
  OBVIOUS
<1>8. ReadPart(Page) = R
  BY <1>4, <1>6, <1>7
<1>9. m \in Nat /\ s < m /\ m <= b /\ c + d <= Limit /\ (m < b => c + d = Limit)
  BY <1>2, <1>6, <1>7
<1>10. /\ Live(1..m) = Live(1..s) \cup L /\ Cardinality(Live(1..m)) = c + d /\ d \in Nat
  <2>1. s <= m
    BY <1>9
  <2>2. /\ Live(1..m) = Live(1..s) \cup Live(s + 1 .. m)
        /\ Cardinality(Live(1..m)) = Cardinality(Live(1..s)) + Cardinality(Live(s + 1 .. m))
        /\ Cardinality(Live(s + 1 .. m)) \in Nat
    BY <1>9, <2>1, LiveParts
  <2>3. QED
    BY <1>3, <1>7, <2>2
<1>11. Cardinality(R) = m - s /\ Cardinality(Page) = b - s
  <2>1. PICK i \in Int, j \in Int, k \in Int : i = s + 1 /\ j = m /\ k = b
    BY <1>9
  <2>2. /\ Cardinality(i..j) = IF i > j THEN 0 ELSE j - i + 1
        /\ Cardinality(i..k) = IF i > k THEN 0 ELSE k - i + 1
    BY FS_Interval
  <2>3. Cardinality(i..j) = m - s /\ Cardinality(i..k) = b - s
    BY <1>5, <1>9, <2>1, <2>2
  <2>4. QED
    BY <1>4, <1>7, <2>1, <2>3
<1>12. /\ scanned' = m /\ collected' = c + d /\ offset' = c + d
       /\ found' = Live(1..m)
  <2>1. /\ scanned' = scanned + Cardinality(R) /\ collected' = collected + Cardinality(L)
        /\ offset' = offset + Cardinality(L) /\ found' = found \cup L
    BY <1>7, <1>8 DEF ReadPage, NextOffset
  <2>2. found = Live(1..s)
    BY <1>1, <1>2 DEF ReadsOn
  <2>3. scanned' = s + (m - s)
    BY <1>2, <1>11, <2>1
  <2>4. scanned' = m /\ collected' = c + d /\ offset' = c + d
    <3>1. s + (m - s) = m
      BY <1>9
    <3>2. QED
      BY <1>2, <1>3, <1>7, <2>1, <2>3, <3>1
  <2>5. QED
    BY <1>10, <2>1, <2>2, <2>4
<1>13. entries' = Live(1..m) \cup (m + 1 .. n)
  <2>1. entries' = entries \ (R \ L)
    BY <1>7, <1>8 DEF ReadPage, Purge
  <2>2. PICK F, G : F = Live(1..s) /\ G = Live(1..m)
    OBVIOUS
  <2>3. entries = F \cup (s + 1 .. n) /\ G = F \cup L
    BY <1>1, <1>2, <1>10, <2>2 DEF ReadsOn
  <2>4. F \subseteq 1..s /\ L \subseteq R
    BY <1>7, <2>2 DEF Live
  <2>5. s + 1 .. n = R \cup (m + 1 .. n) /\ R \cap (m + 1 .. n) = {} /\ R \cap (1..s) = {}
    BY <1>4, <1>7, <1>9
  <2>6. PICK T : T = m + 1 .. n
    OBVIOUS
  <2>7. entries' = F \cup L \cup T
    <3>1. F \cap R = {}
      BY <2>4, <2>5
    <3>2. entries = F \cup R \cup T /\ R \cap T = {}
      BY <2>3, <2>5, <2>6
    <3>3. QED
      BY <2>1, <2>4, <3>1, <3>2
  <2>8. QED
    BY <2>2, <2>3, <2>6, <2>7
<1>14. phase' \in {"paging", "done"} /\ (phase' = "done" => Cardinality(Page) < ToFetch)
  BY DEF ReadPage
<1>15. Live(1..m)' = Live(1..m) /\ Len(kind)' = n
  BY <1>1, <1>2 DEF Live
<1>16. ReadsOn'
  <2>1. scanned' <= Len(kind') /\ m <= n
    BY <1>1, <1>2, <1>4, <1>9, <1>12
  <2>2. found' = Live(1..scanned)'
    <3>1. Live(1..scanned)' = {p \in 1..m : kind[p] = "live"}
      BY <1>1, <1>12 DEF Live
    <3>2. QED
      BY <1>12, <3>1 DEF Live
  <2>3. entries' = found' \cup (scanned' + 1 .. Len(kind'))
    BY <1>1, <1>2, <1>12, <1>13
  <2>4. collected' = Cardinality(found') /\ offset' = collected' /\ collected' <= Limit
    BY <1>9, <1>10, <1>12
  <2>5. QED
    BY <2>1, <2>2, <2>3, <2>4 DEF ReadsOn
<1>17. phase' = "done" => collected' = Limit \/ scanned' = Len(kind')
  <2>1. phase' = "done" => b - s < ToFetch
    BY <1>11, <1>14
  <2>2. b - s < ToFetch => b = n
    BY <1>3, <1>4
  <2>3. m = b \/ c + d = Limit
    BY <1>4, <1>9
  <2>4. QED
    BY <1>1, <1>2, <1>12, <2>1, <2>2, <2>3
<1>18. scanned' \in 0..MaxScan
  BY <1>3, <1>4, <1>9, <1>12
<1>19. kind' \in Seq(Kinds) /\ Len(kind') <= MaxQueue
  BY <1>1 DEF ScanIInv
<1>20. QED
  BY <1>14, <1>16, <1>17, <1>18, <1>19 DEF ScanIInv

LEMMA FailKeeps ==
  ASSUME ScanIInv, FailPage
  PROVE ScanIInv'
<1>1. PICK last \in {0} \cup ReadPart(Page) :
         entries' = Purge(entries, {p \in ReadPart(Page) : p <= last})
  BY DEF FailPage
<1>2. /\ phase = "paging" /\ kind' = kind /\ offset' = offset /\ scanned' = scanned
      /\ found' = {} /\ collected' = 0 /\ phase' = "failed" /\ ReadsOn
  BY DEF FailPage, ScanIInv
<1>3. PICK R : R = {p \in ReadPart(Page) : p <= last}
  OBVIOUS
<1>4. entries' = entries \ (R \ Live(R))
  BY <1>1, <1>3 DEF Purge
<1>5. PICK s \in Nat, n \in Nat : s = scanned /\ n = Len(kind)
  BY <1>2, ReadNumbers
<1>6. s <= n /\ n <= MaxQueue /\ offset \in Nat /\ offset <= s
  BY <1>2, <1>5, ReadNumbers
<1>7. entries = Live(1..s) \cup (s + 1 .. n)
  BY <1>2, <1>5 DEF ReadsOn
<1>8. entries' \subseteq Queue
  <2>1. Live(1..s) \subseteq 1..s
    BY DEF Live
  <2>2. QED
    BY <1>4, <1>5, <1>6, <1>7, <2>1 DEF Queue
<1>9. Live(Queue) \subseteq entries'
  <2>1. SUFFICES ASSUME NEW p \in 1..n, kind[p] = "live"
                 PROVE p \in entries'
    BY <1>5 DEF Live, Queue
  <2>2. p \in entries
    BY <1>6, <1>7, <2>1 DEF Live
  <2>3. p \notin R \ Live(R)
    BY <2>1 DEF Live
  <2>4. QED
    BY <1>4, <2>2, <2>3
<1>10. Queue' = Queue /\ Live(Queue)' = Live(Queue)
  BY <1>2 DEF Queue, Live
<1>11. offset' \in 0..MaxQueue
  BY <1>2, <1>6, PagingAssumption
<1>12. kind' \in Seq(Kinds) /\ Len(kind') <= MaxQueue /\ scanned' \in 0..MaxScan
  BY <1>2 DEF ScanIInv
<1>13. QED
  BY <1>2, <1>8, <1>9, <1>10, <1>11, <1>12 DEF ScanIInv

LEMMA FinishKeeps ==
  ASSUME ScanIInv, Finish
  PROVE ScanIInv'
<1>1. /\ phase = "paging" /\ phase' = "done" /\ ReadsOn
      /\ scanned >= MaxScan \/ collected >= Limit \/ Page = {}
      /\ kind' = kind /\ entries' = entries /\ offset' = offset /\ scanned' = scanned
      /\ found' = found /\ collected' = collected
  BY DEF Finish, ScanIInv
<1>2. ReadsOn'
  BY <1>1 DEF ReadsOn, Live
<1>3. /\ Len(kind) \in Nat /\ scanned \in Nat /\ collected \in Nat
      /\ scanned <= MaxScan /\ collected <= Limit /\ scanned <= Len(kind)
  BY <1>1, ReadNumbers
<1>4. collected = Limit \/ scanned = MaxScan \/ scanned = Len(kind)
  <2>1. CASE scanned >= MaxScan \/ collected >= Limit
    BY <1>3, <2>1, PagingAssumption
  <2>2. CASE Page = {} /\ scanned < MaxScan
    <3>1. PICK b \in Nat : /\ Page = scanned + 1 .. b /\ scanned <= b /\ b <= Len(kind)
                           /\ b < Len(kind) => b = scanned + ToFetch
      BY <1>1, <2>2, PageNext
    <3>2. b = scanned
      BY <1>3, <2>2, <3>1
    <3>3. ToFetch \in Nat \ {0}
      BY <2>2, PageSize
    <3>4. QED
      BY <1>3, <3>1, <3>2, <3>3
  <2>3. QED
    BY <1>1, <1>3, <2>1, <2>2, PagingAssumption
<1>5. QED
  BY <1>1, <1>2, <1>4 DEF ScanIInv

LEMMA ScanInvariant == ScanSpec => []ScanIInv
<1>1. ScanInit => ScanIInv
  <2> SUFFICES ASSUME ScanInit PROVE ScanIInv
    OBVIOUS
  <2>1. PICK n \in 0..MaxQueue : kind \in [1..n -> Kinds]
    BY DEF ScanInit
  <2>2. n \in Nat /\ n <= MaxQueue
    BY PagingAssumption
  <2>3. kind \in Seq(Kinds) /\ Len(kind) = n
    BY <2>1, <2>2
  <2>4. /\ entries = 1..n /\ offset = 0 /\ scanned = 0 /\ found = {} /\ collected = 0
        /\ phase = "paging"
    BY <2>3 DEF ScanInit, Queue
  <2>5. ReadsOn
    <3>1. Live(1..scanned) = {} /\ 1..n = {} \cup (0 + 1 .. n)
      BY <2>4 DEF Live
    <3>2. Cardinality({}) = 0
      BY FS_EmptySet
    <3>3. QED
      BY <2>2, <2>3, <2>4, <3>1, <3>2, PagingAssumption DEF ReadsOn
  <2>6. QED
    BY <2>2, <2>3, <2>4, <2>5, PagingAssumption DEF ScanIInv
<1>2. ScanIInv /\ [ScanNext]_scanVars => ScanIInv'
  <2>1. ASSUME ScanIInv, UNCHANGED scanVars PROVE ScanIInv'
    BY <2>1 DEF scanVars, ScanIInv, ReadsOn, Live, Queue
  <2>2. QED
    BY <2>1, ReadKeeps, FailKeeps, FinishKeeps DEF ScanNext
<1>3. QED
  BY <1>1, <1>2, PTL DEF ScanSpec

\* The types of the paging state, and that a call reads at most MaxScan entries
\* and collects at most Limit actions, one collected twice counting twice.
\* (FetchDue)
THEOREM ScanTypeCorrect == ScanSpec => []ScanTypeOK
<1>1. ASSUME ScanIInv PROVE ScanTypeOK
  <2>1. CASE phase # "failed"
    <3>1. /\ Len(kind) \in Nat /\ scanned \in Nat /\ collected \in Nat
          /\ scanned <= Len(kind) /\ Len(kind) <= MaxQueue
          /\ collected <= scanned /\ collected <= Limit /\ offset = collected
      BY <1>1, <2>1, ReadNumbers
    <3>2. offset \in 0..MaxQueue /\ collected \in 0..Limit
      BY <3>1, PagingAssumption
    <3>3. found = Live(1..scanned) /\ entries = found \cup (scanned + 1 .. Len(kind))
      BY <1>1, <2>1 DEF ScanIInv, ReadsOn
    <3>4. found \subseteq 1..scanned
      BY <3>3 DEF Live
    <3>5. found \subseteq Queue /\ entries \subseteq Queue
      BY <3>1, <3>3, <3>4 DEF Queue
    <3>6. QED
      BY <1>1, <3>2, <3>5 DEF ScanIInv, ScanTypeOK
  <2>2. CASE phase = "failed"
    <3>1. collected \in 0..Limit
      BY <1>1, <2>2, PagingAssumption DEF ScanIInv
    <3>2. QED
      BY <1>1, <2>2, <3>1 DEF ScanIInv, ScanTypeOK
  <2>3. QED
    BY <2>1, <2>2
<1>2. QED
  BY <1>1, ScanInvariant, PTL

\* The rank of an action among those of the queue counts the actions up to it.
LEMMA RankLive ==
  ASSUME NEW n \in Nat, NEW p \in Nat, p <= n
  PROVE Rank(p, Live(1..n)) = Cardinality(Live(1..p))
<1>1. {q \in Live(1..n) : q <= p} = Live(1..p)
  BY DEF Live
<1>2. QED
  BY <1>1 DEF Rank

\* A later action has a higher rank.
LEMMA LiveGrows ==
  ASSUME NEW a \in Nat, NEW b \in Nat, a <= b
  PROVE /\ Cardinality(Live(1..a)) \in Nat /\ Cardinality(Live(1..b)) \in Nat
        /\ Cardinality(Live(1..a)) <= Cardinality(Live(1..b))
        /\ a < b /\ kind[b] = "live" => Cardinality(Live(1..a)) < Cardinality(Live(1..b))
<1>1. PICK S, T : S = Live(1..a) /\ T = Live(1..b)
  OBVIOUS
<1>2. S \in SUBSET T /\ T \in SUBSET (1..b)
  BY <1>1 DEF Live
<1>3. PICK c \in Int, d \in Int : c = 1 /\ d = b
  OBVIOUS
<1>4. IsFiniteSet(T) /\ Cardinality(T) \in Nat
  BY <1>2, <1>3, FiniteParts
<1>5. /\ IsFiniteSet(S) /\ Cardinality(S) <= Cardinality(T)
      /\ Cardinality(T) = Cardinality(S) => T = S
  BY <1>2, <1>4, FS_Subset
<1>6. Cardinality(S) \in Nat
  BY <1>5, FS_CardinalityType
<1>7. ASSUME a < b, kind[b] = "live" PROVE T # S
  <2>1. b \in 1..b /\ b \notin 1..a
    BY <1>7
  <2>2. b \in T /\ b \notin S
    BY <1>1, <1>7, <2>1 DEF Live
  <2>3. QED
    BY <2>2
<1>8. QED
  BY <1>1, <1>4, <1>5, <1>6, <1>7

\* A finished call returns the first Limit actions of the first MaxScan entries,
\* each once, whatever was removed from the queue between its pages.  (FetchDue)
THEOREM EarliestReturned == ScanSpec => []ReturnsEarliestActions
<1>1. ASSUME ScanIInv, phase = "done" PROVE found = Expected /\ collected = Cardinality(Expected)
  <2>1. ReadsOn /\ phase # "failed"
    BY <1>1 DEF ScanIInv
  <2>2. PICK s \in Nat, n \in Nat, c \in Nat : s = scanned /\ n = Len(kind) /\ c = collected
    BY <1>1, <2>1, ReadNumbers
  <2>3. /\ s <= n /\ s <= MaxScan /\ c <= Limit /\ c = Cardinality(Live(1..s))
        /\ MaxScan \in Nat /\ Limit \in Nat
    BY <1>1, <2>1, <2>2, ReadNumbers, PagingAssumption
  <2>4. c = Limit \/ s = MaxScan \/ s = n
    BY <1>1, <2>2 DEF ScanIInv
  <2>5. ASSUME NEW p \in 1..n, kind[p] = "live"
        PROVE p <= s <=> p <= MaxScan /\ Rank(p, Live(1..n)) <= Limit
    <3>1. p \in Nat /\ p <= n
      OBVIOUS
    <3>2. Rank(p, Live(1..n)) = Cardinality(Live(1..p))
      BY <3>1, RankLive
    <3>3. CASE p <= s
      <4>1. Cardinality(Live(1..p)) \in Nat /\ Cardinality(Live(1..p)) <= Cardinality(Live(1..s))
        BY <3>1, <3>3, LiveGrows
      <4>2. PICK r \in Nat : r = Cardinality(Live(1..p)) /\ r <= c
        BY <2>3, <4>1
      <4>3. p <= MaxScan /\ r <= Limit
        BY <2>3, <3>1, <3>3, <4>2
      <4>4. QED
        BY <3>2, <3>3, <4>2, <4>3
    <3>4. CASE p > s
      <4>1. s <= p /\ s < p
        BY <3>1, <3>4
      <4>2. Cardinality(Live(1..p)) \in Nat /\ Cardinality(Live(1..s)) < Cardinality(Live(1..p))
        BY <2>5, <3>1, <4>1, LiveGrows
      <4>3. PICK r \in Nat : r = Cardinality(Live(1..p)) /\ c < r
        BY <2>3, <4>2
      <4>4. ~(p <= MaxScan /\ r <= Limit)
        BY <2>3, <2>4, <3>1, <3>4, <4>3
      <4>5. QED
        BY <3>1, <3>2, <3>4, <4>3, <4>4
    <3>5. QED
      BY <3>1, <3>3, <3>4
  <2>6. Expected = {p \in 1..n : kind[p] = "live" /\ p <= MaxScan /\ Rank(p, Live(1..n)) <= Limit}
    BY <2>2 DEF Expected, Queue, Live
  <2>7. found = {p \in 1..s : kind[p] = "live"}
    BY <2>1, <2>2 DEF ReadsOn, Live
  <2>8. \A p \in 1..n : p \in Expected <=> kind[p] = "live" /\ p <= s
    BY <2>5, <2>6
  <2>9. found = Expected
    <3>1. PICK X : X = Expected
      OBVIOUS
    <3>2. X \subseteq 1..n /\ \A p \in 1..n : p \in X <=> kind[p] = "live" /\ p <= s
      BY <2>6, <2>8, <3>1
    <3>3. \A p : p \in 1..s <=> p \in 1..n /\ p <= s
      BY <2>3
    <3>4. found = X
      BY <2>7, <3>2, <3>3
    <3>5. QED
      BY <3>1, <3>4
  <2>10. QED
    BY <2>1, <2>9 DEF ReadsOn
<1>2. ScanIInv => ReturnsEarliestActions
  BY <1>1 DEF ReturnsEarliestActions
<1>3. QED
  BY <1>2, ScanInvariant, PTL

\* Whether a call succeeds or fails, only entries that cannot run leave the
\* queue, and one that finds nothing leaves nothing of what it read.  (FetchDue's
\* ZREM)
THEOREM OnlyDeadPurged == ScanSpec => []OnlyDeadEntriesPurged
<1>1. ASSUME ScanIInv PROVE Live(entries) = Live(Queue)
  <2>1. CASE phase = "failed"
    <3>1. entries \subseteq Queue /\ Live(Queue) \subseteq entries
      BY <1>1, <2>1 DEF ScanIInv
    <3>2. QED
      BY <3>1 DEF Live
  <2>2. CASE phase # "failed"
    <3>1. PICK s \in Nat, n \in Nat : s = scanned /\ n = Len(kind) /\ s <= n
      BY <1>1, <2>2, ReadNumbers
    <3>2. entries = Live(1..s) \cup (s + 1 .. n)
      BY <1>1, <2>2, <3>1 DEF ScanIInv, ReadsOn
    <3>3. \A p : p \in 1..n <=> p \in 1..s \/ p \in s + 1 .. n
      BY <3>1
    <3>4. QED
      BY <3>1, <3>2, <3>3 DEF Live, Queue
  <2>3. QED
    BY <2>1, <2>2
<1>2. ASSUME ScanIInv, phase = "done", found = {}
      PROVE /\ Cardinality(entries) <= Len(kind) - scanned
            /\ scanned = MaxScan \/ entries = {}
  <2>1. ReadsOn /\ phase # "failed"
    BY <1>2 DEF ScanIInv
  <2>2. PICK s \in Nat, n \in Nat : s = scanned /\ n = Len(kind) /\ s <= n
    BY <1>2, <2>1, ReadNumbers
  <2>3. entries = s + 1 .. n
    BY <1>2, <2>1, <2>2 DEF ReadsOn
  <2>4. Cardinality(entries) = n - s
    <3>1. PICK i \in Int, j \in Int : i = s + 1 /\ j = n
      OBVIOUS
    <3>2. Cardinality(i..j) = IF i > j THEN 0 ELSE j - i + 1
      BY FS_Interval
    <3>3. Cardinality(i..j) = n - s
      BY <2>2, <3>1, <3>2
    <3>4. QED
      BY <2>3, <3>1, <3>3
  <2>5. collected = 0
    BY <1>2, <2>1, FS_EmptySet DEF ReadsOn
  <2>6. s = MaxScan \/ s = n
    BY <1>2, <2>2, <2>5, PagingAssumption DEF ScanIInv
  <2>7. s = n => entries = {}
    BY <2>3
  <2>8. QED
    BY <2>2, <2>4, <2>6, <2>7
<1>3. ScanIInv => OnlyDeadEntriesPurged
  BY <1>1, <1>2 DEF OnlyDeadEntriesPurged
<1>4. QED
  BY <1>3, ScanInvariant, PTL

\* Actions are collected in the order of the queue: none that is found later was
\* due before one that was found already.  (FetchDue's append)
THEOREM OrderKept == ScanSpec => FoundInOrder
<1>1. ASSUME ScanIInv, ReadPage
      PROVE \A p \in found, q \in found' \ found : p < q
  <2>1. phase = "paging" /\ phase # "failed" /\ ReadsOn /\ scanned < MaxScan
    BY <1>1 DEF ReadPage, ScanIInv
  <2>2. PICK s \in Nat : s = scanned
    BY <1>1, <2>1, ReadNumbers
  <2>3. PICK b \in Nat : Page = s + 1 .. b
    BY <1>1, <2>1, <2>2, PageNext
  <2>4. found' = found \cup Live(ReadPart(Page))
    BY <1>1 DEF ReadPage
  <2>5. \A q \in Live(ReadPart(Page)) : q \in s + 1 .. b
    BY <2>3 DEF Live, ReadPart
  <2>6. \A p \in found : p \in 1..s
    BY <2>1, <2>2 DEF ReadsOn, Live
  <2>7. QED
    BY <2>4, <2>5, <2>6
<1>2. ASSUME ScanIInv, [ScanNext]_scanVars
      PROVE [\A p \in found, q \in found' \ found : p < q]_scanVars
  <2>1. found' = found \/ found' = {} => \A p \in found, q \in found' \ found : p < q
    OBVIOUS
  <2>2. ScanNext => \A p \in found, q \in found' \ found : p < q
    BY <1>1, <1>2, <2>1 DEF ScanNext, FailPage, Finish
  <2>3. QED
    BY <1>2, <2>2
<1>3. QED
  BY <1>2, ScanInvariant, PTL DEF ScanSpec, FoundInOrder
=============================================================================
