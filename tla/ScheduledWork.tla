--------------------------- MODULE ScheduledWork ---------------------------
(***************************************************************************)
(* The queue of scheduled actions that internal/scheduling keeps in        *)
(* Valkey, the workers that drain it, the services that register work in   *)
(* it, and the rescue service that cancels an actor's work.                *)
(*                                                                         *)
(* Every Valkey command is one atomic step, because the Go code issues     *)
(* them one by one without a transaction.  A command may also fail: the    *)
(* caller then sees an error although the server may or may not have       *)
(* executed it.  A process may stop between any two commands.              *)
(***************************************************************************)
EXTENDS Integers, FiniteSets

CONSTANTS
    Actions,      \* identifiers of scheduled actions
    FixedIDs,     \* those that start-up registers again, with the same ID
    Actors,       \* characters and other owners of work
    ActorOf,      \* the owner of each action
    Workers,      \* worker loops, one per server process
    Callers,      \* callers of Schedule
    Cancellers,   \* callers of CancelByActorID
    NoAction,
    MaxFaults,    \* bound on failed commands
    MaxCrashes    \* bound on process stops

ASSUME ConstantsAssumption ==
    /\ FixedIDs \subseteq Actions
    /\ ActorOf \in [Actions -> Actors]
    /\ NoAction \notin Actions
    /\ MaxFaults \in Nat
    /\ MaxCrashes \in Nat

VARIABLES
    payload,     \* stored state of each action, "none" when the key is absent
    volatile,    \* actions whose payload key has a TTL
    queue,       \* members of party2:scheduled:pending
    index,       \* actions in the Set of their actor
    locks,       \* actions whose lock key exists
    due,         \* actions whose ExecuteAt has passed
    lapsed,      \* actions whose RetainUntil has passed
    wpc,         \* next command of each worker
    scan,        \* queue entries a worker's FetchDue has still to read
    copy,        \* the actions a worker holds in memory, "none" if absent
    cur,         \* the action a worker is busy with
    expired,     \* the worker's Save found the retention already over
    spc,         \* next command of each Schedule call
    req,         \* the action it registers
    cpc,         \* next command of each CancelByActorID call
    rest,        \* members of the actor's Set it has still to remove
    snap,        \* the members it read
    runs,        \* how often the handler of an action was dispatched
    attempted,   \* actions Schedule was called for
    accepted,    \* actions a Schedule call returned nil for
    cancelled,   \* actions a successful CancelByActorID has removed
    faults,
    crashes

store == <<payload, volatile, queue, index, locks>>
clock == <<due, lapsed>>
worker == <<wpc, scan, copy, cur, expired>>
caller == <<spc, req>>
canceller == <<cpc, rest, snap>>
history == <<runs, attempted, accepted, cancelled>>
budget == <<faults, crashes>>
vars == <<store, clock, worker, caller, canceller, history, budget>>

Terminal == {"completed", "failed"}
States == {"none", "pending", "processing"} \union Terminal

WorkerSteps == {"idle", "scan", "drop", "pick", "acquire", "begin", "handle",
                "store", "unlock", "unindex", "purge", "dequeue"}
CallerSteps == {"idle", "set", "sadd", "zadd", "undoIndex", "undoPayload"}
CancelSteps == {"idle", "remove", "delPayload", "delLock"}

(***************************************************************************)
(* One Valkey command.  ok: the caller sees success.  done: the server     *)
(* executed it.  A failed command may or may not have been executed.       *)
(***************************************************************************)
Command(ok, done) ==
    /\ ok => done
    /\ faults' = IF ok THEN faults ELSE faults + 1
    /\ faults' <= MaxFaults

With(done, S, a) == IF done THEN S \union {a} ELSE S
Without(done, S, a) == IF done THEN S \ {a} ELSE S

\* No key of any action exists; also the empty batch of a worker.
Nothing == [a \in Actions |-> "none"]

Init ==
    /\ payload = Nothing
    /\ volatile = {} /\ queue = {} /\ index = {} /\ locks = {}
    /\ due = {} /\ lapsed = {}
    /\ wpc = [w \in Workers |-> "idle"]
    /\ scan = [w \in Workers |-> {}]
    /\ copy = [w \in Workers |-> Nothing]
    /\ cur = [w \in Workers |-> NoAction]
    /\ expired = [w \in Workers |-> FALSE]
    /\ spc = [c \in Callers |-> "idle"]
    /\ req = [c \in Callers |-> NoAction]
    /\ cpc = [x \in Cancellers |-> "idle"]
    /\ rest = [x \in Cancellers |-> {}]
    /\ snap = [x \in Cancellers |-> {}]
    /\ runs = [a \in Actions |-> 0]
    /\ attempted = {} /\ accepted = {} /\ cancelled = {}
    /\ faults = 0 /\ crashes = 0

-----------------------------------------------------------------------------
(***************************************************************************)
(* Registration: ValkeyRepository.Schedule.  The ID of an action is fresh, *)
(* except those start-up registers again for a boundary still to come.     *)
(***************************************************************************)
\* Mutant: start-up registers a boundary that has already passed.
RegistrableLate(a) == a \in FixedIDs \/ a \notin attempted

Registrable(a) == a \notin due /\ (a \in FixedIDs \/ a \notin attempted)

BeginSchedule(c, a) ==
    /\ spc[c] = "idle"
    /\ Registrable(a)
    /\ spc' = [spc EXCEPT ![c] = "set"]
    /\ req' = [req EXCEPT ![c] = a]
    /\ attempted' = attempted \union {a}
    /\ cancelled' = cancelled \ {a}
    /\ UNCHANGED <<store, clock, worker, canceller, runs, accepted, budget>>

\* Mutant: the call is over but its request is not forgotten.
ReturnScheduleKeepsRequest(c, ok) ==
    /\ spc' = [spc EXCEPT ![c] = "idle"]
    /\ accepted' = With(ok, accepted, req[c])
    /\ UNCHANGED req

\* The call returns: nil makes the action accepted.
ReturnSchedule(c, ok) ==
    /\ spc' = [spc EXCEPT ![c] = "idle"]
    /\ req' = [req EXCEPT ![c] = NoAction]
    /\ accepted' = With(ok, accepted, req[c])

SchedulePayload(c) == \E ok, done \in BOOLEAN :
    /\ spc[c] = "set"
    /\ Command(ok, done)
    /\ payload' = IF done THEN [payload EXCEPT ![req[c]] = "pending"]
                          ELSE payload
    /\ volatile' = Without(done, volatile, req[c])
    /\ IF ok THEN /\ spc' = [spc EXCEPT ![c] = "sadd"]
                  /\ UNCHANGED <<req, accepted>>
             ELSE ReturnSchedule(c, FALSE)
    /\ UNCHANGED <<queue, index, locks, clock, worker, canceller,
                   runs, attempted, cancelled, crashes>>

AfterIndex(ok) == IF ok THEN "zadd" ELSE "undoPayload"

ScheduleIndex(c) == \E ok, done \in BOOLEAN :
    /\ spc[c] = "sadd"
    /\ Command(ok, done)
    /\ index' = With(done, index, req[c])
    /\ spc' = [spc EXCEPT ![c] = AfterIndex(ok)]
    /\ UNCHANGED <<payload, volatile, queue, locks, clock, worker, req,
                   canceller, history, crashes>>

ScheduleEnqueue(c) == \E ok, done \in BOOLEAN :
    /\ spc[c] = "zadd"
    /\ Command(ok, done)
    /\ queue' = With(done, queue, req[c])
    /\ IF ok THEN ReturnSchedule(c, TRUE)
             ELSE /\ spc' = [spc EXCEPT ![c] = "undoIndex"]
                  /\ UNCHANGED <<req, accepted>>
    /\ UNCHANGED <<payload, volatile, index, locks, clock, worker, canceller,
                   runs, attempted, cancelled, crashes>>

\* The compensation of a failed call ignores the outcome of its commands.
ScheduleUndoIndex(c) == \E ok, done \in BOOLEAN :
    /\ spc[c] = "undoIndex"
    /\ Command(ok, done)
    /\ index' = Without(done, index, req[c])
    /\ spc' = [spc EXCEPT ![c] = "undoPayload"]
    /\ UNCHANGED <<payload, volatile, queue, locks, clock, worker, req,
                   canceller, history, crashes>>

ScheduleUndoPayload(c) == \E ok, done \in BOOLEAN :
    /\ spc[c] = "undoPayload"
    /\ Command(ok, done)
    /\ payload' = IF done THEN [payload EXCEPT ![req[c]] = "none"] ELSE payload
    /\ volatile' = Without(done, volatile, req[c])
    /\ ReturnSchedule(c, FALSE)
    /\ UNCHANGED <<queue, index, locks, clock, worker, canceller,
                   runs, attempted, cancelled, crashes>>

ScheduleStep(c) ==
    \/ \E a \in Actions : BeginSchedule(c, a)
    \/ SchedulePayload(c) \/ ScheduleIndex(c) \/ ScheduleEnqueue(c)
    \/ ScheduleUndoIndex(c) \/ ScheduleUndoPayload(c)

-----------------------------------------------------------------------------
(***************************************************************************)
(* The worker: FetchDue reads the due queue entries one by one, then       *)
(* processAction runs for each action it returned.                         *)
(***************************************************************************)
Goto(w, step) == wpc' = [wpc EXCEPT ![w] = step]

\* processActions gives up: the fetched batch is forgotten.
Abandon(w) ==
    /\ wpc' = [wpc EXCEPT ![w] = "idle"]
    /\ scan' = [scan EXCEPT ![w] = {}]
    /\ copy' = [copy EXCEPT ![w] = Nothing]
    /\ cur' = [cur EXCEPT ![w] = NoAction]
    /\ expired' = [expired EXCEPT ![w] = FALSE]

\* processAction returns: the worker turns to the rest of its batch.
NextInBatch(w) ==
    /\ Goto(w, "pick")
    /\ copy' = [copy EXCEPT ![w][cur[w]] = "none"]
    /\ cur' = [cur EXCEPT ![w] = NoAction]
    /\ UNCHANGED scan
    /\ expired' = [expired EXCEPT ![w] = FALSE]

\* Advance to the next command of the same action.
Advance(w, step) ==
    /\ Goto(w, step)
    /\ UNCHANGED <<scan, copy, cur, expired>>

Tick(w) ==
    /\ wpc[w] = "idle"
    /\ Goto(w, "scan")
    /\ scan' = [scan EXCEPT ![w] = queue \intersect due]
    /\ UNCHANGED <<store, clock, copy, cur, expired, caller, canceller,
                   history, budget>>

\* Mutant: a failed GET counts as a missing payload.
ReadResultErrorAsMissing(ok, state) ==
    IF ~ok \/ state \in {"none", "processing"} THEN "drop" ELSE "keep"

\* Mutant: a terminal record is an error, which ends the fetch.
ReadResultRejectsTerminal(ok, state) ==
    IF ~ok \/ state \in Terminal THEN "error"
    ELSE IF state = "pending" THEN "keep" ELSE "drop"

\* A missing or Processing payload loses its queue entry, the others join the
\* batch, and a failed GET abandons the whole fetch.
ReadResult(ok, state) ==
    IF ~ok THEN "error"
    ELSE IF state \in {"none", "processing"} THEN "drop" ELSE "keep"

ReadEntry(w) == \E a \in scan[w], ok \in BOOLEAN :
    /\ wpc[w] = "scan"
    /\ Command(ok, ok)
    /\ \/ /\ ReadResult(ok, payload[a]) = "error"
          /\ Abandon(w)
       \/ /\ ReadResult(ok, payload[a]) = "drop"
          /\ Goto(w, "drop")
          /\ scan' = [scan EXCEPT ![w] = @ \ {a}]
          /\ cur' = [cur EXCEPT ![w] = a]
          /\ UNCHANGED <<copy, expired>>
       \/ /\ ReadResult(ok, payload[a]) = "keep"
          /\ scan' = [scan EXCEPT ![w] = @ \ {a}]
          /\ copy' = [copy EXCEPT ![w][a] = payload[a]]
          /\ UNCHANGED <<wpc, cur, expired>>
    /\ UNCHANGED <<store, clock, caller, canceller, history, crashes>>

DropEntry(w) == \E ok, done \in BOOLEAN :
    /\ wpc[w] = "drop"
    /\ Command(ok, done)
    /\ queue' = Without(done, queue, cur[w])
    /\ IF ok THEN /\ Goto(w, "scan")
                  /\ cur' = [cur EXCEPT ![w] = NoAction]
                  /\ UNCHANGED <<scan, copy, expired>>
             ELSE Abandon(w)
    /\ UNCHANGED <<payload, volatile, index, locks, clock, caller, canceller,
                   history, crashes>>

EndFetch(w) ==
    /\ wpc[w] = "scan"
    /\ scan[w] = {}
    /\ Advance(w, "pick")
    /\ UNCHANGED <<store, clock, caller, canceller, history, budget>>

\* Mutant: terminal records are dispatched like pending ones.
FirstCommandDispatch(state) == "acquire"

\* Pending work needs the lock; a terminal record is only finalized.
FirstCommand(state) == IF state = "pending" THEN "acquire" ELSE "store"

PickAction(w) == \E a \in Actions :
    /\ wpc[w] = "pick"
    /\ copy[w][a] # "none"
    /\ cur' = [cur EXCEPT ![w] = a]
    /\ Goto(w, FirstCommand(copy[w][a]))
    /\ UNCHANGED <<store, clock, scan, copy, expired, caller, canceller,
                   history, budget>>

EndTick(w) ==
    /\ wpc[w] = "pick"
    /\ copy[w] = Nothing
    /\ Goto(w, "idle")
    /\ UNCHANGED <<store, clock, scan, copy, cur, expired, caller, canceller,
                   history, budget>>

\* Mutant: the handler is dispatched before Processing is stored.
AfterAcquireDispatch == "handle"

AfterAcquire == "begin"

\* SET NX EX 300, then MarkProcessing on the worker's copy.
AcquireLock(w) == \E ok, done \in BOOLEAN :
    /\ wpc[w] = "acquire"
    /\ Command(ok, done)
    /\ locks' = With(done, locks, cur[w])
    /\ IF ok /\ cur[w] \notin locks
       THEN /\ copy' = [copy EXCEPT ![w][cur[w]] = "processing"]
            /\ Goto(w, AfterAcquire)
            /\ UNCHANGED <<scan, cur, expired>>
       ELSE NextInBatch(w)
    /\ UNCHANGED <<payload, volatile, queue, index, clock, caller, canceller,
                   history, crashes>>

\* Save of the Processing record; on an error the lock is left to its TTL.
SaveProcessing(w) == \E ok, done \in BOOLEAN :
    /\ wpc[w] = "begin"
    /\ Command(ok, done)
    /\ payload' = IF done THEN [payload EXCEPT ![cur[w]] = "processing"]
                          ELSE payload
    /\ volatile' = Without(done, volatile, cur[w])
    /\ IF ok THEN Advance(w, "handle") ELSE NextInBatch(w)
    /\ UNCHANGED <<queue, index, locks, clock, caller, canceller,
                   history, crashes>>

\* The handler runs, however long it takes, and its error decides the outcome.
Handle(w) == \E outcome \in Terminal :
    /\ wpc[w] = "handle"
    /\ runs' = [runs EXCEPT ![cur[w]] = @ + 1]
    /\ copy' = [copy EXCEPT ![w][cur[w]] = outcome]
    /\ lapsed' = lapsed \ {cur[w]}
    /\ Goto(w, "store")
    /\ UNCHANGED <<store, due, scan, cur, expired, caller, canceller,
                   attempted, accepted, cancelled, budget>>

(***************************************************************************)
(* Save of a terminal record: the outcome first, queue membership last.    *)
(***************************************************************************)
SaveOutcome(w) == \E ok, done \in BOOLEAN :
    /\ wpc[w] = "store"
    /\ Command(ok, done)
    /\ payload' = IF done THEN [payload EXCEPT ![cur[w]] = copy[w][cur[w]]]
                          ELSE payload
    /\ volatile' = IF cur[w] \in lapsed THEN Without(done, volatile, cur[w])
                                        ELSE With(done, volatile, cur[w])
    /\ IF ok THEN /\ Goto(w, "unlock")
                  /\ expired' = [expired EXCEPT ![w] = cur[w] \in lapsed]
                  /\ UNCHANGED <<scan, copy, cur>>
             ELSE NextInBatch(w)
    /\ UNCHANGED <<queue, index, locks, clock, caller, canceller,
                   history, crashes>>

DeleteLock(w) == \E ok, done \in BOOLEAN :
    /\ wpc[w] = "unlock"
    /\ Command(ok, done)
    /\ locks' = Without(done, locks, cur[w])
    /\ IF ok THEN Advance(w, "unindex") ELSE NextInBatch(w)
    /\ UNCHANGED <<payload, volatile, queue, index, clock, caller, canceller,
                   history, crashes>>

\* Mutant: an error of SREM is ignored and the queue entry removed.
AfterRemoveIndexUnchecked(w, ok) ==
    Advance(w, IF expired[w] THEN "purge" ELSE "dequeue")

AfterRemoveIndex(w, ok) ==
    IF ok THEN Advance(w, IF expired[w] THEN "purge" ELSE "dequeue")
          ELSE NextInBatch(w)

RemoveIndex(w) == \E ok, done \in BOOLEAN :
    /\ wpc[w] = "unindex"
    /\ Command(ok, done)
    /\ index' = Without(done, index, cur[w])
    /\ AfterRemoveIndex(w, ok)
    /\ UNCHANGED <<payload, volatile, queue, locks, clock, caller, canceller,
                   history, crashes>>

DeleteExpired(w) == \E ok, done \in BOOLEAN :
    /\ wpc[w] = "purge"
    /\ Command(ok, done)
    /\ payload' = IF done THEN [payload EXCEPT ![cur[w]] = "none"] ELSE payload
    /\ volatile' = Without(done, volatile, cur[w])
    /\ IF ok THEN Advance(w, "dequeue") ELSE NextInBatch(w)
    /\ UNCHANGED <<queue, index, locks, clock, caller, canceller,
                   history, crashes>>

RemoveFromQueue(w) == \E ok, done \in BOOLEAN :
    /\ wpc[w] = "dequeue"
    /\ Command(ok, done)
    /\ queue' = Without(done, queue, cur[w])
    /\ NextInBatch(w)
    /\ UNCHANGED <<payload, volatile, index, locks, clock, caller, canceller,
                   history, crashes>>

WorkerStep(w) ==
    \/ Tick(w) \/ ReadEntry(w) \/ DropEntry(w) \/ EndFetch(w)
    \/ PickAction(w) \/ EndTick(w)
    \/ AcquireLock(w) \/ SaveProcessing(w) \/ Handle(w)
    \/ SaveOutcome(w) \/ DeleteLock(w) \/ RemoveIndex(w)
    \/ DeleteExpired(w) \/ RemoveFromQueue(w)

-----------------------------------------------------------------------------
(***************************************************************************)
(* CancelByActorID, called by rescue for one character.                    *)
(***************************************************************************)
BeginCancel(x, actor) ==
    LET members == {a \in index : ActorOf[a] = actor} IN
    /\ cpc[x] = "idle"
    /\ members # {}
    /\ cpc' = [cpc EXCEPT ![x] = "remove"]
    /\ rest' = [rest EXCEPT ![x] = members]
    /\ snap' = [snap EXCEPT ![x] = members]
    /\ UNCHANGED <<store, clock, worker, caller, history, budget>>

CancelReturns(x) ==
    /\ cpc' = [cpc EXCEPT ![x] = "idle"]
    /\ rest' = [rest EXCEPT ![x] = {}]
    /\ snap' = [snap EXCEPT ![x] = {}]

\* Mutant: the cancellation goes on after a failed command.
CancelGotoUnchecked(x, ok, step, left) ==
    /\ cpc' = [cpc EXCEPT ![x] = step]
    /\ rest' = [rest EXCEPT ![x] = left]
    /\ UNCHANGED snap

\* The member being removed stays in rest until its last command succeeded.
CancelGoto(x, ok, step, left) ==
    IF ok THEN /\ cpc' = [cpc EXCEPT ![x] = step]
               /\ rest' = [rest EXCEPT ![x] = left]
               /\ UNCHANGED snap
          ELSE CancelReturns(x)

\* The member the call is at: any fixed order of SMEMBERS will do.
Member(x) == CHOOSE a \in rest[x] : TRUE

CancelDequeue(x) == \E ok, done \in BOOLEAN :
    /\ cpc[x] = "remove"
    /\ rest[x] # {}
    /\ Command(ok, done)
    /\ queue' = Without(done, queue, Member(x))
    /\ CancelGoto(x, ok, "delPayload", rest[x])
    /\ UNCHANGED <<payload, volatile, index, locks, clock, worker, caller,
                   history, crashes>>

CancelPayload(x) == \E ok, done \in BOOLEAN :
    /\ cpc[x] = "delPayload"
    /\ Command(ok, done)
    /\ payload' = IF done THEN [payload EXCEPT ![Member(x)] = "none"]
                          ELSE payload
    /\ volatile' = Without(done, volatile, Member(x))
    /\ CancelGoto(x, ok, "delLock", rest[x])
    /\ UNCHANGED <<queue, index, locks, clock, worker, caller,
                   history, crashes>>

CancelLock(x) == \E ok, done \in BOOLEAN :
    /\ cpc[x] = "delLock"
    /\ Command(ok, done)
    /\ locks' = Without(done, locks, Member(x))
    /\ CancelGoto(x, ok, "remove", rest[x] \ {Member(x)})
    /\ UNCHANGED <<payload, volatile, queue, index, clock, worker, caller,
                   history, crashes>>

\* DEL of the actor's whole Set, whatever was added to it in the meantime.
CancelIndex(x) == \E ok, done \in BOOLEAN :
    LET owners == {ActorOf[a] : a \in snap[x]} IN
    /\ cpc[x] = "remove"
    /\ rest[x] = {}
    /\ Command(ok, done)
    /\ index' = IF done THEN {a \in index : ActorOf[a] \notin owners} ELSE index
    /\ cancelled' = IF ok THEN cancelled \union snap[x] ELSE cancelled
    /\ CancelReturns(x)
    /\ UNCHANGED <<payload, volatile, queue, locks, clock, worker, caller,
                   runs, attempted, accepted, crashes>>

CancelStep(x) ==
    \/ \E actor \in Actors : BeginCancel(x, actor)
    \/ CancelDequeue(x) \/ CancelPayload(x) \/ CancelLock(x) \/ CancelIndex(x)

-----------------------------------------------------------------------------
(***************************************************************************)
(* Time and process stops.                                                 *)
(***************************************************************************)
\* ExecuteAt lies further ahead than a Schedule call takes.
BecomeDue(a) ==
    /\ a \in attempted \ due
    /\ \A c \in Callers : req[c] # a
    /\ due' = due \union {a}
    /\ UNCHANGED <<store, lapsed, worker, caller, canceller, history, budget>>

\* RetainUntil is set when the handler returns, 24 hours ahead.
RetentionLapse(a) ==
    /\ runs[a] > 0
    /\ a \notin lapsed
    /\ lapsed' = lapsed \union {a}
    /\ UNCHANGED <<store, due, worker, caller, canceller, history, budget>>

PayloadExpires(a) ==
    /\ a \in volatile
    /\ payload' = [payload EXCEPT ![a] = "none"]
    /\ volatile' = volatile \ {a}
    /\ lapsed' = lapsed \union {a}
    /\ UNCHANGED <<queue, index, locks, due, worker, caller, canceller,
                   history, budget>>

\* Mutant: the lock is set without a TTL.
LockStays(a) == a \in locks /\ FALSE /\ UNCHANGED vars

LockExpires(a) ==
    /\ a \in locks
    /\ locks' = locks \ {a}
    /\ UNCHANGED <<payload, volatile, queue, index, clock, worker, caller,
                   canceller, history, budget>>

Crashes ==
    /\ crashes < MaxCrashes
    /\ crashes' = crashes + 1
    /\ UNCHANGED <<store, clock, history, faults>>

WorkerStops(w) ==
    /\ Crashes
    /\ wpc[w] # "idle"
    /\ Abandon(w)
    /\ UNCHANGED <<caller, canceller>>

CallerStops(c) ==
    /\ Crashes
    /\ spc[c] # "idle"
    /\ spc' = [spc EXCEPT ![c] = "idle"]
    /\ req' = [req EXCEPT ![c] = NoAction]
    /\ UNCHANGED <<worker, canceller>>

CancellerStops(x) ==
    /\ Crashes
    /\ cpc[x] # "idle"
    /\ CancelReturns(x)
    /\ UNCHANGED <<worker, caller>>

Environment ==
    \/ \E a \in Actions : \/ BecomeDue(a) \/ RetentionLapse(a)
                          \/ PayloadExpires(a) \/ LockExpires(a)
    \/ \E w \in Workers : WorkerStops(w)
    \/ \E c \in Callers : CallerStops(c)
    \/ \E x \in Cancellers : CancellerStops(x)

Next ==
    \/ \E c \in Callers : ScheduleStep(c)
    \/ \E w \in Workers : WorkerStep(w)
    \/ \E x \in Cancellers : CancelStep(x)
    \/ Environment

Spec == Init /\ [][Next]_vars

\* A running worker keeps taking steps, and Valkey keeps expiring locks.
Fairness ==
    /\ \A w \in Workers : WF_vars(WorkerStep(w))
    /\ \A a \in Actions : WF_vars(LockExpires(a))

FairSpec == Spec /\ Fairness

-----------------------------------------------------------------------------
(***************************************************************************)
(* Properties                                                              *)
(***************************************************************************)
(***************************************************************************)
(* Seen from outside, the queue is a set of pieces of work whose effect is *)
(* applied at most once: the stored state is the stage of the work, and a  *)
(* settled record may be dropped.                                          *)
(***************************************************************************)
StageOf(a) ==
    CASE payload[a] = "pending" -> "waiting"
      [] payload[a] = "processing" -> "started"
      [] payload[a] \in Terminal -> "settled"
      [] payload[a] = "none" -> IF runs[a] > 0 THEN "settled" ELSE "absent"

Once == INSTANCE OnceWork WITH
            stage <- [a \in Actions |-> StageOf(a)],
            effects <- runs

\* With one worker and no cancellation, the queue implements at-most-once
\* work: Processing is stored before the handler runs, an outcome only after.
ImplementsOnceWork == Once!AbsSpec

StoreTypeOK ==
    /\ payload \in [Actions -> States]
    /\ volatile \subseteq Actions /\ queue \subseteq Actions
    /\ index \subseteq Actions /\ locks \subseteq Actions

ClockTypeOK == due \subseteq Actions /\ lapsed \subseteq Actions

\* A worker has a current action exactly while it works on one.
WorkerTypeOK ==
    /\ wpc \in [Workers -> WorkerSteps]
    /\ scan \in [Workers -> SUBSET Actions]
    /\ copy \in [Workers -> [Actions -> States]]
    /\ cur \in [Workers -> Actions \union {NoAction}]
    /\ \A w \in Workers :
          cur[w] = NoAction <=> wpc[w] \in {"idle", "scan", "pick"}
    /\ expired \in [Workers -> BOOLEAN]

\* A Schedule call has a request exactly while it is under way.
CallerTypeOK ==
    /\ spc \in [Callers -> CallerSteps]
    /\ req \in [Callers -> Actions \union {NoAction}]
    /\ \A c \in Callers : req[c] = NoAction <=> spc[c] = "idle"

\* A cancellation between two commands of a member still has that member.
CancellerTypeOK ==
    /\ cpc \in [Cancellers -> CancelSteps]
    /\ rest \in [Cancellers -> SUBSET Actions]
    /\ snap \in [Cancellers -> SUBSET Actions]
    /\ \A x \in Cancellers :
          cpc[x] \in {"delPayload", "delLock"} => rest[x] # {}

HistoryTypeOK ==
    /\ runs \in [Actions -> Nat]
    /\ attempted \subseteq Actions /\ accepted \subseteq Actions
    /\ cancelled \subseteq Actions

BudgetTypeOK == faults \in 0..MaxFaults /\ crashes \in 0..MaxCrashes

\* Every variable has the type the code gives it.
TypeOK ==
    /\ StoreTypeOK /\ ClockTypeOK /\ WorkerTypeOK /\ CallerTypeOK
    /\ CancellerTypeOK /\ HistoryTypeOK /\ BudgetTypeOK

\* With one worker the handler of an action is dispatched at most once,
\* whatever commands fail, whenever locks expire and the process restarts.
HandledAtMostOnce == \A a \in Actions : runs[a] <= 1

\* The inductive form of HandledAtMostOnce.  What was dispatched is neither
\* stored nor held in memory as Pending, and registration never touches an
\* action once it is due, as everything a worker holds is.
NothingDispatchedIsPending ==
    \A a \in Actions : runs[a] > 0 =>
        /\ a \in due
        /\ payload[a] # "pending"
        /\ \A w \in Workers : copy[w][a] # "pending"

\* A worker about to dispatch has stored Processing and not yet dispatched.
DispatchIsFirst ==
    \A w \in Workers :
        /\ wpc[w] = "acquire" => copy[w][cur[w]] = "pending"
        /\ wpc[w] = "begin" => runs[cur[w]] = 0 /\ copy[w][cur[w]] # "pending"
        /\ wpc[w] = "handle" => runs[cur[w]] = 0 /\ payload[cur[w]] # "pending"
        /\ wpc[w] = "store" => copy[w][cur[w]] \in Terminal
        /\ \A a \in Actions : copy[w][a] = "processing" =>
              cur[w] = a /\ wpc[w] \in {"begin", "handle"}

HeldWorkIsDue ==
    /\ \A w \in Workers : \A a \in Actions :
          copy[w][a] # "none" \/ a \in scan[w] \/ cur[w] = a => a \in due
    /\ \A c \in Callers : req[c] \notin due

OnceInv ==
    /\ HandledAtMostOnce /\ NothingDispatchedIsPending
    /\ DispatchIsFirst /\ HeldWorkIsDue

SingleWorker == \A v, w \in Workers : v = w

\* Actions whose registration succeeded and is never repeated.
Reliable == accepted \ FixedIDs

\* Work whose registration succeeded stays queued and indexed until its
\* handler ran, or is left Processing for reconciliation.
AcceptedWorkKept ==
    \A a \in Reliable : runs[a] = 0 =>
        \/ payload[a] = "processing"
        \/ payload[a] = "pending" /\ a \in queue

\* Unfinished accepted work is visible to the actor query, overdue or not.
UnfinishedVisible ==
    \A a \in Reliable : payload[a] \in {"pending", "processing"} => a \in index

\* A stored outcome whose cleanup is incomplete is still queued, so that a
\* later tick finalizes it: no interrupted Save strands a terminal record.
CleanupRetryable ==
    \A a \in Reliable :
        payload[a] \in Terminal /\ (a \in index \/ a \notin volatile)
            => a \in queue

\* No record is out of reach: one that is unfinished is found through its
\* actor, and one whose cleanup is unfinished through the queue.  (Save)
RecordsReachable == UnfinishedVisible /\ CleanupRetryable

\* A stored outcome never changes and is never overwritten by an unfinished
\* state, and Processing never becomes Pending again.
OutcomesAreFinal ==
    [][\A a \in Actions :
         /\ payload[a] \in Terminal => payload'[a] \in {payload[a], "none"}
         /\ payload[a] = "processing" => payload'[a] # "pending"]_vars

\* Queued work that is due is eventually handled or left Processing, unless a
\* cancellation takes it out of the queue.
DueWorkHandled ==
    \A a \in Actions :
        a \in Reliable /\ a \in due /\ a \in queue
            ~> runs[a] > 0 \/ payload[a] = "processing" \/ a \notin queue

\* A stored outcome is eventually finalized: its action leaves the queue,
\* which CleanupRetryable allows only when the rest of the Save is done.
OutcomesFinalized ==
    \A a \in Actions :
        a \in Reliable /\ payload[a] \in Terminal /\ a \in queue ~> a \notin queue

\* Cancellation of an actor's only action, however its commands fail, never
\* leaves that action queued for execution but hidden from the actor's index.
CancelKeepsDiscovery ==
    \A a \in Reliable \intersect queue : payload[a] = "pending" => a \in index

\* Once CancelByActorID has removed an action, its handler is not dispatched.
CancelledWorkNotHandled ==
    [][\A a \in cancelled : runs'[a] = runs[a]]_vars
=============================================================================
