----------------------------- MODULE HomeSleep -----------------------------
(***************************************************************************)
(* Sleeping and waking of one character (internal/home).  The obligation   *)
(* to recover is kept twice: pending_wake in SQL and the asleep key in     *)
(* Valkey.  Sleep and Wake exclude each other with the waking claim, a     *)
(* Valkey key of 30 s that a heartbeat renews and whose value is the token *)
(* of the call that owns it; SQL changes run under the character's row     *)
(* lock.  Steps that follow each other without touching shared state, and  *)
(* a check that is repeated at once, are one step here.                    *)
(***************************************************************************)
EXTENDS Naturals, Sequences

CONSTANTS
    Requests,     \* concurrent requests for this character
    SqlHooks,     \* recovery hooks that write SQL, in the order Wake runs them
    NoOne,        \* no claim, or no row lock
    Orphan,       \* a claim whose call has ended, left to its TTL
    MaxSleepFaults, \* bound on failed commands and process stops
    MaxStalls,    \* bound on leases that lapse under a live call
    MaxRescues    \* bound on emergency rescues

ASSUME HomeAssumption ==
    /\ NoOne \notin Requests /\ Orphan \notin Requests /\ NoOne # Orphan
    /\ SqlHooks \in Seq(STRING) /\ Len(SqlHooks) > 0
    /\ MaxSleepFaults \in Nat /\ MaxStalls \in Nat /\ MaxRescues \in Nat

VARIABLES
    pendingWake,  \* characters.pending_wake
    tempJob,      \* Job Memory holds a temporary job
    used,         \* what a recovery still has to restore
    row,          \* holder of the character's row lock
    claim,        \* owner of timer:waking
    sleep,        \* timer:sleep: "none", "rest" or a rescue's "penalty"
    asleep,       \* timer:asleep exists
    pc,           \* next step of each call
    lost,         \* the call's keeper has lost the claim
    seen,         \* what the call remembers: hasTempJob, or char.PendingWake
    hook,         \* index of the SQL hook the call is at
    owed,         \* a Sleep returned success and its recovery is not over
    sleepFaults, stalls, rescues

sql == <<pendingWake, tempJob, used, row>>
timers == <<claim, sleep, asleep>>
calls == <<pc, lost, seen, hook>>
bounds == <<sleepFaults, stalls, rescues>>
homeVars == <<sql, timers, calls, owed, bounds>>

Restored == {"tired", "costume", "dungeon"} \cup {SqlHooks[i] : i \in 1..Len(SqlHooks)}

SleepSteps == {"s.check", "s.claim", "s.recheck", "s.mark", "s.markCommit",
               "s.ownTimer", "s.setTimer", "s.ownAsleep", "s.setAsleep",
               "s.ownJob", "s.job", "s.jobCommit", "s.ownDone"}
UndoSteps == {"u.asleep", "u.sleep", "u.flag", "u.flagCommit"}
WakeSteps == {"w.check", "w.pending", "w.claim", "w.recheck", "w.reverify",
              "w.recover", "w.recoverCommit", "w.ownHook", "w.hook",
              "w.ownCostume", "w.costume", "w.ownDungeon", "w.dungeon",
              "w.final", "w.finalCommit", "w.release"}
Steps == SleepSteps \cup UndoSteps \cup WakeSteps \cup {"idle", "release"}

Awake == ~pendingWake /\ ~asleep

HomeInit ==
    /\ pendingWake = FALSE /\ tempJob = FALSE /\ used = {} /\ row = NoOne
    /\ claim = NoOne /\ sleep = "none" /\ asleep = FALSE
    /\ pc = [c \in Requests |-> "idle"]
    /\ lost = [c \in Requests |-> FALSE]
    /\ seen = [c \in Requests |-> FALSE]
    /\ hook = [c \in Requests |-> 1]
    /\ owed = FALSE
    /\ sleepFaults = 0 /\ stalls = 0 /\ rescues = 0

-----------------------------------------------------------------------------
(* Where a call goes when the step it is at fails.                         *)
OnError(step) ==
    IF step \in {"s.check", "s.claim", "w.check", "w.pending", "w.claim"} THEN "idle"
    ELSE IF step \in {"s.ownTimer", "s.setTimer"} THEN "u.flag"
    ELSE IF step \in {"s.ownAsleep", "s.setAsleep"} THEN "u.sleep"
    ELSE IF step \in {"s.ownJob", "s.job", "s.jobCommit", "s.ownDone"} THEN "u.asleep"
    ELSE IF step = "u.asleep" THEN "u.sleep"
    ELSE IF step = "u.sleep" THEN "u.flag"
    ELSE "release"

HomeGoto(c, step) == pc' = [pc EXCEPT ![c] = step]

Fails(c) ==
    /\ sleepFaults < MaxSleepFaults
    /\ sleepFaults' = sleepFaults + 1
    /\ UNCHANGED <<stalls, rescues>>
    /\ HomeGoto(c, OnError(pc[c]))

\* The step is done; its answer arrives or is lost.
Done(c, next) == (HomeGoto(c, next) /\ UNCHANGED bounds) \/ Fails(c)

Owns(c) == claim = c /\ ~lost[c]

Keep(c) == UNCHANGED <<lost, seen, hook>>

\* checkOwnership: a claim that is gone also cancels the call's context.
CheckOwner(c, at, next) ==
    /\ pc[c] = at
    /\ HomeGoto(c, IF Owns(c) THEN next ELSE OnError(at))
    /\ lost' = [lost EXCEPT ![c] = ~Owns(c)]
    /\ UNCHANGED <<sql, timers, seen, hook, owed, bounds>>

\* (mutant) ownership is not checked again inside the transaction
EnterTxUnchecked(c, at, allowed, next) ==
    /\ pc[c] = at
    /\ row = NoOne
    /\ IF allowed
         THEN row' = c /\ HomeGoto(c, next)
         ELSE UNCHANGED row /\ HomeGoto(c, OnError(at))
    /\ UNCHANGED <<pendingWake, tempJob, used, timers, lost, seen, hook, owed, bounds>>

\* The first part of mutateCharacter: the row lock, then the checks made
\* inside the transaction.
EnterTx(c, at, allowed, next) ==
    /\ pc[c] = at
    /\ row = NoOne
    /\ IF Owns(c) /\ allowed
         THEN row' = c /\ HomeGoto(c, next)
         ELSE UNCHANGED row /\ HomeGoto(c, OnError(at))
    /\ lost' = [lost EXCEPT ![c] = ~Owns(c)]
    /\ UNCHANGED <<pendingWake, tempJob, used, timers, seen, hook, owed, bounds>>

LeaveTx(c, next) == row = c /\ row' = NoOne /\ Done(c, next)

\* A recovery obligation that nothing records any more is over.
Settle == owed' = (owed /\ (pendingWake' \/ asleep'))

-----------------------------------------------------------------------------
(* A command fails without effect; a transaction is rolled back.           *)
StepFails(c) ==
    /\ pc[c] \notin {"idle", "release"}
    /\ Fails(c)
    /\ row' = IF row = c THEN NoOne ELSE row
    /\ Keep(c)
    /\ UNCHANGED <<pendingWake, tempJob, used, timers, owed>>

\* The local state of a call goes with it.
Forget(c) ==
    /\ lost' = [lost EXCEPT ![c] = FALSE]
    /\ seen' = [seen EXCEPT ![c] = FALSE]
    /\ hook' = [hook EXCEPT ![c] = 1]

Crash(c) ==
    /\ pc[c] # "idle"
    /\ sleepFaults < MaxSleepFaults
    /\ sleepFaults' = sleepFaults + 1
    /\ HomeGoto(c, "idle")
    /\ row' = IF row = c THEN NoOne ELSE row
    /\ claim' = IF claim = c THEN Orphan ELSE claim
    /\ Forget(c)
    /\ UNCHANGED <<pendingWake, tempJob, used, sleep, asleep, owed, stalls, rescues>>

\* (mutant) SET without NX
TryClaimOverwrites(c, at, next) ==
    /\ pc[c] = at
    /\ claim' = c
    /\ HomeGoto(c, next)
    /\ Keep(c)
    /\ UNCHANGED <<sql, sleep, asleep, owed, bounds>>

TryClaim(c, at, next) ==
    /\ pc[c] = at
    /\ \/ /\ claim # NoOne
          /\ HomeGoto(c, "idle")
          /\ UNCHANGED <<claim, bounds>>
       \/ /\ claim = NoOne
          /\ claim' = c
          /\ HomeGoto(c, next)
          /\ UNCHANGED bounds
       \/ /\ claim = NoOne    \* taken, but the answer is lost: nobody releases it
          /\ claim' = Orphan
          /\ Fails(c)
    /\ Keep(c)
    /\ UNCHANGED <<sql, sleep, asleep, owed>>

ReleaseClaim(c) ==
    /\ pc[c] = "release"
    /\ HomeGoto(c, "idle")
    /\ \/ /\ claim' = IF claim = c THEN NoOne ELSE claim
          /\ UNCHANGED bounds
       \/ /\ sleepFaults < MaxSleepFaults
          /\ sleepFaults' = sleepFaults + 1
          /\ claim' = IF claim = c THEN Orphan ELSE claim
          /\ UNCHANGED <<stalls, rescues>>
    /\ Forget(c)
    /\ UNCHANGED <<sql, sleep, asleep, owed>>

-----------------------------------------------------------------------------
(* Sleep                                                                   *)
BeginSleep(c) ==
    /\ pc[c] = "idle"
    /\ HomeGoto(c, "s.check")
    /\ Keep(c)
    /\ UNCHANGED <<sql, timers, owed, bounds>>

SleepCheck(c) ==
    /\ pc[c] = "s.check"
    /\ HomeGoto(c, IF sleep = "none" THEN "s.claim" ELSE "idle")
    /\ Keep(c)
    /\ UNCHANGED <<sql, timers, owed, bounds>>

SleepRecheck(c) ==
    /\ pc[c] = "s.recheck"
    /\ HomeGoto(c, IF sleep = "none" /\ ~asleep /\ Owns(c) THEN "s.mark" ELSE "release")
    /\ lost' = [lost EXCEPT ![c] = ~Owns(c)]
    /\ UNCHANGED <<sql, timers, seen, hook, owed, bounds>>

MarkAllowed == ~pendingWake

CommitMark(c) ==
    /\ pc[c] = "s.markCommit"
    /\ pendingWake' = TRUE
    /\ LeaveTx(c, "s.ownTimer")
    /\ seen' = [seen EXCEPT ![c] = tempJob]
    /\ UNCHANGED <<tempJob, used, timers, lost, hook, owed>>

\* SetLock under the claim: the script writes the key only for the owner.
SetSleepTimer(c) ==
    /\ pc[c] = "s.setTimer"
    /\ \/ Owns(c) /\ sleep' = "rest" /\ Done(c, "s.ownAsleep")
       \/ ~Owns(c) /\ UNCHANGED <<sleep, bounds>> /\ HomeGoto(c, OnError("s.setTimer"))
    /\ Keep(c)
    /\ UNCHANGED <<sql, claim, asleep, owed>>

SetAsleep(c) ==
    /\ pc[c] = "s.setAsleep"
    /\ \/ Owns(c) /\ asleep' = TRUE /\ Done(c, "s.ownJob")
       \/ ~Owns(c) /\ UNCHANGED <<asleep, bounds>> /\ HomeGoto(c, OnError("s.setAsleep"))
    /\ Keep(c)
    /\ UNCHANGED <<sql, claim, sleep, owed>>

\* (mutant) Job Memory is left alone
CheckBeforeNoJob(c) ==
    /\ pc[c] = "s.ownJob"
    /\ HomeGoto(c, IF Owns(c) THEN "release" ELSE "u.asleep")
    /\ lost' = [lost EXCEPT ![c] = ~Owns(c)]
    /\ owed' = (owed \/ Owns(c))
    /\ UNCHANGED <<sql, timers, seen, hook, bounds>>

\* The check after the asleep key: with no temporary job it is the last one.
CheckBeforeJob(c) ==
    /\ pc[c] = "s.ownJob"
    /\ HomeGoto(c, IF ~Owns(c) THEN "u.asleep" ELSE IF seen[c] THEN "s.job" ELSE "release")
    /\ lost' = [lost EXCEPT ![c] = ~Owns(c)]
    /\ owed' = (owed \/ (Owns(c) /\ ~seen[c]))
    /\ UNCHANGED <<sql, timers, seen, hook, bounds>>

CommitJob(c) ==
    /\ pc[c] = "s.jobCommit"
    /\ tempJob' = FALSE
    /\ LeaveTx(c, "s.ownDone")
    /\ Keep(c)
    /\ UNCHANGED <<pendingWake, used, timers, owed>>

SleepReturns(c) ==
    /\ pc[c] = "s.ownDone"
    /\ HomeGoto(c, IF Owns(c) THEN "release" ELSE "u.asleep")
    /\ lost' = [lost EXCEPT ![c] = ~Owns(c)]
    /\ owed' = (owed \/ Owns(c))
    /\ UNCHANGED <<sql, timers, seen, hook, bounds>>

SleepStep(c) ==
    \/ SleepCheck(c)
    \/ TryClaim(c, "s.claim", "s.recheck")
    \/ SleepRecheck(c)
    \/ EnterTx(c, "s.mark", MarkAllowed, "s.markCommit")
    \/ CommitMark(c)
    \/ CheckOwner(c, "s.ownTimer", "s.setTimer")
    \/ SetSleepTimer(c)
    \/ CheckOwner(c, "s.ownAsleep", "s.setAsleep")
    \/ SetAsleep(c)
    \/ CheckBeforeJob(c)
    \/ EnterTx(c, "s.job", TRUE, "s.jobCommit")
    \/ CommitJob(c)
    \/ SleepReturns(c)

-----------------------------------------------------------------------------
(* rollbackSleepStart: every step is tried, whatever became of the others. *)
UndoAsleep(c) ==
    /\ pc[c] = "u.asleep"
    /\ asleep' = (asleep /\ claim # c)
    /\ Done(c, "u.sleep")
    /\ Keep(c)
    /\ UNCHANGED <<sql, claim, sleep>>
    /\ Settle

UndoSleep(c) ==
    /\ pc[c] = "u.sleep"
    /\ sleep' = IF claim = c THEN "none" ELSE sleep
    /\ Done(c, "u.flag")
    /\ Keep(c)
    /\ UNCHANGED <<sql, claim, asleep, owed>>

CommitUndo(c) ==
    /\ pc[c] = "u.flagCommit"
    /\ pendingWake' = FALSE
    /\ LeaveTx(c, "release")
    /\ Keep(c)
    /\ UNCHANGED <<tempJob, used, timers>>
    /\ Settle

UndoAllowed == TRUE

UndoStep(c) ==
    \/ UndoAsleep(c)
    \/ UndoSleep(c)
    \/ EnterTx(c, "u.flag", UndoAllowed, "u.flagCommit")
    \/ CommitUndo(c)

-----------------------------------------------------------------------------
(* Wake                                                                    *)
BeginWake(c) ==
    /\ pc[c] = "idle"
    /\ HomeGoto(c, "w.check")
    /\ Keep(c)
    /\ UNCHANGED <<sql, timers, owed, bounds>>

NotSleeping == sleep = "none"

WakeCheck(c, at, next) ==
    /\ pc[c] = at
    /\ HomeGoto(c, IF NotSleeping THEN next ELSE OnError(at))
    /\ Keep(c)
    /\ UNCHANGED <<sql, timers, owed, bounds>>

\* (mutant) only the SQL flag is looked at
WakePendingFlagOnly(c) ==
    /\ pc[c] = "w.pending"
    /\ HomeGoto(c, IF pendingWake THEN "w.claim" ELSE "idle")
    /\ Keep(c)
    /\ UNCHANGED <<sql, timers, owed, bounds>>

\* FindByID and, when pending_wake is unset, the asleep key.
WakePending(c) ==
    /\ pc[c] = "w.pending"
    /\ HomeGoto(c, IF Awake THEN "idle" ELSE "w.claim")
    /\ Keep(c)
    /\ UNCHANGED <<sql, timers, owed, bounds>>

\* (mutant) the obligation is not read again under the claim
WakeReverifyOwnerOnly(c) ==
    /\ pc[c] = "w.reverify"
    /\ HomeGoto(c, IF Owns(c) THEN "w.recover" ELSE "release")
    /\ lost' = [lost EXCEPT ![c] = ~Owns(c)]
    /\ UNCHANGED <<sql, timers, seen, hook, owed, bounds>>

WakeReverify(c) ==
    /\ pc[c] = "w.reverify"
    /\ HomeGoto(c, IF ~Awake /\ Owns(c) THEN "w.recover" ELSE "release")
    /\ lost' = [lost EXCEPT ![c] = ~Owns(c)]
    /\ UNCHANGED <<sql, timers, seen, hook, owed, bounds>>

CommitVitality(c) ==
    /\ pc[c] = "w.recoverCommit"
    /\ used' = used \ {"tired"}
    /\ seen' = [seen EXCEPT ![c] = pendingWake]
    /\ LeaveTx(c, "w.ownHook")
    /\ UNCHANGED <<pendingWake, tempJob, timers, lost, hook, owed>>

\* (mutant) one hook is enough
AfterHookLeaves(c) == "w.ownCostume"

AfterHook(c) == IF hook[c] < Len(SqlHooks) THEN "w.ownHook" ELSE "w.ownCostume"

\* (mutant) the index moves on after the last hook
RunHookPastEnd(c) ==
    /\ pc[c] = "w.hook"
    /\ used' = used \ {SqlHooks[hook[c]]}
    /\ Done(c, AfterHook(c))
    /\ hook' = [hook EXCEPT ![c] = @ + 1]
    /\ UNCHANGED <<pendingWake, tempJob, row, timers, lost, seen, owed>>

\* A hook commits its own SQL; only the context it runs under was checked.
RunHook(c) ==
    /\ pc[c] = "w.hook"
    /\ used' = used \ {SqlHooks[hook[c]]}
    /\ Done(c, AfterHook(c))
    /\ hook' = [hook EXCEPT ![c] = IF hook[c] < Len(SqlHooks) THEN hook[c] + 1 ELSE hook[c]]
    /\ UNCHANGED <<pendingWake, tempJob, row, timers, lost, seen, owed>>

\* A reset by the script that first compares the claim with the token.
ResetWithClaim(c, at, item, next) ==
    /\ pc[c] = at
    /\ \/ claim = c /\ used' = used \ {item} /\ Done(c, next)
       \/ claim # c /\ UNCHANGED <<used, bounds>> /\ HomeGoto(c, OnError(at))
    /\ Keep(c)
    /\ UNCHANGED <<pendingWake, tempJob, row, timers, owed>>

CheckBeforeDungeon(c) ==
    /\ pc[c] = "w.ownDungeon"
    /\ HomeGoto(c, IF Owns(c) /\ NotSleeping THEN "w.dungeon" ELSE "release")
    /\ lost' = [lost EXCEPT ![c] = ~Owns(c)]
    /\ UNCHANGED <<sql, timers, seen, hook, owed, bounds>>

AfterDungeon(c) == IF seen[c] THEN "w.final" ELSE "w.release"

CommitFinal(c) ==
    /\ pc[c] = "w.finalCommit"
    /\ pendingWake' = FALSE
    /\ LeaveTx(c, "w.release")
    /\ Keep(c)
    /\ UNCHANGED <<tempJob, used, timers>>
    /\ Settle

ReleaseAsleep(c) ==
    /\ pc[c] = "w.release"
    /\ \/ claim = c /\ asleep' = FALSE /\ Done(c, "release")
       \/ claim # c /\ UNCHANGED <<asleep, bounds>> /\ HomeGoto(c, "release")
    /\ Keep(c)
    /\ UNCHANGED <<sql, claim, sleep>>
    /\ Settle

WakeStep(c) ==
    \/ WakeCheck(c, "w.check", "w.pending")
    \/ WakePending(c)
    \/ TryClaim(c, "w.claim", "w.recheck")
    \/ WakeCheck(c, "w.recheck", "w.reverify")
    \/ WakeReverify(c)
    \/ EnterTx(c, "w.recover", NotSleeping, "w.recoverCommit")
    \/ CommitVitality(c)
    \/ CheckOwner(c, "w.ownHook", "w.hook")
    \/ RunHook(c)
    \/ CheckOwner(c, "w.ownCostume", "w.costume")
    \/ ResetWithClaim(c, "w.costume", "costume", "w.ownDungeon")
    \/ CheckBeforeDungeon(c)
    \/ ResetWithClaim(c, "w.dungeon", "dungeon", AfterDungeon(c))
    \/ EnterTx(c, "w.final", NotSleeping, "w.finalCommit")
    \/ CommitFinal(c)
    \/ ReleaseAsleep(c)

-----------------------------------------------------------------------------
(* The keeper's heartbeat, leases, timers and the other activities.        *)
Holding(c) == pc[c] \in (SleepSteps \cup UndoSteps \cup WakeSteps)
                          \ {"s.check", "s.claim", "w.check", "w.pending", "w.claim"}

Heartbeat(c) ==
    /\ Holding(c) /\ ~lost[c]
    /\ \/ claim # c /\ UNCHANGED bounds
       \/ /\ claim = c
          /\ sleepFaults < MaxSleepFaults
          /\ sleepFaults' = sleepFaults + 1
          /\ UNCHANGED <<stalls, rescues>>
    /\ lost' = [lost EXCEPT ![c] = TRUE]
    /\ UNCHANGED <<sql, timers, pc, seen, hook, owed>>

\* A lease that nobody renews: its call has ended, or was stalled too long.
ClaimLapses ==
    /\ claim # NoOne
    /\ \/ claim = Orphan /\ UNCHANGED stalls
       \/ claim # Orphan /\ stalls < MaxStalls /\ stalls' = stalls + 1
    /\ claim' = NoOne
    /\ UNCHANGED <<sql, sleep, asleep, calls, owed, sleepFaults, rescues>>

SleepExpires ==
    /\ sleep # "none"
    /\ sleep' = "none"
    /\ UNCHANGED <<sql, claim, asleep, calls, owed, bounds>>

\* Actions are admitted only to a character that is awake and owes nothing.
Play ==
    /\ Awake /\ sleep = "none" /\ row = NoOne
    /\ used' = Restored
    /\ tempJob' \in BOOLEAN
    /\ UNCHANGED <<pendingWake, row, timers, calls, owed, bounds>>

Rescue ==
    /\ rescues < MaxRescues
    /\ rescues' = rescues + 1
    /\ sleep' = "penalty"
    /\ UNCHANGED <<sql, claim, asleep, calls, owed, sleepFaults, stalls>>

CallStep(c) == SleepStep(c) \/ UndoStep(c) \/ WakeStep(c) \/ ReleaseClaim(c)

HomeNext ==
    \/ \E c \in Requests : BeginSleep(c) \/ BeginWake(c) \/ CallStep(c)
                          \/ StepFails(c) \/ Heartbeat(c) \/ Crash(c)
    \/ ClaimLapses \/ SleepExpires \/ Play \/ Rescue

HomeSpec == HomeInit /\ [][HomeNext]_homeVars

\* A player that keeps asking to wake up; the calls and the leases go on.
HomeFairness ==
    /\ \A c \in Requests : WF_homeVars(CallStep(c)) /\ SF_homeVars(BeginWake(c))
    /\ WF_homeVars(ClaimLapses) /\ WF_homeVars(SleepExpires)

HomeFairSpec == HomeSpec /\ HomeFairness


-----------------------------------------------------------------------------
(* Properties                                                              *)
HomeTypeOK ==
    /\ pendingWake \in BOOLEAN /\ tempJob \in BOOLEAN
    /\ used \subseteq Restored /\ row \in Requests \cup {NoOne}
    /\ claim \in Requests \cup {NoOne, Orphan}
    /\ sleep \in {"none", "rest", "penalty"} /\ asleep \in BOOLEAN
    /\ pc \in [Requests -> Steps]
    /\ lost \in [Requests -> BOOLEAN] /\ seen \in [Requests -> BOOLEAN]
    /\ hook \in [Requests -> 1..Len(SqlHooks)]
    /\ owed \in BOOLEAN
    /\ sleepFaults \in 0..MaxSleepFaults /\ stalls \in 0..MaxStalls /\ rescues \in 0..MaxRescues

\* Whoever slept gets the whole recovery: the obligation of a completed
\* Sleep ends only when everything it owes has been restored.
RecoveryComplete == [][owed /\ ~owed' => used' = {}]_homeVars

\* Nothing is restored for a character that owes no recovery, so a late or
\* second Wake gives nothing back to one that plays again.  A lease that has
\* lapsed under a live call lets one hook through.
RecoveryOnlyWhenOwed == [][stalls = 0 /\ used \ used' # {} => ~Awake]_homeVars

\* A sleeping character has no temporary job left.
TemporaryJobEnds == owed => ~tempJob

\* The obligation that a Wake has verified under its claim stays until that
\* Wake ends it: nobody else clears it, whatever failed before, as long as no
\* lease has lapsed under a live call.
VerifiedSteps == {"w.recover", "w.recoverCommit", "w.ownHook", "w.hook", "w.ownCostume",
                  "w.costume", "w.ownDungeon", "w.dungeon", "w.final", "w.finalCommit"}
VerifiedWakeOwed == stalls = 0 => \A c \in Requests : pc[c] \in VerifiedSteps => ~Awake

\* The compensation of a failed Sleep never touches what a Sleep that
\* succeeded has stored, even when it was stalled for longer than its lease.
CompensationKeepsSleep ==
    [][\A c \in Requests : owed /\ pc[c] \in UndoSteps /\ pc'[c] # pc[c]
         => UNCHANGED <<pendingWake, sleep, asleep>>]_homeVars

\* The timer of a rest runs only for a character that will be recovered, or
\* while the Sleep that set it is still at work.
RestLeadsToRecovery ==
    sleep = "rest" /\ (\A c \in Requests : pc[c] \notin SleepSteps \cup UndoSteps)
      => ~Awake

\* A player that keeps asking is woken up at last, recovered.
SleeperWakes == owed ~> ~owed
=============================================================================
