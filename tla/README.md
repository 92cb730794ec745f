# party2re: TLA+ models and proofs

This directory holds the formal models of party2re, the Go game server under
`src/`: TLA+ modules, TLC configurations and TLAPS proofs. Every definition is
translated from the Go code or the Lua scripts that `PROJECT.json` names for it
("map"). Documents under `src/docs` are quoted only where a model disagrees with
them.

Run a model with `tlc -config <file>.cfg <module>.tla` and a proof with
`tlapm <module>.tla`, both in this directory.

## 1. The system

party2re is one process: HTTP handlers (`internal/api/http`) call feature
services (`internal/<feature>`), which keep permanent state in MariaDB
(`internal/database`) and short-lived state in Valkey. A ticker in the same
process drains scheduled work. Requests run concurrently, one goroutine each;
several processes may share the two stores. No transaction spans MariaDB and
Valkey, so every feature that uses both decides on an order of commands and on a
way to go on when a command in the middle fails or the process stops. That is
where the hard behaviour of this system is, and what the models are about: the
battles, catalogues and texts are large, but a battle is a computation inside one
request, and its result is stored in one transaction.

### 1.1 Components, their state and what makes them correct

| Component | State | Operations | Interacts with | Correct when | Status |
|---|---|---|---|---|---|
| Scheduled work (`scheduling`, `core/scheduling`) | Valkey: a payload and a lock key per action, a sorted set of due times, a Set per actor | Schedule, FetchDue, processAction, Save, CancelByActorID, FindActiveByActorID | handlers of raffles, contests, crops, weddings; rescue cancels; start-up registers fixed IDs | accepted work is handled, at most once, and cleaned up; what is unfinished is visible to its actor | modelled, `ScheduledWork`, `FetchDueScan`, `OnceWork` |
| Sleep and wake (`home`, `core/timer`) | SQL: `pending_wake`, job memory, counters; Valkey: two timers and an owned claim of 30 s | Sleep, Wake, `rollbackSleepStart`, claim keeper | hooks of other features restore quotas; rescue sets a penalty timer; all activities are refused to a sleeper | a completed Sleep ends in one whole recovery; a failed one leaves nothing | modelled, `HomeSleep` |
| Colosseum bets (`pvp`, `database/pvp_transition_repository.go`) | SQL: wallets, claims, the latest transition of a room; Valkey: room, reverse mapping, lock of 10 s | create, join, select team, leave, start, advance; publication and its recovery | character wallets, battle | bets are taken, returned and shared once; nobody stays locked in | modelled, `Colosseum`, `BetEscrow` |
| Guild versus guild (`gvg`) | Valkey room, reverse mapping and lock of 10 s; SQL: the latest round, guild points | create, join, start, AdvanceRound(expected), leave | guilds, battle | a round is fought and rewarded once; a repeated request gets the retained outcome; a started match ends | modelled, `GuildMatch` |
| Challenge runs (`challenge`, `database/challenge_transition.go`) | SQL: coordinator, claims, command receipts, under the run's row lock; Valkey: the run hash with its revision | start, round, exit, publish, recover | party lobby, battle, fullness | what a member earned is paid once, when it leaves; Valkey is never left behind SQL; a claim ends with its publication | modelled, `ChallengeRun`, `PaidRoster` |
| Party lobby (`party`) | Valkey lobby, reverse mapping and ready answers changed by scripts; lease of 10 s; SQL: the row of the run a lobby may become, enrolments | create, apply, ready, leave, kick, disband, fight, depart, clean up | adventure, boss, challenge | a lobby that was admitted to a run is frozen and then cleared | partly, `PartyLobby` |
| Economy, bank, depot, auction, flea market | SQL rows under row locks | transfers, deposits, listings, purchases, withdrawals | characters | money and items are conserved up to caps; no deadlock; limits hold; a listing ends once | partly, `Market` |
| Player stores, gem transfers | SQL rows under row locks | build, offer, withdraw, buy, barter, hand over | characters, depots | as above; a barter has the consent of both | partly, `Market` |
| Recurring jobs (lottery, contest, plantation, god, park, chapel, altar, wishing well) | SQL rows | tickets, draw, settle, harvest | scheduled work | a round is drawn once; an interrupted handler may leave half of its effects | the lottery's tickets and draw in `Market`, the rest partly through `ScheduledWork` |
| Dungeon expeditions (`dungeon`) | Valkey: state and rewards of the leader, stepped by one script with a revision, a reference per member; SQL: the settlement, which claims the ID | start, move, fight, escape; freeze, settle, clean up | characters, inventories | an expedition is settled once, with the frozen outcome; nobody is in two | partly, `DungeonExpedition` |
| Boss expeditions (`boss`) | SQL receipts of a sealing; party lobby | complete a sealing, unseal | party, battle | one receipt per lobby; the lobby is cleaned up, never fought twice | planned |
| Casino (`casino`) | Valkey rooms and lock of 10 s; SQL chips | rooms of card games, slot, high-low | wallets | chips are conserved in a room | not modelled |
| Rate limits, plaza presence, sessions, maintenance | small Valkey keys | count, touch, read | HTTP layer | no key without a TTL, maintenance is seen by all | not modelled |
| Player context | none of its own | evaluate preconditions | sleep timers | pure evaluation; its one write, waking a sleeper whose time is over, is `Play` of `HomeSleep` | not modelled apart |
| Rescue, helper quests | one SQL row, one timer | rescue, contribute | scheduled work, sleep | `Rescue` of `HomeSleep`, the cancellations of `ScheduledWork` | as environment |
| Adventure and battle | in memory during a request | resolve a battle | almost everything | data-heavy arithmetic, out of TLC's reach; the stored result is one transaction | not modelled |
| Characters, jobs, items, guilds, shops, ranking, repositories, wiring | SQL rows, catalogues, caches | rules of single rows, reads | | rows change in single transactions; rules are data | not modelled |

`PROJECT.json` lists each of them with its sources and the reason for its status.

### 1.2 What is hard here

* **Order and partial failure.** A command that returned an error may have been
  executed; every prefix of a sequence of commands may be what is left.
* **Leases.** The locks of Colosseum, guild matches, parties and casino last 10 s
  and nobody renews them; the sleep claim lasts 30 s and its keeper may be stalled. A call
  that outlives its lease goes on with what it read.
* **Stale copies.** Workers act on fetched copies; room operations act on a Valkey
  copy of what SQL knows better.
* **Time.** Keys expire: locks, retained outcomes, rooms, reverse mappings.
* **Retries.** Clients ask again for what was already done; recovery repeats
  publications.
* **Row locks.** Transactions at READ COMMITTED hold some rows and look at others;
  the order in which they lock is a convention of the code.

The hazards are listed in `PROJECT.json`, each at its line and with the
properties that would catch it.

## 2. The modules

| Module | Models | Lines |
|---|---|---|
| `ScheduledWork` | queue, worker, registration, cancellation | one action per Valkey command |
| `OnceWork` | abstract: work is recorded as started, applied at most once, then settled | |
| `FetchDueScan` | the paged scan of `FetchDue` over every small queue | pure algorithm |
| `HomeSleep` | Sleep, its compensation, Wake, claim, timers | one action per step between two failures |
| `Colosseum` | rooms, bets, transitions, publication, lock | one action per command or transaction |
| `BetEscrow` | abstract: stakes are deposited, refunded or shared once | |
| `ChallengeRun` | runs, receipts, claims, publication, recovery | one action per command or transaction |
| `PaidRoster` | abstract: members enter together, earn, and are paid once when they leave | |
| `GuildMatch` | rooms, rounds, guild points, the retained round, lock | one action per command or transaction |
| `PartyLobby` | lobbies, ready answers, lease, admission and handoff | one action per command or transaction |
| `Market` | transfers, listings, stores, lottery as transactions with row locks | one action per row lock, one for the commit |
| `DungeonExpedition` | starts, steps, freezing, settlement and clean-up of expeditions | one action per script, command or transaction |
| `Actors` | the concurrent requests, shared by the modules above | |
| `MCParts`, `MCWork`, `MCHomeWork`, `MCSettlements` | small instances of several components | |
| `MCScheduledWork`, `MCHomeSleep`, `MCColosseum` | small instances of one, symmetry | |
| `ColosseumProofs`, `ChallengeRunProofs`, `GuildMatchProofs`, `DungeonExpeditionProofs`, `PartyLobbyProofs`, `MarketProofs` | theorems and proofs about the module of that name | |
| `HomeWorkProofs` | theorems and proofs about `ScheduledWork` and `HomeSleep` | |
| `SumProofs` | lemmas about `SumFunction`, the sum of a function over its domain, for the proofs about points, items and gold | |

`ScheduledWork` is shown to implement `OnceWork`, `Colosseum` to implement
`BetEscrow` and `ChallengeRun` to implement `PaidRoster`, each by an
`INSTANCE ... WITH` at the end of the detailed module.

`MCParts`, `MCWork`, `MCHomeWork` and `MCSettlements` put components side by side that share no state in the
code either. A behaviour of them is a behaviour of one part, chosen in the initial
state; the variables of the others stay as they were. So the states of such a run
are the sum of those of its parts, not their product, and a property of a part
means what it means in the part's own specification.
Definitions marked "(mutant)" or "Mutant:" are not used by any specification: each
is a plausible bug, and stands next to the definition it distorts to document that
the property named in `PROJECT.json` would notice it.

### 2.1 ScheduledWork

| State | Code |
|---|---|
| `payload`, `volatile` | `party2:scheduled:action:<id>`, and whether it has a TTL |
| `queue` | the sorted set `party2:scheduled:pending` |
| `index` | the Sets of active actions per actor |
| `locks` | the lock keys of 300 s |
| `due`, `lapsed` | the clock, as far as it matters: `ExecuteAt` and `RetainUntil` have passed |
| `wpc`, `scan`, `copy`, `cur`, `expired` | a worker's place in `processActions`, its batch and copies |
| `spc`, `req`; `cpc`, `rest`, `snap` | calls of `Schedule`; calls of `CancelByActorID` |
| `runs`, `attempted`, `accepted`, `cancelled` | history, read by the properties and, for fresh IDs, by `Registrable` |

`Schedule` is SET, SADD, ZADD and, on an error, SREM and DEL whose errors are
ignored. `FetchDue` reads the due entries one by one, drops what is missing or
Processing, and gives up on an error. `processAction` is SET NX of the lock, the
Save of Processing, the handler, and the terminal Save: outcome, lock, index, TTL,
queue, in that order. A retained terminal record is only finalized. `CancelByActorID`
is SMEMBERS, then ZREM, DEL, DEL for each member, then DEL of the Set. The TTL of the
lock, of the outcome and the moves of the clock are actions of their own.

Assumptions: `ExecuteAt` lies further ahead than one `Schedule` call takes; IDs are
fresh except the `FixedIDs` that start-up registers again for a boundary to come; the
order inside a batch is arbitrary; a fetch has one page (the paging is
`FetchDueScan`'s); unreadable payloads occur in `FetchDueScan` only; a handler's
own re-scheduling is not modelled.

### 2.2 FetchDueScan

The queue is a sorted set: `kind` says of each of up to `MaxQueue` positions what is stored there, "live" (Pending
or terminal), "processing" or "broken" (missing, unreadable or invalid), and `entries` which positions are still
queued. A page is what the ranks after the offset name (`Rank`, `Page`). A step reads a page up to the entry that
fills the limit (`ReadPart`), purges the entries that cannot run and moves the offset past those that stay; a command
that fails in the middle of a page, or the one that reads it, ends the fetch with an error. It ends at the limit, at
the scan limit or at the end of the queue. `found` is the set of entries whose actions have been appended, in the order
`FoundInOrder` speaks of; `collected` is the length of the slice, in which a repetition would count twice.

### 2.3 HomeSleep

| State | Code |
|---|---|
| `pendingWake`, `tempJob`, `used`, `row` | the flag, the job memory, what a rest restores, the row lock of the character |
| `claim`, `sleep`, `asleep` | the cycle claim, the sleep timer (a rest or a penalty), the asleep key |
| `pc`, `lost`, `seen`, `hook` | a call's step, whether its keeper cancelled its context, what it read, the next hook |
| `owed` | history: a Sleep has returned success and is not yet settled |

The steps are in the order of `sleep.go` and `wake.go`: unlocked checks, claim,
checks again under the claim, the transaction that sets `pending_wake`, the two
timers by scripts that compare the claim's token, the temporary job; for Wake
the vitality, each SQL hook, the costume, the dungeon quota, the final
transaction and the release of the asleep key. Before each there is the check of
ownership the code makes. A failure at any step leads where the code leads:
to the compensation, or to the release with the obligation left for the next
Wake.

Assumptions: one character; reads without a shared effect between them are one step;
an admission that is refused is a failing step; `Play`, everything else a player does,
is atomic with its admission; the asleep key's 365 days do not pass; the time-out
penalty of adventures (`adventure/normal_exit.go:65-83`) is left out.

### 2.4 Colosseum

| State | Code |
|---|---|
| `money` | `characters.money` |
| `claim` | `pvp_character_claims`, whose primary key reserves a character |
| `committed` | `pvp_room_transitions`, the room's latest transition, `pending` until acknowledged |
| `roomKey`, `mapping`, `lock` | the room, the reverse mapping and the room lock in Valkey |
| `call` | a request's step, its input, the version it found, what it is about to write |

A request enters `withRoomLock`, publishes what is pending, and acts on the room's
key. `Propose` is `commitTransition`: the version of the room must be the one found
under the lock, and `Commit` is the SQL transaction, which compares that version
again under the row's lock, inserts claims, moves money and stores the
transition. `PublishRoom`, `PublishMaps` and `Acknowledge` are
`publishTransition`; any of them may fail with or without its effect (`StepFails`),
the mappings with any part of theirs. `LockLapses` takes the lock from a live call;
`RoomExpires` and `MappingExpires` are the TTLs.

Assumptions: a call begins with its first command that is not refused; refusals that
read the character (HP, fatigue, password, names) may happen at any time; SaveRoom's
SET and ZADD are one step, and the index of active rooms and the lists read from it are
left out; all rooms have the same bet; wins and the victory hook are part of the
settling transaction and left out; room IDs are fresh; joining stops after
`MaxVersion` transitions of a room, so that rooms end.

### 2.5 ChallengeRun

| State | Code |
|---|---|
| `coord` | `challenge_run_transitions`: the latest publication, whether it is pending, who left with it |
| `enrolled`, `settled`, `claims`, `receipts` | participants, their settlements, `challenge_character_claims`, command results |
| `live`, `reference` | the run's hash with its revision; the reverse key of a member |
| `rowLock`, `cmd` | the lock of the run's row; a command's step and what it will commit |
| `past` | history: the revision whose deadline has passed |

A command locks the run's row, finishes a publication that is pending, reads the live
run, computes a draft (start, round or exit) and commits it with its receipt. The
publication is one script that compares revisions (`publish_run.lua`), then the
member keys, then the acknowledgement, which frees the claims of those who left. A
command may fail with or without effect, its process may stop, its database
connection may be lost while it goes on writing Valkey (`cuts`), and the
deadline of the live run may pass.

Assumptions: a battle is a choice of its survivors, who earn 1 each; records, the hall of fame
and `MigrateSession`, run once at an upgrade, are left out.

### 2.6 GuildMatch

| State | Code |
|---|---|
| `points`, `retained` | guild points; `gvg_match_transitions`, the latest round of a room |
| `gvRoom`, `gvMapping`, `gvLock` | room, reverse mapping and lock in Valkey |
| `gvCall` | a call's step, what it is about to write |

Rooms are created, joined, left and started in Valkey alone. `AdvanceRound` names the
round it expects: it commits that round in SQL with the points it earns, or finds it
retained, and writes the room that follows to Valkey. Only the latest round is
retained. The lock may lapse under a call; room and mapping expire on their own.

Assumptions: a battle is a choice of the guild that survives; trophies and victory counts follow
from the points; the list of active rooms is left out.

### 2.7 PartyLobby

| State | Code |
|---|---|
| `lobby`, `belongs`, `ready` | the party's key, the party of a character, the ready answers |
| `lease` | the lock of 10 s of `valkey_party_lock.go` |
| `runRow`, `heroRow` | the locks of the rows `normal_adventure_runs` and `characters` |
| `admission`, `engaged` | the admitted run of a lobby, and who is in an activity |
| `request` | a request's step, whom it is about, the roster it read |

A request takes the lease, the run's row, then the characters' rows in the order of
their IDs, checks again what it read, and writes. Admission commits the roster in SQL;
the lobby's keys are deleted afterwards, by the same request or by the next one of the
leader (`EnterAgain`).

Assumptions: IDs are bounded by `Parties`; a request does not lose its SQL session while it
goes on writing Valkey; the two keys of one member are deleted in one step; "depart"
stands for dungeon and challenge starts, which hold the lease only
(`WithReadyRoster`); a lobby `in_progress` whose process stopped stays until its TTL;
passwords, level and stage requirements, the daily-limited stage and what a battle yields are left out.

### 2.8 Market

| State | Code |
|---|---|
| `gold`, `saved`, `depot`, `bag`, `box` | wallet, deposit, depot, inventory, gem box |
| `listing`, `sale`, `store` | flea market listings, a store's sales, stores |
| `tickets`, `won` | tickets of the lottery's round, who has been paid |
| `held`, `deal` | who holds which row; what a transaction does and how far it has come |

Every operation is a sequence of row locks (`...Plan`) with what is checked when a row is
read, and one commit that writes everything. What is only looked at, such as the count of a
town's stores, may change before the commit. A transaction that fails writes nothing.

Assumptions: item metadata, equipment slots and the collection book are left out; a failing
statement, a limit that is not modelled and the guard that an actor is awake are all `Fail`.

### 2.9 DungeonExpedition

| State | Code |
|---|---|
| `buffer`, `spoils` | the leader's two hashes in Valkey: ID, revision, status, roster, who has fallen, used items, what each has earned; items and medals |
| `memberOf` | the reference of a member: leader and ID |
| `finished` | `dungeon_expedition_history`: the claimed ID, the outcome, what was paid |
| `pack`, `delverRow` | an item that is used up in a battle; the locks of the rows `characters` |
| `delve` | a request's step, its copy of state and rewards, the outcome it wants |
| `gone` | history: IDs of which a key expired or was overwritten |

`Admit` holds the rows of all members until the expedition is saved: one reference per
member, the state, the rewards, the commit, each a step of its own. `Move`, `Fight` and
`Escape` read the state (`AskDelve`), then the rewards (`LookIn`), compute, and end in one
call of `dungeon_step.lua`, which compares ID and revision (`Fenced`): a walk, a treasure, a
trap, a battle that is won, drawn or lost, or the freezing of an outcome (`Freeze`). A
request that finds the expedition frozen by another reads it again and settles it if it
is the outcome it wanted. `Finalize` is the SQL transaction, `Clean`, `ReleaseReference` and
`DeleteExpedition` are `DeleteActiveExpedition`. In between a request may break off at any step
(`BreakOff`), a start may lose its database connection and go on in Valkey (`CutOff`), both
hashes may expire (`Forgotten`), and a member may sell or give away an item that the expedition
counts on (`PartWith`).

Assumptions: what a tile holds, who falls and which items a battle uses are choices; every reward is 1; the map,
the count of turns, HP and MP are left out (any step may spend the last turn); the two hashes expire
together; the hook that counts defeated monsters and the in-memory store of tests are left out;
the lobby that hands its party over is that of `PartyLobby`, its lease is left out here.

## 3. The runs

| Run | Instance | Shows |
|---|---|---|
| `home_work_safe` | sleep: two calls, two hooks, 2 faults, 1 stall, 1 rescue; queue: one worker, one caller, a fresh and a fixed ID, 2 faults, 1 crash; 1,180,380 states | sleep: `RecoveryComplete`, `RecoveryOnlyWhenOwed`, `VerifiedWakeOwed`, `CompensationKeepsSleep`, `TemporaryJobEnds`; queue: `AcceptedWorkKept` (accepted work stays in the queue, with its payload, until it is handled or left Processing), `RecordsReachable` (what is unfinished is in its actor's Set, and an outcome that is not cleaned up is still queued), `OutcomesAreFinal`, `ImplementsOnceWork` |
| `work_live` | queue: one action, worker, caller, canceller, 2 faults, 1 crash; sleep: one call, two hooks, 2 faults, 1 rescue; lobby: one request, two heroes, 1 mishap; dungeon: one request, one expedition, 3 events; 56,979 states | `DueWorkHandled`, `OutcomesFinalized`, `HandledAtMostOnce`, `CancelKeepsDiscovery` (an interrupted cancellation does not hide what is queued); `SleeperWakes`; `HandoffCleared`; `SettlementCompletes` (a frozen expedition is settled and cleaned up) |
| `parts_safe` | two requests. Challenge: two members, two revisions, 1 cut. Match: one room, two guilds, 1 lapse. Market: two traders, two kinds of items, two transactions from three starts. Scan: every queue of up to 8 entries, limit 2, page 3, scan limit 7. Lobby: two heroes, one party, 1 lapse; 683,577 states | `ClaimsMatchRoster`, `AcknowledgedIsLive`, `RoundsFollow`; `ReferencesMatch`, `PointsMatchScores`; `NothingIsMade`, `PlacesHold`, `ConsentIsSpent`, `NoLockCycle`; `ReturnsEarliestActions`, `OnlyDeadEntriesPurged`; `HandoffFreezesRoster` |
| `parts_live` | one request. Bets: two characters, three rounds, 2 faults. Challenge: 1 fault, 1 deadline. Match: 2 faults, 1 expiry; 100,112 states | `BetsReturn`; `ClaimsReturn`, `ImplementsPaidRoster`; `MatchEnds` |
| `settlements_safe` | two requests. Bets: two characters, one room, 1 lapse, a wallet limit that the prize reaches. Dungeon: two members, one with an item, two expeditions, 3 events; 1,548,166 states | `ImplementsEscrow`: whatever a call read before it lost its lock, no bet is taken or paid twice; `LedgerSettledOnce`: what an expedition earns is earned step by step, frozen, paid once and only then deleted; `EnrolledOnce`: whoever is in an expedition is found there; `SettlementsTypeOK`, with `TypeOK` of the Colosseum |
| `colosseum_losses` | one call, two rooms, 1 fault, 1 lapse, 1 expiring key; 3,969,489 states | `ClaimsMatchStakes`, `CacheFollowsClaim` |
| `sched_two_workers` | two workers, no faults | violates `HandledAtMostOnce`, finding 1 |
| `sched_revived` | one worker, one canceller, no faults | violates `CancelledWorkNotHandled`, finding 2 |
| `home_rest_kept` | one call, one hook, 1 fault | violates `RestLeadsToRecovery`, finding 3 |
| `two_rooms` | one call, two rooms, 1 expiring key | violates `OneRoomEach`, finding 4 |
| `draw_deadlock` | two transactions of the market | violates `DrawNeverDeadlocks`, finding 5 |
| `two_parties` | two requests, two parties, no failure | violates `SingleActiveParty`, finding 6 |

State counts are those after symmetry reduction, where a run uses it. Liveness runs use no symmetry.

**Why the bounds are enough.** Two faults (one in `colosseum_losses`) reach every combination of a failed
command and a failed compensation of it, or of a failure in each of two successive
calls: no code path remembers more than one earlier failure, since what a failure
leaves behind is in the stores and the next call starts from there. One lapse and
two calls give the two writers of a lease; a second lapse gives the first writer
nothing it did not have, as it does not look at the lock again. Two characters are
leader and member, and fill the teams that a match needs; more members change only
the division of the prize, which the refinement theorem of section 4 covers. Two rooms
are what a reverse mapping can confuse. Two SQL hooks are a first and a last.
Two revisions of a challenge run are a round and the exit after it, with the publication of
the first still pending at the second. Two transactions of the market hold every pair of
rows against each other, and the three starts put a listing, a sale and a store in each of
their states; `PlacesHold` has limits of 1 or 2, which two transactions reach. The lobby of a
party of two has a leader and a member; a stale lease needs a second request.
Three events in the dungeon (`MaxEvents` counts starts, moves, fights and what goes wrong, together) are a
start and two steps that race, or a start, a step and a failure; exits are not counted. Two expeditions give a late
clean-up the next expedition to destroy. An instance with four events and no items (3,842,649 states) has been checked
once, too, and shows the same.
In the scan eight entries are three pages, and the scan limit cuts the third
one short. Counters have bounds in the guards
(`MaxFaults`, `MaxCrashes`, `MaxStalls`, `MaxRescues`, `MaxLapses`, `MaxExpiries`,
`MaxVersion`, `MaxRunFaults`, `MaxCuts`, `MaxDeadlines`, `MaxRevision`, `MaxGvFaults`,
`MaxGvLapses`, `MaxGvExpiries`, `MaxLeaseLapses`, `MaxMishaps`, `MaxDeals`, `MaxQueue`, `MaxExpeditions`, `MaxEvents`), so that runs are finite; the theorems leave them arbitrary.

**Deadlock** is checked in `home_work_safe`, `colosseum_losses` and the violation runs of the queue and of sleep. The runs
of `MCParts` have it off: a scan really ends, and a behaviour has `MaxDeals` transactions of the market. So have those of
`MCWork` and `MCSettlements`: when the expeditions and events of the dungeon are used up, nothing is left to
do in that part. Rows of the market that wait for each other are the subject of `NoLockCycle` instead.

**Fairness.** The worker is started with the process and its ticker never stops, so
each worker's steps are weakly fair, and so is the expiry of a lock, which the
server does; nothing is assumed of `Schedule`, of a cancellation or of the clock. A Sleep,
Wake or room operation is a goroutine that goes on, or fails within the bounds: weak
fairness of its steps. Locks, the claim and the sleep timer expire.
The steps of a command of a challenge run, a call of a guild match, a request of a lobby and one of a dungeon are weakly fair
likewise, and so is the expiry of a party's lease.
No fairness makes a player act, with exceptions that the properties are
about, in all of which a player asks again for what has not been finished: to wake up
(`BeginWake`), to leave or fight on in the Colosseum (`LeaderAsks`), to exit a run
(`Asks`), to advance a match (`AsksForRound`), to enter the adventure with a lobby that was
admitted (`EnterAgain`), to escape from an expedition that is frozen (`AskAgain`). These are strongly fair, since another call disables them in between. The runs
use a single caller for them: with two, a caller may lose the race for the lock for ever, which the retry loop of
`WithRoomLock` allows.

### 3.1 Findings

1. **A second worker handles an action again** (`sched_two_workers`).
   `AcquireLock` tests the lock key only, which the terminal Save has deleted, and
   `processAction` goes on from its Pending copy. With the one worker per
   deployment that `cmd/party2` starts, `HandledAtMostOnce` holds and is proved.
2. **Cancelled work is handled** (`sched_revived`): what is in a worker's batch is
   dispatched although `CancelByActorID` has returned.
3. **A rest without recovery** (`home_rest_kept`): when the write of the sleep timer is
   executed but its answer is lost, the compensation clears `pending_wake` and keeps
   the timer.
4. **A second guild-match room** (`two_rooms`): the key that keeps a character to one room is
   set when it enters and never renewed, while the room is; half an hour later the member of a live room
   may create or join another.
5. **The draw waits in a circle** (`draw_deadlock`): it locks the winners' depots without their
   characters' rows, every other operation the character first.
6. **A member of two lobbies** (`two_parties`): `CreateParty` and `JoinParty` ask for the character's
   party before they lock its row, and nobody asks again.

### 3.2 Further limits of the code seen while modelling

These are true of the models and are stated as provisos in the properties, not as
runs of their own.

* Scheduled work: the last DEL of a cancellation removes the actor's Set with work
  registered since SMEMBERS (`valkey_repository.go:296`); a cancelled action may come
  back as a Processing record that no query shows (`worker.go:111`); start-up
  registers a queued ID again, and the compensation of that call, if it fails, deletes
  the earlier registration (`valkey_repository.go:63`, `wire.go:270-274`).
* Sleep: the SQL of a hook that was stalled for longer than the lease restores after
  another Wake has ended (`wake.go:422`); the revert of `pending_wake` commits after the
  lease has lapsed and clears it under the next Wake (`sleep.go:283`); the timer of a
  Sleep replaces a rescue's penalty (`sleep.go:157`).
* Colosseum: a publication that outlives its lock overwrites a newer room, and a room
  whose key has expired can be neither left nor advanced; the money stays as
  `BetEscrow` says, but somebody has to recover it. `docs/architecture/transient-run-state.md`
  leaves the renewal of the lease open.
* Dungeon: an item used in a battle is taken from the inventory at the settlement only. If its owner has sold
  or given it away by then, `consumeBufferedItems` fails every settlement (`battle/buffered_participant.go:64`), and the party
  stays in the frozen expedition until its keys expire and the rewards are lost. When the database connection of a start
  is lost while it goes on in Valkey, its members may be in two expeditions: `EnrolledOnce` excepts that (`delveCuts`).
* Stores: two builders count the stores of a town, each under its own character's row: a town can exceed
  `MaxTownStores` (`store/service.go:206`), which `docs/design/store.md` limits to 10.
* Parties: the key that names a character's party is not renewed with the lobby, so it can expire first;
  the keyspace document gives a lobby 15 min, `docs/design/party-system.md` and the code 30 min.

## 4. The theorems

All proofs are for arbitrary constants: any number of calls, workers, actions,
characters, rooms, runs, expeditions, parties and failures. What they assume of the constants is the
named assumption of each module (`ConstantsAssumption`, `PagingAssumption`, `HomeAssumption`, `RunsAssumption`, `GuildMatchAssumption`,
`DungeonAssumption`, `PartyAssumption`, `MarketAssumption` with `RowsAssumption` and `StartsAssumption`, and `ActorsAssumption` of
the concurrent requests): finite sets of characters, teams, goods, listings and sales, distinct special values, an order of the
characters without ties, a first market within its limits in which whatever is offered has a seller (a foreign key of both tables), natural numbers, a page of `FetchDue` no smaller than its limit and a scan no smaller than a page, an order of the members of a party without ties, and in `GuildMatch` that joining does not add
more guild points to the pool than creating (1 and 2 in the code). Every run evaluates them.
Some theorems have a proviso, which is part of their statement: `SingleWorker` is the one worker loop that
`cmd/party2` starts, and `Cancellers = {}` an instance in which nobody cancels.

| Theorem | States | Argument |
|---|---|---|
| `HomeWorkProofs!WorkTypeCorrect` | `TypeOK` | each action keeps its own variables' types |
| `HomeWorkProofs!AtMostOnce` | one worker implies `HandledAtMostOnce` | `QueueInv`, `OnceInv` |
| `HomeWorkProofs!OutcomesAlwaysFinal` | one worker implies `OutcomesAreFinal` | and `CopyAgrees` |
| `HomeWorkProofs!OnceWorkImplemented` | one worker and no canceller imply `ImplementsOnceWork` | and `StageInv` |
| `HomeWorkProofs!AcceptedWorkAlwaysKept` | no canceller implies `AcceptedWorkKept` | `RequestStored` |
| `HomeWorkProofs!RecordsAlwaysReachable` | one worker and no canceller imply `RecordsReachable` | `ReachInv` |
| `HomeWorkProofs!CancelAlwaysKeepsDiscovery` | one action per actor implies `CancelKeepsDiscovery` | `DiscoveryInv` |
| `HomeWorkProofs!SleepTypeCorrect` | `HomeTypeOK` | `UnlessStalled` includes it |
| `HomeWorkProofs!VerifiedObligationStays` | `VerifiedWakeOwed` | `UnlessStalled` |
| `HomeWorkProofs!RecoveryOwed` | `RecoveryOnlyWhenOwed` | a step that restores is one of a call in `VerifiedSteps` |
| `HomeWorkProofs!TemporaryJobHasEnded` | `TemporaryJobEnds` | `OwedIInv` |
| `HomeWorkProofs!RecoveryAlwaysComplete` | `RecoveryComplete` | `OwedIInv` |
| `HomeWorkProofs!CompensationSparesSleep` | `CompensationKeepsSleep` | `OwedIInv` |
| `HomeWorkProofs!ScanTypeCorrect` | `ScanTypeOK` | part of `ScanIInv` |
| `HomeWorkProofs!EarliestReturned` | `ReturnsEarliestActions` | `ScanIInv`, and the ranks of actions |
| `HomeWorkProofs!OnlyDeadPurged` | `OnlyDeadEntriesPurged` | `ScanIInv` |
| `HomeWorkProofs!OrderKept` | `FoundInOrder`, which no run repeats | `ScanIInv`, of a page |
| `ColosseumProofs!TypeCorrect` | `TypeOK` | part of `IInv`: no wallet leaves 0..`MaxMoney` |
| `ColosseumProofs!ClaimsCorrect` | `ClaimsMatchStakes` | part of `IInv` |
| `ColosseumProofs!EscrowImplemented` | `ImplementsEscrow` | `IInv` and the effect of `Commit` |
| `ColosseumProofs!CacheAlwaysFollows` | `CacheFollowsClaim` | `PublishedInv` |
| `ChallengeRunProofs!TypeCorrect` | `RunTypeOK` | part of `RunIInv` |
| `ChallengeRunProofs!ClaimsAlwaysMatchRoster` | `ClaimsMatchRoster` | part of `RunIInv` |
| `ChallengeRunProofs!AcknowledgedIsAlwaysLive` | `AcknowledgedIsLive` | part of `RunIInv` |
| `ChallengeRunProofs!ReferencesAlwaysMatch` | `ReferencesMatch` | part of `RunIInv` |
| `ChallengeRunProofs!PaidRosterImplemented` | `ImplementsPaidRoster` | `RunIInv` and the effect of a commit |
| `GuildMatchProofs!TypeCorrect` | `MatchTypeOK` | part of `MatchIInv` |
| `GuildMatchProofs!RoundsAlwaysFollow` | `RoundsFollow` | `MatchIInv`, of a commit |
| `GuildMatchProofs!RoundsPaidOnce` | a commit moves points and one room's account alike | `MatchIInv`, of a commit |
| `GuildMatchProofs!PointsAlwaysMatch` | `PointsMatchScores` | `RoundsPaidOnce`, and `SumChange` |
| `DungeonExpeditionProofs!TypeCorrect` | `DelveTypeOK` | part of `DelveIInv` |
| `DungeonExpeditionProofs!LedgerAlwaysSettledOnce` | `LedgerSettledOnce` | `DelveIInv`, step by step |
| `DungeonExpeditionProofs!AlwaysEnrolledOnce` | `EnrolledOnce` | `EnrolledIInv` |
| `PartyLobbyProofs!TypeCorrect` | `LobbyTypeOK` | part of `LobbyIInv` |
| `PartyLobbyProofs!ConsentIsAlwaysSpent` | `ConsentIsSpent` | `LobbyIInv`, of a commit |
| `PartyLobbyProofs!HandoffAlwaysFreezesRoster` | `HandoffFreezesRoster` | `LobbyIInv`, of every step |
| `MarketProofs!NoCircularWait` | `NoLockCycle` | `MarketIInv`, and `Hierarchical` of every path |
| `MarketProofs!TypeCorrect` | `MarketTypeOK` | part of `LimitsIInv` |
| `MarketProofs!PlacesAlwaysHold` | `PlacesHold` | part of `LimitsIInv` |
| `MarketProofs!NothingAppears` | `NothingIsMade` | `OnceIInv` with both others, of every step |

Each invariant below was first checked with TLC as an invariant of an instance
(59,101 to 5,193,665 states) and then proved. The proofs have one shape: what a step does
to the rest is a relation of its own (`OthersWrite`, `Bystanders`, `Touches`, `Spares`, ...), one
lemma says that what the other calls rely on survives it, and one per action that its own call keeps its part.

**Scheduled work.** That a handler has run at most once is not inductive: it must be said
why the worker will not dispatch again. The invariant adds that an action that has been
dispatched is due, and neither stored nor held in memory as Pending
(`NothingDispatchedIsPending`); that a worker about to dispatch has stored Processing and
is the first to dispatch (`DispatchIsFirst`); and that registration never touches what is
due, as everything a worker holds is (`HeldWorkIsDue`). With two workers the second
part fails: one's copy is Pending while the other dispatches. The lock plays no part,
which is finding 1 seen from the other side. `QueueInv` collects what is true for any number
of workers: what a worker's place says of its copy, that a stored outcome has been dispatched, that
a fresh ID has one registration. For `OutcomesAreFinal` the worker's outcome must be the
stored one (`CopyAgrees`): a retained record is stored again as it is. For the refinement of
`OnceWork` what the worker is about to write must follow from what is stored (`StageInv`), which a
cancellation that deletes the record in between breaks, hence no canceller. `RecordsReachable` needs that the worker takes nothing from
queue or index that is unfinished (`FoundInv`), and that registration goes by payload, index, queue
(`RequestIndexed`). `AcceptedWorkKept` and `CancelKeepsDiscovery` hold for any number of workers. The second is about cancellers; `DiscoveryInv`
says that of the members that a cancellation is done with the payload is gone (`MembersGone`), so that the last DEL
of the actor's Set hides nothing. An actor with two actions may have one registered between
SMEMBERS and that DEL (section 3.2), hence its proviso.

**Paging.** `ScanIInv` says that what a fetch has read is the head of the queue, of which the actions remain and everything
else is gone (`ReadsOn`); so the offset, which is the number of actions found, is the number of entries in front of the
next page. `PageNext` says that a page is then what follows in the queue, whatever was purged, and `ReadsHead` that the part that is read is
its head, up to the action that fills the limit. The numbers are cardinalities of sets of positions; that the part ends at a first such entry is
the least element of a set of naturals, from the library's well-foundedness of `<`.

**Sleep.** `UnlessStalled` is `HomeTypeOK` and, while no lease has lapsed under a live call,
`ClaimInv`: every call past its TryLock holds the claim (`Held`), so that there is one at
most, and a Wake that has verified the obligation still has it (`Verified`). Only a call that
holds the claim clears `pendingWake` or `asleep`, and the one that does is past the steps
`Verified` speaks of. The first part does not hold once `stalls > 0`, hence the proviso.
`OwedIInv` needs no proviso: it speaks of the one call that has the claim still. What protects an owed recovery from a
call that has lost the claim is that it asks for the claim inside of the transaction, under the character's row
(`LastCommits`), and that no other call is in a transaction when the claimant is past its first (`ClaimantOK`). What a claimant
has restored by its step is `GivenBack`; the last transaction finds nothing left to restore.

**Colosseum.** `IInv` is `TypeOK`, `RowsInv`, `ClaimsMatchStakes`, `CacheInv` and `CallsInv`.
The room lock appears nowhere in it, since it may lapse. What protects the money is the
version: a cached room or a proposal whose version is that of the SQL row agrees with
that row in members, pool and status as far as money depends on them
(`Follows`, `Proposed`, `Fits`), and one with another version is refused (`Outdated`).
`OnlyCommits` says that no step other than a commit touches money, stakes or the rooms that are
closed, `CommitPays` that a commit is one of the abstract steps: a deposit when it joins or creates,
a refund when somebody leaves or the leader disbands, a share when the match ends.
The cache does need the lock. `PublishedInv` is the inductive form of `CacheFollowsClaim`, for as long as no lock or key expires
under its user: a call between its lock and its release is alone with its room, what it is publishing is what SQL has
committed last (`Holds`), and what it leaves behind, whatever fails, is published or still marked as pending (`Shown`).

**Challenge runs.** `RunIInv` divides what a command may rely on. Any publication, whether in a command's hands, live or in SQL, is
an earlier one of its run or the one committed last (`Follows`); this needs no lock, and the script's comparison of revisions
refuses what is late. A command that has the row's lock writes what is committed, and what it has written so far is still there
(`Confirmed`): a late publisher can only write the same, or free references of members who have left. `Drafted` says that a
draft with the next revision is an exit or a round of the committed one (`Outcome`), which is a step of `PaidRoster`.
References of those who have left may survive where a command has lost its connection, hence the proviso `cuts = 0` in `ReferencesMatch`.

**Guild matches.** `MatchIInv` does not mention the lock either. A room that can be played, in Valkey or in the hands of a call, is an
earlier one than the retained round, or the one that follows it (`Progress`); so a draft of the next round
continues the score of the retained one (`Play`, `Continues`), and every other is refused. `RoundsPaidOnce` says that a step moves the
points of each guild by what it adds to the account of the one room that it commits a round for. So `PointsMatchScores`, the sum of the
accounts of all rooms, stays true: `SumChange` says that a sum changes as its one summand does. The fold of the community modules takes its
elements in an order of its own; that there is such a fold, and that the order does not matter, is proved in `SumProofs` from the least set
for which it would fail, since the theorems about induction need a predicate as a parameter.

**Dungeon.** `DelveIInv` relates the copy a request has read to the keys: it is older, or the same (`CopyOf`), so that what passes the script's
comparison was computed from what is there. A copy of what was frozen is what the keys hold until it is settled or lost (`FrozenCopy`), an ID
belongs to one leader, and to one request until it is written (`FreshIn`). `EnrolledIInv` adds that a start holds
the rows of everyone it takes along until the expedition is written (`Enrolling`), as long as no connection is lost (`delveCuts = 0`).

**Lobby.** The lease does not occur in `LobbyIInv`: it may lapse. The row of the run keeps an admission away until the request that
holds it is over (`OnRun`), the rows of the characters keep them out of other activities (`AtHeroes`). A creation holds no row of a run; it is
its leader, whose row it has, that keeps an admission away (`Founding`, `Related`).

**Market.** What a transaction locks is a sequence of rows (`Path`) that its request fixes, and the seller of the listing or sale that it
has locked first. `Hierarchical` says that in this sequence the row that several characters share comes first, then the characters in the
order of their IDs, and then what these own. `MarketIInv` says that a transaction holds the rows of its path that it has passed and no
others, and that the listing or sale it has locked is still offered, by the same seller, so that its path does not change under it
(`PathStays`). Nobody waits for the row of an owner, since only who holds the owner locks it; who waits for a shared row holds nothing.
So in a circle everybody would wait for a character, and the one that waits for the highest is blocked by somebody who waits for a higher one.
The draw is no part of it: it locks depots without their owners, which is finding 5.

`LimitsIInv` adds what a transaction has counted or checked so far (`Checked`). It stays true until the commit since the row under which
it was counted is held (`HoldsForChecks`), and only who holds that row makes the count more or the gold less (`ValuesGuarded`): the listings of
the server under the market row, the listings and sales of a character and its gold under its row, the tickets under the
round. What a commit writes (`Writes`) is then within the limits. A depot is no such count: a delivery looks for room in the row that it has
locked, and a depot that has room for an instance holds it (`SlotsPut`), whoever puts it there, the draw included.

For `NothingIsMade` the units of a kind are split into those on the market, in stores and in hands (`OnMarket`, `InStores`, `InHands`),
and each operation is shown to move between them what it says (`CloseCounts`, `DeleteCounts`, `OfferCounts`, `HandsMoved`,
`HandsTraded`). The delicate one is `DeleteSale`, which does not ask whether the row is there: that it is, at the commit, is `StillOffered` of
`MarketIInv`. `OnceIInv` adds that what is offered has a seller who is paid, that a builder who has looked has no store still (so gold
that is spent buys one), and that a draw that has locked the round is the first. The sums over all characters change as `SumChange`,
`SumChangeTwo` and `SumRaised` of `SumProofs` say.

**Only model-checked.**

* The liveness properties (`DueWorkHandled`, `OutcomesFinalized`, `SleeperWakes`,
  `BetsReturn`, `ClaimsReturn`, `MatchEnds`, `HandoffCleared`, `SettlementCompletes`): they need `ENABLED`, which the
  provers do not handle.
* `PartsTypeOK` and `SettlementsTypeOK`, which are conjunctions of the components' type invariants: each conjunct is
  a theorem about its component, and the runs check them side by side.

## 5. The plan

1. *Done:* scheduled work, sleep and wake, Colosseum bets, challenge runs, guild
   versus guild, the party lobby, the market with its row locks and the lottery's draw, dungeon expeditions; the theorems above.
2. **Boss receipts**: `completeSealingBattle` with a lost commit.

## 6. Not modelled

* *Casino*: the card rooms have the lock of the Colosseum and of guild matches, with chips in place of bets;
  the single-player games are a random draw and one SQL update.
* *Rate limits, presence, sessions, maintenance, HTTP*: single keys with a TTL, routing and rendering.
* *Adventure and battle, characters, jobs, items, skills*: formulas over catalogues, computed in one request
  and stored in one transaction; what they yield is a choice in the models.
* *Guilds, shops and workshops, helper quests, the other recurring jobs*: single SQL transactions of one
  character or one row. The guild points that matches award are in `GuildMatch`.
* *Ranking, notifications, reads*: they change nothing that another component reads.
* *Repositories, wiring, commands*: plumbing; the transactions that carry a protocol are mapped from the
  component they belong to.
