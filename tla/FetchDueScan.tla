---------------------------- MODULE FetchDueScan ----------------------------
(***************************************************************************)
(* The paging of ValkeyRepository.FetchDue.  The due part of the pending   *)
(* queue is read page by page at an offset; entries that cannot be         *)
(* executed are removed from the queue while it is being paged, so that    *)
(* the offset counts only the entries that stay.                           *)
(*                                                                         *)
(* The queue is a sorted set: an entry is its position in the queue that   *)
(* the call started with, and a page consists of those whose ranks follow  *)
(* the offset.  ScheduledWork treats the fetch of a short queue command by *)
(* command; here the queue is longer than a page and than the scan limit.  *)
(***************************************************************************)
EXTENDS Integers, Sequences, FiniteSets

CONSTANTS
    Limit,      \* how many actions the worker asks for
    BatchSize,  \* entries per page, max(limit, 50) in the code
    MaxScan,    \* entries read per call, max(20 * limit, 1000) in the code
    MaxQueue    \* bound on the length of the due queue

ASSUME PagingAssumption ==
    /\ Limit \in Nat \ {0} /\ BatchSize \in Nat /\ MaxScan \in Nat /\ MaxQueue \in Nat
    /\ BatchSize >= Limit /\ MaxScan >= BatchSize

\* Kinds of queue entry: a payload that can be acted upon (Pending or
\* terminal), a Processing one, and one that is missing, malformed or invalid.
Kinds == {"live", "processing", "broken"}

VARIABLES
    kind,      \* kind of each entry of the queue the call started with
    entries,   \* the queue now
    offset,    \* offset of the next page
    scanned,   \* entries read so far
    found,     \* entries whose actions are collected
    collected, \* how many actions are collected, one collected twice counting twice
    phase      \* "paging", "done" or "failed"

scanVars == <<kind, entries, offset, scanned, found, collected, phase>>

Queue == 1..Len(kind)

ScanInit ==
    /\ \E n \in 0..MaxQueue : kind \in [1..n -> Kinds]
    /\ entries = Queue
    /\ offset = 0 /\ scanned = 0 /\ found = {} /\ collected = 0
    /\ phase = "paging"

\* The place of entry p in the sorted set S.
Rank(p, S) == Cardinality({q \in S : q <= p})

ToFetch == IF scanned + BatchSize > MaxScan THEN MaxScan - scanned
                                            ELSE BatchSize

\* ZRANGEBYSCORE ... LIMIT offset toFetch
Page == {p \in entries : Rank(p, entries) \in offset + 1 .. offset + ToFetch}

Live(S) == {p \in S : kind[p] = "live"}

\* Mutant: the whole page is collected although the limit was reached.
ReadWholePage(page) == page

\* The part of a page that is read: up to the entry that fills the limit.
ReadPart(page) ==
    {p \in page : collected + Cardinality(Live({q \in page : q < p})) < Limit}

\* Mutant: fetched actions leave the queue as well.
PurgeAll(S, read) == S \ read

\* Queue S without the entries of the read part that are not kept.
Purge(S, read) == S \ (read \ Live(read))

\* Mutant: the offset counts removed entries too.
NextOffsetAll(read) == offset + Cardinality(read)

\* The offset moves past the entries of this page that stay in the queue.
NextOffset(read) == offset + Cardinality(Live(read))

ReadPage ==
    LET read == ReadPart(Page) IN
    /\ phase = "paging"
    /\ scanned < MaxScan /\ collected < Limit
    /\ Page # {}
    /\ scanned' = scanned + Cardinality(read)
    /\ found' = found \cup Live(read)
    /\ collected' = collected + Cardinality(Live(read))
    /\ entries' = Purge(entries, read)
    /\ offset' = NextOffset(read)
    /\ phase' = IF Cardinality(Page) < ToFetch THEN "done" ELSE "paging"
    /\ UNCHANGED kind

\* A command of the page fails: entries before it are handled, none after it.
FailPage == \E last \in {0} \cup ReadPart(Page) :
    /\ phase = "paging"
    /\ scanned < MaxScan /\ collected < Limit
    /\ entries' = Purge(entries, {p \in ReadPart(Page) : p <= last})
    /\ found' = {} /\ collected' = 0
    /\ phase' = "failed"
    /\ UNCHANGED <<kind, offset, scanned>>

Finish ==
    /\ phase = "paging"
    /\ scanned >= MaxScan \/ collected >= Limit \/ Page = {}
    /\ phase' = "done"
    /\ UNCHANGED <<kind, entries, offset, scanned, found, collected>>

ScanNext == ReadPage \/ FailPage \/ Finish

ScanSpec == ScanInit /\ [][ScanNext]_scanVars

-----------------------------------------------------------------------------
ScanTypeOK ==
    /\ phase \in {"paging", "done", "failed"}
    /\ offset \in 0..MaxQueue /\ scanned \in 0..MaxScan /\ collected \in 0..Limit
    /\ entries \subseteq Queue /\ found \subseteq Queue

\* What FetchDue must return: the first Limit actions among the first MaxScan
\* entries.
Expected == {p \in Live(Queue) : p <= MaxScan /\ Rank(p, Live(Queue)) <= Limit}

\* Paging with removals neither skips nor repeats an entry.
ReturnsEarliestActions ==
    phase = "done" => found = Expected /\ collected = Cardinality(Expected)

\* The queue only gets rid of what cannot run: whether a call succeeds or
\* stops with an error, every action that could be executed is still queued,
\* and a call that found none has removed all that it read, so that such
\* entries never fill the head of the queue.  (FetchDue's ZREM)
OnlyDeadEntriesPurged ==
    /\ Live(entries) = Live(Queue)
    /\ phase = "done" /\ found = {} =>
         Cardinality(entries) <= Len(kind) - scanned /\ (scanned = MaxScan \/ entries = {})

\* No page yields an action that was due before one found already, so that
\* what FetchDue appends page by page comes out sorted.  (the append of FetchDue;
\* a theorem of HomeWorkProofs, checked by no run: ReturnsEarliestActions is)
FoundInOrder == [][\A p \in found, q \in found' \ found : p < q]_scanVars
=============================================================================
