----------------------------- MODULE RowBatcher -----------------------------
(***************************************************************************)
(* The batcher between a connector's pipeline and Deephaven.  Callers      *)
(* submit rows into one buffer; the caller that fills it, the flush timer  *)
(* or stop() takes the whole buffer and publishes it, run by run, outside  *)
(* the lock.  A snapshot replay uses a larger batch, and the timer leaves  *)
(* a batch alone that grew since its last tick.                            *)
(*                                                                         *)
(* A row is its number in submission order, its key and its action; the    *)
(* table is keyed and shows the number of the row last put under each key. *)
(* Every caller may use every operation at any time: which threads do so   *)
(* when is the Connector's business.                                       *)
(***************************************************************************)
EXTENDS Naturals, Sequences, SequencesExt

CONSTANTS Callers,       \* threads that submit, replay, flush, start and close
          Timers,        \* flush threads, one for each start
          None,
          Keys,
          MaxBatchRows, ReplayBatchRows,
          MaxRows,       \* bound: rows submitted
          MaxFaults      \* bound: publishes that fail

Threads == Callers \cup Timers
Row     == [n : 1..MaxRows, key : Keys, action : {"UPSERT", "DELETE"}]

ASSUME BatcherAssumption ==
    /\ MaxBatchRows \in Nat \ {0} /\ ReplayBatchRows \in Nat
    /\ MaxBatchRows <= ReplayBatchRows
    /\ MaxRows \in Nat /\ MaxFaults \in Nat
    /\ Callers \cap Timers = {} /\ None \notin Threads /\ None \notin Row

VARIABLES
    buffer,               \* rows waiting for a flush
    replaying,
    submitted,            \* rows submitted so far
    submittedAtLastTick,
    scheduler,            \* the running flush timer, None if there is none
    doing,                \* thread -> "idle", "flush" (about to), "publish"
    hand,                 \* thread -> rows it took and has not published
    taken,                \* thread -> how many rows it took
    published,            \* the counter
    table,                \* Deephaven: key -> row shown, 0 if none
    arrived, lost,        \* rows acknowledged; rows given up
    latest,               \* key -> last row submitted
    overlapped,           \* two flushes were under way at once
    retired, faults       \* timers used up, faults met

bufferVars  == <<buffer, replaying, submitted, submittedAtLastTick, scheduler>>
flushVars   == <<doing, hand, taken, published>>
serverVars  == <<table, arrived, lost>>
historyVars == <<latest, overlapped, retired, faults>>
vars        == <<bufferVars, flushVars, serverVars, historyVars>>

Numbers(rows) == {rows[i].n : i \in DOMAIN rows}

Init == /\ buffer = <<>> /\ replaying = FALSE
        /\ submitted = 0 /\ submittedAtLastTick = 0
        /\ scheduler = None
        /\ doing = [t \in Threads |-> "idle"]
        /\ hand = [t \in Threads |-> <<>>] /\ taken = [t \in Threads |-> 0]
        /\ published = 0
        /\ table = [k \in Keys |-> 0] /\ arrived = {} /\ lost = {}
        /\ latest = [k \in Keys |-> None]
        /\ overlapped = FALSE /\ retired = {} /\ faults = 0

-----------------------------------------------------------------------------
\* A thread about to flush

Flushes(t) == /\ doing' = [doing EXCEPT ![t] = "flush"]
              /\ UNCHANGED <<hand, taken, published>>

BatchLimit == IF replaying THEN ReplayBatchRows ELSE MaxBatchRows

Submit(t, key, action) ==
    /\ doing[t] = "idle"
    /\ submitted < MaxRows
    /\ submitted' = submitted + 1
    /\ LET row == [n |-> submitted + 1, key |-> key, action |-> action]
       IN  /\ buffer' = Append(buffer, row)
           /\ latest' = [latest EXCEPT ![key] = row]
    /\ \/ Len(buffer') >= BatchLimit /\ Flushes(t)
       \/ Len(buffer') < BatchLimit /\ UNCHANGED flushVars
    /\ UNCHANGED <<replaying, submittedAtLastTick, scheduler, serverVars, overlapped,
                   retired, faults>>

BeginReplay(t) == /\ doing[t] = "idle"
                  /\ replaying' = TRUE
                  /\ UNCHANGED <<buffer, submitted, submittedAtLastTick, scheduler,
                                 flushVars, serverVars, historyVars>>

EndReplay(t) == /\ doing[t] = "idle" /\ replaying
                /\ replaying' = FALSE
                /\ Flushes(t)
                /\ UNCHANGED <<buffer, submitted, submittedAtLastTick, scheduler,
                               serverVars, historyVars>>

\* stop() flushes what is left.
FinalFlush(t) == /\ doing[t] = "idle"
                 /\ Flushes(t)
                 /\ UNCHANGED <<bufferVars, serverVars, historyVars>>

\* Mutant: during a replay the timer leaves every batch alone.
Tick_NeverInReplay(t) ==
    /\ scheduler = t /\ doing[t] = "idle"
    /\ submittedAtLastTick' = submitted
    /\ \/ replaying /\ UNCHANGED flushVars
       \/ ~replaying /\ Flushes(t)
    /\ UNCHANGED <<buffer, replaying, submitted, scheduler, serverVars, historyVars>>

Tick(t) == /\ scheduler = t /\ doing[t] = "idle"
           /\ submittedAtLastTick' = submitted
           /\ LET grew == submitted # submittedAtLastTick
              IN  \/ replaying /\ grew /\ UNCHANGED flushVars
                  \/ ~(replaying /\ grew) /\ Flushes(t)
           /\ UNCHANGED <<buffer, replaying, submitted, scheduler, serverVars, historyVars>>

-----------------------------------------------------------------------------
\* A flush

\* Mutant: the buffer is read, not swapped.
Take_Copies(t) ==
    /\ doing[t] = "flush" /\ buffer # <<>>
    /\ doing' = [doing EXCEPT ![t] = "publish"]
    /\ hand' = [hand EXCEPT ![t] = buffer]
    /\ taken' = [taken EXCEPT ![t] = Len(buffer)]
    /\ overlapped' = (overlapped \/ \E u \in Threads : doing[u] = "publish")
    /\ UNCHANGED <<bufferVars, published, serverVars, latest, retired, faults>>

\* Under the lock the thread takes the whole buffer.
Take(t) ==
    /\ doing[t] = "flush" /\ buffer # <<>>
    /\ doing' = [doing EXCEPT ![t] = "publish"]
    /\ hand' = [hand EXCEPT ![t] = buffer]
    /\ taken' = [taken EXCEPT ![t] = Len(buffer)]
    /\ buffer' = <<>>
    /\ overlapped' = (overlapped \/ \E u \in Threads : doing[u] = "publish")
    /\ UNCHANGED <<replaying, submitted, submittedAtLastTick, scheduler, published,
                   serverVars, latest, retired, faults>>

TakeNothing(t) == /\ doing[t] = "flush" /\ buffer = <<>>
                  /\ doing' = [doing EXCEPT ![t] = "idle"]
                  /\ UNCHANGED <<bufferVars, hand, taken, published, serverVars, historyVars>>

\* How many rows at the front share one action.
RunLength(rows) ==
    CHOOSE n \in DOMAIN rows :
        /\ \A i \in 1..n : rows[i].action = rows[1].action
        /\ n = Len(rows) \/ rows[n + 1].action # rows[1].action

\* A keyed table after a run: an upsert shows the last row of its key, a
\* deletion none.
Applied(run) ==
    [k \in Keys |->
        LET ofKey == {i \in DOMAIN run : run[i].key = k}
        IN  IF ofKey = {} THEN table[k]
            ELSE IF run[1].action = "DELETE" THEN 0
            ELSE run[CHOOSE i \in ofKey : \A j \in ofKey : j <= i].n]

\* One round trip: addRows or deleteRows of the next run.
PublishRun(t) ==
    /\ doing[t] = "publish"
    /\ LET length == RunLength(hand[t])
           run    == SubSeq(hand[t], 1, length)
           rest   == SubSeq(hand[t], length + 1, Len(hand[t]))
       IN  /\ table' = Applied(run)
           /\ arrived' = arrived \cup Numbers(run)
           /\ hand' = [hand EXCEPT ![t] = rest]
           /\ \/ /\ rest = <<>>
                 /\ doing' = [doing EXCEPT ![t] = "idle"]
                 /\ published' = published + taken[t]
                 /\ taken' = [taken EXCEPT ![t] = 0]
              \/ /\ rest # <<>>
                 /\ UNCHANGED <<doing, taken, published>>
    /\ UNCHANGED <<bufferVars, lost, historyVars>>

\* close() interrupts the timer; its round trip under way may fail.
Interrupted(t) == t \in Timers /\ scheduler # t

\* The flush ends with the rest of its rows given up.
GiveUp(t) ==
    /\ doing[t] = "publish"
    /\ lost' = lost \cup Numbers(hand[t])
    /\ hand' = [hand EXCEPT ![t] = <<>>]
    /\ taken' = [taken EXCEPT ![t] = 0]
    /\ doing' = [doing EXCEPT ![t] = "idle"]
    /\ UNCHANGED <<bufferVars, published, arrived, latest, overlapped, retired>>

\* A round trip fails, or times out although the server did as asked.
PublishFails(t) ==
    /\ GiveUp(t)
    /\ \/ Interrupted(t) /\ UNCHANGED faults
       \/ faults < MaxFaults /\ faults' = faults + 1
    /\ \/ UNCHANGED table
       \/ table' = Applied(SubSeq(hand[t], 1, RunLength(hand[t])))

-----------------------------------------------------------------------------
\* Start and stop

Start(t) == /\ doing[t] = "idle" /\ scheduler = None
            /\ \E timer \in Timers \ retired : scheduler' = timer
            /\ UNCHANGED <<buffer, replaying, submitted, submittedAtLastTick,
                           flushVars, serverVars, historyVars>>

Discard(t) == /\ doing[t] = "idle"
              /\ buffer' = <<>>
              /\ lost' = lost \cup Numbers(buffer)
              /\ UNCHANGED <<replaying, submitted, submittedAtLastTick, scheduler,
                             flushVars, table, arrived, historyVars>>

Close(t) == /\ doing[t] = "idle" /\ scheduler # None
            /\ retired' = retired \cup {scheduler}
            /\ scheduler' = None
            /\ UNCHANGED <<buffer, replaying, submitted, submittedAtLastTick,
                           flushVars, serverVars, latest, overlapped, faults>>

Submits == \E t \in Callers, key \in Keys, action \in {"UPSERT", "DELETE"} : Submit(t, key, action)

Next == \/ Submits
        \/ \E t \in Callers : \/ BeginReplay(t) \/ EndReplay(t) \/ FinalFlush(t)
                              \/ Start(t) \/ Discard(t) \/ Close(t)
        \/ \E t \in Timers  : Tick(t)
        \/ \E t \in Threads : Take(t) \/ TakeNothing(t) \/ PublishRun(t) \/ PublishFails(t)

Spec == Init /\ [][Next]_vars

\* A running timer ticks, and a flush goes on to its end.
LiveSpec == /\ Spec
            /\ \A t \in Timers  : WF_vars(Tick(t))
            /\ \A t \in Threads : WF_vars(Take(t) \/ TakeNothing(t) \/ PublishRun(t))

-----------------------------------------------------------------------------
\* Properties

TypeOK == /\ buffer \in Seq(Row) /\ replaying \in BOOLEAN
          /\ submitted \in 0..MaxRows /\ submittedAtLastTick \in 0..MaxRows
          /\ scheduler \in Timers \cup {None}
          /\ doing \in [Threads -> {"idle", "flush", "publish"}]
          /\ hand \in [Threads -> Seq(Row)] /\ taken \in [Threads -> Nat]
          /\ published \in Nat
          /\ table \in [Keys -> 0..MaxRows]
          /\ arrived \in SUBSET (1..MaxRows) /\ lost \in SUBSET (1..MaxRows)
          /\ latest \in [Keys -> Row \cup {None}]
          /\ overlapped \in BOOLEAN /\ retired \in SUBSET Timers /\ faults \in 0..MaxFaults

\* The rows that wait, that a thread has in hand, that arrived and that were
\* given up: however flushes race, each submitted row is in exactly one place.
RowsAccounted ==
    /\ 1..submitted = Numbers(buffer) \cup (UNION {Numbers(hand[t]) : t \in Threads})
                      \cup arrived \cup lost
    /\ arrived \cap lost = {}
    /\ \A t \in Threads : Numbers(hand[t]) \cap (Numbers(buffer) \cup arrived \cup lost) = {}
    /\ \A t, u \in Threads : t # u => Numbers(hand[t]) \cap Numbers(hand[u]) = {}
    /\ Numbers(buffer) \cap (arrived \cup lost) = {}

\* A full batch never just sits there: either some thread is on its way to
\* flush it, or it is below the limit in force.
FullIsFlushed == Len(buffer) < BatchLimit \/ \E t \in Threads : doing[t] = "flush"

Underway(k) == \/ \E i \in DOMAIN buffer : buffer[i].key = k
               \/ \E t \in Threads : \E i \in DOMAIN hand[t] : hand[t][i].key = k

\* When nothing of a key is under way and its last row was not given up, the
\* table shows that row, or none if it was a deletion.
ShowsLatest(k) ==
    latest[k] # None /\ ~Underway(k) /\ latest[k].n \in arrived =>
        table[k] = IF latest[k].action = "DELETE" THEN 0 ELSE latest[k].n

\* "Order is preserved across the upsert/delete boundary", as long as no two
\* flushes overlap.
OrderWithoutOverlap == ~overlapped => \A k \in Keys : ShowsLatest(k)

\* However flushes of the drain thread, the timers and stop() race and fail, no row is lost from
\* sight or published twice, a full batch is on its way, and a key keeps its last row as long as
\* no two flushes overlap.  RowBatcher.java: submit, flush, flushIfDue, discard.
RowsSafe == RowsAccounted /\ FullIsFlushed /\ OrderWithoutOverlap

\* "A stalled one is not left unpublished": a buffered row leaves the buffer,
\* even if the replay never ends, as long as the timer runs.
NotLeftBuffered ==
    \A n \in 1..MaxRows : n \in Numbers(buffer) ~> n \notin Numbers(buffer) \/ scheduler = None
=============================================================================
