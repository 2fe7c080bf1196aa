---------------------------- MODULE RecordSpool ----------------------------
(***************************************************************************)
(* One connector's spool: the queue between a source's delivery threads    *)
(* and the connector's drain thread.  Entries queue in memory, overflow to *)
(* segment files once memory is full, and queue in memory again when the   *)
(* files have drained.                                                     *)
(*                                                                         *)
(* Every method body runs under one lock, so each stretch between taking   *)
(* the lock and returning or waiting is one action.  A producer waits with *)
(* a timeout and looks again by itself; the consumer waits without one and *)
(* needs a notification, which is why only the consumer's wait is state.   *)
(*                                                                         *)
(* Segments are not listed one by one.  The files hold consecutive runs of *)
(* entries, so `disk' is their unread content in order and `ends' the      *)
(* number of the last entry of each sealed segment; entries behind the     *)
(* largest end belong to the segment being written.                        *)
(***************************************************************************)
EXTENDS Integers, Sequences, FiniteSets

CONSTANTS Producers,         \* delivery threads of the source
          Kinds,             \* entry shapes, told apart by their sizes
          None,              \* "no entry in hand"
          SizeOf, FrameOf,   \* per kind: heap estimate, bytes of its frame
          MemoryLimit, WriteBufferBytes, SegmentSize, DiskLimit,
          MaxPuts,           \* bound: puts that may start
          MaxFaults          \* bound: I/O faults and interrupts

ASSUME SpoolAssumption ==
    /\ None \notin Kinds
    /\ SizeOf \in [Kinds -> Nat \ {0}]
    /\ FrameOf \in [Kinds -> Nat \ {0}]
    /\ MemoryLimit \in Nat
    /\ WriteBufferBytes \in Nat \ {0}
    /\ SegmentSize \in Nat \ {0}
    /\ DiskLimit \in Nat /\ DiskLimit >= SegmentSize
    /\ MaxPuts \in Nat /\ MaxFaults \in Nat

VARIABLES
    memory,            \* the memory tier, oldest first
    memoryBytes,
    disk,              \* frames in segment files and not yet taken, oldest first
    buffered,          \* frames still in the write buffer
    ends,              \* last entry number of each sealed segment not deleted
    tier,              \* "none": not spilling; the write segment is "open" or "sealed"
    written,           \* bytes appended to the write segment, buffered or flushed
    committed,         \* bytes of it that reached the file
    readAhead,         \* frames of `disk' already in the read buffer
    diskBytes,
    pending,           \* the backlog counter
    retryPending,      \* a disk failure is recent: do not spill yet
    finished, closed,
    lost,              \* lostEntries
    inHand,            \* per producer: the entry it waits to place
    consumer,          \* "ready", "waiting" in take(), or "done"
    admitted,          \* history: entry numbers given out
    delivered,         \* history: number of the last entry taken
    taken, discarded,  \* history: entries taken, entries thrown away on purpose
    faults             \* faults so far

memoryVars  == <<memory, memoryBytes>>
diskVars    == <<disk, buffered, ends, tier, written, committed, readAhead, diskBytes>>
takenVars   == <<delivered, taken>>
stopVars    == <<finished, closed, discarded>>
vars == <<memoryVars, diskVars, pending, retryPending, stopVars, lost, inHand,
          consumer, admitted, takenVars, faults>>

Entry == [id : Nat, kind : Kinds]

\* The whole queue, oldest first, wherever its entries sit.
Queue == memory \o disk \o buffered

Init == /\ memory = <<>> /\ memoryBytes = 0
        /\ disk = <<>> /\ buffered = <<>> /\ ends = {} /\ tier = "none"
        /\ written = 0 /\ committed = 0 /\ readAhead = 0 /\ diskBytes = 0
        /\ pending = 0 /\ retryPending = FALSE
        /\ finished = FALSE /\ closed = FALSE /\ lost = 0
        /\ inHand = [p \in Producers |-> None]
        /\ consumer = "ready"
        /\ admitted = 0 /\ delivered = 0 /\ taken = 0 /\ discarded = 0
        /\ faults = 0

-----------------------------------------------------------------------------
\* Shared steps

NotifyAll == consumer' = IF consumer = "waiting" THEN "ready" ELSE consumer

Fault == faults < MaxFaults /\ faults' = faults + 1
NoFault == UNCHANGED faults

\* The producer's call is over, or it is left waiting with its entry.
Placed(p)     == inHand' = [inHand EXCEPT ![p] = None]
Waits(p, k)   == inHand' = [inHand EXCEPT ![p] = k]

NextEntry(k)  == [id |-> admitted + 1, kind |-> k]
Fits(k)       == memoryBytes + SizeOf[k] <= MemoryLimit
Oversize(k)   == FrameOf[k] > WriteBufferBytes

ToMemory(p, k) == /\ memory' = Append(memory, NextEntry(k))
                  /\ memoryBytes' = memoryBytes + SizeOf[k]
                  /\ pending' = pending + 1
                  /\ admitted' = admitted + 1
                  /\ Placed(p)
                  /\ NotifyAll

\* Close and delete every segment and leave the disk tier empty.
DiscardDisk == /\ disk' = <<>> /\ buffered' = <<>> /\ ends' = {}
               /\ tier' = "none" /\ written' = 0 /\ committed' = 0
               /\ readAhead' = 0 /\ diskBytes' = 0

-----------------------------------------------------------------------------
\* Appending to the write segment.  `size' is what that segment holds so far.

Rolls(size)       == size >= SegmentSize
Flushes(size, k)  == Rolls(size) \/ written - committed + FrameOf[k] > WriteBufferBytes

\* The frame is in: behind the flushed ones if it is too big for the buffer,
\* in the buffer otherwise.
Append_OK(p, k) ==
    LET flushes == Flushes(written, k)
        onFile  == IF flushes THEN disk \o buffered ELSE disk
        base    == IF Rolls(written) THEN 0 ELSE written
    IN  /\ \/ /\ Oversize(k)
              /\ disk' = Append(onFile, NextEntry(k))
              /\ buffered' = <<>>
              /\ committed' = base + FrameOf[k]
           \/ /\ ~Oversize(k)
              /\ disk' = onFile
              /\ buffered' = Append(IF flushes THEN <<>> ELSE buffered, NextEntry(k))
              /\ committed' = IF flushes THEN base ELSE committed
        /\ ends' = IF Rolls(written) THEN ends \cup {admitted} ELSE ends
        /\ written' = base + FrameOf[k]
        /\ tier' = "open"
        /\ diskBytes' = diskBytes + FrameOf[k]
        /\ pending' = pending + 1
        /\ admitted' = admitted + 1
        /\ UNCHANGED <<readAhead, lost>>
        /\ NoFault
        /\ Placed(p)
        /\ NotifyAll

\* Mutant: the entries lost with the write buffer stay in the backlog counter.
Append_FlushFails_StillPending(p, k) ==
    /\ Flushes(written, k) /\ buffered # <<>>
    /\ Fault
    /\ buffered' = <<>>
    /\ diskBytes' = diskBytes - (written - committed)
    /\ written' = committed
    /\ tier' = "sealed"
    /\ Waits(p, k)
    /\ UNCHANGED <<disk, ends, committed, readAhead, pending, lost, admitted, consumer>>

\* The disk failed under the writer while it flushed: what sat in the write
\* buffer is gone, the segment is sealed, and the caller waits.
Append_FlushFails(p, k) ==
    /\ Flushes(written, k) /\ buffered # <<>>
    /\ Fault
    /\ buffered' = <<>>
    /\ lost' = lost + Len(buffered)
    /\ pending' = pending - Len(buffered)
    /\ diskBytes' = diskBytes - (written - committed)
    /\ written' = committed
    /\ tier' = "sealed"
    /\ Waits(p, k)
    /\ UNCHANGED <<disk, ends, committed, readAhead, admitted, consumer>>

\* The flush went through but the next segment could not be opened.
Append_RollFails(p, k) ==
    /\ Rolls(written)
    /\ Fault
    /\ disk' = disk \o buffered /\ buffered' = <<>>
    /\ committed' = written
    /\ tier' = "sealed"
    /\ Waits(p, k)
    /\ UNCHANGED <<ends, written, readAhead, diskBytes, pending, lost, admitted, consumer>>

\* An oversize frame is written past the buffer, and that write failed.
Append_WriteFails(p, k) ==
    /\ Oversize(k)
    /\ Fault
    /\ disk' = disk \o buffered /\ buffered' = <<>>
    /\ ends' = IF Rolls(written) THEN ends \cup {admitted} ELSE ends
    /\ written' = IF Rolls(written) THEN 0 ELSE written
    /\ committed' = written'
    /\ tier' = "sealed"
    /\ Waits(p, k)
    /\ UNCHANGED <<readAhead, diskBytes, pending, lost, admitted, consumer>>

AppendFrame(p, k) ==
    \/ Append_OK(p, k) /\ UNCHANGED retryPending
    \/ /\ Append_FlushFails(p, k) \/ Append_RollFails(p, k) \/ Append_WriteFails(p, k)
       /\ retryPending' = TRUE

-----------------------------------------------------------------------------
\* put(): one pass of its loop, up to its return or its wait.

Stopped == closed \/ finished

Put_Refused(p, k) == /\ Stopped
                     /\ Placed(p)
                     /\ UNCHANGED <<memoryVars, diskVars, pending, retryPending, stopVars,
                                    lost, consumer, admitted, takenVars, faults>>

\* Memory is used again only when the disk tier is empty.
UseMemory == tier = "none"

Put_Memory(p, k) == /\ ~Stopped /\ UseMemory /\ Fits(k)
                    /\ ToMemory(p, k)
                    /\ UNCHANGED <<diskVars, retryPending, stopVars, lost, takenVars, faults>>

\* Memory is full and a segment can be opened: the spill begins, and its
\* first frame is appended in the same pass.
Put_BeginSpill(p, k) ==
    /\ ~Stopped /\ UseMemory /\ ~Fits(k) /\ ~retryPending
    /\ AppendFrame(p, k)
    /\ UNCHANGED <<memoryVars, stopVars, takenVars>>

\* Memory is full and there is no disk to spill to.  An entry still gets
\* through when nothing else is queued; otherwise its producer waits.
Put_NoDisk(p, k) ==
    /\ ~Stopped /\ UseMemory /\ ~Fits(k)
    /\ \/ retryPending /\ NoFault            \* too early to try the disk again
       \/ ~retryPending /\ Fault             \* the segment cannot be opened
    /\ retryPending' = TRUE
    /\ \/ memory = <<>> /\ ToMemory(p, k)
       \/ /\ memory # <<>>
          /\ Waits(p, k)
          /\ UNCHANGED <<memoryVars, pending, admitted, consumer>>
    /\ UNCHANGED <<diskVars, stopVars, lost, takenVars>>

DiskRoom == diskBytes < DiskLimit

Put_Disk(p, k) == /\ ~Stopped /\ tier = "open" /\ DiskRoom
                  /\ AppendFrame(p, k)
                  /\ UNCHANGED <<memoryVars, stopVars, takenVars>>

\* The disk is at its limit, or it failed and what it holds must drain first.
Put_Waits(p, k) == /\ ~Stopped
                   /\ tier = "sealed" \/ (tier = "open" /\ ~DiskRoom)
                   /\ Waits(p, k)
                   /\ UNCHANGED <<memoryVars, diskVars, pending, retryPending, stopVars,
                                  lost, consumer, admitted, takenVars, faults>>

PutPass(p, k) == \/ Put_Refused(p, k)
                 \/ Put_Memory(p, k)
                 \/ Put_BeginSpill(p, k)
                 \/ Put_NoDisk(p, k)
                 \/ Put_Disk(p, k)
                 \/ Put_Waits(p, k)

\* The source calls put() with one more record or boundary ...
Put(p) == /\ inHand[p] = None
          /\ admitted + Cardinality({q \in Producers : inHand[q] # None}) < MaxPuts
          /\ \E k \in Kinds : PutPass(p, k)

\* ... and a producer waiting for room looks again.
RetryPut(p) == inHand[p] # None /\ PutPass(p, inHand[p])

\* A producer interrupted while it waits drops its entry and counts it lost.
InterruptPut(p) == /\ inHand[p] # None
                   /\ Fault
                   /\ lost' = lost + 1
                   /\ admitted' = admitted + 1
                   /\ Placed(p)
                   /\ UNCHANGED <<memoryVars, diskVars, pending, retryPending, stopVars,
                                  consumer, takenVars>>

\* DISK_RETRY_INTERVAL has passed since the disk failed.
DiskRetryElapses == /\ retryPending
                    /\ retryPending' = FALSE
                    /\ UNCHANGED <<memoryVars, diskVars, pending, stopVars, lost, inHand,
                                   consumer, admitted, takenVars, faults>>

-----------------------------------------------------------------------------
\* take() and poll(): the consumer's side.

HandOut(e) == /\ delivered' = e.id
              /\ taken' = taken + 1
              /\ pending' = pending - 1

Take_Memory == /\ memory # <<>>
               /\ memory' = Tail(memory)
               /\ memoryBytes' = memoryBytes - SizeOf[Head(memory).kind]
               /\ HandOut(Head(memory))
               /\ UNCHANGED <<diskVars, retryPending, stopVars, lost, inHand, consumer,
                              admitted, faults>>

\* The frames in the file once the reader has had the write buffer flushed,
\* which it does only when it has caught up with the writer's segment.
LiveEnds(frames) == {x \in ends : frames # <<>> /\ Head(frames).id <= x}
ReaderFlushes    == tier = "open" /\ LiveEnds(disk) = {} /\ readAhead = 0 /\ buffered # <<>>
OnFile           == IF ReaderFlushes THEN disk \o buffered ELSE disk

\* How many frames one fill may bring in: some of the head segment's, at
\* least the one that is needed; none are fetched while some are unread.
Fetches == IF readAhead > 0 THEN {readAhead}
           ELSE {n \in 1..Len(OnFile) :
                   \A x \in LiveEnds(OnFile) : OnFile[n].id <= x}

\* The segment the last frame came from is deleted once it is consumed, and
\* the spill is over when that was the segment being written.
SpillOver(rest, unflushed) == rest = <<>> /\ unflushed = <<>> /\ LiveEnds(OnFile) = {}
Trim(rest, unflushed, n) ==
    IF SpillOver(rest, unflushed)
    THEN DiscardDisk
    ELSE /\ disk' = rest
         /\ buffered' = unflushed
         /\ ends' = LiveEnds(rest)
         /\ readAhead' = n - 1
         /\ diskBytes' = diskBytes - FrameOf[Head(OnFile).kind]
         /\ committed' = IF ReaderFlushes THEN written ELSE committed
         /\ UNCHANGED <<tier, written>>

Take_Disk == /\ memory = <<>> /\ tier # "none" /\ OnFile # <<>>
             /\ \E n \in Fetches :
                  Trim(Tail(OnFile), IF ReaderFlushes THEN <<>> ELSE buffered, n)
             /\ HandOut(Head(OnFile))
             /\ UNCHANGED <<memoryVars, retryPending, stopVars, lost, inHand, consumer,
                            admitted, faults>>

\* take() found nothing: it returns null once finish() was called, and waits
\* otherwise.  poll() returns null either way.
NothingFor(call) == IF call = "poll" THEN UNCHANGED consumer
                    ELSE consumer' = IF finished THEN "done" ELSE "waiting"

\* Reading failed, or a frame read earlier turns out corrupt: everything spilled is lost and the
\* spill is over.
Take_ReadFails(call) ==
    /\ memory = <<>> /\ tier # "none" /\ OnFile # <<>>
    /\ Fault
    /\ lost' = lost + pending
    /\ pending' = 0
    /\ DiscardDisk
    /\ NothingFor(call)
    /\ UNCHANGED <<memoryVars, retryPending, stopVars, inHand, admitted, takenVars>>

\* The files hold nothing any more: the spill ends without an entry.
Take_Drained(call) ==
    /\ memory = <<>> /\ tier # "none" /\ OnFile = <<>>
    /\ DiscardDisk
    /\ NothingFor(call)
    /\ UNCHANGED <<memoryVars, pending, retryPending, stopVars, lost, inHand, admitted,
                   takenVars, faults>>

Take_Empty(call) ==
    /\ memory = <<>> /\ tier = "none"
    /\ NothingFor(call)
    /\ UNCHANGED <<memoryVars, diskVars, pending, retryPending, stopVars, lost, inHand,
                   admitted, takenVars, faults>>

PollPass(call) == \/ Take_Memory
                  \/ Take_Disk
                  \/ Take_ReadFails(call)
                  \/ Take_Drained(call)
                  \/ Take_Empty(call)

Take == /\ consumer = "ready"
        /\ \/ ~closed /\ PollPass("take")
           \/ /\ closed
              /\ consumer' = "done"
              /\ UNCHANGED <<memoryVars, diskVars, pending, retryPending, stopVars, lost,
                             inHand, admitted, takenVars, faults>>

Poll == consumer = "ready" /\ ~closed /\ PollPass("poll")

-----------------------------------------------------------------------------
\* finish(), clear() and close()

\* Mutant: finish() wakes nobody.
Finish_Silent == /\ finished' = TRUE
                 /\ UNCHANGED <<memoryVars, diskVars, pending, retryPending, closed,
                                discarded, lost, inHand, consumer, admitted, takenVars, faults>>

Finish == /\ finished' = TRUE
          /\ NotifyAll
          /\ UNCHANGED <<memoryVars, diskVars, pending, retryPending, closed, discarded,
                         lost, inHand, admitted, takenVars, faults>>

DiscardAll == /\ memory' = <<>> /\ memoryBytes' = 0
              /\ DiscardDisk
              /\ discarded' = discarded + pending
              /\ pending' = 0
              /\ NotifyAll

\* Mutant: an emptied spool takes input again.
Clear_Reopens == /\ DiscardAll
                 /\ finished' = FALSE
                 /\ UNCHANGED <<retryPending, closed, lost, inHand, admitted, takenVars, faults>>

Clear == /\ DiscardAll
         /\ UNCHANGED <<retryPending, finished, closed, lost, inHand, admitted, takenVars,
                        faults>>

Close == /\ ~closed
         /\ closed' = TRUE
         /\ DiscardAll
         /\ UNCHANGED <<retryPending, finished, lost, inHand, admitted, takenVars, faults>>

-----------------------------------------------------------------------------
Next == \/ \E p \in Producers : Put(p) \/ RetryPut(p) \/ InterruptPut(p)
        \/ DiskRetryElapses
        \/ Take \/ Poll
        \/ Finish \/ Clear \/ Close

Spec == Init /\ [][Next]_vars

\* The drain thread keeps calling take(), and a waiting producer wakes from
\* its timed wait; nothing makes the source send or the disk fail.
FairSpec == /\ Spec
            /\ WF_vars(Take)
            /\ \A p \in Producers : WF_vars(RetryPut(p))

-----------------------------------------------------------------------------
\* Properties

TypeOK == /\ memory \in Seq(Entry) /\ disk \in Seq(Entry) /\ buffered \in Seq(Entry)
          /\ ends \in SUBSET Nat
          /\ tier \in {"none", "open", "sealed"}
          /\ memoryBytes \in Int /\ written \in Nat /\ committed \in Nat
          /\ diskBytes \in Int /\ pending \in Int
          /\ readAhead \in Nat
          /\ retryPending \in BOOLEAN /\ finished \in BOOLEAN /\ closed \in BOOLEAN
          /\ inHand \in [Producers -> Kinds \cup {None}]
          /\ consumer \in {"ready", "waiting", "done"}
          /\ lost \in Int /\ admitted \in Nat /\ delivered \in Nat
          /\ taken \in Nat /\ discarded \in Int /\ faults \in Nat

\* backlog() is what is really queued, whichever tier it sits in and whatever
\* a failed flush or a failed read took away.
BacklogExact == pending = Len(Queue)

\* Every entry number given out is accounted for: handed out, still queued,
\* counted in lostEntries, or thrown away by clear() or close().
NothingVanishes == admitted = taken + pending + lost + discarded

\* "Order is preserved across the tiers": the memory tier, the files and the
\* write buffer, read in that order, are one queue in arrival order, and all
\* of it is newer than what was handed out.
InOrder ==
    /\ \A i \in 1..Len(Queue) : delivered < Queue[i].id /\ Queue[i].id <= admitted
    /\ \A i, j \in 1..Len(Queue) : i < j => Queue[i].id < Queue[j].id

\* Through spilling, failed flushes, failed reads, clear and close the spool
\* counts what it holds, loses nothing it does not count, and hands out in
\* arrival order.  RecordSpool.java: put, take, poll, backlog, lostEntries.
QueueAccounted == BacklogExact /\ NothingVanishes /\ InOrder

\* "memory-limit bounds the heap and disk-limit bounds the files": an entry
\* too big for the memory tier is alone in it, and the files overshoot by
\* one frame at most.
WithinLimits ==
    /\ memoryBytes > MemoryLimit => Len(memory) = 1
    /\ \A k \in Kinds :
         (\A other \in Kinds : FrameOf[other] <= FrameOf[k]) =>
             diskBytes < DiskLimit + FrameOf[k]

\* "Disk holds the unread backlog plus at most the segment being written",
\* and the spool is spilling only while something on disk is unread or the
\* disk has failed.
SegmentsHoldBacklog ==
    /\ tier = "none" => disk = <<>> /\ buffered = <<>> /\ ends = {}
    /\ tier = "open" => disk \o buffered # <<>>
    /\ tier = "sealed" => buffered = <<>>
    /\ \A x \in ends : \E i \in 1..Len(disk) :
         /\ disk[i].id <= x
         /\ \A y \in ends : y < x => y < disk[i].id

\* The read buffer never runs past the head segment, whose file is about to
\* be deleted under it.
ReadAheadInHead ==
    /\ readAhead <= Len(disk)
    /\ \A i \in 1..readAhead, x \in ends : disk[i].id <= x

\* The sum of the sizes of a tier's entries.
BytesOf(s, size) ==
    LET sum[i \in 0..Len(s)] == IF i = 0 THEN 0 ELSE sum[i - 1] + size[s[i].kind]
    IN  sum[Len(s)]

\* The byte counters that decide when to spill and when to block are exactly
\* the sizes of what the tiers hold.
BytesExact == /\ memoryBytes = BytesOf(memory, SizeOf)
              /\ diskBytes = BytesOf(disk \o buffered, FrameOf)
              /\ written - committed = BytesOf(buffered, FrameOf)

\* Counters, order, limits and files at once: what is queued is accounted for in
\* entries and bytes, within the limits, and in files that go when they are read.
\* RecordSpool.java: appendLocked, flushLocked, readLocked, failReadLocked.
SpoolSound == /\ QueueAccounted /\ BytesExact
              /\ WithinLimits /\ SegmentsHoldBacklog /\ ReadAheadInHead

\* A spool is one queue (SpoolQueue) seen across its tiers.
Abstract == INSTANCE SpoolQueue WITH queue <- Queue, accepting <- ~Stopped
QueueSpec == Abstract!QSpec

\* Once finish() was called the drain thread gets through the backlog and
\* leaves take() for good.
StopDrains == finished ~> consumer = "done"

\* A producer blocked for room is let go again: "the caller blocks until the
\* consumer makes room", as long as the disk works and nobody is interrupted.
ReleasedWithoutFaults ==
    \A p \in Producers : inHand[p] # None ~> inHand[p] = None \/ faults > 0

\* Nobody is left waiting: neither the drain thread, without a timeout, for
\* the work or the end it is to see, nor a producer for room.
\* RecordSpool.java: take, put, finish.
NobodyLeftWaiting == StopDrains /\ ReleasedWithoutFaults
=============================================================================
