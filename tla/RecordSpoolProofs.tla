------------------------- MODULE RecordSpoolProofs -------------------------
(***************************************************************************)
(* The spool, for any number of producers, any entry sizes and any limits: *)
(* it implements one queue, its counters are exact, its limits are         *)
(* overshot by one frame at most, and its files hold the unread backlog.   *)
(***************************************************************************)
EXTENDS RecordSpool, SequenceTheorems, WellFoundedInduction, TLAPS

\* What the disk tier looks like in each of its modes.
TierShape == /\ tier # "open" => buffered = <<>>
             /\ tier = "none" => disk = <<>>
             /\ readAhead <= Len(disk)
             /\ committed <= written

IInv == TypeOK /\ TierShape

-----------------------------------------------------------------------------
\* The entry put() is about to place has its type.
LEMMA NextEntryType ==
    ASSUME TypeOK, NEW k \in Kinds
    PROVE  NextEntry(k) \in Entry
BY DEF TypeOK, NextEntry, Entry

\* Entries have positive sizes, in memory and as frames.
LEMMA FrameSizes ==
    ASSUME NEW k \in Kinds
    PROVE  /\ SizeOf[k] \in Nat \ {0}
           /\ FrameOf[k] \in Nat \ {0}
BY SpoolAssumption

\* Appending to the disk tier, in success and in failure.
LEMMA AppendKeeps ==
    ASSUME IInv, NEW p \in Producers, NEW k \in Kinds,
           AppendFrame(p, k),
           UNCHANGED <<memoryVars, stopVars, takenVars>>
    PROVE  IInv'
<1> USE DEF memoryVars, stopVars, takenVars, Fault, NoFault, Placed, Waits, NotifyAll
<1>1. NextEntry(k) \in Entry
      BY NextEntryType DEF IInv
<1>2. FrameOf[k] \in Nat \ {0}
      BY FrameSizes
<1>3. CASE Append_OK(p, k) /\ UNCHANGED retryPending
      <2> DEFINE onFile == IF Flushes(written, k) THEN disk \o buffered ELSE disk
                 kept   == IF Flushes(written, k) THEN <<>> ELSE buffered
      <2>1. onFile \in Seq(Entry) /\ Len(disk) <= Len(onFile)
            BY ConcatProperties, LenProperties DEF IInv, TypeOK
      <2>2. kept \in Seq(Entry)
            BY EmptySeq DEF IInv, TypeOK
      <2>3. disk' = onFile \/ disk' = Append(onFile, NextEntry(k))
            BY <1>3 DEF Append_OK
      <2>4. disk' \in Seq(Entry) /\ Len(disk) <= Len(disk')
            <3>1. /\ Append(onFile, NextEntry(k)) \in Seq(Entry)
                  /\ Len(Append(onFile, NextEntry(k))) = Len(onFile) + 1
                  BY <1>1, <2>1, AppendProperties
            <3>2. Len(onFile) \in Nat /\ Len(disk) \in Nat
                  BY <2>1, LenProperties DEF IInv, TypeOK
            <3> HIDE DEF onFile
            <3> QED BY <2>1, <2>3, <3>1, <3>2
      <2>5. buffered' = <<>> \/ buffered' = Append(kept, NextEntry(k))
            BY <1>3 DEF Append_OK
      <2>6. buffered' \in Seq(Entry)
            <3>1. Append(kept, NextEntry(k)) \in Seq(Entry)
                  BY <1>1, <2>2, AppendProperties
            <3>2. <<>> \in Seq(Entry)
                  BY EmptySeq
            <3> HIDE DEF kept
            <3> QED BY <2>5, <3>1, <3>2
      <2>7. TypeOK'
            <3>1. ends' \in SUBSET Nat
                  BY <1>3 DEF IInv, TypeOK, Append_OK
            <3>2. written' \in Nat /\ committed' \in Nat
                  <4> DEFINE base == IF Rolls(written) THEN 0 ELSE written
                  <4>1. base \in Nat BY DEF IInv, TypeOK
                  <4>2. /\ written' = base + FrameOf[k]
                        /\ committed' \in {base + FrameOf[k], base, committed}
                        BY <1>3 DEF Append_OK
                  <4> HIDE DEF base
                  <4> QED BY <1>2, <4>1, <4>2 DEF IInv, TypeOK
            <3>3. diskBytes' \in Int /\ pending' \in Int /\ admitted' \in Nat
                  BY <1>2, <1>3 DEF IInv, TypeOK, Append_OK
            <3>4. /\ inHand' \in [Producers -> Kinds \cup {None}]
                  /\ consumer' \in {"ready", "waiting", "done"}
                  BY <1>3 DEF IInv, TypeOK, Append_OK
            <3>5. tier' \in {"none", "open", "sealed"}
                  BY <1>3 DEF Append_OK
            <3>6. UNCHANGED <<memory, memoryBytes, readAhead, lost, retryPending, finished,
                              closed, delivered, taken, discarded, faults>>
                  BY <1>3 DEF Append_OK
            <3> QED BY <2>4, <2>6, <3>1, <3>2, <3>3, <3>4, <3>5, <3>6 DEF IInv, TypeOK
      <2>8. TierShape'
            <3> DEFINE base == IF Rolls(written) THEN 0 ELSE written
            <3>1. /\ base \in Nat
                  /\ Rolls(written) => Flushes(written, k)
                  /\ ~Rolls(written) => committed <= base
                  BY DEF Flushes, IInv, TypeOK, TierShape
            <3>2. /\ written' = base + FrameOf[k]
                  /\ \/ committed' = base + FrameOf[k]
                     \/ committed' = base
                     \/ ~Rolls(written) /\ committed' = committed
                  BY <1>3, <3>1 DEF Append_OK
            <3>3. committed' <= written'
                  <4> HIDE DEF base
                  <4> QED BY <1>2, <3>1, <3>2 DEF IInv, TypeOK
            <3> QED BY <1>3, <2>4, <3>3, LenProperties DEF IInv, TypeOK, TierShape, Append_OK
      <2> QED BY <2>7, <2>8 DEF IInv
<1>4. CASE Append_FlushFails(p, k) /\ retryPending' = TRUE
      <2>1. Len(buffered) \in Nat
            BY LenProperties DEF IInv, TypeOK
      <2>2. <<>> \in Seq(Entry)
            BY EmptySeq
      <2> QED BY <1>4, <2>1, <2>2 DEF IInv, TypeOK, TierShape, Append_FlushFails
<1>5. CASE Append_RollFails(p, k) /\ retryPending' = TRUE
      <2>1. disk \o buffered \in Seq(Entry) /\ Len(disk) <= Len(disk \o buffered)
            BY ConcatProperties, LenProperties DEF IInv, TypeOK
      <2>2. <<>> \in Seq(Entry)
            BY EmptySeq
      <2> QED BY <1>5, <2>1, <2>2, LenProperties DEF IInv, TypeOK, TierShape, Append_RollFails
<1>6. CASE Append_WriteFails(p, k) /\ retryPending' = TRUE
      <2>1. disk \o buffered \in Seq(Entry) /\ Len(disk) <= Len(disk \o buffered)
            BY ConcatProperties, LenProperties DEF IInv, TypeOK
      <2>2. <<>> \in Seq(Entry)
            BY EmptySeq
      <2> QED BY <1>6, <2>1, <2>2, LenProperties DEF IInv, TypeOK, TierShape, Append_WriteFails
<1> QED BY <1>3, <1>4, <1>5, <1>6 DEF AppendFrame

\* An entry that goes to the memory tier.
LEMMA ToMemoryKeeps ==
    ASSUME IInv, NEW p \in Producers, NEW k \in Kinds, ToMemory(p, k),
           UNCHANGED <<diskVars, stopVars, lost, takenVars>>,
           retryPending' \in BOOLEAN, faults' \in Nat
    PROVE  IInv'
<1>1. NextEntry(k) \in Entry
      BY NextEntryType DEF IInv
<1>2. memory' \in Seq(Entry)
      BY <1>1, AppendProperties DEF IInv, TypeOK, ToMemory
<1>3. memoryBytes' \in Int
      BY FrameSizes DEF IInv, TypeOK, ToMemory
<1>4. /\ inHand' \in [Producers -> Kinds \cup {None}]
      /\ consumer' \in {"ready", "waiting", "done"}
      /\ pending' \in Int /\ admitted' \in Nat
      BY DEF IInv, TypeOK, ToMemory, Placed, NotifyAll
<1>5. TypeOK'
      BY <1>2, <1>3, <1>4 DEF IInv, TypeOK, diskVars, stopVars, takenVars
<1>6. TierShape'
      BY DEF IInv, TierShape, diskVars
<1> QED BY <1>5, <1>6 DEF IInv

\* Every pass of put().
LEMMA PutKeeps ==
    ASSUME IInv, NEW p \in Producers, NEW k \in Kinds, PutPass(p, k)
    PROVE  IInv'
<1> USE DEF Fault, NoFault, Placed, Waits
<1>1. CASE Put_Refused(p, k)
      BY <1>1 DEF IInv, TypeOK, TierShape, Put_Refused, memoryVars, diskVars, stopVars, takenVars
<1>2. CASE Put_Memory(p, k)
      <2>1. retryPending' \in BOOLEAN /\ faults' \in Nat
            BY <1>2 DEF Put_Memory, IInv, TypeOK
      <2> QED BY <1>2, <2>1, ToMemoryKeeps DEF Put_Memory
<1>3. CASE Put_BeginSpill(p, k)
      BY <1>3, AppendKeeps DEF Put_BeginSpill
<1>4. CASE Put_NoDisk(p, k)
      <2>1. retryPending' \in BOOLEAN /\ faults' \in Nat
            BY <1>4 DEF Put_NoDisk, IInv, TypeOK
      <2>2. CASE memory = <<>> /\ ToMemory(p, k)
            BY <1>4, <2>1, <2>2, ToMemoryKeeps DEF Put_NoDisk
      <2>3. CASE memory # <<>> /\ Waits(p, k)
                 /\ UNCHANGED <<memoryVars, pending, admitted, consumer>>
            BY <1>4, <2>1, <2>3
            DEF Put_NoDisk, IInv, TypeOK, TierShape, memoryVars, diskVars, stopVars, takenVars
      <2> QED BY <1>4, <2>2, <2>3 DEF Put_NoDisk
<1>5. CASE Put_Disk(p, k)
      BY <1>5, AppendKeeps DEF Put_Disk
<1>6. CASE Put_Waits(p, k)
      BY <1>6 DEF IInv, TypeOK, TierShape, Put_Waits, memoryVars, diskVars, stopVars, takenVars
<1> QED BY <1>1, <1>2, <1>3, <1>4, <1>5, <1>6 DEF PutPass

\* The files the reader sees, and what is left in the write buffer.
Unflushed == IF ReaderFlushes THEN <<>> ELSE buffered

\* Whether or not the reader flushes the write buffer first, what is then on
\* file and what stays unflushed are sequences of entries.
LEMMA OnFileType ==
    ASSUME IInv
    PROVE  /\ OnFile \in Seq(Entry)
           /\ Unflushed \in Seq(Entry)
           /\ OnFile = <<>> => disk = <<>> /\ buffered = <<>>
<1>1. disk \in Seq(Entry) /\ buffered \in Seq(Entry) /\ disk \o buffered \in Seq(Entry)
      BY ConcatProperties DEF IInv, TypeOK
<1>2. <<>> \in Seq(Entry)
      BY EmptySeq
<1>3. disk \o buffered = <<>> => disk = <<>> /\ buffered = <<>>
      BY <1>1, ConcatEqualIffEmpty
<1>4. ASSUME OnFile = <<>>, ~ReaderFlushes PROVE disk = <<>> /\ buffered = <<>>
      <2>1. disk = <<>>
            BY <1>4 DEF OnFile
      <2>2. readAhead = 0
            BY <2>1, EmptySeq DEF IInv, TypeOK, TierShape
      <2>3. LiveEnds(disk) = {}
            BY <2>1 DEF LiveEnds
      <2> QED BY <1>4, <2>1, <2>2, <2>3 DEF ReaderFlushes, IInv, TierShape
<1> QED BY <1>1, <1>2, <1>3, <1>4 DEF OnFile, Unflushed

\* Deleting every segment leaves the disk tier well typed and well shaped.
LEMMA DiscardKeeps ==
    ASSUME IInv, DiscardDisk
    PROVE  /\ disk' \in Seq(Entry) /\ buffered' \in Seq(Entry)
           /\ ends' \in SUBSET Nat /\ tier' \in {"none", "open", "sealed"}
           /\ written' \in Nat /\ committed' \in Nat /\ readAhead' \in Nat
           /\ diskBytes' \in Int
           /\ TierShape'
BY EmptySeq DEF DiscardDisk, TierShape

\* Every pass of take() and poll().
LEMMA PollKeeps ==
    ASSUME IInv, NEW call, PollPass(call)
    PROVE  IInv'
<1>1. NothingFor(call) => consumer' \in {"ready", "waiting", "done"}
      BY DEF NothingFor, IInv, TypeOK
<1>2. CASE Take_Memory
      <2>1. /\ Head(memory) \in Entry /\ memory' \in Seq(Entry)
            BY <1>2, HeadTailProperties DEF Take_Memory, IInv, TypeOK
      <2>2. memoryBytes' \in Int
            BY <1>2, <2>1, FrameSizes DEF Take_Memory, IInv, TypeOK, Entry
      <2>3. delivered' \in Nat /\ taken' \in Nat /\ pending' \in Int
            BY <1>2, <2>1 DEF Take_Memory, HandOut, Entry, IInv, TypeOK
      <2> QED BY <1>2, <2>1, <2>2, <2>3
          DEF Take_Memory, IInv, TypeOK, TierShape, diskVars, stopVars
<1>3. CASE Take_Disk
      <2>1. PICK n \in Fetches : Trim(Tail(OnFile), Unflushed, n)
            BY <1>3 DEF Take_Disk, Unflushed
      <2>2. /\ Head(OnFile) \in Entry /\ Tail(OnFile) \in Seq(Entry)
            /\ Len(Tail(OnFile)) = Len(OnFile) - 1 /\ Len(OnFile) \in Nat
            BY <1>3, OnFileType, HeadTailProperties, LenProperties DEF Take_Disk
      <2>3. n \in Nat \ {0} /\ n <= Len(OnFile)
            <3>1. CASE readAhead > 0
                  BY <3>1, LenProperties DEF Fetches, OnFile, ReaderFlushes, IInv, TypeOK, TierShape
            <3>2. CASE ~(readAhead > 0)
                  BY <2>2, <3>2 DEF Fetches
            <3> QED BY <3>1, <3>2
      <2>4. delivered' \in Nat /\ taken' \in Nat /\ pending' \in Int
            BY <1>3, <2>2 DEF Take_Disk, HandOut, Entry, IInv, TypeOK
      <2>5. /\ disk' \in Seq(Entry) /\ buffered' \in Seq(Entry)
            /\ ends' \in SUBSET Nat /\ tier' \in {"none", "open", "sealed"}
            /\ written' \in Nat /\ committed' \in Nat /\ readAhead' \in Nat
            /\ diskBytes' \in Int
            /\ TierShape'
            <3>1. CASE DiscardDisk
                  BY <3>1, DiscardKeeps
            <3>2. CASE ~DiscardDisk
                  <4>1. /\ disk' = Tail(OnFile) /\ buffered' = Unflushed
                        /\ ends' = LiveEnds(Tail(OnFile))
                        /\ readAhead' = n - 1
                        /\ diskBytes' = diskBytes - FrameOf[Head(OnFile).kind]
                        /\ committed' \in {written, committed}
                        /\ UNCHANGED <<tier, written>>
                        BY <2>1, <3>2 DEF Trim
                  <4>2. ends' \in SUBSET Nat
                        BY <4>1 DEF LiveEnds, IInv, TypeOK
                  <4>3. FrameOf[Head(OnFile).kind] \in Nat
                        BY <2>2, FrameSizes DEF Entry
                  <4>4. tier # "open" => Unflushed = <<>>
                        BY DEF Unflushed, ReaderFlushes, IInv, TierShape
                  <4>5. tier # "none"
                        BY <1>3 DEF Take_Disk
                  <4>6. TierShape'
                        BY <2>2, <2>3, <4>1, <4>4, <4>5 DEF IInv, TypeOK, TierShape
                  <4>7. /\ disk' \in Seq(Entry) /\ buffered' \in Seq(Entry)
                        /\ tier' \in {"none", "open", "sealed"}
                        /\ written' \in Nat /\ committed' \in Nat
                        BY <2>2, <4>1, OnFileType DEF IInv, TypeOK
                  <4>8. readAhead' \in Nat /\ diskBytes' \in Int
                        BY <2>3, <4>1, <4>3 DEF IInv, TypeOK
                  <4> QED BY <4>2, <4>6, <4>7, <4>8
            <3> QED BY <3>1, <3>2
      <2>6. TypeOK'
            BY <1>3, <2>4, <2>5 DEF Take_Disk, IInv, TypeOK, memoryVars, stopVars
      <2> QED BY <2>5, <2>6 DEF IInv
<1>4. CASE Take_ReadFails(call)
      BY <1>1, <1>4, DiscardKeeps
      DEF Take_ReadFails, Fault, IInv, TypeOK, memoryVars, stopVars, takenVars
<1>5. CASE Take_Drained(call)
      BY <1>1, <1>5, DiscardKeeps
      DEF Take_Drained, IInv, TypeOK, memoryVars, stopVars, takenVars
<1>6. CASE Take_Empty(call)
      BY <1>1, <1>6
      DEF Take_Empty, IInv, TypeOK, TierShape, memoryVars, diskVars, stopVars, takenVars
<1> QED BY <1>2, <1>3, <1>4, <1>5, <1>6 DEF PollPass

-----------------------------------------------------------------------------
\* A new spool satisfies the invariant.
LEMMA IInvInit ==
    ASSUME Init
    PROVE  IInv
<1>1. <<>> \in Seq(Entry) /\ Len(<<>>) = 0
      BY EmptySeq
<1>2. TypeOK
      <2>1. inHand \in [Producers -> Kinds \cup {None}]
            BY DEF Init
      <2>2. memory \in Seq(Entry) /\ disk \in Seq(Entry) /\ buffered \in Seq(Entry)
            BY <1>1 DEF Init
      <2>3. ends \in SUBSET Nat
            BY DEF Init
      <2>4. /\ tier \in {"none", "open", "sealed"}
            /\ consumer \in {"ready", "waiting", "done"}
            /\ retryPending \in BOOLEAN /\ finished \in BOOLEAN /\ closed \in BOOLEAN
            BY DEF Init
      <2>5. /\ memoryBytes \in Int /\ written \in Nat /\ committed \in Nat
            /\ diskBytes \in Int /\ pending \in Int /\ readAhead \in Nat
            /\ lost \in Int /\ admitted \in Nat /\ delivered \in Nat
            /\ taken \in Nat /\ discarded \in Int /\ faults \in Nat
            BY DEF Init
      <2> QED BY <2>1, <2>2, <2>3, <2>4, <2>5 DEF TypeOK
<1>3. TierShape
      <2>1. Len(disk) = 0
            BY <1>1 DEF Init
      <2> QED BY <2>1 DEF Init, TierShape
<1> QED BY <1>2, <1>3 DEF IInv

\* Every method of the spool preserves the invariant.
LEMMA IInvStep ==
    ASSUME IInv, [Next]_vars
    PROVE  IInv'
<1>1. ASSUME NEW p \in Producers, Put(p) PROVE IInv'
      BY <1>1, PutKeeps DEF Put
<1>2. ASSUME NEW p \in Producers, RetryPut(p) PROVE IInv'
      <2>1. inHand[p] \in Kinds
            BY <1>2 DEF RetryPut, IInv, TypeOK
      <2> QED BY <1>2, <2>1, PutKeeps DEF RetryPut
<1>3. ASSUME NEW p \in Producers, InterruptPut(p) PROVE IInv'
      BY <1>3 DEF InterruptPut, Fault, Placed, IInv, TypeOK, TierShape, memoryVars, diskVars,
                  stopVars, takenVars
<1>4. CASE DiskRetryElapses
      BY <1>4 DEF DiskRetryElapses, IInv, TypeOK, TierShape, memoryVars, diskVars, stopVars,
                  takenVars
<1>5. CASE Take
      <2>1. CASE PollPass("take")
            BY <2>1, PollKeeps
      <2>2. CASE ~PollPass("take")
            BY <1>5, <2>2 DEF Take, IInv, TypeOK, TierShape, memoryVars, diskVars, stopVars,
                              takenVars
      <2> QED BY <2>1, <2>2
<1>6. CASE Poll
      BY <1>6, PollKeeps DEF Poll
<1>7. CASE Finish
      BY <1>7 DEF Finish, NotifyAll, IInv, TypeOK, TierShape, memoryVars, diskVars, takenVars
<1>8. ASSUME DiscardAll, UNCHANGED <<retryPending, lost, inHand, admitted, takenVars, faults>>,
             finished' \in BOOLEAN, closed' \in BOOLEAN
      PROVE  IInv'
      <2>1. DiscardDisk
            BY <1>8 DEF DiscardAll
      <2> QED BY <1>8, <2>1, DiscardKeeps, EmptySeq
              DEF DiscardAll, NotifyAll, IInv, TypeOK, takenVars
<1>9. CASE Clear
      BY <1>8, <1>9 DEF Clear, IInv, TypeOK
<1>10. CASE Close
      BY <1>8, <1>10 DEF Close, IInv, TypeOK
<1>11. CASE UNCHANGED vars
      BY <1>11 DEF vars, IInv, TypeOK, TierShape, memoryVars, diskVars, stopVars, takenVars
<1> QED BY <1>1, <1>2, <1>3, <1>4, <1>5, <1>6, <1>7, <1>9, <1>10, <1>11 DEF Next

\* The spool's state keeps its types and its tiers keep their shape.
THEOREM SpoolInvariant == Spec => []IInv
<1>1. Init => IInv BY IInvInit
<1>2. IInv /\ [Next]_vars => IInv' BY IInvStep
<1> QED BY <1>1, <1>2, PTL DEF Spec

\* The type invariant of the runs, for every value of the constants.
THEOREM SpoolTypes == Spec => []TypeOK
<1>1. IInv => TypeOK BY DEF IInv
<1> QED BY <1>1, SpoolInvariant, PTL

-----------------------------------------------------------------------------
\* The queue across the tiers.

\* Types and lengths of the tiers' concatenations.
LEMMA Concatenations ==
    ASSUME NEW m \in Seq(Entry), NEW d \in Seq(Entry), NEW b \in Seq(Entry)
    PROVE  /\ m \o d \o b \in Seq(Entry)
           /\ Len(m \o d \o b) = Len(m) + Len(d) + Len(b)
           /\ m \o d \o b = m \o (d \o b)
           /\ m \o (d \o b) \o <<>> = m \o d \o b
           /\ m \o d = SubSeq(m \o d \o b, 1, Len(m) + Len(d))
           /\ Len(m) \in Nat /\ Len(d) \in Nat /\ Len(b) \in Nat
<1>1. /\ m \o d \in Seq(Entry) /\ Len(m \o d) = Len(m) + Len(d) /\ d \o b \in Seq(Entry)
      BY ConcatProperties
<1>2. /\ m \o d \o b \in Seq(Entry)
      /\ Len(m \o d \o b) = Len(m \o d) + Len(b)
      /\ \A i \in 1..Len(m \o d) + Len(b) :
           (m \o d \o b)[i] = IF i <= Len(m \o d) THEN (m \o d)[i] ELSE b[i - Len(m \o d)]
      BY <1>1, ConcatProperties
<1>3. Len(m) \in Nat /\ Len(d) \in Nat /\ Len(b) \in Nat
      BY LenProperties
<1>4. m \o d \o b = m \o (d \o b)
      BY ConcatAssociative
<1>5. m \o (d \o b) \o <<>> = m \o (d \o b)
      <2>1. m \o (d \o b) \in Seq(Entry)
            BY <1>1, ConcatProperties
      <2> QED BY <2>1, ConcatEmptySeq
<1>6. m \o d = SubSeq(m \o d \o b, 1, Len(m) + Len(d))
      <2> DEFINE q == m \o d \o b
                 n == Len(m) + Len(d)
      <2>1. n \in Nat /\ n <= Len(q)
            BY <1>1, <1>2, <1>3
      <2>2. \A i \in 1..n : q[i] = (m \o d)[i] /\ q[i] \in Entry
            <3>1. \A i \in 1..n : (m \o d)[i] \in Entry
                  BY <1>1, LenProperties
            <3> QED BY <1>1, <1>2, <1>3, <3>1
      <2>3. /\ SubSeq(q, 1, n) \in Seq(Entry)
            /\ Len(SubSeq(q, 1, n)) = IF 1 <= n THEN n - 1 + 1 ELSE 0
            /\ \A i \in 1..n - 1 + 1 : SubSeq(q, 1, n)[i] = q[1 + i - 1]
            <3>1. n \in Int /\ 1 \in Int /\ \A i \in 1..n : q[i] \in Entry
                  BY <2>1, <2>2
            <3> HIDE DEF n, q
            <3> QED BY <3>1, SubSeqProperties
      <2>4. /\ Len(SubSeq(q, 1, n)) = Len(m \o d)
            /\ \A i \in 1..Len(m \o d) : (m \o d)[i] = SubSeq(q, 1, n)[i]
            <3>1. Len(m \o d) = n
                  BY <1>1
            <3> HIDE DEF n, q
            <3>2. Len(SubSeq(q, 1, n)) = n /\ n \in Nat /\ n <= Len(q) /\ Len(q) \in Nat
                  BY <2>1, <2>2, <2>3
            <3>3. ASSUME NEW i \in 1..n PROVE (m \o d)[i] = SubSeq(q, 1, n)[i]
                  <4>1. i \in 1..n - 1 + 1 /\ 1 + i - 1 = i
                        BY <3>2
                  <4> QED BY <2>2, <2>3, <4>1
            <3> QED BY <3>1, <3>2, <3>3
      <2> HIDE DEF q
      <2> QED BY <1>1, <2>3, <2>4, SeqEqual
<1> QED BY <1>1, <1>2, <1>3, <1>4, <1>5, <1>6

\* A frame put in the write buffer is the newest entry of the queue.
LEMMA AppendsBehindBuffered ==
    ASSUME NEW m \in Seq(Entry), NEW d \in Seq(Entry), NEW b \in Seq(Entry), NEW e \in Entry
    PROVE  m \o d \o Append(b, e) = Append(m \o d \o b, e)
<1>1. <<e>> \in Seq(Entry) /\ m \o d \in Seq(Entry) /\ m \o d \o b \in Seq(Entry)
      BY ConcatProperties
<1>2. Append(m \o d \o b, e) = (m \o d \o b) \o <<e>>
      BY <1>1, AppendIsConcat
<1>3. Append(b, e) = b \o <<e>>
      BY AppendIsConcat
<1>4. (m \o d) \o (b \o <<e>>) = ((m \o d) \o b) \o <<e>>
      BY <1>1, ConcatAssociative
<1> QED BY <1>2, <1>3, <1>4

\* So is one put in the write buffer after its content went to the file,
LEMMA AppendsBehindFlushed ==
    ASSUME NEW m \in Seq(Entry), NEW d \in Seq(Entry), NEW b \in Seq(Entry), NEW e \in Entry
    PROVE  m \o (d \o b) \o Append(<<>>, e) = Append(m \o d \o b, e)
<1>1. <<e>> \in Seq(Entry) /\ m \o d \in Seq(Entry) /\ m \o d \o b \in Seq(Entry) /\ <<>> \in Seq(Entry)
      BY ConcatProperties, EmptySeq
<1>2. Append(m \o d \o b, e) = (m \o d \o b) \o <<e>>
      BY <1>1, AppendIsConcat
<1>3. Append(<<>>, e) = <<e>>
      BY <1>1, AppendIsConcat, ConcatEmptySeq
<1>4. m \o d \o b = m \o (d \o b)
      BY ConcatAssociative
<1> QED BY <1>2, <1>3, <1>4

\* one written straight to the file,
LEMMA AppendsToFiles ==
    ASSUME NEW m \in Seq(Entry), NEW d \in Seq(Entry), NEW b \in Seq(Entry), NEW e \in Entry
    PROVE  m \o Append(d \o b, e) \o <<>> = Append(m \o d \o b, e)
<1>1. /\ <<e>> \in Seq(Entry) /\ d \o b \in Seq(Entry) /\ m \o d \o b \in Seq(Entry)
      /\ m \o (d \o b) \in Seq(Entry) /\ Append(d \o b, e) \in Seq(Entry)
      BY ConcatProperties, AppendProperties
<1>2. Append(m \o d \o b, e) = (m \o d \o b) \o <<e>>
      BY <1>1, AppendIsConcat
<1>3. Append(d \o b, e) = (d \o b) \o <<e>>
      BY <1>1, AppendIsConcat
<1>4. m \o ((d \o b) \o <<e>>) = (m \o (d \o b)) \o <<e>>
      BY <1>1, ConcatAssociative
<1>5. m \o d \o b = m \o (d \o b)
      BY ConcatAssociative
<1>6. m \o Append(d \o b, e) \o <<>> = m \o Append(d \o b, e)
      <2>1. m \o Append(d \o b, e) \in Seq(Entry)
            BY <1>1, ConcatProperties
      <2> QED BY <2>1, ConcatEmptySeq
<1> QED BY <1>2, <1>3, <1>4, <1>5, <1>6

\* and one placed in memory while the disk tier is empty.
LEMMA AppendsToMemory ==
    ASSUME NEW m \in Seq(Entry), NEW e \in Entry
    PROVE  Append(m, e) \o <<>> \o <<>> = Append(m \o <<>> \o <<>>, e)
<1>1. <<>> \in Seq(Entry) /\ Append(m, e) \in Seq(Entry)
      BY EmptySeq, AppendProperties
<1>2. Append(m, e) \o <<>> = Append(m, e)
      BY <1>1, ConcatEmptySeq
<1>3. m \o <<>> = m
      BY ConcatEmptySeq
<1> QED BY <1>2, <1>3

\* The oldest entry is memory's, or the files' when memory is empty; taking
\* it leaves the queue's tail.
LEMMA HeadOfTheQueue ==
    ASSUME NEW m \in Seq(Entry), NEW x \in Seq(Entry), m # <<>>
    PROVE  /\ m \o x # <<>>
           /\ Head(m \o x) = Head(m)
           /\ Tail(m \o x) = Tail(m) \o x
<1>1. /\ m \o x \in Seq(Entry) /\ Len(m \o x) = Len(m) + Len(x)
      /\ \A i \in 1..Len(m) + Len(x) : (m \o x)[i] = IF i <= Len(m) THEN m[i] ELSE x[i - Len(m)]
      BY ConcatProperties
<1>2. /\ Len(m) \in Nat \ {0} /\ Len(x) \in Nat
      BY EmptySeq, LenProperties
<1>3. m \o x # <<>>
      BY ConcatEqualIffEmpty
<1>4. /\ Tail(m) \in Seq(Entry) /\ Len(Tail(m)) = Len(m) - 1
      /\ \A i \in 1..Len(Tail(m)) : Tail(m)[i] = m[i + 1]
      BY HeadTailProperties
<1>5. /\ Tail(m \o x) \in Seq(Entry) /\ Len(Tail(m \o x)) = Len(m \o x) - 1
      /\ \A i \in 1..Len(Tail(m \o x)) : Tail(m \o x)[i] = (m \o x)[i + 1]
      BY <1>1, <1>3, HeadTailProperties
<1>6. /\ Tail(m) \o x \in Seq(Entry) /\ Len(Tail(m) \o x) = Len(Tail(m)) + Len(x)
      /\ \A i \in 1..Len(Tail(m)) + Len(x) :
           (Tail(m) \o x)[i] = IF i <= Len(Tail(m)) THEN Tail(m)[i] ELSE x[i - Len(Tail(m))]
      BY <1>4, ConcatProperties
<1>7. Tail(m \o x) = Tail(m) \o x
      <2>1. Len(Tail(m \o x)) = Len(Tail(m) \o x)
            BY <1>1, <1>2, <1>4, <1>5, <1>6
      <2>2. ASSUME NEW i \in 1..Len(Tail(m \o x))
            PROVE  Tail(m \o x)[i] = (Tail(m) \o x)[i]
            <3>1. i \in Nat /\ 1 <= i /\ i + 1 <= Len(m) + Len(x)
                  BY <1>1, <1>2, <1>5
            <3>2. Tail(m \o x)[i] = IF i + 1 <= Len(m) THEN m[i + 1] ELSE x[i + 1 - Len(m)]
                  BY <1>1, <1>2, <1>5, <3>1
            <3>3. (Tail(m) \o x)[i] = IF i <= Len(m) - 1 THEN m[i + 1] ELSE x[i - (Len(m) - 1)]
                  BY <1>2, <1>4, <1>6, <3>1
            <3>4. i + 1 - Len(m) = i - (Len(m) - 1) /\ (i + 1 <= Len(m) <=> i <= Len(m) - 1)
                  BY <1>2, <3>1
            <3> QED BY <3>2, <3>3, <3>4
      <2> QED BY <1>5, <1>6, <2>1, <2>2, SeqEqual
<1>8. Head(m \o x) = Head(m)
      <2>1. Head(m \o x) = (m \o x)[1] /\ Head(m) = m[1]
            OBVIOUS
      <2> QED BY <1>1, <1>2, <2>1
<1> QED BY <1>3, <1>7, <1>8

-----------------------------------------------------------------------------
\* What one step does to the queue and to the backlog counter.

Grows(k)   == /\ Queue' = Append(Queue, NextEntry(k))
              /\ admitted' = admitted + 1 /\ delivered' = delivered
              /\ pending' = pending + 1
Shrinks    == /\ Queue # <<>>
              /\ delivered' = Head(Queue).id /\ Queue' = Tail(Queue)
              /\ admitted' = admitted
              /\ pending' = pending - 1
Drops(n)   == /\ Queue' = SubSeq(Queue, 1, n)
              /\ pending' = pending - (Len(Queue) - n)
              /\ UNCHANGED <<admitted, delivered>>
Empties    == /\ Queue' = <<>> /\ pending' = 0
              /\ UNCHANGED <<admitted, delivered>>
Keeps      == UNCHANGED <<Queue, pending, admitted, delivered>>

\* The queue across the tiers is a sequence of entries.
LEMMA QueueType ==
    ASSUME IInv
    PROVE  Queue \in Seq(Entry) /\ Len(Queue) \in Nat
BY Concatenations, LenProperties DEF IInv, TypeOK, Queue

\* An append lets one entry in at the end of the queue, or loses the newest
\* ones (the write buffer's) and leaves the producer waiting.
LEMMA AppendMaps ==
    ASSUME IInv, NEW p \in Producers, NEW k \in Kinds, AppendFrame(p, k),
           UNCHANGED <<memoryVars, stopVars, takenVars>>
    PROVE  \/ Grows(k)
           \/ \E n \in 0..Len(Queue) : Drops(n)
           \/ Keeps
<1> DEFINE e == NextEntry(k)
<1>1. e \in Entry
      BY NextEntryType DEF IInv
<1>2. /\ memory \in Seq(Entry) /\ disk \in Seq(Entry) /\ buffered \in Seq(Entry)
      BY DEF IInv, TypeOK
<1>3. memory' = memory /\ delivered' = delivered
      BY DEF memoryVars, takenVars
<1>4. CASE Append_OK(p, k)
      <2>1. FrameOf[k] \in Nat
            BY FrameSizes
      <2>2. Oversize(k) => Flushes(written, k)
            BY <2>1, SpoolAssumption DEF Oversize, Flushes, IInv, TypeOK, TierShape
      <2>3. \/ disk' = Append(disk \o buffered, e) /\ buffered' = <<>>
            \/ disk' = disk \o buffered /\ buffered' = Append(<<>>, e)
            \/ disk' = disk /\ buffered' = Append(buffered, e)
            BY <1>4, <2>2 DEF Append_OK
      <2>4. Queue' = memory \o disk' \o buffered'
            BY <1>3 DEF Queue
      <2>5. /\ memory \o disk \o Append(buffered, e) = Append(memory \o disk \o buffered, e)
            /\ memory \o (disk \o buffered) \o Append(<<>>, e) = Append(memory \o disk \o buffered, e)
            /\ memory \o Append(disk \o buffered, e) \o <<>> = Append(memory \o disk \o buffered, e)
            <3> HIDE DEF e
            <3>1. memory \o disk \o Append(buffered, e) = Append(memory \o disk \o buffered, e)
                  BY <1>1, <1>2, AppendsBehindBuffered
            <3>2. memory \o (disk \o buffered) \o Append(<<>>, e)
                    = Append(memory \o disk \o buffered, e)
                  BY <1>1, <1>2, AppendsBehindFlushed
            <3>3. memory \o Append(disk \o buffered, e) \o <<>>
                    = Append(memory \o disk \o buffered, e)
                  BY <1>1, <1>2, AppendsToFiles
            <3> QED BY <3>1, <3>2, <3>3
      <2>6. Queue' = Append(Queue, e)
            <3> HIDE DEF e
            <3> QED BY <2>3, <2>4, <2>5 DEF Queue
      <2> QED BY <1>3, <1>4, <2>6 DEF Append_OK, Grows
<1>5. CASE Append_FlushFails(p, k)
      <2> DEFINE n == Len(memory) + Len(disk)
      <2>1. Queue' = memory \o disk \o <<>>
            BY <1>3, <1>5 DEF Append_FlushFails, Queue
      <2>2. memory \o disk \o <<>> = memory \o disk
            BY <1>2, ConcatProperties, ConcatEmptySeq
      <2>3. /\ memory \o disk = SubSeq(Queue, 1, n)
            /\ Len(Queue) = n + Len(buffered)
            /\ n \in Nat /\ Len(buffered) \in Nat
            BY <1>2, Concatenations DEF Queue
      <2>4. n \in 0..Len(Queue) /\ Drops(n)
            BY <1>3, <1>5, <2>1, <2>2, <2>3 DEF Append_FlushFails, Drops
      <2> QED BY <2>4
<1>6. CASE Append_RollFails(p, k) \/ Append_WriteFails(p, k)
      <2>1. Queue' = memory \o (disk \o buffered) \o <<>>
            BY <1>3, <1>6 DEF Append_RollFails, Append_WriteFails, Queue
      <2>2. memory \o (disk \o buffered) \o <<>> = memory \o disk \o buffered
            BY <1>2, Concatenations
      <2>3. Queue' = Queue
            BY <2>1, <2>2 DEF Queue
      <2> QED BY <1>3, <1>6, <2>3 DEF Append_RollFails, Append_WriteFails, Keeps
<1> QED BY <1>4, <1>5, <1>6 DEF AppendFrame

\* An entry placed in memory is let in at the end of the queue.
LEMMA ToMemoryMaps ==
    ASSUME IInv, NEW p \in Producers, NEW k \in Kinds, ToMemory(p, k), tier = "none",
           UNCHANGED <<diskVars, takenVars>>
    PROVE  Grows(k)
<1>1. disk = <<>> /\ buffered = <<>> /\ disk' = <<>> /\ buffered' = <<>>
      BY DEF IInv, TierShape, diskVars
<1>2. memory \in Seq(Entry) /\ <<>> \in Seq(Entry) /\ NextEntry(k) \in Entry
      BY NextEntryType, EmptySeq DEF IInv, TypeOK
<1>3. Append(memory, NextEntry(k)) \o <<>> \o <<>> = Append(memory \o <<>> \o <<>>, NextEntry(k))
      BY <1>2, AppendsToMemory
<1>4. Queue' = Append(Queue, NextEntry(k))
      BY <1>1, <1>3 DEF ToMemory, Queue
<1> QED BY <1>4 DEF ToMemory, Grows, takenVars

\* A pass of put() lets one entry in, loses some of the newest, or does
\* nothing to the queue.
LEMMA PutMaps ==
    ASSUME IInv, NEW p \in Producers, NEW k \in Kinds, PutPass(p, k)
    PROVE  /\ UNCHANGED stopVars
           /\ \/ ~Stopped /\ Grows(k)
              \/ \E n \in 0..Len(Queue) : Drops(n)
              \/ Keeps
<1>1. CASE Put_Refused(p, k)
      BY <1>1 DEF Put_Refused, Keeps, Queue, memoryVars, diskVars, takenVars
<1>2. CASE Put_Memory(p, k)
      BY <1>2, ToMemoryMaps DEF Put_Memory, UseMemory
<1>3. CASE Put_BeginSpill(p, k)
      BY <1>3, AppendMaps DEF Put_BeginSpill
<1>4. CASE Put_NoDisk(p, k)
      <2>1. CASE ToMemory(p, k)
            BY <1>4, <2>1, ToMemoryMaps DEF Put_NoDisk, UseMemory
      <2>2. CASE UNCHANGED <<memoryVars, pending, admitted, consumer>>
            BY <1>4, <2>2 DEF Put_NoDisk, Keeps, Queue, memoryVars, diskVars, takenVars
      <2> QED BY <1>4, <2>1, <2>2 DEF Put_NoDisk
<1>5. CASE Put_Disk(p, k)
      BY <1>5, AppendMaps DEF Put_Disk
<1>6. CASE Put_Waits(p, k)
      BY <1>6 DEF Put_Waits, Keeps, Queue, memoryVars, diskVars, takenVars
<1> QED BY <1>1, <1>2, <1>3, <1>4, <1>5, <1>6 DEF PutPass

\* The tiers may be joined in any order.
LEMMA TiersAssociate ==
    ASSUME NEW m \in Seq(Entry), NEW d \in Seq(Entry), NEW b \in Seq(Entry)
    PROVE  m \o (d \o b) = m \o d \o b
BY ConcatAssociative

\* A pass of take() or poll() hands out the oldest entry, empties the queue
\* because it could not be read, or does nothing to it.
LEMMA PollMaps ==
    ASSUME IInv, NEW call, PollPass(call)
    PROVE  /\ UNCHANGED stopVars
           /\ Shrinks \/ Empties \/ Keeps
<1>1. /\ memory \in Seq(Entry) /\ disk \in Seq(Entry) /\ buffered \in Seq(Entry)
      /\ disk \o buffered \in Seq(Entry) /\ <<>> \in Seq(Entry)
      BY EmptySeq, ConcatProperties DEF IInv, TypeOK
<1>2. Queue = memory \o (disk \o buffered)
      <2>1. memory \o disk \o buffered = memory \o (disk \o buffered)
            BY <1>1, ConcatAssociative
      <2> QED BY <2>1 DEF Queue
<1>3. OnFile \in Seq(Entry) /\ Unflushed \in Seq(Entry)
      BY OnFileType
<1>4. OnFile \o Unflushed = disk \o buffered
      <2>1. CASE ReaderFlushes
            BY <1>1, <2>1, ConcatEmptySeq DEF OnFile, Unflushed
      <2>2. CASE ~ReaderFlushes
            BY <2>2 DEF OnFile, Unflushed
      <2> QED BY <2>1, <2>2
<1>5. CASE Take_Memory
      <2>1. /\ Queue # <<>> /\ Head(Queue) = Head(memory)
            /\ Tail(Queue) = Tail(memory) \o (disk \o buffered)
            BY <1>1, <1>2, <1>5, HeadOfTheQueue DEF Take_Memory
      <2>2. Tail(memory) \in Seq(Entry)
            BY <1>1, <1>5, HeadTailProperties DEF Take_Memory
      <2>3. Tail(memory) \o (disk \o buffered) = Tail(memory) \o disk \o buffered
            BY <1>1, <2>2, TiersAssociate
      <2>4. Queue' = Tail(memory) \o disk \o buffered
            BY <1>5 DEF Take_Memory, Queue, diskVars
      <2> QED BY <1>5, <2>1, <2>3, <2>4 DEF Take_Memory, HandOut, Shrinks
<1>6. CASE memory = <<>>
      <2>1. Queue = OnFile \o Unflushed
            BY <1>1, <1>2, <1>4, <1>6, ConcatEmptySeq
      <2>2. CASE Take_Disk
            <3>1. /\ Queue # <<>> /\ Head(Queue) = Head(OnFile)
                  /\ Tail(Queue) = Tail(OnFile) \o Unflushed
                  BY <1>3, <2>1, <2>2, HeadOfTheQueue DEF Take_Disk
            <3>2. PICK n : Trim(Tail(OnFile), Unflushed, n)
                  BY <2>2 DEF Take_Disk, Unflushed
            <3>3. disk' = Tail(OnFile) /\ buffered' = Unflushed
                  BY <3>2 DEF Trim, SpillOver, DiscardDisk
            <3>4. memory' = <<>>
                  BY <1>6, <2>2 DEF Take_Disk, memoryVars
            <3>5. Tail(OnFile) \in Seq(Entry)
                  BY <1>3, <2>2, HeadTailProperties DEF Take_Disk
            <3>6. Queue' = <<>> \o Tail(OnFile) \o Unflushed
                  BY <3>3, <3>4 DEF Queue
            <3>7. <<>> \o Tail(OnFile) = Tail(OnFile)
                  BY <3>5, ConcatEmptySeq
            <3> QED BY <2>2, <3>1, <3>6, <3>7 DEF Take_Disk, HandOut, Shrinks
      <2>3. ASSUME DiscardDisk, UNCHANGED memoryVars
            PROVE  Queue' = <<>>
            <3>1. Queue' = <<>> \o <<>> \o <<>>
                  BY <1>6, <2>3 DEF DiscardDisk, memoryVars, Queue
            <3> QED BY <1>1, <3>1, ConcatEmptySeq
      <2>4. CASE Take_ReadFails(call)
            BY <2>3, <2>4 DEF Take_ReadFails, Empties, takenVars
      <2>5. CASE Take_Drained(call)
            <3>1. Queue = <<>>
                  <4>1. disk = <<>> /\ buffered = <<>>
                        BY <2>5, OnFileType DEF Take_Drained
                  <4> QED BY <1>1, <1>2, <1>6, <4>1, ConcatEmptySeq
            <3> QED BY <2>3, <2>5, <3>1 DEF Take_Drained, Keeps, takenVars
      <2>6. CASE Take_Empty(call)
            BY <2>6 DEF Take_Empty, Keeps, Queue, memoryVars, diskVars, takenVars
      <2>7. UNCHANGED stopVars
            BY <1>6 DEF PollPass, Take_Memory, Take_Disk, Take_ReadFails, Take_Drained, Take_Empty
      <2> QED BY <1>6, <2>2, <2>4, <2>5, <2>6, <2>7 DEF PollPass, Take_Memory
<1>7. Take_Memory \/ memory = <<>>
      BY DEF PollPass, Take_Disk, Take_ReadFails, Take_Drained, Take_Empty
<1>8. Take_Memory => UNCHANGED stopVars
      BY DEF Take_Memory
<1> QED BY <1>5, <1>6, <1>7, <1>8

-----------------------------------------------------------------------------
\* Every step of the spool, sorted by what it does to the queue.

Forgoes == /\ UNCHANGED <<Queue, pending, delivered>>
           /\ admitted' = admitted + 1

QueueStep ==
    \/ /\ UNCHANGED <<closed, finished>>
       /\ \/ ~Stopped /\ \E k \in Kinds : Grows(k)
          \/ Shrinks
          \/ \E n \in 0..Len(Queue) : Drops(n)
          \/ Empties
          \/ Forgoes
          \/ Keeps
    \/ Stopped' /\ (Keeps \/ Empties)

\* Every step of the spool is a step of the queue, or leaves it alone.
LEMMA StepMaps ==
    ASSUME IInv, [Next]_vars
    PROVE  QueueStep
<1> USE DEF stopVars
<1>1. ASSUME NEW p \in Producers, Put(p) PROVE QueueStep
      BY <1>1, PutMaps DEF Put, QueueStep
<1>2. ASSUME NEW p \in Producers, RetryPut(p) PROVE QueueStep
      <2>1. inHand[p] \in Kinds
            BY <1>2 DEF RetryPut, IInv, TypeOK
      <2> QED BY <1>2, <2>1, PutMaps DEF RetryPut, QueueStep
<1>3. ASSUME NEW p \in Producers, InterruptPut(p) PROVE QueueStep
      BY <1>3 DEF InterruptPut, QueueStep, Forgoes, Queue, memoryVars, diskVars, takenVars
<1>4. CASE DiskRetryElapses
      BY <1>4 DEF DiskRetryElapses, QueueStep, Keeps, Queue, memoryVars, diskVars, takenVars
<1>5. CASE Take
      <2>1. CASE PollPass("take")
            BY <2>1, PollMaps DEF QueueStep
      <2>2. CASE ~PollPass("take")
            BY <1>5, <2>2 DEF Take, QueueStep, Keeps, Queue, memoryVars, diskVars, takenVars
      <2> QED BY <2>1, <2>2
<1>6. CASE Poll
      BY <1>6, PollMaps DEF Poll, QueueStep
<1>7. CASE Finish
      BY <1>7 DEF Finish, Stopped, QueueStep, Keeps, Queue, memoryVars, diskVars, takenVars
<1>8. ASSUME DiscardAll, UNCHANGED <<admitted, takenVars>> PROVE Empties
      <2>1. Queue' = <<>> \o <<>> \o <<>>
            BY <1>8 DEF DiscardAll, DiscardDisk, Queue
      <2>2. <<>> \o <<>> = <<>>
            BY EmptySeq, ConcatEmptySeq
      <2> QED BY <1>8, <2>1, <2>2 DEF DiscardAll, Empties, takenVars
<1>9. CASE Clear
      BY <1>8, <1>9 DEF Clear, QueueStep
<1>10. CASE Close
      BY <1>8, <1>10 DEF Close, Stopped, QueueStep
<1>11. CASE UNCHANGED vars
      BY <1>11 DEF vars, QueueStep, Keeps, Queue, memoryVars, diskVars, takenVars
<1> QED BY <1>1, <1>2, <1>3, <1>4, <1>5, <1>6, <1>7, <1>9, <1>10, <1>11 DEF Next

-----------------------------------------------------------------------------
\* backlog() is exact: the counter moves with the queue on every step.
THEOREM SpoolBacklog == Spec => []BacklogExact
<1>1. Init => BacklogExact
      <2> SUFFICES ASSUME Init PROVE BacklogExact
          OBVIOUS
      <2>1. Queue = <<>> \o <<>> \o <<>>
            BY DEF Init, Queue
      <2>2. <<>> \o <<>> = <<>> /\ Len(<<>>) = 0
            BY EmptySeq, ConcatEmptySeq
      <2>3. Len(Queue) = 0
            BY <2>1, <2>2
      <2> QED BY <2>3 DEF Init, BacklogExact
<1>2. IInv /\ BacklogExact /\ [Next]_vars => BacklogExact'
      <2> SUFFICES ASSUME IInv, BacklogExact, [Next]_vars PROVE BacklogExact'
          OBVIOUS
      <2>1. Queue \in Seq(Entry) /\ Len(Queue) \in Nat
            BY QueueType
      <2>2. ASSUME NEW k \in Kinds, Grows(k) PROVE BacklogExact'
            BY <2>1, <2>2, NextEntryType, AppendProperties DEF IInv, Grows, BacklogExact
      <2>3. CASE Shrinks
            BY <2>1, <2>3, HeadTailProperties DEF Shrinks, BacklogExact
      <2>4. ASSUME NEW n \in 0..Len(Queue), Drops(n) PROVE BacklogExact'
            <3>1. n \in Int /\ 1 \in Int /\ \A i \in 1..n : Queue[i] \in Entry
                  BY <2>1, LenProperties
            <3>2. Len(SubSeq(Queue, 1, n)) = IF 1 <= n THEN n - 1 + 1 ELSE 0
                  BY <3>1, SubSeqProperties
            <3>3. Len(SubSeq(Queue, 1, n)) = n
                  BY <2>1, <3>2
            <3> QED BY <2>1, <2>4, <3>3 DEF Drops, BacklogExact
      <2>5. CASE Empties
            BY <2>5, EmptySeq DEF Empties, BacklogExact
      <2>6. CASE Forgoes \/ Keeps
            BY <2>6 DEF Forgoes, Keeps, BacklogExact
      <2> QED BY <2>2, <2>3, <2>4, <2>5, <2>6, StepMaps DEF QueueStep
<1> QED BY <1>1, <1>2, SpoolInvariant, PTL DEF Spec

\* The spool implements the plain queue: across memory, segment files and
\* write buffer, through failures, it admits, delivers and loses as one FIFO.
THEOREM SpoolRefines == Spec => QueueSpec
<1> USE DEF Entry, Abstract!QueueEntry
<1>1. Init => Abstract!QInit
      <2> SUFFICES ASSUME Init PROVE Abstract!QInit
          OBVIOUS
      <2>1. Queue = <<>> \o <<>> \o <<>>
            BY DEF Init, Queue
      <2>2. <<>> \o <<>> = <<>>
            BY EmptySeq, ConcatEmptySeq
      <2>3. Queue = <<>>
            BY <2>1, <2>2
      <2> QED BY <2>3 DEF Init, Stopped, Abstract!QInit
<1>2. IInv /\ [Next]_vars => [Abstract!QNext]_(Abstract!qvars)
      <2> SUFFICES ASSUME IInv, [Next]_vars PROVE [Abstract!QNext]_(Abstract!qvars)
          OBVIOUS
      <2>1. CASE UNCHANGED <<closed, finished>>
            <3>1. (~Stopped)' = ~Stopped
                  BY <2>1 DEF Stopped
            <3>2. ASSUME ~Stopped, NEW k \in Kinds, Grows(k) PROVE Abstract!Admit(k)
                  BY <3>1, <3>2 DEF Grows, NextEntry, Abstract!Admit
            <3>3. ASSUME Shrinks PROVE Abstract!Deliver
                  BY <3>1, <3>3 DEF Shrinks, Abstract!Deliver
            <3>4. ASSUME NEW n \in 0..Len(Queue), Drops(n) PROVE Abstract!LoseNewest(n)
                  BY <3>1, <3>4 DEF Drops, Abstract!LoseNewest
            <3>5. ASSUME Empties PROVE 0 \in 0..Len(Queue) /\ Abstract!LoseNewest(0)
                  <4>1. SubSeq(Queue, 1, 0) = <<>>
                        BY SubSeqEmpty
                  <4>2. Len(Queue) \in Nat
                        BY QueueType
                  <4> QED BY <3>1, <3>5, <4>1, <4>2 DEF Empties, Abstract!LoseNewest
            <3>6. ASSUME Forgoes PROVE Abstract!Forgo
                  BY <3>1, <3>6 DEF Forgoes, Abstract!Forgo
            <3>7. ASSUME Keeps PROVE UNCHANGED Abstract!qvars
                  BY <3>1, <3>7 DEF Keeps, Abstract!qvars
            <3>8. CASE Stopped' /\ (Keeps \/ Empties)
                  BY <3>5, <3>7, <3>8 DEF Abstract!QNext
            <3> QED BY <3>2, <3>3, <3>4, <3>5, <3>6, <3>7, <3>8, StepMaps DEF QueueStep, Abstract!QNext
      <2>2. CASE Stopped' /\ (Keeps \/ Empties)
            <3>1. (~Stopped)' = FALSE
                  BY <2>2
            <3>2. Abstract!Refuse
                  BY <2>2, <3>1 DEF Keeps, Empties, Abstract!Refuse
            <3> QED BY <3>2 DEF Abstract!QNext
      <2> QED BY <2>1, <2>2, StepMaps DEF QueueStep
<1> QED BY <1>1, <1>2, SpoolInvariant, PTL DEF Spec, QueueSpec, Abstract!QSpec

-----------------------------------------------------------------------------
\* The plain queue hands its entries out in the order it let them in.

QTypeOK == /\ Queue \in Seq(Abstract!QueueEntry)
           /\ admitted \in Nat /\ delivered \in Nat

QInv == QTypeOK /\ Abstract!InOrder /\ delivered <= admitted

\* The empty queue is in order.
LEMMA QInvInit ==
    ASSUME Abstract!QInit
    PROVE  QInv
BY EmptySeq DEF Abstract!QInit, QInv, QTypeOK, Abstract!InOrder

\* Every entry of the queue has its type.
LEMMA QEntries ==
    ASSUME QTypeOK
    PROVE  /\ Len(Queue) \in Nat
           /\ \A i \in 1..Len(Queue) : Queue[i] \in Abstract!QueueEntry /\ Queue[i].id \in Nat
<1>1. \A i \in 1..Len(Queue) : Queue[i] \in Abstract!QueueEntry
      BY ElementOfSeq DEF QTypeOK
<1> QED BY <1>1, LenProperties DEF QTypeOK, Abstract!QueueEntry

\* Letting in, handing out and losing entries keep the order.
LEMMA QInvStep ==
    ASSUME QInv, [Abstract!QNext]_(Abstract!qvars)
    PROVE  QInv'
<1>1. ASSUME NEW k \in Kinds, Abstract!Admit(k) PROVE QInv'
      <2> DEFINE e == [id |-> admitted + 1, kind |-> k]
      <2>1. e \in Abstract!QueueEntry
            BY DEF Abstract!QueueEntry, QInv, QTypeOK
      <2>2. /\ Queue' = Append(Queue, e) /\ admitted' = admitted + 1
            /\ delivered' = delivered
            BY <1>1 DEF Abstract!Admit
      <2>3. /\ Queue' \in Seq(Abstract!QueueEntry)
            /\ Len(Queue) \in Nat /\ Len(Queue') = Len(Queue) + 1
            /\ \A i \in 1..Len(Queue) : Queue'[i] = Queue[i] /\ Queue[i].id \in Nat
            /\ Queue'[Len(Queue) + 1] = e
            BY <2>1, <2>2, QEntries, AppendProperties DEF QInv, QTypeOK
      <2>4. Abstract!InOrder'
            BY <2>2, <2>3 DEF QInv, QTypeOK, Abstract!InOrder
      <2> QED BY <2>2, <2>3, <2>4 DEF QInv, QTypeOK
<1>2. ASSUME Abstract!Deliver PROVE QInv'
      <2>1. /\ Head(Queue) = Queue[1] /\ Head(Queue) \in Abstract!QueueEntry
            /\ Queue' \in Seq(Abstract!QueueEntry)
            /\ Len(Queue) \in Nat \ {0} /\ Len(Queue') = Len(Queue) - 1
            /\ \A i \in 1..Len(Queue') : Queue'[i] = Queue[i + 1]
            BY <1>2, HeadTailProperties, EmptySeq DEF Abstract!Deliver, QInv, QTypeOK
      <2>2. /\ delivered' = Queue[1].id /\ admitted' = admitted /\ delivered' \in Nat
            BY <1>2, <2>1 DEF Abstract!Deliver, Abstract!QueueEntry
      <2>3. Abstract!InOrder'
            <3>1. ASSUME NEW i \in 1..Len(Queue')
                  PROVE  /\ i + 1 \in 1..Len(Queue) /\ 1 \in 1..Len(Queue) /\ 1 < i + 1
                         /\ Queue'[i] = Queue[i + 1]
                  BY <2>1
            <3>2. ASSUME NEW i \in 1..Len(Queue')
                  PROVE  delivered' < Queue'[i].id /\ Queue'[i].id <= admitted'
                  BY <2>2, <3>1 DEF QInv, Abstract!InOrder
            <3>3. ASSUME NEW i \in 1..Len(Queue'), NEW j \in 1..Len(Queue'), i < j
                  PROVE  Queue'[i].id < Queue'[j].id
                  BY <2>1, <3>1, <3>3 DEF QInv, Abstract!InOrder
            <3> QED BY <3>2, <3>3 DEF Abstract!InOrder
      <2>4. delivered' <= admitted'
            BY <2>1, <2>2 DEF QInv, Abstract!InOrder
      <2> QED BY <2>1, <2>2, <2>3, <2>4 DEF QInv, QTypeOK
<1>3. ASSUME NEW n \in 0..Len(Queue), Abstract!LoseNewest(n) PROVE QInv'
      <2>1. /\ Queue' \in Seq(Abstract!QueueEntry) /\ Len(Queue') = n
            /\ \A i \in 1..n : Queue'[i] = Queue[i]
            <3>1. /\ n \in Nat /\ 1 \in Int /\ n \in Int
                  /\ \A i \in 1..n : Queue[i] \in Abstract!QueueEntry
                  BY QEntries DEF QInv
            <3>2. Queue' = SubSeq(Queue, 1, n)
                  BY <1>3 DEF Abstract!LoseNewest
            <3>3. /\ SubSeq(Queue, 1, n) \in Seq(Abstract!QueueEntry)
                  /\ Len(SubSeq(Queue, 1, n)) = IF 1 <= n THEN n - 1 + 1 ELSE 0
                  /\ \A i \in 1..n - 1 + 1 : SubSeq(Queue, 1, n)[i] = Queue[1 + i - 1]
                  BY <3>1, SubSeqProperties
            <3> QED BY <3>1, <3>2, <3>3
      <2>2. Len(Queue) \in Nat /\ admitted' = admitted /\ delivered' = delivered
            BY <1>3, LenProperties DEF Abstract!LoseNewest, QInv, QTypeOK
      <2>3. Abstract!InOrder'
            BY <2>1, <2>2 DEF QInv, Abstract!InOrder
      <2> QED BY <2>1, <2>2, <2>3 DEF QInv, QTypeOK
<1>4. ASSUME Abstract!Forgo PROVE QInv'
      <2> QED BY <1>4, QEntries DEF Abstract!Forgo, QInv, QTypeOK, Abstract!InOrder
<1>5. ASSUME Abstract!Refuse PROVE QInv'
      <2>1. CASE Queue' = Queue
            BY <1>5, <2>1 DEF Abstract!Refuse, QInv, QTypeOK, Abstract!InOrder
      <2>2. CASE Queue' = <<>>
            BY <1>5, <2>2, EmptySeq DEF Abstract!Refuse, QInv, QTypeOK, Abstract!InOrder
      <2> QED BY <1>5, <2>1, <2>2 DEF Abstract!Refuse
<1>6. ASSUME UNCHANGED Abstract!qvars PROVE QInv'
      BY <1>6 DEF Abstract!qvars, QInv, QTypeOK, Abstract!InOrder
<1> QED BY <1>1, <1>2, <1>3, <1>4, <1>5, <1>6 DEF Abstract!QNext

\* First in, first out: whatever is still queued is newer than everything
\* handed out, and older entries stand in front of newer ones.
THEOREM QueueInOrder == QueueSpec => []Abstract!InOrder
<1>1. Abstract!QInit => QInv BY QInvInit
<1>2. QInv /\ [Abstract!QNext]_(Abstract!qvars) => QInv' BY QInvStep
<1>3. QInv => Abstract!InOrder BY DEF QInv
<1> QED BY <1>1, <1>2, <1>3, PTL DEF QueueSpec, Abstract!QSpec

\* Order is preserved across the tiers, whatever the sizes and limits: the
\* refinement carries the plain queue's order over to the spool.
THEOREM SpoolInOrder == Spec => []InOrder
<1>1. Abstract!InOrder => InOrder
      BY DEF Abstract!InOrder, InOrder
<1> QED BY <1>1, QueueInOrder, SpoolRefines, PTL

-----------------------------------------------------------------------------
\* No entry vanishes: each number given out was handed out, is queued, is
\* counted as lost, or was thrown away by clear() or close().
THEOREM SpoolAccounts == Spec => []NothingVanishes
<1> USE DEF memoryVars, diskVars, stopVars, takenVars, HandOut
<1>1. Init => NothingVanishes
      BY DEF Init, NothingVanishes
<1>2. IInv /\ NothingVanishes /\ [Next]_vars => NothingVanishes'
      <2> SUFFICES ASSUME IInv, NothingVanishes, [Next]_vars PROVE NothingVanishes'
          OBVIOUS
      <2>1. /\ admitted \in Int /\ taken \in Int /\ pending \in Int /\ lost \in Int
            /\ discarded \in Int /\ Len(buffered) \in Nat
            BY LenProperties DEF IInv, TypeOK
      <2>2. ASSUME NEW p \in Producers, NEW k \in Kinds, AppendFrame(p, k),
                   UNCHANGED <<memoryVars, stopVars, takenVars>>
            PROVE  NothingVanishes'
            BY <2>1, <2>2 DEF AppendFrame, Append_OK, Append_FlushFails, Append_RollFails,
                              Append_WriteFails, NothingVanishes
      <2>3. ASSUME NEW p \in Producers, NEW k \in Kinds, PutPass(p, k) PROVE NothingVanishes'
            BY <2>1, <2>2, <2>3 DEF PutPass, Put_Refused, Put_Memory, Put_BeginSpill, Put_NoDisk,
                                    Put_Disk, Put_Waits, ToMemory, NothingVanishes
      <2>4. ASSUME NEW call, PollPass(call) PROVE NothingVanishes'
            BY <2>1, <2>4 DEF PollPass, Take_Memory, Take_Disk, Take_ReadFails, Take_Drained,
                              Take_Empty, NothingVanishes
      <2>5. ASSUME NEW p \in Producers, Put(p) \/ RetryPut(p) \/ InterruptPut(p)
            PROVE  NothingVanishes'
            <3>1. inHand[p] # None => inHand[p] \in Kinds
                  BY DEF IInv, TypeOK
            <3> QED BY <2>1, <2>3, <2>5, <3>1 DEF Put, RetryPut, InterruptPut, NothingVanishes
      <2>6. CASE DiskRetryElapses \/ Finish
            BY <2>6 DEF DiskRetryElapses, Finish, NothingVanishes
      <2>7. CASE Take \/ Poll
            BY <2>4, <2>7 DEF Take, Poll, NothingVanishes
      <2>8. CASE Clear \/ Close
            BY <2>1, <2>8 DEF Clear, Close, DiscardAll, NothingVanishes
      <2>9. CASE UNCHANGED vars
            BY <2>9 DEF vars, NothingVanishes
      <2> QED BY <2>5, <2>6, <2>7, <2>8, <2>9 DEF Next
<1> QED BY <1>1, <1>2, SpoolInvariant, PTL DEF Spec

\* What the spool counts is what it holds, hands out and loses, in order.
THEOREM SpoolAccounted == Spec => []QueueAccounted
<1>1. BacklogExact /\ NothingVanishes /\ InOrder => QueueAccounted
      BY DEF QueueAccounted
<1> QED BY <1>1, SpoolBacklog, SpoolAccounts, SpoolInOrder, PTL

-----------------------------------------------------------------------------
\* Sums of sizes

\* A set of naturals has a least element.
LEMMA LeastElement ==
    ASSUME NEW T, T \subseteq Nat, T # {}
    PROVE  \E x \in T : \A y \in T : x <= y
<1> DEFINE R == OpToRel(<, Nat)
<1>1. IsWellFoundedOn(R, Nat)
      BY NatLessThanWellFounded
<1>2. \A x, y \in Nat : x < y => <<x, y>> \in R
      BY DEF OpToRel
<1>   HIDE DEF R
<1>3. PICK x \in T : \A y \in T : ~ (<<y, x>> \in R)
      BY <1>1, WFMin
<1>4. \A y \in T : ~(y < x)
      BY <1>2, <1>3
<1> QED BY <1>3, <1>4

\* The running sums of the sizes of the first n entries of s.
Adds(f, s, n, size) == \A i \in 1..n : f[i] = f[i - 1] + size[s[i].kind]
Sums(f, s, n, size) == f \in [0..n -> Nat] /\ f[0] = 0 /\ Adds(f, s, n, size)

\* Every sequence of entries has running sums,
LEMMA SumsExist ==
    ASSUME NEW s \in Seq(Entry), NEW size \in [Kinds -> Nat], NEW n \in 0..Len(s)
    PROVE  \E f : Sums(f, s, n, size)
<1> DEFINE Good(m) == \E f : Sums(f, s, m, size)
           bad == {m \in 0..Len(s) : ~Good(m)}
<1>1. Len(s) \in Nat
      BY LenProperties
<1>3. CASE bad # {}
  <2>1. bad \subseteq Nat
        BY <1>1
  <2> HIDE DEF bad
  <2>2. PICK m \in bad : \A k \in bad : m <= k
        BY <1>3, <2>1, LeastElement
  <2> USE DEF bad
  <2>3. m \in Nat /\ m <= Len(s) /\ ~Good(m)
        BY <1>1, <2>2
  <2>4. m # 0
    <3>1. Sums([i \in 0..0 |-> 0], s, 0, size)
          BY DEF Sums, Adds
    <3> QED BY <2>3, <3>1
  <2> DEFINE k == m - 1
  <2>5. k \in Nat /\ k + 1 = m /\ k \in 0..Len(s)
        BY <1>1, <2>3, <2>4
  <2>6. Good(k)
    <3>1. ~(m <= k)
          BY <2>3, <2>5
    <3> QED BY <2>2, <2>5, <3>1
  <2>7. PICK f : Sums(f, s, k, size)
        BY <2>6
  <2> HIDE DEF k
  <2> DEFINE g == [i \in 0..m |-> IF i <= k THEN f[i] ELSE f[k] + size[s[m].kind]]
  <2>8. s[m] \in Entry /\ size[s[m].kind] \in Nat
    <3>1. m \in 1..Len(s)
          BY <1>1, <2>3, <2>4
    <3>2. s[m] \in Entry
          BY <3>1, ElementOfSeq
    <3> QED BY <3>2 DEF Entry
  <2>9. g \in [0..m -> Nat]
        BY <2>3, <2>5, <2>7, <2>8 DEF Sums, Adds
  <2>10. ASSUME NEW i \in 1..m
         PROVE  g[i] = g[i - 1] + size[s[i].kind]
    <3>1. CASE i <= k
      <4>1. i \in 1..k /\ i - 1 \in 0..m /\ i - 1 <= k /\ i \in 0..m
            BY <2>3, <2>5, <3>1
      <4>2. f[i] = f[i - 1] + size[s[i].kind]
            BY <2>7, <4>1 DEF Sums, Adds
      <4>3. g[i] = f[i] /\ g[i - 1] = f[i - 1]
            BY <3>1, <4>1
      <4> QED BY <4>2, <4>3
    <3>2. CASE i = m
      <4>1. i - 1 = k /\ k \in 0..m /\ ~(i <= k) /\ i \in 0..m /\ k <= k
            BY <2>3, <2>5, <3>2
      <4>2. g[i] = f[k] + size[s[i].kind] /\ g[k] = f[k]
            BY <3>2, <4>1
      <4> QED BY <4>1, <4>2
    <3> QED BY <2>3, <2>5, <3>1, <3>2
  <2>11. Sums(g, s, m, size)
    <3>1. g[0] = 0
      <4>1. 0 \in 0..m /\ 0 <= k
            BY <2>3, <2>5
      <4> QED BY <2>7, <4>1 DEF Sums, Adds
    <3> HIDE DEF g
    <3> QED BY <2>9, <2>10, <3>1 DEF Sums, Adds
  <2> QED BY <2>3, <2>11
<1>4. CASE bad = {}
      BY <1>4
<1> QED BY <1>3, <1>4

\* and no others.
LEMMA SumsAgree ==
    ASSUME NEW s, NEW size, NEW n \in Nat, NEW f, NEW g, f[0] = g[0],
           Adds(f, s, n, size), Adds(g, s, n, size)
    PROVE  \A i \in 0..n : f[i] = g[i]
<1> DEFINE bad == {i \in 0..n : f[i] # g[i]}
<1>1. CASE bad # {}
  <2>1. bad \subseteq Nat
        OBVIOUS
  <2> HIDE DEF bad
  <2>2. PICK m \in bad : \A k \in bad : m <= k
        BY <1>1, <2>1, LeastElement
  <2> USE DEF bad
  <2>3. m \in 1..n /\ m - 1 \in 0..n /\ ~(m <= m - 1)
        BY <2>2
  <2>4. f[m - 1] = g[m - 1]
        BY <2>2, <2>3
  <2> QED BY <2>2, <2>3, <2>4 DEF Adds
<1>2. CASE bad = {}
      BY <1>2
<1> QED BY <1>1, <1>2

\* What the byte counters are compared with is the last of the running sums.
LEMMA BytesOfSums ==
    ASSUME NEW s \in Seq(Entry), NEW size \in [Kinds -> Nat], NEW f, Sums(f, s, Len(s), size)
    PROVE  BytesOf(s, size) = f[Len(s)]
<1> DEFINE n == Len(s)
           sum[i \in 0..n] == IF i = 0 THEN 0 ELSE sum[i - 1] + size[s[i].kind]
<1>1. n \in Nat
      BY LenProperties
<1>2. f = [i \in 0..n |-> IF i = 0 THEN 0 ELSE f[i - 1] + size[s[i].kind]]
  <2> DEFINE r(i) == IF i = 0 THEN 0 ELSE f[i - 1] + size[s[i].kind]
  <2>1. ASSUME NEW i \in 0..n PROVE f[i] = r(i)
    <3>1. i = 0 \/ i \in 1..n
          BY <1>1
    <3> QED BY <3>1 DEF Sums, Adds
  <2>2. f = [i \in 0..n |-> f[i]]
        BY DEF Sums
  <2> HIDE DEF r
  <2>3. f = [i \in 0..n |-> r(i)]
        BY <2>1, <2>2
  <2> QED BY <2>3 DEF r
<1>3. sum = [i \in 0..n |-> IF i = 0 THEN 0 ELSE sum[i - 1] + size[s[i].kind]]
      BY <1>2
<1>4. BytesOf(s, size) = sum[n]
      BY DEF BytesOf
<1> HIDE DEF sum
<1>5. sum[0] = 0 /\ \A i \in 1..n : sum[i] = sum[i - 1] + size[s[i].kind]
  <2>1. 0 \in 0..n
        BY <1>1
  <2>2. sum[0] = 0
        BY <1>3, <2>1
  <2>3. ASSUME NEW i \in 1..n PROVE sum[i] = sum[i - 1] + size[s[i].kind]
    <3>1. i \in 0..n /\ i # 0
          BY <1>1
    <3> QED BY <1>3, <3>1
  <2> QED BY <2>2, <2>3
<1>6. \A i \in 0..n : sum[i] = f[i]
  <2>1. sum[0] = f[0] /\ Adds(sum, s, n, size) /\ Adds(f, s, n, size)
        BY <1>5 DEF Sums, Adds
  <2> HIDE DEF n
  <2> QED BY <1>1, <2>1, SumsAgree
<1> QED BY <1>1, <1>4, <1>6

\* The bytes of nothing, and of two runs of entries one behind the other.
LEMMA BytesOfConcat ==
    ASSUME NEW a \in Seq(Entry), NEW b \in Seq(Entry), NEW size \in [Kinds -> Nat]
    PROVE  /\ BytesOf(<<>>, size) = 0
           /\ BytesOf(a, size) \in Nat /\ BytesOf(b, size) \in Nat
           /\ BytesOf(a \o b, size) = BytesOf(a, size) + BytesOf(b, size)
<1>1. Len(a) \in Nat /\ Len(b) \in Nat
      BY LenProperties
<1>2. /\ a \o b \in Seq(Entry) /\ Len(a \o b) = Len(a) + Len(b)
      /\ \A i \in 1..Len(a) + Len(b) :
           (a \o b)[i] = IF i <= Len(a) THEN a[i] ELSE b[i - Len(a)]
      BY ConcatProperties
<1>3. PICK f : Sums(f, a, Len(a), size)
      BY <1>1, SumsExist
<1>4. PICK g : Sums(g, b, Len(b), size)
      BY <1>1, SumsExist
<1>5. PICK h : Sums(h, a \o b, Len(a \o b), size)
  <2>1. Len(a \o b) \in 0..Len(a \o b)
        BY <1>1, <1>2
  <2> QED BY <1>2, <2>1, SumsExist
<1>6. /\ BytesOf(a, size) = f[Len(a)] /\ BytesOf(b, size) = g[Len(b)]
      /\ BytesOf(a \o b, size) = h[Len(a \o b)]
      BY <1>2, <1>3, <1>4, <1>5, BytesOfSums
<1>7. f[Len(a)] \in Nat /\ g[Len(b)] \in Nat
  <2>1. Len(a) \in 0..Len(a) /\ Len(b) \in 0..Len(b)
        BY <1>1
  <2> QED BY <1>3, <1>4, <2>1 DEF Sums
<1>8. \A i \in 0..Len(a) : h[i] = f[i]
  <2>1. Adds(h, a, Len(a), size)
    <3>1. ASSUME NEW i \in 1..Len(a) PROVE h[i] = h[i - 1] + size[a[i].kind]
      <4>1. i \in 1..Len(a \o b) /\ i \in 1..Len(a) + Len(b) /\ i <= Len(a)
            BY <1>1, <1>2
      <4>2. (a \o b)[i] = a[i]
            BY <1>2, <4>1
      <4> QED BY <1>5, <4>1, <4>2 DEF Sums, Adds
    <3> QED BY <3>1 DEF Adds
  <2>2. h[0] = f[0] /\ Adds(f, a, Len(a), size)
        BY <1>3, <1>5 DEF Sums
  <2> QED BY <1>1, <2>1, <2>2, SumsAgree
<1> DEFINE n == Len(b)
           u == [i \in 0..n |-> h[Len(a) + i]]
           v == [i \in 0..n |-> f[Len(a)] + g[i]]
<1>9. \A i \in 0..n : u[i] = v[i]
  <2>1. 0 \in 0..n /\ n \in Nat /\ Len(a) + 0 = Len(a) /\ Len(a) \in 0..Len(a)
        BY <1>1
  <2>2. u[0] = h[Len(a)] /\ v[0] = f[Len(a)] + 0
        BY <1>4, <2>1 DEF Sums
  <2>3. u[0] = v[0]
        BY <1>7, <1>8, <2>1, <2>2
  <2>4. ASSUME NEW i \in 1..n
        PROVE  /\ u[i] = u[i - 1] + size[b[i].kind]
               /\ v[i] = v[i - 1] + size[b[i].kind]
    <3>1. i \in 0..n /\ i - 1 \in 0..n /\ Len(a) + i \in 1..Len(a) + Len(b)
          /\ ~(Len(a) + i <= Len(a)) /\ (Len(a) + i) - Len(a) = i
          /\ (Len(a) + i) - 1 = Len(a) + (i - 1)
          BY <1>1
    <3>2. h[Len(a) + i] = h[(Len(a) + i) - 1] + size[(a \o b)[Len(a) + i].kind]
          BY <1>2, <1>5, <3>1 DEF Sums, Adds
    <3>3. (a \o b)[Len(a) + i] = b[i]
          BY <1>2, <3>1
    <3>4. u[i] = u[i - 1] + size[b[i].kind]
          BY <3>1, <3>2, <3>3
    <3>5. g[i] = g[i - 1] + size[b[i].kind] /\ g[i - 1] \in Nat /\ size[b[i].kind] \in Nat
      <4>1. b[i] \in Entry
            BY ElementOfSeq
      <4>2. size[b[i].kind] \in Nat
            BY <4>1 DEF Entry
      <4> QED BY <1>4, <3>1, <4>2 DEF Sums, Adds
    <3>6. v[i] = f[Len(a)] + g[i] /\ v[i - 1] = f[Len(a)] + g[i - 1]
          BY <3>1
    <3>7. v[i] = v[i - 1] + size[b[i].kind]
      <4> HIDE DEF v
      <4> QED BY <1>7, <3>5, <3>6
    <3> QED BY <3>4, <3>7
  <2>5. Adds(u, b, n, size) /\ Adds(v, b, n, size)
    <3> HIDE DEF u, v
    <3> QED BY <2>4 DEF Adds
  <2> HIDE DEF u, v, n
  <2> QED BY <2>1, <2>3, <2>5, SumsAgree
<1>10. h[Len(a \o b)] = f[Len(a)] + g[Len(b)]
  <2>1. n \in 0..n
        BY <1>1
  <2> QED BY <1>2, <1>9, <2>1
<1>11. BytesOf(<<>>, size) = 0
  <2>1. <<>> \in Seq(Entry) /\ Len(<<>>) = 0
        BY EmptySeq
  <2>2. PICK e : Sums(e, <<>>, 0, size)
    <3>1. 0 \in 0..Len(<<>>)
          BY <2>1
    <3> QED BY <2>1, <3>1, SumsExist
  <2> QED BY <2>1, <2>2, BytesOfSums DEF Sums
<1> QED BY <1>6, <1>7, <1>10, <1>11

\* One entry more, or the oldest one less.
LEMMA BytesOfEnds ==
    ASSUME NEW s \in Seq(Entry), NEW size \in [Kinds -> Nat]
    PROVE  /\ \A e \in Entry : BytesOf(Append(s, e), size) = BytesOf(s, size) + size[e.kind]
           /\ s # <<>> => BytesOf(s, size) = size[Head(s).kind] + BytesOf(Tail(s), size)
           /\ Len(s) = 1 => BytesOf(s, size) = size[s[1].kind]
<1>1. ASSUME NEW e \in Entry PROVE <<e>> \in Seq(Entry) /\ BytesOf(<<e>>, size) = size[e.kind]
  <2>1. <<e>> \in Seq(Entry) /\ Len(<<e>>) = 1 /\ <<e>>[1] = e
        OBVIOUS
  <2>2. PICK f : Sums(f, <<e>>, 1, size)
    <3>1. 1 \in 0..Len(<<e>>)
          BY <2>1
    <3> QED BY <2>1, <3>1, SumsExist
  <2>3. BytesOf(<<e>>, size) = f[1]
        BY <2>1, <2>2, BytesOfSums
  <2>4. size[e.kind] \in Nat
        BY DEF Entry
  <2>5. f[1] = f[1 - 1] + size[<<e>>[1].kind] /\ f[0] = 0
        BY <2>2 DEF Sums, Adds
  <2> QED BY <2>1, <2>3, <2>4, <2>5
<1>2. ASSUME NEW e \in Entry
      PROVE  BytesOf(Append(s, e), size) = BytesOf(s, size) + size[e.kind]
  <2>1. Append(s, e) = s \o <<e>>
        BY AppendIsConcat
  <2> QED BY <1>1, <2>1, BytesOfConcat
<1>3. ASSUME s # <<>>
      PROVE  BytesOf(s, size) = size[Head(s).kind] + BytesOf(Tail(s), size)
  <2>1. Head(s) \in Entry /\ Tail(s) \in Seq(Entry)
        BY <1>3, HeadTailProperties
  <2>2. s = <<Head(s)>> \o Tail(s)
    <3> DEFINE h == <<Head(s)>>
               t == Tail(s)
    <3>1. h \in Seq(Entry) /\ Len(h) = 1 /\ h[1] = s[1]
          BY <2>1
    <3>2. Len(s) \in Nat /\ Len(t) = Len(s) - 1 /\ \A i \in 1..Len(t) : t[i] = s[i + 1]
          BY <1>3, HeadTailProperties, LenProperties
    <3> HIDE DEF h, t
    <3>3. /\ h \o t \in Seq(Entry) /\ Len(h \o t) = Len(h) + Len(t)
          /\ \A i \in 1..Len(h) + Len(t) :
               (h \o t)[i] = IF i <= Len(h) THEN h[i] ELSE t[i - Len(h)]
      <4>1. t \in Seq(Entry)
            BY <2>1 DEF t
      <4> QED BY <3>1, <4>1, ConcatProperties
    <3>4. ASSUME NEW i \in 1..Len(s) PROVE s[i] = (h \o t)[i]
      <4>1. CASE i = 1
            BY <3>1, <3>2, <3>3, <4>1
      <4>2. CASE i # 1
        <5>1. i - 1 \in 1..Len(t) /\ ~(i <= Len(h)) /\ i \in 1..Len(h) + Len(t)
              /\ (i - 1) + 1 = i /\ i - Len(h) = i - 1
              BY <3>1, <3>2, <4>2
        <5>2. t[i - 1] = s[i]
              BY <3>2, <5>1
        <5> QED BY <3>3, <5>1, <5>2
      <4> QED BY <4>1, <4>2
    <3>5. s = h \o t
      <4>1. Len(s) = Len(h \o t)
            BY <3>1, <3>2, <3>3
      <4> QED BY <3>3, <3>4, <4>1, SeqEqual
    <3> QED BY <3>5 DEF h, t
  <2>3. BytesOf(<<Head(s)>> \o Tail(s), size)
          = BytesOf(<<Head(s)>>, size) + BytesOf(Tail(s), size)
        BY <1>1, <2>1, BytesOfConcat
  <2> QED BY <1>1, <2>1, <2>2, <2>3
<1>4. ASSUME Len(s) = 1 PROVE BytesOf(s, size) = size[s[1].kind]
  <2>1. s[1] \in Entry
    <3>1. 1 \in 1..Len(s)
          BY <1>4
    <3> QED BY <3>1, ElementOfSeq
  <2>2. s = <<s[1]>>
    <3>1. <<s[1]>> \in Seq(Entry) /\ Len(<<s[1]>>) = 1
          BY <2>1
    <3> QED BY <1>4, <3>1, SeqEqual
  <2> QED BY <1>1, <2>1, <2>2
<1> QED BY <1>2, <1>3, <1>4

-----------------------------------------------------------------------------
\* The files and the write buffer

\* What has been spilled and not taken, oldest first.
Frames == disk \o buffered

\* A spill that is over leaves nothing; the segment being written holds the newest frames,
\* every sealed one has an unread frame of its own, and the read buffer ends in the first.
FilesSound ==
    /\ tier = "none" => ends = {} /\ written = 0 /\ committed = 0
    /\ tier = "open" => Frames # <<>> /\ \A x \in ends : x < Frames[Len(Frames)].id
    /\ \A x \in ends : \E i \in 1..Len(disk) :
         disk[i].id <= x /\ \A y \in ends : y < x => y < disk[i].id
    /\ \A i \in 1..readAhead, x \in ends : disk[i].id <= x

\* The frames are in arrival order.
LEMMA FramesInOrder ==
    ASSUME IInv, InOrder
    PROVE  /\ Frames \in Seq(Entry) /\ Len(Frames) = Len(disk) + Len(buffered)
           /\ Len(disk) \in Nat /\ Len(buffered) \in Nat
           /\ \A i \in 1..Len(Frames) : Frames[i].id \in Nat /\ Frames[i].id <= admitted
           /\ \A i, j \in 1..Len(Frames) : i < j => Frames[i].id < Frames[j].id
           /\ \A i \in 1..Len(disk) : i \in 1..Len(Frames) /\ disk[i] = Frames[i]
<1>1. /\ memory \in Seq(Entry) /\ disk \in Seq(Entry) /\ buffered \in Seq(Entry)
      /\ Len(memory) \in Nat /\ Len(disk) \in Nat /\ Len(buffered) \in Nat
      BY LenProperties DEF IInv, TypeOK
<1>2. /\ Frames \in Seq(Entry) /\ Len(Frames) = Len(disk) + Len(buffered)
      /\ \A i \in 1..Len(disk) + Len(buffered) :
           Frames[i] = IF i <= Len(disk) THEN disk[i] ELSE buffered[i - Len(disk)]
      BY <1>1, ConcatProperties DEF Frames
<1>3. /\ Len(Queue) = Len(memory) + Len(Frames)
      /\ \A i \in 1..Len(memory) + Len(Frames) :
           Queue[i] = IF i <= Len(memory) THEN memory[i] ELSE Frames[i - Len(memory)]
  <2>1. Queue = memory \o Frames
        BY <1>1, Concatenations DEF Queue, Frames
  <2>2. /\ Len(memory \o Frames) = Len(memory) + Len(Frames)
        /\ \A i \in 1..Len(memory) + Len(Frames) :
             (memory \o Frames)[i] = IF i <= Len(memory) THEN memory[i] ELSE Frames[i - Len(memory)]
    <3>1. Frames \in Seq(Entry)
          BY <1>2
    <3> QED BY <1>1, <3>1, ConcatProperties
  <2> QED BY <2>1, <2>2
<1> DEFINE n == Len(Frames)
           m == Len(memory)
<1>4. n \in Nat
      BY <1>1, <1>2
<1>5. ASSUME NEW i \in 1..n
      PROVE  m + i \in 1..Len(Queue) /\ Queue[m + i] = Frames[i]
  <2>1. m + i \in 1..m + n /\ ~(m + i <= m) /\ (m + i) - m = i
        BY <1>1, <1>4
  <2> QED BY <1>3, <2>1
<1>6. ASSUME NEW i \in 1..n PROVE Frames[i].id \in Nat /\ Frames[i].id <= admitted
  <2>1. Frames[i] \in Entry
        BY <1>2, ElementOfSeq
  <2>2. Frames[i].id \in Nat
        BY <2>1 DEF Entry
  <2>3. Queue[m + i].id <= admitted
        BY <1>5 DEF InOrder
  <2> QED BY <1>5, <2>2, <2>3
<1>7. ASSUME NEW i \in 1..n, NEW j \in 1..n, i < j PROVE Frames[i].id < Frames[j].id
  <2>1. m + i < m + j
        BY <1>1, <1>4, <1>7
  <2>2. Queue[m + i].id < Queue[m + j].id
        BY <1>5, <2>1 DEF InOrder
  <2> QED BY <1>5, <2>2
<1>8. ASSUME NEW i \in 1..Len(disk) PROVE i \in 1..n /\ disk[i] = Frames[i]
      BY <1>1, <1>2
<1> QED BY <1>1, <1>2, <1>6, <1>7, <1>8

\* What an append does to the frames: one more, or the buffered ones lost, or none.
LEMMA AppendFrames ==
    ASSUME IInv, NEW p \in Producers, NEW k \in Kinds, AppendFrame(p, k)
    PROVE  \/ Append_OK(p, k) /\ Frames' = Append(Frames, NextEntry(k))
           \/ Append_FlushFails(p, k) /\ Frames' = disk
           \/ (Append_RollFails(p, k) \/ Append_WriteFails(p, k)) /\ Frames' = Frames
<1> DEFINE e == NextEntry(k)
<1>1. e \in Entry
      BY NextEntryType DEF IInv
<1>2. /\ disk \in Seq(Entry) /\ buffered \in Seq(Entry) /\ Frames \in Seq(Entry)
      /\ <<>> \in Seq(Entry) /\ <<e>> \in Seq(Entry)
  <2> HIDE DEF e
  <2>1. <<e>> \in Seq(Entry)
        BY <1>1
  <2> QED BY <2>1, ConcatProperties, EmptySeq DEF IInv, TypeOK, Frames
<1>3. Frames' = disk' \o buffered'
      BY DEF Frames
<1>4. CASE Append_OK(p, k)
  <2>1. Oversize(k) => Flushes(written, k)
        BY FrameSizes, SpoolAssumption DEF Oversize, Flushes, IInv, TypeOK, TierShape
  <2>2. \/ disk' = Append(Frames, e) /\ buffered' = <<>>
        \/ disk' = Frames /\ buffered' = Append(<<>>, e)
        \/ disk' = disk /\ buffered' = Append(buffered, e)
        BY <1>4, <2>1 DEF Append_OK, Frames
  <2> HIDE DEF e
  <2>3. /\ Append(Frames, e) = Frames \o <<e>> /\ Append(<<>>, e) = <<>> \o <<e>>
        /\ Append(buffered, e) = buffered \o <<e>> /\ <<>> \o <<e>> = <<e>>
        /\ Append(Frames, e) \o <<>> = Append(Frames, e)
        BY <1>1, <1>2, AppendIsConcat, AppendProperties, ConcatEmptySeq
  <2>4. disk \o (buffered \o <<e>>) = Frames \o <<e>>
        BY <1>2, ConcatAssociative DEF Frames
  <2>5. Frames' = Append(Frames, e)
        BY <1>3, <2>2, <2>3, <2>4
  <2> QED BY <1>4, <2>5 DEF e
<1>5. CASE Append_FlushFails(p, k)
      BY <1>2, <1>3, <1>5, ConcatEmptySeq DEF Append_FlushFails
<1>6. CASE Append_RollFails(p, k) \/ Append_WriteFails(p, k)
  <2>1. Frames' = Frames \o <<>>
        BY <1>3, <1>6 DEF Append_RollFails, Append_WriteFails, Frames
  <2> QED BY <1>2, <1>6, <2>1, ConcatEmptySeq
<1> QED BY <1>4, <1>5, <1>6 DEF AppendFrame

\* An append keeps what is on file and not read, and seals a segment only behind a frame that
\* is still unread.
LEMMA AppendFilesSound ==
    ASSUME IInv, IInv', InOrder, FilesSound, tier \in {"none", "open"},
           NEW p \in Producers, NEW k \in Kinds, AppendFrame(p, k)
    PROVE  FilesSound'
<1> DEFINE e == NextEntry(k)
           last == Frames[Len(Frames)]
<1>1. /\ Frames \in Seq(Entry) /\ Len(Frames) = Len(disk) + Len(buffered)
      /\ Len(disk) \in Nat /\ Len(buffered) \in Nat
      /\ \A i \in 1..Len(Frames) : Frames[i].id \in Nat /\ Frames[i].id <= admitted
      /\ \A i \in 1..Len(disk) : i \in 1..Len(Frames) /\ disk[i] = Frames[i]
      BY FramesInOrder
<1>2. e \in Entry /\ e.id = admitted + 1 /\ admitted \in Nat
      BY NextEntryType DEF IInv, TypeOK, NextEntry
<1>3. Rolls(written) => tier = "open"
  <2>1. SegmentSize \in Nat /\ SegmentSize > 0
        BY SpoolAssumption
  <2> QED BY <2>1 DEF Rolls, FilesSound
<1>4. tier = "open" => /\ Len(Frames) \in 1..Len(Frames) /\ last.id <= admitted /\ last.id \in Nat
                       /\ \A x \in ends : x < last.id
  <2>1. ASSUME tier = "open" PROVE Len(Frames) \in 1..Len(Frames)
    <3>1. Frames # <<>>
          BY <2>1 DEF FilesSound
    <3>2. Len(Frames) \in Nat \ {0}
          BY <1>1, <3>1, EmptySeq
    <3> QED BY <3>2
  <2> QED BY <1>1, <2>1 DEF FilesSound
<1>5. \A x \in ends : x \in Nat /\ x <= admitted
  <2>1. ends \in SUBSET Nat
        BY DEF IInv, TypeOK
  <2>2. tier = "none" => ends = {}
        BY DEF FilesSound
  <2> QED BY <1>2, <1>4, <2>1, <2>2
<1>6. readAhead' = readAhead /\ readAhead \in Nat /\ readAhead <= Len(disk)
      BY DEF AppendFrame, Append_OK, Append_FlushFails, Append_RollFails, Append_WriteFails,
             IInv, TypeOK, TierShape
<1>7. /\ tier' \in {"open", "sealed"}
      /\ tier' = "open" => Append_OK(p, k)
      BY DEF AppendFrame, Append_OK, Append_FlushFails, Append_RollFails, Append_WriteFails
\* Where the frames are now.
<1>8. \/ disk' = disk
      \/ disk' = Frames
      \/ disk' = Append(Frames, e)
      \/ disk' = Append(disk, e) /\ ends' = ends
      BY DEF AppendFrame, Append_OK, Append_FlushFails, Append_RollFails, Append_WriteFails,
             Frames, Flushes
<1>9. \/ ends' = ends
      \/ /\ ends' = ends \cup {admitted} /\ Rolls(written)
         /\ disk' = Frames \/ disk' = Append(Frames, e)
      BY DEF AppendFrame, Append_OK, Append_FlushFails, Append_RollFails, Append_WriteFails,
             Frames, Flushes
<1>10. /\ Append(Frames, e) \in Seq(Entry) /\ Len(Append(Frames, e)) = Len(Frames) + 1
       /\ \A i \in 1..Len(Frames) : Append(Frames, e)[i] = Frames[i]
       /\ Append(Frames, e)[Len(Frames) + 1] = e
       /\ Append(Frames, e) # <<>>
  <2> HIDE DEF e
  <2> QED BY <1>1, <1>2, AppendProperties
<1>11. /\ Len(Append(disk, e)) = Len(disk) + 1
       /\ \A i \in 1..Len(disk) : Append(disk, e)[i] = disk[i]
  <2>1. disk \in Seq(Entry)
        BY DEF IInv, TypeOK
  <2> HIDE DEF e
  <2> QED BY <1>2, <2>1, AppendProperties
<1> HIDE DEF e, last
<1>12. \A i \in 1..Len(disk) : i \in 1..Len(disk') /\ disk'[i] = disk[i]
  <2>1. CASE disk' = disk
        BY <2>1
  <2>2. CASE disk' = Frames
        BY <1>1, <2>2
  <2>3. CASE disk' = Append(Frames, e)
    <3>1. 1..Len(Frames) \subseteq 1..Len(disk')
          BY <1>1, <1>10, <2>3
    <3> QED BY <1>1, <1>10, <2>3, <3>1
  <2>4. CASE disk' = Append(disk, e)
        BY <1>1, <1>11, <2>4
  <2> QED BY <1>8, <2>1, <2>2, <2>3, <2>4
<1>13. ASSUME NEW x \in ends'
       PROVE  \E i \in 1..Len(disk') :
                 disk'[i].id <= x /\ \A y \in ends' : y < x => y < disk'[i].id
  <2>1. CASE x \in ends
    <3>1. PICK i \in 1..Len(disk) : disk[i].id <= x /\ \A y \in ends : y < x => y < disk[i].id
          BY <2>1 DEF FilesSound
    <3>2. \A y \in ends' : y < x => y \in ends
          BY <1>2, <1>5, <1>9, <2>1
    <3> QED BY <1>12, <3>1, <3>2
  <2>2. CASE x \notin ends
    <3>1. x = admitted /\ Rolls(written) /\ (disk' = Frames \/ disk' = Append(Frames, e))
          /\ ends' = ends \cup {admitted}
          BY <1>9, <2>2
    <3>2. Len(Frames) \in 1..Len(disk') /\ disk'[Len(Frames)] = last
          BY <1>1, <1>3, <1>4, <1>10, <3>1 DEF last
    <3>3. /\ disk'[Len(Frames)].id <= x
          /\ \A y \in ends : y < disk'[Len(Frames)].id
          BY <1>3, <1>4, <3>1, <3>2
    <3>4. \A y \in ends' : y < x => y < disk'[Len(Frames)].id
      <4> SUFFICES ASSUME NEW y \in ends', y < x PROVE y \in ends
          BY <3>3
      <4> QED BY <1>2, <3>1
    <3> QED BY <3>2, <3>3, <3>4
  <2> QED BY <2>1, <2>2
<1>14. ASSUME NEW i \in 1..readAhead', NEW x \in ends' PROVE disk'[i].id <= x
  <2>1. i \in 1..readAhead /\ i \in 1..Len(disk) /\ disk'[i] = disk[i]
        BY <1>1, <1>6, <1>12
  <2>2. CASE x \in ends
        BY <2>1, <2>2 DEF FilesSound
  <2>3. CASE x = admitted
        BY <1>1, <2>1, <2>3
  <2> QED BY <1>9, <2>2, <2>3
<1>15. tier' = "open" => Frames' # <<>> /\ \A x \in ends' : x < Frames'[Len(Frames')].id
  <2> SUFFICES ASSUME tier' = "open"
               PROVE  Frames' # <<>> /\ \A x \in ends' : x < Frames'[Len(Frames')].id
      OBVIOUS
  <2>1. Frames' = Append(Frames, e)
        BY <1>7, AppendFrames DEF e, Append_OK, Append_FlushFails, Append_RollFails,
           Append_WriteFails
  <2>2. Frames' # <<>> /\ Frames'[Len(Frames')] = e
        BY <1>10, <2>1
  <2> QED BY <1>2, <1>5, <1>9, <2>2
<1> QED BY <1>7, <1>13, <1>14, <1>15 DEF FilesSound

\* A frame is taken from the first segment with unread frames; the segments behind it are as
\* they were.
LEMMA TakeFilesSound ==
    ASSUME IInv, InOrder, FilesSound, Take_Disk
    PROVE  FilesSound'
<1>1. /\ Frames \in Seq(Entry) /\ Len(Frames) = Len(disk) + Len(buffered)
      /\ Len(disk) \in Nat /\ Len(buffered) \in Nat
      /\ \A i \in 1..Len(Frames) : Frames[i].id \in Nat /\ Frames[i].id <= admitted
      /\ \A i, j \in 1..Len(Frames) : i < j => Frames[i].id < Frames[j].id
      /\ \A i \in 1..Len(disk) : i \in 1..Len(Frames) /\ disk[i] = Frames[i]
      BY FramesInOrder
<1>2. PICK n \in Fetches : Trim(Tail(OnFile), Unflushed, n)
      BY DEF Take_Disk, Unflushed
<1>3. CASE DiscardDisk
  <2>1. Len(<<>>) = 0
        BY EmptySeq
  <2> QED BY <1>3, <2>1 DEF DiscardDisk, FilesSound
<1>4. CASE ~DiscardDisk
  <2> DEFINE rest == Tail(OnFile)
  <2>1. /\ ~SpillOver(rest, Unflushed)
        /\ disk' = rest /\ buffered' = Unflushed /\ ends' = LiveEnds(rest)
        /\ readAhead' = n - 1 /\ tier' = tier /\ written' = written
        BY <1>2, <1>4 DEF Trim
  <2>2. /\ OnFile \in Seq(Entry) /\ OnFile # <<>> /\ Unflushed \in Seq(Entry)
        /\ rest \in Seq(Entry) /\ Len(OnFile) \in Nat /\ Len(rest) = Len(OnFile) - 1
        /\ Len(rest) \in Nat
        /\ \A i \in 1..Len(rest) : rest[i] = OnFile[i + 1]
        BY OnFileType, HeadTailProperties, LenProperties DEF Take_Disk
  <2>3. /\ Len(OnFile) <= Len(Frames)
        /\ \A i \in 1..Len(OnFile) : i \in 1..Len(Frames) /\ OnFile[i] = Frames[i]
        BY <1>1 DEF OnFile, Frames
  <2>4. /\ OnFile \o Unflushed = Frames
        /\ ~ReaderFlushes => OnFile = disk
        /\ ReaderFlushes => LiveEnds(disk) = {} /\ Unflushed = <<>>
    <3>1. Frames \o <<>> = Frames
          BY <1>1, ConcatEmptySeq
    <3> QED BY <3>1 DEF OnFile, Unflushed, ReaderFlushes, Frames
  <2>5. ASSUME ReaderFlushes PROVE ends = {}
    <3> SUFFICES ASSUME NEW x \in ends PROVE FALSE
        OBVIOUS
    <3>1. PICK i \in 1..Len(disk) : disk[i].id <= x
          BY DEF FilesSound
    <3>2. disk # <<>> /\ 1 \in 1..Len(disk)
      <4>1. 1 \in 1..Len(disk)
            BY <1>1
      <4> QED BY <4>1, EmptySeq
    <3>3. disk[1].id <= disk[i].id /\ disk[1].id \in Nat /\ disk[i].id \in Nat
          BY <1>1, <3>2
    <3>4. x \in Nat
          BY DEF IInv, TypeOK
    <3>5. Head(disk).id <= x
          BY <3>1, <3>3, <3>4
    <3> QED BY <2>4, <2>5, <3>2, <3>5 DEF LiveEnds
  <2>6. ends' = {x \in ends : rest # <<>> /\ rest[1].id <= x}
        BY <2>1 DEF LiveEnds
  <2>7. rest # <<>> => 1 \in 1..Len(rest)
    <3>1. rest # <<>> => Len(rest) \in Nat \ {0}
      <4> HIDE DEF rest
      <4> QED BY <2>2, EmptySeq
    <3> QED BY <3>1
  <2>8. ASSUME NEW x \in ends'
        PROVE  \E i \in 1..Len(rest) :
                 rest[i].id <= x /\ \A y \in ends' : y < x => y < rest[i].id
    <3>1. x \in ends /\ rest # <<>> /\ rest[1].id <= x /\ OnFile = disk
          BY <2>4, <2>5, <2>6
    <3>2. PICK i \in 1..Len(disk) : disk[i].id <= x /\ \A y \in ends : y < x => y < disk[i].id
          BY <3>1 DEF FilesSound
    <3>3. CASE i = 1
      <4>1. 1 \in 1..Len(rest) /\ rest[1] = disk[2] /\ 2 \in 1..Len(disk)
            BY <2>2, <2>7, <3>1
      <4>2. disk[1].id < disk[2].id /\ disk[1].id \in Nat /\ disk[2].id \in Nat
            BY <1>1, <3>2, <3>3, <4>1
      <4>3. ASSUME NEW y \in ends', y < x PROVE FALSE
        <5>1. y \in ends /\ y \in Nat /\ disk[2].id <= y
              BY <2>6, <4>1 DEF IInv, TypeOK
        <5>2. y < disk[1].id
              BY <3>2, <3>3, <4>3, <5>1
        <5> QED BY <4>2, <5>1, <5>2
      <4> QED BY <3>1, <4>1, <4>3
    <3>4. CASE i # 1
      <4> DEFINE j == i - 1
      <4>1. j \in 1..Len(rest) /\ j + 1 = i
            BY <1>1, <2>2, <3>1, <3>4
      <4>2. rest[j] = disk[i]
            BY <2>2, <3>1, <4>1
      <4> QED BY <2>6, <3>2, <4>1, <4>2
    <3> QED BY <3>3, <3>4
  <2>9. ASSUME NEW i \in 1..(n - 1), NEW x \in ends' PROVE rest[i].id <= x
    <3>1. CASE readAhead > 0
      <4>1. n = readAhead /\ readAhead \in Nat /\ readAhead <= Len(disk) /\ ~ReaderFlushes
            BY <3>1 DEF Fetches, ReaderFlushes, IInv, TypeOK, TierShape
      <4>2. OnFile = disk /\ i + 1 \in 1..readAhead /\ i \in 1..Len(rest)
            BY <1>1, <2>2, <2>4, <4>1
      <4>3. disk[i + 1].id <= x
            BY <2>6, <4>2 DEF FilesSound
      <4> QED BY <2>2, <4>2, <4>3
    <3>2. CASE ~(readAhead > 0)
      <4>1. n \in 1..Len(OnFile) /\ \A y \in LiveEnds(OnFile) : OnFile[n].id <= y
            BY <3>2 DEF Fetches
      <4>2. /\ i + 1 \in 1..Len(OnFile) /\ i \in 1..Len(rest) /\ i + 1 <= n
            /\ 1 \in 1..Len(OnFile) /\ 2 \in 1..Len(OnFile) /\ 1 \in 1..Len(rest)
            BY <2>2, <4>1
      <4>3. /\ OnFile[i + 1].id <= OnFile[n].id /\ OnFile[1].id < OnFile[2].id
            /\ OnFile[i + 1].id \in Nat /\ OnFile[n].id \in Nat
            /\ OnFile[1].id \in Nat /\ OnFile[2].id \in Nat
        <5>1. i + 1 < n \/ i + 1 = n
              BY <4>1, <4>2
        <5>2. \A j \in 1..Len(OnFile) : OnFile[j].id \in Nat
              BY <1>1, <2>3
        <5>3. \A j, l \in 1..Len(OnFile) : j < l => OnFile[j].id < OnFile[l].id
              BY <1>1, <2>3
        <5>4. OnFile[1].id < OnFile[2].id
              BY <4>2, <5>3
        <5>5. CASE i + 1 = n
              BY <4>1, <4>2, <5>2, <5>4, <5>5
        <5>6. CASE i + 1 < n
          <6>1. OnFile[i + 1].id < OnFile[n].id
                BY <4>1, <4>2, <5>3, <5>6
          <6> QED BY <4>1, <4>2, <5>2, <5>4, <6>1
        <5> QED BY <5>1, <5>5, <5>6
      <4>4. x \in LiveEnds(OnFile)
        <5>1. x \in ends /\ rest[1].id <= x /\ x \in Nat
              BY <2>6 DEF IInv, TypeOK
        <5>2. rest[1] = OnFile[2]
              BY <2>2, <4>2
        <5>3. Head(OnFile).id <= x
          <6>1. OnFile[1].id <= x
            <7>1. OnFile[2].id <= x
                  BY <5>1, <5>2
            <7> HIDE DEF rest
            <7> QED BY <4>3, <5>1, <7>1
          <6>2. Head(OnFile) = OnFile[1]
                OBVIOUS
          <6> QED BY <6>1, <6>2
        <5> QED BY <2>2, <5>1, <5>3 DEF LiveEnds
      <4>5. x \in Nat
            BY <2>6 DEF IInv, TypeOK
      <4> QED BY <2>2, <4>1, <4>2, <4>3, <4>4, <4>5
    <3> QED BY <3>1, <3>2
  <2>10. ASSUME tier = "open"
         PROVE  Frames' # <<>> /\ \A x \in ends' : x < Frames'[Len(Frames')].id
    <3>1. Frames' = Tail(Frames) /\ Frames # <<>>
      <4>1. Head(OnFile \o Unflushed) = Head(OnFile)
            /\ Tail(OnFile \o Unflushed) = rest \o Unflushed
            /\ OnFile \o Unflushed # <<>>
            BY <2>2, HeadOfTheQueue
      <4>2. Frames' = rest \o Unflushed
            BY <2>1 DEF Frames
      <4> QED BY <2>4, <4>1, <4>2
    <3>2. /\ Frames' \in Seq(Entry) /\ Len(Frames') = Len(Frames) - 1
          /\ \A i \in 1..Len(Frames') : Frames'[i] = Frames[i + 1]
      <4>1. /\ Tail(Frames) \in Seq(Entry) /\ Len(Tail(Frames)) = Len(Frames) - 1
            /\ \A i \in 1..Len(Tail(Frames)) : Tail(Frames)[i] = Frames[i + 1]
            BY <1>1, <3>1, HeadTailProperties
      <4> QED BY <3>1, <4>1
    <3>3. Len(Frames) \in Nat \ {0}
          BY <1>1, <3>1, EmptySeq
    <3>4. \A x \in ends : x < Frames[Len(Frames)].id
          BY <2>10 DEF FilesSound
    <3>5. Len(Frames) # 1
      <4> SUFFICES ASSUME Len(Frames) = 1 PROVE FALSE
          OBVIOUS
      <4>1. rest = <<>> /\ Unflushed = <<>>
        <5>1. Len(OnFile \o Unflushed) = Len(OnFile) + Len(Unflushed) /\ Len(Unflushed) \in Nat
              BY <2>2, ConcatProperties, LenProperties
        <5>2. Len(rest) = 0 /\ Len(Unflushed) = 0
              BY <2>2, <2>4, <5>1
        <5> HIDE DEF rest
        <5> QED BY <2>2, <5>2, EmptySeq
      <4>2. LiveEnds(OnFile) = {}
        <5>1. OnFile[1] = Frames[1] /\ Frames[1].id \in Nat
          <6>1. 1 \in 1..Len(OnFile)
                BY <2>2
          <6> QED BY <1>1, <2>3, <6>1
        <5>2. \A x \in ends : x \in Nat /\ ~(Head(OnFile).id <= x)
          <6>1. \A x \in ends : x \in Nat /\ x < Frames[1].id
                BY <3>4 DEF IInv, TypeOK
          <6>2. Head(OnFile) = OnFile[1]
                OBVIOUS
          <6> QED BY <5>1, <6>1, <6>2
        <5> QED BY <5>2 DEF LiveEnds
      <4> QED BY <2>1, <4>1, <4>2 DEF SpillOver
    <3>6. Len(Frames') \in 1..Len(Frames') /\ Len(Frames') + 1 = Len(Frames)
          BY <3>2, <3>3, <3>5
    <3>7. Frames'[Len(Frames')] = Frames[Len(Frames)]
          BY <3>2, <3>6
    <3>8. Frames' # <<>>
          BY <3>6, EmptySeq
    <3> QED BY <2>6, <3>4, <3>7, <3>8
  <2>11. tier # "none"
         BY DEF Take_Disk
  <2> HIDE DEF rest
  <2> QED BY <2>1, <2>8, <2>9, <2>10, <2>11 DEF FilesSound
<1> QED BY <1>3, <1>4

-----------------------------------------------------------------------------
\* Bytes and limits

\* What a step does to the memory tier, ...
Placing(p, k) == ToMemory(p, k) /\ (Fits(k) \/ memory = <<>>)
MemoryStep ==
    \/ UNCHANGED memoryVars
    \/ memory' = <<>> /\ memoryBytes' = 0
    \/ Take_Memory
    \/ \E p \in Producers, k \in Kinds : Placing(p, k)

\* ... and to the disk tier.
DiskStep ==
    \/ UNCHANGED diskVars
    \/ DiscardDisk
    \/ Take_Disk
    \/ \E p \in Producers, k \in Kinds :
          AppendFrame(p, k) /\ (tier = "none" \/ (tier = "open" /\ DiskRoom))

LEMMA TierSteps ==
    ASSUME IInv, [Next]_vars
    PROVE  MemoryStep /\ DiskStep
<1>1. ASSUME NEW p \in Producers, NEW k \in Kinds, PutPass(p, k) PROVE MemoryStep /\ DiskStep
  <2>1. CASE Put_Refused(p, k) \/ Put_Waits(p, k)
        BY <2>1 DEF Put_Refused, Put_Waits, MemoryStep, DiskStep
  <2>2. CASE Put_Memory(p, k)
        BY <2>2 DEF Put_Memory, Placing, MemoryStep, DiskStep
  <2>3. CASE Put_NoDisk(p, k)
        BY <2>3 DEF Put_NoDisk, Placing, MemoryStep, DiskStep
  <2>4. CASE Put_BeginSpill(p, k)
    <3>1. UNCHANGED memoryVars /\ AppendFrame(p, k) /\ tier = "none"
          BY <2>4 DEF Put_BeginSpill, UseMemory
    <3>2. \E q \in Producers, j \in Kinds :
             AppendFrame(q, j) /\ (tier = "none" \/ (tier = "open" /\ DiskRoom))
          BY <3>1, Zenon
    <3> QED BY <3>1, <3>2, Zenon DEF MemoryStep, DiskStep
  <2>5. CASE Put_Disk(p, k)
        BY <2>5 DEF Put_Disk, MemoryStep, DiskStep
  <2> QED BY <1>1, <2>1, <2>2, <2>3, <2>4, <2>5 DEF PutPass
<1>2. ASSUME NEW p \in Producers, Put(p) \/ RetryPut(p) PROVE MemoryStep /\ DiskStep
  <2>1. inHand[p] # None => inHand[p] \in Kinds
        BY DEF IInv, TypeOK
  <2> QED BY <1>1, <1>2, <2>1 DEF Put, RetryPut
<1>3. ASSUME NEW call, PollPass(call) PROVE MemoryStep /\ DiskStep
  <2>1. CASE Take_Memory
        BY <2>1 DEF Take_Memory, MemoryStep, DiskStep
  <2>2. CASE Take_Disk
    <3>1. UNCHANGED memoryVars
          BY <2>2 DEF Take_Disk
    <3> QED BY <2>2, <3>1 DEF MemoryStep, DiskStep
  <2>3. CASE Take_ReadFails(call) \/ Take_Drained(call) \/ Take_Empty(call)
        BY <2>3 DEF Take_ReadFails, Take_Drained, Take_Empty, MemoryStep, DiskStep
  <2> QED BY <1>3, <2>1, <2>2, <2>3 DEF PollPass
<1>4. ASSUME NEW p \in Producers, InterruptPut(p) PROVE MemoryStep /\ DiskStep
      BY <1>4 DEF InterruptPut, MemoryStep, DiskStep
<1>5. CASE DiskRetryElapses \/ Finish
      BY <1>5 DEF DiskRetryElapses, Finish, MemoryStep, DiskStep
<1>6. CASE Take \/ Poll
      BY <1>3, <1>6 DEF Take, Poll, MemoryStep, DiskStep
<1>7. CASE Clear \/ Close
      BY <1>7 DEF Clear, Close, DiscardAll, MemoryStep, DiskStep
<1>8. CASE UNCHANGED vars
      BY <1>8 DEF vars, MemoryStep, DiskStep
<1> QED BY <1>2, <1>4, <1>5, <1>6, <1>7, <1>8 DEF Next

\* The memory tier's counter, and the one entry that may exceed its limit.
MemorySound == /\ memoryBytes = BytesOf(memory, SizeOf)
               /\ memoryBytes > MemoryLimit => Len(memory) = 1

LEMMA MemoryStepSound ==
    ASSUME IInv, MemorySound, MemoryStep
    PROVE  MemorySound'
<1>1. memory \in Seq(Entry) /\ SizeOf \in [Kinds -> Nat] /\ MemoryLimit \in Nat
      /\ Len(memory) \in Nat
      BY SpoolAssumption, LenProperties DEF IInv, TypeOK
<1>2. BytesOf(<<>>, SizeOf) = 0 /\ BytesOf(memory, SizeOf) \in Nat
      BY <1>1, BytesOfConcat
<1>3. CASE UNCHANGED memoryVars
      BY <1>3 DEF MemorySound, memoryVars
<1>4. CASE memory' = <<>> /\ memoryBytes' = 0
      BY <1>1, <1>2, <1>4 DEF MemorySound
<1>5. CASE Take_Memory
  <2>1. /\ memory # <<>> /\ memory' = Tail(memory)
        /\ memoryBytes' = memoryBytes - SizeOf[Head(memory).kind]
        BY <1>5 DEF Take_Memory
  <2>2. /\ Head(memory) \in Entry /\ Tail(memory) \in Seq(Entry)
        /\ Len(Tail(memory)) = Len(memory) - 1
        BY <1>1, <2>1, HeadTailProperties
  <2>3. SizeOf[Head(memory).kind] \in Nat
        BY <1>1, <2>2 DEF Entry
  <2>4. /\ BytesOf(memory, SizeOf) = SizeOf[Head(memory).kind] + BytesOf(Tail(memory), SizeOf)
        /\ BytesOf(Tail(memory), SizeOf) \in Nat
        BY <1>1, <2>1, <2>2, BytesOfEnds, BytesOfConcat
  <2>5. memoryBytes' = BytesOf(memory', SizeOf)
        BY <2>1, <2>3, <2>4 DEF MemorySound
  <2>6. Len(memory) = 1 => BytesOf(Tail(memory), SizeOf) = 0
    <3> DEFINE t == Tail(memory)
    <3>1. Len(memory) = 1 => t = <<>>
      <4>1. t \in Seq(Entry) /\ Len(t) = Len(memory) - 1
            BY <2>2
      <4> HIDE DEF t
      <4> QED BY <4>1, EmptySeq
    <3> QED BY <1>2, <3>1
  <2> QED BY <1>1, <2>1, <2>3, <2>4, <2>5, <2>6 DEF MemorySound
<1>6. ASSUME NEW p \in Producers, NEW k \in Kinds, Placing(p, k) PROVE MemorySound'
  <2> DEFINE e == NextEntry(k)
  <2>1. e \in Entry /\ e.kind = k
        BY NextEntryType DEF IInv, NextEntry
  <2>2. memory' = Append(memory, e) /\ memoryBytes' = memoryBytes + SizeOf[k]
        BY <1>6 DEF Placing, ToMemory
  <2> HIDE DEF e
  <2>3. /\ BytesOf(memory', SizeOf) = memoryBytes + SizeOf[k]
        /\ Len(memory') = Len(memory) + 1
        BY <1>1, <2>1, <2>2, BytesOfEnds, AppendProperties DEF MemorySound
  <2>4. memoryBytes' > MemoryLimit => memory = <<>>
    <3>1. SizeOf[k] \in Nat /\ memoryBytes \in Nat
          BY <1>1, <1>2 DEF MemorySound
    <3> QED BY <1>1, <1>6, <2>2, <3>1 DEF Placing, Fits
  <2>5. memory = <<>> => Len(memory') = 1
        BY <2>3, EmptySeq
  <2> QED BY <2>2, <2>3, <2>4, <2>5 DEF MemorySound
<1> QED BY <1>3, <1>4, <1>5, <1>6 DEF MemoryStep

\* The disk tier's counters, and the one frame by which the files may exceed their limit.
DiskSound == /\ diskBytes = BytesOf(Frames, FrameOf)
             /\ written - committed = BytesOf(buffered, FrameOf)
             /\ \A k \in Kinds : (\A other \in Kinds : FrameOf[other] <= FrameOf[k]) =>
                                     diskBytes < DiskLimit + FrameOf[k]

LEMMA DiskStepSound ==
    ASSUME IInv, FilesSound, DiskSound, DiskStep
    PROVE  DiskSound'
<1>1. /\ disk \in Seq(Entry) /\ buffered \in Seq(Entry) /\ Frames \in Seq(Entry)
      /\ FrameOf \in [Kinds -> Nat] /\ DiskLimit \in Nat /\ DiskLimit > 0
      /\ \A k \in Kinds : FrameOf[k] \in Nat /\ FrameOf[k] > 0
      /\ written \in Nat /\ committed \in Nat /\ diskBytes \in Int
      BY SpoolAssumption, ConcatProperties DEF IInv, TypeOK, Frames
<1>2. /\ BytesOf(<<>>, FrameOf) = 0
      /\ BytesOf(disk, FrameOf) \in Nat /\ BytesOf(buffered, FrameOf) \in Nat
      /\ BytesOf(Frames, FrameOf) = BytesOf(disk, FrameOf) + BytesOf(buffered, FrameOf)
      BY <1>1, BytesOfConcat DEF Frames
<1>3. CASE UNCHANGED diskVars
      BY <1>3 DEF DiskSound, diskVars, Frames
<1>4. CASE DiscardDisk
  <2>1. Frames' = <<>> \o <<>> /\ <<>> \o <<>> = <<>>
        BY <1>4, EmptySeq, ConcatEmptySeq DEF DiscardDisk, Frames
  <2>2. diskBytes' = 0 /\ written' - committed' = 0 /\ buffered' = <<>>
        BY <1>4 DEF DiscardDisk
  <2>3. \A k \in Kinds : 0 < DiskLimit + FrameOf[k]
        BY <1>1
  <2> QED BY <1>2, <2>1, <2>2, <2>3 DEF DiskSound
<1>5. CASE Take_Disk /\ ~DiscardDisk
  <2>1. PICK n : Trim(Tail(OnFile), Unflushed, n)
        BY <1>5 DEF Take_Disk, Unflushed
  <2>2. /\ disk' = Tail(OnFile) /\ buffered' = Unflushed /\ written' = written
        /\ diskBytes' = diskBytes - FrameOf[Head(OnFile).kind]
        /\ committed' = IF ReaderFlushes THEN written ELSE committed
        BY <1>5, <2>1 DEF Trim
  <2>3. /\ OnFile \in Seq(Entry) /\ OnFile # <<>> /\ Unflushed \in Seq(Entry)
        /\ Head(OnFile) \in Entry /\ Tail(OnFile) \in Seq(Entry)
        BY <1>5, OnFileType, HeadTailProperties DEF Take_Disk
  <2>4. OnFile \o Unflushed = Frames
        BY <1>1, ConcatEmptySeq DEF OnFile, Unflushed, Frames
  <2>5. FrameOf[Head(OnFile).kind] \in Nat
        BY <1>1, <2>3 DEF Entry
  <2>6. /\ BytesOf(OnFile, FrameOf) = FrameOf[Head(OnFile).kind] + BytesOf(Tail(OnFile), FrameOf)
        /\ BytesOf(Tail(OnFile), FrameOf) \in Nat /\ BytesOf(Unflushed, FrameOf) \in Nat
        /\ BytesOf(Frames, FrameOf) = BytesOf(OnFile, FrameOf) + BytesOf(Unflushed, FrameOf)
        /\ BytesOf(Tail(OnFile) \o Unflushed, FrameOf)
             = BytesOf(Tail(OnFile), FrameOf) + BytesOf(Unflushed, FrameOf)
    <3>1. BytesOf(OnFile, FrameOf) = FrameOf[Head(OnFile).kind] + BytesOf(Tail(OnFile), FrameOf)
          BY <1>1, <2>3, BytesOfEnds
    <3>2. /\ BytesOf(Tail(OnFile), FrameOf) \in Nat /\ BytesOf(Unflushed, FrameOf) \in Nat
          /\ BytesOf(Tail(OnFile) \o Unflushed, FrameOf)
               = BytesOf(Tail(OnFile), FrameOf) + BytesOf(Unflushed, FrameOf)
          BY <1>1, <2>3, BytesOfConcat
    <3>3. BytesOf(OnFile \o Unflushed, FrameOf)
            = BytesOf(OnFile, FrameOf) + BytesOf(Unflushed, FrameOf)
          BY <1>1, <2>3, BytesOfConcat
    <3> QED BY <2>4, <3>1, <3>2, <3>3
  <2>7. Frames' = Tail(OnFile) \o Unflushed
        BY <2>2 DEF Frames
  <2>8. diskBytes' = BytesOf(Frames', FrameOf)
        BY <2>2, <2>5, <2>6, <2>7 DEF DiskSound
  <2>9. written' - committed' = BytesOf(buffered', FrameOf)
        BY <1>1, <1>2, <2>2 DEF DiskSound, Unflushed
  <2>10. \A k \in Kinds : (\A other \in Kinds : FrameOf[other] <= FrameOf[k]) =>
                              diskBytes' < DiskLimit + FrameOf[k]
    <3> SUFFICES ASSUME NEW k \in Kinds, \A other \in Kinds : FrameOf[other] <= FrameOf[k]
                 PROVE  diskBytes' < DiskLimit + FrameOf[k]
        OBVIOUS
    <3>1. diskBytes < DiskLimit + FrameOf[k]
          BY DEF DiskSound
    <3>2. diskBytes' <= diskBytes
          BY <1>1, <2>2, <2>5
    <3>3. /\ diskBytes \in Int /\ diskBytes' \in Int
          /\ DiskLimit \in Nat /\ FrameOf[k] \in Nat
          BY <1>1, <2>2, <2>5
    <3> QED BY <3>1, <3>2, <3>3
  <2> QED BY <2>8, <2>9, <2>10 DEF DiskSound
<1>6. ASSUME NEW p \in Producers, NEW k \in Kinds, AppendFrame(p, k),
             tier = "none" \/ (tier = "open" /\ DiskRoom)
      PROVE  DiskSound'
  <2> DEFINE e == NextEntry(k)
  <2>1. e \in Entry /\ e.kind = k /\ FrameOf[k] \in Nat
        BY <1>1, NextEntryType DEF IInv, NextEntry
  <2>2. diskBytes < DiskLimit
    <3>1. tier = "none" => Frames = <<>>
      <4>1. <<>> \o <<>> = <<>>
            BY EmptySeq, ConcatEmptySeq
      <4> QED BY <4>1 DEF IInv, TierShape, Frames
    <3> QED BY <1>1, <1>2, <1>6, <3>1 DEF DiskSound, DiskRoom
  <2>3. CASE Append_OK(p, k) /\ Frames' = Append(Frames, e)
    <3> DEFINE base == IF Rolls(written) THEN 0 ELSE written
               kept == IF Flushes(written, k) THEN <<>> ELSE buffered
    <3>1. diskBytes' = diskBytes + FrameOf[k]
          BY <2>3 DEF Append_OK
    <3>2. BytesOf(Frames', FrameOf) = BytesOf(Frames, FrameOf) + FrameOf[k]
      <4> HIDE DEF e
      <4> QED BY <1>1, <2>1, <2>3, BytesOfEnds
    <3>3. \/ buffered' = <<>> /\ written' = base + FrameOf[k] /\ committed' = written'
          \/ /\ buffered' = Append(kept, e) /\ written' = base + FrameOf[k]
             /\ committed' = IF Flushes(written, k) THEN base ELSE committed
          BY <2>3 DEF Append_OK
    <3>4. kept \in Seq(Entry) /\ BytesOf(kept, FrameOf) \in Nat
          /\ BytesOf(kept, FrameOf) = IF Flushes(written, k) THEN 0 ELSE written - committed
          BY <1>1, <1>2, EmptySeq DEF DiskSound
    <3>5. base \in Nat /\ (~Flushes(written, k) => base = written)
          BY <1>1 DEF Flushes
    <3>6. BytesOf(Append(kept, e), FrameOf) = BytesOf(kept, FrameOf) + FrameOf[k]
      <4> HIDE DEF e, kept
      <4> QED BY <1>1, <2>1, <3>4, BytesOfEnds
    <3>7. written' - committed' = BytesOf(buffered', FrameOf)
      <4>1. CASE buffered' = <<>> /\ written' = base + FrameOf[k] /\ committed' = written'
        <5> HIDE DEF base
        <5> QED BY <1>2, <2>1, <3>5, <4>1
      <4>2. CASE /\ buffered' = Append(kept, e) /\ written' = base + FrameOf[k]
                 /\ committed' = IF Flushes(written, k) THEN base ELSE committed
        <5>1. BytesOf(buffered', FrameOf) = BytesOf(kept, FrameOf) + FrameOf[k]
              BY <3>6, <4>2
        <5> HIDE DEF e, kept, base
        <5>2. CASE Flushes(written, k)
              BY <2>1, <3>4, <3>5, <4>2, <5>1, <5>2
        <5>3. CASE ~Flushes(written, k)
              BY <1>1, <2>1, <3>4, <3>5, <4>2, <5>1, <5>3
        <5> QED BY <5>2, <5>3
      <4> QED BY <3>3, <4>1, <4>2
    <3>8. \A j \in Kinds : (\A other \in Kinds : FrameOf[other] <= FrameOf[j]) =>
                              diskBytes' < DiskLimit + FrameOf[j]
          BY <1>1, <2>1, <2>2, <3>1
    <3> QED BY <3>1, <3>2, <3>7, <3>8 DEF DiskSound
  <2>4. CASE Append_FlushFails(p, k) /\ Frames' = disk
    <3>1. /\ diskBytes' = diskBytes - (written - committed)
          /\ written' = committed /\ committed' = committed /\ buffered' = <<>>
          BY <2>4 DEF Append_FlushFails
    <3>2. diskBytes' = BytesOf(Frames', FrameOf) /\ diskBytes' <= diskBytes
      <4>1. BytesOf(Frames', FrameOf) = BytesOf(disk, FrameOf)
            BY <2>4
      <4>2. /\ diskBytes = BytesOf(disk, FrameOf) + BytesOf(buffered, FrameOf)
            /\ written - committed = BytesOf(buffered, FrameOf)
            BY <1>2 DEF DiskSound
      <4>3. diskBytes' = diskBytes - BytesOf(buffered, FrameOf)
            BY <3>1, <4>2
      <4>4. BytesOf(disk, FrameOf) \in Nat /\ BytesOf(buffered, FrameOf) \in Nat
            BY <1>2
      <4>5. diskBytes' = BytesOf(disk, FrameOf) /\ diskBytes' <= diskBytes
            BY <4>2, <4>3, <4>4
      <4> QED BY <4>1, <4>5
    <3>3. \A j \in Kinds : diskBytes' < DiskLimit + FrameOf[j]
          BY <1>1, <2>2, <3>1, <3>2
    <3>4. written' - committed' = BytesOf(buffered', FrameOf)
          BY <1>1, <1>2, <3>1
    <3> QED BY <3>2, <3>3, <3>4 DEF DiskSound
  <2>5. CASE (Append_RollFails(p, k) \/ Append_WriteFails(p, k)) /\ Frames' = Frames
    <3>1. /\ diskBytes' = diskBytes /\ buffered' = <<>>
          /\ committed' = written' /\ written' \in Nat
          BY <1>1, <2>5 DEF Append_RollFails, Append_WriteFails
    <3> QED BY <1>2, <2>5, <3>1 DEF DiskSound
  <2> QED BY <1>6, <2>3, <2>4, <2>5, AppendFrames
<1> QED BY <1>3, <1>4, <1>5, <1>6 DEF DiskStep

-----------------------------------------------------------------------------
\* Everything the runs check of the spool's safety, for every value of the constants: the
\* counters are exact in entries and bytes, the order is kept, the limits hold, and a segment
\* file is there as long as it holds something unread.
THEOREM SpoolIsSound == Spec => []SpoolSound
<1> DEFINE Sound == FilesSound /\ MemorySound /\ DiskSound
<1>1. Init => Sound
  <2> SUFFICES ASSUME Init PROVE Sound
      OBVIOUS
  <2>1. <<>> \o <<>> = <<>> /\ <<>> \in Seq(Entry)
        BY EmptySeq, ConcatEmptySeq
  <2>2. /\ SizeOf \in [Kinds -> Nat] /\ FrameOf \in [Kinds -> Nat]
        /\ MemoryLimit \in Nat /\ DiskLimit \in Nat /\ DiskLimit > 0
        /\ \A k \in Kinds : FrameOf[k] \in Nat
        BY SpoolAssumption
  <2>3. BytesOf(<<>>, SizeOf) = 0 /\ BytesOf(<<>>, FrameOf) = 0
        BY <2>1, <2>2, BytesOfConcat
  <2>4. FilesSound
        BY DEF Init, FilesSound
  <2>5. MemorySound /\ DiskSound
        BY <2>1, <2>2, <2>3 DEF Init, MemorySound, DiskSound, Frames
  <2> QED BY <2>4, <2>5
<1>2. IInv /\ InOrder /\ Sound /\ IInv' /\ [Next]_vars => Sound'
  <2> SUFFICES ASSUME IInv, InOrder, Sound, IInv', [Next]_vars PROVE Sound'
      OBVIOUS
  <2>1. MemoryStep /\ DiskStep
        BY TierSteps
  <2>2. MemorySound' /\ DiskSound'
        BY <2>1, MemoryStepSound, DiskStepSound
  <2>3. FilesSound'
    <3>1. CASE UNCHANGED diskVars
          BY <3>1 DEF FilesSound, Frames, diskVars
    <3>2. CASE DiscardDisk
          BY <3>2 DEF DiscardDisk, FilesSound
    <3>3. CASE Take_Disk
          BY <3>3, TakeFilesSound
    <3>4. ASSUME NEW p \in Producers, NEW k \in Kinds, AppendFrame(p, k),
                 tier = "none" \/ (tier = "open" /\ DiskRoom)
          PROVE  FilesSound'
          BY <3>4, AppendFilesSound
    <3> QED BY <2>1, <3>1, <3>2, <3>3, <3>4 DEF DiskStep
  <2> QED BY <2>2, <2>3
<1>3. IInv /\ QueueAccounted /\ Sound => SpoolSound
  <2> SUFFICES ASSUME IInv, QueueAccounted, Sound PROVE SpoolSound
      OBVIOUS
  <2>1. BytesExact /\ WithinLimits
        BY DEF MemorySound, DiskSound, Frames, BytesExact, WithinLimits
  <2>2. SegmentsHoldBacklog
        BY DEF IInv, TierShape, FilesSound, Frames, SegmentsHoldBacklog
  <2>3. ReadAheadInHead
        BY DEF IInv, TierShape, FilesSound, ReadAheadInHead
  <2> QED BY <2>1, <2>2, <2>3 DEF SpoolSound
<1> HIDE DEF Sound
<1> QED BY <1>1, <1>2, <1>3, SpoolInvariant, SpoolInOrder, SpoolAccounted, PTL DEF Spec
=============================================================================
