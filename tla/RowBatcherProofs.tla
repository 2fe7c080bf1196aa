-------------------------- MODULE RowBatcherProofs --------------------------
(***************************************************************************)
(* What holds of RowBatcher for any number of threads, rows and faults and *)
(* for all batch sizes: the types, that every row is in one place, that a  *)
(* full batch is being flushed, and that the order of the rows of a key    *)
(* survives as long as no two flushes overlap.                             *)
(***************************************************************************)
EXTENDS RowBatcher, SequenceTheorems, WellFoundedInduction, TLAPS

-----------------------------------------------------------------------------
\* The inductive invariant

\* A thread has rows in hand exactly while it publishes.
Held == \A t \in Threads : doing[t] = "publish" <=> hand[t] # <<>>

Ascending(rows) == \A i, j \in DOMAIN rows : i < j => rows[i].n < rows[j].n

InSubmissionOrder == Ascending(buffer) /\ \A t \in Threads : Ascending(hand[t])

\* RowsAccounted number by number: where a row may be, and that it is in no
\* two places.
Placed ==
    /\ \A n : n \in 1..submitted <=> \/ n \in Numbers(buffer) \cup arrived \cup lost
                                     \/ \E t \in Threads : n \in Numbers(hand[t])
    /\ arrived \cap lost = {} /\ Numbers(buffer) \cap (arrived \cup lost) = {}
    /\ \A t \in Threads :
          /\ Numbers(hand[t]) \cap (Numbers(buffer) \cup arrived \cup lost) = {}
          /\ \A u \in Threads : t # u => Numbers(hand[t]) \cap Numbers(hand[u]) = {}

InHand == UNION {Numbers(hand[t]) : t \in Threads}

\* The buffer holds what was submitted last.
BufferLast == \A n \in arrived \cup InHand, m \in Numbers(buffer) : n < m

RowsOf(rows) == {rows[i] : i \in DOMAIN rows}
RowsUnderway == RowsOf(buffer) \cup (UNION {RowsOf(hand[t]) : t \in Threads})

\* The last row of a key is the only one with its number, and no row of the
\* key that is under way has a greater one.
LatestIsLast ==
    \A k \in Keys :
        IF latest[k] = None
        THEN \A row \in RowsUnderway : row.key # k
        ELSE /\ latest[k].key = k /\ latest[k].n \in 1..submitted
             /\ \A row \in RowsUnderway : /\ row.key = k => row.n <= latest[k].n
                                          /\ row.n = latest[k].n => row = latest[k]

\* Without overlap one thread publishes, and what arrived precedes what it
\* has in hand.
OneFlush     == \A t, u \in Threads : doing[t] = "publish" /\ doing[u] = "publish" => t = u
ArrivedFirst == \A n \in arrived, m \in InHand : n < m

Shown(row) == IF row.action = "DELETE" THEN 0 ELSE row.n

LatestShown == \A k \in Keys : latest[k] # None /\ latest[k].n \in arrived =>
                                  table[k] = Shown(latest[k])

TInv == TypeOK /\ Held
AInv == TInv /\ Placed /\ InSubmissionOrder
\* The order of the rows of a key, which needs AInv beside it.
Ordered == BufferLast /\ LatestIsLast /\ (overlapped \/ (OneFlush /\ ArrivedFirst /\ LatestShown))

-----------------------------------------------------------------------------
\* Least and greatest elements

\* A set of naturals has a least element.
LEMMA LeastElement ==
    ASSUME NEW T, T \subseteq Nat, T # {}
    PROVE  \E x \in T : \A y \in T : x <= y
<1> DEFINE R == OpToRel(<, Nat)
<1>1. IsWellFoundedOn(R, Nat)
      BY NatLessThanWellFounded
<1>2. \A x, y \in Nat : x < y => <<x, y>> \in R
      BY DEF OpToRel
<1>   HIDE DEF R
<1>3. PICK x \in T : \A y \in T : ~ (<<y, x>> \in R)
      BY <1>1, WFMin
<1>4. \A y \in T : ~(y < x)
      BY <1>2, <1>3
<1>5. \A y \in T : x <= y
      BY <1>4
<1> QED BY <1>5

\* A bounded set of naturals has a greatest element.
LEMMA GreatestElement ==
    ASSUME NEW T, T \subseteq Nat, T # {}, NEW b \in Nat, \A x \in T : x <= b
    PROVE  \E x \in T : \A y \in T : y <= x
<1> DEFINE U == {b - x : x \in T}
<1>1. U \subseteq Nat
      <2> SUFFICES ASSUME NEW x \in T PROVE b - x \in Nat
          OBVIOUS
      <2>1. x <= b /\ x \in Nat
            OBVIOUS
      <2> QED BY <2>1
<1>2. U # {} /\ \A y \in T : b - y \in U
      OBVIOUS
<1>3. \A u \in U : \E x \in T : u = b - x
      OBVIOUS
<1>   HIDE DEF U
<1>4. PICK u \in U : \A v \in U : u <= v
      BY <1>1, <1>2, LeastElement
<1>5. PICK x \in T : u = b - x
      BY <1>3
<1>6. ASSUME NEW y \in T PROVE y <= x
      <2>1. b - x <= b - y /\ x \in Nat /\ y \in Nat
            BY <1>2, <1>4, <1>5
      <2> QED BY <2>1
<1> QED BY <1>6

\* The length of the next run is the length of a run.
LEMMA RunLengthIsRun ==
    ASSUME NEW rows \in Seq(Row), rows # <<>>
    PROVE  /\ RunLength(rows) \in 1..Len(rows)
           /\ \A i \in 1..RunLength(rows) : rows[i].action = rows[1].action
<1> DEFINE L == Len(rows)
           Ends(n) == n = L \/ rows[n + 1].action # rows[1].action
           IsRun(n) == (\A i \in 1..n : rows[i].action = rows[1].action) /\ Ends(n)
           Breaks == {n \in 1..L : Ends(n)}
<1>1. L \in Nat \ {0} /\ DOMAIN rows = 1..L
      OBVIOUS
<1>2. RunLength(rows) = CHOOSE m \in 1..L : IsRun(m)
      BY <1>1 DEF RunLength
<1>3. \A m \in 1..L : ~Ends(m) => rows[m + 1].action = rows[1].action
      OBVIOUS
<1>4. Ends(L)
      OBVIOUS
<1>   HIDE DEF L, Ends
<1>5. Breaks \subseteq Nat /\ L \in Breaks
      BY <1>1, <1>4
<1>6. PICK n \in Breaks : \A m \in Breaks : n <= m
      BY <1>5, LeastElement
<1>7. n \in 1..L /\ Ends(n)
      OBVIOUS
<1>8. \A m \in 1..L : m < n => m \notin Breaks
      BY <1>1, <1>6, <1>7
<1>9. \A m \in 1..L : m < n => rows[m + 1].action = rows[1].action
      BY <1>8, <1>3
<1>   HIDE DEF Breaks
<1>10. \A i \in 1..n : rows[i].action = rows[1].action
      <2> SUFFICES ASSUME NEW i \in 1..n, i # 1 PROVE rows[i].action = rows[1].action
          OBVIOUS
      <2>1. i \in Nat /\ 1 < i /\ i <= n /\ n <= L /\ n \in Nat
            BY <1>1, <1>7
      <2>2. i - 1 \in 1..L /\ i - 1 < n /\ (i - 1) + 1 = i
            BY <2>1, <1>1
      <2> QED BY <2>2, <1>9
<1>11. IsRun(n)
      BY <1>7, <1>10
<1>   HIDE DEF IsRun
<1>12. RunLength(rows) \in 1..L /\ IsRun(RunLength(rows))
      BY <1>2, <1>7, <1>11
<1> QED BY <1>12 DEF IsRun, L

-----------------------------------------------------------------------------
\* The two pieces of a publish

\* A sequence of L rows is a run of the given length, then the rest.
Splits(rows, L, run, length, rest) ==
    /\ L \in Nat /\ length \in 1..L
    /\ DOMAIN rows = 1..L /\ DOMAIN run = 1..length /\ DOMAIN rest = 1..(L - length)
    /\ \A i \in 1..length : run[i] = rows[i]
    /\ \A i \in 1..(L - length) : rest[i] = rows[length + i]

\* The rows of the pieces are rows of the whole, in the same order.
Agree(rows, run, rest) ==
    /\ \A i \in DOMAIN run : i \in DOMAIN rows /\ run[i] = rows[i]
    /\ \A i \in DOMAIN rest : \E j \in DOMAIN rows : rest[i] = rows[j]
    /\ Numbers(rows) = Numbers(run) \cup Numbers(rest)
    /\ Ascending(rows) => /\ Ascending(run) /\ Ascending(rest)
                          /\ \A m \in Numbers(run), n \in Numbers(rest) : m < n

\* Of two consecutive pieces of a sequence, the numbers are those of the
\* sequence, and in order as it is.
LEMMA NumbersOfPieces ==
    ASSUME NEW rows, NEW L, NEW run, NEW length, NEW rest,
           Splits(rows, L, run, length, rest)
    PROVE  Agree(rows, run, rest)
<1> DEFINE R == L - length
<1>0. /\ L \in Nat /\ length \in 1..L /\ R \in Nat /\ R = L - length
      /\ DOMAIN rows = 1..L /\ DOMAIN run = 1..length /\ DOMAIN rest = 1..R
      /\ \A i \in 1..length : run[i] = rows[i]
      /\ \A i \in 1..R : rest[i] = rows[length + i]
      BY DEF Splits
<1>   HIDE DEF R
<1>1. /\ \A i \in 1..length : i \in 1..L
      /\ \A i \in 1..R : length + i \in 1..L
      /\ \A i \in 1..L : i \in 1..length \/ (i - length \in 1..R /\ length + (i - length) = i)
      /\ \A i \in 1..length, j \in 1..R : i < length + j
      /\ \A i, j \in 1..R : i < j => length + i < length + j
      BY <1>0
<1>2. \A i \in 1..L : \/ \E j \in 1..length : rows[i] = run[j]
                      \/ \E j \in 1..R : rows[i] = rest[j]
      <2> TAKE i \in 1..L
      <2>1. CASE i - length \in 1..R /\ length + (i - length) = i
            <3>1. PICK j : j = i - length
                  OBVIOUS
            <3>2. j \in 1..R /\ length + j = i
                  BY <2>1, <3>1
            <3>3. \A k \in 1..R : rest[k] = rows[length + k]
                  BY <1>0
            <3>4. rest[j] = rows[length + j]
                  BY <3>2, <3>3
            <3> QED BY <3>2, <3>4
      <2> QED BY <1>0, <1>1, <2>1
<1>3. /\ \A i \in DOMAIN run : i \in DOMAIN rows /\ run[i] = rows[i]
      /\ \A i \in DOMAIN rest : \E j \in DOMAIN rows : rest[i] = rows[j]
      BY <1>0, <1>1
<1>4. Numbers(rows) = Numbers(run) \cup Numbers(rest)
      <2>1. \A n \in Numbers(rows) : n \in Numbers(run) \/ n \in Numbers(rest)
            <3>0. /\ Numbers(rows) = {rows[i].n : i \in 1..L}
                  /\ Numbers(run) = {run[i].n : i \in 1..length}
                  /\ Numbers(rest) = {rest[i].n : i \in 1..R}
                  BY <1>0 DEF Numbers
            <3> TAKE n \in Numbers(rows)
            <3>1. PICK i \in 1..L : n = rows[i].n
                  BY <3>0
            <3>2. CASE \E j \in 1..length : rows[i] = run[j]
                  BY <3>0, <3>1, <3>2
            <3>3. CASE \E j \in 1..R : rows[i] = rest[j]
                  BY <3>0, <3>1, <3>3
            <3> QED BY <1>2, <3>2, <3>3
      <2>2. \A n \in Numbers(run) : n \in Numbers(rows)
            BY <1>3 DEF Numbers
      <2>3. \A n \in Numbers(rest) : n \in Numbers(rows)
            BY <1>3 DEF Numbers
      <2> QED BY <2>1, <2>2, <2>3
<1>5. ASSUME Ascending(rows)
      PROVE  /\ Ascending(run) /\ Ascending(rest)
             /\ \A m \in Numbers(run), n \in Numbers(rest) : m < n
      <2>1. Ascending(run)
            BY <1>3, <1>5 DEF Ascending
      <2>2. Ascending(rest)
            <3> SUFFICES ASSUME NEW i \in 1..R, NEW j \in 1..R, i < j
                         PROVE  rest[i].n < rest[j].n
                BY <1>0 DEF Ascending
            <3>1. length + i \in DOMAIN rows /\ length + j \in DOMAIN rows
                  BY <1>0, <1>1
            <3>2. length + i < length + j
                  BY <1>0, <1>1
            <3>3. rows[length + i].n < rows[length + j].n
                  BY <1>5, <3>1, <3>2 DEF Ascending
            <3> QED BY <1>0, <3>3
      <2>3. ASSUME NEW i \in 1..length, NEW j \in 1..R PROVE run[i].n < rest[j].n
            <3>1. i \in DOMAIN rows /\ length + j \in DOMAIN rows /\ i < length + j
                  BY <1>0, <1>1
            <3>2. rows[i].n < rows[length + j].n
                  BY <1>5, <3>1 DEF Ascending
            <3> QED BY <1>0, <3>2
      <2>4. \A m \in Numbers(run), n \in Numbers(rest) : m < n
            BY <1>0, <2>3 DEF Numbers
      <2> QED BY <2>1, <2>2, <2>4
<1> QED BY <1>3, <1>4, <1>5 DEF Agree

\* The rows in hand are the next run, never empty, and the rest.
RunOf(rows)  == SubSeq(rows, 1, RunLength(rows))
RestOf(rows) == SubSeq(rows, RunLength(rows) + 1, Len(rows))

LEMMA SplitHand ==
    ASSUME NEW rows \in Seq(Row), rows # <<>>
    PROVE  /\ RunOf(rows) \in Seq(Row) /\ RestOf(rows) \in Seq(Row)
           /\ \A i \in DOMAIN RunOf(rows) : RunOf(rows)[i].action = RunOf(rows)[1].action
           /\ Agree(rows, RunOf(rows), RestOf(rows))
<1>1. PICK length : length = RunLength(rows)
      OBVIOUS
<1>2. PICK run : run = SubSeq(rows, 1, length)
      OBVIOUS
<1>3. PICK rest : rest = SubSeq(rows, length + 1, Len(rows))
      OBVIOUS
<1>4. RunOf(rows) = run /\ RestOf(rows) = rest
      BY <1>1, <1>2, <1>3 DEF RunOf, RestOf
<1>5. Len(rows) \in Nat /\ \A i \in 1..Len(rows) : rows[i] \in Row
      BY LenProperties, ElementOfSeq
<1>6. /\ length \in 1..Len(rows)
      /\ \A i \in 1..length : rows[i].action = rows[1].action
      BY <1>1, RunLengthIsRun
<1>7. /\ run \in Seq(Row)
      /\ Len(run) = length
      /\ \A i \in 1..length : run[i] = rows[i]
      <2>1. \A i \in 1..length : rows[i] \in Row
            BY <1>5, <1>6
      <2>2. 1 \in Int /\ length \in Int /\ 1 <= length
            BY <1>5, <1>6
      <2>3. /\ run \in Seq(Row)
            /\ Len(run) = IF 1 <= length THEN length - 1 + 1 ELSE 0
            /\ \A i \in 1..(length - 1 + 1) : run[i] = rows[1 + i - 1]
            BY <2>1, <2>2, <1>2, SubSeqProperties
      <2>4. length - 1 + 1 = length /\ \A i \in 1..length : 1 + i - 1 = i
            BY <2>2
      <2> QED BY <2>2, <2>3, <2>4
<1>8. /\ rest \in Seq(Row)
      /\ Len(rest) = Len(rows) - length
      /\ \A i \in 1..(Len(rows) - length) : rest[i] = rows[length + i]
      <2> DEFINE L == Len(rows)
      <2>1. \A i \in (length + 1)..L : rows[i] \in Row
            BY <1>5, <1>6
      <2>2. length + 1 \in Int /\ L \in Int /\ length \in Int /\ length <= L
            BY <1>5, <1>6
      <2>3. /\ rest \in Seq(Row)
            /\ Len(rest) = IF length + 1 <= L THEN L - (length + 1) + 1 ELSE 0
            /\ \A i \in 1..(L - (length + 1) + 1) : rest[i] = rows[length + 1 + i - 1]
            BY <2>1, <2>2, <1>3, SubSeqProperties
      <2>   HIDE DEF L
      <2>4. /\ L - (length + 1) + 1 = L - length
            /\ \A i \in 1..(L - length) : length + 1 + i - 1 = length + i
            /\ ~(length + 1 <= L) => L - length = 0
            BY <2>2
      <2> QED BY <2>3, <2>4 DEF L
<1>9. \A i \in 1..length : run[i].action = run[1].action
      BY <1>5, <1>6, <1>7
<1>10. /\ DOMAIN rows = 1..Len(rows) /\ DOMAIN run = 1..length
      /\ Len(rest) \in Nat /\ DOMAIN rest = 1..Len(rest)
      BY <1>7, <1>8, LenProperties
<1>11. Agree(rows, run, rest)
      <2>1. Splits(rows, Len(rows), run, length, rest)
            BY <1>5, <1>6, <1>7, <1>8, <1>10 DEF Splits
      <2> QED BY <2>1, NumbersOfPieces
<1> QED BY <1>7, <1>8, <1>9, <1>10, <1>11, <1>4

\* Under each key the table keeps its row, or shows the last row of the run.
LEMMA AppliedIs ==
    ASSUME NEW run \in Seq(Row), NEW k \in Keys
    PROVE  \/ /\ \A i \in DOMAIN run : run[i].key # k
              /\ Applied(run)[k] = table[k]
           \/ \E i \in DOMAIN run :
                 /\ run[i].key = k
                 /\ \A j \in DOMAIN run : run[j].key = k => j <= i
                 /\ Applied(run)[k] = IF run[1].action = "DELETE" THEN 0 ELSE run[i].n
<1> DEFINE ofKey == {i \in DOMAIN run : run[i].key = k}
<1>1. Applied(run)[k] = IF ofKey = {} THEN table[k]
                        ELSE IF run[1].action = "DELETE" THEN 0
                        ELSE run[CHOOSE i \in ofKey : \A j \in ofKey : j <= i].n
      BY DEF Applied
<1>2. CASE ofKey = {}
      BY <1>1, <1>2
<1>3. CASE ofKey # {}
      <2>1. Len(run) \in Nat /\ DOMAIN run = 1..Len(run)
            BY LenProperties
      <2>2. ofKey \subseteq Nat /\ \A i \in ofKey : i <= Len(run)
            BY <2>1
      <2>3. \E i \in ofKey : \A j \in ofKey : j <= i
            <3> HIDE DEF ofKey
            <3> QED BY <1>3, <2>1, <2>2, GreatestElement
      <2> DEFINE last == CHOOSE i \in ofKey : \A j \in ofKey : j <= i
      <2>4. last \in ofKey /\ \A j \in ofKey : j <= last
            BY <2>3
      <2>5. Applied(run)[k] = IF run[1].action = "DELETE" THEN 0 ELSE run[last].n
            BY <1>1, <1>3
      <2>6. last \in DOMAIN run /\ run[last].key = k
            BY <2>4
      <2>7. \A j \in DOMAIN run : run[j].key = k => j <= last
            BY <2>4
      <2>   HIDE DEF last
      <2> QED BY <2>5, <2>6, <2>7
<1> QED BY <1>2, <1>3

\* The members of a sequence of rows are rows.
LEMMA MembersAreRows ==
    ASSUME NEW rows \in Seq(Row)
    PROVE  /\ Len(rows) \in Nat /\ DOMAIN rows = 1..Len(rows)
           /\ \A i \in DOMAIN rows : /\ rows[i] \in Row
                                     /\ rows[i].n \in 1..MaxRows
                                     /\ rows[i].key \in Keys
                                     /\ rows[i].action \in {"UPSERT", "DELETE"}
<1>1. Len(rows) \in Nat /\ DOMAIN rows = 1..Len(rows)
      BY LenProperties
<1>2. \A i \in 1..Len(rows) : rows[i] \in Row
      BY ElementOfSeq
<1>3. \A row \in Row : /\ row.n \in 1..MaxRows
                       /\ row.key \in Keys /\ row.action \in {"UPSERT", "DELETE"}
      BY DEF Row
<1> QED BY <1>1, <1>2, <1>3

\* A run leaves the table a table.
LEMMA AppliedIsTable ==
    ASSUME BatcherAssumption, table \in [Keys -> 0..MaxRows], NEW run \in Seq(Row)
    PROVE  Applied(run) \in [Keys -> 0..MaxRows]
<1>1. \A k \in Keys : Applied(run)[k] \in 0..MaxRows
      <2> TAKE k \in Keys
      <2>1. \A i \in DOMAIN run : run[i].n \in 0..MaxRows
            BY MembersAreRows, BatcherAssumption DEF BatcherAssumption
      <2>2. CASE Applied(run)[k] = table[k]
            BY <2>2
      <2>3. CASE \E i \in DOMAIN run :
                    Applied(run)[k] = IF run[1].action = "DELETE" THEN 0 ELSE run[i].n
            BY <2>1, <2>3, BatcherAssumption DEF BatcherAssumption
      <2> QED BY <2>2, <2>3, AppliedIs
<1>2. Applied(run) = [k \in Keys |-> Applied(run)[k]]
      BY DEF Applied
<1> QED BY <1>1, <1>2

\* The numbers of rows, as a set.
LEMMA NumbersAreRows ==
    ASSUME NEW rows \in Seq(Row)
    PROVE  Numbers(rows) \in SUBSET (1..MaxRows)
BY MembersAreRows DEF Numbers

-----------------------------------------------------------------------------
\* Types

\* The groups of variables of TypeOK, each left alone by most actions.
BufferType  == /\ buffer \in Seq(Row) /\ replaying \in BOOLEAN
               /\ submitted \in 0..MaxRows /\ submittedAtLastTick \in 0..MaxRows
               /\ scheduler \in Timers \cup {None}
FlushType   == /\ doing \in [Threads -> {"idle", "flush", "publish"}]
               /\ hand \in [Threads -> Seq(Row)] /\ taken \in [Threads -> Nat]
               /\ published \in Nat
ServerType  == /\ table \in [Keys -> 0..MaxRows]
               /\ arrived \in SUBSET (1..MaxRows) /\ lost \in SUBSET (1..MaxRows)
HistoryType == /\ latest \in [Keys -> Row \cup {None}] /\ overlapped \in BOOLEAN
               /\ retired \in SUBSET Timers /\ faults \in 0..MaxFaults

\* TypeOK is its four groups.
LEMMA TypeGroups == TypeOK <=> BufferType /\ FlushType /\ ServerType /\ HistoryType
BY DEF TypeOK, BufferType, FlushType, ServerType, HistoryType

\* The types hold at the start, with nothing in hand.
LEMMA TInvInit == BatcherAssumption /\ Init => TInv
<1> SUFFICES ASSUME BatcherAssumption, Init PROVE TInv
    OBVIOUS
<1>1. BufferType
      <2>1. 0 \in 0..MaxRows
            BY DEF BatcherAssumption
      <2>2. <<>> \in Seq(Row)
            BY EmptySeq
      <2> QED BY <2>1, <2>2, Zenon DEF Init, BufferType
<1>2. FlushType /\ Held
      BY EmptySeq DEF Init, FlushType, Held
<1>3. ServerType
      BY DEF Init, ServerType, BatcherAssumption
<1>4. HistoryType
      <2>1. 0 \in 0..MaxFaults
            BY DEF BatcherAssumption
      <2>2. latest \in [Keys -> Row \cup {None}]
            BY DEF Init
      <2> QED BY <2>1, <2>2 DEF Init, HistoryType
<1> QED BY <1>1, <1>2, <1>3, <1>4, TypeGroups DEF TInv

\* A thread on its way to flush has nothing in hand.
LEMMA FlushesKeepsHeld ==
    ASSUME FlushType, Held, NEW t \in Threads, doing[t] = "idle", Flushes(t)
    PROVE  FlushType' /\ Held'
BY DEF FlushType, Held, Flushes

\* Every action keeps the types, and each thread's hand in step with what it does.
LEMMA TInvStep == BatcherAssumption /\ TInv /\ [Next]_vars => TInv'
<1> SUFFICES ASSUME BatcherAssumption, BufferType, FlushType, ServerType, HistoryType, Held,
                    [Next]_vars
             PROVE  BufferType' /\ FlushType' /\ ServerType' /\ HistoryType' /\ Held'
    BY DEF TInv, TypeOK, BufferType, FlushType, ServerType, HistoryType
<1> USE DEF bufferVars, flushVars, serverVars, historyVars
<1>1. ASSUME NEW t \in Threads, NEW key \in Keys, NEW action \in {"UPSERT", "DELETE"},
             Submit(t, key, action)
      PROVE  BufferType' /\ FlushType' /\ ServerType' /\ HistoryType' /\ Held'
      <2> DEFINE row == [n |-> submitted + 1, key |-> key, action |-> action]
      <2>1. submitted + 1 \in 1..MaxRows /\ submitted' = submitted + 1
            BY <1>1, BatcherAssumption DEF Submit, BufferType, BatcherAssumption
      <2>2. row \in Row
            BY <2>1 DEF Row
      <2>3. buffer' = Append(buffer, row) /\ latest' = [latest EXCEPT ![key] = row]
            BY <1>1 DEF Submit
      <2>   HIDE DEF row
      <2>4. buffer' \in Seq(Row)
            BY <2>2, <2>3, AppendProperties DEF BufferType
      <2>5. BufferType'
            BY <1>1, <2>1, <2>4 DEF Submit, BufferType
      <2>6. HistoryType'
            BY <1>1, <2>2, <2>3 DEF Submit, HistoryType
      <2>7. FlushType' /\ Held'
            <3>1. CASE Flushes(t)
                  BY <1>1, <3>1, FlushesKeepsHeld DEF Submit
            <3>2. CASE UNCHANGED flushVars
                  BY <3>2 DEF FlushType, Held
            <3> QED BY <1>1, <3>1, <3>2 DEF Submit
      <2>8. ServerType'
            BY <1>1 DEF Submit, ServerType
      <2> QED BY <2>5, <2>6, <2>7, <2>8
<1>2. ASSUME NEW t \in Threads, BeginReplay(t)
      PROVE  BufferType' /\ FlushType' /\ ServerType' /\ HistoryType' /\ Held'
      BY <1>2 DEF BeginReplay, BufferType, FlushType, ServerType, HistoryType, Held
<1>3. ASSUME NEW t \in Threads, EndReplay(t)
      PROVE  BufferType' /\ FlushType' /\ ServerType' /\ HistoryType' /\ Held'
      <2>1. BufferType' /\ ServerType' /\ HistoryType'
            BY <1>3 DEF EndReplay, BufferType, ServerType, HistoryType
      <2> QED BY <1>3, <2>1, FlushesKeepsHeld DEF EndReplay
<1>4. ASSUME NEW t \in Threads, FinalFlush(t)
      PROVE  BufferType' /\ FlushType' /\ ServerType' /\ HistoryType' /\ Held'
      <2>1. BufferType' /\ ServerType' /\ HistoryType'
            BY <1>4 DEF FinalFlush, BufferType, ServerType, HistoryType
      <2> QED BY <1>4, <2>1, FlushesKeepsHeld DEF FinalFlush
<1>5. ASSUME NEW t \in Threads, Tick(t)
      PROVE  BufferType' /\ FlushType' /\ ServerType' /\ HistoryType' /\ Held'
      <2>1. BufferType' /\ ServerType' /\ HistoryType'
            BY <1>5 DEF Tick, BufferType, ServerType, HistoryType
      <2>2. CASE Flushes(t)
            BY <1>5, <2>1, <2>2, FlushesKeepsHeld DEF Tick
      <2>3. CASE UNCHANGED flushVars
            BY <2>1, <2>3 DEF FlushType, Held
      <2> QED BY <1>5, <2>2, <2>3 DEF Tick
<1>6. ASSUME NEW t \in Threads, Take(t)
      PROVE  BufferType' /\ FlushType' /\ ServerType' /\ HistoryType' /\ Held'
      <2>1. Len(buffer) \in Nat
            BY LenProperties DEF BufferType
      <2>2. FlushType' /\ Held'
            BY <1>6, <2>1 DEF Take, FlushType, BufferType, Held
      <2>3. BufferType'
            BY <1>6, EmptySeq DEF Take, BufferType
      <2>4. overlapped' \in BOOLEAN
            BY <1>6 DEF Take, HistoryType
      <2>5. ServerType' /\ HistoryType'
            BY <1>6, <2>4 DEF Take, ServerType, HistoryType
      <2> QED BY <2>2, <2>3, <2>5
<1>7. ASSUME NEW t \in Threads, TakeNothing(t)
      PROVE  BufferType' /\ FlushType' /\ ServerType' /\ HistoryType' /\ Held'
      BY <1>7 DEF TakeNothing, BufferType, FlushType, ServerType, HistoryType, Held
<1>8. ASSUME NEW t \in Threads, PublishRun(t)
      PROVE  BufferType' /\ FlushType' /\ ServerType' /\ HistoryType' /\ Held'
      <2>0. hand[t] \in Seq(Row) /\ hand[t] # <<>>
            BY <1>8 DEF PublishRun, FlushType, Held
      <2>   DEFINE length == RunLength(hand[t])
                   run    == SubSeq(hand[t], 1, length)
                   rest   == SubSeq(hand[t], length + 1, Len(hand[t]))
      <2>1. run \in Seq(Row) /\ rest \in Seq(Row)
            BY <2>0, SplitHand DEF RunOf, RestOf
      <2>2. /\ table' = Applied(run)
            /\ arrived' = arrived \cup Numbers(run)
            /\ hand' = [hand EXCEPT ![t] = rest]
            /\ \/ /\ rest = <<>>
                  /\ doing' = [doing EXCEPT ![t] = "idle"]
                  /\ published' = published + taken[t]
                  /\ taken' = [taken EXCEPT ![t] = 0]
               \/ rest # <<>> /\ UNCHANGED <<doing, taken, published>>
            /\ doing[t] = "publish"
            /\ UNCHANGED <<bufferVars, lost, historyVars>>
            BY <1>8 DEF PublishRun
      <2>   HIDE DEF run, rest
      <2>3. ServerType'
            BY <2>1, <2>2, AppliedIsTable, NumbersAreRows DEF ServerType
      <2>4. FlushType' /\ Held'
            <3>1. hand' \in [Threads -> Seq(Row)]
                  BY <2>1, <2>2 DEF FlushType
            <3>2. CASE rest = <<>> /\ doing' = [doing EXCEPT ![t] = "idle"]
                  <4>1. doing' \in [Threads -> {"idle", "flush", "publish"}]
                        BY <2>2, <3>2 DEF FlushType
                  <4>2. Held'
                        <5> SUFFICES ASSUME NEW u \in Threads
                                     PROVE  doing'[u] = "publish" <=> hand'[u] # <<>>
                            BY DEF Held
                        <5>1. CASE u = t
                              BY <5>1, <2>2, <3>2 DEF FlushType
                        <5>2. CASE u # t
                              BY <5>2, <2>2, <3>2 DEF FlushType, Held
                        <5> QED BY <5>1, <5>2
                  <4>3. published' \in Nat /\ taken' \in [Threads -> Nat]
                        <5>1. published' = published + taken[t] /\ taken' = [taken EXCEPT ![t] = 0]
                              BY <2>2, <3>2
                        <5>2. taken[t] \in Nat /\ published \in Nat
                              BY DEF FlushType
                        <5> QED BY <5>1, <5>2 DEF FlushType
                  <4> QED BY <3>1, <4>1, <4>2, <4>3 DEF FlushType
            <3>3. CASE rest # <<>> /\ UNCHANGED <<doing, taken, published>>
                  <4>1. Held'
                        BY <2>2, <3>3 DEF FlushType, Held
                  <4> QED BY <3>1, <3>3, <4>1 DEF FlushType
            <3> QED BY <2>2, <3>2, <3>3
      <2>5. BufferType' /\ HistoryType'
            BY <2>2 DEF BufferType, HistoryType
      <2> QED BY <2>3, <2>4, <2>5
<1>9. ASSUME NEW t \in Threads, PublishFails(t)
      PROVE  BufferType' /\ FlushType' /\ ServerType' /\ HistoryType' /\ Held'
      <2>1. hand[t] \in Seq(Row) /\ hand[t] # <<>>
            BY <1>9 DEF PublishFails, GiveUp, FlushType, Held
      <2>2. SubSeq(hand[t], 1, RunLength(hand[t])) \in Seq(Row)
            BY <2>1, SplitHand DEF RunOf, RestOf
      <2>3. table' \in [Keys -> 0..MaxRows]
            BY <1>9, <2>2, AppliedIsTable DEF PublishFails, GiveUp, ServerType
      <2>4. ServerType'
            BY <1>9, <2>1, <2>3, NumbersAreRows DEF PublishFails, GiveUp, ServerType
      <2>5. FlushType' /\ Held'
            BY <1>9, EmptySeq DEF PublishFails, GiveUp, FlushType, Held
      <2>6. faults' \in 0..MaxFaults
            BY <1>9, BatcherAssumption DEF PublishFails, GiveUp, HistoryType, BatcherAssumption
      <2>7. BufferType' /\ HistoryType'
            BY <1>9, <2>6 DEF PublishFails, GiveUp, BufferType, HistoryType
      <2> QED BY <2>4, <2>5, <2>7
<1>10. ASSUME NEW t \in Threads, Start(t)
       PROVE  BufferType' /\ FlushType' /\ ServerType' /\ HistoryType' /\ Held'
       BY <1>10 DEF Start, BufferType, FlushType, ServerType, HistoryType, Held
<1>11. ASSUME NEW t \in Threads, Discard(t)
       PROVE  BufferType' /\ FlushType' /\ ServerType' /\ HistoryType' /\ Held'
       <2>1. BufferType'
             BY <1>11, EmptySeq DEF Discard, BufferType
       <2>2. Numbers(buffer) \in SUBSET (1..MaxRows)
             BY NumbersAreRows DEF BufferType
       <2>3. ServerType'
             BY <1>11, <2>2 DEF Discard, ServerType
       <2> QED BY <1>11, <2>1, <2>3 DEF Discard, FlushType, HistoryType, Held
<1>12. ASSUME NEW t \in Threads, Close(t)
       PROVE  BufferType' /\ FlushType' /\ ServerType' /\ HistoryType' /\ Held'
       <2>1. retired' \in SUBSET Timers
             BY <1>12 DEF Close, BufferType, HistoryType
       <2> QED BY <1>12, <2>1 DEF Close, BufferType, FlushType, ServerType, HistoryType, Held
<1>13. CASE UNCHANGED vars
       BY <1>13 DEF vars, BufferType, FlushType, ServerType, HistoryType, Held
<1> QED BY <1>1, <1>2, <1>3, <1>4, <1>5, <1>6, <1>7, <1>8, <1>9, <1>10, <1>11, <1>12, <1>13
        DEF Next, Submits, Threads

\* Every variable of the batcher keeps its type, for any number of threads.
THEOREM BatcherTypes == ASSUME BatcherAssumption PROVE Spec => []TypeOK
<1>1. Init => TInv
      BY TInvInit, BatcherAssumption
<1>2. TInv /\ [Next]_vars => TInv'
      BY TInvStep, BatcherAssumption
<1>3. TInv => TypeOK
      BY DEF TInv
<1> QED BY <1>1, <1>2, <1>3, PTL DEF Spec

-----------------------------------------------------------------------------
\* A full batch is being flushed

\* A full batch never just sits there: the thread that filled it, or that
\* lowered the limit, is on its way to flush it.
THEOREM BatcherFullIsFlushed == ASSUME BatcherAssumption PROVE Spec => []FullIsFlushed
<1>1. Init => FullIsFlushed
      BY BatcherAssumption DEF Init, FullIsFlushed, BatchLimit, BatcherAssumption
<1>2. TInv /\ FullIsFlushed /\ [Next]_vars => FullIsFlushed'
      <2> SUFFICES ASSUME TInv, FullIsFlushed, [Next]_vars PROVE FullIsFlushed'
          OBVIOUS
      <2> USE DEF bufferVars, flushVars, serverVars, historyVars
      <2>0. /\ doing \in [Threads -> {"idle", "flush", "publish"}]
            /\ Len(buffer) \in Nat /\ MaxBatchRows \in Nat /\ ReplayBatchRows \in Nat
            /\ 0 < MaxBatchRows /\ MaxBatchRows <= ReplayBatchRows
            /\ replaying \in BOOLEAN
            BY LenProperties, BatcherAssumption DEF TInv, TypeOK, BatcherAssumption
      <2>1. ASSUME NEW t \in Threads, Flushes(t) PROVE FullIsFlushed'
            BY <2>0, <2>1 DEF Flushes, FullIsFlushed
      <2>2. ASSUME NEW t \in Threads, doing[t] # "flush", doing'[t] # "flush",
                   \A u \in Threads : u # t => doing'[u] = doing[u],
                   UNCHANGED <<buffer, replaying>>
            PROVE  FullIsFlushed'
            BY <2>2 DEF FullIsFlushed, BatchLimit
      <2>3. ASSUME NEW t \in Threads, NEW key \in Keys, NEW action \in {"UPSERT", "DELETE"},
                   Submit(t, key, action)
            PROVE  FullIsFlushed'
            <3>1. CASE Len(buffer') < BatchLimit /\ UNCHANGED flushVars
                  BY <2>3, <3>1 DEF Submit, FullIsFlushed, BatchLimit
            <3> QED BY <2>1, <2>3, <3>1 DEF Submit
      <2>4. ASSUME NEW t \in Threads, BeginReplay(t) PROVE FullIsFlushed'
            <3>1. UNCHANGED <<buffer, doing>> /\ BatchLimit <= BatchLimit'
                  BY <2>0, <2>4 DEF BeginReplay, BatchLimit
            <3>2. BatchLimit \in Nat /\ BatchLimit' \in Nat
                  BY <2>0 DEF BatchLimit
            <3>   HIDE DEF BatchLimit
            <3> QED BY <2>0, <3>1, <3>2 DEF FullIsFlushed
      <2>5. ASSUME NEW t \in Threads, EndReplay(t) \/ FinalFlush(t) PROVE FullIsFlushed'
            BY <2>1, <2>5 DEF EndReplay, FinalFlush
      <2>6. ASSUME NEW t \in Threads, Tick(t) PROVE FullIsFlushed'
            <3>1. CASE UNCHANGED flushVars
                  BY <2>6, <3>1 DEF Tick, FullIsFlushed, BatchLimit
            <3> QED BY <2>1, <2>6, <3>1 DEF Tick
      <2>7. ASSUME buffer' = <<>> PROVE FullIsFlushed'
            <3>1. Len(buffer') = 0 /\ 0 < BatchLimit'
                  BY <2>0, <2>7 DEF BatchLimit
            <3> QED BY <3>1 DEF FullIsFlushed
      <2>8. ASSUME NEW t \in Threads, Take(t) \/ TakeNothing(t) \/ Discard(t)
            PROVE  FullIsFlushed'
            BY <2>7, <2>8 DEF Take, TakeNothing, Discard
      <2>9. ASSUME NEW t \in Threads, PublishRun(t) PROVE FullIsFlushed'
            <3>1. /\ doing[t] = "publish"
                  /\ doing' = [doing EXCEPT ![t] = "idle"] \/ UNCHANGED doing
                  /\ UNCHANGED <<buffer, replaying>>
                  BY <2>9 DEF PublishRun
            <3> QED BY <2>0, <2>2, <3>1
      <2>10. ASSUME NEW t \in Threads, PublishFails(t) PROVE FullIsFlushed'
             <3>1. /\ doing[t] = "publish" /\ doing' = [doing EXCEPT ![t] = "idle"]
                   /\ UNCHANGED <<buffer, replaying>>
                   BY <2>10 DEF PublishFails, GiveUp
             <3> QED BY <2>0, <2>2, <3>1
      <2>11. ASSUME NEW t \in Threads, Start(t) \/ Close(t) PROVE FullIsFlushed'
             BY <2>11 DEF Start, Close, FullIsFlushed, BatchLimit
      <2>12. CASE UNCHANGED vars
             BY <2>12 DEF vars, FullIsFlushed, BatchLimit
      <2> QED BY <2>3, <2>4, <2>5, <2>6, <2>8, <2>9, <2>10, <2>11, <2>12
              DEF Next, Submits, Threads
<1>3. Init => TInv
      BY TInvInit, BatcherAssumption
<1>4. TInv /\ [Next]_vars => TInv'
      BY TInvStep, BatcherAssumption
<1> QED BY <1>1, <1>2, <1>3, <1>4, PTL DEF Spec

-----------------------------------------------------------------------------
\* Where the numbers of a sequence go

\* No rows, no numbers.
LEMMA NumbersOfNone == Numbers(<<>>) = {} /\ Ascending(<<>>)
BY EmptySeq DEF Numbers, Ascending

\* A number belongs to a row.
LEMMA NumberHasRow ==
    ASSUME NEW rows, NEW n \in Numbers(rows)
    PROVE  \E i \in DOMAIN rows : rows[i].n = n
BY DEF Numbers

\* One row more, with its number.
Extends(longer, rows, row) ==
    /\ longer \in Seq(Row) /\ Len(longer) = Len(rows) + 1
    /\ \A i \in DOMAIN longer : (i \in DOMAIN rows /\ longer[i] = rows[i]) \/ longer[i] = row
    /\ Numbers(longer) = Numbers(rows) \cup {row.n}
    /\ Ascending(rows) /\ (\A n \in Numbers(rows) : n < row.n) => Ascending(longer)

\* A submitted row adds its number, and stays behind the rows before it.
LEMMA NumbersOfAppend ==
    ASSUME NEW rows \in Seq(Row), NEW row \in Row
    PROVE  Extends(Append(rows, row), rows, row)
<1> DEFINE longer == Append(rows, row)
<1>1. /\ longer \in Seq(Row) /\ Len(longer) = Len(rows) + 1
      /\ \A i \in 1..Len(rows) : longer[i] = rows[i]
      /\ longer[Len(rows) + 1] = row
      BY AppendProperties
<1> HIDE DEF longer
<1>2. /\ Len(rows) \in Nat /\ DOMAIN rows = 1..Len(rows) /\ DOMAIN longer = 1..Len(longer)
      BY <1>1, MembersAreRows
<1> DEFINE L == Len(rows)
<1>3. L \in Nat => 1..(L + 1) = 1..L \cup {L + 1}
      <2> HIDE DEF L
      <2> QED OBVIOUS
<1>4. DOMAIN longer = DOMAIN rows \cup {Len(rows) + 1}
      BY <1>1, <1>2, <1>3
<1>5. Numbers(longer) = Numbers(rows) \cup {row.n}
      <2>1. \A i \in DOMAIN rows : longer[i].n = rows[i].n
            BY <1>1, <1>2
      <2>2. longer[L + 1].n = row.n
            BY <1>1
      <2> HIDE DEF L
      <2>3. DOMAIN longer = DOMAIN rows \cup {L + 1}
            BY <1>4 DEF L
      <2> QED BY <2>1, <2>2, <2>3 DEF Numbers
<1>6. ASSUME Ascending(rows), \A n \in Numbers(rows) : n < row.n
      PROVE  Ascending(longer)
      <2> SUFFICES ASSUME NEW i \in DOMAIN longer, NEW j \in DOMAIN longer, i < j
                   PROVE  longer[i].n < longer[j].n
          BY DEF Ascending
      <2>1. i \in DOMAIN rows
            <3> HIDE DEF L
            <3>1. L \in Nat /\ i \in 1..(L + 1) /\ j \in 1..(L + 1) /\ DOMAIN rows = 1..L
                  BY <1>1, <1>2 DEF L
            <3> QED BY <3>1
      <2>2. longer[i] = rows[i] /\ rows[i].n \in Numbers(rows)
            BY <1>1, <1>2, <2>1 DEF Numbers
      <2>3. CASE j \in DOMAIN rows
            BY <1>1, <1>2, <1>6, <2>1, <2>2, <2>3 DEF Ascending
      <2>4. CASE j = Len(rows) + 1
            BY <1>1, <1>6, <2>2, <2>4
      <2> QED BY <1>4, <2>3, <2>4
<1>7. \A i \in DOMAIN longer : (i \in DOMAIN rows /\ longer[i] = rows[i]) \/ longer[i] = row
      BY <1>1, <1>2, <1>4
<1>8. Extends(longer, rows, row)
      BY <1>1, <1>5, <1>6, <1>7 DEF Extends
<1> QED BY <1>8 DEF longer

-----------------------------------------------------------------------------
\* Every row is in one place

\* Number by number, every row is in one place.
LEMMA PlacedIsAccounted == Placed => RowsAccounted
<1> SUFFICES ASSUME Placed PROVE RowsAccounted
    OBVIOUS
<1> DEFINE H == UNION {Numbers(hand[t]) : t \in Threads}
           B == Numbers(buffer)
<1>1. \A n : (\E t \in Threads : n \in Numbers(hand[t])) <=> n \in H
      OBVIOUS
<1>2. \A n : n \in 1..submitted <=> n \in B \cup arrived \cup lost \/ n \in H
      BY <1>1 DEF Placed
<1>3. 1..submitted = B \cup H \cup arrived \cup lost
      <2> DEFINE S == 1..submitted
      <2>1. \A n : n \in S <=> n \in B \cup arrived \cup lost \/ n \in H
            BY <1>2
      <2> HIDE DEF H, B, S
      <2>2. S = B \cup H \cup arrived \cup lost
            BY <2>1
      <2> QED BY <2>2 DEF S
<1>4. /\ \A t \in Threads : Numbers(hand[t]) \cap (B \cup arrived \cup lost) = {}
      /\ \A t, u \in Threads : t # u => Numbers(hand[t]) \cap Numbers(hand[u]) = {}
      /\ arrived \cap lost = {} /\ B \cap (arrived \cup lost) = {}
      BY DEF Placed
<1> HIDE DEF Numbers
<1> QED BY <1>3, <1>4, Zenon DEF RowsAccounted

\* No rows, none of them misplaced.
LEMMA AInvInit == BatcherAssumption /\ Init => AInv
<1> SUFFICES ASSUME BatcherAssumption, Init PROVE AInv
    OBVIOUS
<1>1. /\ buffer = <<>> /\ \A t \in Threads : hand[t] = <<>>
      /\ submitted = 0 /\ arrived = {} /\ lost = {}
      BY DEF Init
<1>2. 1..submitted = {}
      BY <1>1
<1>3. Placed
      BY <1>1, <1>2, NumbersOfNone DEF Placed
<1>4. InSubmissionOrder
      BY <1>1, NumbersOfNone DEF InSubmissionOrder
<1> QED BY <1>3, <1>4, TInvInit DEF AInv

\* A step that moves no row misplaces none.
LEMMA AccountedUnmoved ==
    ASSUME Placed, InSubmissionOrder, UNCHANGED <<buffer, submitted, hand, arrived, lost>>
    PROVE  Placed' /\ InSubmissionOrder'
BY DEF Placed, InSubmissionOrder

\* A submitted row is in the buffer, behind all others.
LEMMA SubmitAccounts ==
    ASSUME BatcherAssumption, AInv, NEW t \in Threads, NEW key \in Keys,
           NEW action \in {"UPSERT", "DELETE"}, Submit(t, key, action)
    PROVE  /\ Placed' /\ InSubmissionOrder'
           /\ \E row \in Row : /\ row.n = submitted + 1 /\ row.key = key
                               /\ buffer' = Append(buffer, row)
                               /\ latest' = [latest EXCEPT ![key] = row]
<1> USE DEF flushVars, serverVars
<1>1. /\ buffer \in Seq(Row) /\ submitted \in 0..MaxRows /\ submitted < MaxRows
      /\ submitted' = submitted + 1 /\ MaxRows \in Nat
      BY BatcherAssumption DEF AInv, TInv, TypeOK, Submit, BatcherAssumption
<1>2. PICK row \in Row : /\ row.n = submitted + 1 /\ row.key = key
                         /\ buffer' = Append(buffer, row)
                         /\ latest' = [latest EXCEPT ![key] = row]
      <2> DEFINE new == [n |-> submitted + 1, key |-> key, action |-> action]
      <2>1. submitted + 1 \in 1..MaxRows
            BY <1>1
      <2>2. new \in Row /\ new.n = submitted + 1 /\ new.key = key
            BY <2>1 DEF Row
      <2>3. buffer' = Append(buffer, new) /\ latest' = [latest EXCEPT ![key] = new]
            BY DEF Submit
      <2> HIDE DEF new
      <2> QED BY <2>2, <2>3
<1>3. UNCHANGED <<hand, arrived, lost>>
      BY DEF Submit, Flushes
<1>4. /\ submitted \in Nat /\ \A n \in Numbers(buffer) : n < row.n
      /\ \A n : n \in 1..submitted' <=> n \in 1..submitted \/ n = row.n
      /\ row.n \notin 1..submitted
      <2>1. \A n \in Numbers(buffer) : n \in 1..submitted
            BY DEF AInv, Placed
      <2>2. submitted \in Nat /\ row.n = submitted + 1 /\ submitted' = submitted + 1
            BY <1>1, <1>2
      <2>3. \A n : n \in 1..(submitted + 1) <=> n \in 1..submitted \/ n = submitted + 1
            BY <2>2
      <2>4. \A n \in 1..submitted : n < submitted + 1
            BY <2>2
      <2>5. submitted + 1 \notin 1..submitted
            BY <2>2
      <2>6. \A n \in Numbers(buffer) : n < row.n
            BY <2>1, <2>2, <2>4
      <2>7. \A n : n \in 1..submitted' <=> n \in 1..submitted \/ n = row.n
            BY <2>2, <2>3, Zenon
      <2>8. row.n \notin 1..submitted
            BY <2>2, <2>5, Zenon
      <2> QED BY <2>2, <2>6, <2>7, <2>8
<1>5. /\ Numbers(buffer') = Numbers(buffer) \cup {row.n}
      /\ Ascending(buffer) => Ascending(buffer')
      <2>1. buffer \in Seq(Row) /\ buffer' = Append(buffer, row)
            BY <1>1, <1>2
      <2>2. Extends(Append(buffer, row), buffer, row)
            BY <2>1, NumbersOfAppend
      <2>3. Extends(buffer', buffer, row)
            BY <2>1, <2>2
      <2> QED BY <1>4, <2>3 DEF Extends
<1>6. InSubmissionOrder'
      BY <1>3, <1>5 DEF AInv, InSubmissionOrder
<1>7. Placed'
      <2> DEFINE B == Numbers(buffer)
      <2>1. Placed
            BY DEF AInv
      <2>2. \A u \in Threads : Numbers(hand'[u]) = Numbers(hand[u])
            BY <1>3
      <2>3. \A n : n \in 1..submitted' <=> \/ n \in Numbers(buffer') \cup arrived' \cup lost'
                                           \/ \E u \in Threads : n \in Numbers(hand'[u])
            <3> HIDE DEF B
            <3>1. \A n : n \in 1..submitted <=> \/ n \in B \cup arrived \cup lost
                                               \/ \E u \in Threads : n \in Numbers(hand[u])
                  BY <2>1 DEF B, Placed
            <3>2. Numbers(buffer') = B \cup {row.n}
                  BY <1>5 DEF B
            <3>3. \A n : (\E u \in Threads : n \in Numbers(hand'[u]))
                         <=> \E u \in Threads : n \in Numbers(hand[u])
                  BY <2>2
            <3> QED BY <1>3, <1>4, <3>1, <3>2, <3>3
      <2>4. /\ row.n \notin arrived /\ row.n \notin lost /\ row.n \notin B
            /\ \A u \in Threads : row.n \notin Numbers(hand[u])
            BY <1>4, <2>1 DEF Placed
      <2>5. /\ arrived \cap lost = {} /\ B \cap (arrived \cup lost) = {}
            /\ \A u \in Threads :
                  /\ Numbers(hand[u]) \cap (B \cup arrived \cup lost) = {}
                  /\ \A v \in Threads : u # v => Numbers(hand[u]) \cap Numbers(hand[v]) = {}
            BY <2>1 DEF Placed
      <2>6. Numbers(buffer') = B \cup {row.n}
            BY <1>5
      <2> HIDE DEF B
      <2>7. /\ arrived' \cap lost' = {} /\ Numbers(buffer') \cap (arrived' \cup lost') = {}
            /\ \A u \in Threads :
                  /\ Numbers(hand'[u]) \cap (Numbers(buffer') \cup arrived' \cup lost') = {}
                  /\ \A v \in Threads : u # v => Numbers(hand'[u]) \cap Numbers(hand'[v]) = {}
            BY <1>3, <2>2, <2>4, <2>5, <2>6
      <2> QED BY <2>3, <2>7 DEF Placed
<1> QED BY <1>2, <1>6, <1>7

\* The thread that takes the buffer had nothing in hand.
LEMMA TakeAccounts ==
    ASSUME AInv, NEW t \in Threads, Take(t)
    PROVE  Placed' /\ InSubmissionOrder'
<1> USE DEF bufferVars, serverVars, historyVars
<1> DEFINE B == Numbers(buffer)
           H(u) == Numbers(hand[u])
           BB == Numbers(buffer')
           HH(u) == Numbers(hand'[u])
<1>1. /\ hand[t] = <<>> /\ buffer' = <<>> /\ hand \in [Threads -> Seq(Row)]
      /\ hand' = [hand EXCEPT ![t] = buffer] /\ UNCHANGED <<submitted, arrived, lost>>
      BY DEF AInv, TInv, TypeOK, Held, Take
<1>2. /\ H(t) = {} /\ HH(t) = B /\ BB = {} /\ t \in Threads
      /\ \A u \in Threads : u # t => HH(u) = H(u)
      BY <1>1, NumbersOfNone
<1>3. UNCHANGED <<submitted, arrived, lost>>
      BY <1>1
<1>4. /\ \A n : n \in 1..submitted <=> \/ n \in B \cup arrived \cup lost
                                         \/ \E u \in Threads : n \in H(u)
      /\ arrived \cap lost = {} /\ B \cap (arrived \cup lost) = {}
      /\ \A u \in Threads :
            /\ H(u) \cap (B \cup arrived \cup lost) = {}
            /\ \A v \in Threads : u # v => H(u) \cap H(v) = {}
      BY DEF AInv, Placed
<1>5. Placed'
      <2> HIDE DEF B, H, BB, HH
      <2>1. \A n : \/ n \in B \cup arrived \cup lost
                   \/ \E u \in Threads : n \in H(u)
                   <=> \/ n \in BB \cup arrived' \cup lost'
                       \/ \E u \in Threads : n \in HH(u)
            BY <1>2, <1>3
      <2>2. \A n : n \in 1..submitted <=> \/ n \in BB \cup arrived' \cup lost'
                                          \/ \E u \in Threads : n \in HH(u)
            BY <1>4, <2>1
      <2>3. arrived' \cap lost' = {} /\ BB \cap (arrived' \cup lost') = {}
            BY <1>2, <1>3, <1>4
      <2>4. ASSUME NEW u \in Threads
            PROVE  /\ HH(u) \cap (BB \cup arrived' \cup lost') = {}
                   /\ \A v \in Threads : u # v => HH(u) \cap HH(v) = {}
            <3>1. CASE u = t
                  BY <1>2, <1>3, <1>4, <3>1
            <3>2. CASE u # t
                  BY <1>2, <1>3, <1>4, <3>2
            <3> QED BY <3>1, <3>2
      <2>5. \A n : n \in 1..submitted' <=> \/ n \in BB \cup arrived' \cup lost'
                                           \/ \E u \in Threads : n \in HH(u)
            BY <1>3, <2>2
      <2> QED BY <2>3, <2>4, <2>5, Zenon DEF Placed, BB, HH
<1>6. InSubmissionOrder'
      BY <1>1, NumbersOfNone DEF AInv, InSubmissionOrder
<1> QED BY <1>5, <1>6

\* The next run arrives, the rest stays in hand.
LEMMA PublishRunAccounts ==
    ASSUME AInv, NEW t \in Threads, PublishRun(t)
    PROVE  Placed' /\ InSubmissionOrder'
<1> USE DEF bufferVars, serverVars, historyVars
<1> DEFINE B == Numbers(buffer)
           H(u) == Numbers(hand[u])
           BB == Numbers(buffer')
           HH(u) == Numbers(hand'[u])
<1>1. /\ hand[t] \in Seq(Row) /\ hand[t] # <<>> /\ Ascending(hand[t])
      /\ hand \in [Threads -> Seq(Row)]
      BY DEF AInv, TInv, TypeOK, Held, PublishRun, InSubmissionOrder
<1> DEFINE length == RunLength(hand[t])
           run    == SubSeq(hand[t], 1, length)
           rest   == SubSeq(hand[t], length + 1, Len(hand[t]))
<1>8. Agree(hand[t], run, rest)
      BY <1>1, SplitHand DEF RunOf, RestOf
<1>9. /\ hand' = [hand EXCEPT ![t] = rest] /\ arrived' = arrived \cup Numbers(run)
      /\ UNCHANGED <<buffer, submitted, lost>>
      BY DEF PublishRun
<1> DEFINE X == Numbers(run)
<1> HIDE DEF run, rest, length
<1>7. /\ H(t) = X \cup HH(t) /\ X \cap HH(t) = {}
      <2>1. HH(t) = Numbers(rest) /\ hand'[t] = rest
            BY <1>1, <1>9
      <2>2. H(t) = X \cup Numbers(rest) /\ \A m \in X, n \in Numbers(rest) : m < n
            BY <1>1, <1>8 DEF Agree
      <2>3. \A m \in X : m \in Nat
            BY <1>1, <2>2, NumbersAreRows
      <2>4. \A m \in X : ~(m < m)
            BY <2>3
      <2> HIDE DEF X, H, HH
      <2> QED BY <2>1, <2>2, <2>4
<1>2. /\ BB = B /\ t \in Threads
      /\ \A u \in Threads : u # t => HH(u) = H(u)
      BY <1>1, <1>9
<1>3. arrived' = arrived \cup X /\ UNCHANGED <<submitted, lost>>
      BY <1>9
<1> HIDE DEF X
<1>4. /\ \A n : n \in 1..submitted <=> \/ n \in B \cup arrived \cup lost
                                         \/ \E u \in Threads : n \in H(u)
      /\ arrived \cap lost = {} /\ B \cap (arrived \cup lost) = {}
      /\ \A u \in Threads :
            /\ H(u) \cap (B \cup arrived \cup lost) = {}
            /\ \A v \in Threads : u # v => H(u) \cap H(v) = {}
      BY DEF AInv, Placed
<1>5. Placed'
      <2> HIDE DEF B, H, BB, HH
      <2>1. \A n : \/ n \in B \cup arrived \cup lost
                   \/ \E u \in Threads : n \in H(u)
                   <=> \/ n \in BB \cup arrived' \cup lost'
                       \/ \E u \in Threads : n \in HH(u)
            BY <1>2, <1>3, <1>7
      <2>2. \A n : n \in 1..submitted <=> \/ n \in BB \cup arrived' \cup lost'
                                          \/ \E u \in Threads : n \in HH(u)
            BY <1>4, <2>1
      <2>3. arrived' \cap lost' = {} /\ BB \cap (arrived' \cup lost') = {}
            BY <1>2, <1>3, <1>4, <1>7
      <2>4. ASSUME NEW u \in Threads
            PROVE  /\ HH(u) \cap (BB \cup arrived' \cup lost') = {}
                   /\ \A v \in Threads : u # v => HH(u) \cap HH(v) = {}
            <3>1. CASE u = t
                  BY <1>2, <1>3, <1>4, <3>1, <1>7
            <3>2. CASE u # t
                  BY <1>2, <1>3, <1>4, <3>2, <1>7
            <3> QED BY <3>1, <3>2
      <2>5. \A n : n \in 1..submitted' <=> \/ n \in BB \cup arrived' \cup lost'
                                           \/ \E u \in Threads : n \in HH(u)
            BY <1>3, <2>2
      <2> QED BY <2>3, <2>4, <2>5, Zenon DEF Placed, BB, HH
<1>6. InSubmissionOrder'
      <2>1. Ascending(rest) /\ hand'[t] = rest
            BY <1>1, <1>8, <1>9 DEF Agree
      <2> QED BY <1>1, <1>9, <2>1 DEF AInv, InSubmissionOrder
<1> QED BY <1>5, <1>6

\* The rows in hand are given up.
LEMMA PublishFailsAccounts ==
    ASSUME AInv, NEW t \in Threads, PublishFails(t)
    PROVE  Placed' /\ InSubmissionOrder'
<1> USE DEF bufferVars, serverVars, historyVars
<1> DEFINE B == Numbers(buffer)
           H(u) == Numbers(hand[u])
           BB == Numbers(buffer')
           HH(u) == Numbers(hand'[u])
<1>1. /\ hand \in [Threads -> Seq(Row)] /\ hand' = [hand EXCEPT ![t] = <<>>]
      /\ lost' = lost \cup H(t) /\ UNCHANGED <<buffer, submitted, arrived>>
      BY DEF AInv, TInv, TypeOK, PublishFails, GiveUp
<1>2. /\ HH(t) = {} /\ BB = B /\ t \in Threads
      /\ \A u \in Threads : u # t => HH(u) = H(u)
      BY <1>1, NumbersOfNone
<1>3. lost' = lost \cup H(t) /\ UNCHANGED <<submitted, arrived>>
      BY <1>1
<1>4. /\ \A n : n \in 1..submitted <=> \/ n \in B \cup arrived \cup lost
                                         \/ \E u \in Threads : n \in H(u)
      /\ arrived \cap lost = {} /\ B \cap (arrived \cup lost) = {}
      /\ \A u \in Threads :
            /\ H(u) \cap (B \cup arrived \cup lost) = {}
            /\ \A v \in Threads : u # v => H(u) \cap H(v) = {}
      BY DEF AInv, Placed
<1>5. Placed'
      <2> HIDE DEF B, H, BB, HH
      <2>1. \A n : \/ n \in B \cup arrived \cup lost
                   \/ \E u \in Threads : n \in H(u)
                   <=> \/ n \in BB \cup arrived' \cup lost'
                       \/ \E u \in Threads : n \in HH(u)
            BY <1>2, <1>3
      <2>2. \A n : n \in 1..submitted <=> \/ n \in BB \cup arrived' \cup lost'
                                          \/ \E u \in Threads : n \in HH(u)
            BY <1>4, <2>1
      <2>3. arrived' \cap lost' = {} /\ BB \cap (arrived' \cup lost') = {}
            BY <1>2, <1>3, <1>4
      <2>4. ASSUME NEW u \in Threads
            PROVE  /\ HH(u) \cap (BB \cup arrived' \cup lost') = {}
                   /\ \A v \in Threads : u # v => HH(u) \cap HH(v) = {}
            <3>1. CASE u = t
                  BY <1>2, <1>3, <1>4, <3>1
            <3>2. CASE u # t
                  BY <1>2, <1>3, <1>4, <3>2
            <3> QED BY <3>1, <3>2
      <2>5. \A n : n \in 1..submitted' <=> \/ n \in BB \cup arrived' \cup lost'
                                           \/ \E u \in Threads : n \in HH(u)
            BY <1>3, <2>2
      <2> QED BY <2>3, <2>4, <2>5, Zenon DEF Placed, BB, HH
<1>6. InSubmissionOrder'
      BY <1>1, NumbersOfNone DEF AInv, InSubmissionOrder
<1> QED BY <1>5, <1>6

\* The rows in the buffer are given up.
LEMMA DiscardAccounts ==
    ASSUME AInv, NEW t \in Threads, Discard(t)
    PROVE  Placed' /\ InSubmissionOrder'
<1> USE DEF bufferVars, serverVars, historyVars
<1> DEFINE B == Numbers(buffer)
           H(u) == Numbers(hand[u])
           BB == Numbers(buffer')
           HH(u) == Numbers(hand'[u])
<1>1. /\ buffer' = <<>> /\ lost' = lost \cup B /\ UNCHANGED <<hand, submitted, arrived>>
      BY DEF Discard, flushVars
<1>2. /\ BB = {} /\ t \in Threads /\ \A u \in Threads : HH(u) = H(u)
      BY <1>1, NumbersOfNone
<1>3. lost' = lost \cup B /\ UNCHANGED <<submitted, arrived>>
      BY <1>1
<1>4. /\ \A n : n \in 1..submitted <=> \/ n \in B \cup arrived \cup lost
                                         \/ \E u \in Threads : n \in H(u)
      /\ arrived \cap lost = {} /\ B \cap (arrived \cup lost) = {}
      /\ \A u \in Threads :
            /\ H(u) \cap (B \cup arrived \cup lost) = {}
            /\ \A v \in Threads : u # v => H(u) \cap H(v) = {}
      BY DEF AInv, Placed
<1>5. Placed'
      <2> HIDE DEF B, H, BB, HH
      <2>1. \A n : \/ n \in B \cup arrived \cup lost
                   \/ \E u \in Threads : n \in H(u)
                   <=> \/ n \in BB \cup arrived' \cup lost'
                       \/ \E u \in Threads : n \in HH(u)
            BY <1>2, <1>3
      <2>2. \A n : n \in 1..submitted <=> \/ n \in BB \cup arrived' \cup lost'
                                          \/ \E u \in Threads : n \in HH(u)
            BY <1>4, <2>1
      <2>3. arrived' \cap lost' = {} /\ BB \cap (arrived' \cup lost') = {}
            BY <1>2, <1>3, <1>4
      <2>4. ASSUME NEW u \in Threads
            PROVE  /\ HH(u) \cap (BB \cup arrived' \cup lost') = {}
                   /\ \A v \in Threads : u # v => HH(u) \cap HH(v) = {}
            <3>1. CASE u = t
                  BY <1>2, <1>3, <1>4, <3>1
            <3>2. CASE u # t
                  BY <1>2, <1>3, <1>4, <3>2
            <3> QED BY <3>1, <3>2
      <2>5. \A n : n \in 1..submitted' <=> \/ n \in BB \cup arrived' \cup lost'
                                           \/ \E u \in Threads : n \in HH(u)
            BY <1>3, <2>2
      <2> QED BY <2>3, <2>4, <2>5, Zenon DEF Placed, BB, HH
<1>6. InSubmissionOrder'
      BY <1>1, NumbersOfNone DEF AInv, InSubmissionOrder
<1> QED BY <1>5, <1>6

\* Every action keeps each row in one place and the rows in order.
LEMMA AInvStep == BatcherAssumption /\ AInv /\ [Next]_vars => AInv'
<1> SUFFICES ASSUME BatcherAssumption, AInv, [Next]_vars PROVE Placed' /\ InSubmissionOrder'
    BY TInvStep DEF AInv
<1> USE DEF bufferVars, flushVars, serverVars, historyVars
<1>1. ASSUME UNCHANGED <<buffer, submitted, hand, arrived, lost>>
      PROVE  Placed' /\ InSubmissionOrder'
      BY <1>1, AccountedUnmoved DEF AInv
<1>2. ASSUME NEW t \in Threads, Flushes(t) \/ UNCHANGED flushVars PROVE UNCHANGED hand
      BY <1>2 DEF Flushes
<1>3. ASSUME NEW t \in Threads, BeginReplay(t) \/ EndReplay(t) \/ FinalFlush(t)
      PROVE  Placed' /\ InSubmissionOrder'
      BY <1>1, <1>2, <1>3 DEF BeginReplay, EndReplay, FinalFlush
<1>4. ASSUME NEW t \in Threads, Tick(t) PROVE Placed' /\ InSubmissionOrder'
      BY <1>1, <1>2, <1>4 DEF Tick
<1>5. ASSUME NEW t \in Threads, TakeNothing(t) \/ Start(t) \/ Close(t)
      PROVE  Placed' /\ InSubmissionOrder'
      BY <1>1, <1>5 DEF TakeNothing, Start, Close
<1>6. CASE UNCHANGED vars
      BY <1>1, <1>6 DEF vars
<1> QED BY <1>3, <1>4, <1>5, <1>6, SubmitAccounts, TakeAccounts, PublishRunAccounts,
           PublishFailsAccounts, DiscardAccounts DEF Next, Submits, Threads

\* However flushes race, each submitted row is in exactly one place: waiting,
\* in one thread's hand, arrived or given up.
THEOREM BatcherAccounts == ASSUME BatcherAssumption PROVE Spec => []RowsAccounted
<1>1. Init => AInv
      BY AInvInit, BatcherAssumption
<1>2. AInv /\ [Next]_vars => AInv'
      BY AInvStep, BatcherAssumption
<1>3. AInv => RowsAccounted
      BY PlacedIsAccounted DEF AInv
<1> QED BY <1>1, <1>2, <1>3, PTL DEF Spec

-----------------------------------------------------------------------------
\* The order of the rows of a key

\* The rows in a hand or in the buffer are under way, and their numbers known.
LEMMA RowsAreUnderway ==
    ASSUME NEW t \in Threads
    PROVE  /\ \A i \in DOMAIN hand[t] : hand[t][i] \in RowsUnderway /\ hand[t][i].n \in InHand
           /\ Numbers(hand[t]) \subseteq InHand
BY DEF RowsUnderway, RowsOf, InHand, Numbers

\* A step that takes no row in and moves none out of sight keeps what is known
\* of the last rows.
LEMMA LatestKept ==
    ASSUME LatestIsLast, RowsUnderway' \subseteq RowsUnderway, UNCHANGED <<latest, submitted>>
    PROVE  LatestIsLast'
<1>1. \A k \in Keys : latest'[k] = latest[k] /\ 1..submitted' = 1..submitted
      OBVIOUS
<1> HIDE DEF RowsUnderway
<1> SUFFICES ASSUME NEW k \in Keys
             PROVE  IF latest[k] = None
                    THEN \A row \in RowsUnderway' : row.key # k
                    ELSE /\ latest[k].key = k /\ latest[k].n \in 1..submitted
                         /\ \A row \in RowsUnderway' :
                               /\ row.key = k => row.n <= latest[k].n
                               /\ row.n = latest[k].n => row = latest[k]
    BY <1>1 DEF LatestIsLast
<1> QED BY DEF LatestIsLast

\* What is under way afterwards was under way before.
LEMMA UnderwayShrinks ==
    ASSUME AInv, NEW t \in Threads,
           Take(t) \/ PublishRun(t) \/ PublishFails(t) \/ Discard(t)
    PROVE  /\ RowsUnderway' \subseteq RowsUnderway
           /\ InHand' \subseteq InHand \cup Numbers(buffer)
<1> USE DEF bufferVars, flushVars, serverVars, historyVars
<1>0. hand \in [Threads -> Seq(Row)] /\ \A u \in Threads : hand[u] \in Seq(Row)
      BY DEF AInv, TInv, TypeOK
<1>1. ASSUME NEW rows, RowsOf(rows) \subseteq RowsUnderway,
             Numbers(rows) \subseteq InHand \cup Numbers(buffer),
             hand' = [hand EXCEPT ![t] = rows],
             buffer' = <<>> \/ buffer' = buffer
      PROVE  /\ RowsUnderway' \subseteq RowsUnderway
             /\ InHand' \subseteq InHand \cup Numbers(buffer)
      <2>1. \A u \in Threads : /\ RowsOf(hand'[u]) \subseteq RowsUnderway
                               /\ Numbers(hand'[u]) \subseteq InHand \cup Numbers(buffer)
            <3> TAKE u \in Threads
            <3>1. CASE u = t
                  BY <1>0, <1>1, <3>1
            <3>2. CASE u # t
                  <4>1. hand'[u] = hand[u]
                        BY <1>0, <1>1, <3>2
                  <4> QED BY <4>1 DEF RowsUnderway, InHand
            <3> QED BY <3>1, <3>2
      <2>2. RowsOf(buffer') \subseteq RowsUnderway
            <3>1. CASE buffer' = <<>>
                  BY <3>1, EmptySeq DEF RowsOf
            <3>2. CASE buffer' = buffer
                  BY <3>2 DEF RowsUnderway
            <3> QED BY <1>1, <3>1, <3>2
      <2>3. RowsUnderway' \subseteq RowsUnderway
            <3> DEFINE U == RowsUnderway
            <3> HIDE DEF U
            <3>1. (\A u \in Threads : RowsOf(hand'[u]) \subseteq U) /\ RowsOf(buffer') \subseteq U
                  BY <2>1, <2>2 DEF U
            <3>2. RowsUnderway' \subseteq U
                  BY <3>1 DEF RowsUnderway
            <3> QED BY <3>2 DEF U
      <2>4. InHand' \subseteq InHand \cup Numbers(buffer)
            <3> DEFINE I == InHand \cup Numbers(buffer)
            <3> HIDE DEF I
            <3>1. \A u \in Threads : Numbers(hand'[u]) \subseteq I
                  BY <2>1 DEF I
            <3>2. InHand' \subseteq I
                  BY <3>1 DEF InHand
            <3> QED BY <3>2 DEF I
      <2> QED BY <2>3, <2>4
<1>2. CASE Take(t)
      <2>1. hand' = [hand EXCEPT ![t] = buffer] /\ buffer' = <<>>
            BY <1>2 DEF Take
      <2>2. RowsOf(buffer) \subseteq RowsUnderway
            BY DEF RowsUnderway
      <2> QED BY <1>1, <2>1, <2>2
<1>3. CASE PublishRun(t)
      <2> DEFINE length == RunLength(hand[t])
                 run    == SubSeq(hand[t], 1, length)
                 rest   == SubSeq(hand[t], length + 1, Len(hand[t]))
      <2>1. hand[t] \in Seq(Row) /\ hand[t] # <<>>
            BY <1>0, <1>3 DEF AInv, TInv, Held, PublishRun
      <2>2. Agree(hand[t], run, rest)
            BY <2>1, SplitHand DEF RunOf, RestOf
      <2>3. hand' = [hand EXCEPT ![t] = rest] /\ buffer' = buffer
            BY <1>3 DEF PublishRun
      <2> HIDE DEF run, rest
      <2>4. RowsOf(rest) \subseteq RowsUnderway
            <3>1. \A i \in DOMAIN rest : rest[i] \in RowsUnderway
                  BY <2>2, RowsAreUnderway DEF Agree
            <3> QED BY <3>1 DEF RowsOf
      <2>5. Numbers(rest) \subseteq InHand
            BY <2>2, RowsAreUnderway DEF Agree
      <2> QED BY <1>1, <2>3, <2>4, <2>5
<1>4. CASE PublishFails(t)
      <2>1. hand' = [hand EXCEPT ![t] = <<>>] /\ buffer' = buffer
            BY <1>4 DEF PublishFails, GiveUp
      <2>2. RowsOf(<<>>) = {} /\ Numbers(<<>>) = {}
            BY EmptySeq DEF RowsOf, Numbers
      <2> QED BY <1>1, <2>1, <2>2
<1>5. CASE Discard(t)
      <2>1. hand' = [hand EXCEPT ![t] = hand[t]] /\ buffer' = <<>>
            BY <1>0, <1>5 DEF Discard
      <2>2. RowsOf(hand[t]) \subseteq RowsUnderway /\ Numbers(hand[t]) \subseteq InHand
            BY DEF RowsUnderway, InHand
      <2> QED BY <1>1, <2>1, <2>2
<1> QED BY <1>2, <1>3, <1>4, <1>5

\* A step that moves no row and starts no publish keeps the order.
LEMMA OrderUnmoved ==
    ASSUME Ordered, UNCHANGED <<buffer, submitted, hand, arrived, latest, table, overlapped>>,
           \A u \in Threads : doing'[u] = "publish" => doing[u] = "publish"
    PROVE  Ordered'
<1>1. UNCHANGED <<RowsUnderway, InHand>> /\ Numbers(buffer') = Numbers(buffer)
      BY DEF RowsUnderway, InHand
<1>2. LatestIsLast'
      BY <1>1, LatestKept DEF Ordered
<1>3. BufferLast'
      BY <1>1 DEF Ordered, BufferLast
<1>4. OneFlush => OneFlush'
      BY DEF OneFlush
<1>5. ArrivedFirst => ArrivedFirst'
      BY <1>1 DEF ArrivedFirst
<1>6. LatestShown => LatestShown'
      BY DEF LatestShown
<1> QED BY <1>2, <1>3, <1>4, <1>5, <1>6 DEF Ordered

\* The number of a row under way or arrived was submitted.
LEMMA NumbersSubmitted ==
    ASSUME AInv
    PROVE  /\ arrived \subseteq 1..submitted /\ InHand \subseteq 1..submitted
           /\ Numbers(buffer) \subseteq 1..submitted /\ submitted \in Nat
           /\ \A row \in RowsUnderway : row.n \in 1..submitted
<1>1. \A n : /\ n \in Numbers(buffer) => n \in 1..submitted
             /\ n \in arrived => n \in 1..submitted
             /\ \A t \in Threads : n \in Numbers(hand[t]) => n \in 1..submitted
      BY DEF AInv, Placed
<1>2. submitted \in Nat
      BY DEF AInv, TInv, TypeOK
<1>3. ASSUME NEW row \in RowsUnderway PROVE row.n \in 1..submitted
      <2>1. CASE row \in RowsOf(buffer)
            <3>1. row.n \in Numbers(buffer)
                  BY <2>1 DEF RowsOf, Numbers
            <3> QED BY <1>1, <3>1
      <2>2. CASE \E t \in Threads : row \in RowsOf(hand[t])
            <3>1. \E t \in Threads : row.n \in Numbers(hand[t])
                  BY <2>2 DEF RowsOf, Numbers
            <3> QED BY <1>1, <3>1
      <2> QED BY <2>1, <2>2 DEF RowsUnderway
<1> QED BY <1>1, <1>2, <1>3 DEF InHand

\* A submitted row comes after all others, and is the last of its key.
LEMMA SubmitOrdered ==
    ASSUME BatcherAssumption, AInv, Ordered, NEW t \in Threads, NEW key \in Keys,
           NEW action \in {"UPSERT", "DELETE"}, Submit(t, key, action)
    PROVE  Ordered'
<1> USE DEF flushVars, serverVars
<1>1. PICK new \in Row : /\ new.n = submitted + 1 /\ new.key = key
                         /\ buffer' = Append(buffer, new)
                         /\ latest' = [latest EXCEPT ![key] = new]
      BY SubmitAccounts
<1>2. /\ UNCHANGED <<hand, arrived, table, overlapped>> /\ submitted' = submitted + 1
      /\ \A u \in Threads : doing'[u] = "publish" => doing[u] = "publish"
      <2>1. doing \in [Threads -> {"idle", "flush", "publish"}]
            BY DEF AInv, TInv, TypeOK
      <2> QED BY <2>1 DEF Submit, Flushes
<1>3. Extends(buffer', buffer, new)
      <2>1. buffer \in Seq(Row)
            BY DEF AInv, TInv, TypeOK
      <2>2. Extends(Append(buffer, new), buffer, new)
            BY <2>1, NumbersOfAppend
      <2> QED BY <1>1, <2>2
<1>4. UNCHANGED InHand
      BY <1>2 DEF InHand
<1>5. \A row \in RowsUnderway' : row \in RowsUnderway \/ row = new
      <2>1. \A row \in RowsOf(buffer') : row \in RowsOf(buffer) \/ row = new
            BY <1>3 DEF Extends, RowsOf
      <2>2. \A u \in Threads : RowsOf(hand'[u]) = RowsOf(hand[u])
            BY <1>2
      <2> QED BY <2>1, <2>2 DEF RowsUnderway
<1>6. /\ latest \in [Keys -> Row \cup {None}] /\ new # None /\ submitted \in Nat
      /\ \A n \in 1..submitted : n < new.n /\ n \in 1..submitted' /\ n # new.n
      /\ new.n \in 1..submitted' /\ new.n \notin 1..submitted
      <2>1. latest \in [Keys -> Row \cup {None}] /\ new # None
            BY BatcherAssumption DEF AInv, TInv, TypeOK, BatcherAssumption
      <2>2. submitted \in Nat
            BY NumbersSubmitted
      <2> QED BY <1>1, <1>2, <2>1, <2>2
<1>7. BufferLast'
      <2>1. \A n \in arrived \cup InHand : n \in 1..submitted
            BY NumbersSubmitted
      <2>2. Numbers(buffer') = Numbers(buffer) \cup {new.n}
            BY <1>3 DEF Extends
      <2>3. \A n \in arrived \cup InHand, m \in Numbers(buffer) : n < m
            BY DEF Ordered, BufferLast
      <2>4. \A n \in arrived' \cup InHand', m \in Numbers(buffer') : n < m
            BY <1>2, <1>4, <1>6, <2>1, <2>2, <2>3
      <2> QED BY <2>4 DEF BufferLast
<1>8. LatestIsLast'
      <2> SUFFICES ASSUME NEW k \in Keys
                   PROVE  IF latest'[k] = None
                          THEN \A row \in RowsUnderway' : row.key # k
                          ELSE /\ latest'[k].key = k /\ latest'[k].n \in 1..submitted'
                               /\ \A row \in RowsUnderway' :
                                     /\ row.key = k => row.n <= latest'[k].n
                                     /\ row.n = latest'[k].n => row = latest'[k]
          BY DEF LatestIsLast
      <2>1. \A row \in RowsUnderway : row.n \in 1..submitted
            BY NumbersSubmitted
      <2>2. CASE k = key
            <3>1. latest'[k] = new /\ new.key = k
                  BY <1>1, <1>6, <2>2
            <3>2. \A row \in RowsUnderway : row.n < new.n /\ row.n # new.n /\ row.n \in Nat
                  BY <1>6, <2>1
            <3>3. \A row \in RowsUnderway' : /\ row.n <= new.n
                                             /\ row.n = new.n => row = new
                  BY <1>5, <1>6, <3>2
            <3> QED BY <1>6, <3>1, <3>3
      <2>3. CASE k # key
            <3>1. latest'[k] = latest[k]
                  BY <1>1, <1>6, <2>3
            <3>2. CASE latest[k] = None
                  <4>1. \A row \in RowsUnderway : row.key # k
                        BY <3>2 DEF Ordered, LatestIsLast
                  <4> QED BY <1>1, <1>5, <2>3, <3>1, <3>2, <4>1
            <3>3. CASE latest[k] # None
                  <4>1. /\ latest[k].key = k /\ latest[k].n \in 1..submitted
                        /\ \A row \in RowsUnderway : /\ row.key = k => row.n <= latest[k].n
                                                     /\ row.n = latest[k].n => row = latest[k]
                        BY <3>3 DEF Ordered, LatestIsLast
                  <4>2. latest[k].n # new.n /\ latest[k].n \in 1..submitted'
                        BY <1>6, <4>1
                  <4>3. \A row \in RowsUnderway' : /\ row.key = k => row.n <= latest[k].n
                                                   /\ row.n = latest[k].n => row = latest[k]
                        BY <1>1, <1>5, <2>3, <4>1, <4>2
                  <4> QED BY <3>1, <3>3, <4>1, <4>2, <4>3
            <3> QED BY <3>2, <3>3
      <2> QED BY <2>2, <2>3
<1>9. OneFlush => OneFlush'
      BY <1>2 DEF OneFlush
<1>10. ArrivedFirst => ArrivedFirst'
       BY <1>2, <1>4 DEF ArrivedFirst
<1>11. LatestShown => LatestShown'
       <2> SUFFICES ASSUME LatestShown, NEW k \in Keys, latest'[k] # None,
                           latest'[k].n \in arrived'
                    PROVE  table'[k] = Shown(latest'[k])
           BY DEF LatestShown
       <2>1. k # key
             <3>1. arrived' \subseteq 1..submitted
                   BY <1>2, NumbersSubmitted
             <3>2. latest'[k].n # new.n
                   BY <1>6, <3>1
             <3> QED BY <1>1, <1>6, <3>2
       <2>2. latest'[k] = latest[k]
             BY <1>1, <1>6, <2>1
       <2> QED BY <1>2, <2>2 DEF LatestShown
<1> QED BY <1>2, <1>7, <1>8, <1>9, <1>10, <1>11 DEF Ordered

\* The buffer, taken whole, comes after all that arrived.
LEMMA TakeOrdered ==
    ASSUME AInv, Ordered, NEW t \in Threads, Take(t)
    PROVE  Ordered'
<1> USE DEF serverVars
<1>1. /\ buffer' = <<>> /\ doing[t] # "publish"
      /\ doing \in [Threads -> {"idle", "flush", "publish"}]
      /\ doing' = [doing EXCEPT ![t] = "publish"]
      /\ UNCHANGED <<submitted, table, arrived, latest>>
      BY DEF AInv, TInv, TypeOK, Take
<1>2. overlapped' = (overlapped \/ \E u \in Threads : doing[u] = "publish")
      BY DEF Take
<1>3. LatestIsLast'
      BY <1>1, UnderwayShrinks, LatestKept DEF Ordered
<1>4. BufferLast'
      BY <1>1, NumbersOfNone DEF BufferLast
<1>5. ASSUME ~overlapped' PROVE OneFlush' /\ ArrivedFirst' /\ LatestShown'
      <2>1. OneFlush /\ ArrivedFirst /\ LatestShown /\ \A u \in Threads : doing[u] # "publish"
            BY <1>2, <1>5 DEF Ordered
      <2>2. OneFlush'
            BY <1>1, <2>1 DEF OneFlush
      <2>3. InHand' \subseteq InHand \cup Numbers(buffer)
            BY UnderwayShrinks
      <2>4. \A n \in arrived, m \in Numbers(buffer) : n < m
            BY DEF Ordered, BufferLast
      <2>5. \A n \in arrived, m \in InHand : n < m
            BY <2>1 DEF ArrivedFirst
      <2>6. ArrivedFirst'
            BY <1>1, <2>3, <2>4, <2>5 DEF ArrivedFirst
      <2>7. LatestShown'
            BY <1>1, <2>1 DEF LatestShown
      <2> QED BY <2>2, <2>6, <2>7
<1> QED BY <1>3, <1>4, <1>5 DEF Ordered

\* A key whose last row arrived has no rows in the next run.
LEMMA ShownStays ==
    ASSUME AInv, LatestIsLast, ArrivedFirst, NEW t \in Threads, NEW run \in Seq(Row),
           \A i \in DOMAIN run : i \in DOMAIN hand[t] /\ run[i] = hand[t][i],
           NEW k \in Keys, latest[k] # None, latest[k].n \in arrived
    PROVE  Applied(run)[k] = table[k]
<1>1. ASSUME NEW i \in DOMAIN run, run[i].key = k PROVE FALSE
      <2>1. run[i] \in RowsUnderway /\ run[i].n \in InHand
            BY RowsAreUnderway
      <2>2. run[i].n <= latest[k].n
            BY <1>1, <2>1 DEF LatestIsLast
      <2>3. latest[k].n < run[i].n
            BY <2>1 DEF ArrivedFirst
      <2>4. run[i].n \in Nat /\ latest[k].n \in Nat
            BY <2>1, NumbersSubmitted
      <2> QED BY <2>2, <2>3, <2>4
<1> QED BY <1>1, AppliedIs

\* The next run arrives before the rest, and shows the last row of a key if
\* it holds it.
LEMMA PublishRunOrdered ==
    ASSUME AInv, Ordered, NEW t \in Threads, PublishRun(t)
    PROVE  Ordered'
<1> USE DEF bufferVars, historyVars
<1> DEFINE length == RunLength(hand[t])
           run    == SubSeq(hand[t], 1, length)
           rest   == SubSeq(hand[t], length + 1, Len(hand[t]))
<1>1. /\ hand[t] \in Seq(Row) /\ hand[t] # <<>> /\ Ascending(hand[t]) /\ doing[t] = "publish"
      /\ hand \in [Threads -> Seq(Row)] /\ doing \in [Threads -> {"idle", "flush", "publish"}]
      BY DEF AInv, TInv, TypeOK, Held, PublishRun, InSubmissionOrder
<1>2. /\ run \in Seq(Row) /\ Agree(hand[t], run, rest)
      /\ \A i \in DOMAIN run : run[i].action = run[1].action
      BY <1>1, SplitHand DEF RunOf, RestOf
<1>3. /\ table' = Applied(run) /\ arrived' = arrived \cup Numbers(run)
      /\ hand' = [hand EXCEPT ![t] = rest]
      /\ UNCHANGED <<buffer, submitted, latest, overlapped>>
      /\ doing' = doing \/ doing' = [doing EXCEPT ![t] = "idle"]
      BY DEF PublishRun
<1> HIDE DEF length, run, rest
<1>4. Numbers(run) \subseteq InHand
      BY <1>2, RowsAreUnderway DEF Agree
<1>5. LatestIsLast'
      BY <1>3, UnderwayShrinks, LatestKept DEF Ordered
<1>6. BufferLast'
      <2>1. \A n \in arrived \cup InHand, m \in Numbers(buffer) : n < m
            BY DEF Ordered, BufferLast
      <2>2. InHand' \subseteq InHand
            <3>1. Numbers(hand'[t]) \subseteq Numbers(hand[t])
                  BY <1>1, <1>2, <1>3 DEF Agree
            <3>2. \A u \in Threads : Numbers(hand'[u]) \subseteq Numbers(hand[u])
                  BY <1>1, <1>3, <3>1
            <3> QED BY <3>2 DEF InHand
      <2>3. \A n \in arrived' \cup InHand', m \in Numbers(buffer') : n < m
            BY <1>3, <1>4, <2>1, <2>2
      <2> QED BY <2>3 DEF BufferLast
<1>7. ASSUME ~overlapped' PROVE OneFlush' /\ ArrivedFirst' /\ LatestShown'
      <2>1. OneFlush /\ ArrivedFirst /\ LatestShown
            BY <1>3, <1>7 DEF Ordered
      <2>2. OneFlush'
            BY <1>1, <1>3, <2>1 DEF OneFlush
      <2>3. \A u \in Threads : u # t => Numbers(hand'[u]) = {}
            <3> SUFFICES ASSUME NEW u \in Threads, u # t PROVE Numbers(hand'[u]) = {}
                OBVIOUS
            <3>1. doing[u] # "publish"
                  BY <1>1, <2>1 DEF OneFlush
            <3>2. hand[u] = <<>>
                  BY <3>1 DEF AInv, TInv, Held
            <3> QED BY <1>1, <1>3, <3>2, NumbersOfNone
      <2>4. \A m \in InHand' : m \in Numbers(rest) /\ m \in InHand
            <3>1. hand'[t] = rest /\ Numbers(rest) \subseteq InHand
                  BY <1>1, <1>2, <1>3, RowsAreUnderway DEF Agree
            <3> QED BY <2>3, <3>1 DEF InHand
      <2>5. ArrivedFirst'
            <3>1. \A n \in arrived, m \in InHand : n < m
                  BY <2>1 DEF ArrivedFirst
            <3>2. \A n \in Numbers(run), m \in Numbers(rest) : n < m
                  BY <1>1, <1>2 DEF Agree
            <3>3. \A n \in arrived', m \in InHand' : n < m
                  BY <1>3, <2>4, <3>1, <3>2
            <3> QED BY <3>3 DEF ArrivedFirst
      <2>6. LatestShown'
            <3> SUFFICES ASSUME NEW k \in Keys, latest[k] # None, latest[k].n \in arrived'
                         PROVE  Applied(run)[k] = Shown(latest[k])
                BY <1>3 DEF LatestShown
            <3>1. CASE latest[k].n \in arrived
                  <4>1. Applied(run)[k] = table[k]
                        BY <1>2, <2>1, <3>1, ShownStays DEF Ordered, Agree
                  <4> QED BY <2>1, <3>1, <4>1 DEF LatestShown
            <3>2. CASE latest[k].n \in Numbers(run)
                  <4>1. PICK i \in DOMAIN run : run[i].n = latest[k].n
                        BY <3>2, NumberHasRow
                  <4>2. \A j \in DOMAIN run : run[j] \in RowsUnderway /\ run[j].n \in Nat
                        <5>1. \A j \in DOMAIN run : run[j] \in RowsUnderway
                              BY <1>2, RowsAreUnderway DEF Agree
                        <5> QED BY <5>1, NumbersSubmitted
                  <4>3. run[i] = latest[k] /\ latest[k].key = k
                        BY <4>1, <4>2 DEF Ordered, LatestIsLast
                  <4>4. \A j \in DOMAIN run : run[j].key = k => run[j].n <= run[i].n
                        BY <4>2, <4>3 DEF Ordered, LatestIsLast
                  <4>5. PICK j \in DOMAIN run :
                           /\ run[j].key = k
                           /\ \A l \in DOMAIN run : run[l].key = k => l <= j
                           /\ Applied(run)[k] = IF run[1].action = "DELETE" THEN 0 ELSE run[j].n
                        BY <1>2, <4>3, AppliedIs
                  <4>6. i <= j /\ ~(i < j)
                        <5>1. i <= j
                              BY <4>3, <4>5
                        <5>2. i < j => run[i].n < run[j].n
                              BY <1>1, <1>2 DEF Agree, Ascending
                        <5>3. run[j].n <= run[i].n /\ run[i].n \in Nat /\ run[j].n \in Nat
                              BY <4>2, <4>4, <4>5
                        <5> QED BY <5>1, <5>2, <5>3
                  <4>7. i = j
                        <5>1. i \in Nat /\ j \in Nat
                              BY <1>2, MembersAreRows
                        <5> QED BY <4>6, <5>1
                  <4>8. run[1].action = run[i].action
                        BY <1>2
                  <4> QED BY <4>3, <4>5, <4>7, <4>8 DEF Shown
            <3> QED BY <1>3, <3>1, <3>2
      <2> QED BY <2>2, <2>5, <2>6
<1> QED BY <1>5, <1>6, <1>7 DEF Ordered

\* Whether the failed run reached the table or not, the keys whose last row
\* arrived keep it.
LEMMA PublishFailsOrdered ==
    ASSUME AInv, Ordered, NEW t \in Threads, PublishFails(t)
    PROVE  Ordered'
<1> USE DEF bufferVars
<1> DEFINE length == RunLength(hand[t])
           run    == SubSeq(hand[t], 1, length)
           rest   == SubSeq(hand[t], length + 1, Len(hand[t]))
<1>1. /\ hand[t] \in Seq(Row) /\ hand[t] # <<>>
      /\ hand \in [Threads -> Seq(Row)] /\ doing \in [Threads -> {"idle", "flush", "publish"}]
      BY DEF AInv, TInv, TypeOK, Held, PublishFails, GiveUp
<1>2. run \in Seq(Row) /\ Agree(hand[t], run, rest)
      BY <1>1, SplitHand DEF RunOf, RestOf
<1>3. /\ table' = table \/ table' = Applied(run)
      /\ hand' = [hand EXCEPT ![t] = <<>>] /\ doing' = [doing EXCEPT ![t] = "idle"]
      /\ UNCHANGED <<buffer, submitted, arrived, latest, overlapped>>
      BY DEF PublishFails, GiveUp
<1> HIDE DEF length, run, rest
<1>4. LatestIsLast'
      BY <1>3, UnderwayShrinks, LatestKept DEF Ordered
<1>5. InHand' \subseteq InHand
      <2>1. \A u \in Threads : Numbers(hand'[u]) \subseteq Numbers(hand[u])
            BY <1>1, <1>3, NumbersOfNone
      <2> QED BY <2>1 DEF InHand
<1>6. BufferLast'
      <2>1. \A n \in arrived' \cup InHand', m \in Numbers(buffer') : n < m
            BY <1>3, <1>5 DEF Ordered, BufferLast
      <2> QED BY <2>1 DEF BufferLast
<1>7. OneFlush => OneFlush'
      BY <1>1, <1>3 DEF OneFlush
<1>8. ArrivedFirst => ArrivedFirst'
      <2>1. ArrivedFirst => \A n \in arrived', m \in InHand' : n < m
            BY <1>3, <1>5 DEF ArrivedFirst
      <2> QED BY <2>1 DEF ArrivedFirst
<1>9. ArrivedFirst /\ LatestShown => LatestShown'
      <2> SUFFICES ASSUME ArrivedFirst, LatestShown, NEW k \in Keys, latest[k] # None,
                          latest[k].n \in arrived
                   PROVE  table'[k] = Shown(latest[k])
          BY <1>3 DEF LatestShown
      <2>1. Applied(run)[k] = table[k]
            BY <1>2, ShownStays DEF Ordered, Agree
      <2> QED BY <1>3, <2>1 DEF LatestShown
<1> QED BY <1>3, <1>4, <1>6, <1>7, <1>8, <1>9 DEF Ordered

\* Nothing comes after a discarded buffer.
LEMMA DiscardOrdered ==
    ASSUME AInv, Ordered, NEW t \in Threads, Discard(t)
    PROVE  Ordered'
<1>1. buffer' = <<>> /\ UNCHANGED <<doing, hand, submitted, table, arrived, latest, overlapped>>
      BY DEF Discard, flushVars, historyVars
<1>2. LatestIsLast'
      BY <1>1, UnderwayShrinks, LatestKept DEF Ordered
<1>3. BufferLast'
      BY <1>1, NumbersOfNone DEF BufferLast
<1>4. (OneFlush => OneFlush') /\ (LatestShown => LatestShown')
      BY <1>1 DEF OneFlush, LatestShown
<1>5. ArrivedFirst => ArrivedFirst'
      BY <1>1 DEF ArrivedFirst, InHand
<1> QED BY <1>1, <1>2, <1>3, <1>4, <1>5 DEF Ordered

\* The order holds at the start, when there is nothing to order.
LEMMA OrderedInit == BatcherAssumption /\ Init => Ordered
<1> SUFFICES ASSUME BatcherAssumption, Init PROVE Ordered
    OBVIOUS
<1>1. /\ buffer = <<>> /\ \A t \in Threads : hand[t] = <<>> /\ doing[t] = "idle"
      /\ arrived = {} /\ \A k \in Keys : latest[k] = None
      BY DEF Init
<1>2. RowsOf(<<>>) = {} /\ Numbers(<<>>) = {}
      BY EmptySeq DEF RowsOf, Numbers
<1>3. RowsUnderway = {}
      BY <1>1, <1>2 DEF RowsUnderway
<1>4. LatestIsLast
      BY <1>1, <1>3 DEF LatestIsLast
<1>5. BufferLast
      BY <1>1, <1>2 DEF BufferLast
<1>6. OneFlush /\ ArrivedFirst /\ LatestShown
      BY <1>1 DEF OneFlush, ArrivedFirst, LatestShown
<1> QED BY <1>4, <1>5, <1>6 DEF Ordered

\* Every action keeps the order.
LEMMA OrderedStep == BatcherAssumption /\ AInv /\ Ordered /\ [Next]_vars => Ordered'
<1> SUFFICES ASSUME BatcherAssumption, AInv, Ordered, [Next]_vars PROVE Ordered'
    OBVIOUS
<1> USE DEF bufferVars, flushVars, serverVars, historyVars
<1>0. doing \in [Threads -> {"idle", "flush", "publish"}]
      BY DEF AInv, TInv, TypeOK
<1>1. ASSUME UNCHANGED <<buffer, submitted, hand, arrived, latest, table, overlapped>>,
             \A u \in Threads : doing'[u] = "publish" => doing[u] = "publish"
      PROVE  Ordered'
      BY <1>1, OrderUnmoved
<1>2. ASSUME NEW t \in Threads, Flushes(t) \/ UNCHANGED flushVars
      PROVE  UNCHANGED hand /\ \A u \in Threads : doing'[u] = "publish" => doing[u] = "publish"
      BY <1>0, <1>2 DEF Flushes
<1>3. ASSUME NEW t \in Threads, BeginReplay(t) \/ EndReplay(t) \/ FinalFlush(t)
      PROVE  Ordered'
      BY <1>1, <1>2, <1>3 DEF BeginReplay, EndReplay, FinalFlush
<1>4. ASSUME NEW t \in Threads, Tick(t) PROVE Ordered'
      BY <1>1, <1>2, <1>4 DEF Tick
<1>5. ASSUME NEW t \in Threads, TakeNothing(t) PROVE Ordered'
      BY <1>0, <1>1, <1>5 DEF TakeNothing
<1>6. ASSUME NEW t \in Threads, Start(t) \/ Close(t) PROVE Ordered'
      BY <1>1, <1>6 DEF Start, Close
<1>7. CASE UNCHANGED vars
      BY <1>1, <1>7 DEF vars
<1> QED BY <1>3, <1>4, <1>5, <1>6, <1>7, SubmitOrdered, TakeOrdered, PublishRunOrdered,
           PublishFailsOrdered, DiscardOrdered DEF Next, Submits, Threads

\* As long as no two flushes overlap, a key whose last row arrived shows that
\* row, or none if it was a deletion: batching never resurrects a record.
THEOREM BatcherOrder == ASSUME BatcherAssumption PROVE Spec => []OrderWithoutOverlap
<1>1. Init => AInv /\ Ordered
      BY AInvInit, OrderedInit, BatcherAssumption
<1>2. AInv /\ Ordered /\ [Next]_vars => (AInv /\ Ordered)'
      BY AInvStep, OrderedStep, BatcherAssumption
<1>3. AInv /\ Ordered => OrderWithoutOverlap
      BY DEF Ordered, LatestShown, Shown, OrderWithoutOverlap, ShowsLatest
<1> QED BY <1>1, <1>2, <1>3, PTL DEF Spec

\* The safety invariant of the run: no row is lost from sight, a full batch is
\* on its way, and without overlapping flushes each key keeps its last row.
THEOREM BatcherSafe == ASSUME BatcherAssumption PROVE Spec => []RowsSafe
<1>1. RowsAccounted /\ FullIsFlushed /\ OrderWithoutOverlap => RowsSafe
      BY DEF RowsSafe
<1>2. /\ Spec => []RowsAccounted
      /\ Spec => []FullIsFlushed
      /\ Spec => []OrderWithoutOverlap
      BY BatcherAssumption, BatcherAccounts, BatcherFullIsFlushed, BatcherOrder
<1> QED BY <1>1, <1>2, PTL
=============================================================================
