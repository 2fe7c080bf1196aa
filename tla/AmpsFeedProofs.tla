--------------------------- MODULE AmpsFeedProofs ---------------------------
(***************************************************************************)
(* What the AMPS source and the node behind it promise, for every log,     *)
(* buffer size and number of restarts and failures: a released bookmark's  *)
(* row is kept, the state machine sees the log in order and without holes, *)
(* and a table that misses something has been reported.                    *)
(***************************************************************************)
EXTENDS AmpsFeed, SequenceTheorems, FiniteSetTheorems, TLAPS

-----------------------------------------------------------------------------
\* Rows of sequences

\* A row of a sequence is at one of its positions.
LEMMA RowAt ==
    ASSUME NEW s \in Seq(Positions), NEW y
    PROVE  y \in Rows(s) <=> \E i \in 1..Len(s) : s[i] = y
BY DEF Rows, ToSet

\* What a row or a batch more puts into a sequence.
LEMMA RowsFacts ==
    ASSUME NEW a \in Seq(Positions), NEW b \in Seq(Positions), NEW x \in Positions
    PROVE  /\ Append(a, x) \in Seq(Positions) /\ Rows(Append(a, x)) = Rows(a) \cup {x}
           /\ a \o b \in Seq(Positions) /\ Rows(a \o b) = Rows(a) \cup Rows(b)
           /\ Rows(a) \subseteq Positions
           /\ Rows(<<>>) = {}
<1>1. /\ Len(Append(a, x)) = Len(a) + 1 /\ Append(a, x) \in Seq(Positions)
      /\ \A i \in 1..Len(a) : Append(a, x)[i] = a[i]
      /\ Append(a, x)[Len(a) + 1] = x
      OBVIOUS
<1>2. ASSUME NEW y PROVE y \in Rows(Append(a, x)) <=> y \in Rows(a) \cup {x}
  <2>1. \A i \in 1..(Len(a) + 1) : i \in 1..Len(a) \/ i = Len(a) + 1
        OBVIOUS
  <2>2. \A i \in 1..Len(a) : i \in 1..(Len(a) + 1)
        OBVIOUS
  <2>3. Len(a) + 1 \in 1..(Len(a) + 1)
        OBVIOUS
  <2>4. y \in Rows(Append(a, x)) <=> \E i \in 1..(Len(a) + 1) : Append(a, x)[i] = y
    <3> DEFINE c == Append(a, x)
    <3>1. c \in Seq(Positions) /\ Len(c) = Len(a) + 1
          BY <1>1
    <3> HIDE DEF c
    <3>2. y \in Rows(c) <=> \E i \in 1..(Len(a) + 1) : c[i] = y
          BY <3>1, RowAt
    <3> QED BY <3>2 DEF c
  <2>5. y \in Rows(a) <=> \E i \in 1..Len(a) : a[i] = y
        BY RowAt
  <2> QED BY <1>1, <2>1, <2>2, <2>3, <2>4, <2>5
<1>3. /\ Len(a \o b) = Len(a) + Len(b) /\ a \o b \in Seq(Positions)
      /\ \A i \in 1..Len(a) : i \in 1..Len(a \o b) /\ (a \o b)[i] = a[i]
      OBVIOUS
<1>4. \A i \in 1..Len(b) : Len(a) + i \in 1..Len(a \o b) /\ (a \o b)[Len(a) + i] = b[i]
      OBVIOUS
<1>5. ASSUME NEW y PROVE y \in Rows(a \o b) <=> y \in Rows(a) \cup Rows(b)
  <2>1. /\ y \in Rows(a \o b) <=> \E i \in 1..Len(a \o b) : (a \o b)[i] = y
        /\ y \in Rows(a) <=> \E i \in 1..Len(a) : a[i] = y
        /\ y \in Rows(b) <=> \E i \in 1..Len(b) : b[i] = y
        BY <1>3, RowAt
  <2>2. ASSUME NEW i \in 1..Len(a \o b), i > Len(a)
        PROVE  \E j \in 1..Len(b) : b[j] = (a \o b)[i]
    <3> DEFINE j == i - Len(a)
    <3>1. j \in 1..Len(b) /\ Len(a) + j = i
          BY <1>3, <2>2
    <3> HIDE DEF j
    <3> QED BY <1>4, <3>1
  <2>3. \A i \in 1..Len(a \o b) : i \in 1..Len(a) \/ i > Len(a)
        BY <1>3
  <2> QED BY <1>3, <1>4, <2>1, <2>2, <2>3
<1>6. Rows(a) \subseteq Positions
      BY RowAt
<1>7. Rows(<<>>) = {}
      BY DEF Rows, ToSet
<1> QED BY <1>1, <1>2, <1>3, <1>5, <1>6, <1>7

\* In the order of the log, each position once.
Increasing(s) == \A i, j \in DOMAIN s : i < j => s[i] < s[j]
Before(s, t)  == \A x \in Rows(s), y \in Rows(t) : x < y

\* Sequences in order, one before the other, are in order together.
LEMMA ConcatIncreasing ==
    ASSUME NEW a \in Seq(Positions), NEW b \in Seq(Positions),
           Increasing(a), Increasing(b), Before(a, b)
    PROVE  Increasing(a \o b)
<1>1. /\ Len(a \o b) = Len(a) + Len(b) /\ a \o b \in Seq(Positions)
      /\ \A i \in 1..Len(a) : (a \o b)[i] = a[i]
      OBVIOUS
<1>2. \A i \in (Len(a) + 1)..Len(a \o b) : i - Len(a) \in 1..Len(b) /\ (a \o b)[i] = b[i - Len(a)]
      OBVIOUS
<1> SUFFICES ASSUME NEW i \in 1..Len(a \o b), NEW j \in 1..Len(a \o b), i < j
             PROVE  (a \o b)[i] < (a \o b)[j]
    BY <1>1 DEF Increasing
<1>3. CASE j <= Len(a)
      BY <1>1, <1>3 DEF Increasing
<1>4. CASE i <= Len(a) /\ j > Len(a)
  <2>1. a[i] \in Rows(a) /\ b[j - Len(a)] \in Rows(b)
        BY <1>2, <1>4 DEF Rows, ToSet
  <2>2. (a \o b)[i] = a[i] /\ (a \o b)[j] = b[j - Len(a)]
        BY <1>1, <1>2, <1>4
  <2> QED BY <2>1, <2>2 DEF Before
<1>5. CASE i > Len(a)
  <2> DEFINE k == i - Len(a)
             l == j - Len(a)
  <2>1. k \in 1..Len(b) /\ l \in 1..Len(b) /\ k < l
        BY <1>1, <1>5
  <2>2. (a \o b)[i] = b[k] /\ (a \o b)[j] = b[l]
        BY <1>1, <1>2, <1>5
  <2> HIDE DEF k, l
  <2> QED BY <2>1, <2>2 DEF Increasing
<1> QED BY <1>1, <1>3, <1>4, <1>5

\* A row that comes after all others keeps the order.
LEMMA AppendIncreasing ==
    ASSUME NEW a \in Seq(Positions), NEW x \in Positions, Increasing(a),
           \A y \in Rows(a) : y < x
    PROVE  Increasing(Append(a, x))
<1>1. /\ Len(Append(a, x)) = Len(a) + 1 /\ Append(a, x) \in Seq(Positions)
      /\ \A i \in 1..Len(a) : Append(a, x)[i] = a[i]
      /\ Append(a, x)[Len(a) + 1] = x
      OBVIOUS
<1> SUFFICES ASSUME NEW i \in 1..(Len(a) + 1), NEW j \in 1..(Len(a) + 1), i < j
             PROVE  Append(a, x)[i] < Append(a, x)[j]
    BY <1>1 DEF Increasing
<1>2. i \in 1..Len(a) /\ a[i] \in Rows(a)
      BY DEF Rows, ToSet
<1>3. CASE j = Len(a) + 1
      BY <1>1, <1>2, <1>3
<1>4. CASE j \in 1..Len(a)
      BY <1>1, <1>2, <1>4 DEF Increasing
<1> QED BY <1>3, <1>4

-----------------------------------------------------------------------------
\* The inductive invariants

FeedTypeOK ==
    /\ bookmark \in BookmarkEnv
    /\ logged \in 0..Len(Log) /\ from \in 0..logged /\ released \in from..logged
    /\ client \in {"none", "connected", "lost"}
    /\ hand \in 0..logged /\ offered \in BOOLEAN
    /\ rows \in Seq(Positions) /\ batch \in Seq(Positions) /\ folded \in Seq(Positions)
    /\ closed \in BOOLEAN /\ stopping \in {"no", "begun", "done"}
    /\ cycle \in {"idle", "drained", "added"}

\* The handler has the next message of the log, and the graph has a batch in a cycle only.
HandSound ==
    /\ hand # 0 => hand = released + 1
    /\ offered => hand # 0
    /\ closed => client = "none"
    /\ cycle = "idle" => batch = <<>>

\* A position in the pipeline is released, or it is the one the handler has offered, or the
\* one whose release stop() overtook.
Reached(p) ==
    /\ from < p
    /\ \/ p <= released
       \/ p = released + 1 /\ (offered \/ (hand = 0 /\ client = "none"))

Flow ==
    /\ \A p \in Rows(folded) \cup Rows(batch) \cup Rows(rows) : Reached(p)
    /\ Increasing(folded) /\ Increasing(batch) /\ Increasing(rows)
    /\ Before(folded, batch) /\ Before(folded, rows) /\ Before(batch, rows)

\* The row the handler has offered is kept, unless the buffer was closed by then.
OfferedIsKept ==
    hand # 0 /\ offered /\ client # "none" /\ Log[hand].kind # "empty" => hand \in Kept

\* A name that replays the log begins where the log does.
Begun == bookmark \in FromTheStart => from = 0

\* What was released since the subscription began is kept.
KeptSince == \A p \in (from + 1)..released : Log[p].kind # "empty" => p \in Kept

FeedSound == FeedTypeOK /\ HandSound /\ Begun /\ Flow /\ OfferedIsKept /\ KeptSince

\* The tables say what the state machine knows, or a report says that they do not.
TableTypeOK ==
    /\ batch \in Seq(Positions)
    /\ machine \in [Keys -> Positions \cup {Nothing}]
    /\ latest \in [Keys -> Positions \cup {Nothing}]
    /\ index \in [Ids -> Keys \cup {Nothing}]

TablesFollow ==
    /\ "state" \in reports \/ latest = machine
    /\ \A p \in Rows(folded) :
         /\ Log[p].kind = "fix" /\ Log[p].exec => p \in executions \/ "executions" \in reports
         /\ Log[p].kind = "fix" => p \in messages \/ "messages" \in reports
         /\ Log[p].kind = "fix" => index[IdOf[p]] # Nothing \/ "events" \in reports
         /\ Log[p].kind = "bad" => p \in errors

TableSound ==
    /\ TableTypeOK
    /\ \A id \in Ids : index[id] # Nothing => machine[index[id]] # Nothing
    /\ mute \/ TablesFollow

-----------------------------------------------------------------------------
\* The pipeline

\* Positions are numbers, and what is in the pipeline are positions.
LEMMA PipelineFacts ==
    ASSUME FeedTypeOK
    PROVE  /\ Positions = 1..Len(Log) /\ Len(Log) \in Nat
           /\ logged \in Nat /\ from \in Nat /\ released \in Nat /\ hand \in Nat
           /\ from <= released /\ released <= logged /\ logged <= Len(Log)
           /\ Rows(rows) \subseteq Positions /\ Rows(batch) \subseteq Positions
           /\ Rows(folded) \subseteq Positions
<1>1. Positions = 1..Len(Log) /\ Len(Log) \in Nat
      BY FeedAssumption DEF Positions
<1>2. Rows(rows) \subseteq Positions /\ Rows(batch) \subseteq Positions
      /\ Rows(folded) \subseteq Positions
      BY RowAt DEF FeedTypeOK
<1>3. /\ logged \in Nat /\ from \in Nat /\ released \in Nat /\ hand \in Nat
      /\ from <= released /\ released <= logged /\ logged <= Len(Log)
      BY <1>1 DEF FeedTypeOK
<1> QED BY <1>1, <1>2, <1>3

\* A subscription starts within the log, and at its beginning if that is what is configured.
LEMMA StartFacts ==
    ASSUME NEW value \in BookmarkEnv, NEW n \in Nat
    PROVE  /\ ResolveBookmark(value, n) \in 0..n
           /\ value \in FromTheStart => ResolveBookmark(value, n) = 0
<1>1. "now" \notin FromTheStart
      BY DEF FromTheStart
<1>2. CASE value \in FromTheStart \/ value = "now"
      BY <1>1, <1>2 DEF ResolveBookmark
<1>3. CASE value \notin FromTheStart /\ value # "now"
  <2>1. Literal[value] \in Nat
        BY <1>3, FeedAssumption
  <2> QED BY <1>3, <2>1 DEF ResolveBookmark
<1> QED BY <1>2, <1>3

\* A process starts with nothing in the pipeline.
FreshPipeline ==
    /\ bookmark \in BookmarkEnv /\ Begun
    /\ logged \in 0..Len(Log) /\ from \in 0..logged /\ released = from
    /\ client = "connected" /\ hand = 0 /\ offered = FALSE
    /\ rows = <<>> /\ closed = FALSE /\ stopping = "no"
    /\ cycle = "idle" /\ batch = <<>> /\ folded = <<>>

LEMMA FreshSound == FreshPipeline => FeedSound
<1> SUFFICES ASSUME FreshPipeline PROVE FeedSound
    OBVIOUS
<1> USE DEF FreshPipeline
<1>1. Len(Log) \in Nat
      BY FeedAssumption
<1>2. /\ rows \in Seq(Positions) /\ batch \in Seq(Positions) /\ folded \in Seq(Positions)
      /\ Rows(rows) = {} /\ Rows(batch) = {} /\ Rows(folded) = {}
      BY DEF Rows, ToSet
<1>3. FeedTypeOK
  <2>1. logged \in Nat /\ from \in 0..logged /\ released \in from..logged /\ hand \in 0..logged
        BY <1>1
  <2> QED BY <1>2, <2>1 DEF FeedTypeOK
<1>4. HandSound
      BY DEF HandSound
<1>5. Flow
      BY <1>2 DEF Flow, Increasing, Before
<1>6. OfferedIsKept
      BY DEF OfferedIsKept
<1>7. KeptSince
      BY <1>1 DEF KeptSince
<1> QED BY <1>3, <1>4, <1>5, <1>6, <1>7 DEF FeedSound

\* The feed begins sound.
LEMMA FeedInit == Init => FeedSound
<1> SUFFICES ASSUME Init PROVE FeedSound
    OBVIOUS
<1>1. PICK n \in 0..Len(Log), value \in BookmarkEnv :
         logged = n /\ bookmark = value /\ from = ResolveBookmark(value, n) /\ released = from
      BY DEF Init
<1>2. Len(Log) \in Nat /\ n \in Nat
      BY FeedAssumption
<1>3. from \in 0..logged /\ Begun
      BY <1>1, <1>2, StartFacts DEF Begun
<1> QED BY <1>1, <1>3, FreshSound DEF Init, FreshTables, FreshPipeline

\* The steps that move no row: the log grows, the connection comes and goes, the handler
\* takes or releases a message, the source stops.
LEMMA AroundSound ==
    ASSUME FeedSound, Write \/ Lose \/ Resume \/ Receive \/ Discard \/ Stop \/ CloseBuffer
    PROVE  FeedSound'
<1> USE DEF FeedSound
<1>1. UNCHANGED <<rows, batch, folded, lost, cycle, from, bookmark>>
      BY DEF Write, Lose, Resume, Receive, Discard, Stop, CloseBuffer, amps, handler, buffer,
             graph, tables, counters
<1>2. Kept' = Kept
      BY <1>1 DEF Kept
<1>3. PICK n \in Nat : n = Len(Log)
      BY FeedAssumption
<1>4. FeedTypeOK'
  <2>1. CASE Write
        BY <1>3, <2>1 DEF Write, FeedTypeOK, handler, buffer, graph, tables, counters
  <2>2. CASE Lose \/ Resume
        BY <2>2 DEF Lose, Resume, FeedTypeOK, handler, buffer, graph, tables, counters
  <2>3. CASE Receive
        BY <1>3, <2>3 DEF Receive, FeedTypeOK, amps, buffer, graph, tables, counters
  <2>4. CASE Discard
    <3>1. released' \in {released, hand} /\ hand' = 0 /\ hand = released + 1
          BY <2>4 DEF Discard, HandSound
    <3>2. released' \in from..logged /\ hand' \in 0..logged
          BY <1>3, <3>1, PipelineFacts DEF FeedTypeOK
    <3> QED BY <2>4, <3>2 DEF Discard, FeedTypeOK, buffer, graph, tables, counters
  <2>5. CASE Stop \/ CloseBuffer
        BY <2>5 DEF Stop, CloseBuffer, FeedTypeOK, handler, graph, tables, counters
  <2> QED BY <2>1, <2>2, <2>3, <2>4, <2>5
<1>5. HandSound'
  <2>1. CASE Write \/ Lose \/ Resume
        BY <2>1 DEF HandSound, Write, Lose, Resume, handler, buffer, graph
  <2>2. CASE Receive
        BY <1>3, <2>2 DEF HandSound, FeedTypeOK, Receive, amps, buffer, graph
  <2>3. CASE Discard
        BY <2>3 DEF HandSound, Discard, buffer, graph
  <2>4. CASE Stop \/ CloseBuffer
        BY <2>4 DEF HandSound, Stop, CloseBuffer, handler, graph
  <2> QED BY <2>1, <2>2, <2>3, <2>4
<1>6. /\ from \in Nat /\ released \in Nat /\ hand \in Nat
      /\ Rows(rows) \subseteq Nat /\ Rows(batch) \subseteq Nat /\ Rows(folded) \subseteq Nat
      BY <1>3, PipelineFacts
<1>7. Flow'
  <2>1. ASSUME NEW p \in Nat, Reached(p) PROVE Reached(p)'
        BY <1>1, <1>6, <2>1
           DEF Reached, HandSound, Write, Lose, Resume, Receive, Discard, Stop, CloseBuffer, amps,
               handler
  <2> QED BY <1>1, <1>6, <2>1 DEF Flow, Increasing, Before
<1>8. OfferedIsKept'
      BY <1>2 DEF OfferedIsKept, Write, Lose, Resume, Receive, Discard, Stop, CloseBuffer, amps,
                  handler
<1>9. KeptSince'
  <2>1. CASE released' = released
        BY <1>1, <1>2, <2>1 DEF KeptSince
  <2>2. CASE released' # released
    <3>1. Discard /\ released' = hand /\ client # "none" /\ hand = released + 1
          BY <2>2 DEF HandSound, Write, Lose, Resume, Receive, Discard, Stop, CloseBuffer, amps
    <3>2. Log[hand].kind # "empty" => hand \in Kept
          BY <3>1 DEF OfferedIsKept, Discard
    <3> QED BY <1>1, <1>2, <1>6, <3>1, <3>2 DEF KeptSince
  <2> QED BY <2>1, <2>2
<1>10. Begun'
       BY <1>1 DEF Begun
<1> QED BY <1>4, <1>5, <1>7, <1>8, <1>9, <1>10

\* A message that cannot be taken apart is accounted for.
LEMMA RaisesSound == ASSUME FeedSound, Raises PROVE FeedSound'
<1> USE DEF FeedSound
<1>1. /\ hand # 0 /\ offered' = TRUE /\ lost' = lost \cup {hand}
      /\ UNCHANGED <<logged, bookmark, from, client, released, hand, rows, closed, stopping,
                    cycle, batch, folded>>
      BY DEF Raises, amps, buffer, graph, tables
<1>2. Kept' = Kept \cup {hand}
      BY <1>1 DEF Kept
<1>3. FeedTypeOK' /\ HandSound' /\ Begun'
      BY <1>1 DEF FeedTypeOK, HandSound, Begun
<1>4. Flow'
      BY <1>1 DEF Flow, Reached, Increasing, Before
<1>5. OfferedIsKept' /\ KeptSince'
      BY <1>1, <1>2 DEF OfferedIsKept, KeptSince
<1> QED BY <1>3, <1>4, <1>5

\* The handler's row comes after all that is in the pipeline.
LEMMA OfferSound == ASSUME FeedSound, Offer PROVE FeedSound'
<1> USE DEF FeedSound
<1>1. /\ hand # 0 /\ ~offered /\ offered' = TRUE
      /\ UNCHANGED <<logged, bookmark, from, client, released, hand, closed, stopping, cycle, batch,
                    folded, lost>>
      BY DEF Offer, amps, graph, tables, counters
<1>2. /\ hand \in Positions /\ hand = released + 1
      /\ from \in Nat /\ released \in Nat /\ from <= released
      BY <1>1, PipelineFacts DEF FeedTypeOK, HandSound
<1>3. /\ rows \in Seq(Positions) /\ Positions \subseteq Nat
      /\ Rows(rows) \subseteq Nat /\ Rows(batch) \subseteq Nat /\ Rows(folded) \subseteq Nat
      BY PipelineFacts DEF FeedTypeOK
<1>4. \A p \in Rows(folded) \cup Rows(batch) \cup Rows(rows) : from < p /\ p <= released /\ p < hand
      BY <1>1, <1>2, <1>3 DEF Flow, Reached
<1>5. CASE closed
  <2>1. rows' = rows
        BY <1>5 DEF Offer
  <2>2. Kept' = Kept
        BY <1>1, <2>1 DEF Kept
  <2>3. FeedTypeOK' /\ HandSound' /\ Begun'
        BY <1>1, <2>1 DEF FeedTypeOK, HandSound, Begun
  <2>4. Flow'
        BY <1>1, <1>4, <2>1 DEF Flow, Reached, Increasing, Before
  <2>5. OfferedIsKept'
        BY <1>1, <1>5 DEF OfferedIsKept, HandSound
  <2>6. KeptSince'
        BY <1>1, <2>2 DEF KeptSince
  <2> QED BY <2>3, <2>4, <2>5, <2>6
<1>6. CASE ~closed
  <2>1. rows' = Append(rows, hand)
        BY <1>6 DEF Offer
  <2>2. rows' \in Seq(Positions) /\ Rows(rows') = Rows(rows) \cup {hand}
        BY <1>2, <1>3, <2>1, RowsFacts
  <2>3. Kept' = Kept \cup {hand}
        BY <1>1, <2>2 DEF Kept
  <2>4. FeedTypeOK' /\ HandSound' /\ Begun'
        BY <1>1, <2>2 DEF FeedTypeOK, HandSound, Begun
  <2>5. Increasing(rows')
        BY <1>2, <1>3, <1>4, <2>1, AppendIncreasing DEF Flow
  <2>6. Flow'
    <3>1. \A p \in Rows(folded) \cup Rows(batch) \cup Rows(rows') : Reached(p)'
          BY <1>1, <1>2, <1>4, <2>2 DEF Reached
    <3>2. Before(folded, rows') /\ Before(batch, rows')
          BY <1>4, <2>2 DEF Flow, Before
    <3> QED BY <1>1, <2>5, <3>1, <3>2 DEF Flow, Increasing, Before
  <2>7. OfferedIsKept' /\ KeptSince'
        BY <1>1, <2>3 DEF OfferedIsKept, KeptSince
  <2> QED BY <2>4, <2>6, <2>7
<1> QED BY <1>5, <1>6

\* The buffer becomes the batch of a cycle.
LEMMA DrainSound == ASSUME FeedSound, Drain PROVE FeedSound'
<1> USE DEF FeedSound
<1>1. /\ batch = <<>> /\ batch' = rows /\ rows' = <<>> /\ cycle' = "drained"
      /\ UNCHANGED <<amps, handler, closed, stopping, folded, lost>>
      BY DEF Drain, HandSound, tables, counters
<1>2. Rows(batch) = {} /\ Rows(rows') = {} /\ rows' \in Seq(Positions)
      BY <1>1 DEF Rows, ToSet
<1>3. Kept' = Kept
      BY <1>1, <1>2 DEF Kept
<1>4. FeedTypeOK' /\ HandSound' /\ Begun'
      BY <1>1, <1>2 DEF FeedTypeOK, HandSound, Begun, amps, handler
<1>5. Flow'
  <2>1. Increasing(rows')
        BY <1>1 DEF Increasing
  <2> QED BY <1>1, <1>2, <2>1 DEF Flow, Reached, Increasing, Before, amps, handler
<1>6. OfferedIsKept' /\ KeptSince'
      BY <1>1, <1>3 DEF OfferedIsKept, KeptSince, amps, handler
<1> QED BY <1>4, <1>5, <1>6

\* The batch goes to the table, or is lost and counted.
LEMMA AddBatchSound == ASSUME FeedSound, AddBatch PROVE FeedSound'
<1> USE DEF FeedSound
<1>1. UNCHANGED <<amps, handler, buffer, folded>>
      BY DEF AddBatch, tables
<1>2. CASE UNCHANGED <<batch, lost>> /\ cycle' = "added"
  <2>1. Kept' = Kept
        BY <1>1, <1>2 DEF Kept, buffer
  <2> QED BY <1>1, <1>2, <2>1
          DEF FeedTypeOK, HandSound, Begun, Flow, Reached, Increasing, Before, OfferedIsKept,
              KeptSince, amps, handler, buffer
<1>3. CASE lost' = lost \cup ToSet(batch) /\ batch' = <<>> /\ cycle' = "idle"
  <2>1. Rows(batch') = {} /\ batch' \in Seq(Positions)
        BY <1>3 DEF Rows, ToSet
  <2>2. Kept' = Kept
        BY <1>1, <1>3, <2>1 DEF Kept, Rows, buffer
  <2>3. Increasing(batch')
        BY <1>3 DEF Increasing
  <2>4. FeedTypeOK' /\ HandSound' /\ Begun'
        BY <1>1, <1>3, <2>1 DEF FeedTypeOK, HandSound, Begun, amps, handler, buffer
  <2>5. Flow'
        BY <1>1, <2>1, <2>3 DEF Flow, Reached, Increasing, Before, amps, handler, buffer
  <2>6. OfferedIsKept' /\ KeptSince'
        BY <1>1, <2>2 DEF OfferedIsKept, KeptSince, amps, handler
  <2> QED BY <2>4, <2>5, <2>6
<1> QED BY <1>2, <1>3 DEF AddBatch, counters

\* A sequence and its two parts.
LEMMA SplitFacts ==
    ASSUME NEW s \in Seq(Positions), NEW n \in 1..Len(s)
    PROVE  LET a == SubSeq(s, 1, n)
               b == SubSeq(s, n + 1, Len(s))
           IN  /\ a \in Seq(Positions) /\ b \in Seq(Positions)
               /\ Rows(s) = Rows(a) \cup Rows(b)
               /\ Increasing(s) => Increasing(a)
<1> DEFINE a == SubSeq(s, 1, n)
           b == SubSeq(s, n + 1, Len(s))
<1>1. a \in Seq(Positions) /\ Len(a) = n /\ \A i \in 1..n : a[i] = s[i]
      OBVIOUS
<1>2. b \in Seq(Positions) /\ Len(b) = Len(s) - n
      /\ \A i \in 1..(Len(s) - n) : b[i] = s[n + i]
      OBVIOUS
<1> HIDE DEF a, b
<1>3. n \in Nat /\ Len(s) \in Nat /\ n <= Len(s)
      OBVIOUS
<1>4. ASSUME NEW y PROVE y \in Rows(s) <=> y \in Rows(a) \cup Rows(b)
  <2>1. /\ y \in Rows(s) <=> \E i \in 1..Len(s) : s[i] = y
        /\ y \in Rows(a) <=> \E i \in 1..n : a[i] = y
        /\ y \in Rows(b) <=> \E i \in 1..(Len(s) - n) : b[i] = y
    <3>1. y \in Rows(s) <=> \E i \in 1..Len(s) : s[i] = y
          BY RowAt
    <3>2. y \in Rows(a) <=> \E i \in 1..Len(a) : a[i] = y
          BY <1>1, RowAt
    <3>3. y \in Rows(b) <=> \E i \in 1..Len(b) : b[i] = y
          BY <1>2, RowAt
    <3>4. 1..Len(a) = 1..n /\ 1..Len(b) = 1..(Len(s) - n)
          BY <1>1, <1>2
    <3> QED BY <3>1, <3>2, <3>3, <3>4
  <2>2. ASSUME NEW i \in 1..Len(s), i > n
        PROVE  \E j \in 1..(Len(s) - n) : b[j] = s[i]
    <3>1. i - n \in 1..(Len(s) - n) /\ n + (i - n) = i
          BY <1>3, <2>2
    <3> QED BY <1>2, <3>1
  <2>3. \A i \in 1..Len(s) : i \in 1..n \/ i > n
        BY <1>3
  <2>4. /\ \A i \in 1..n : i \in 1..Len(s)
        /\ \A i \in 1..(Len(s) - n) : n + i \in 1..Len(s)
        BY <1>3
  <2>5. y \in Rows(s) => y \in Rows(a) \cup Rows(b)
        BY <1>1, <2>1, <2>2, <2>3
  <2>6. y \in Rows(a) => y \in Rows(s)
        BY <1>1, <2>1, <2>4
  <2>7. y \in Rows(b) => y \in Rows(s)
        BY <1>2, <2>1, <2>4
  <2> QED BY <2>5, <2>6, <2>7
<1>5. Increasing(s) => Increasing(a)
      BY <1>1, <1>3 DEF Increasing
<1> QED BY <1>1, <1>2, <1>4, <1>5 DEF a, b

\* Of a batch a beginning is folded after what was folded before, and the rest is lost.
LEMMA PartFolded ==
    ASSUME FeedSound, NEW list \in Seq(Positions), Increasing(list), folded' = folded \o list,
           NEW rest \in SUBSET Positions, lost' = lost \cup rest,
           Rows(batch) = Rows(list) \cup rest, batch' = <<>>, cycle' = "idle", UNCHANGED <<amps, handler, buffer>>
    PROVE  FeedSound'
<1> USE DEF FeedSound
<1>2. folded \in Seq(Positions) /\ batch \in Seq(Positions)
      BY DEF FeedTypeOK
<1>3. folded' \in Seq(Positions) /\ Rows(folded') = Rows(folded) \cup Rows(list)
  <2>1. CASE Positions = {}
    <3>1. folded = <<>> /\ list = <<>>
          BY <1>2, <2>1
    <3>2. folded' = <<>>
          BY <3>1
    <3> QED BY <3>1, <3>2 DEF Rows, ToSet
  <2>2. CASE Positions # {}
        BY <1>2, <2>2, RowsFacts
  <2> QED BY <2>1, <2>2
<1>4. Rows(batch') = {} /\ batch' \in Seq(Positions) /\ Increasing(batch')
      BY DEF Rows, ToSet, Increasing
<1>5. Kept' = Kept
      BY <1>3, <1>4 DEF Kept, buffer
<1>6. FeedTypeOK' /\ HandSound' /\ Begun'
      BY <1>3, <1>4 DEF FeedTypeOK, HandSound, Begun, amps, handler, buffer
<1>7. Flow'
  <2>1. Increasing(folded')
    <3>1. Before(folded, list)
          BY DEF Flow, Before
    <3> QED BY <1>2, <3>1, ConcatIncreasing DEF Flow
  <2> QED BY <1>3, <1>4, <2>1
          DEF Flow, Reached, Increasing, Before, amps, handler, buffer
<1>8. OfferedIsKept' /\ KeptSince'
      BY <1>5 DEF OfferedIsKept, KeptSince, amps, handler
<1> QED BY <1>6, <1>7, <1>8

\* The batch is folded after what was folded before.
LEMMA FoldSound == ASSUME FeedSound, NEW failing, Fold(failing) PROVE FeedSound'
<1>1. /\ folded' = folded \o batch /\ batch' = <<>> /\ cycle' = "idle"
      /\ UNCHANGED <<amps, handler, buffer>> /\ lost' = lost \cup {}
      BY DEF Fold, Folded
<1>2. batch \in Seq(Positions) /\ Increasing(batch)
      BY DEF FeedSound, FeedTypeOK, Flow
<1>3. {} \in SUBSET Positions /\ Rows(batch) = Rows(batch) \cup {}
      OBVIOUS
<1> QED BY <1>1, <1>2, <1>3, PartFolded

\* The batch is folded up to the message that raises.
LEMMA FoldRaisesSound == ASSUME FeedSound, FoldRaises PROVE FeedSound'
<1>1. batch \in Seq(Positions) /\ Increasing(batch) /\ DOMAIN batch = 1..Len(batch)
      BY DEF FeedSound, FeedTypeOK, Flow
<1>2. PICK n \in 1..Len(batch) :
         /\ folded' = folded \o SubSeq(batch, 1, n)
         /\ lost' = lost \cup Rows(SubSeq(batch, n + 1, Len(batch)))
      BY <1>1 DEF FoldRaises, Folded, Rows
<1> DEFINE list == SubSeq(batch, 1, n)
           tail == SubSeq(batch, n + 1, Len(batch))
<1>3. /\ list \in Seq(Positions) /\ tail \in Seq(Positions) /\ Increasing(list)
      /\ Rows(batch) = Rows(list) \cup Rows(tail)
      BY <1>1, SplitFacts
<1>4. batch' = <<>> /\ cycle' = "idle" /\ UNCHANGED <<amps, handler, buffer>>
      BY DEF FoldRaises
<1>5. folded' = folded \o list /\ lost' = lost \cup Rows(tail)
      BY <1>2
<1> HIDE DEF list, tail
<1>6. Rows(tail) \in SUBSET Positions
      BY <1>3, RowAt
<1> QED BY <1>3, <1>4, <1>5, <1>6, PartFolded

\* A new process starts with nothing, and resumes where its bookmark says.
LEMMA RestartSound == ASSUME FeedSound, Restart PROVE FeedSound'
<1>1. from' = ResolveBookmark(bookmark, logged) /\ released' = from'
      BY DEF Restart
<1>2. /\ logged' = logged /\ logged \in 0..Len(Log) /\ logged \in Nat
      /\ bookmark' = bookmark /\ bookmark \in BookmarkEnv
      BY PipelineFacts DEF FeedSound, FeedTypeOK, Restart
<1>3. from' \in 0..logged' /\ Begun'
      BY <1>1, <1>2, StartFacts DEF Begun
<1>4. /\ client' = "connected" /\ hand' = 0 /\ offered' = FALSE
      /\ rows' = <<>> /\ closed' = FALSE /\ stopping' = "no" /\ cycle' = "idle" /\ batch' = <<>>
      /\ folded' = <<>>
      BY DEF Restart
<1>5. FreshPipeline'
      BY <1>1, <1>2, <1>3, <1>4 DEF FreshPipeline
<1>6. FreshPipeline' => FeedSound'
      BY FreshSound, PTL
<1> QED BY <1>5, <1>6

\* Every step leaves the pipeline sound.
LEMMA FeedStep == FeedSound /\ [Next]_feedVars => FeedSound'
<1> SUFFICES ASSUME FeedSound, [Next]_feedVars
             PROVE  FeedSound'
    OBVIOUS
<1>1. CASE Write \/ Lose \/ Resume \/ Receive \/ Discard \/ Stop \/ CloseBuffer
      BY <1>1, AroundSound
<1>2. CASE Offer \/ Raises
      BY <1>2, OfferSound, RaisesSound
<1>3. CASE GraphThread
      BY <1>3, DrainSound, AddBatchSound, FoldSound, FoldRaisesSound DEF GraphThread
<1>4. CASE Restart
      BY <1>4, RestartSound
<1>5. CASE UNCHANGED feedVars
      BY <1>5 DEF feedVars, amps, handler, buffer, graph, tables, counters, FeedSound, FeedTypeOK,
                  HandSound, Flow, Reached, Increasing, Before, OfferedIsKept, KeptSince,
                  Kept, Begun
<1> QED BY <1>1, <1>2, <1>3, <1>4, <1>5 DEF Next, ClientThread

\* What is in the pipeline leaves no hole before it.
LEMMA SoundHasNoHoles == FeedSound => NoHoles
<1> SUFFICES ASSUME FeedSound PROVE NoHoles
    OBVIOUS
<1> USE DEF FeedSound
<1>1. folded \in Seq(Positions) /\ batch \in Seq(Positions) /\ rows \in Seq(Positions)
      BY DEF FeedTypeOK
<1>2. Increasing((folded \o batch) \o rows)
  <2>1. Increasing(folded \o batch)
        BY <1>1, ConcatIncreasing DEF Flow
  <2>2. folded \o batch \in Seq(Positions) /\ Rows(folded \o batch) = Rows(folded) \cup Rows(batch)
    <3>1. CASE Positions = {}
      <4>1. folded = <<>> /\ batch = <<>> /\ folded \o batch = <<>>
            BY <1>1, <3>1
      <4> QED BY <4>1 DEF Rows, ToSet
    <3>2. CASE Positions # {}
          BY <1>1, <3>2, RowsFacts
    <3> QED BY <3>1, <3>2
  <2>3. Before(folded \o batch, rows)
        BY <2>2 DEF Flow, Before
  <2> QED BY <1>1, <2>1, <2>2, <2>3, ConcatIncreasing DEF Flow
<1>3. ASSUME NEW i \in DOMAIN folded, NEW p \in (from + 1)..folded[i], Log[p].kind # "empty"
      PROVE  p \in Rows(folded) \cup lost
  <2>1. folded[i] \in Rows(folded) /\ folded[i] \in Nat
        BY <1>1, PipelineFacts DEF Rows, ToSet
  <2>2. from \in Nat /\ released \in Nat /\ p \in Nat /\ from < p /\ p <= folded[i]
        BY <2>1, PipelineFacts
  <2>3. folded[i] <= released \/ folded[i] = released + 1
        BY <2>1 DEF Flow, Reached
  <2>4. p \in Kept
    <3>1. CASE p <= released
          BY <1>3, <2>2, <3>1 DEF KeptSince
    <3>2. CASE p = folded[i]
          BY <2>1, <3>2 DEF Kept
    <3> QED BY <2>1, <2>2, <2>3, <3>1, <3>2
  <2>5. p \notin Rows(batch) \cup Rows(rows)
        BY <2>1, <2>2 DEF Flow, Before
  <2> QED BY <2>4, <2>5 DEF Kept
<1>4. (folded \o batch) \o rows = folded \o batch \o rows
      OBVIOUS
<1>5. ASSUME NEW i \in DOMAIN folded, NEW p \in 1..folded[i], Wanted(p), Log[p].kind # "empty"
      PROVE  p \in Rows(folded) \cup lost
  <2>1. p \in Nat /\ p >= 1 /\ folded[i] \in Nat /\ p <= folded[i] /\ from \in Nat
        BY <1>1, PipelineFacts
  <2>2. from < p
        BY <1>5, <2>1 DEF Wanted, Begun
  <2>3. p \in (from + 1)..folded[i]
        BY <2>1, <2>2
  <2> QED BY <1>3, <1>5, <2>3
<1> QED BY <1>2, <1>4, <1>5 DEF NoHoles, Increasing

\* The pipeline is always sound.
LEMMA AlwaysFeedSound == FeedSpec => []FeedSound
<1> QED BY FeedInit, FeedStep, PTL DEF FeedSpec

\* A bookmark is released only when its row is in the buffer, in the cycle, folded, or in a batch or
\* a handler that raised, also while stop() runs (the run's ReleasedIsKept; amps_ingest.py: _on_message,
\* stop).
THEOREM FeedReleased == FeedSpec => []ReleasedIsKept
<1>1. FeedSound => ReleasedIsKept
  <2> SUFFICES ASSUME FeedSound, NEW p \in 1..released, Wanted(p), Log[p].kind # "empty"
               PROVE  p \in Kept
      BY DEF ReleasedIsKept
  <2>1. from \in Nat /\ released \in Nat
        BY PipelineFacts DEF FeedSound
  <2>2. p \in (from + 1)..released
        BY <2>1 DEF Wanted, FeedSound, Begun
  <2> QED BY <2>2 DEF FeedSound, KeptSince
<1> QED BY <1>1, AlwaysFeedSound, PTL

\* The state machine sees the log in order, once each; only a handler or a batch that raised
\* leaves a hole (the run's NoHoles; amps_ingest.py: RawBuffer, _on_flush; pipeline.py: _process_batch).
THEOREM FeedNoHoles == FeedSpec => []NoHoles
<1> QED BY SoundHasNoHoles, AlwaysFeedSound, PTL

-----------------------------------------------------------------------------
\* The tables

\* A bounded set of numbers has a last one.
LEMMA LastExists ==
    ASSUME NEW n \in Nat, NEW S \in SUBSET (1..n), S # {}
    PROVE  Max(S) \in S
<1> DEFINE R == OpToRel(<, Nat)
<1>1. IsWellFoundedOn(R, Nat)
      BY NatLessThanWellFounded
<1> DEFINE T == {n - j : j \in S}
<1>2. \A j \in S : n - j \in Nat
      OBVIOUS
<1>3. T \subseteq Nat /\ T # {}
      BY <1>2
<1>4. \A x, y \in Nat : x < y => <<x, y>> \in R
      BY DEF OpToRel
<1>5. PICK x \in T : \A y \in T : ~ (<<y, x>> \in R)
  <2> HIDE DEF R, T
  <2> QED BY <1>1, <1>3, WFMin
<1>6. PICK i \in S : x = n - i
      OBVIOUS
<1>7. \A j \in S : i >= j
  <2> TAKE j \in S
  <2>1. n - j \in T /\ n - j \in Nat /\ x \in Nat
        OBVIOUS
  <2>2. ~(n - j < x)
        BY <1>4, <1>5, <2>1
  <2> QED BY <1>6, <2>1, <2>2
<1> QED BY <1>6, <1>7 DEF Max

\* A table's new value is that of a good message of the list, or the old one if there is none.
LEMMA LastByFacts ==
    ASSUME NEW list \in Seq(Positions), NEW table, NEW field, NEW value, NEW k \in DOMAIN table
    PROVE  \/ /\ \A q \in Good(list) : field[q] # k
              /\ LastBy(list, table, field, value)[k] = table[k]
           \/ \E q \in Good(list) : field[q] = k /\ LastBy(list, table, field, value)[k] = value[q]
<1> DEFINE mine == {i \in DOMAIN list : list[i] \in Good(list) /\ field[list[i]] = k}
<1>1. LastBy(list, table, field, value)[k] = IF mine = {} THEN table[k] ELSE value[list[Max(mine)]]
      BY DEF LastBy
<1>2. DOMAIN list = 1..Len(list) /\ Len(list) \in Nat
      OBVIOUS
<1>3. CASE mine = {}
  <2>1. \A q \in Good(list) : \E i \in DOMAIN list : list[i] = q
        BY DEF Good, ToSet
  <2> QED BY <1>1, <1>3, <2>1
<1>4. CASE mine # {}
  <2> HIDE DEF mine
  <2>1. mine \in SUBSET (1..Len(list))
        BY <1>2 DEF mine
  <2>2. Max(mine) \in mine
        BY <1>2, <1>4, <2>1, LastExists
  <2>3. list[Max(mine)] \in Good(list) /\ field[list[Max(mine)]] = k
        BY <2>2 DEF mine
  <2> QED BY <1>1, <1>4, <2>3
<1> QED BY <1>3, <1>4

\* The good messages of a list are positions, with a key and an id.
LEMMA GoodFacts ==
    ASSUME NEW list \in Seq(Positions)
    PROVE  /\ Good(list) \subseteq Positions /\ Nothing \notin Positions /\ Nothing \notin Keys
           /\ \A q \in Positions : KeyOf[q] \in Keys /\ IdOf[q] \in Ids /\ Itself[q] = q
<1>1. Good(list) \subseteq Positions
      BY DEF Good, ToSet
<1> QED BY <1>1, FeedAssumption DEF KeyOf, IdOf, Itself, Keys, Ids

\* Empty tables hide nothing.
NothingYet == FreshTables /\ batch = <<>>

LEMMA FreshTablesSound == NothingYet => TableSound
<1> SUFFICES ASSUME NothingYet PROVE TableSound
    OBVIOUS
<1> USE DEF NothingYet
<1>1. Rows(folded) = {} /\ batch \in Seq(Positions)
      BY DEF FreshTables, Rows, ToSet
<1> QED BY <1>1 DEF FreshTables, TableSound, TableTypeOK, TablesFollow, Blank

\* What folding messages does to the state tables.
LEMMA FoldTypes ==
    ASSUME TableSound, NEW list \in Seq(Positions), NEW failing, Folded(list, failing),
           batch' = <<>>
    PROVE  /\ TableTypeOK'
           /\ \A k \in Keys : machine[k] # Nothing => machine'[k] # Nothing
           /\ \A id \in Ids : index[id] # Nothing => index'[id] # Nothing
           /\ \A id \in Ids : index'[id] # Nothing => machine'[index'[id]] # Nothing
           /\ "events" \notin failing => \A q \in Good(list) : index'[IdOf[q]] # Nothing
<1>1. /\ machine \in [Keys -> Positions \cup {Nothing}]
      /\ latest \in [Keys -> Positions \cup {Nothing}] /\ index \in [Ids -> Keys \cup {Nothing}]
      BY DEF TableSound, TableTypeOK
<1>2. /\ Good(list) \subseteq Positions /\ Nothing \notin Positions /\ Nothing \notin Keys
      /\ \A q \in Positions : KeyOf[q] \in Keys /\ IdOf[q] \in Ids /\ Itself[q] = q
      BY <1>1, GoodFacts
<1>3. /\ machine' = LastBy(list, machine, KeyOf, Itself)
      /\ latest' = latest \/ latest' = LastBy(list, latest, KeyOf, Itself)
      /\ "events" \in failing => index' = index
      /\ "events" \notin failing => index' = LastBy(list, index, IdOf, KeyOf)
      BY DEF Folded
<1>4. ASSUME NEW k \in Keys
      PROVE  /\ machine'[k] \in Positions \cup {Nothing}
             /\ LastBy(list, latest, KeyOf, Itself)[k] \in Positions \cup {Nothing}
             /\ machine[k] # Nothing => machine'[k] # Nothing
             /\ \A q \in Good(list) : KeyOf[q] = k => machine'[k] # Nothing
  <2>1. \/ (\A q \in Good(list) : KeyOf[q] # k) /\ machine'[k] = machine[k]
        \/ \E q \in Good(list) : KeyOf[q] = k /\ machine'[k] = Itself[q]
        BY <1>1, <1>3, LastByFacts
  <2>2. \/ (\A q \in Good(list) : KeyOf[q] # k) /\ LastBy(list, latest, KeyOf, Itself)[k] = latest[k]
        \/ \E q \in Good(list) : KeyOf[q] = k /\ LastBy(list, latest, KeyOf, Itself)[k] = Itself[q]
        BY <1>1, LastByFacts
  <2> QED BY <1>1, <1>2, <2>1, <2>2
<1>5. ASSUME NEW id \in Ids
      PROVE  /\ index'[id] \in Keys \cup {Nothing}
             /\ index[id] # Nothing => index'[id] # Nothing
             /\ "events" \notin failing => \A q \in Good(list) : IdOf[q] = id => index'[id] # Nothing
             /\ \/ index'[id] = index[id]
                \/ \E q \in Good(list) : index'[id] = KeyOf[q]
  <2>1. CASE "events" \in failing
        BY <1>1, <1>3, <2>1
  <2>2. CASE "events" \notin failing
    <3>1. \/ (\A q \in Good(list) : IdOf[q] # id) /\ index'[id] = index[id]
          \/ \E q \in Good(list) : IdOf[q] = id /\ index'[id] = KeyOf[q]
          BY <1>1, <1>3, <2>2, LastByFacts
    <3> QED BY <1>1, <1>2, <2>2, <3>1
  <2> QED BY <2>1, <2>2
<1>6. machine' \in [Keys -> Positions \cup {Nothing}]
  <2>1. machine' = [k \in Keys |-> machine'[k]]
        BY <1>1, <1>3 DEF LastBy
  <2> QED BY <1>4, <2>1
<1>7. latest' \in [Keys -> Positions \cup {Nothing}]
  <2>1. LastBy(list, latest, KeyOf, Itself) = [k \in Keys |-> LastBy(list, latest, KeyOf, Itself)[k]]
        BY <1>1 DEF LastBy
  <2>2. LastBy(list, latest, KeyOf, Itself) \in [Keys -> Positions \cup {Nothing}]
        BY <1>4, <2>1
  <2> QED BY <1>1, <1>3, <2>2
<1>8. index' \in [Ids -> Keys \cup {Nothing}]
  <2>1. index' = [id \in Ids |-> index'[id]]
        BY <1>1, <1>3 DEF LastBy
  <2> QED BY <1>5, <2>1
<1>9. TableTypeOK'
      BY <1>3, <1>6, <1>7, <1>8 DEF TableTypeOK
<1>10. ASSUME NEW id \in Ids, index'[id] # Nothing
       PROVE  machine'[index'[id]] # Nothing
  <2>1. index'[id] \in Keys
        BY <1>5, <1>10
  <2>2. CASE index'[id] = index[id]
        BY <1>4, <1>10, <2>1, <2>2 DEF TableSound
  <2>3. CASE \E q \in Good(list) : index'[id] = KeyOf[q]
        BY <1>4, <2>1, <2>3
  <2> QED BY <1>5, <2>2, <2>3
<1>11. ASSUME "events" \notin failing, NEW q \in Good(list)
       PROVE  index'[IdOf[q]] # Nothing
       BY <1>2, <1>5, <1>11
<1> QED BY <1>4, <1>5, <1>9, <1>10, <1>11

\* A batch that is folded reaches its tables, or the report says which it did not reach.
LEMMA FoldFollows ==
    ASSUME TableSound, folded \in Seq(Positions), NEW failing, Fold(failing)
    PROVE  TableSound'
<1>1. /\ TableTypeOK'
      /\ \A id \in Ids : index[id] # Nothing => index'[id] # Nothing
      /\ \A id \in Ids : index'[id] # Nothing => machine'[index'[id]] # Nothing
      /\ "events" \notin failing => \A q \in Good(batch) : index'[IdOf[q]] # Nothing
      BY FoldTypes DEF Fold, TableSound, TableTypeOK
<1>2. batch \in Seq(Positions)
      BY DEF TableSound, TableTypeOK
<1>3. Rows(folded') = Rows(folded) \cup Rows(batch)
  <2>1. CASE Positions = {}
    <3>1. folded = <<>> /\ batch = <<>> /\ folded \o batch = <<>>
          BY <1>2, <2>1
    <3> QED BY <3>1 DEF Rows, ToSet, Fold, Folded
  <2>2. CASE Positions # {}
        BY <1>2, <2>2, RowsFacts DEF Fold, Folded
  <2> QED BY <2>1, <2>2
<1>4. SUFFICES ASSUME ~mute' PROVE TablesFollow'
      BY <1>1 DEF TableSound
<1>5. /\ TablesFollow
      /\ "errors" \notin failing \/ (Bad(batch) = {} /\ Reported(failing) = {})
      BY <1>4 DEF Fold, TableSound
<1>6. /\ reports \subseteq reports'
      /\ \A s \in {"state", "executions", "events", "messages"} : s \in failing => s \in reports'
      /\ errors \subseteq errors' /\ Bad(batch) \subseteq errors'
      /\ messages \subseteq messages'
      /\ "messages" \notin failing => Good(batch) \subseteq messages'
      /\ executions \subseteq executions'
      /\ "executions" \notin failing => {p \in Good(batch) : Log[p].exec} \subseteq executions'
      BY <1>5 DEF Fold, Folded, Reported
<1>7. "state" \in reports' \/ latest' = machine'
      BY <1>5, <1>6 DEF Fold, Folded, TablesFollow
<1>8. ASSUME NEW p \in Rows(folded)
      PROVE  /\ Log[p].kind = "fix" /\ Log[p].exec => p \in executions' \/ "executions" \in reports'
             /\ Log[p].kind = "fix" => p \in messages' \/ "messages" \in reports'
             /\ Log[p].kind = "fix" => index'[IdOf[p]] # Nothing \/ "events" \in reports'
             /\ Log[p].kind = "bad" => p \in errors'
  <2>1. IdOf[p] \in Ids
        BY <1>2, GoodFacts, RowAt
  <2> QED BY <1>1, <1>5, <1>6, <2>1 DEF TablesFollow
<1>9. ASSUME NEW p \in Rows(batch)
      PROVE  /\ Log[p].kind = "fix" /\ Log[p].exec => p \in executions' \/ "executions" \in reports'
             /\ Log[p].kind = "fix" => p \in messages' \/ "messages" \in reports'
             /\ Log[p].kind = "fix" => index'[IdOf[p]] # Nothing \/ "events" \in reports'
             /\ Log[p].kind = "bad" => p \in errors'
  <2>1. /\ Log[p].kind = "fix" => p \in Good(batch)
        /\ Log[p].kind = "bad" => p \in Bad(batch)
        BY DEF Rows, Good, Bad
  <2> QED BY <1>1, <1>6, <2>1
<1> QED BY <1>3, <1>7, <1>8, <1>9 DEF TablesFollow

\* A fold that raises leaves the tables as they were; the machine and the index still agree.
LEMMA FoldRaisesFollows ==
    ASSUME TableSound, FoldRaises
    PROVE  TableSound'
<1>1. batch \in Seq(Positions) /\ DOMAIN batch = 1..Len(batch)
      BY DEF TableSound, TableTypeOK
<1>2. PICK n \in 1..Len(batch) : Folded(SubSeq(batch, 1, n), Streams)
      BY <1>1 DEF FoldRaises
<1>3. PICK list \in Seq(Positions) : Folded(list, Streams)
      BY <1>1, <1>2, SplitFacts
<1>4. batch' = <<>> /\ mute' = TRUE
      BY DEF FoldRaises
<1>5. /\ TableTypeOK'
      /\ \A id \in Ids : index'[id] # Nothing => machine'[index'[id]] # Nothing
      BY <1>3, <1>4, FoldTypes
<1> QED BY <1>4, <1>5 DEF TableSound

\* No other step touches the tables, and a new process starts with empty ones.
LEMMA TableStep ==
    ASSUME TableSound, FeedSound, [Next]_feedVars
    PROVE  TableSound'
<1>1. CASE FoldRaises \/ \E failing \in SUBSET Streams : Fold(failing)
      BY <1>1, FoldFollows, FoldRaisesFollows DEF FeedSound, FeedTypeOK
<1>2. CASE Restart
  <2>1. NothingYet'
        BY <1>2 DEF Restart, NothingYet, FreshTables, Blank, Keys, Ids, Positions
  <2>2. NothingYet' => TableSound'
        BY FreshTablesSound, PTL
  <2> QED BY <2>1, <2>2
<1>3. ASSUME UNCHANGED tables, batch' \in Seq(Positions)
      PROVE  TableSound'
      BY <1>3 DEF tables, TableSound, TableTypeOK, TablesFollow, Rows, IdOf, Positions
<1>4. batch' \in Seq(Positions)
      BY FeedStep DEF FeedSound, FeedTypeOK
<1>5. CASE \/ Write \/ Lose \/ Resume \/ ClientThread \/ Drain \/ AddBatch \/ Stop \/ CloseBuffer
           \/ UNCHANGED feedVars
  <2>1. UNCHANGED tables
        BY <1>5 DEF Write, Lose, Resume, ClientThread, Receive, Raises, Offer, Discard, Drain, AddBatch,
                    Stop, CloseBuffer, feedVars
  <2> QED BY <1>3, <1>4, <2>1
<1> QED BY <1>1, <1>2, <1>5 DEF Next, GraphThread

\* A client order id leads to the cache row unless a report says otherwise.
LEMMA SoundIsNotSilent == FeedSound /\ TableSound => NeverSilent
<1> SUFFICES ASSUME FeedSound, TableSound, ~mute
             PROVE  /\ \A k \in Keys : latest[k] # machine[k] => "state" \in reports
                    /\ \A i \in DOMAIN folded :
                         LET p == folded[i] IN
                         /\ Log[p].kind = "fix" /\ Log[p].exec /\ p \notin executions
                              => "executions" \in reports
                         /\ Log[p].kind = "fix" /\ p \notin messages => "messages" \in reports
                         /\ Log[p].kind = "fix" /\ GetByClordid(IdOf[p]) = Nothing
                              => reports \cap {"state", "events"} # {}
                         /\ Log[p].kind = "bad" => p \in errors
    BY DEF NeverSilent
<1>1. TablesFollow /\ index \in [Ids -> Keys \cup {Nothing}] /\ batch \in Seq(Positions)
      BY DEF TableSound, TableTypeOK
<1>2. folded \in Seq(Positions)
      BY DEF FeedSound, FeedTypeOK
<1>3. \A k \in Keys : latest[k] # machine[k] => "state" \in reports
      BY <1>1 DEF TablesFollow
<1>4. ASSUME NEW i \in DOMAIN folded
      PROVE  LET p == folded[i] IN
             /\ Log[p].kind = "fix" /\ Log[p].exec /\ p \notin executions
                  => "executions" \in reports
             /\ Log[p].kind = "fix" /\ p \notin messages => "messages" \in reports
             /\ Log[p].kind = "fix" /\ GetByClordid(IdOf[p]) = Nothing
                  => reports \cap {"state", "events"} # {}
             /\ Log[p].kind = "bad" => p \in errors
  <2> DEFINE p == folded[i]
  <2>1. p \in Rows(folded) /\ p \in Positions
        BY <1>2 DEF Rows, ToSet
  <2> HIDE DEF p
  <2>2. IdOf[p] \in Ids
        BY <1>1, <2>1, GoodFacts
  <2>3. ASSUME Log[p].kind = "fix", "state" \notin reports, "events" \notin reports
        PROVE  GetByClordid(IdOf[p]) # Nothing
    <3>1. index[IdOf[p]] # Nothing
          BY <1>1, <2>1, <2>3 DEF TablesFollow
    <3>2. machine[index[IdOf[p]]] # Nothing /\ latest = machine
          BY <1>1, <2>2, <2>3, <3>1 DEF TableSound, TablesFollow
    <3> QED BY <3>1, <3>2 DEF GetByClordid
  <2> QED BY <1>1, <2>1, <2>3 DEF TablesFollow, p
<1> QED BY <1>3, <1>4

\* A state, an execution, an id or a message that did not reach its table has a row in
\* ingest_errors, unless that could not be published either or a fold raised (the run's NeverSilent; pipeline.py: _publish).
THEOREM FeedNeverSilent == FeedSpec => []NeverSilent
<1>1. Init => TableSound
      BY FreshTablesSound DEF Init, NothingYet
<1>2. FeedSound /\ TableSound /\ [Next]_feedVars => TableSound'
      BY TableStep
<1> QED BY <1>1, <1>2, AlwaysFeedSound, SoundIsNotSilent, PTL DEF FeedSpec
=============================================================================
