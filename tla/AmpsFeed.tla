------------------------------ MODULE AmpsFeed ------------------------------
(***************************************************************************)
(* The AMPS source of the Deephaven app (amps_ingest.py) and the stateful  *)
(* node behind it (pipeline.py), down to the derived tables (dag.py).      *)
(*                                                                         *)
(* Three threads meet here.  The AMPS client thread runs _on_message, one  *)
(* message at a time: offer the row to a bounded buffer, waiting while it  *)
(* is full, then release the bookmark.  The update graph thread drains the *)
(* buffer, adds the batch to fix_raw and folds it, all in one cycle.       *)
(* Another thread may stop the source.  The transaction log, a connection  *)
(* that comes and goes and the memory bookmark store are external.         *)
(*                                                                         *)
(* A message is its position in the log.  What the state machine makes of  *)
(* it is the business of OrderIdentity and OrderChain: here a message has  *)
(* an order key and a client order id, or it is an error.                  *)
(***************************************************************************)
EXTENDS Integers, Sequences, FiniteSets, SequencesExt

CONSTANTS Log,            \* the transaction log: [kind, key, id, exec] of every position
          BookmarkEnv,    \* values of FIX42_AMPS_BOOKMARK, as configured
          Literal,        \* a literal bookmark among them -> its position
          MaxPending,     \* RawBuffer's capacity
          MaxRestarts,    \* bound: restarts of the server
          MaxFailures,    \* bound: messages, batches and streams that fail
          Nothing         \* no key, no row

Positions == DOMAIN Log
Kinds     == {"fix", "bad", "empty"}
Streams   == {"state", "executions", "events", "messages", "errors"}
Keys      == {Log[p].key : p \in Positions}
Ids       == {Log[p].id : p \in Positions}

\* The names that replay the whole log: the memory store of a new process is empty, so that
\* its most recent bookmark is the beginning.  Not configured is "epoch".
FromTheStart == {"epoch", "beginning", "most_recent", "recent"}

ASSUME FeedAssumption == /\ MaxPending \in Nat \ {0}
                         /\ Log \in Seq([kind : Kinds, key : Keys, id : Ids, exec : BOOLEAN])
                         /\ Nothing \notin Positions \cup Keys
                         /\ Literal \in [BookmarkEnv \ (FromTheStart \cup {"now"}) -> Nat]

VARIABLES
    logged,        \* positions written to the transaction log
    bookmark,      \* FIX42_AMPS_BOOKMARK
    from,          \* the subscription delivers what comes after this position
    client,        \* AmpsRawSource._client: "none", "connected" or "lost"
    released,      \* the bookmark store: every position up to here is done with
    hand,          \* the message _on_message has, 0 if none
    offered,       \* its row was offered, only the release is left
    rows, closed,  \* RawBuffer
    stopping,      \* stop(): "no", "begun" or "done"
    cycle,         \* the update graph: "idle", "drained" or "added"
    batch,         \* the rows it drained
    folded,        \* messages the state machine saw, in order
    machine,       \* the state machine's state: key -> the last message folded
    latest,        \* order_state_latest
    index,         \* clordid_index
    executions,    \* executions: the messages whose rows it has
    messages,      \* fix_messages
    errors,        \* ingest_errors: the messages that failed
    reports,       \* ingest_errors: the streams whose batch failed
    lost,          \* history: messages whose handler, batch or fold raised before they were folded
    mute,          \* history: an error batch could not be published, or the fold raised
    restarts, failures

amps     == <<logged, bookmark, from, client, released>>
handler  == <<hand, offered>>
buffer   == <<rows, closed, stopping>>
graph    == <<cycle, batch>>
tables   == <<folded, machine, latest, index, executions, messages, errors, reports, mute>>
counters == <<restarts, failures, lost>>
feedVars == <<amps, handler, buffer, graph, tables, counters>>

Blank(S) == [s \in S |-> Nothing]

-----------------------------------------------------------------------------
\* Mutant: the store remembers what the last process had released.
ResolveBookmark_Remembers(value, written) == IF value = "epoch" THEN 0 ELSE written

\* Where a subscription starts: a literal bookmark is passed on as it is, and AMPS takes one past
\* the end of the log for the end.
ResolveBookmark(value, written) ==
    CASE value \in FromTheStart -> 0
      [] value = "now"          -> written
      [] OTHER                  -> IF Literal[value] <= written THEN Literal[value] ELSE written

FreshTables == /\ folded = <<>> /\ machine = Blank(Keys) /\ latest = Blank(Keys)
               /\ index = Blank(Ids) /\ executions = {} /\ messages = {} /\ errors = {}
               /\ reports = {} /\ mute = FALSE

Init ==
    /\ \E n \in 0..Len(Log), value \in BookmarkEnv :
         logged = n /\ bookmark = value /\ from = ResolveBookmark(value, n) /\ released = from
    /\ client = "connected"
    /\ hand = 0 /\ offered = FALSE
    /\ rows = <<>> /\ closed = FALSE /\ stopping = "no"
    /\ cycle = "idle" /\ batch = <<>>
    /\ FreshTables
    /\ lost = {} /\ restarts = 0 /\ failures = 0

\* A counterparty's message reaches the log.
Write == /\ logged < Len(Log)
         /\ logged' = logged + 1
         /\ UNCHANGED <<bookmark, from, client, released, handler, buffer, graph, tables, counters>>

\* The connection is lost, and HAClient logs on again and resumes after its bookmark.
Lose   == /\ client = "connected" /\ client' = "lost"
          /\ UNCHANGED <<logged, bookmark, from, released, handler, buffer, graph, tables, counters>>
Resume == /\ client = "lost" /\ client' = "connected"
          /\ UNCHANGED <<logged, bookmark, from, released, handler, buffer, graph, tables, counters>>

-----------------------------------------------------------------------------
\* The client thread: _on_message

Receive ==
    /\ client = "connected" /\ hand = 0 /\ released < logged
    /\ hand' = released + 1
    /\ offered' = (Log[released + 1].kind = "empty")
    /\ UNCHANGED <<amps, buffer, graph, tables, counters>>

\* Taking the message apart raises before the row is offered: the bookmark is released all the same.
Raises ==
    /\ hand # 0 /\ ~offered
    /\ failures < MaxFailures /\ failures' = failures + 1
    /\ lost' = lost \cup {hand}
    /\ offered' = TRUE
    /\ UNCHANGED <<amps, hand, buffer, graph, tables, restarts>>

\* Mutant: a full buffer refuses the row.
Offer_Refuses ==
    /\ hand # 0 /\ ~offered
    /\ rows' = IF closed \/ Len(rows) >= MaxPending THEN rows ELSE Append(rows, hand)
    /\ offered' = TRUE
    /\ UNCHANGED <<amps, hand, closed, stopping, graph, tables, counters>>

\* The row goes to the buffer once there is room; a closed buffer refuses it.
Offer ==
    /\ hand # 0 /\ ~offered
    /\ closed \/ Len(rows) < MaxPending
    /\ rows' = IF closed THEN rows ELSE Append(rows, hand)
    /\ offered' = TRUE
    /\ UNCHANGED <<amps, hand, closed, stopping, graph, tables, counters>>

\* The bookmark is released, unless stop() has taken the client away.
Discard ==
    /\ hand # 0 /\ offered
    /\ released' = IF client = "none" THEN released ELSE hand
    /\ hand' = 0 /\ offered' = FALSE
    /\ UNCHANGED <<logged, bookmark, from, client, buffer, graph, tables, counters>>

-----------------------------------------------------------------------------
\* stop(): the client is taken away first, then the buffer closes.

\* Mutant: the buffer closes first.
Stop_ClosesFirst ==
    /\ stopping = "no"
    /\ stopping' = "begun"
    /\ closed' = TRUE
    /\ UNCHANGED <<amps, handler, rows, graph, tables, counters>>

Stop ==
    /\ stopping = "no"
    /\ stopping' = "begun"
    /\ client' = "none"
    /\ UNCHANGED <<logged, bookmark, from, released, handler, rows, closed, graph, tables, counters>>

CloseBuffer ==
    /\ stopping = "begun"
    /\ stopping' = "done"
    /\ closed' = TRUE /\ client' = "none"
    /\ UNCHANGED <<logged, bookmark, from, released, handler, rows, graph, tables, counters>>

-----------------------------------------------------------------------------
\* The update graph: _on_flush, then the listener

\* Mutant: the buffer is drained only when it is full.
Drain_WhenFull ==
    /\ cycle = "idle" /\ Len(rows) >= MaxPending
    /\ batch' = rows /\ rows' = <<>>
    /\ cycle' = "drained"
    /\ UNCHANGED <<amps, handler, closed, stopping, tables, counters>>

Drain ==
    /\ cycle = "idle" /\ rows # <<>>
    /\ batch' = rows /\ rows' = <<>>
    /\ cycle' = "drained"
    /\ UNCHANGED <<amps, handler, closed, stopping, tables, counters>>

\* A batch that cannot be built or added is counted and gone.
AddBatch ==
    /\ cycle = "drained"
    /\ \/ cycle' = "added" /\ UNCHANGED <<batch, counters>>
       \/ /\ failures < MaxFailures
          /\ failures' = failures + 1
          /\ lost' = lost \cup ToSet(batch)
          /\ cycle' = "idle" /\ batch' = <<>>
          /\ UNCHANGED restarts
    /\ UNCHANGED <<amps, handler, buffer, tables>>

\* What messages are as table rows: the last good one of each key, and of each id.
Good(list) == {p \in ToSet(list) : Log[p].kind = "fix"}
Bad(list)  == {p \in ToSet(list) : Log[p].kind = "bad"}
LastBy(list, table, field, value) ==
    [k \in DOMAIN table |->
       LET mine == {i \in DOMAIN list : list[i] \in Good(list) /\ field[list[i]] = k}
       IN  IF mine = {} THEN table[k] ELSE value[list[Max(mine)]]]

KeyOf  == [p \in Positions |-> Log[p].key]
IdOf   == [p \in Positions |-> Log[p].id]
Itself == [p \in Positions |-> p]

\* Mutant: a stream that fails says nothing.
Reported_Never(failing) == {}

\* The streams whose batch failed: each leaves an error row.
Reported(failing) == failing \ {"errors"}

\* The machine and the tables once it has seen some messages and some streams have failed.
Folded(list, failing) ==
    /\ folded'  = folded \o list
    /\ machine' = LastBy(list, machine, KeyOf, Itself)
    /\ latest'  = IF "state" \in failing THEN latest ELSE LastBy(list, latest, KeyOf, Itself)
    /\ index'   = IF "events" \in failing THEN index ELSE LastBy(list, index, IdOf, KeyOf)
    /\ executions' = IF "executions" \in failing THEN executions
                     ELSE executions \cup {p \in Good(list) : Log[p].exec}
    /\ messages' = IF "messages" \in failing THEN messages ELSE messages \cup Good(list)
    /\ errors' = IF "errors" \in failing THEN errors ELSE errors \cup Bad(list)
    /\ reports' = IF "errors" \in failing THEN reports ELSE reports \cup Reported(failing)

\* _process_batch: fold every message, then publish each stream that has rows, errors last.
Fold(failing) ==
    /\ cycle = "added"
    /\ failing \subseteq (IF Good(batch) = {} THEN {"errors"} ELSE Streams)
    /\ "executions" \in failing => \E p \in Good(batch) : Log[p].exec
    /\ failures + Cardinality(failing) <= MaxFailures
    /\ failures' = failures + Cardinality(failing)
    /\ Folded(batch, failing)
    /\ mute' = (mute \/ (("errors" \in failing) /\ (Bad(batch) # {} \/ Reported(failing) # {})))
    /\ cycle' = "idle" /\ batch' = <<>>
    /\ UNCHANGED <<amps, handler, buffer, restarts, lost>>

\* A row of a folded message cannot be made, which no try of the loop catches: the batch ends there,
\* none of its streams is published and the messages after it are not folded.
FoldRaises ==
    /\ cycle = "added"
    /\ failures < MaxFailures /\ failures' = failures + 1
    /\ \E n \in DOMAIN batch :
         /\ Log[batch[n]].kind = "fix"
         /\ Folded(SubSeq(batch, 1, n), Streams)
         /\ lost' = lost \cup ToSet(SubSeq(batch, n + 1, Len(batch)))
    /\ mute' = TRUE
    /\ cycle' = "idle" /\ batch' = <<>>
    /\ UNCHANGED <<amps, handler, buffer, restarts>>

-----------------------------------------------------------------------------
\* The server dies and comes back: nothing of the process is left, and the log is replayed.
Restart ==
    /\ restarts < MaxRestarts
    /\ restarts' = restarts + 1
    /\ from' = ResolveBookmark(bookmark, logged) /\ released' = from'
    /\ client' = "connected"
    /\ hand' = 0 /\ offered' = FALSE
    /\ rows' = <<>> /\ closed' = FALSE /\ stopping' = "no"
    /\ cycle' = "idle" /\ batch' = <<>>
    /\ folded' = <<>> /\ machine' = Blank(Keys) /\ latest' = Blank(Keys)
    /\ index' = Blank(Ids) /\ executions' = {} /\ messages' = {} /\ errors' = {}
    /\ reports' = {} /\ mute' = FALSE /\ lost' = {}
    /\ UNCHANGED <<logged, bookmark, failures>>

ClientThread == Receive \/ Raises \/ Offer \/ Discard
GraphThread  == Drain \/ AddBatch \/ FoldRaises \/ \E failing \in SUBSET Streams : Fold(failing)

Next ==
    \/ Write \/ Lose \/ Resume
    \/ ClientThread \/ GraphThread
    \/ Stop \/ CloseBuffer
    \/ Restart

\* The client thread and the update graph keep running and a lost connection comes back for
\* good some day; nobody has to write, stop or restart.
FeedSpec ==
    /\ Init /\ [][Next]_feedVars
    /\ SF_feedVars(Receive) /\ WF_feedVars(Offer \/ Discard) /\ WF_feedVars(Resume)
    /\ WF_feedVars(GraphThread)

-----------------------------------------------------------------------------
\* Properties

Rows(q) == ToSet(q)
Kept    == Rows(rows) \cup Rows(batch) \cup Rows(folded) \cup lost

\* What the configured bookmark asks for: names that replay the log ask for all of it, after a
\* restart too, wherever the subscription in fact began.
Wanted(p) == bookmark \in FromTheStart \/ from < p

\* A bookmark is released only when its row is kept: what the store has done with is in the
\* buffer, in the cycle, folded, or in a batch or a handler that raised, also while stop() runs.
\* amps_ingest.py: _on_message, _discard, stop.
ReleasedIsKept ==
    \A p \in 1..released : Wanted(p) /\ Log[p].kind # "empty" => p \in Kept

\* The state machine sees the log in order, once each and without a hole, over full buffers,
\* lost connections and restarts; only a handler or a batch that raised leaves one.
\* amps_ingest.py: RawBuffer, _on_flush; pipeline.py: _process_batch.
NoHoles ==
    LET seen == folded \o batch \o rows IN
    /\ \A i, j \in DOMAIN seen : i < j => seen[i] < seen[j]
    /\ \A i \in DOMAIN folded : \A p \in 1..folded[i] :
         Wanted(p) /\ Log[p].kind # "empty" => p \in Rows(folded) \cup lost

\* The cache row of any client order id an order ever had, through the index.
GetByClordid(id) == IF index[id] = Nothing THEN Nothing ELSE latest[index[id]]

\* What a table misses of what the state machine knows never goes unreported: a state, an
\* execution, an id or a message that did not reach its table has a row in ingest_errors, unless
\* that could not be published either or the fold of a batch raised.  pipeline.py: _publish.
NeverSilent ==
    \/ mute
    \/ /\ \A k \in Keys : latest[k] # machine[k] => "state" \in reports
       /\ \A i \in DOMAIN folded :
            LET p == folded[i] IN
            /\ Log[p].kind = "fix" /\ Log[p].exec /\ p \notin executions => "executions" \in reports
            /\ Log[p].kind = "fix" /\ p \notin messages => "messages" \in reports
            /\ Log[p].kind = "fix" /\ GetByClordid(IdOf[p]) = Nothing
                 => reports \cap {"state", "events"} # {}
            /\ Log[p].kind = "bad" => p \in errors

\* Everything in the log is folded, replayed after a restart included, unless the source is
\* stopped, its handler or batch raised or the bookmark asks for what comes later only.
Delivered ==
    \A p \in Positions :
        (p <= logged /\ Log[p].kind # "empty")
            ~> (p \in Rows(folded) \cup lost \/ stopping # "no" \/ ~Wanted(p))
=============================================================================
