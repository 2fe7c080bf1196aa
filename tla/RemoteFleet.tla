----------------------------- MODULE RemoteFleet ----------------------------
(***************************************************************************)
(* The remote-URI collector: it subscribes to the exports of a fleet of    *)
(* leaves (remote.py), builds its tables from them and rebuilds them on    *)
(* reconnect() (collector.py), and runs queries on the leaves for the      *)
(* console and for the dashboard (query_api.py, dashboard.py).             *)
(*                                                                         *)
(* A leaf is a server that may crash and come back; each of its lives is   *)
(* numbered.  A Barrage session, and a console opened on it, is the number *)
(* of the life it was opened to: it is of no use in another one, nor once  *)
(* the collector has closed it.  The console thread runs the startup,      *)
(* reconnect() and live queries one after the other; each press of a       *)
(* dashboard row has a worker thread of its own.  The rows of the tables   *)
(* and the quotes are left out.                                            *)
(***************************************************************************)
EXTENDS Integers, Sequences, FiniteSets, FiniteSetsExt, SequencesExt

CONSTANTS Configs,      \* values of REMOTEURI_LEAVES: sequences of [name, hubs]
          Suffix,       \* name of a leaf -> the suffix of its globals
          Hubs,         \* the topology's hubs
          Exports,      \* LEAF_EXPORTS, in order
          Budget        \* bound: how many <<crashes of leaves, remote queries>> there may be

VARIABLES
    leaves,     \* the configured leaves
    mode,       \* REMOTEURI_RESOLVER: "uri" or "barrage"
    server,     \* leaf -> [phase: "down", "wiring" or "ready", life, globals: the rx_q_ bound]
    engine,     \* leaf -> the life the engine's URI resolver is connected to, or 0
    sessions,   \* _sessions: leaf -> life, or 0
    consoles,   \* _consoles: leaf -> life, or 0, or Closed
    live,       \* _live: <<leaf, query>>
    console,    \* the console thread, [pc, startup, at, got, missing, query]
    tables,     \* the subscriptions under the runtime's tables: [leaf, export, life, via]
    published,  \* the subscriptions under the exported globals
    workers,    \* query -> [pc, job, leaf, hand, ok], the threads of the dashboard
    request,    \* the dashboard's selected row: <<hub, nonce>>, nonce 0 when none
    result,     \* the dashboard's result: [nonce, query, ok], or NoResult
    crashes, queries,
    undropped   \* history: queries whose global could not be deleted

fleetVars == <<server, engine, sessions, consoles>>
panelVars == <<workers, request, result>>
vars == <<leaves, mode, fleetVars, live, console, tables, published, panelVars,
          crashes, queries, undropped>>

Closed   == -1
NoResult == [nonce |-> 0, query |-> 0, ok |-> FALSE]
Names    == {leaves[i].name : i \in DOMAIN leaves}

-----------------------------------------------------------------------------
\* The configuration

HubsOf(leaf) == ToSet(leaf.hubs)

\* parse_leaves
LeavesAccepted(c) ==
    /\ c # <<>>
    /\ \A i \in DOMAIN c : c[i].hubs # <<>> /\ HubsOf(c[i]) \subseteq Hubs
                           /\ Cardinality(HubsOf(c[i])) = Len(c[i].hubs)
    /\ \A i, j \in DOMAIN c :
          i # j => /\ c[i].name # c[j].name /\ Suffix[c[i].name] # Suffix[c[j].name]
                   /\ HubsOf(c[i]) \cap HubsOf(c[j]) = {}

\* CollectorSettings.leaf_of, for a hub some leaf folds
LeafOf(hub) == (CHOOSE leaf \in ToSet(leaves) : hub \in HubsOf(leaf)).name
Folded == UNION {HubsOf(leaf) : leaf \in ToSet(leaves)}

-----------------------------------------------------------------------------
\* The leaves

Up(l)     == server[l].phase # "down"
Ready(l)  == server[l].phase = "ready"
Usable(l, session) == session = server[l].life /\ Up(l)

Crash(l) ==
    /\ <<crashes + 1, queries>> \in Budget /\ Up(l)
    /\ server' = [server EXCEPT ![l].phase = "down", ![l].globals = {}]
    /\ crashes' = crashes + 1
    /\ UNCHANGED <<leaves, mode, engine, sessions, consoles, live, console, tables, published,
                   panelVars, queries, undropped>>

Boot(l) ==
    /\ ~Up(l)
    /\ server' = [server EXCEPT ![l].phase = "wiring", ![l].life = @ + 1]
    /\ UNCHANGED <<leaves, mode, engine, sessions, consoles, live, console, tables, published,
                   panelVars, crashes, queries, undropped>>

\* build_leaf, and the export of its globals: from here on the leaf can be subscribed to.
Wire(l) ==
    /\ server[l].phase = "wiring"
    /\ server' = [server EXCEPT ![l].phase = "ready"]
    /\ UNCHANGED <<leaves, mode, engine, sessions, consoles, live, console, tables, published,
                   panelVars, crashes, queries, undropped>>

Alive(sub) == sub.life = server[sub.leaf].life /\ Ready(sub.leaf)
AllLive(subs) == subs # {} /\ \A sub \in subs : Alive(sub)

-----------------------------------------------------------------------------
\* RemoteResolver

\* session(): the one kept, else a new one; 0 if the leaf cannot be reached.
SessionOf(l) == IF sessions[l] # 0 THEN sessions[l] ELSE IF Up(l) THEN server[l].life ELSE 0

\* The engine keeps the one connection to a leaf it ever made.
EngineOf(l) == IF engine[l] # 0 THEN engine[l] ELSE IF Up(l) THEN server[l].life ELSE 0

ByUri(l) == mode = "uri" /\ Ready(l) /\ EngineOf(l) = server[l].life

\* Mutant: when the engine cannot resolve the URI there is no other way.
BySession_Never(l) == mode = "barrage"

\* subscribe() uses a session in barrage mode, and in uri mode when resolve() fails.
BySession(l) == mode = "barrage" \/ ~ByUri(l)

\* One subscribe() of the pass of resolve_once over the leaves and their exports.
Subscribe ==
    /\ console.pc = "resolve" /\ console.at <= Len(leaves) * Len(Exports)
    /\ LET l   == leaves[((console.at - 1) \div Len(Exports)) + 1].name
           e   == Exports[((console.at - 1) % Len(Exports)) + 1]
           got == IF ByUri(l) THEN {"uri"}
                  ELSE IF BySession(l) /\ Ready(l) /\ Usable(l, SessionOf(l)) THEN {"session"}
                  ELSE {}
       IN  /\ engine'   = IF mode = "uri" THEN [engine EXCEPT ![l] = EngineOf(l)] ELSE engine
           /\ sessions' = IF BySession(l) THEN [sessions EXCEPT ![l] = SessionOf(l)] ELSE sessions
           /\ console'  = [console EXCEPT !.at = @ + 1,
                  !.got = @ \cup {[leaf |-> l, export |-> e, life |-> server[l].life, via |-> v] :
                                     v \in got},
                  !.missing = IF got = {} THEN @ \cup {<<l, e>>} ELSE @]
    /\ UNCHANGED <<leaves, mode, server, consoles, live, tables, published, panelVars,
                   crashes, queries, undropped>>

\* wait_for_all: an incomplete pass of the startup is made again, until the time is up.
Retry ==
    /\ console.pc = "resolve" /\ console.at > Len(leaves) * Len(Exports)
    /\ console.startup /\ console.missing # {}
    /\ console' = [console EXCEPT !.at = 1, !.got = {}, !.missing = {}]
    /\ UNCHANGED <<leaves, mode, fleetVars, live, tables, published, panelVars,
                   crashes, queries, undropped>>

\* The last pass was complete, and the joins of build_collector accept what it got: no two
\* leaves have the orders of one hub.
Complete ==
    /\ console.missing = {}
    /\ \A i, j \in DOMAIN leaves : i # j => HubsOf(leaves[i]) \cap HubsOf(leaves[j]) = {}

\* The rest of connect().  An incomplete report builds nothing.
Connected ==
    /\ console.pc = "resolve" /\ console.at > Len(leaves) * Len(Exports)
    /\ console' = [console EXCEPT !.pc = "idle", !.startup = FALSE, !.got = {}, !.missing = {}]
    /\ IF Complete
       THEN /\ tables' = console.got /\ published' = console.got
       ELSE UNCHANGED <<tables, published>>
    /\ UNCHANGED <<leaves, mode, fleetVars, live, panelVars, crashes, queries,
                   undropped>>

\* reconnect(), called from the console
Reconnect ==
    /\ console.pc = "idle"
    /\ console' = [console EXCEPT !.pc = "release"]
    /\ UNCHANGED <<leaves, mode, fleetVars, live, tables, published, panelVars, crashes, queries, undropped>>

\* A console on the leaf, the one kept or a new one.
ConsoleOf(l) == IF consoles[l] # 0 THEN consoles[l] ELSE SessionOf(l)

\* release_live: del of each live query's global, as far as its leaf can be reached.
Release ==
    /\ console.pc = "release"
    /\ LET targets == {q[1] : q \in live}
           dropped == {q \in live : Usable(q[1], ConsoleOf(q[1]))}
       IN  /\ server' = [l \in Names |-> [server[l] EXCEPT
                            !.globals = @ \ {q[2] : q \in {d \in dropped : d[1] = l}}]]
           /\ undropped' = undropped \cup {q[2] : q \in live \ dropped}
           /\ sessions' = [l \in Names |-> IF l \in targets /\ consoles[l] = 0
                                           THEN SessionOf(l) ELSE sessions[l]]
           /\ consoles' = [l \in Names |-> IF l \in targets /\ consoles[l] = 0 /\ Usable(l, SessionOf(l))
                                           THEN SessionOf(l) ELSE consoles[l]]
    /\ live' = {}
    /\ console' = [console EXCEPT !.pc = "close"]
    /\ UNCHANGED <<leaves, mode, engine, tables, published, panelVars, crashes, queries>>

Cut(subs) == {IF sub.via = "session" THEN [sub EXCEPT !.life = 0] ELSE sub : sub \in subs}

\* The rest of close(): the sessions are closed, with the subscriptions made through them, also
\* under the feet of a worker that has one in hand.
Close ==
    /\ console.pc = "close"
    /\ sessions' = [l \in Names |-> 0] /\ consoles' = [l \in Names |-> 0]
    /\ workers' = [q \in DOMAIN workers |-> [workers[q] EXCEPT !.hand = IF @ = 0 THEN 0 ELSE Closed]]
    /\ tables' = Cut(tables) /\ published' = Cut(published)
    /\ console' = [console EXCEPT !.pc = "resolve", !.at = 1]
    /\ UNCHANGED <<leaves, mode, server, engine, live, request, result, crashes, queries,
                   undropped>>

-----------------------------------------------------------------------------
\* query_live, from the console

\* The global is bound on the leaf, unless the script cannot be sent.
LiveBind(hub) ==
    /\ console.pc = "idle" /\ published # {} /\ <<crashes, queries + 1>> \in Budget
    /\ queries' = queries + 1
    /\ LET l == LeafOf(hub) IN
       /\ IF consoles[l] = 0 THEN sessions' = [sessions EXCEPT ![l] = SessionOf(l)]
          ELSE UNCHANGED sessions
       /\ IF Ready(l) /\ Usable(l, ConsoleOf(l))
          THEN /\ server' = [server EXCEPT ![l].globals = @ \cup {queries + 1}]
               /\ consoles' = [consoles EXCEPT ![l] = ConsoleOf(l)]
               /\ console' = [console EXCEPT !.pc = "live", !.query = <<l, queries + 1>>]
          ELSE UNCHANGED <<server, consoles, console>>
    /\ UNCHANGED <<leaves, mode, engine, live, tables, published, panelVars, crashes,
                   undropped>>

\* It is subscribed to and stays bound; when that fails it is dropped.
LiveSubscribe ==
    /\ console.pc = "live"
    /\ LET l == console.query[1]  q == console.query[2] IN
       /\ sessions' = [sessions EXCEPT ![l] = SessionOf(l)]
       /\ IF Usable(l, SessionOf(l)) /\ q \in server[l].globals
          THEN live' = live \cup {console.query} /\ UNCHANGED <<server, undropped>>
          ELSE /\ server' = [server EXCEPT ![l].globals = IF Usable(l, ConsoleOf(l))
                                                          THEN @ \ {q} ELSE @]
               /\ undropped' = IF Usable(l, ConsoleOf(l)) THEN undropped ELSE undropped \cup {q}
               /\ UNCHANGED live
    /\ console' = [console EXCEPT !.pc = "idle", !.query = <<>>]
    /\ UNCHANGED <<leaves, mode, engine, consoles, tables, published, panelVars, crashes,
                   queries>>

-----------------------------------------------------------------------------
\* The dashboard

\* Mutant: what tells two presses apart is the row.
Nonce_Row(hub, q) == CHOOSE i \in 1..Len(SetToSeq(Hubs)) : SetToSeq(Hubs)[i] = hub

\* _selection_handler: each press has a nonce of its own.
Nonce(hub, q) == q

\* A row is pressed, and the effect of the new request starts a worker.
Press(hub) ==
    /\ published # {} /\ <<crashes, queries + 1>> \in Budget
    /\ queries' = queries + 1
    /\ request' = <<hub, Nonce(hub, queries + 1)>>
    /\ workers' = [q \in DOMAIN workers \cup {queries + 1} |->
                      IF q \in DOMAIN workers THEN workers[q]
                      ELSE [pc |-> "console", job |-> "bind", leaf |-> LeafOf(hub), hand |-> 0,
                            nonce |-> Nonce(hub, queries + 1), ok |-> FALSE]]
    /\ UNCHANGED <<leaves, mode, fleetVars, live, console, tables, published, result, crashes, undropped>>

\* [Find] and [Clear]
ClearRequest ==
    /\ request[2] # 0
    /\ request' = <<request[1], 0>> /\ result' = NoResult
    /\ UNCHANGED <<leaves, mode, fleetVars, live, console, tables, published, workers, crashes, queries, undropped>>

-----------------------------------------------------------------------------
\* query_snapshot, in a worker

At(q, pc) == q \in DOMAIN workers /\ workers[q].pc = pc

\* Execution of the worker's job stops: a query that is not bound has failed, a cleanup that
\* fails is only printed.
JobFails(q) == workers' = [workers EXCEPT ![q].pc = "answer", ![q].hand = 0]

\* _console: the kept one is taken, or the session to open one on.
WorkerConsole(q) ==
    /\ At(q, "console")
    /\ LET l == workers[q].leaf IN
       IF consoles[l] # 0
       THEN /\ workers' = [workers EXCEPT ![q].pc = "execute", ![q].hand = consoles[l]]
            /\ UNCHANGED <<sessions, undropped>>
       ELSE /\ sessions' = [sessions EXCEPT ![l] = SessionOf(l)]
            /\ IF SessionOf(l) # 0
               THEN /\ workers' = [workers EXCEPT ![q].pc = "open", ![q].hand = SessionOf(l)]
                    /\ UNCHANGED undropped
               ELSE /\ JobFails(q)
                    /\ undropped' = IF workers[q].job = "drop" THEN undropped \cup {q} ELSE undropped
    /\ UNCHANGED <<leaves, mode, server, engine, consoles, live, console, tables, published, request,
                   result, crashes, queries>>

\* The console is opened on that session.
WorkerOpen(q) ==
    /\ At(q, "open")
    /\ IF Usable(workers[q].leaf, workers[q].hand)
       THEN workers' = [workers EXCEPT ![q].pc = "keep"] /\ UNCHANGED undropped
       ELSE /\ JobFails(q)
            /\ undropped' = IF workers[q].job = "drop" THEN undropped \cup {q} ELSE undropped
    /\ UNCHANGED <<leaves, mode, fleetVars, live, console, tables, published, request, result,
                   crashes, queries>>

\* The console is kept for the next query, even if the session was closed meanwhile.
WorkerKeep(q) ==
    /\ At(q, "keep")
    /\ consoles' = [consoles EXCEPT ![workers[q].leaf] = workers[q].hand]
    /\ workers' = [workers EXCEPT ![q].pc = "execute"]
    /\ UNCHANGED <<leaves, mode, server, engine, sessions, live, console, tables, published, request,
                   result, crashes, queries, undropped>>

\* executeCode: binds or deletes the query's global.
WorkerExecute(q) ==
    /\ At(q, "execute")
    /\ LET l == workers[q].leaf  w == workers[q] IN
       IF Usable(l, w.hand) /\ Ready(l)
       THEN /\ server' = [server EXCEPT ![l].globals = IF w.job = "bind" THEN @ \cup {q} ELSE @ \ {q}]
            /\ workers' = [workers EXCEPT ![q].pc = IF w.job = "bind" THEN "session" ELSE "answer",
                                          ![q].hand = 0]
            /\ UNCHANGED undropped
       ELSE /\ JobFails(q)
            /\ undropped' = IF w.job = "drop" THEN undropped \cup {q} ELSE undropped
            /\ UNCHANGED server
    /\ UNCHANGED <<leaves, mode, engine, sessions, consoles, live, console, tables, published,
                   request, result, crashes, queries>>

WorkerSession(q) ==
    /\ At(q, "session")
    /\ LET l == workers[q].leaf IN
       /\ sessions' = [sessions EXCEPT ![l] = SessionOf(l)]
       /\ workers' = [workers EXCEPT ![q].pc = "snapshot", ![q].hand = SessionOf(l)]
    /\ UNCHANGED <<leaves, mode, server, engine, consoles, live, console, tables, published, request,
                   result, crashes, queries, undropped>>

\* Mutant: the global is deleted only after a snapshot that went well.
WorkerSnapshot_NoFinally(q) ==
    /\ At(q, "snapshot")
    /\ LET got == Usable(workers[q].leaf, workers[q].hand)
                  /\ q \in server[workers[q].leaf].globals IN
       workers' = [workers EXCEPT ![q].pc = IF got THEN "console" ELSE "answer", ![q].job = "drop",
                                  ![q].hand = 0, ![q].ok = got]
    /\ UNCHANGED <<leaves, mode, fleetVars, live, console, tables, published, request, result,
                   crashes, queries, undropped>>

\* The snapshot is taken, or fails; then the global is deleted.
WorkerSnapshot(q) ==
    /\ At(q, "snapshot")
    /\ LET got == Usable(workers[q].leaf, workers[q].hand)
                  /\ q \in server[workers[q].leaf].globals IN
       workers' = [workers EXCEPT ![q].pc = "console", ![q].job = "drop", ![q].hand = 0,
                                  ![q].ok = got]
    /\ UNCHANGED <<leaves, mode, fleetVars, live, console, tables, published, request, result,
                   crashes, queries, undropped>>

\* set_result, whatever was pressed meanwhile.
WorkerAnswer(q) ==
    /\ At(q, "answer")
    /\ result' = [nonce |-> workers[q].nonce, query |-> q, ok |-> workers[q].ok]
    /\ workers' = [workers EXCEPT ![q].pc = "done", ![q].ok = FALSE]
    /\ UNCHANGED <<leaves, mode, fleetVars, live, console, tables, published, request, crashes, queries, undropped>>

\* The panel shows the executions, or the error, of the selected row.
Shown == request[2] # 0 /\ result.nonce = request[2]

-----------------------------------------------------------------------------

\* wire_collector: the startup makes its first pass.
Init ==
    /\ leaves \in {c \in Configs : LeavesAccepted(c)}
    /\ mode \in {"uri", "barrage"}
    /\ server = [l \in Names |-> [phase |-> "wiring", life |-> 1, globals |-> {}]]
    /\ engine = [l \in Names |-> 0] /\ sessions = [l \in Names |-> 0]
    /\ consoles = [l \in Names |-> 0] /\ live = {}
    /\ console = [pc |-> "resolve", startup |-> TRUE, at |-> 1, got |-> {}, missing |-> {},
                  query |-> <<>>]
    /\ tables = {} /\ published = {}
    /\ workers = <<>> /\ request = <<CHOOSE h \in Hubs : TRUE, 0>> /\ result = NoResult
    /\ crashes = 0 /\ queries = 0 /\ undropped = {}

WorkerStep(q) ==
    \/ WorkerConsole(q) \/ WorkerOpen(q) \/ WorkerKeep(q) \/ WorkerExecute(q)
    \/ WorkerSession(q) \/ WorkerSnapshot(q) \/ WorkerAnswer(q)

ConsoleStep == Subscribe \/ Connected \/ Release \/ Close \/ LiveSubscribe

Next ==
    \/ \E l \in Names : Crash(l) \/ Boot(l) \/ Wire(l)
    \/ ConsoleStep \/ Retry \/ Reconnect
    \/ \E hub \in Folded : LiveBind(hub) \/ Press(hub)
    \/ ClearRequest
    \/ \E q \in DOMAIN workers : WorkerStep(q)

\* The leaves' containers are restarted, the console thread gets on, the startup's time is up
\* at last, and the operator calls reconnect() while the exported tables are not live.
FleetFairness ==
    /\ WF_vars(\E l \in Names : Boot(l) \/ Wire(l))
    /\ WF_vars(ConsoleStep) /\ SF_vars(Connected)
    /\ WF_vars(Reconnect /\ ~AllLive(published))

RemoteFleetSpec == Init /\ [][Next]_vars /\ FleetFairness

-----------------------------------------------------------------------------
\* Properties

\* However the leaves crash and come back, at startup, between the subscriptions of a pass or
\* while a worker or the console has a session open, reconnect() brings the exported tables
\* back.  collector.py: reconnect; remote.py: subscribe, close.
Recovers == []<>AllLive(published)

\* No query leaves its global on a leaf: what is bound there belongs to a query that is under
\* way or to a live one, or its del could not be sent; and a live query's global stays.
\* remote.py: query_snapshot, query_live, release_live.
GlobalsAccounted ==
    \A l \in Names :
        /\ \A q \in server[l].globals :
              \/ <<l, q>> \in live \/ console.query = <<l, q>> \/ q \in undropped
              \/ q \in DOMAIN workers /\ workers[q].pc \notin {"answer", "done"}
        /\ (crashes = 0) => \A q \in live : q[1] = l => q[2] \in server[l].globals

\* What the panel shows was fetched for the last press, not for an earlier one of the same
\* row.  dashboard.py: _selection_handler, run_remote_query.
PanelAnswersPress ==
    Shown => \A q \in DOMAIN workers : q <= result.query
=============================================================================
