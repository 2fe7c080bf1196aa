------------------------- MODULE ConnectorLifecycle -------------------------
(***************************************************************************)
(* One connector from its source to its table, through outages.  A monitor *)
(* thread polls the Deephaven session and turns what it finds into a       *)
(* generation number; a changed generation stops the connector and starts  *)
(* it again, and each start replays the source's whole state.              *)
(*                                                                         *)
(* The parts are the modules that describe them: between the source and    *)
(* the drain thread stands a SpoolQueue, between the drain thread and the  *)
(* server a RowBatcher, whose callers here are the drain thread of each    *)
(* life and the monitor.  The table is keyed, publishing is FULL, and the  *)
(* source is one that replays its state of the world and then sends every  *)
(* change.  All methods of the connector run under its manager's lock, on  *)
(* the monitor thread.                                                     *)
(***************************************************************************)
EXTENDS RowBatcher

CONSTANTS Drains,       \* drain threads, one for each life
          monitor,
          SpoolLimit,   \* entries the spool has room for
          MaxChanges,   \* bound: changes at the source
          MaxTroubles   \* bound: crashes, disconnects and failed starts

Record   == [what : {"record"}, key : Keys, value : 0..(MaxChanges + 1)]
Brackets == [what : {"begin", "end"}]
Entries  == Record \cup Brackets

ASSUME LifecycleAssumption == /\ Callers = Drains \cup {monitor} /\ monitor \notin Drains
                              /\ SpoolLimit \in Nat \ {0}
                              /\ MaxChanges \in Nat /\ MaxTroubles \in Nat

VARIABLES
    source,                                   \* key -> its value at the source, 0 if none
    feed,                                     \* entries the subscription has yet to deliver, or None
    queue, admitted, delivered, accepting,    \* the spool of this life
    life,                                     \* its drain thread, None between lives
    drain, inHand,                            \* per drain thread: how it is, the entry it works on
    started,
    up, exists,                               \* the server: running, holding the table
    flight, alive,                            \* a session is held; the one held works
    bootstrapped, generation,                 \* the rest of the gateway
    lastGeneration,                           \* the manager's
    pc, seen,                                 \* where the monitor is, what refresh() told it
    valueOf,                                  \* row number -> value
    kept,                                     \* a start found rows in the table
    stray,                                    \* a thread of one life was at work in the next
    changes, troubles                         \* source changes and troubles so far

spoolVars     == <<queue, admitted, delivered, accepting>>
drainVars     == <<life, drain, inHand>>
serverStatus  == <<up, exists>>
gatewayVars   == <<flight, alive, bootstrapped, generation>>
monitorVars   == <<lastGeneration, pc, seen>>
connectorVars == <<started, feed, spoolVars, drainVars>>
historyLog    == <<valueOf, kept, stray>>
lifecycleVars == <<vars, connectorVars, source, serverStatus, gatewayVars, monitorVars,
                   historyLog, changes, troubles>>

Spool == INSTANCE SpoolQueue WITH Kinds <- Entries

LifecycleInit ==
    /\ Init
    /\ source = [k \in Keys |-> 1] /\ feed = None
    /\ Spool!QInit
    /\ life = None
    /\ drain = [d \in Drains |-> "new"] /\ inHand = [d \in Drains |-> None]
    /\ started = FALSE
    /\ up = TRUE /\ exists = FALSE
    /\ flight = FALSE /\ alive = FALSE /\ bootstrapped = FALSE /\ generation = 0
    /\ lastGeneration = 0 /\ pc = "idle" /\ seen = 0
    /\ valueOf = <<>> /\ kept = FALSE /\ stray = FALSE /\ changes = 0 /\ troubles = 0

Trouble == /\ troubles < MaxTroubles
           /\ troubles' = troubles + 1

-----------------------------------------------------------------------------
\* The server and the source

Crash == /\ up
         /\ Trouble
         /\ up' = FALSE /\ exists' = FALSE /\ alive' = FALSE
         /\ table' = [k \in Keys |-> 0] /\ kept' = FALSE
         /\ UNCHANGED <<bufferVars, flushVars, arrived, lost, historyVars, connectorVars, source,
                        flight, bootstrapped, generation, monitorVars, valueOf, stray, changes>>

Boot == /\ ~up
        /\ up' = TRUE
        /\ UNCHANGED <<vars, connectorVars, source, exists, gatewayVars, monitorVars, historyLog,
                       changes, troubles>>

\* The session breaks, the server and its tables do not.
Disconnect == /\ alive
              /\ Trouble
              /\ alive' = FALSE
              /\ UNCHANGED <<vars, connectorVars, source, serverStatus, flight, bootstrapped,
                             generation, monitorVars, historyLog, changes>>

\* A record is put or removed at the source; a subscription will say so.
Change(k) ==
    /\ changes < MaxChanges
    /\ changes' = changes + 1
    /\ \E v \in {0, changes + 2} \ {source[k]} :
         /\ source' = [source EXCEPT ![k] = v]
         /\ feed' = IF feed = None THEN None
                    ELSE Append(feed, [what |-> "record", key |-> k, value |-> v])
    /\ UNCHANGED <<vars, started, spoolVars, drainVars, serverStatus, gatewayVars, monitorVars,
                   historyLog, troubles>>

\* The source's delivery thread waits in put() for room in the spool.
Blocked == /\ feed # None /\ feed # <<>>
           /\ accepting /\ Len(queue) >= SpoolLimit

\* The source hands the next entry to the intake, which spools it; a finished
\* spool turns it away.
Delivers == /\ feed # None /\ feed # <<>>
            /\ ~Blocked
            /\ \/ Spool!Admit(Head(feed))
               \/ ~accepting /\ UNCHANGED spoolVars
            /\ feed' = Tail(feed)
            /\ UNCHANGED <<vars, started, drainVars, source, serverStatus, gatewayVars,
                           monitorVars, historyLog, changes, troubles>>

-----------------------------------------------------------------------------
\* The drain thread

Idle(d) == drain[d] = "running" /\ doing[d] = "idle" /\ inHand[d] = None

Drain_Take(d) == /\ Idle(d) /\ d = life
                 /\ Spool!Deliver
                 /\ inHand' = [inHand EXCEPT ![d] = Head(queue).kind]
                 /\ UNCHANGED <<vars, started, feed, life, drain, source, serverStatus,
                                gatewayVars, monitorVars, historyLog, changes, troubles>>

\* take() returns nothing once the spool is finished and drained, or closed.
Drain_Exit(d) == /\ Idle(d)
                 /\ d # life \/ (~accepting /\ queue = <<>>)
                 /\ drain' = [drain EXCEPT ![d] = "gone"]
                 /\ UNCHANGED <<vars, started, feed, spoolVars, life, inHand, source,
                                serverStatus, gatewayVars, monitorVars, historyLog, changes, troubles>>

Handled(d) == /\ drain[d] = "running" /\ inHand[d] # None
              /\ inHand' = [inHand EXCEPT ![d] = None]
              /\ UNCHANGED <<started, feed, spoolVars, life, drain, source, serverStatus,
                             gatewayVars, monitorVars, kept, stray, changes, troubles>>

Drain_Record(d) ==
    /\ Handled(d)
    /\ inHand[d].what = "record"
    /\ Submit(d, inHand[d].key, IF inHand[d].value = 0 THEN "DELETE" ELSE "UPSERT")
    /\ valueOf' = Append(valueOf, inHand[d].value)

Drain_Bracket(d) == /\ Handled(d)
                    /\ \/ inHand[d].what = "begin" /\ BeginReplay(d)
                       \/ inHand[d].what = "end" /\ replaying /\ EndReplay(d)
                       \/ inHand[d].what = "end" /\ ~replaying /\ UNCHANGED vars
                    /\ UNCHANGED valueOf

\* A flush meets the server.  Without a working session or without the table
\* it fails; a thread interrupted in it fails as well, whatever the server did.
Usable == alive /\ exists

InterruptedThread(t) == (t \in Drains /\ t # life) \/ Interrupted(t)

Flush_Fails(t) ==
    /\ GiveUp(t)
    /\ \/ ~Usable /\ UNCHANGED table
       \/ /\ InterruptedThread(t)
          /\ \/ UNCHANGED table
             \/ exists /\ table' = Applied(SubSeq(hand[t], 1, RunLength(hand[t])))
    /\ UNCHANGED faults

Flush(t) == /\ \/ Take(t)
               \/ TakeNothing(t)
               \/ Usable /\ PublishRun(t)
               \/ Flush_Fails(t)
            /\ UNCHANGED <<connectorVars, source, serverStatus, gatewayVars, monitorVars,
                           historyLog, changes, troubles>>

Timer(t) == /\ Tick(t)
            /\ UNCHANGED <<connectorVars, source, serverStatus, gatewayVars, monitorVars,
                           historyLog, changes, troubles>>

-----------------------------------------------------------------------------
\* The monitor's tick(): the gateway's refresh() and what the manager's
\* onGeneration() makes of the answer: stop on a change, start what is not started.

\* Mutant: a start that failed is not tried again.
Answer_NoRetry(generationNow) ==
    /\ seen' = generationNow
    /\ pc' = IF generationNow # lastGeneration THEN "stop" ELSE "idle"
    /\ UNCHANGED lastGeneration

Answer(generationNow) ==
    /\ seen' = generationNow
    /\ pc' = IF generationNow # lastGeneration THEN "stop"
             ELSE IF generationNow = 0 \/ started THEN "idle" ELSE "start"
    /\ UNCHANGED lastGeneration

RefreshLeaves == UNCHANGED <<vars, connectorVars, source, serverStatus, historyLog, changes, troubles>>

\* The held session answers, and the tables bootstrapped in it are there.
Probe == flight /\ alive /\ (bootstrapped => exists)

Refresh_Same == /\ pc = "idle" /\ Probe
                /\ Answer(generation)
                /\ UNCHANGED gatewayVars
                /\ RefreshLeaves

\* Otherwise it is given up, and a new session opened if the server is there:
\* a new generation.
Refresh_Connects == /\ pc = "idle" /\ ~Probe
                    /\ bootstrapped' = FALSE
                    /\ flight' = up /\ alive' = up
                    /\ \/ up /\ generation' = generation + 1 /\ Answer(generation')
                       \/ ~up /\ UNCHANGED generation /\ Answer(0)
                    /\ RefreshLeaves

-----------------------------------------------------------------------------
\* Connector.stop()

StopDone == /\ lastGeneration' = seen
            /\ pc' = IF seen = 0 THEN "idle" ELSE "start"

StopLeaves == UNCHANGED <<source, serverStatus, gatewayVars, seen, historyLog, changes, troubles>>

\* The spool takes no more; whoever waits for room in it is let go.
Stop_Finish == /\ pc = "stop"
               /\ \/ /\ started
                     /\ started' = FALSE
                     /\ Spool!Refuse /\ queue' = queue
                     /\ pc' = "closeSource"
                     /\ UNCHANGED <<feed, lastGeneration, drainVars>>
                  \/ /\ ~started
                     /\ StopDone
                     /\ UNCHANGED connectorVars
               /\ UNCHANGED vars
               /\ StopLeaves

\* Closing the source waits for its delivery thread.
Stop_Source == /\ pc = "closeSource"
               /\ ~Blocked
               /\ feed' = None
               /\ pc' = "join"
               /\ UNCHANGED <<vars, started, spoolVars, drainVars, lastGeneration>>
               /\ StopLeaves

\* The drain thread has finished its backlog, or it is given up and interrupted,
\* with a few seconds to leave; the spool is closed with whatever it still holds.
Stop_Join == /\ pc = "join"
             /\ life' = None
             /\ Spool!Refuse /\ queue' = <<>>
             /\ pc' = "endReplay"
             /\ UNCHANGED <<vars, started, feed, drain, inHand, lastGeneration>>
             /\ StopLeaves

\* What is buffered goes out, by whatever session there is now.
Stop_EndReplay == /\ pc = "endReplay"
                  /\ \/ replaying /\ EndReplay(monitor)
                     \/ ~replaying /\ UNCHANGED vars
                  /\ pc' = "flush"
                  /\ UNCHANGED <<connectorVars, lastGeneration>>
                  /\ StopLeaves

Stop_Flush == /\ pc = "flush"
              /\ FinalFlush(monitor)
              /\ pc' = "close"
              /\ UNCHANGED <<connectorVars, lastGeneration>>
              /\ StopLeaves

Stop_Close == /\ pc = "close"
              /\ Close(monitor)
              /\ StopDone
              /\ UNCHANGED connectorVars
              /\ StopLeaves

-----------------------------------------------------------------------------
\* Connector.start()

StartLeaves == UNCHANGED <<source, up, lastGeneration, seen, valueOf, changes>>

\* Nothing of an earlier life is still at work.
OthersGone == /\ \A d \in Drains : drain[d] # "running"
              /\ \A t \in Threads : doing[t] = "idle"

\* The table is created if it is missing, and what an earlier life left in the
\* batcher is dropped.
Start_Table == /\ pc = "start"
               /\ alive
               /\ exists' = TRUE /\ bootstrapped' = TRUE
               /\ Discard(monitor)
               /\ kept' = (kept \/ \E k \in Keys : table[k] # 0)
               /\ stray' = (stray \/ ~OthersGone)
               /\ pc' = "open"
               /\ UNCHANGED <<connectorVars, flight, alive, generation, troubles>>
               /\ StartLeaves

\* Without a working session the start fails here, to be tried again.
Start_NoTable == /\ pc = "start"
                 /\ ~alive
                 /\ pc' = "idle"
                 /\ UNCHANGED <<vars, connectorVars, exists, gatewayVars, kept, stray, troubles>>
                 /\ StartLeaves

\* A new spool with its drain thread, and a new flush timer.
Start_Intake == /\ pc = "open"
                /\ \E d \in Drains : drain[d] = "new"
                /\ life' = CHOOSE d \in Drains : drain[d] = "new"
                /\ drain' = [drain EXCEPT ![life'] = "running"]
                /\ queue' = <<>> /\ admitted' = 0 /\ delivered' = 0 /\ accepting' = TRUE
                /\ Start(monitor) /\ scheduler' = CHOOSE t \in Timers \ retired : TRUE
                /\ pc' = "subscribe"
                /\ UNCHANGED <<started, feed, inHand, exists, gatewayVars, kept, stray, troubles>>
                /\ StartLeaves

Bracket(what) == <<[what |-> what]>>

\* The state of the source, as a replay between its brackets.
Snapshot == Bracket("begin")
            \o SetToSeq({[what |-> "record", key |-> k, value |-> source[k]] :
                            k \in {k \in Keys : source[k] # 0}})
            \o Bracket("end")

Start_Subscribe == /\ pc = "subscribe"
                   /\ feed' = Snapshot
                   /\ pc' = "subscribed"
                   /\ UNCHANGED <<vars, started, spoolVars, drainVars, exists, gatewayVars,
                                  kept, stray, troubles>>
                   /\ StartLeaves

Start_Done == /\ pc = "subscribed"
              /\ started' = TRUE
              /\ pc' = "idle"
              /\ UNCHANGED <<vars, feed, spoolVars, drainVars, exists, gatewayVars, kept, stray, troubles>>
              /\ StartLeaves

\* The source could not be started, wholly or after some of its replay: it is
\* closed, and then the spool.  The drain thread is interrupted and not waited for.
Start_Fails == /\ pc \in {"subscribe", "subscribed"}
               /\ Trouble
               /\ ~Blocked
               /\ feed' = None
               /\ Spool!Refuse /\ queue' = <<>>
               /\ life' = None
               /\ Close(monitor)
               /\ pc' = "idle"
               /\ UNCHANGED <<started, drain, inHand, exists, gatewayVars, kept, stray>>
               /\ StartLeaves

-----------------------------------------------------------------------------
Refreshes == Refresh_Same \/ Refresh_Connects
Stops     == Stop_Finish \/ Stop_Source \/ Stop_Join \/ Stop_EndReplay \/ Stop_Flush \/ Stop_Close
Starts    == Start_Table \/ Start_NoTable \/ Start_Intake \/ Start_Subscribe \/ Start_Done
Drains_On(d) == Drain_Take(d) \/ Drain_Exit(d) \/ Drain_Record(d) \/ Drain_Bracket(d)

LifecycleNext == \/ Crash \/ Boot \/ Disconnect \/ Start_Fails
                 \/ \E k \in Keys : Change(k)
                 \/ Delivers
                 \/ \E d \in Drains : Drains_On(d)
                 \/ \E t \in Threads : Flush(t)
                 \/ \E t \in Timers : Timer(t)
                 \/ Refreshes \/ Stops \/ Starts

LifecycleSpec == LifecycleInit /\ [][LifecycleNext]_lifecycleVars

\* The server comes back, the source delivers, and every thread goes on.
FairLifecycle == /\ LifecycleSpec
                 /\ WF_lifecycleVars(Boot)
                 /\ WF_lifecycleVars(Delivers)
                 /\ \A d \in Drains : WF_lifecycleVars(Drains_On(d) \/ Flush(d))
                 /\ \A t \in Timers : WF_lifecycleVars(Timer(t) \/ Flush(t))
                 /\ WF_lifecycleVars(Refreshes \/ Stops \/ Starts \/ Flush(monitor))

-----------------------------------------------------------------------------
\* Properties

LifecycleTypeOK ==
    /\ TypeOK
    /\ source \in [Keys -> 0..(MaxChanges + 1)]
    /\ feed = None \/ feed \in Seq(Entries)
    /\ queue \in Seq(Spool!QueueEntry) /\ accepting \in BOOLEAN
    /\ admitted \in Nat /\ delivered \in 0..admitted
    /\ life \in Drains \cup {None}
    /\ drain \in [Drains -> {"new", "running", "gone"}]
    /\ inHand \in [Drains -> Entries \cup {None}]
    /\ started \in BOOLEAN /\ up \in BOOLEAN /\ exists \in BOOLEAN
    /\ flight \in BOOLEAN /\ alive \in BOOLEAN /\ bootstrapped \in BOOLEAN
    /\ generation \in Nat /\ lastGeneration \in 0..generation /\ seen \in 0..generation
    /\ pc \in {"idle", "stop", "closeSource", "join", "endReplay", "flush",
               "close", "start", "open", "subscribe", "subscribed"}
    /\ Len(valueOf) = submitted
    /\ troubles \in 0..MaxTroubles

\* The connector runs on the session that is held, and nothing of the source
\* is still on its way to the table.
Quiet == /\ started /\ alive /\ lastGeneration = generation
         /\ feed = <<>> /\ queue = <<>> /\ \A d \in Drains : inHand[d] = None
         /\ buffer = <<>> /\ \A t \in Threads : hand[t] = <<>>

Shown(k) == IF table[k] = 0 THEN 0 ELSE valueOf[table[k]]

\* "Restarting a connector is a full rehydration by construction": whatever
\* outages, failed starts and changes came before, once the connector is quiet
\* its table is the source's state.  (Two overlapping flushes can break this by
\* themselves; and a table that survived keeps rows deleted meanwhile.)
Rehydrated == Quiet /\ ~overlapped /\ ~stray =>
                  \A k \in Keys : \/ Shown(k) = source[k]
                                  \/ kept /\ source[k] = 0

\* A connector that runs on the held session has its table there, and the
\* gateway probes for it.
TableServed == started /\ alive /\ lastGeneration = generation => exists /\ bootstrapped

\* The server restarts, "so the connector restarts": after the last trouble and
\* the last change everything comes to rest, nobody waiting for ever on a
\* stop, a drain thread or a spool.
Settles == <>[]Quiet

\* Every life ends in the source's state: what is served is served from its own table, a quiet
\* connector's table is the source, and quiet is what it comes to.
\* Connector.java: start, stop, drain; ConnectorManager.java: tick.
ComesBackWhole == []LifecycleTypeOK /\ []Rehydrated /\ []TableServed /\ Settles
=============================================================================
