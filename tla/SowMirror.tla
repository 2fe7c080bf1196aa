------------------------------ MODULE SowMirror -----------------------------
(***************************************************************************)
(* The AMPS SOW source of the order tree (amps_sow.py) between the server  *)
(* and the event tables of OrderTree: one HA client subscribes to every    *)
(* topic with sow_and_subscribe, its receive thread stamps each message    *)
(* with the topic's snapshot epoch and the system's arrival number and     *)
(* offers it to the system's bounded buffer, and the update graph flushes  *)
(* the buffers into the tables.                                            *)
(*                                                                         *)
(* AMPS is external: a SOW per topic; a subscription answers with          *)
(* group_begin, the records, group_end and from then on every change       *)
(* (publish, oof) in order; a lost connection loses what is on the wire,   *)
(* and the HA client reconnects and subscribes again by itself.            *)
(***************************************************************************)
EXTENDS OrderTree, SequencesExt

CONSTANTS Configs,      \* configurations that may be loaded
          Books,        \* initial SOWs: functions from <<topic, key>> to a body
          Changes,      \* what systems publish later: [topic, key, body]; body Nothing: removed
          MaxPending,   \* OTR_AMPS_MAX_PENDING
          MaxChanges,   \* bound: published changes
          MaxFaults     \* bound: lost connections, failed connects and failed flushes

VARIABLES
    sow,        \* the server: <<topic, key>> -> [birth, body]
    wire,       \* messages on the way to the client: [topic, command, key, state]
    session,    \* "none", "connecting", "up", "lost" or "closed"
    placed,     \* the number of topics subscribed to, in their order
    stopping,   \* _stop is set and the buffers are closed
    epoch,      \* topic -> its snapshot number
    arrival,    \* system -> messages taken
    buffer,     \* system -> EventBuffer
    changes, faults,
    torn        \* history: systems with rows drained but not added, since the last subscribe

mirrorVars == <<treeVars, sow, wire, session, placed, stopping, epoch, arrival, buffer,
                changes, faults, torn>>

TopicAt(i) == config.topics[i][2]
Topics     == {TopicAt(i) : i \in DOMAIN config.topics}

-----------------------------------------------------------------------------
\* The server

Snapshot(topic) ==
    LET live == SetToSeq({k \in DOMAIN sow : k[1] = topic})
        bracket(command) == [topic |-> topic, command |-> command, key |-> Nothing,
                             state |-> Nothing]
    IN  <<bracket("group_begin")>>
        \o [i \in DOMAIN live |-> [topic |-> topic, command |-> "sow", key |-> live[i][2],
                                   state |-> sow[live[i]]]]
        \o <<bracket("group_end")>>

\* Is a change of this topic sent to the client?
Subscribed(topic) ==
    /\ session \in {"connecting", "up"}
    /\ \E i \in 1..placed : TopicAt(i) = topic

\* A system publishes a state of an order, or removes the record.
Change(c) ==
    LET k == <<c.topic, c.key>> IN
    /\ changes < MaxChanges /\ c.topic \in Topics
    /\ IF c.body = Nothing
       THEN /\ k \in DOMAIN sow
            /\ sow' = [x \in DOMAIN sow \ {k} |-> sow[x]]
       ELSE /\ k \in DOMAIN sow => sow[k].body # c.body
            /\ sow' = [x \in DOMAIN sow \cup {k} |->
                          IF x # k THEN sow[x]
                          ELSE [birth |-> IF k \in DOMAIN sow THEN sow[k].birth ELSE changes + 1,
                                body  |-> c.body]]
    /\ wire' = IF Subscribed(c.topic)
               THEN Append(wire, [topic |-> c.topic, key |-> c.key,
                                  command |-> IF c.body = Nothing THEN "oof" ELSE "publish",
                                  state |-> IF c.body = Nothing THEN Nothing ELSE sow'[k]])
               ELSE wire
    /\ changes' = changes + 1
    /\ UNCHANGED <<treeVars, session, placed, stopping, epoch, arrival, buffer, faults, torn>>

-----------------------------------------------------------------------------
\* The connect thread

\* The retry loop of start(): another connect(), unless the source was stopped.
Connect ==
    /\ session = "none"
    /\ session' = IF stopping THEN "closed" ELSE "connecting"
    /\ UNCHANGED <<treeVars, sow, wire, placed, stopping, epoch, arrival, buffer, changes,
                   faults, torn>>

\* connect(): the next topic's sow_and_subscribe; after the last one the client is kept.
Subscribe ==
    /\ session = "connecting"
    /\ IF placed < Len(config.topics)
       THEN /\ placed' = placed + 1
            /\ wire' = wire \o Snapshot(TopicAt(placed + 1))
            /\ UNCHANGED session
       ELSE session' = "up" /\ UNCHANGED <<placed, wire>>
    /\ torn' = IF placed = 0 THEN {} ELSE torn
    /\ UNCHANGED <<treeVars, sow, stopping, epoch, arrival, buffer, changes, faults>>

\* Mutant: a connect that fails is not tried again.
ConnectFails_GivesUp ==
    /\ session = "connecting" /\ faults < MaxFaults
    /\ session' = "closed" /\ placed' = 0 /\ wire' = <<>>
    /\ faults' = faults + 1
    /\ UNCHANGED <<treeVars, sow, stopping, epoch, arrival, buffer, changes, torn>>

\* connect() raises: the client is closed, with whatever it had subscribed to.
ConnectFails ==
    /\ session = "connecting" /\ faults < MaxFaults
    /\ session' = "none" /\ placed' = 0 /\ wire' = <<>>
    /\ faults' = faults + 1
    /\ UNCHANGED <<treeVars, sow, stopping, epoch, arrival, buffer, changes, torn>>

Lose ==
    /\ session = "up" /\ faults < MaxFaults
    /\ session' = "lost" /\ wire' = <<>>
    /\ faults' = faults + 1
    /\ UNCHANGED <<treeVars, sow, placed, stopping, epoch, arrival, buffer, changes, torn>>

\* The HA client logs on again and places its subscriptions again.
Relogon ==
    /\ session = "lost"
    /\ session' = "up"
    /\ wire' = FlattenSeq([i \in DOMAIN config.topics |-> Snapshot(TopicAt(i))])
    /\ torn' = {}
    /\ UNCHANGED <<treeVars, sow, placed, stopping, epoch, arrival, buffer, changes, faults>>

\* stop(): closes the buffers, and the client if connect() has returned one.
Stop ==
    /\ ~stopping /\ stopping' = TRUE
    /\ IF session \in {"up", "lost"}
       THEN session' = "closed" /\ wire' = <<>>
       ELSE UNCHANGED <<session, wire>>
    /\ UNCHANGED <<treeVars, sow, placed, epoch, arrival, buffer, changes, faults, torn>>

-----------------------------------------------------------------------------
\* The receive thread

Action == [sow |-> "UPSERT", publish |-> "UPSERT", oof |-> "DELETE", group_end |-> "SNAPSHOT_END"]

RowOf(m) ==
    [topic |-> m.topic, key |-> m.key, action |-> Action[m.command], epoch |-> epoch[m.topic],
     arrival |-> arrival[SystemOf(m.topic)] + 1, state |-> m.state]

\* on_message, which waits in offer() for room in the buffer; a closed one refuses the row.
Receive ==
    /\ wire # <<>>
    /\ LET m == Head(wire)  s == SystemOf(Head(wire).topic) IN
       IF m.command = "group_begin"
       THEN epoch' = [epoch EXCEPT ![m.topic] = @ + 1] /\ UNCHANGED <<arrival, buffer>>
       ELSE /\ stopping \/ Len(buffer[s]) < MaxPending
            /\ arrival' = [arrival EXCEPT ![s] = @ + 1]
            /\ buffer' = IF stopping THEN buffer ELSE [buffer EXCEPT ![s] = Append(@, RowOf(m))]
            /\ UNCHANGED epoch
    /\ wire' = Tail(wire)
    /\ UNCHANGED <<treeVars, sow, session, placed, stopping, changes, faults, torn>>

-----------------------------------------------------------------------------
\* The update graph

\* The ids of a state: its order id, second id and original id.
IdsOf(row) ==
    {<<SystemOf(row.topic), id, row.state.body.id>> :
        id \in {row.state.body.id, row.state.body.alt, row.state.body.orig} \ {Nothing}}

\* An event table with one more row.
Added(ev, row) ==
    LET k == <<row.topic, row.key>> IN
    IF row.action = "SNAPSHOT_END" THEN [ev EXCEPT !.done[row.topic] = row.epoch]
    ELSE [ev EXCEPT !.records = [x \in DOMAIN ev.records \cup {k} |->
                                    IF x # k THEN ev.records[x]
                                    ELSE [action |-> row.action, epoch |-> row.epoch,
                                          arrival |-> row.arrival, state |-> row.state]],
                    !.ids = @ \cup IF row.action = "UPSERT" THEN IdsOf(row) ELSE {}]

\* on_flush: drains the buffer and adds the batch, and the tables follow within the cycle;
\* when the add fails the batch is gone.
Flush(s) ==
    /\ buffer[s] # <<>>
    /\ buffer' = [buffer EXCEPT ![s] = <<>>]
    /\ \/ /\ \E ev \in {FoldLeft(Added, events, buffer[s])} : \E rows \in {NodesOf(ev)} :
               events' = ev /\ nodes' = rows /\ linked' = LinkedOf(rows, ev.ids)
          /\ UNCHANGED <<torn, faults>>
       \/ /\ faults < MaxFaults /\ faults' = faults + 1
          /\ torn' = torn \cup {s}
          /\ UNCHANGED <<events, nodes, linked>>
    /\ UNCHANGED <<config, sow, wire, session, placed, stopping, epoch, arrival, changes>>

-----------------------------------------------------------------------------

Init ==
    /\ config \in {c \in Configs : ConfigAccepted(c)}
    /\ \E book \in Books : sow = [k \in {k \in DOMAIN book : k[1] \in Topics} |->
                                     [birth |-> 0, body |-> book[k]]]
    /\ events = [records |-> [k \in {} |-> Nothing], done |-> [t \in Topics |-> 0], ids |-> {}]
    /\ nodes = [o \in {} |-> Nothing] /\ linked = [o \in {} |-> Nothing]
    /\ epoch = [t \in Topics |-> 0]
    /\ arrival = [s \in Systems |-> 0] /\ buffer = [s \in Systems |-> <<>>]
    /\ wire = <<>> /\ session = "none" /\ placed = 0 /\ stopping = FALSE
    /\ changes = 0 /\ faults = 0 /\ torn = {}

Next ==
    \/ \E c \in Changes : Change(c)
    \/ Connect \/ Subscribe \/ ConnectFails \/ Lose \/ Relogon \/ Stop
    \/ Receive
    \/ \E s \in Systems : Flush(s)

\* The connect and receive threads run, and the update graph calls every flush again and again.
\* (The last is weak fairness of each Flush(s), said of the buffers it empties: TLC need not
\* build the tables of a flush to see whether one is enabled.)
MirrorFairness ==
    /\ WF_mirrorVars(Connect \/ Subscribe \/ Relogon)
    /\ WF_mirrorVars(Receive)
    /\ \A s \in {t[1] : t \in UNION {SeqRange(c.topics) : c \in Configs}} :
           []<>(s \in Systems => buffer[s] = <<>>)

SowMirrorSpec == Init /\ [][Next]_mirrorVars /\ MirrorFairness

-----------------------------------------------------------------------------
\* Properties

MirrorExact == /\ Current = DOMAIN sow
               /\ \A k \in Current : events.records[k].state = sow[k]

\* With a connected client and nothing on its way, the mirror is the SOW, whatever was lost,
\* replayed or removed during a gap: no phantom order, none missing, none stale.
\* amps_sow.py: handler; fixstate_dag.py: sow_mirror.
MirrorSettles ==
    (/\ session = "up" /\ wire = <<>> /\ torn = {} /\ ~stopping
     /\ \A s \in Systems : buffer[s] = <<>>) => MirrorExact

\* A record that stays in the SOW stays in the mirror once it is there: a reconnect never
\* blanks the book while the new snapshot is coming in.  amps_sow.py: epochs.
NeverBlinks ==
    [][\A k \in Current \cap DOMAIN sow :
          (/\ torn' = {} /\ k \in DOMAIN sow'
           /\ events.records[k].state.birth = sow[k].birth /\ sow'[k].birth = sow[k].birth)
          => k \in Current']_mirrorVars

\* The systems come to rest, and then so does the mirror, as long as no batch was lost since
\* the last subscribe.  amps_sow.py: start, EventBuffer.
Converges == <>[](stopping \/ torn # {} \/ MirrorExact)

\* An order stays linked as long as its parent order is there, through amended ids and through
\* reconnects.  states_dag.py: system_ids; dag.py: _id_index.
LinkedWhileParentLives ==
    [][\A o \in DOMAIN nodes \cap DOMAIN nodes' :
          (/\ linked[o].parent \in DOMAIN nodes'
           /\ nodes'[o].level = nodes[o].level /\ nodes'[o].link = nodes[o].link)
          => linked'[o].parent # Nothing]_mirrorVars

\* The passes over the tables find for every order the parent, the root and the depth that the
\* loop of the plain Python finds, and give up on the same orders: those whose links do not
\* end within as many steps as there are levels.  dag.py: _walk; reference.py: reconcile.
DagIsReference ==
    \A index \in {RefIndex} : \A o \in DOMAIN nodes :
        linked[o].parent = RefParent(index, o) /\ Walked(o) = RefWalk(index, o)

\* The gaps explain the exposure: where every order of a bucket hangs below a client order and
\* none below a street order, what the street did beyond the client is what the edges say, and
\* the ladder's street levels add up to it.  dag.py: _recon, _exposure, _ladder.
GapsExplainExposure ==
    \A recon \in {Recon} : \A b \in {Bucket(recon[o].root) : o \in DOMAIN nodes} :
        LET x == Exposure(recon, b) IN
        (\A o \in InBucket(recon, b) :
            /\ recon[o].resolved /\ recon[recon[o].root].state = "ROOT"
            /\ recon[o].parent # Nothing => ~IsStreet(nodes[recon[o].parent]))
        => /\ SumOf({l \in LevelNames : LevelSpec(l).street},
                    LAMBDA l : CumVsClient(recon, b, l) + x.clientCum) = x.streetCum
           /\ x.streetCum - x.clientCum = x.unbooked - x.phantom
           /\ x.clientLeaves = x.held - x.overRouted + x.streetLeaves

\* The tables are right whatever the event tables hold: the tree is the plain walk's, and the
\* exposure of a bucket is what its gaps say.  dag.py: build_order_tree.
TablesSound == DagIsReference /\ GapsExplainExposure
=============================================================================
