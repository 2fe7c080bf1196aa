------------------------------ MODULE OrderTree -----------------------------
(***************************************************************************)
(* The tables of the order-tree reconciliation: what is current among the  *)
(* published SOW events (fixstate_dag.py), the orders and levels they fold *)
(* to (states.py, states_dag.py), and the tree built from them (dag.py)    *)
(* beside the plain-Python walk it is held to (reference.py).              *)
(*                                                                         *)
(* An event table is represented by what the queries read of it: the last  *)
(* row of each SOW record, the last finished snapshot of each topic and    *)
(* the ids ever seen.  A record body is [id, alt, orig, child, moniker,    *)
(* sym, qty, cum, leaves]: tags 37, 11, 41 and 26009, the account, symbol  *)
(* with side, and the quantities.  Prices, statuses, destinations and the  *)
(* sequence tag, which no default configuration sets, are left out.        *)
(***************************************************************************)
EXTENDS Integers, Sequences, FiniteSets, FiniteSetsExt

CONSTANTS Nothing,      \* an absent tag, a null cell, an empty string
          QtyTol        \* OTR_QTY_TOL

VARIABLES
    config,     \* [levels, rules, topics]: the levels, the rules of each
                \* system, the topics as <<system, topic>> in their order
    events,     \* what the queries read of the event tables, [records, done, ids]:
                \*   records: last_by (Topic, SowKey), <<topic, key>> -> its last event
                \*   done: last_by Topic of SNAPSHOT_END, topic -> its epoch, or 0
                \*   ids: system_ids over every UPSERT, <<system, id, order id>>
    nodes,      \* otr_nodes
    linked      \* the parent and the link state of each order

treeVars == <<config, events, nodes, linked>>

-----------------------------------------------------------------------------
\* The configuration

SeqRange(s) == {s[i] : i \in DOMAIN s}
LevelNames  == {l.name : l \in SeqRange(config.levels)}
LevelSpec(name) == CHOOSE l \in SeqRange(config.levels) : l.name = name
Systems  == {l.system : l \in SeqRange(config.levels)}
MaxDepth == Len(config.levels)
SystemOf(topic) == (CHOOSE s \in SeqRange(config.topics) : s[2] = topic)[1]

\* parse_topology: named levels, parents among the systems of some level, a root level, no
\* root level that is a street level.
TopologyAccepted(levels) ==
    /\ levels # <<>>
    /\ \A i, j \in DOMAIN levels : i # j => levels[i].name # levels[j].name
    /\ \A i \in DOMAIN levels :
         /\ levels[i].street => levels[i].parents # <<>>
         /\ Cardinality(SeqRange(levels[i].parents)) = Len(levels[i].parents)
         /\ SeqRange(levels[i].parents) \subseteq {l.system : l \in SeqRange(levels)}
    /\ \E i \in DOMAIN levels : levels[i].parents = <<>>

\* parse_state_config: each level is mapped once, by its own system, with a parent link unless
\* it is a root; only a system's last rule may do without a condition.
RulesAccepted(levels, rules) ==
    LET rulesFor(name) == {<<s, j>> \in (DOMAIN rules) \X (1..Len(levels)) :
                              j \in DOMAIN rules[s] /\ rules[s][j].level = name}
    IN  /\ DOMAIN rules \subseteq {l.system : l \in SeqRange(levels)}
        /\ \A i \in DOMAIN levels : Cardinality(rulesFor(levels[i].name)) = 1
        /\ \A s \in DOMAIN rules : \A j \in DOMAIN rules[s] :
             /\ rules[s][j].when = Nothing => j = Len(rules[s])
             /\ \E l \in SeqRange(levels) :
                  /\ l.name = rules[s][j].level /\ l.system = s
                  /\ (l.parents = <<>>) <=> (rules[s][j].link = Nothing)

\* parse_fix_config: beyond that, no topic belongs to two systems.
ConfigAccepted(c) ==
    /\ TopologyAccepted(c.levels)
    /\ RulesAccepted(c.levels, c.rules)
    /\ \A s, t \in SeqRange(c.topics) : s[2] = t[2] => s[1] = t[1]

-----------------------------------------------------------------------------
\* From events to orders

\* Mutant: a record that the last snapshot did not bring stays.
CurrentOf_KeepsAll(ev) == {k \in DOMAIN ev.records : ev.records[k].action = "UPSERT"}

\* Mutant: a record is gone as soon as the next snapshot has begun to come in.
CurrentOf_Begun(ev) ==
    {k \in DOMAIN ev.records : /\ ev.records[k].action = "UPSERT"
                               /\ \A j \in DOMAIN ev.records :
                                      j[1] = k[1] => ev.records[j].epoch <= ev.records[k].epoch}

\* sow_mirror: the records whose last event is an UPSERT of the topic's last finished snapshot
\* or of a later one.
CurrentOf(ev) ==
    {k \in DOMAIN ev.records : /\ ev.records[k].action = "UPSERT"
                               /\ ev.records[k].epoch >= ev.done[k[1]]}

Current == CurrentOf(events)
OrderKey(ev, k) == <<SystemOf(k[1]), ev.records[k].state.body.id>>

\* fold_system: of the current records of each order the one that arrived last.
Latest(ev) ==
    {k \in CurrentOf(ev) : \A other \in CurrentOf(ev) :
        OrderKey(ev, other) = OrderKey(ev, k) =>
            ev.records[other].arrival <= ev.records[k].arrival}

\* The first level rule of the system whose condition the state meets, if any.
RuleOf(system, body) ==
    LET matching == {j \in DOMAIN config.rules[system] :
                        config.rules[system][j].when = Nothing
                        \/ body[config.rules[system][j].when] # Nothing}
    IN  IF matching = {} THEN Nothing ELSE config.rules[system][Min(matching)]

Canonical(system, body) ==
    LET rule == RuleOf(system, body) IN
    [level |-> rule.level, alt |-> body.alt,
     link |-> IF rule.link = Nothing THEN Nothing ELSE body[rule.link],
     moniker |-> body.moniker, sym |-> body.sym,
     qty |-> body.qty, cum |-> body.cum, leaves |-> body.leaves]

\* otr_nodes: one row per order that has an id and a level.
NodesOf(ev) ==
    LET placed == {k \in Latest(ev) :
                      /\ ev.records[k].state.body.id # Nothing
                      /\ RuleOf(SystemOf(k[1]), ev.records[k].state.body) # Nothing}
    IN  [o \in {OrderKey(ev, k) : k \in placed} |->
            Canonical(o[1], ev.records[CHOOSE k \in placed : OrderKey(ev, k) = o].state.body)]

-----------------------------------------------------------------------------
\* The tree of the orders in `rows`, whose systems have used the ids in `ids`

IsRootLevel(row) == LevelSpec(row.level).parents = <<>>
IsStreet(row)    == LevelSpec(row.level).street

Part(byAlt, byOrder, earlier) ==
    LET part == IF byAlt # {} THEN byAlt ELSE IF byOrder # {} THEN byOrder ELSE earlier
    IN  IF part = {} THEN Nothing ELSE CHOOSE o \in part : TRUE

ByOrder(rows, system, id) == {o \in DOMAIN rows : o[1] = system /\ o[2] = id}
ByAlt(rows, system, id)   == {o \in DOMAIN rows : o[1] = system /\ rows[o].alt = id}

\* Mutant: the ids that orders had before are not looked at.
OwnerOf_NoHistory(rows, ids, system, id) ==
    IF id = Nothing THEN Nothing
    ELSE Part(ByAlt(rows, system, id), ByOrder(rows, system, id), {})

\* otr_id_index: the order an id belongs to in a system; its second id wins over the order id
\* and both over the ids it had before.
OwnerOf(rows, ids, system, id) ==
    IF id = Nothing THEN Nothing
    ELSE Part(ByAlt(rows, system, id), ByOrder(rows, system, id),
              {o \in DOMAIN rows : o[1] = system /\ <<system, id, o[2]>> \in ids})

\* The first parent system that knows the link id.
ParentKey(rows, ids, o) ==
    LET parents == LevelSpec(rows[o].level).parents
        known   == {i \in DOMAIN parents : OwnerOf(rows, ids, parents[i], rows[o].link) # Nothing}
    IN  IF known = {} THEN Nothing ELSE OwnerOf(rows, ids, parents[Min(known)], rows[o].link)

LinkState(row, parent) ==
    IF IsRootLevel(row) THEN "ROOT"
    ELSE IF row.link = Nothing THEN "NO_LINK"
    ELSE IF parent = Nothing THEN "ORPHAN" ELSE "LINKED"

\* _link
LinkedOf(rows, ids) ==
    [o \in DOMAIN rows |-> [parent |-> ParentKey(rows, ids, o),
                            state  |-> LinkState(rows[o], ParentKey(rows, ids, o))]]

\* One pass of the walk: a step up for every order that is not at its top.
StepUp(w) ==
    IF w.up = Nothing THEN w
    ELSE [root |-> w.up, depth |-> w.depth + 1, up |-> linked[w.up].parent]

\* Mutant: one pass less than there are levels.
Walked_Short(o) ==
    LET pass[n \in 0..MaxDepth - 1] ==
          IF n = 0 THEN [root |-> o, depth |-> 0, up |-> linked[o].parent]
          ELSE StepUp(pass[n - 1])
    IN  [root |-> pass[MaxDepth - 1].root, depth |-> pass[MaxDepth - 1].depth,
         resolved |-> pass[MaxDepth - 1].up = Nothing]

\* _walk: max_depth passes of "one link up" over every order.
Walked(o) ==
    LET pass[n \in 0..MaxDepth] ==
          IF n = 0 THEN [root |-> o, depth |-> 0, up |-> linked[o].parent]
          ELSE StepUp(pass[n - 1])
    IN  [root |-> pass[MaxDepth].root, depth |-> pass[MaxDepth].depth,
         resolved |-> pass[MaxDepth].up = Nothing]

SumOf(S, f(_)) == MapThenSumSet(f, S)
Above(n) == IF n > 0 THEN n ELSE 0

\* FillGap (of "cum") and RouteGap (of "leaves"): own quantity less the children's.
Gap(kids, o, field) ==
    IF IsStreet(nodes[o]) THEN 0
    ELSE nodes[o][field] - SumOf(kids, LAMBDA k : nodes[k][field])

\* _break_kind: the first of the breaks an order has.
BreakKind(row, link, walk, parentRow, fill, route) ==
    CASE link.state \in {"ORPHAN", "NO_LINK"} -> link.state
      [] link.state \in {"ROOT", "LINKED"} /\ ~walk.resolved -> "TOO_DEEP"
      [] OTHER ->
           IF link.parent # Nothing /\ row.sym # parentRow.sym THEN "MISMATCH"
           ELSE IF row.cum > row.qty + QtyTol THEN "OVERFILL"
           ELSE IF fill < -QtyTol THEN "UNBOOKED_FILL"
           ELSE IF fill > QtyTol THEN "PHANTOM_FILL"
           ELSE IF route < -QtyTol /\ row.leaves <= QtyTol THEN "CHILD_STILL_OPEN"
           ELSE IF route < -QtyTol THEN "OVER_ROUTED"
           ELSE IF route > QtyTol THEN "HELD"
           ELSE "NONE"

RedKinds == {"ORPHAN", "NO_LINK", "TOO_DEEP", "MISMATCH", "OVERFILL", "UNBOOKED_FILL",
             "PHANTOM_FILL", "CHILD_STILL_OPEN", "OVER_ROUTED"}

\* otr_recon without the flags that need the rows of other orders.
Recon ==
    [o \in DOMAIN nodes |->
        LET parent == linked[o].parent
            walk   == Walked(o)
            kids   == {k \in DOMAIN nodes : linked[k].parent = o}
            fill   == Gap(kids, o, "cum")
            route  == Gap(kids, o, "leaves")
        IN  [parent |-> parent, state |-> linked[o].state,
             root |-> walk.root, depth |-> walk.depth, resolved |-> walk.resolved,
             fill |-> fill, route |-> route,
             kind |-> BreakKind(nodes[o], linked[o], walk,
                                IF parent = Nothing THEN Nothing ELSE nodes[parent],
                                fill, route)]]

Bucket(root) == <<nodes[root].moniker, nodes[root].sym>>
InBucket(recon, b) == {o \in DOMAIN nodes : Bucket(recon[o].root) = b}

\* otr_exposure: the sums of a bucket.
Exposure(recon, b) ==
    LET all == InBucket(recon, b)
        clients == {o \in all : recon[o].state = "ROOT"}
        street  == {o \in all : IsStreet(nodes[o])}
    IN  [clientCum    |-> SumOf(clients, LAMBDA o : nodes[o].cum),
         clientLeaves |-> SumOf(clients, LAMBDA o : nodes[o].leaves),
         streetCum    |-> SumOf(street, LAMBDA o : nodes[o].cum),
         streetLeaves |-> SumOf(street, LAMBDA o : nodes[o].leaves),
         held       |-> SumOf(all, LAMBDA o : Above(recon[o].route)),
         overRouted |-> SumOf(all, LAMBDA o : Above(-recon[o].route)),
         unbooked   |-> SumOf(all, LAMBDA o : Above(-recon[o].fill)),
         phantom    |-> SumOf(all, LAMBDA o : Above(recon[o].fill)),
         breaks     |-> Cardinality({o \in all : recon[o].kind \in RedKinds})]

\* otr_level_ladder: a level's fills in a bucket, next to the client's.
CumVsClient(recon, b, level) ==
    SumOf({o \in InBucket(recon, b) : nodes[o].level = level}, LAMBDA o : nodes[o].cum)
    - Exposure(recon, b).clientCum

-----------------------------------------------------------------------------
\* reference.py

\* index, with the same precedence, filled in one table after the other.
RefIndex ==
    LET later(new, old) == [x \in DOMAIN new \cup DOMAIN old |->
                               IF x \in DOMAIN new THEN new[x] ELSE old[x]]
        extra == {h \in events.ids : h[2] # Nothing /\ <<h[1], h[3]>> \in DOMAIN nodes}
        byId  == [x \in {<<h[1], h[2]>> : h \in extra} |->
                     (CHOOSE o \in DOMAIN nodes : o[1] = x[1] /\ <<x[1], x[2], o[2]>> \in extra)]
        byOrder == [o \in DOMAIN nodes |-> o]
        withAlt == {o \in DOMAIN nodes : nodes[o].alt # Nothing}
        byAlt == [x \in {<<o[1], nodes[o].alt>> : o \in withAlt} |->
                     CHOOSE o \in withAlt : o[1] = x[1] /\ nodes[o].alt = x[2]]
    IN  later(byAlt, later(byOrder, byId))

RefParent(index, o) ==
    LET known == SelectSeq(LevelSpec(nodes[o].level).parents,
                           LAMBDA s : <<s, nodes[o].link>> \in DOMAIN index)
    IN  IF known = <<>> THEN Nothing ELSE index[<<known[1], nodes[o].link>>]

\* The loop up from one order, which stops at the top or after max_depth links.
RefWalk(index, o) ==
    LET climb[n \in 0..MaxDepth, at \in DOMAIN nodes] ==
          LET up == RefParent(index, at) IN
          IF up = Nothing THEN [root |-> at, depth |-> 0, resolved |-> TRUE]
          ELSE IF n = 0 THEN [root |-> at, depth |-> 0, resolved |-> FALSE]
          ELSE LET rest == climb[n - 1, up] IN [rest EXCEPT !.depth = @ + 1]
    IN  climb[MaxDepth, o]
=============================================================================
