------------------------------ MODULE HubTree -------------------------------
(***************************************************************************)
(* The multi-OMS blotter: one FIX fold per hub tape, a sticky link map per *)
(* hub (linking.py, pipeline.py), and the tables derived from what all of  *)
(* them publish (dag.py): the link of an order to its parent one hub up,   *)
(* the root of its family, the roll-up of its children and the breaks.     *)
(*                                                                         *)
(* The tapes are read one batch at a time and in any interleaving, so an   *)
(* order may be there before its parent.  A tape message is what the fold  *)
(* makes of it: the state of the order it belongs to, the client order id  *)
(* and the value of the hub's link tag, or an error.  A derived table is   *)
(* an operator over the published ones.  Notionals are priced at one, so   *)
(* the notional checks say what the quantity checks say and are left out.  *)
(***************************************************************************)
EXTENDS Integers, Sequences, FiniteSets, FiniteSetsExt

CONSTANTS Configs,       \* hub configurations: sequences of [name, topic, upstream, tag]
          Tapes,         \* tapes: sequences of [kind, key, id, orderId, ext, cum, leaves]
          Nothing,       \* an empty string, an absent tag, a null cell
          QtyTol,        \* the quantity tolerance
          MaxFailures    \* bound: streams that fail to publish

VARIABLES
    config,      \* the configured hubs
    tape,        \* hub name -> its tape
    read,        \* hub name -> messages read
    links,       \* hub name -> its LinkTracker: order key -> external id
    latest,      \* oms_orders_latest: <<hub, key>> -> the last published state row
    ids,         \* oms_events, last_by (Oms, ClOrdID): <<hub, id>> -> order key
    errors,      \* oms_ingest_errors: <<hub, position>> or <<hub, stream>>
    failures

hubVars == <<config, tape, read, links, latest, ids, errors, failures>>

\* A topology is a tuple of hubs.
ASSUME ConfigAssumption == \A c \in Configs : c \in Seq({c[i] : i \in DOMAIN c})

\* What a fold makes of a tape: the order id of an order stays, once it is known, and no order id
\* is a client order id of its hub (dag.py leaves that case undefined).
ASSUME TapeAssumption ==
    \A t \in Tapes : \A hub \in DOMAIN t :
        /\ t[hub] \in Seq({t[hub][p] : p \in DOMAIN t[hub]})
        /\ \A p \in DOMAIN t[hub] : /\ t[hub][p].kind \in {"fix", "bad"}
                                     /\ <<hub, t[hub][p].key>> # Nothing
                                     /\ t[hub][p].cum \in Int
        /\ \A p, q \in DOMAIN t[hub] :
              (t[hub][p].kind = "fix" /\ t[hub][p].orderId # Nothing) =>
                  /\ t[hub][q].id # t[hub][p].orderId
                  /\ (q > p /\ t[hub][q].key = t[hub][p].key) => t[hub][q].orderId = t[hub][p].orderId

\* _tolerance refuses a negative one; TLC counts in lots.
ASSUME ToleranceAssumption == QtyTol \in Nat

EmptyMap == [x \in {} |-> Nothing]
Put(f, x, y) == [z \in DOMAIN f \cup {x} |-> IF z = x THEN y ELSE f[z]]

-----------------------------------------------------------------------------
\* The topology

Names(hubs)     == {hubs[i].name : i \in DOMAIN hubs}
Named(hubs, n)  == hubs[CHOOSE i \in DOMAIN hubs : hubs[i].name = n]
Upstream(hubs, n) == Named(hubs, n).upstream

\* Steps up from a hub to its root, beyond the number of hubs if it never gets there.
Depths(hubs, n) ==
    LET up[k \in 0..Len(hubs) + 1] == IF k = 0 THEN n
                                      ELSE IF up[k-1] = Nothing THEN Nothing
                                      ELSE Upstream(hubs, up[k-1])
    IN  Cardinality({k \in 0..Len(hubs) + 1 : up[k] # Nothing}) - 1

\* Mutant: upstream links that form a loop are accepted.
Accepted_Loops(hubs) ==
    /\ hubs # <<>>
    /\ \A i \in DOMAIN hubs :
         /\ (hubs[i].upstream # Nothing) <=> (hubs[i].tag # Nothing)
         /\ hubs[i].upstream \in Names(hubs) \cup {Nothing}
    /\ \A i, j \in DOMAIN hubs :
         i # j => hubs[i].name # hubs[j].name /\ hubs[i].topic # hubs[j].topic

\* parse_topology: each hub named and with a topic of its own, an upstream and a link tag
\* together or neither, the upstreams a forest of configured hubs.
Accepted(hubs) ==
    /\ hubs # <<>>
    /\ \A i \in DOMAIN hubs :
         /\ hubs[i].name # Nothing
         /\ (hubs[i].upstream # Nothing) <=> (hubs[i].tag # Nothing)
         /\ hubs[i].upstream # hubs[i].name
         /\ hubs[i].upstream \in Names(hubs) \cup {Nothing}
    /\ \A i, j \in DOMAIN hubs :
         i # j => hubs[i].name # hubs[j].name /\ hubs[i].topic # hubs[j].topic
    /\ \A i \in DOMAIN hubs : Depths(hubs, hubs[i].name) <= Len(hubs)

-----------------------------------------------------------------------------
\* One hub's fold

\* Mutant: the last value of the link tag wins.
Record_LastWins(map, key, ext) == IF ext # Nothing THEN Put(map, key, ext) ELSE map

\* Mutant: a message without the link tag takes the link away.
Record_Forgets(map, key, ext) == Put(map, key, ext)

\* LinkTracker.record: the first value of the link tag sticks to the order.
Record(map, key, ext) ==
    IF ext # Nothing /\ key \notin DOMAIN map THEN Put(map, key, ext) ELSE map

Sticky(map, key) == IF key \in DOMAIN map THEN map[key] ELSE Nothing

\* Only a hub with an upstream has a link tag to read.
ExtOf(hub, message) == IF Upstream(config, hub) = Nothing THEN Nothing ELSE message.ext

\* The link map, the state rows and the events after messages i..j of a hub's tape.
Folded(hub, i, j) ==
    LET after[n \in (i - 1)..j] ==
          IF n < i THEN [links |-> links[hub], rows |-> EmptyMap, events |-> EmptyMap]
          ELSE LET m == tape[hub][n]  was == after[n - 1] IN
               IF m.kind = "bad" THEN was
               ELSE LET map == Record(was.links, m.key, ExtOf(hub, m)) IN
                    [links  |-> map,
                     rows   |-> Put(was.rows, <<hub, m.key>>,
                                    [orderId |-> m.orderId, ext |-> Sticky(map, m.key),
                                     cum |-> m.cum, leaves |-> m.leaves]),
                     events |-> Put(was.events, <<hub, m.id>>, m.key)]
    IN  after[j]

\* A table after new rows: the last row of each key.
Over(new, old) == [x \in DOMAIN new \cup DOMAIN old |-> IF x \in DOMAIN new THEN new[x] ELSE old[x]]

Streams == {"state", "events", "errors"}

\* The listener of a hub: _process_batch of the next n messages, with the streams whose
\* publish fails.
Batch(hub, n, failing) ==
    /\ n >= 1 /\ read[hub] + n <= Len(tape[hub])
    /\ failures + Cardinality(failing) <= MaxFailures
    /\ LET first == read[hub] + 1
           last  == read[hub] + n
           new   == Folded(hub, first, last)
           raw   == {[oms |-> hub, at |-> p, stream |-> "raw"] :
                        p \in {p \in first..last : tape[hub][p].kind = "bad"}}
           told  == {[oms |-> hub, at |-> 0, stream |-> s] : s \in failing \ {"errors"}}
       IN  /\ new.rows = EmptyMap => failing \subseteq {"errors"}
           /\ "errors" \in failing => raw \cup told # {}
           /\ links'  = [links EXCEPT ![hub] = new.links]
           /\ latest' = IF "state" \in failing THEN latest ELSE Over(new.rows, latest)
           /\ ids'    = IF "events" \in failing THEN ids ELSE Over(new.events, ids)
           /\ errors' = IF "errors" \in failing THEN errors ELSE errors \cup raw \cup told
           /\ read'   = [read EXCEPT ![hub] = last]
    /\ failures' = failures + Cardinality(failing)
    /\ UNCHANGED <<config, tape>>

Init ==
    /\ config \in {c \in Configs : Accepted(c)}
    /\ tape \in {t \in Tapes : DOMAIN t = Names(config)}
    /\ read  = [n \in Names(config) |-> 0]
    /\ links = [n \in Names(config) |-> EmptyMap]
    /\ latest = EmptyMap /\ ids = EmptyMap
    /\ errors = {} /\ failures = 0

Next == \E hub \in Names(config), failing \in SUBSET Streams :
           \E n \in 1..Len(tape[hub]) : Batch(hub, n, failing)

HubSpec == Init /\ [][Next]_hubVars

-----------------------------------------------------------------------------
\* The derived tables

\* id_index: who an id belongs to within a hub; an OrderID wins over a ClOrdID.
IdIndex ==
    LET withId == {o \in DOMAIN latest : latest[o].orderId # Nothing}
        byOrderId == [x \in {<<o[1], latest[o].orderId>> : o \in withId} |->
                         (CHOOSE o \in withId : <<o[1], latest[o].orderId>> = x)[2]]
    IN  Over(byOrderId, ids)

\* orders_linked: the parent is the order of the hub above that the external id belongs to.
ParentOf(o) ==
    LET up == <<Upstream(config, o[1]), latest[o].ext>> IN
    IF up[2] # Nothing /\ up \in DOMAIN IdIndex THEN <<up[1], IdIndex[up]>> ELSE Nothing

LinkState(o) == IF latest[o].ext = Nothing
                THEN IF Upstream(config, o[1]) = Nothing THEN "ROOT" ELSE "NO_LINK"
                ELSE IF ParentOf(o) = Nothing THEN "DANGLING" ELSE "LINKED"

ParentMap(key) == IF key \in DOMAIN latest THEN ParentOf(key) ELSE Nothing

\* The walk up to the root: one step, then as many passes as there are hubs but one.
Walked(o) ==
    LET walk[k \in 0..Len(config) - 1] ==
          LET from == IF k = 0 THEN [root |-> o, depth |-> 0] ELSE walk[k - 1]
              up   == ParentMap(from.root)
          IN  IF up = Nothing THEN from ELSE [root |-> up, depth |-> from.depth + 1]
    IN  walk[Len(config) - 1]

SumOver(S, f(_)) == MapThenSumSet(f, S)
Apart(a, b, tol) == a - b > tol \/ b - a > tol

\* child_rollup: the number of children of an order and what they sum up to.
Children(o) == {c \in DOMAIN latest : ParentOf(c) = o}

\* Mutant: the roll-up takes one child.
ChildRollup_One(o) == LET c == CHOOSE c \in Children(o) : TRUE IN
                      [count |-> 1, cum |-> latest[c].cum, leaves |-> latest[c].leaves]

ChildRollup(o) == [count  |-> Cardinality(Children(o)),
                   cum    |-> SumOver(Children(o), LAMBDA c : latest[c].cum),
                   leaves |-> SumOver(Children(o), LAMBDA c : latest[c].leaves)]

\* orders_recon: what is wrong with an order, the most severe first.
BreakKind(o) ==
    LET linkState == LinkState(o)
        hasChildren == Children(o) # {}
    IN  IF linkState \in {"DANGLING", "NO_LINK"} THEN linkState
        ELSE IF hasChildren /\ Apart(latest[o].cum, ChildRollup(o).cum, QtyTol) THEN "QTY_BREAK"
        ELSE IF hasChildren /\ Apart(latest[o].leaves, ChildRollup(o).leaves, QtyTol) THEN "UNROUTED"
        ELSE "NONE"

\* chain_summary: the orders of a family at a hub.
Level(root, hub) == {o \in DOMAIN latest : o[1] = hub /\ Walked(o).root = root}
CumQtyAt(root, hub) == SumOver(Level(root, hub), LAMBDA o : latest[o].cum)

\* chain_recon: the family's hubs whose level sums differ from those of the hub above.
QtyBreaks(root) ==
    {hub \in Names(config) :
        LET up == Upstream(config, hub) IN
        /\ up # Nothing
        /\ Level(root, hub) # {} /\ Level(root, up) # {}
        /\ Apart(CumQtyAt(root, hub), CumQtyAt(root, up), QtyTol)}

\* query_api: the orders that any order id, of any hub, is in a family with.
FindChain(id) ==
    LET hits  == {x \in DOMAIN IdIndex : x[2] = id}
        roots == {Walked(o).root : o \in {<<x[1], IdIndex[x]>> : x \in hits} \cap DOMAIN latest}
    IN  {o \in DOMAIN latest : Walked(o).root \in roots}

GetOrder(hub, id) ==
    {o \in DOMAIN latest : o[1] = hub /\ <<hub, id>> \in DOMAIN IdIndex /\ IdIndex[<<hub, id>>] = o[2]}

-----------------------------------------------------------------------------
\* Properties

\* The walk ends at the top: the root has no parent of its own, it is as many hubs above the
\* order as the depth says, and an order and its parent have the same root.
\* dag.py: _build_orders_linked; config.py: _depths.
RootIsTop ==
    \A o \in DOMAIN latest :
        LET walk == Walked(o) IN
        /\ ParentMap(walk.root) = Nothing
        /\ Depths(config, o[1]) = Depths(config, walk.root[1]) + walk.depth
        /\ ParentMap(ParentOf(o)) # Nothing => Walked(ParentOf(o)).root = walk.root

\* What the tape of a hub says of one of its orders.
Mentions(hub, key) == {p \in DOMAIN tape[hub] : tape[hub][p].kind = "fix" /\ tape[hub][p].key = key}
FirstLink(hub, key) ==
    LET linking == {p \in Mentions(hub, key) : tape[hub][p].ext # Nothing}
    IN  IF Upstream(config, hub) = Nothing \/ linking = {} THEN Nothing
        ELSE tape[hub][Min(linking)].ext
Owners(hub, id) == {p \in DOMAIN tape[hub] : tape[hub][p].kind = "fix" /\ tape[hub][p].id = id}

\* However the tapes are cut into batches and interleaved, once all are read the tables are
\* what the tapes say: every order with the link it named first, linked to the order above
\* that used that id last, and found with its family by any id it still has.
\* pipeline.py: _process_batch; linking.py: LinkTracker.record.
TapesDecide ==
    (failures = 0 /\ \A n \in Names(config) : read[n] = Len(tape[n])) =>
        \A n \in Names(config) : \A p \in DOMAIN tape[n] :
            LET o == <<n, tape[n][p].key>>
                link == FirstLink(n, tape[n][p].key)
                up == Upstream(config, n)
            IN  tape[n][p].kind = "fix" =>
                    /\ o \in DOMAIN latest /\ latest[o].ext = link
                    /\ (link # Nothing /\ Owners(up, link) # {}) =>
                           ParentOf(o) = <<up, tape[up][Max(Owners(up, link))].key>>
                    /\ p = Max(Owners(n, tape[n][p].id)) =>
                           o \in FindChain(tape[n][p].id) /\ GetOrder(n, tape[n][p].id) = {o}

\* An order that is linked stays linked, whatever arrives or fails later.
\* linking.py: LinkTracker; dag.py: _build_id_index.
LinkedStays ==
    [][\A o \in DOMAIN latest : ParentOf(o) # Nothing => ParentOf(o)' # Nothing]_hubVars

Linear == \A i, j \in DOMAIN config : config[i].upstream = config[j].upstream => i = j

\* The two reconciliations agree: in a family of hubs in a row whose orders are all routed on
\* and none in a red break, the level sums of two hubs differ by no more than the tolerances
\* of the orders between them.  dag.py: _build_orders_recon, _build_chain_recon.
LevelsAgree ==
    \A root \in {Walked(o).root : o \in DOMAIN latest} :
        LET family == {o \in DOMAIN latest : Walked(o).root = root} IN
        (/\ Linear
         /\ \A o \in family : BreakKind(o) \in {"NONE", "UNROUTED"}
         /\ \A o \in family : (\E i \in DOMAIN config : config[i].upstream = o[1]) => Children(o) # {})
        => \A hub \in QtyBreaks(root) :
               LET up == Upstream(config, hub) IN
               ~Apart(CumQtyAt(root, hub), CumQtyAt(root, up),
                      QtyTol * Cardinality(Level(root, up)))
=============================================================================
