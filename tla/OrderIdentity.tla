--------------------------- MODULE OrderIdentity ---------------------------
(***************************************************************************)
(* How the order cache decides which order chain a FIX message belongs to. *)
(* Three tables bind identifiers to the chain's OrderKey: OrderID (37),    *)
(* ClOrdID (11 and 41 share one) and ExecID (17).  A message goes to the   *)
(* chain of the first identifier that is bound; failing that it opens a    *)
(* chain keyed by its OrderID, else its ClOrdID, else its OrigClOrdID.     *)
(*                                                                         *)
(* An OrderKey is the identifier the chain was opened under, so keys and   *)
(* identifiers are one set of strings.  The feed is unconstrained: every   *)
(* message of IdFeed may arrive at any time, any number of times.  The   *)
(* sentinel 37=NONE arrives as NoId.                                       *)
(***************************************************************************)
EXTENDS Naturals, FiniteSets

CONSTANTS Ids,            \* identifier strings of the orders in the feed
          NoId,           \* the empty string: no identifier, no key
          IdFeed,         \* the messages the feed may carry
          Orders, OwnerOf \* the client orders behind them, and whose each identifier is

IdMessage == [handled : BOOLEAN, orderId : Ids \cup {NoId}, clordid : Ids \cup {NoId},
              origClordid : Ids \cup {NoId}, execId : Ids \cup {NoId}]

\* The identifiers a message carries.
Carried(m) == {m.orderId, m.clordid, m.origClordid, m.execId} \ {NoId}

\* Counterparties give out identifiers that are theirs: no string names two
\* orders, and one message speaks of one order.
ASSUME IdentityAssumption ==
    /\ NoId \notin Ids
    /\ IdFeed \subseteq IdMessage
    /\ OwnerOf \in [Ids -> Orders]
    /\ \A m \in IdFeed : \A i, j \in Carried(m) : OwnerOf[i] = OwnerOf[j]

VARIABLES keyByOrderId, keyByClordid, keyByExecid,   \* the binding tables
          chains,        \* keys of the chains held
          filed,         \* OrderKey of the last message's audit row
          history        \* <<message, key>> for each message a chain took

tables == <<keyByOrderId, keyByClordid, keyByExecid>>
vars   == <<tables, chains, filed, history>>

IdentityInit == /\ keyByOrderId = [i \in Ids |-> NoId]
        /\ keyByClordid = [i \in Ids |-> NoId]
        /\ keyByExecid  = [i \in Ids |-> NoId]
        /\ chains = {}
        /\ filed = NoId
        /\ history = {}

-----------------------------------------------------------------------------
FirstOf(a, b)   == IF a # NoId THEN a ELSE b
KeyOf(table, i) == IF i # NoId THEN table[i] ELSE NoId

\* Mutant: a message that names no known order goes where the last one went.
Lookup_LastFiled(m) ==
    FirstOf(KeyOf(keyByOrderId, m.orderId),
           FirstOf(KeyOf(keyByClordid, m.clordid),
                  FirstOf(KeyOf(keyByClordid, m.origClordid),
                         FirstOf(KeyOf(keyByExecid, m.execId), filed))))

\* The chain of the first bound identifier: 37, then 11, then 41, then 17.
Lookup(m) == FirstOf(KeyOf(keyByOrderId, m.orderId),
                    FirstOf(KeyOf(keyByClordid, m.clordid),
                           FirstOf(KeyOf(keyByClordid, m.origClordid),
                                  KeyOf(keyByExecid, m.execId))))

\* What a new chain is keyed by; an ExecID never is.
NewKey(m) == FirstOf(m.orderId, FirstOf(m.clordid, m.origClordid))

Resolve(m) == FirstOf(Lookup(m), NewKey(m))

\* setdefault: an identifier keeps the first key it was bound to.
BindIn(table, ids, key) ==
    [i \in Ids |-> IF i \in ids /\ table[i] = NoId THEN key ELSE table[i]]

Bind(m, key) == /\ keyByOrderId' = BindIn(keyByOrderId, {m.orderId}, key)
                /\ keyByClordid' = BindIn(keyByClordid, {m.clordid, m.origClordid}, key)
                /\ keyByExecid'  = BindIn(keyByExecid, {m.execId}, key)

\* A supported message with a usable identifier: every identifier on it is
\* bound and its chain takes it, a new chain if there is none under the key.
ApplyMessage(m) == /\ m.handled
            /\ Resolve(m) # NoId
            /\ Bind(m, Resolve(m))
            /\ chains' = chains \cup {Resolve(m)}
            /\ filed' = Resolve(m)
            /\ history' = history \cup {<<m, Resolve(m)>>}

\* A supported message that names no order: audited only.
Unresolvable(m) == /\ m.handled
                   /\ Resolve(m) = NoId
                   /\ filed' = NoId
                   /\ UNCHANGED <<tables, chains, history>>

\* An unsupported MsgType is attributed if possible and changes nothing.
AuditOnly(m) == /\ ~m.handled
                /\ filed' = Lookup(m)
                /\ UNCHANGED <<tables, chains, history>>

IdentityNext == \E m \in IdFeed : ApplyMessage(m) \/ Unresolvable(m) \/ AuditOnly(m)

IdentitySpec == IdentityInit /\ [][IdentityNext]_vars

-----------------------------------------------------------------------------
\* A feed whose messages of one order hang together: each carries, beside
\* anything new, an identifier the order's chain has seen, in a table where
\* it is looked up.  The first message of an order is free.

\* The identifiers by which one message leads to the chain of another.
Links(m) == <<{m.orderId} \ {NoId}, {m.clordid, m.origClordid} \ {NoId}, {m.execId} \ {NoId}>>

Linked(m) ==
    \/ \E h \in history, t \in 1..3 : Links(m)[t] \cap Links(h[1])[t] # {}
    \/ \A h \in history : \A i \in Carried(m), j \in Carried(h[1]) : OwnerOf[i] # OwnerOf[j]

LinkedNext == \E m \in IdFeed :
                 /\ Linked(m)
                 /\ ApplyMessage(m) \/ Unresolvable(m) \/ AuditOnly(m)

LinkedSpec == IdentityInit /\ [][LinkedNext]_vars

-----------------------------------------------------------------------------
\* Properties

Key == Ids \cup {NoId}

TypeOK == /\ keyByOrderId \in [Ids -> Key]
          /\ keyByClordid \in [Ids -> Key]
          /\ keyByExecid \in [Ids -> Key]
          /\ chains \in SUBSET Ids
          /\ filed \in Key
          /\ history \in SUBSET (IdFeed \X Ids)

\* "Bind every identifier present (idempotent; first wins)": once bound, an
\* identifier means the same chain for good, so rows published under an
\* OrderKey stay findable under it.
BindingsStand ==
    [][/\ \A i \in Ids : keyByOrderId[i] # NoId => keyByOrderId'[i] = keyByOrderId[i]
       /\ \A i \in Ids : keyByClordid[i] # NoId => keyByClordid'[i] = keyByClordid[i]
       /\ \A i \in Ids : keyByExecid[i] # NoId => keyByExecid'[i] = keyByExecid[i]]_vars

\* The tables point at chains that exist, and no chain is out of reach: each
\* is bound under its own key, so get_by_order_id or get_by_clordid finds it.
ChainsReachable ==
    /\ \A i \in Ids : /\ keyByOrderId[i] \in chains \cup {NoId}
                      /\ keyByClordid[i] \in chains \cup {NoId}
                      /\ keyByExecid[i] \in chains \cup {NoId}
    /\ \A k \in chains : keyByOrderId[k] = k \/ keyByClordid[k] = k

\* "Replays converge": a message that was applied once resolves to the same
\* chain ever after, whatever came in between.
ReplaysConverge == \A h \in history : Lookup(h[1]) = h[2]

\* Messages of two orders never meet in one chain.
OneOrderPerChain ==
    \A h \in history : \A i \in Carried(h[1]) : OwnerOf[i] = OwnerOf[h[2]]

\* With a feed that hangs together an order is one chain, however its
\* messages are shuffled within that.
OneChainPerOrder == \A k, l \in chains : OwnerOf[k] = OwnerOf[l] => k = l

\* However the messages of several orders are shuffled and repeated, each leads
\* for ever to the one chain it was applied to, every chain can be found, and
\* no chain is of two orders.  state_machine.py: _resolve, _bind.
OrdersApart == ChainsReachable /\ ReplaysConverge /\ OneOrderPerChain
=============================================================================
