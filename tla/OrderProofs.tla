---------------------------- MODULE OrderProofs -----------------------------
(***************************************************************************)
(* The order cache.  Of OrderIdentity, for every feed: the bindings only   *)
(* ever grow, which gives replays their convergence; each binding stays    *)
(* with the client order that owns the identifier, which keeps orders      *)
(* apart; and in a linked feed each order's identifiers lead to one key.   *)
(* Of OrderChain, for every feed: the types of a chain's state, that the   *)
(* published summary follows the requests in flight, and what old news may *)
(* not change.  Of OrderSession, for every interleaving: that the cache    *)
(* follows the conversation it overhears.                                  *)
(***************************************************************************)
EXTENDS OrderSession, OrderIdentity, FiniteSetTheorems, TLAPS

-----------------------------------------------------------------------------
\* setdefault keeps what is bound and binds what is not.
LEMMA BindInFacts ==
    ASSUME NEW table \in [Ids -> Key], NEW ids, NEW key \in Ids
    PROVE  /\ BindIn(table, ids, key) \in [Ids -> Key]
           /\ \A i \in Ids :
                /\ table[i] # NoId => BindIn(table, ids, key)[i] = table[i]
                /\ table[i] = NoId /\ i \in ids => BindIn(table, ids, key)[i] = key
                /\ table[i] = NoId /\ i \notin ids => BindIn(table, ids, key)[i] = NoId
BY DEF BindIn, Key

\* The parts of a message.
LEMMA IdMessageParts ==
    ASSUME NEW m \in IdFeed
    PROVE  /\ m.orderId \in Key /\ m.clordid \in Key
           /\ m.origClordid \in Key /\ m.execId \in Key
BY IdentityAssumption DEF IdMessage, Key

\* What a message resolves to is an identifier or nothing.
LEMMA ResolveType ==
    ASSUME TypeOK, NEW m \in IdFeed
    PROVE  Lookup(m) \in Key /\ Resolve(m) \in Key
BY IdentityAssumption, IdMessageParts
   DEF TypeOK, Lookup, Resolve, NewKey, FirstOf, KeyOf, Key

\* What applying a message does to the tables.
LEMMA ApplyFacts ==
    ASSUME TypeOK, NEW m \in IdFeed, ApplyMessage(m)
    PROVE  /\ TypeOK'
           /\ Resolve(m) \in Ids
           /\ \A i \in Ids :
                /\ keyByOrderId[i] # NoId => keyByOrderId'[i] = keyByOrderId[i]
                /\ keyByOrderId[i] = NoId => keyByOrderId'[i] = IF i = m.orderId THEN Resolve(m) ELSE NoId
                /\ keyByClordid[i] # NoId => keyByClordid'[i] = keyByClordid[i]
                /\ keyByClordid[i] = NoId =>
                     keyByClordid'[i] = IF i \in {m.clordid, m.origClordid} THEN Resolve(m) ELSE NoId
                /\ keyByExecid[i] # NoId => keyByExecid'[i] = keyByExecid[i]
                /\ keyByExecid[i] = NoId => keyByExecid'[i] = IF i = m.execId THEN Resolve(m) ELSE NoId
<1> DEFINE key == Resolve(m)
<1>1. key \in Ids
      BY ResolveType DEF ApplyMessage, Key
<1>2. keyByOrderId' = BindIn(keyByOrderId, {m.orderId}, key)
      BY DEF ApplyMessage, Bind
<1>3. keyByClordid' = BindIn(keyByClordid, {m.clordid, m.origClordid}, key)
      BY DEF ApplyMessage, Bind
<1>4. keyByExecid' = BindIn(keyByExecid, {m.execId}, key)
      BY DEF ApplyMessage, Bind
<1>5. chains' = chains \cup {key} /\ filed' = key /\ history' = history \cup {<<m, key>>}
      BY DEF ApplyMessage
<1> HIDE DEF key
<1>6. TypeOK'
      BY <1>1, <1>2, <1>3, <1>4, <1>5, BindInFacts DEF TypeOK, Key
<1>7. \A i \in Ids :
         /\ keyByOrderId[i] # NoId => keyByOrderId'[i] = keyByOrderId[i]
         /\ keyByOrderId[i] = NoId => keyByOrderId'[i] = IF i = m.orderId THEN key ELSE NoId
      BY <1>1, <1>2, BindInFacts DEF TypeOK
<1>8. \A i \in Ids :
         /\ keyByClordid[i] # NoId => keyByClordid'[i] = keyByClordid[i]
         /\ keyByClordid[i] = NoId =>
              keyByClordid'[i] = IF i \in {m.clordid, m.origClordid} THEN key ELSE NoId
      BY <1>1, <1>3, BindInFacts DEF TypeOK
<1>9. \A i \in Ids :
         /\ keyByExecid[i] # NoId => keyByExecid'[i] = keyByExecid[i]
         /\ keyByExecid[i] = NoId => keyByExecid'[i] = IF i = m.execId THEN key ELSE NoId
      BY <1>1, <1>4, BindInFacts DEF TypeOK
<1> QED BY <1>1, <1>6, <1>7, <1>8, <1>9 DEF key

\* The other messages leave everything but the audit row alone.
LEMMA AuditFacts ==
    ASSUME TypeOK, NEW m \in IdFeed, Unresolvable(m) \/ AuditOnly(m)
    PROVE  TypeOK' /\ UNCHANGED <<tables, chains, history>>
BY ResolveType DEF TypeOK, Unresolvable, AuditOnly, tables, Key

\* The empty tables have their types.
LEMMA TypeOKInit == IdentityInit => TypeOK
BY DEF IdentityInit, TypeOK, Key

\* Every message leaves the tables, chains and histories with their types.
LEMMA TypeOKStep == TypeOK /\ [IdentityNext]_vars => TypeOK'
<1> SUFFICES ASSUME TypeOK, [IdentityNext]_vars
             PROVE  TypeOK'
    OBVIOUS
<1>1. ASSUME NEW m \in IdFeed, ApplyMessage(m) PROVE TypeOK'
      BY <1>1, ApplyFacts
<1>2. ASSUME NEW m \in IdFeed, Unresolvable(m) \/ AuditOnly(m) PROVE TypeOK'
      BY <1>2, AuditFacts
<1>3. CASE UNCHANGED vars
      BY <1>3 DEF vars, tables, TypeOK
<1> QED BY <1>1, <1>2, <1>3 DEF IdentityNext

\* The tables, the keys of the chains and the histories keep their types.
THEOREM IdentityTypes == IdentitySpec => []TypeOK
<1> QED BY TypeOKInit, TypeOKStep, PTL DEF IdentitySpec

-----------------------------------------------------------------------------
\* A binding, once made, stands.
LEMMA BindingsStandStep ==
    ASSUME TypeOK, [IdentityNext]_vars, NEW i \in Ids
    PROVE  /\ keyByOrderId[i] # NoId => keyByOrderId'[i] = keyByOrderId[i]
           /\ keyByClordid[i] # NoId => keyByClordid'[i] = keyByClordid[i]
           /\ keyByExecid[i] # NoId => keyByExecid'[i] = keyByExecid[i]
<1>1. ASSUME NEW m \in IdFeed, ApplyMessage(m)
      PROVE  /\ keyByOrderId[i] # NoId => keyByOrderId'[i] = keyByOrderId[i]
             /\ keyByClordid[i] # NoId => keyByClordid'[i] = keyByClordid[i]
             /\ keyByExecid[i] # NoId => keyByExecid'[i] = keyByExecid[i]
      BY <1>1, ApplyFacts
<1>2. ASSUME NEW m \in IdFeed, Unresolvable(m) \/ AuditOnly(m) PROVE UNCHANGED tables
      BY <1>2, AuditFacts
<1>3. CASE UNCHANGED vars
      BY <1>3 DEF vars, tables
<1> QED BY <1>1, <1>2, <1>3 DEF IdentityNext, tables

\* An identifier means the same chain for good (the runs' BindingsStand).
THEOREM IdentityBindings == IdentitySpec => BindingsStand
<1>1. TypeOK /\ [IdentityNext]_vars =>
        [/\ \A i \in Ids : keyByOrderId[i] # NoId => keyByOrderId'[i] = keyByOrderId[i]
         /\ \A i \in Ids : keyByClordid[i] # NoId => keyByClordid'[i] = keyByClordid[i]
         /\ \A i \in Ids : keyByExecid[i] # NoId => keyByExecid'[i] = keyByExecid[i]]_vars
      BY BindingsStandStep
<1> QED BY <1>1, IdentityTypes, PTL DEF IdentitySpec, BindingsStand

-----------------------------------------------------------------------------
\* Every binding names a chain that exists, every chain is bound under its key.
LEMMA ReachableStep ==
    ASSUME TypeOK, ChainsReachable, [IdentityNext]_vars
    PROVE  ChainsReachable'
<1>1. ASSUME NEW m \in IdFeed, ApplyMessage(m) PROVE ChainsReachable'
  <2> DEFINE key == Resolve(m)
  <2>1. chains' = chains \cup {key} /\ key \in Ids /\ TypeOK'
        BY <1>1, ApplyFacts DEF ApplyMessage
  <2>2. \A i \in Ids : /\ keyByOrderId'[i] \in {keyByOrderId[i], key}
                       /\ keyByClordid'[i] \in {keyByClordid[i], key}
                       /\ keyByExecid'[i] \in {keyByExecid[i], key}
        BY <1>1, ApplyFacts, IdentityAssumption
  <2>3. \A i \in Ids : /\ keyByOrderId'[i] \in chains' \cup {NoId}
                       /\ keyByClordid'[i] \in chains' \cup {NoId}
                       /\ keyByExecid'[i] \in chains' \cup {NoId}
        BY <2>1, <2>2 DEF ChainsReachable
  <2>4. ASSUME NEW k \in chains PROVE keyByOrderId'[k] = k \/ keyByClordid'[k] = k
        <3>1. k \in Ids /\ k # NoId
              BY <2>4, IdentityAssumption DEF TypeOK
        <3>2. keyByOrderId[k] = k \/ keyByClordid[k] = k
              BY <2>4 DEF ChainsReachable
        <3> QED BY <1>1, <3>1, <3>2, ApplyFacts
  <2>5. keyByOrderId'[key] = key \/ keyByClordid'[key] = key
        <3>1. CASE Lookup(m) # NoId
              <4>1. key = Lookup(m)
                    BY <3>1 DEF Resolve, FirstOf
              <4>2. key \in chains
                    BY <3>1, <4>1, IdMessageParts DEF Lookup, FirstOf, KeyOf, ChainsReachable, Key
              <4> QED BY <2>4, <4>2
        <3>2. CASE Lookup(m) = NoId
              <4>1. key = NewKey(m)
                    BY <3>2 DEF Resolve, FirstOf
              <4>2. CASE m.orderId # NoId
                    <5>1. key = m.orderId /\ keyByOrderId[key] = NoId
                          BY <3>2, <4>1, <4>2 DEF NewKey, FirstOf, Lookup, KeyOf
                    <5> QED BY <1>1, <2>1, <5>1, ApplyFacts
              <4>3. CASE m.orderId = NoId
                    <5>1. key \in {m.clordid, m.origClordid}
                          BY <4>1, <4>3 DEF NewKey, FirstOf
                    <5>2. keyByClordid[key] = NoId
                          BY <3>2, <2>1, <5>1, IdentityAssumption DEF FirstOf, Lookup, KeyOf
                    <5> QED BY <1>1, <2>1, <5>1, <5>2, ApplyFacts
              <4> QED BY <4>2, <4>3
        <3> QED BY <3>1, <3>2
  <2> QED BY <2>1, <2>3, <2>4, <2>5 DEF ChainsReachable
<1>2. ASSUME NEW m \in IdFeed, Unresolvable(m) \/ AuditOnly(m) PROVE ChainsReachable'
      BY <1>2, AuditFacts DEF ChainsReachable, tables
<1>3. CASE UNCHANGED vars
      BY <1>3 DEF ChainsReachable, vars, tables
<1> QED BY <1>1, <1>2, <1>3 DEF IdentityNext

\* No binding dangles and no chain is out of reach.
THEOREM IdentityReachable == IdentitySpec => []ChainsReachable
<1>1. IdentityInit => ChainsReachable
      BY DEF IdentityInit, ChainsReachable
<1>2. TypeOK /\ ChainsReachable /\ [IdentityNext]_vars => ChainsReachable'
      BY ReachableStep
<1> QED BY <1>1, <1>2, IdentityTypes, PTL DEF IdentitySpec

-----------------------------------------------------------------------------
\* Replays.  The first identifier a message carries, in lookup order, is bound
\* to the chain that took the message: that is what makes replays converge.
LeadsTo(m, k) ==
    /\ m.orderId # NoId => keyByOrderId[m.orderId] = k
    /\ m.orderId = NoId /\ m.clordid # NoId => keyByClordid[m.clordid] = k
    /\ m.orderId = NoId /\ m.clordid = NoId /\ m.origClordid # NoId =>
         keyByClordid[m.origClordid] = k
    /\ m.orderId = NoId /\ m.clordid = NoId /\ m.origClordid = NoId =>
         m.execId # NoId /\ keyByExecid[m.execId] = k

HistoryLeads == \A h \in history : LeadsTo(h[1], h[2])

\* A message that leads to a key resolves to it.
LEMMA LeadsLookup ==
    ASSUME NEW m \in IdFeed, NEW k \in Ids, LeadsTo(m, k)
    PROVE  Lookup(m) = k
BY IdentityAssumption DEF LeadsTo, Lookup, FirstOf, KeyOf

\* A step keeps what a message leads to.
LEMMA LeadsKept ==
    ASSUME TypeOK, [IdentityNext]_vars, NEW m \in IdFeed, NEW k \in Ids, LeadsTo(m, k)
    PROVE  LeadsTo(m, k)'
<1>1. k # NoId /\ m.orderId \in Key /\ m.clordid \in Key /\ m.origClordid \in Key /\ m.execId \in Key
      BY IdMessageParts, IdentityAssumption
<1>2. \A i \in Ids : /\ keyByOrderId[i] # NoId => keyByOrderId'[i] = keyByOrderId[i]
                     /\ keyByClordid[i] # NoId => keyByClordid'[i] = keyByClordid[i]
                     /\ keyByExecid[i] # NoId => keyByExecid'[i] = keyByExecid[i]
      BY BindingsStandStep
<1> QED BY <1>1, <1>2 DEF LeadsTo, Key

\* The message just applied leads to the chain that took it.
LEMMA LeadsMade ==
    ASSUME TypeOK, NEW m \in IdFeed, ApplyMessage(m), NEW k, k = Resolve(m)
    PROVE  LeadsTo(m, k)'
<1>1. m.orderId \in Key /\ m.clordid \in Key /\ m.origClordid \in Key /\ m.execId \in Key
      BY IdMessageParts
<1>2. k \in Ids
      BY ApplyFacts
<1>3. CASE m.orderId # NoId
      <2>1. keyByOrderId[m.orderId] # NoId => k = keyByOrderId[m.orderId]
            BY <1>3 DEF Resolve, Lookup, FirstOf, KeyOf
      <2>2. keyByOrderId'[m.orderId] = k
            BY <1>1, <1>3, <2>1, ApplyFacts DEF Key
      <2> QED BY <1>3, <2>2 DEF LeadsTo
<1>4. CASE m.orderId = NoId /\ m.clordid # NoId
      <2>1. keyByClordid[m.clordid] # NoId => k = keyByClordid[m.clordid]
            BY <1>4 DEF Resolve, Lookup, FirstOf, KeyOf
      <2>2. keyByClordid'[m.clordid] = k
            BY <1>1, <1>4, <2>1, ApplyFacts DEF Key
      <2> QED BY <1>4, <2>2 DEF LeadsTo
<1>5. CASE m.orderId = NoId /\ m.clordid = NoId /\ m.origClordid # NoId
      <2>1. keyByClordid[m.origClordid] # NoId => k = keyByClordid[m.origClordid]
            BY <1>5 DEF Resolve, Lookup, FirstOf, KeyOf
      <2>2. keyByClordid'[m.origClordid] = k
            BY <1>1, <1>5, <2>1, ApplyFacts DEF Key
      <2> QED BY <1>5, <2>2 DEF LeadsTo
<1>6. CASE m.orderId = NoId /\ m.clordid = NoId /\ m.origClordid = NoId
      <2>1. k = KeyOf(keyByExecid, m.execId)
            BY <1>6 DEF Resolve, Lookup, NewKey, FirstOf, KeyOf
      <2>2. m.execId # NoId /\ keyByExecid[m.execId] = k /\ k # NoId
            BY <1>2, <2>1, IdentityAssumption DEF KeyOf
      <2>3. keyByExecid'[m.execId] = k
            BY <1>1, <2>2, ApplyFacts DEF Key
      <2> QED BY <1>6, <2>2, <2>3 DEF LeadsTo
<1> QED BY <1>3, <1>4, <1>5, <1>6

\* What a step adds to the history is the message it applied.
LEMMA HistoryGrows ==
    ASSUME TypeOK, [IdentityNext]_vars, NEW h \in history', h \notin history
    PROVE  \E m \in IdFeed : ApplyMessage(m) /\ h = <<m, Resolve(m)>>
<1>1. ASSUME NEW m \in IdFeed, Unresolvable(m) \/ AuditOnly(m) PROVE UNCHANGED history
      BY <1>1, AuditFacts
<1>2. CASE UNCHANGED vars
      BY <1>2 DEF vars
<1>3. \E m \in IdFeed : ApplyMessage(m)
      BY <1>1, <1>2 DEF IdentityNext
<1> QED BY <1>3 DEF ApplyMessage

\* Every message that was applied still leads to its chain.
LEMMA HistoryLeadsStep ==
    ASSUME TypeOK, HistoryLeads, [IdentityNext]_vars
    PROVE  HistoryLeads'
<1> SUFFICES ASSUME NEW h \in history' PROVE LeadsTo(h[1], h[2])'
    BY DEF HistoryLeads
<1>1. CASE h \in history
      <2>1. h[1] \in IdFeed /\ h[2] \in Ids
            BY <1>1 DEF TypeOK
      <2>2. LeadsTo(h[1], h[2])
            BY <1>1 DEF HistoryLeads
      <2> QED BY <2>1, <2>2, LeadsKept
<1>2. CASE h \notin history
      <2>1. PICK m \in IdFeed : ApplyMessage(m) /\ h = <<m, Resolve(m)>>
            BY <1>2, HistoryGrows
      <2>2. h[1] = m /\ h[2] = Resolve(m)
            BY <2>1
      <2> QED BY <2>1, <2>2, LeadsMade
<1> QED BY <1>1, <1>2

\* "Replays converge": a message applied once resolves to the same chain ever
\* after, whatever came in between and however often it comes back.
THEOREM IdentityConverges == IdentitySpec => []ReplaysConverge
<1>1. IdentityInit => HistoryLeads
      BY DEF IdentityInit, HistoryLeads
<1>2. TypeOK /\ HistoryLeads /\ [IdentityNext]_vars => HistoryLeads'
      BY HistoryLeadsStep
<1>3. TypeOK /\ HistoryLeads => ReplaysConverge
      BY LeadsLookup DEF TypeOK, HistoryLeads, ReplaysConverge
<1> QED BY <1>1, <1>2, <1>3, IdentityTypes, PTL DEF IdentitySpec

-----------------------------------------------------------------------------
\* Orders kept apart.  A binding never leaves the order that owns its identifier.
OwnersAgree == \A i \in Ids :
    /\ keyByOrderId[i] # NoId => OwnerOf[keyByOrderId[i]] = OwnerOf[i]
    /\ keyByClordid[i] # NoId => OwnerOf[keyByClordid[i]] = OwnerOf[i]
    /\ keyByExecid[i] # NoId => OwnerOf[keyByExecid[i]] = OwnerOf[i]

\* A message resolves to a key of the order it speaks of.
LEMMA ResolveOwner ==
    ASSUME TypeOK, OwnersAgree, NEW m \in IdFeed, Resolve(m) # NoId, NEW i \in Carried(m)
    PROVE  OwnerOf[Resolve(m)] = OwnerOf[i]
<1>1. \A j \in Carried(m) : j \in Ids /\ OwnerOf[j] = OwnerOf[i]
      BY IdMessageParts, IdentityAssumption DEF Carried, Key
<1>2. CASE Lookup(m) # NoId
      <2>1. Resolve(m) = Lookup(m)
            BY <1>2 DEF Resolve, FirstOf
      <2>2. \E j \in Carried(m) : OwnerOf[Lookup(m)] = OwnerOf[j]
            BY <1>1, <1>2 DEF Lookup, FirstOf, KeyOf, Carried, OwnersAgree
      <2> QED BY <1>1, <2>1, <2>2
<1>3. CASE Lookup(m) = NoId
      <2>1. Resolve(m) \in Carried(m)
            BY <1>3 DEF Resolve, NewKey, FirstOf, Carried
      <2> QED BY <1>1, <2>1
<1> QED BY <1>2, <1>3

\* Applying a message keeps every binding with its owner.
LEMMA OwnersApply ==
    ASSUME TypeOK, OwnersAgree, NEW m \in IdFeed, ApplyMessage(m)
    PROVE  OwnersAgree'
<1>1. Resolve(m) \in Ids /\ Resolve(m) # NoId
      BY ApplyFacts, IdentityAssumption
<1>2. \A i \in Ids : i \in {m.orderId, m.clordid, m.origClordid, m.execId} => i \in Carried(m)
      BY IdentityAssumption DEF Carried
<1>3. \A i \in Ids : i \in Carried(m) => OwnerOf[Resolve(m)] = OwnerOf[i]
      BY <1>1, ResolveOwner
<1> SUFFICES ASSUME NEW i \in Ids
             PROVE  /\ keyByOrderId'[i] # NoId => OwnerOf[keyByOrderId'[i]] = OwnerOf[i]
                    /\ keyByClordid'[i] # NoId => OwnerOf[keyByClordid'[i]] = OwnerOf[i]
                    /\ keyByExecid'[i] # NoId => OwnerOf[keyByExecid'[i]] = OwnerOf[i]
    BY DEF OwnersAgree
<1> QED BY <1>1, <1>2, <1>3, ApplyFacts DEF OwnersAgree

OwnersInv == OwnersAgree /\ OneOrderPerChain

\* Every step keeps bindings and chains with their owners.
LEMMA OwnersStep ==
    ASSUME TypeOK, OwnersInv, [IdentityNext]_vars
    PROVE  OwnersInv'
<1>1. ASSUME NEW m \in IdFeed, ApplyMessage(m) PROVE OwnersAgree'
      BY <1>1, OwnersApply DEF OwnersInv
<1>2. ASSUME NEW m \in IdFeed, Unresolvable(m) \/ AuditOnly(m) PROVE OwnersAgree'
      BY <1>2, AuditFacts DEF OwnersInv, OwnersAgree, tables
<1>3. CASE UNCHANGED vars
      BY <1>3 DEF OwnersInv, OneOrderPerChain, OwnersAgree, vars, tables
<1>4. OwnersAgree'
      BY <1>1, <1>2, <1>3 DEF IdentityNext, OwnersInv
<1>5. ASSUME NEW h \in history', NEW i \in Carried(h[1])
      PROVE  OwnerOf[i] = OwnerOf[h[2]]
      <2>1. CASE h \in history
            BY <1>5, <2>1 DEF OwnersInv, OneOrderPerChain
      <2>2. CASE h \notin history
            <3>1. PICK m \in IdFeed : ApplyMessage(m) /\ h = <<m, Resolve(m)>>
                  BY <2>2, HistoryGrows
            <3>2. Resolve(m) # NoId
                  BY <3>1 DEF ApplyMessage
            <3> QED BY <1>5, <3>1, <3>2, ResolveOwner DEF OwnersInv
      <2> QED BY <2>1, <2>2
<1> QED BY <1>4, <1>5 DEF OwnersInv, OneOrderPerChain

\* Messages of two orders never meet in one chain, whatever the feed does, as
\* long as no identifier string belongs to two orders.
THEOREM IdentityNoMerge == IdentitySpec => []OneOrderPerChain
<1>1. IdentityInit => OwnersInv
      BY DEF IdentityInit, OwnersInv, OwnersAgree, OneOrderPerChain
<1>2. TypeOK /\ OwnersInv /\ [IdentityNext]_vars => OwnersInv'
      BY OwnersStep
<1>3. OwnersInv => OneOrderPerChain
      BY DEF OwnersInv
<1> QED BY <1>1, <1>2, <1>3, IdentityTypes, PTL DEF IdentitySpec

-----------------------------------------------------------------------------
\* One chain per order, when the feed hangs together.  Whatever a message of
\* the history carried is bound, every binding is the key of a message of the
\* history, and the messages of one order share their key.

AllBound == \A h \in history :
    /\ h[1].orderId # NoId => keyByOrderId[h[1].orderId] # NoId
    /\ h[1].clordid # NoId => keyByClordid[h[1].clordid] # NoId
    /\ h[1].origClordid # NoId => keyByClordid[h[1].origClordid] # NoId
    /\ h[1].execId # NoId => keyByExecid[h[1].execId] # NoId

Witnessed == \A i \in Ids :
    /\ keyByOrderId[i] # NoId => \E h \in history : h[2] = keyByOrderId[i]
    /\ keyByClordid[i] # NoId => \E h \in history : h[2] = keyByClordid[i]
    /\ keyByExecid[i] # NoId => \E h \in history : h[2] = keyByExecid[i]

ChainsWitnessed == \A k \in chains : \E h \in history : h[2] = k

OneKey == \A h, g \in history : OwnerOf[h[2]] = OwnerOf[g[2]] => h[2] = g[2]

LinkedInv == AllBound /\ Witnessed /\ ChainsWitnessed /\ OneKey

Sound == TypeOK /\ OwnersInv /\ HistoryLeads

\* A message that resolves carries an identifier.
LEMMA ResolvedCarries ==
    ASSUME NEW m \in IdFeed, Resolve(m) # NoId
    PROVE  \E i \in Carried(m) : TRUE
BY DEF Resolve, Lookup, NewKey, FirstOf, KeyOf, Carried

\* A linked message leads to the key its order has already, if it has one.
LEMMA LinkedKey ==
    ASSUME Sound, LinkedInv, NEW m \in IdFeed, Linked(m), ApplyMessage(m),
           NEW h \in history, OwnerOf[h[2]] = OwnerOf[Resolve(m)]
    PROVE  h[2] = Resolve(m)
<1>1. Resolve(m) # NoId /\ Resolve(m) \in Ids /\ h[1] \in IdFeed /\ h[2] \in Ids
      BY ApplyFacts DEF Sound, TypeOK, ApplyMessage
<1>2. CASE Lookup(m) # NoId
      <2>1. Resolve(m) = Lookup(m)
            BY <1>2 DEF Resolve, FirstOf
      <2>2. \E g \in history : g[2] = Lookup(m)
            BY <1>2, IdMessageParts DEF Lookup, FirstOf, KeyOf, LinkedInv, Witnessed, Key
      <2> QED BY <2>1, <2>2 DEF LinkedInv, OneKey
<1>3. CASE Lookup(m) = NoId
      <2>1. \A g \in history, t \in 1..3 : Links(m)[t] \cap Links(g[1])[t] = {}
            <3> SUFFICES ASSUME NEW g \in history, NEW t \in 1..3, NEW i \in Links(m)[t] \cap Links(g[1])[t]
                         PROVE  FALSE
                OBVIOUS
            <3>1. /\ m.orderId # NoId => keyByOrderId[m.orderId] = NoId
                  /\ m.clordid # NoId => keyByClordid[m.clordid] = NoId
                  /\ m.origClordid # NoId => keyByClordid[m.origClordid] = NoId
                  /\ m.execId # NoId => keyByExecid[m.execId] = NoId
                  BY <1>3 DEF Lookup, FirstOf, KeyOf
            <3>2. CASE t = 1
                  BY <3>1, <3>2 DEF Links, LinkedInv, AllBound
            <3>3. CASE t = 2
                  BY <3>1, <3>3 DEF Links, LinkedInv, AllBound
            <3>4. CASE t = 3
                  BY <3>1, <3>4 DEF Links, LinkedInv, AllBound
            <3> QED BY <3>2, <3>3, <3>4
      <2>2. \A i \in Carried(m), j \in Carried(h[1]) : OwnerOf[i] # OwnerOf[j]
            BY <2>1 DEF Linked
      <2>3. PICK i \in Carried(m) : TRUE
            BY <1>1, ResolvedCarries
      <2>4. OwnerOf[i] = OwnerOf[h[2]]
            BY <1>1, <2>3, ResolveOwner DEF Sound, OwnersInv
      <2>5. Lookup(h[1]) = h[2]
            BY <1>1, LeadsLookup DEF Sound, HistoryLeads
      <2>6. PICK j \in Carried(h[1]) : TRUE
            BY <1>1, <2>5, IdentityAssumption, ResolvedCarries DEF Resolve, FirstOf
      <2>7. OwnerOf[j] = OwnerOf[h[2]]
            BY <2>6 DEF Sound, OwnersInv, OneOrderPerChain
      <2> QED BY <2>2, <2>4, <2>7
<1> QED BY <1>2, <1>3

\* Applying a linked message keeps orders and chains one to one.
LEMMA LinkedApply ==
    ASSUME Sound, LinkedInv, NEW m \in IdFeed, Linked(m), ApplyMessage(m)
    PROVE  LinkedInv'
<1> DEFINE key == Resolve(m)
<1>1. /\ history' = history \cup {<<m, key>>}
      /\ chains' = chains \cup {key}
      /\ key \in Ids /\ key # NoId
      BY ApplyFacts DEF ApplyMessage, Sound
<1>2. \A i \in Ids : /\ keyByOrderId'[i] \in {keyByOrderId[i], key}
                     /\ keyByClordid'[i] \in {keyByClordid[i], key}
                     /\ keyByExecid'[i] \in {keyByExecid[i], key}
      BY ApplyFacts, IdentityAssumption DEF Sound
<1>3. \A i \in Ids :
        /\ keyByOrderId[i] # NoId \/ i = m.orderId => keyByOrderId'[i] # NoId
        /\ keyByClordid[i] # NoId \/ i \in {m.clordid, m.origClordid} => keyByClordid'[i] # NoId
        /\ keyByExecid[i] # NoId \/ i = m.execId => keyByExecid'[i] # NoId
      BY <1>1, ApplyFacts DEF Sound
<1>4. \A h \in history : h[2] \in Ids /\ h[1] \in IdFeed
      BY DEF Sound, TypeOK
<1>5. \A h \in history : OwnerOf[h[2]] = OwnerOf[key] => h[2] = key
      BY LinkedKey
<1> HIDE DEF key
<1>6. AllBound'
      BY <1>1, <1>3, <1>4, IdMessageParts DEF LinkedInv, AllBound, Key
<1>w. ASSUME NEW k, k = key \/ \E h \in history : h[2] = k
      PROVE  \E h \in history' : h[2] = k
      <2>1. <<m, key>>[2] = key
            OBVIOUS
      <2> QED BY <1>1, <1>w, <2>1
<1>7. Witnessed'
      <2> SUFFICES ASSUME NEW i \in Ids
                   PROVE  /\ keyByOrderId'[i] # NoId => \E h \in history' : h[2] = keyByOrderId'[i]
                          /\ keyByClordid'[i] # NoId => \E h \in history' : h[2] = keyByClordid'[i]
                          /\ keyByExecid'[i] # NoId => \E h \in history' : h[2] = keyByExecid'[i]
          BY DEF Witnessed
      <2>1. /\ keyByOrderId'[i] # NoId => keyByOrderId'[i] = key \/ \E h \in history : h[2] = keyByOrderId'[i]
            /\ keyByClordid'[i] # NoId => keyByClordid'[i] = key \/ \E h \in history : h[2] = keyByClordid'[i]
            /\ keyByExecid'[i] # NoId => keyByExecid'[i] = key \/ \E h \in history : h[2] = keyByExecid'[i]
            BY <1>2 DEF LinkedInv, Witnessed
      <2> QED BY <1>w, <2>1
<1>8. ChainsWitnessed'
      <2> SUFFICES ASSUME NEW k \in chains' PROVE \E h \in history' : h[2] = k
          BY DEF ChainsWitnessed
      <2> QED BY <1>1, <1>w DEF LinkedInv, ChainsWitnessed
<1>9. OneKey'
      BY <1>1, <1>5 DEF LinkedInv, OneKey
<1> QED BY <1>6, <1>7, <1>8, <1>9 DEF LinkedInv

\* Every step of a linked feed keeps orders and chains one to one.
LEMMA LinkedStep ==
    ASSUME Sound, LinkedInv, [LinkedNext]_vars
    PROVE  LinkedInv'
<1>1. ASSUME NEW m \in IdFeed, Linked(m), ApplyMessage(m) PROVE LinkedInv'
      BY <1>1, LinkedApply
<1>2. ASSUME NEW m \in IdFeed, Unresolvable(m) \/ AuditOnly(m) PROVE LinkedInv'
      BY <1>2, AuditFacts
         DEF Sound, LinkedInv, AllBound, Witnessed, ChainsWitnessed, OneKey, tables
<1>3. CASE UNCHANGED vars
      BY <1>3 DEF LinkedInv, AllBound, Witnessed, ChainsWitnessed, OneKey, vars, tables
<1> QED BY <1>1, <1>2, <1>3 DEF LinkedNext

\* With a feed that hangs together, in whatever order its messages arrive and
\* however often, a client order is exactly one chain.
THEOREM IdentityOneChain == LinkedSpec => []OneChainPerOrder
<1>1. IdentityInit => TypeOK /\ OwnersInv /\ HistoryLeads /\ LinkedInv
      BY TypeOKInit DEF IdentityInit, OwnersInv, OwnersAgree, OneOrderPerChain, HistoryLeads,
         LinkedInv, AllBound, Witnessed, ChainsWitnessed, OneKey
<1>2. Sound /\ LinkedInv /\ [LinkedNext]_vars => (Sound /\ LinkedInv)'
      <2> SUFFICES ASSUME Sound, LinkedInv, [LinkedNext]_vars
                   PROVE  (Sound /\ LinkedInv)'
          OBVIOUS
      <2>1. [IdentityNext]_vars
            BY DEF LinkedNext, IdentityNext
      <2>2. TypeOK'
            BY <2>1, TypeOKStep DEF Sound
      <2>3. OwnersInv'
            BY <2>1, OwnersStep DEF Sound
      <2>4. HistoryLeads'
            BY <2>1, HistoryLeadsStep DEF Sound
      <2>5. LinkedInv'
            BY LinkedStep
      <2> QED BY <2>2, <2>3, <2>4, <2>5 DEF Sound
<1>3. LinkedInv => OneChainPerOrder
      BY DEF LinkedInv, ChainsWitnessed, OneKey, OneChainPerOrder
<1>4. IdentityInit => Sound /\ LinkedInv
      BY <1>1 DEF Sound
<1> QED BY <1>2, <1>3, <1>4, PTL DEF LinkedSpec

\* The safety invariant of the runs: messages lead to one chain for good, and
\* chains are found and are of one order each.
THEOREM IdentityOrdersApart == IdentitySpec => []OrdersApart
<1>1. ChainsReachable /\ ReplaysConverge /\ OneOrderPerChain => OrdersApart
      BY DEF OrdersApart
<1> QED BY <1>1, IdentityReachable, IdentityConverges, IdentityNoMerge, PTL

-----------------------------------------------------------------------------
\* Requests in flight

\* Positions are bounded, so the newest of some is one of them and last.
LEMMA NewestIsLast ==
    ASSUME NEW n \in Nat, NEW S \in SUBSET (1..n), S # {}
    PROVE  /\ Newest(S) \in S
           /\ \A j \in S : j <= Newest(S)
<1> DEFINE R == OpToRel(<, Nat)
<1>1. IsWellFoundedOn(R, Nat)
      BY NatLessThanWellFounded
<1> DEFINE T == {n - j : j \in S}
<1>2. \A j \in S : n - j \in Nat
      OBVIOUS
<1>3. T \subseteq Nat /\ T # {}
      BY <1>2
<1>7. \A x, y \in Nat : x < y => <<x, y>> \in R
      BY DEF OpToRel
<1>4. PICK x \in T : \A y \in T : ~ (<<y, x>> \in R)
  <2> HIDE DEF R, T
  <2> QED BY <1>1, <1>3, WFMin
<1>5. PICK i \in S : x = n - i
      OBVIOUS
<1>6. \A j \in S : j <= i
  <2> TAKE j \in S
  <2>1. n - j \in T /\ n - j \in Nat /\ x \in Nat
        OBVIOUS
  <2>2. ~(n - j < x)
        BY <1>7, <1>4, <2>1
  <2> QED BY <1>5, <2>1, <2>2
<1> QED BY <1>5, <1>6 DEF Newest

\* The request an answer is for is one of its action, or there is none.
LEMMA AnsweredIsInFlight ==
    ASSUME NEW requests \in Seq(Request), NEW action, NEW id
    PROVE  /\ Answered(requests, action, id) \in InFlight(requests, action) \cup {0}
           /\ InFlight(requests, action) \subseteq 1..Len(requests)
<1> DEFINE ofAction == InFlight(requests, action)
           exact    == {i \in ofAction : id # None /\ requests[i].clordid = id}
<1>1. ofAction \in SUBSET (1..Len(requests)) /\ exact \in SUBSET ofAction
      BY DEF InFlight
<1>0. Len(requests) \in Nat /\ exact \in SUBSET (1..Len(requests))
      BY <1>1
<1>2. Answered(requests, action, id) = IF exact # {} THEN Newest(exact) ELSE Newest(ofAction)
      BY DEF Answered
<1> HIDE DEF ofAction, exact
<1>3. exact # {} => Newest(exact) \in exact
      BY <1>0, NewestIsLast
<1>4. ofAction # {} => Newest(ofAction) \in ofAction
      BY <1>0, <1>1, NewestIsLast
<1>5. ofAction = {} => Newest(ofAction) = 0
      BY DEF Newest
<1>6. Answered(requests, action, id) \in ofAction \cup {0}
      BY <1>1, <1>2, <1>3, <1>4, <1>5
<1> QED BY <1>1, <1>6 DEF ofAction

\* What is left when one request is taken out.
LEMMA WithoutFacts ==
    ASSUME NEW s \in Seq(Request), NEW i \in 1..Len(s)
    PROVE  /\ Without(s, i) \in Seq(Request)
           /\ Len(Without(s, i)) = Len(s) - 1
           /\ \A k \in 1..(Len(s) - 1) : Without(s, i)[k] = IF k < i THEN s[k] ELSE s[k + 1]
<1> DEFINE a == SubSeq(s, 1, i - 1)
           b == SubSeq(s, i + 1, Len(s))
<1>1. Without(s, i) = a \o b
  <2>1. i # 0
        OBVIOUS
  <2> QED BY <2>1, Zenon DEF Without, RemoveAt
<1>2. a \in Seq(Request) /\ Len(a) = i - 1 /\ \A k \in 1..(i - 1) : a[k] = s[k]
      OBVIOUS
<1>3. b \in Seq(Request) /\ Len(b) = Len(s) - i
      OBVIOUS
<1>4. \A k \in 1..(Len(s) - i) : b[k] = s[k + i]
      OBVIOUS
<1> HIDE DEF a, b
<1>5. a \o b \in Seq(Request) /\ Len(a \o b) = Len(s) - 1
  <2>1. a \in Seq(Request) /\ b \in Seq(Request)
        BY <1>2, <1>3
  <2>2. a \o b \in Seq(Request) /\ Len(a \o b) = Len(a) + Len(b)
        BY <2>1
  <2> QED BY <1>2, <1>3, <2>2
<1>6. ASSUME NEW k \in 1..(Len(s) - 1)
      PROVE  (a \o b)[k] = IF k < i THEN s[k] ELSE s[k + 1]
  <2>1. CASE k < i
        BY <1>2, <1>3, <2>1
  <2>2. CASE k >= i
    <3> DEFINE p == k - (i - 1)
    <3>1. p \in 1..(Len(s) - i) /\ p + i = k + 1 /\ ~(k < i)
          BY <2>2
    <3>2. (a \o b)[k] = b[p]
          BY <1>2, <1>3, <2>2
    <3> HIDE DEF p
    <3>3. b[p] = s[p + i]
          BY <1>4, <3>1
    <3> QED BY <3>1, <3>2, <3>3
  <2>3. k < i \/ k >= i
        OBVIOUS
  <2> QED BY <2>1, <2>2, <2>3
<1> QED BY <1>1, <1>5, <1>6

\* Taking out the request that an answer is for leaves a list of requests, each from the list
\* before; it is shorter if there was one.
LEMMA ResolvedFacts ==
    ASSUME NEW s \in Seq(Request), NEW action, NEW id
    PROVE  LET t == Without(s, Answered(s, action, id))
           IN  /\ t \in Seq(Request)
               /\ Len(t) <= Len(s)
               /\ Answered(s, action, id) # 0 => Len(t) < Len(s)
               /\ \A k \in 1..Len(t) : \E j \in 1..Len(s) : t[k] = s[j]
<1> DEFINE i == Answered(s, action, id)
           t == Without(s, i)
<1>1. i \in 1..Len(s) \cup {0}
      BY AnsweredIsInFlight
<1> HIDE DEF i
<1>2. CASE i = 0
      BY <1>2 DEF Without, i
<1>3. CASE i \in 1..Len(s)
  <2>1. /\ t \in Seq(Request) /\ Len(t) = Len(s) - 1
        /\ \A k \in 1..(Len(s) - 1) : t[k] = IF k < i THEN s[k] ELSE s[k + 1]
        BY <1>3, WithoutFacts
  <2> HIDE DEF t
  <2>2. ASSUME NEW k \in 1..Len(t) PROVE \E j \in 1..Len(s) : t[k] = s[j]
    <3>1. k \in 1..Len(s) /\ k + 1 \in 1..Len(s)
          BY <2>1
    <3> QED BY <2>1, <3>1
  <2>3. Len(t) <= Len(s) /\ Len(t) < Len(s)
        BY <2>1
  <2> QED BY <2>1, <2>2, <2>3 DEF t, i
<1> QED BY <1>1, <1>2, <1>3

\* The requests of one action, as a finite set of positions.
LEMMA InFlightFinite ==
    ASSUME NEW s \in Seq(Request), NEW a
    PROVE  /\ IsFiniteSet(InFlight(s, a)) /\ Cardinality(InFlight(s, a)) \in Nat
           /\ InFlight(s, a) = {k \in 1..Len(s) : s[k].action = a}
<1>1. InFlight(s, a) = {k \in 1..Len(s) : s[k].action = a}
      BY DEF InFlight
<1>2. IsFiniteSet(1..Len(s))
      BY FS_Interval
<1> QED BY <1>1, <1>2, FS_Subset, FS_CardinalityType

\* An answer takes at most one request of its action out, and none of the other.
LEMMA AnswerTakesOne ==
    ASSUME NEW s \in Seq(Request), NEW action, NEW id, NEW a
    PROVE  LET t == Without(s, Answered(s, action, id))
           IN  /\ Cardinality(InFlight(t, a)) + 1 >= Cardinality(InFlight(s, a))
               /\ a # action => Cardinality(InFlight(t, a)) >= Cardinality(InFlight(s, a))
<1> DEFINE i == Answered(s, action, id)
           t == Without(s, i)
           S == InFlight(s, a)
           T == InFlight(t, a)
           f == [k \in S \ {i} |-> IF k < i THEN k ELSE k - 1]
<1>1. i \in InFlight(s, action) \cup {0} /\ t \in Seq(Request)
      BY AnsweredIsInFlight, ResolvedFacts
<1>2. /\ IsFiniteSet(S) /\ Cardinality(S) \in Nat /\ S = {k \in 1..Len(s) : s[k].action = a}
      /\ IsFiniteSet(T) /\ Cardinality(T) \in Nat /\ T = {k \in 1..Len(t) : t[k].action = a}
      /\ InFlight(s, action) = {k \in 1..Len(s) : s[k].action = action}
      BY <1>1, InFlightFinite
<1>3. CASE i = 0
  <2>1. t = s
        BY <1>3 DEF Without
  <2> QED BY <1>2, <2>1
<1>4. CASE i \in 1..Len(s)
  <2>1. /\ Len(t) = Len(s) - 1
        /\ \A k \in 1..(Len(s) - 1) : t[k] = IF k < i THEN s[k] ELSE s[k + 1]
        BY <1>4, WithoutFacts
  <2> HIDE DEF S, T, t, i
  <2>2. ASSUME NEW k \in S \ {i} PROVE f[k] \in T
    <3>1. k \in 1..Len(s) /\ s[k].action = a /\ k # i
          BY <1>2
    <3>2. CASE k < i
      <4>1. f[k] = k /\ k \in 1..(Len(s) - 1) /\ t[k] = s[k]
            BY <1>4, <2>1, <3>1, <3>2
      <4> QED BY <1>2, <2>1, <3>1, <4>1
    <3>3. CASE k > i
      <4> DEFINE p == k - 1
      <4>1. f[k] = p /\ p \in 1..(Len(s) - 1) /\ ~(p < i) /\ p + 1 = k
            BY <1>4, <3>1, <3>3
      <4> HIDE DEF p
      <4>2. t[p] = s[p + 1]
            BY <2>1, <4>1
      <4> QED BY <1>2, <2>1, <3>1, <4>1, <4>2
    <3> QED BY <1>4, <3>1, <3>2, <3>3
  <2>3. \A k, l \in S \ {i} : f[k] = f[l] => k = l
    <3> TAKE k, l \in S \ {i}
    <3>1. k \in 1..Len(s) /\ l \in 1..Len(s) /\ k # i /\ l # i
          BY <1>2
    <3>2. f[k] = (IF k < i THEN k ELSE k - 1) /\ f[l] = (IF l < i THEN l ELSE l - 1)
          OBVIOUS
    <3> QED BY <1>4, <3>1, <3>2
  <2>4. f \in Injection(S \ {i}, T)
    <3>1. f \in [S \ {i} -> T]
          BY <2>2
    <3> HIDE DEF f
    <3> QED BY <2>3, <3>1 DEF Injection, IsInjective
  <2>5. Cardinality(S \ {i}) <= Cardinality(T)
    <3> HIDE DEF f
    <3> QED BY <1>2, <2>4, FS_Injection
  <2>6. Cardinality(S \ {i}) = IF i \in S THEN Cardinality(S) - 1 ELSE Cardinality(S)
        BY <1>2, FS_RemoveElement
  <2>7. a # action => i \notin S
        BY <1>1, <1>2, <1>4
  <2> QED BY <1>2, <2>5, <2>6, <2>7 DEF S, T, t, i
<1> QED BY <1>1, <1>2, <1>3, <1>4

\* A new request is one more of its action.
LEMMA AppendKeeps ==
    ASSUME NEW s \in Seq(Request), NEW r \in Request, NEW a
    PROVE  Cardinality(InFlight(Append(s, r), a)) >= Cardinality(InFlight(s, a))
<1>1. Append(s, r) \in Seq(Request) /\ Len(Append(s, r)) = Len(s) + 1
      OBVIOUS
<1>2. \A k \in 1..Len(s) : Append(s, r)[k] = s[k]
      OBVIOUS
<1>3. InFlight(s, a) \subseteq InFlight(Append(s, r), a)
  <2>1. InFlight(Append(s, r), a) = {k \in 1..Len(Append(s, r)) : Append(s, r)[k].action = a}
        BY <1>1, InFlightFinite
  <2>2. InFlight(s, a) = {k \in 1..Len(s) : s[k].action = a}
        BY InFlightFinite
  <2> QED BY <1>1, <1>2, <2>1, <2>2
<1>4. /\ IsFiniteSet(InFlight(Append(s, r), a)) /\ Cardinality(InFlight(Append(s, r), a)) \in Nat
      /\ Cardinality(InFlight(s, a)) \in Nat
      BY <1>1, InFlightFinite
<1>5. Cardinality(InFlight(s, a)) <= Cardinality(InFlight(Append(s, r), a))
      BY <1>3, <1>4, FS_Subset
<1> QED BY <1>4, <1>5

-----------------------------------------------------------------------------
\* Types

\* The parts of a message.
LEMMA MessageParts ==
    ASSUME NEW m \in Message
    PROVE  /\ m.clordid \in Optional(ClOrdIDs) /\ m.origClordid \in Optional(ClOrdIDs)
           /\ m.qty \in Optional(Qtys) /\ m.cum \in Optional(Qtys)
           /\ m.shares \in Optional(Qtys)
           /\ m.execId \in Optional(ExecIDs) /\ m.execRefId \in Optional(ExecIDs)
           /\ m.execType \in Optional(ExecTypes) /\ m.status \in Optional(Statuses)
           /\ m.responseTo \in Optional(Actions)
BY DEF Message

\* What a feed carries are messages.
LEMMA FeedCarries == \A m \in Messages : m \in Message
BY ChainAssumption

\* The summary is recomputed from the requests, so it shows them.
LEMMA SummaryFollows ==
    ASSUME pending' \in Seq(Request), newPending' \in BOOLEAN, RecomputePending
    PROVE  /\ pendingAction' \in Actions \cup {"NEW", "NONE"}
           /\ pendingClordid' \in Optional(ClOrdIDs)
           /\ PendingShown'
<1>1. CASE pending' = <<>>
      BY <1>1 DEF RecomputePending, PendingShown, Optional
<1>2. CASE pending' # <<>>
  <2>1. Last(pending') = pending'[Len(pending')] /\ Len(pending') \in 1..Len(pending')
        BY <1>2 DEF Last
  <2>2. Last(pending') \in Request
        BY <2>1
  <2>3. Last(pending').action \in Actions /\ Last(pending').clordid \in Optional(ClOrdIDs)
        BY <2>2 DEF Request
  <2> QED BY <1>2, <2>3 DEF RecomputePending, PendingShown
<1> QED BY <1>1, <1>2

\* The terms a message leaves are quantities.
LEMMA TermsType ==
    ASSUME ChainTypeOK, NEW m \in Message
    PROVE  /\ Terms(m) \in Qtys /\ FillTerms(m) \in Qtys
           /\ orderQty # 0 => FillTerms(m) = orderQty
BY MessageParts DEF Terms, FillTerms, OrElse, ChainTypeOK, Optional

\* What a report that resolves something does to requests, terms and identity.
LEMMA ResolveFacts ==
    ASSUME ChainTypeOK, NEW m \in Message, ResolvePending(m)
    PROVE  /\ pending' \in Seq(Request) /\ newPending' \in BOOLEAN
           /\ orderQty' \in Qtys /\ clordid' \in Optional(ClOrdIDs)
           /\ priorStatus' = priorStatus
           /\ RecomputePending
           /\ Len(pending') <= Len(pending)
           /\ orderQty' # FillTerms(m) =>
                \E i \in 1..Len(pending) : /\ pending[i].action = "REPLACE"
                                           /\ pending[i].qty = orderQty'
                                           /\ Len(pending') < Len(pending)
           /\ \A a \in Actions :
                Cardinality(InFlight(pending', a)) + 1 >= Cardinality(InFlight(pending, a))
<1> DEFINE left == AfterCancel(m)
           i == Answered(left, "REPLACE", m.clordid)
           staged == IF i = 0 THEN None ELSE left[i].qty
           rotated == OrElse(m.clordid, IF i = 0 THEN None ELSE left[i].clordid)
<1>1. pending \in Seq(Request)
      BY DEF ChainTypeOK
<1>2. /\ left \in Seq(Request) /\ Len(left) <= Len(pending)
      /\ \A k \in 1..Len(left) : \E j \in 1..Len(pending) : left[k] = pending[j]
      /\ \A a \in Actions :
            /\ Cardinality(InFlight(left, a)) + 1 >= Cardinality(InFlight(pending, a))
            /\ a = "REPLACE" => Cardinality(InFlight(left, a)) >= Cardinality(InFlight(pending, a))
  <2>1. CASE left = pending
    <3>1. \A a : Cardinality(InFlight(pending, a)) \in Nat
          BY <1>1, InFlightFinite
    <3> QED BY <1>1, <2>1, <3>1
  <2>2. CASE left = Without(pending, Answered(pending, "CANCEL", m.clordid))
    <3> HIDE DEF left
    <3>1. "REPLACE" # "CANCEL"
          OBVIOUS
    <3>2. /\ left \in Seq(Request) /\ Len(left) <= Len(pending)
          /\ \A k \in 1..Len(left) : \E j \in 1..Len(pending) : left[k] = pending[j]
          BY <1>1, <2>2, ResolvedFacts
    <3>3. \A a : /\ Cardinality(InFlight(left, a)) + 1 >= Cardinality(InFlight(pending, a))
                 /\ a # "CANCEL" => Cardinality(InFlight(left, a)) >= Cardinality(InFlight(pending, a))
          BY <1>1, <2>2, AnswerTakesOne
    <3> QED BY <3>1, <3>2, <3>3
  <2> QED BY <2>1, <2>2 DEF AfterCancel
<1>3. /\ newPending' = (newPending /\ m.execType = "PENDING_NEW")
      /\ priorStatus' = priorStatus /\ RecomputePending
      BY DEF ResolvePending
<1>4. \/ /\ pending' = Without(left, i)
         /\ orderQty' = OrElse(staged, FillTerms(m))
         /\ clordid' = OrElse(rotated, SeededId(m))
      \/ /\ pending' = left
         /\ orderQty' = FillTerms(m)
         /\ clordid' = SeededId(m)
      BY DEF ResolvePending
<1>5. newPending' \in BOOLEAN
      BY <1>3
<1>6. SeededId(m) \in Optional(ClOrdIDs) /\ FillTerms(m) \in Qtys
      BY MessageParts, TermsType DEF SeededId, ChainTypeOK
<1>7. CASE pending' = left /\ orderQty' = FillTerms(m) /\ clordid' = SeededId(m)
  <2> HIDE DEF left
  <2> QED BY <1>2, <1>3, <1>5, <1>6, <1>7
<1>8. CASE /\ pending' = Without(left, i)
           /\ orderQty' = OrElse(staged, FillTerms(m))
           /\ clordid' = OrElse(rotated, SeededId(m))
  <2>1. i \in InFlight(left, "REPLACE") \cup {0}
        BY <1>2, AnsweredIsInFlight
  <2>2. InFlight(left, "REPLACE") = {k \in 1..Len(left) : left[k].action = "REPLACE"}
        BY <1>2, InFlightFinite
  <2>3. /\ pending' \in Seq(Request) /\ Len(pending') <= Len(left)
        /\ i # 0 => Len(pending') < Len(left)
        BY <1>2, <1>8, ResolvedFacts
  <2>4. \A a : /\ Cardinality(InFlight(pending', a)) + 1 >= Cardinality(InFlight(left, a))
               /\ a # "REPLACE" => Cardinality(InFlight(pending', a)) >= Cardinality(InFlight(left, a))
        BY <1>2, <1>8, AnswerTakesOne
  <2>5. \A a : /\ Cardinality(InFlight(pending', a)) \in Nat
               /\ Cardinality(InFlight(left, a)) \in Nat
               /\ Cardinality(InFlight(pending, a)) \in Nat
        BY <1>1, <1>2, <2>3, InFlightFinite
  <2> HIDE DEF left, i
  <2>6. i # 0 => /\ i \in 1..Len(left) /\ left[i] \in Request /\ left[i].action = "REPLACE"
                 /\ left[i].qty \in Optional(Qtys) /\ left[i].clordid \in Optional(ClOrdIDs)
    <3> SUFFICES ASSUME i # 0
                 PROVE  /\ i \in 1..Len(left) /\ left[i] \in Request /\ left[i].action = "REPLACE"
                        /\ left[i].qty \in Optional(Qtys) /\ left[i].clordid \in Optional(ClOrdIDs)
        OBVIOUS
    <3>1. i \in 1..Len(left) /\ left[i].action = "REPLACE"
          BY <2>1, <2>2
    <3>2. left[i] \in Request
          BY <1>2, <3>1
    <3> QED BY <3>1, <3>2 DEF Request
  <2>7. orderQty' \in Qtys
        BY <1>6, <1>8, <2>6 DEF OrElse, Optional
  <2>8. clordid' \in Optional(ClOrdIDs)
        BY <1>6, <1>8, <2>6, MessageParts DEF OrElse, Optional
  <2>9. orderQty' # FillTerms(m) =>
            \E k \in 1..Len(pending) : /\ pending[k].action = "REPLACE"
                                       /\ pending[k].qty = orderQty'
                                       /\ Len(pending') < Len(pending)
    <3> SUFFICES ASSUME orderQty' # FillTerms(m)
                 PROVE  \E k \in 1..Len(pending) : /\ pending[k].action = "REPLACE"
                                                   /\ pending[k].qty = orderQty'
                                                   /\ Len(pending') < Len(pending)
        OBVIOUS
    <3>1. i # 0 /\ orderQty' = left[i].qty
          BY <1>8 DEF OrElse
    <3>2. PICK j \in 1..Len(pending) : left[i] = pending[j]
          BY <1>2, <2>6, <3>1
    <3>3. Len(pending') < Len(pending)
          BY <1>1, <1>2, <2>3, <3>1
    <3> QED BY <2>6, <3>1, <3>2, <3>3
  <2>10. \A a \in Actions :
            Cardinality(InFlight(pending', a)) + 1 >= Cardinality(InFlight(pending, a))
    <3> TAKE a \in Actions
    <3>1. CASE a = "REPLACE"
          BY <1>2, <2>4, <2>5, <3>1
    <3>2. CASE a # "REPLACE"
          BY <1>2, <2>4, <2>5, <3>2
    <3> QED BY <3>1, <3>2
  <2>11. Len(pending') <= Len(pending)
         BY <1>1, <1>2, <2>3
  <2> QED BY <1>3, <1>5, <2>3, <2>7, <2>8, <2>9, <2>10, <2>11
<1> QED BY <1>4, <1>7, <1>8

\* What a request does to the requests in flight.
LEMMA RegisterFacts ==
    ASSUME ChainTypeOK, NEW m \in Message, NEW action \in Actions, NEW staged \in Optional(Qtys),
           Register(m, action, staged)
    PROVE  /\ pending' \in Seq(Request) /\ newPending' = newPending
           /\ priorStatus' \in [Optional(ClOrdIDs) -> Optional(Statuses) \cup {"unset"}]
           /\ RecomputePending
           /\ \A a \in Actions :
                Cardinality(InFlight(pending', a)) + 1 >= Cardinality(InFlight(pending, a))
<1> DEFINE r == [action |-> action, clordid |-> m.clordid, qty |-> staged]
<1>1. r \in Request
      BY MessageParts DEF Request
<1>2. pending' = Append(pending, r) /\ pending \in Seq(Request)
      BY DEF Register, ChainTypeOK
<1> HIDE DEF r
<1>3. pending' \in Seq(Request)
      BY <1>1, <1>2
<1>4. \A a : /\ Cardinality(InFlight(pending', a)) >= Cardinality(InFlight(pending, a))
             /\ Cardinality(InFlight(pending', a)) \in Nat
             /\ Cardinality(InFlight(pending, a)) \in Nat
      BY <1>1, <1>2, <1>3, AppendKeeps, InFlightFinite
<1>5. \A a \in Actions :
         Cardinality(InFlight(pending', a)) + 1 >= Cardinality(InFlight(pending, a))
      BY <1>4
<1>6. priorStatus' \in [Optional(ClOrdIDs) -> Optional(Statuses) \cup {"unset"}]
      BY MessageParts DEF Register, ChainTypeOK
<1> QED BY <1>3, <1>5, <1>6 DEF Register

\* What a rejection does to the requests in flight.
LEMMA RejectFacts ==
    ASSUME ChainTypeOK, NEW m \in Message, CancelReject(m)
    PROVE  /\ pending' \in Seq(Request)
           /\ ordStatus' \in Optional(Statuses)
           /\ \A a \in Actions :
                Cardinality(InFlight(pending', a)) + 1 >= Cardinality(InFlight(pending, a))
<1>1. pending \in Seq(Request)
      BY DEF ChainTypeOK
<1>2. \A a : Cardinality(InFlight(pending, a)) \in Nat
      BY <1>1, InFlightFinite
<1>3. \/ pending' = pending
      \/ pending' = Without(pending, Answered(pending, RejectedAction(m), m.clordid))
      BY DEF CancelReject
<1>4. pending' \in Seq(Request)
      BY <1>1, <1>3, ResolvedFacts
<1>5. \A a \in Actions :
         Cardinality(InFlight(pending', a)) + 1 >= Cardinality(InFlight(pending, a))
  <2>1. CASE pending' = pending
        BY <1>2, <2>1
  <2>2. CASE pending' = Without(pending, Answered(pending, RejectedAction(m), m.clordid))
        BY <1>1, <2>2, AnswerTakesOne
  <2> QED BY <1>3, <2>1, <2>2
<1>6. ordStatus' \in Optional(Statuses)
  <2>1. /\ m.status \in Optional(Statuses) /\ ordStatus \in Optional(Statuses)
        /\ priorStatus[m.clordid] \in Optional(Statuses) \cup {"unset"}
        BY MessageParts DEF ChainTypeOK
  <2>2. \/ ordStatus' = m.status
        \/ ordStatus' = ordStatus
        \/ ordStatus' = priorStatus[m.clordid] /\ ordStatus' # "unset"
        BY DEF CancelReject, StatusAfterReject, OrElse
  <2> QED BY <2>1, <2>2
<1> QED BY <1>4, <1>5, <1>6

\* The executions rows a report and a DK leave.
LEMMA RowTypes ==
    ASSUME ChainTypeOK, NEW m \in Message
    PROVE  /\ Dispositions(m) \in [Optional(ExecIDs) -> Optional(ExecRow)]
           /\ [execRows EXCEPT ![m.execId] = Reemitted(@, "DK", None)]
                 \in [Optional(ExecIDs) -> Optional(ExecRow)]
           /\ execIds \cup ({m.execId} \ {None}) \in SUBSET ExecIDs
<1>1. ASSUME NEW row \in Optional(ExecRow), NEW shares \in Optional(Qtys),
             NEW d \in {"NORMAL", "BUSTED", "CORRECTED", "DK"}
      PROVE  Reemitted(row, d, shares) \in Optional(ExecRow)
  <2> DEFINE stored == IF row = None THEN [fill |-> FALSE, shares |-> 0] ELSE row
  <2>1. stored.fill \in BOOLEAN /\ stored.shares \in Qtys
    <3>1. 0 \in Qtys
          BY ChainAssumption DEF Qtys
    <3>2. CASE row = None
          BY <3>1, <3>2
    <3>3. CASE row \in ExecRow /\ row # None
          BY <3>3 DEF ExecRow
    <3> QED BY <3>2, <3>3 DEF Optional
  <2>2. OrElse(shares, stored.shares) \in Qtys
        BY <2>1 DEF OrElse, Optional
  <2>3. Reemitted(row, d, shares)
          = [fill |-> stored.fill, shares |-> OrElse(shares, stored.shares), disposition |-> d]
        BY DEF Reemitted
  <2> HIDE DEF stored
  <2>4. Reemitted(row, d, shares) \in ExecRow
        BY <2>1, <2>2, <2>3 DEF ExecRow
  <2> QED BY <2>4 DEF Optional
<1>2. BuildExecRow(m) \in Optional(ExecRow)
  <2>1. OrElse(m.shares, 0) \in Qtys
        BY MessageParts, ChainAssumption DEF OrElse, Qtys, Optional
  <2>2. BuildExecRow(m) \in ExecRow
        BY <2>1 DEF BuildExecRow, ExecRow
  <2> QED BY <2>2 DEF Optional
<1>3. m.execId \in Optional(ExecIDs) /\ m.execRefId \in Optional(ExecIDs) /\ m.shares \in Optional(Qtys)
      BY MessageParts
<1>4. None \in Optional(Qtys)
      BY DEF Optional
<1> DEFINE own == IF m.execId = None THEN execRows
                  ELSE [execRows EXCEPT ![m.execId] = BuildExecRow(m)]
<1>5. own \in [Optional(ExecIDs) -> Optional(ExecRow)]
      BY <1>2, <1>3 DEF ChainTypeOK
<1>6. Dispositions(m) = IF m.execRefId # None /\ (IsBust(m) \/ IsCorrect(m))
                        THEN [own EXCEPT ![m.execRefId] =
                                IF IsBust(m) THEN Reemitted(own[m.execRefId], "BUSTED", None)
                                ELSE Reemitted(own[m.execRefId], "CORRECTED", m.shares)]
                        ELSE own
      BY DEF Dispositions
<1> HIDE DEF own
<1>7. own[m.execRefId] \in Optional(ExecRow)
      BY <1>3, <1>5
<1>8. /\ Reemitted(own[m.execRefId], "BUSTED", None) \in Optional(ExecRow)
      /\ Reemitted(own[m.execRefId], "CORRECTED", m.shares) \in Optional(ExecRow)
      BY <1>1, <1>3, <1>4, <1>7
<1>9. Dispositions(m) \in [Optional(ExecIDs) -> Optional(ExecRow)]
      BY <1>5, <1>6, <1>8
<1>10. [execRows EXCEPT ![m.execId] = Reemitted(@, "DK", None)]
          \in [Optional(ExecIDs) -> Optional(ExecRow)]
  <2>1. Reemitted(execRows[m.execId], "DK", None) \in Optional(ExecRow)
        BY <1>1, <1>3, <1>4 DEF ChainTypeOK
  <2> QED BY <2>1 DEF ChainTypeOK
<1>11. execIds \cup ({m.execId} \ {None}) \in SUBSET ExecIDs
       BY <1>3 DEF ChainTypeOK, Optional
<1> QED BY <1>9, <1>10, <1>11

-----------------------------------------------------------------------------
\* The inductive invariant

\* Before its first message a chain has neither terms nor fills; and a report without an
\* ExecID is remembered under none, so none is never a replay.
ChainSound ==
    /\ ChainTypeOK
    /\ PendingShown
    /\ ~open => orderQty = 0 /\ cumQty = 0
    /\ None \notin execIds

\* A new chain is sound.
LEMMA SoundInit == ChainInit => ChainSound
<1> SUFFICES ASSUME ChainInit PROVE ChainSound
    OBVIOUS
<1>1. 0 \in Qtys
      BY ChainAssumption DEF Qtys
<1>2. pending \in Seq(Request)
      BY DEF ChainInit
<1>3. /\ priorStatus \in [Optional(ClOrdIDs) -> Optional(Statuses) \cup {"unset"}]
      /\ execRows \in [Optional(ExecIDs) -> Optional(ExecRow)]
      BY DEF ChainInit, Optional
<1>4. ChainTypeOK
      BY <1>1, <1>2, <1>3 DEF ChainInit, ChainTypeOK, Optional
<1>5. PendingShown
      BY DEF ChainInit, PendingShown
<1> QED BY <1>4, <1>5 DEF ChainInit, ChainSound

\* A new order leaves the chain sound.
LEMMA NewOrderSound ==
    ASSUME ChainSound, NEW m \in Message, NewOrder(m)
    PROVE  ChainSound'
<1> USE DEF ChainSound
<1>1. pending' = pending /\ pending \in Seq(Request) /\ newPending' \in BOOLEAN
      BY DEF NewOrder, ChainTypeOK
<1>2. /\ pendingAction' \in Actions \cup {"NEW", "NONE"}
      /\ pendingClordid' \in Optional(ClOrdIDs)
      /\ PendingShown'
      BY <1>1, SummaryFollows DEF NewOrder
<1>3. /\ ordStatus' \in Optional(Statuses)
      /\ cumQty' \in Qtys /\ orderQty' \in Qtys
      /\ clordid' \in Optional(ClOrdIDs)
  <2>1. 0 \in Qtys
        BY ChainAssumption DEF Qtys
  <2>2. "PENDING_NEW" \in Optional(Statuses)
        BY DEF Optional, Statuses
  <2>3. OrElse(clordid, m.clordid) \in Optional(ClOrdIDs)
        BY MessageParts DEF OrElse, ChainTypeOK
  <2>4. m.clordid \in Optional(ClOrdIDs) /\ Terms(m) \in Qtys /\ FillTerms(m) \in Qtys
        BY MessageParts, TermsType
  <2> QED BY <2>1, <2>2, <2>3, <2>4 DEF NewOrder, ChainTypeOK
<1> QED BY <1>1, <1>2, <1>3 DEF NewOrder, ChainTypeOK, rows

\* A replace or cancel request leaves the chain sound.
LEMMA RequestSound ==
    ASSUME ChainSound, NEW m \in Message, ReplaceRequest(m) \/ CancelRequest(m)
    PROVE  /\ ChainSound'
           /\ \A a \in Actions :
                Cardinality(InFlight(pending', a)) + 1 >= Cardinality(InFlight(pending, a))
<1> USE DEF ChainSound
<1>1. PICK action \in Actions, staged \in Optional(Qtys) : Register(m, action, staged)
  <2>1. CASE ReplaceRequest(m)
        BY <2>1, MessageParts DEF ReplaceRequest, Actions
  <2>2. CASE CancelRequest(m)
        BY <2>2 DEF CancelRequest, Actions, Optional
  <2> QED BY <2>1, <2>2
<1>2. /\ pending' \in Seq(Request) /\ newPending' = newPending
      /\ priorStatus' \in [Optional(ClOrdIDs) -> Optional(Statuses) \cup {"unset"}]
      /\ RecomputePending
      /\ \A a \in Actions :
            Cardinality(InFlight(pending', a)) + 1 >= Cardinality(InFlight(pending, a))
      BY <1>1, RegisterFacts
<1>3. /\ pendingAction' \in Actions \cup {"NEW", "NONE"}
      /\ pendingClordid' \in Optional(ClOrdIDs)
      /\ PendingShown'
      BY <1>2, SummaryFollows DEF ChainTypeOK
<1>4. open' = TRUE /\ SeedFromRequest(m) /\ ordStatus' \in Optional(Statuses)
      BY DEF ReplaceRequest, CancelRequest, SeedFromRequest, Optional, Statuses
<1>5. orderQty' \in Qtys /\ clordid' \in Optional(ClOrdIDs)
  <2>1. OrElse(m.origClordid, m.clordid) \in Optional(ClOrdIDs)
        BY MessageParts DEF OrElse
  <2> QED BY <1>4, <2>1, TermsType DEF SeedFromRequest, ChainTypeOK
<1>6. UNCHANGED <<cumQty, execIds, execRows>>
      BY DEF ReplaceRequest, CancelRequest, rows
<1> QED BY <1>2, <1>3, <1>4, <1>5, <1>6 DEF ChainTypeOK

\* An execution report leaves the chain sound.
LEMMA ReportSound ==
    ASSUME ChainSound, NEW m \in Message, ExecutionReport(m)
    PROVE  ChainSound'
<1> USE DEF ChainSound
<1>1. open' = TRUE
      BY DEF ExecutionReport
<1>2. SeededId(m) \in Optional(ClOrdIDs) /\ FillTerms(m) \in Qtys
      BY MessageParts, TermsType DEF SeededId, ChainTypeOK
<1>3. OrElse(m.status, ordStatus) \in Optional(Statuses) /\ OrElse(m.cum, cumQty) \in Qtys
      BY MessageParts DEF OrElse, ChainTypeOK, Optional
<1>4. /\ Dispositions(m) \in [Optional(ExecIDs) -> Optional(ExecRow)]
      /\ execIds \cup ({m.execId} \ {None}) \in SUBSET ExecIDs
      /\ None \notin execIds \cup ({m.execId} \ {None})
      BY RowTypes
<1>5. CASE ReportDuplicate(m)
      BY <1>1, <1>2, <1>5 DEF ReportDuplicate, ChainTypeOK, PendingShown, flight, rows
<1>6. CASE ReportStale(m)
      BY <1>1, <1>2, <1>3, <1>4, <1>6 DEF ReportStale, ChainTypeOK, PendingShown, flight
<1>7. CASE ReportCurrent(m)
  <2>1. ResolvePending(m)
        BY <1>7 DEF ReportCurrent
  <2>2. /\ pending' \in Seq(Request) /\ newPending' \in BOOLEAN
        /\ orderQty' \in Qtys /\ clordid' \in Optional(ClOrdIDs)
        /\ priorStatus' = priorStatus /\ RecomputePending
        BY <2>1, ResolveFacts
  <2>3. /\ pendingAction' \in Actions \cup {"NEW", "NONE"}
        /\ pendingClordid' \in Optional(ClOrdIDs)
        /\ PendingShown'
        BY <2>2, SummaryFollows
  <2>4. /\ ordStatus' = OrElse(m.status, ordStatus) /\ cumQty' = OrElse(m.cum, cumQty)
        /\ execIds' = execIds \cup ({m.execId} \ {None}) /\ execRows' = Dispositions(m)
        BY <1>7 DEF ReportCurrent
  <2> QED BY <1>1, <1>3, <1>4, <2>2, <2>3, <2>4 DEF ChainTypeOK
<1> QED BY <1>5, <1>6, <1>7 DEF ExecutionReport

\* A rejection leaves the chain sound.
LEMMA RejectSound ==
    ASSUME ChainSound, NEW m \in Message, CancelReject(m)
    PROVE  ChainSound'
<1> USE DEF ChainSound
<1>1. pending' \in Seq(Request) /\ ordStatus' \in Optional(Statuses)
      BY RejectFacts
<1>2. newPending' \in BOOLEAN /\ RecomputePending
      BY DEF CancelReject, ChainTypeOK
<1>3. /\ pendingAction' \in Actions \cup {"NEW", "NONE"}
      /\ pendingClordid' \in Optional(ClOrdIDs)
      /\ PendingShown'
      BY <1>1, <1>2, SummaryFollows
<1> QED BY <1>1, <1>2, <1>3 DEF CancelReject, ChainTypeOK, rows

\* A don't-know-trade leaves the chain sound.
LEMMA DontKnowSound ==
    ASSUME ChainSound, NEW m \in Message, DontKnowTrade(m)
    PROVE  ChainSound'
BY RowTypes DEF ChainSound, DontKnowTrade, ChainTypeOK, PendingShown, published, flight

\* Whatever comes leaves the chain sound.
LEMMA SoundStep == ChainSound /\ [ChainNext]_chainVars => ChainSound'
<1> SUFFICES ASSUME ChainSound, [ChainNext]_chainVars
             PROVE  ChainSound'
    OBVIOUS
<1>1. ASSUME NEW m \in Messages, Handle(m)
      PROVE  ChainSound'
  <2>1. m \in Message
        BY FeedCarries
  <2> QED BY <1>1, <2>1, NewOrderSound, RequestSound, ReportSound, RejectSound, DontKnowSound DEF Handle
<1>2. CASE UNCHANGED chainVars
      BY <1>2 DEF chainVars, published, flight, rows, ChainSound, ChainTypeOK, PendingShown
<1> QED BY <1>1, <1>2 DEF ChainNext

\* The state of a chain is always sound.
LEMMA AlwaysSound == ChainSpec => []ChainSound
<1> QED BY SoundInit, SoundStep, PTL DEF ChainSpec

\* The chain's published fields, its requests and its executions keep their types.
THEOREM ChainTypes == ChainSpec => []ChainTypeOK
<1>1. ChainSound => ChainTypeOK
      BY DEF ChainSound
<1> QED BY <1>1, AlwaysSound, PTL

-----------------------------------------------------------------------------
\* What no feed can do

\* The handler of a message is that of its type.
LEMMA OneKind ==
    ASSUME NEW m, Handle(m)
    PROVE  /\ m.type = "8" => ExecutionReport(m)
           /\ m.type = "9" => CancelReject(m)
           /\ m.type = "Q" => DontKnowTrade(m)
BY DEF Handle, NewOrder, ReplaceRequest, CancelRequest, ExecutionReport, CancelReject, DontKnowTrade

\* Only a report moves the filled quantity, and down only as a bust or a correction.
LEMMA CumFalls ==
    ASSUME ChainSound, NEW m \in Message, Handle(m)
    PROVE  CumFallsByBustOnly(m)
<1> SUFFICES ASSUME cumQty' < cumQty
             PROVE  m.type = "8" /\ (IsBust(m) \/ IsCorrect(m))
    BY DEF CumFallsByBustOnly
<1>1. cumQty \in Nat
      BY ChainAssumption DEF ChainSound, ChainTypeOK, Qtys
<1>2. cumQty' # cumQty
      BY <1>1
<1>4. CASE NewOrder(m)
  <2>1. cumQty' = 0 /\ cumQty = 0
        BY <1>2, <1>4 DEF NewOrder, ChainSound
  <2> QED BY <1>2, <2>1
<1>5. CASE ExecutionReport(m)
  <2>1. ReportCurrent(m)
        BY <1>2, <1>5 DEF ExecutionReport, ReportDuplicate, ReportStale
  <2>2. cumQty' = m.cum /\ m.cum # None
        BY <1>2, <2>1 DEF ReportCurrent, OrElse
  <2>3. IsBust(m) \/ IsCorrect(m)
        BY <2>1, <2>2 DEF ReportCurrent, Stale
  <2> QED BY <1>5, <2>3 DEF ExecutionReport
<1>6. CASE ReplaceRequest(m) \/ CancelRequest(m) \/ CancelReject(m) \/ DontKnowTrade(m)
      BY <1>2, <1>6 DEF ReplaceRequest, CancelRequest, CancelReject, DontKnowTrade, published
<1> QED BY <1>4, <1>5, <1>6 DEF Handle

\* A report whose ExecID is known is a replay, and is handled as one.
LEMMA ReplayIsDuplicate ==
    ASSUME ChainSound, NEW m \in Message, Handle(m)
    PROVE  ReplayChangesNothing(m)
<1> SUFFICES ASSUME m.type = "8", m.execId \in execIds
             PROVE  /\ UNCHANGED <<ordStatus, cumQty, flight, rows>>
                    /\ open => UNCHANGED clordid
    BY DEF ReplayChangesNothing
<1>1. Duplicate(m)
      BY DEF ChainSound, Duplicate
<1>2. ExecutionReport(m)
      BY OneKind
<1>3. ReportDuplicate(m)
      BY <1>1, <1>2 DEF ExecutionReport, ReportStale, ReportCurrent
<1> QED BY <1>3 DEF ReportDuplicate, SeededId

\* A report that shows less filled than is known settles nothing, replay or not.
LEMMA StaleIsQuiet ==
    ASSUME ChainSound, NEW m \in Message, Handle(m)
    PROVE  StaleSettlesNothing(m)
<1> SUFFICES ASSUME m.type = "8", ~IsBust(m), ~IsCorrect(m), m.cum # None, m.cum < cumQty
             PROVE  UNCHANGED <<cumQty, pending, newPending>>
    BY DEF StaleSettlesNothing
<1>1. Stale(m)
      BY DEF Stale
<1>2. ReportDuplicate(m) \/ ReportStale(m)
      BY <1>1, OneKind DEF ExecutionReport, ReportCurrent
<1> QED BY <1>2 DEF ReportDuplicate, ReportStale, flight

\* Terms once known change to those of a replace request that its confirmation takes out.
LEMMA TermsChange ==
    ASSUME ChainSound, NEW m \in Message, Handle(m)
    PROVE  TermsChangeOnConfirm(m)
<1> SUFFICES ASSUME orderQty # 0, orderQty' # orderQty
             PROVE  \E i \in DOMAIN pending : /\ pending[i].action = "REPLACE"
                                              /\ pending[i].qty = orderQty'
                                              /\ Len(pending') < Len(pending)
    BY DEF TermsChangeOnConfirm
<1>1. ChainTypeOK /\ open /\ pending \in Seq(Request)
      BY DEF ChainSound, ChainTypeOK
<1>3. FillTerms(m) = orderQty
      BY <1>1, TermsType
<1>4. CASE ExecutionReport(m)
  <2>1. ResolvePending(m)
        BY <1>3, <1>4 DEF ExecutionReport, ReportDuplicate, ReportStale, ReportCurrent
  <2>2. \E i \in 1..Len(pending) : /\ pending[i].action = "REPLACE"
                                   /\ pending[i].qty = orderQty'
                                   /\ Len(pending') < Len(pending)
        BY <1>1, <1>3, <2>1, ResolveFacts
  <2>3. DOMAIN pending = 1..Len(pending)
        BY <1>1
  <2> QED BY <2>2, <2>3
<1>5. CASE \/ NewOrder(m) \/ ReplaceRequest(m) \/ CancelRequest(m)
           \/ CancelReject(m) \/ DontKnowTrade(m)
      BY <1>1, <1>3, <1>5
         DEF NewOrder, ReplaceRequest, CancelRequest, SeedFromRequest, CancelReject,
             DontKnowTrade, published
<1> QED BY <1>4, <1>5 DEF Handle

\* The requests of an action with a ClOrdID, as a finite set of positions.
LEMMA CarryingFinite ==
    ASSUME NEW s \in Seq(Request), NEW a, NEW c
    PROVE  /\ IsFiniteSet(Carrying(s, a, c)) /\ Cardinality(Carrying(s, a, c)) \in Nat
           /\ Carrying(s, a, c) = {k \in 1..Len(s) : s[k].action = a /\ s[k].clordid = c}
<1>1. /\ IsFiniteSet(InFlight(s, a))
      /\ InFlight(s, a) = {k \in 1..Len(s) : s[k].action = a}
      BY InFlightFinite
<1>2. Carrying(s, a, c) = {k \in 1..Len(s) : s[k].action = a /\ s[k].clordid = c}
      BY <1>1 DEF Carrying
<1>3. Carrying(s, a, c) \subseteq InFlight(s, a)
      BY DEF Carrying
<1> QED BY <1>1, <1>2, <1>3, FS_Subset, FS_CardinalityType

\* Where a request that is not taken out stands afterwards.
LEMMA MovesUp ==
    ASSUME NEW s \in Seq(Request), NEW i \in 1..Len(s), NEW k \in 1..Len(s), k # i
    PROVE  LET p == IF k < i THEN k ELSE k - 1
           IN  p \in 1..(Len(s) - 1) /\ Without(s, i)[p] = s[k]
<1>1. \A n \in 1..(Len(s) - 1) : Without(s, i)[n] = IF n < i THEN s[n] ELSE s[n + 1]
      BY WithoutFacts
<1>2. CASE k < i
  <2>1. k \in 1..(Len(s) - 1)
        BY <1>2
  <2> QED BY <1>1, <1>2, <2>1
<1>3. CASE k > i
  <2> DEFINE p == k - 1
  <2>1. p \in 1..(Len(s) - 1) /\ ~(p < i) /\ p + 1 = k
        BY <1>3
  <2> HIDE DEF p
  <2>2. Without(s, i)[p] = s[k]
        BY <1>1, <2>1
  <2>3. ~(k < i)
        BY <1>3
  <2> QED BY <2>1, <2>2, <2>3 DEF p
<1> QED BY <1>2, <1>3

\* A list without one request has as many as before of those that are not like it.
LEMMA OthersAreCarried ==
    ASSUME NEW s \in Seq(Request), NEW i \in 1..Len(s), NEW a, NEW c,
           Cardinality(Carrying(Without(s, i), a, c)) < Cardinality(Carrying(s, a, c))
    PROVE  s[i].action = a /\ s[i].clordid = c
<1> DEFINE t == Without(s, i)
           S == Carrying(s, a, c)
           T == Carrying(t, a, c)
           f == [k \in S |-> IF k < i THEN k ELSE k - 1]
<1>1. t \in Seq(Request) /\ Len(t) = Len(s) - 1
      BY WithoutFacts
<1>2. /\ IsFiniteSet(S) /\ Cardinality(S) \in Nat
      /\ S = {k \in 1..Len(s) : s[k].action = a /\ s[k].clordid = c}
      /\ IsFiniteSet(T) /\ Cardinality(T) \in Nat
      /\ T = {k \in 1..Len(t) : t[k].action = a /\ t[k].clordid = c}
      BY <1>1, CarryingFinite
<1> SUFFICES ASSUME i \notin S PROVE FALSE
    BY <1>2
<1>3. \A k \in S : k \in 1..Len(s) /\ k # i /\ f[k] = IF k < i THEN k ELSE k - 1
      BY <1>2
<1>4. ASSUME NEW k \in S PROVE f[k] \in T
  <2>1. k \in 1..Len(s) /\ k # i /\ s[k].action = a /\ s[k].clordid = c
        BY <1>2, <1>3
  <2>2. f[k] \in 1..(Len(s) - 1) /\ t[f[k]] = s[k]
        BY <1>3, <2>1, MovesUp
  <2> HIDE DEF S, T, t, f
  <2> QED BY <1>1, <1>2, <2>1, <2>2
<1>5. \A k, l \in S : f[k] = f[l] => k = l
      BY <1>3
<1>6. f \in Injection(S, T)
  <2>1. f \in [S -> T]
        BY <1>4
  <2> HIDE DEF f, S, T
  <2> QED BY <1>5, <2>1 DEF Injection, IsInjective
<1>7. Cardinality(S) <= Cardinality(T)
  <2> HIDE DEF f, S, T
  <2> QED BY <1>2, <1>6, FS_Injection
<1>8. Cardinality(T) < Cardinality(S)
      OBVIOUS
<1> HIDE DEF S, T
<1> QED BY <1>2, <1>7, <1>8

\* Taking out a request of another action leaves the newest of this one what it was.
LEMMA NewestStays ==
    ASSUME NEW s \in Seq(Request), NEW i \in 1..Len(s), NEW a, s[i].action # a
    PROVE  LET t == Without(s, i)
           IN  /\ \A c : Carrying(t, a, c) = {} => Carrying(s, a, c) = {}
               /\ InFlight(s, a) # {} =>
                     t[Newest(InFlight(t, a))] = s[Newest(InFlight(s, a))]
<1> DEFINE t == Without(s, i)
<1>0. /\ t \in Seq(Request) /\ Len(t) = Len(s) - 1
      /\ \A k \in 1..(Len(s) - 1) : t[k] = IF k < i THEN s[k] ELSE s[k + 1]
      BY WithoutFacts
<1> HIDE DEF t
<1>1. /\ t \in Seq(Request) /\ Len(t) = Len(s) - 1 /\ Len(t) \in Nat /\ Len(s) \in Nat
      /\ \A k \in 1..(Len(s) - 1) : t[k] = IF k < i THEN s[k] ELSE s[k + 1]
      BY <1>0
<1> USE DEF t
<1>2. /\ InFlight(s, a) = {k \in 1..Len(s) : s[k].action = a}
      /\ InFlight(t, a) = {k \in 1..Len(t) : t[k].action = a}
      BY <1>1, InFlightFinite
<1>3. ASSUME NEW c, Carrying(t, a, c) = {}, Carrying(s, a, c) # {} PROVE FALSE
  <2>1. PICK k \in 1..Len(s) : s[k].action = a /\ s[k].clordid = c
        BY <1>3, CarryingFinite
  <2> DEFINE p == IF k < i THEN k ELSE k - 1
  <2>2. p \in 1..(Len(s) - 1) /\ t[p] = s[k]
        BY <2>1, MovesUp
  <2> HIDE DEF p, t
  <2>3. p \in Carrying(t, a, c)
        BY <1>1, <2>1, <2>2, CarryingFinite
  <2> QED BY <1>3, <2>3
<1>4. ASSUME InFlight(s, a) # {}
      PROVE  t[Newest(InFlight(t, a))] = s[Newest(InFlight(s, a))]
  <2> DEFINE n == Newest(InFlight(s, a))
             p == IF n < i THEN n ELSE n - 1
             q == Newest(InFlight(t, a))
  <2>1. n \in InFlight(s, a) /\ \A j \in InFlight(s, a) : j <= n
        BY <1>1, <1>2, <1>4, NewestIsLast
  <2>2. n \in 1..Len(s) /\ s[n].action = a /\ n # i
        BY <1>2, <2>1
  <2>3. p \in 1..(Len(s) - 1) /\ t[p] = s[n]
        BY <2>2, MovesUp
  <2> HIDE DEF n
  <2>4. p \in InFlight(t, a)
    <3> HIDE DEF p, t
    <3> QED BY <1>1, <1>2, <2>2, <2>3
  <2>5. q \in InFlight(t, a) /\ \A j \in InFlight(t, a) : j <= q
    <3> HIDE DEF p, t
    <3> QED BY <1>1, <1>2, <2>4, NewestIsLast
  <2> HIDE DEF q
  <2>6. q \in 1..(Len(s) - 1) /\ t[q].action = a
    <3> HIDE DEF t
    <3> QED BY <1>1, <1>2, <2>5
  <2>7. q <= p
    <3>1. CASE q < i
      <4>1. t[q] = s[q]
            BY <1>1, <2>6, <3>1
      <4>2. q \in InFlight(s, a)
            BY <1>2, <2>6, <4>1
      <4> QED BY <2>1, <2>2, <2>6, <3>1, <4>2
    <3>2. CASE ~(q < i)
      <4> DEFINE r == q + 1
      <4>1. r \in 1..Len(s) /\ t[q] = s[r]
            BY <1>1, <2>6, <3>2
      <4> HIDE DEF r
      <4>2. r \in InFlight(s, a)
            BY <1>2, <2>6, <4>1
      <4>3. r <= n
            BY <2>1, <4>2
      <4> QED BY <2>2, <2>6, <3>2, <4>3 DEF r
    <3> QED BY <3>1, <3>2
  <2>8. p <= q
        BY <2>4, <2>5
  <2>9. p = q
        BY <2>3, <2>6, <2>7, <2>8
  <2> QED BY <2>3, <2>9 DEF q, n
<1> QED BY <1>3, <1>4

\* An answer takes out no request but one of its action, the one it names while there is one.
LEMMA AnswerTakesItsOwn ==
    ASSUME NEW s \in Seq(Request), NEW action, NEW id, NEW a, NEW c
    PROVE  LET t == Without(s, Answered(s, action, id))
           IN  Cardinality(Carrying(t, a, c)) < Cardinality(Carrying(s, a, c)) =>
                  /\ a = action
                  /\ \/ c = id
                     \/ /\ id = None \/ Carrying(s, a, id) = {}
                        /\ c = s[Newest(InFlight(s, a))].clordid
<1> DEFINE i == Answered(s, action, id)
           t == Without(s, i)
<1> SUFFICES ASSUME Cardinality(Carrying(t, a, c)) < Cardinality(Carrying(s, a, c))
             PROVE  /\ a = action
                    /\ \/ c = id
                       \/ /\ id = None \/ Carrying(s, a, id) = {}
                          /\ c = s[Newest(InFlight(s, a))].clordid
    OBVIOUS
<1>1. i \in InFlight(s, action) \cup {0} /\ i \in 1..Len(s) \cup {0}
      BY AnsweredIsInFlight
<1>2. i \in 1..Len(s)
  <2> SUFFICES ASSUME i = 0 PROVE FALSE
      BY <1>1
  <2>1. t = s
        BY DEF Without
  <2>2. Cardinality(Carrying(s, a, c)) \in Nat
        BY CarryingFinite
  <2> QED BY <2>1, <2>2
<1>3. s[i].action = a /\ s[i].clordid = c
  <2> HIDE DEF i
  <2> QED BY <1>2, OthersAreCarried
<1>4. a = action
      BY <1>1, <1>2, <1>3 DEF InFlight
<1> DEFINE exact == {k \in InFlight(s, action) : id # None /\ s[k].clordid = id}
<1>5. i = IF exact # {} THEN Newest(exact) ELSE Newest(InFlight(s, action))
      BY DEF Answered
<1>6. exact # {} => i \in exact
  <2>1. exact \in SUBSET (1..Len(s)) /\ Len(s) \in Nat
        BY AnsweredIsInFlight
  <2> HIDE DEF exact, i
  <2> QED BY <1>5, <2>1, NewestIsLast
<1>7. CASE exact # {}
      BY <1>3, <1>4, <1>6, <1>7
<1>8. CASE exact = {}
  <2>1. id = None \/ Carrying(s, a, id) = {}
        BY <1>4, <1>8 DEF Carrying
  <2> HIDE DEF i, exact
  <2> QED BY <1>3, <1>4, <1>5, <1>8, <2>1
<1> QED BY <1>4, <1>7, <1>8

\* A new request takes none away.
LEMMA AppendCarries ==
    ASSUME NEW s \in Seq(Request), NEW r \in Request, NEW a, NEW c
    PROVE  ~(Cardinality(Carrying(Append(s, r), a, c)) < Cardinality(Carrying(s, a, c)))
<1>1. /\ Append(s, r) \in Seq(Request) /\ Len(Append(s, r)) = Len(s) + 1
      /\ \A k \in 1..Len(s) : Append(s, r)[k] = s[k]
      OBVIOUS
<1>2. /\ IsFiniteSet(Carrying(Append(s, r), a, c))
      /\ Cardinality(Carrying(Append(s, r), a, c)) \in Nat /\ Cardinality(Carrying(s, a, c)) \in Nat
      BY <1>1, CarryingFinite
<1>3. Carrying(s, a, c) \subseteq Carrying(Append(s, r), a, c)
  <2> DEFINE u == Append(s, r)
  <2>1. u \in Seq(Request) /\ Len(u) = Len(s) + 1 /\ \A k \in 1..Len(s) : u[k] = s[k]
        BY <1>1
  <2> HIDE DEF u
  <2>2. 1..Len(s) \subseteq 1..Len(u)
        BY <2>1
  <2>3. Carrying(s, a, c) \subseteq Carrying(u, a, c)
        BY <2>1, <2>2, CarryingFinite
  <2> QED BY <2>3 DEF u
<1>4. Cardinality(Carrying(s, a, c)) <= Cardinality(Carrying(Append(s, r), a, c))
      BY <1>2, <1>3, FS_Subset
<1> QED BY <1>2, <1>4

\* A report settles a cancel request, a replace request, or one of each, each its own.
LEMMA ReportSettles ==
    ASSUME ChainTypeOK, NEW m \in Message, m.type = "8", ResolvePending(m),
           NEW a \in Actions, NEW c,
           Cardinality(Carrying(pending', a, c)) < Cardinality(Carrying(pending, a, c))
    PROVE  /\ MaySettle(m, a)
           /\ \/ c = m.clordid
              \/ /\ m.clordid = None \/ Carrying(pending, a, m.clordid) = {}
                 /\ c = pending[Newest(InFlight(pending, a))].clordid
<1> DEFINE id == m.clordid
           cancels == m.execType = "CANCELED" \/ m.status = "CANCELED"
           i == Answered(pending, "CANCEL", id)
           left == AfterCancel(m)
<1>1. pending \in Seq(Request)
      BY DEF ChainTypeOK
<1>2. left = IF cancels THEN Without(pending, i) ELSE pending
      BY DEF AfterCancel
<1>3. left \in Seq(Request)
      BY <1>1, <1>2, ResolvedFacts
<1>4. \/ m.execType = "REPLACED" /\ pending' = Without(left, Answered(left, "REPLACE", id))
      \/ m.execType # "REPLACED" /\ pending' = left
      BY DEF ResolvePending
<1>5. pending' \in Seq(Request)
      BY <1>3, <1>4, ResolvedFacts
<1>6. /\ Cardinality(Carrying(pending', a, c)) \in Nat /\ Cardinality(Carrying(left, a, c)) \in Nat
      /\ Cardinality(Carrying(pending, a, c)) \in Nat
      BY <1>1, <1>3, <1>5, CarryingFinite
<1>7. CASE a = "CANCEL"
  <2>1. ~(Cardinality(Carrying(pending', a, c)) < Cardinality(Carrying(left, a, c)))
    <3>1. a # "REPLACE"
          BY <1>7
    <3> HIDE DEF left
    <3> QED BY <1>3, <1>4, <1>6, <3>1, AnswerTakesItsOwn
  <2>2. Cardinality(Carrying(left, a, c)) < Cardinality(Carrying(pending, a, c))
        BY <1>6, <2>1
  <2>3. cancels
        BY <1>2, <1>6, <2>2
  <2>4. \/ c = id
        \/ /\ id = None \/ Carrying(pending, a, id) = {}
           /\ c = pending[Newest(InFlight(pending, a))].clordid
        BY <1>1, <1>2, <1>7, <2>2, <2>3, AnswerTakesItsOwn
  <2> QED BY <1>7, <2>3, <2>4 DEF MaySettle
<1>8. CASE a = "REPLACE"
  <2>1. ~(Cardinality(Carrying(left, a, c)) < Cardinality(Carrying(pending, a, c)))
    <3>1. a # "CANCEL"
          BY <1>8
    <3>2. CASE cancels
      <4>1. left = Without(pending, i)
            BY <1>2, <3>2
      <4> HIDE DEF left
      <4> QED BY <1>1, <3>1, <4>1, AnswerTakesItsOwn
    <3>3. CASE ~cancels
          BY <1>2, <1>6, <3>3
    <3> QED BY <3>2, <3>3
  <2>2. Cardinality(Carrying(pending', a, c)) < Cardinality(Carrying(left, a, c))
        BY <1>6, <2>1
  <2>3. m.execType = "REPLACED"
        BY <1>4, <1>6, <2>2
  <2>4. \/ c = id
        \/ /\ id = None \/ Carrying(left, a, id) = {}
           /\ c = left[Newest(InFlight(left, a))].clordid
    <3> HIDE DEF left
    <3> QED BY <1>3, <1>4, <1>8, <2>2, <2>3, AnswerTakesItsOwn
  <2>5. InFlight(pending, a) # {}
    <3> SUFFICES ASSUME InFlight(pending, a) = {} PROVE FALSE
        OBVIOUS
    <3>1. Carrying(pending, a, c) = {}
          BY DEF Carrying
    <3>2. Cardinality(Carrying(pending, a, c)) = 0
          BY <3>1, FS_EmptySet
    <3> QED BY <1>6, <3>2
  <2>6. /\ Carrying(left, a, id) = {} => Carrying(pending, a, id) = {}
        /\ left[Newest(InFlight(left, a))] = pending[Newest(InFlight(pending, a))]
    <3>1. CASE cancels /\ i # 0
      <4>1. i \in InFlight(pending, "CANCEL") /\ i \in 1..Len(pending)
            BY <1>1, <3>1, AnsweredIsInFlight
      <4>2. pending[i].action # a
            BY <1>8, <4>1 DEF InFlight
      <4>3. left = Without(pending, i)
            BY <1>2, <3>1
      <4> HIDE DEF i, left
      <4> QED BY <1>1, <2>5, <4>1, <4>2, <4>3, NewestStays
    <3>2. CASE ~(cancels /\ i # 0)
      <4>1. left = pending
            BY <1>2, <3>2 DEF Without
      <4> QED BY <4>1
    <3> QED BY <3>1, <3>2
  <2> QED BY <1>8, <2>3, <2>4, <2>6 DEF MaySettle
<1> QED BY <1>7, <1>8 DEF Actions

\* A message settles one request of an action at most, and while the one it names is in flight
\* that one.
LEMMA SettlesOne ==
    ASSUME ChainSound, NEW m \in Message, Handle(m)
    PROVE  SettlesItsOwn(m)
<1> SUFFICES ASSUME NEW a \in Actions
             PROVE  /\ Cardinality(InFlight(pending', a)) + 1 >= Cardinality(InFlight(pending, a))
                    /\ \A c \in Optional(ClOrdIDs) :
                         Cardinality(Carrying(pending', a, c)) < Cardinality(Carrying(pending, a, c)) =>
                            /\ MaySettle(m, a)
                            /\ \/ c = m.clordid
                               \/ /\ m.clordid = None \/ Carrying(pending, a, m.clordid) = {}
                                  /\ c = pending[Newest(InFlight(pending, a))].clordid
    BY DEF SettlesItsOwn
<1> DEFINE Own(c) == /\ MaySettle(m, a)
                     /\ \/ c = m.clordid
                        \/ /\ m.clordid = None \/ Carrying(pending, a, m.clordid) = {}
                           /\ c = pending[Newest(InFlight(pending, a))].clordid
           Fewer(c) == Cardinality(Carrying(pending', a, c)) < Cardinality(Carrying(pending, a, c))
           Most == Cardinality(InFlight(pending', a)) + 1 >= Cardinality(InFlight(pending, a))
<1>1. ChainTypeOK /\ pending \in Seq(Request) /\ Cardinality(InFlight(pending, a)) \in Nat
      BY InFlightFinite DEF ChainSound, ChainTypeOK
<1>2. CASE pending' = pending
  <2>1. \A c : Cardinality(Carrying(pending, a, c)) \in Nat
        BY <1>1, CarryingFinite
  <2> QED BY <1>1, <1>2, <2>1
<1>3. CASE pending' # pending /\ (ReplaceRequest(m) \/ CancelRequest(m))
  <2>1. Most
        BY <1>3, RequestSound
  <2>2. PICK r \in Request : pending' = Append(pending, r)
    <3>1. /\ [action |-> "REPLACE", clordid |-> m.clordid, qty |-> m.qty] \in Request
          /\ [action |-> "CANCEL", clordid |-> m.clordid, qty |-> None] \in Request
          BY MessageParts DEF Request, Actions, Optional
    <3> QED BY <1>3, <3>1 DEF ReplaceRequest, CancelRequest, Register
  <2>3. \A c : ~Fewer(c)
        BY <1>1, <2>2, AppendCarries
  <2> QED BY <2>1, <2>3
<1>4. CASE pending' # pending /\ ExecutionReport(m)
  <2>1. ResolvePending(m) /\ m.type = "8"
        BY <1>4 DEF ExecutionReport, ReportDuplicate, ReportStale, ReportCurrent, flight
  <2>2. Most
        BY <1>1, <2>1, ResolveFacts
  <2>3. \A c : Fewer(c) => Own(c)
        BY <1>1, <2>1, ReportSettles
  <2> QED BY <2>2, <2>3
<1>5. CASE pending' # pending /\ CancelReject(m)
  <2>1. Most
        BY <1>1, <1>5, RejectFacts
  <2>2. pending' = Without(pending, Answered(pending, RejectedAction(m), m.clordid))
        BY <1>5 DEF CancelReject
  <2>3. \A c : Fewer(c) => Own(c)
    <3>1. MaySettle(m, a)
          BY <1>5 DEF CancelReject, MaySettle
    <3> QED BY <1>1, <2>2, <3>1, AnswerTakesItsOwn
  <2> QED BY <2>1, <2>3
<1>6. CASE pending' # pending /\ (NewOrder(m) \/ DontKnowTrade(m))
      BY <1>6 DEF NewOrder, DontKnowTrade, flight
<1> QED BY <1>2, <1>3, <1>4, <1>5, <1>6 DEF Handle

\* Only what marks an execution that was seen changes its row, and to no good one.
LEMMA RowsStand ==
    ASSUME ChainSound, NEW m \in Message, Handle(m)
    PROVE  SeenRowsStand(m)
<1> SUFFICES ASSUME NEW e \in execIds, execRows'[e] # execRows[e]
             PROVE  Marks(m, e) /\ execRows'[e].disposition # "NORMAL"
    BY DEF SeenRowsStand
<1>1. e \in Optional(ExecIDs) /\ e # None
      BY DEF ChainSound, ChainTypeOK, Optional
<1>2. execRows \in [Optional(ExecIDs) -> Optional(ExecRow)]
      BY DEF ChainSound, ChainTypeOK
<1>3. ASSUME NEW row, NEW d, NEW shares PROVE Reemitted(row, d, shares).disposition = d
      BY DEF Reemitted
<1>4. CASE DontKnowTrade(m)
  <2>1. execRows' = [execRows EXCEPT ![m.execId] = Reemitted(execRows[m.execId], "DK", None)]
        BY <1>4 DEF DontKnowTrade
  <2>2. m.execId = e /\ execRows'[e] = Reemitted(execRows[e], "DK", None)
        BY <1>1, <1>2, <2>1
  <2> QED BY <1>3, <1>4, <2>2 DEF DontKnowTrade, Marks
<1>5. CASE ExecutionReport(m)
  <2>1. ~Duplicate(m) /\ execRows' = Dispositions(m) /\ m.type = "8"
        BY <1>5 DEF ExecutionReport, ReportDuplicate, ReportStale, ReportCurrent, rows
  <2>2. m.execId # e
        BY <1>1, <2>1 DEF Duplicate
  <2> DEFINE own == IF m.execId = None THEN execRows
                    ELSE [execRows EXCEPT ![m.execId] = BuildExecRow(m)]
  <2>3. own[e] = execRows[e] /\ DOMAIN own = Optional(ExecIDs)
        BY <1>1, <1>2, <2>2
  <2>4. Dispositions(m) = IF m.execRefId # None /\ (IsBust(m) \/ IsCorrect(m))
                          THEN [own EXCEPT ![m.execRefId] =
                                  IF IsBust(m) THEN Reemitted(own[m.execRefId], "BUSTED", None)
                                  ELSE Reemitted(own[m.execRefId], "CORRECTED", m.shares)]
                          ELSE own
        BY DEF Dispositions
  <2> HIDE DEF own
  <2>5. m.execRefId = e /\ (IsBust(m) \/ IsCorrect(m))
        BY <1>1, <2>1, <2>3, <2>4
  <2>6. execRows'[e] = IF IsBust(m) THEN Reemitted(own[e], "BUSTED", None)
                       ELSE Reemitted(own[e], "CORRECTED", m.shares)
        BY <1>1, <2>1, <2>3, <2>4, <2>5
  <2> QED BY <1>3, <2>1, <2>5, <2>6 DEF Marks
<1>6. CASE NewOrder(m) \/ ReplaceRequest(m) \/ CancelRequest(m) \/ CancelReject(m)
      BY <1>6 DEF NewOrder, ReplaceRequest, CancelRequest, CancelReject, rows
<1> QED BY <1>4, <1>5, <1>6 DEF Handle

\* However many messages are replayed, missing or out of order: the filled quantity falls by a bust
\* or a correction only, a replayed report changes nothing, known terms change to those of a
\* confirmed replace, an answer leaves other requests alone while its own is in flight, a stale
\* report settles none, and the row of a seen execution is marked but never made good again (the
\* run's HistoryStands; state_machine.py: _handle_execution_report, _clear_pending, _reemit_reference).
THEOREM ChainHistory == ChainSpec => HistoryStands
<1>1. ChainSound /\ [ChainNext]_chainVars =>
        [\A m \in Messages : Handle(m) =>
           /\ CumFallsByBustOnly(m) /\ ReplayChangesNothing(m) /\ TermsChangeOnConfirm(m)
           /\ SettlesItsOwn(m) /\ SeenRowsStand(m) /\ StaleSettlesNothing(m)]_chainVars
      BY FeedCarries, CumFalls, ReplayIsDuplicate, TermsChange, SettlesOne, RowsStand, StaleIsQuiet
<1> QED BY <1>1, AlwaysSound, PTL DEF ChainSpec, HistoryStands

-----------------------------------------------------------------------------
\* Sums

\* A set of naturals has a least element.
LEMMA LeastElement ==
    ASSUME NEW T, T \subseteq Nat, T # {}
    PROVE  \E x \in T : \A y \in T : x <= y
<1> DEFINE R == OpToRel(<, Nat)
<1>1. IsWellFoundedOn(R, Nat)
      BY NatLessThanWellFounded
<1>2. \A x, y \in Nat : x < y => <<x, y>> \in R
      BY DEF OpToRel
<1>   HIDE DEF R
<1>3. PICK x \in T : \A y \in T : ~ (<<y, x>> \in R)
      BY <1>1, WFMin
<1>4. \A y \in T : ~(y < x)
      BY <1>2, <1>3
<1> QED BY <1>3, <1>4

LEMMA SmallestSet ==
    ASSUME NEW T, T # {}, \A s \in T : IsFiniteSet(s)
    PROVE  \E s \in T : \A r \in T : Cardinality(s) <= Cardinality(r)
<1> DEFINE sizes == {Cardinality(s) : s \in T}
<1>1. sizes \subseteq Nat
      BY FS_CardinalityType
<1>2. sizes # {}
      OBVIOUS
<1> HIDE DEF sizes
<1>3. PICK m \in sizes : \A k \in sizes : m <= k
      BY <1>1, <1>2, LeastElement
<1> QED BY <1>3 DEF sizes

LEMMA OneLess ==
    ASSUME NEW s, IsFiniteSet(s), NEW x \in s
    PROVE  /\ IsFiniteSet(s \ {x}) /\ Cardinality(s) \in Nat /\ Cardinality(s \ {x}) \in Nat
           /\ ~(Cardinality(s) <= Cardinality(s \ {x}))
<1>1. IsFiniteSet(s \ {x}) /\ Cardinality(s \ {x}) = Cardinality(s) - 1
      BY FS_RemoveElement
<1>2. Cardinality(s) \in Nat /\ Cardinality(s \ {x}) \in Nat
      BY <1>1, FS_CardinalityType
<1> QED BY <1>1, <1>2

\* The sum of the values of g over a set.
Sum(g, S) == MapThenSumSet(LAMBDA x : g[x], S)

First(s) == CHOOSE x \in s : TRUE

\* The partial sums over the subsets of a set.
Sums(h, g, S) == \A s \in SUBSET S :
                    h[s] = IF s = {} THEN 0 ELSE g[First(s)] + h[s \ {First(s)}]

LEMMA SumsAreOne ==
    ASSUME NEW g, NEW S, NEW R, NEW h, NEW k, Sums(h, g, S), Sums(k, g, R),
           NEW s, s \subseteq S, s \subseteq R, IsFiniteSet(s)
    PROVE  h[s] = k[s]
<1> DEFINE bad == {r \in SUBSET s : h[r] # k[r]}
<1>1. CASE bad # {}
  <2>1. \A r \in bad : IsFiniteSet(r)
        BY FS_Subset
  <2> HIDE DEF bad
  <2>2. PICK r \in bad : \A q \in bad : Cardinality(r) <= Cardinality(q)
        BY <1>1, <2>1, SmallestSet
  <2> USE DEF bad
  <2>3. r \in SUBSET s /\ h[r] # k[r] /\ IsFiniteSet(r)
        BY <2>1, <2>2
  <2>4. r \in SUBSET S /\ r \in SUBSET R
        BY <2>3
  <2>5. r # {}
        BY <2>3, <2>4 DEF Sums
  <2> DEFINE x == First(r)
  <2>6. x \in r
        BY <2>5 DEF First
  <2> HIDE DEF x
  <2>7. ~(Cardinality(r) <= Cardinality(r \ {x}))
        BY <2>3, <2>6, OneLess
  <2>8. h[r \ {x}] = k[r \ {x}]
        BY <2>2, <2>3, <2>7
  <2>9. h[r] = g[x] + h[r \ {x}] /\ k[r] = g[x] + k[r \ {x}]
        BY <2>4, <2>5 DEF Sums, x
  <2> QED BY <2>3, <2>8, <2>9
<1>2. CASE bad = {}
      BY <1>2
<1> QED BY <1>1, <1>2

LEMMA SumsExist ==
    ASSUME NEW g, NEW S, IsFiniteSet(S)
    PROVE  \E h : h = [s \in SUBSET S |-> h[s]] /\ Sums(h, g, S)
<1> DEFINE Good(T) == \E h : Sums(h, g, T)
           bad == {T \in SUBSET S : ~Good(T)}
<1>1. CASE bad # {}
  <2>1. \A r \in bad : IsFiniteSet(r)
        BY FS_Subset
  <2> HIDE DEF bad
  <2>2. PICK T \in bad : \A q \in bad : Cardinality(T) <= Cardinality(q)
        BY <1>1, <2>1, SmallestSet
  <2> USE DEF bad
  <2>3. T \in SUBSET S /\ ~Good(T) /\ IsFiniteSet(T)
        BY <2>1, <2>2
  <2>4. ASSUME NEW r \in SUBSET T, r # T PROVE Good(r)
    <3>1. Cardinality(r) < Cardinality(T)
      <4>1. /\ Cardinality(r) <= Cardinality(T) /\ Cardinality(r) # Cardinality(T)
            /\ IsFiniteSet(r)
            BY <2>3, <2>4, FS_Subset
      <4>2. Cardinality(r) \in Nat /\ Cardinality(T) \in Nat
            BY <2>3, <4>1, FS_CardinalityType
      <4> QED BY <4>1, <4>2
    <3>2. ~(Cardinality(T) <= Cardinality(r))
      <4>1. Cardinality(r) \in Nat /\ Cardinality(T) \in Nat
            BY <2>3, FS_Subset, FS_CardinalityType
      <4> QED BY <3>1, <4>1
    <3>3. r \in SUBSET S
          BY <2>3
    <3> HIDE DEF Good
    <3> QED BY <2>2, <3>2, <3>3
  <2> DEFINE At(r) == (CHOOSE h : Sums(h, g, r))[r]
             x == First(T)
             h == [r \in SUBSET T |-> IF r # T THEN At(r)
                                      ELSE IF T = {} THEN 0 ELSE g[x] + At(T \ {x})]
  <2>5. ASSUME NEW r \in SUBSET T, r # T, NEW k, NEW R, Sums(k, g, R), r \subseteq R
        PROVE  At(r) = k[r]
    <3>1. PICK l : l = CHOOSE h2 : Sums(h2, g, r)
          OBVIOUS
    <3>2. Sums(l, g, r)
          BY <2>4, <2>5, <3>1
    <3>3. IsFiniteSet(r)
          BY <2>3, FS_Subset
    <3>4. l[r] = k[r]
          BY <2>5, <3>2, <3>3, SumsAreOne
    <3> QED BY <3>1, <3>4
  <2>6. ASSUME NEW r \in SUBSET T, r # {}
        PROVE  h[r] = g[First(r)] + h[r \ {First(r)}]
    <3>1. First(r) \in r
          BY <2>6 DEF First
    <3> DEFINE y == First(r)
               q == r \ {y}
    <3>2. q \in SUBSET T /\ q # T /\ q \in SUBSET r /\ q \subseteq r
          BY <3>1
    <3>3. h[q] = At(q)
          BY <3>2
    <3>4. CASE r = T
      <4>1. h[r] = g[x] + At(T \ {x}) /\ y = x /\ q = T \ {x}
            BY <2>6, <3>4
      <4> QED BY <3>3, <4>1
    <3>5. CASE r # T
      <4>1. h[r] = At(r)
            BY <3>5
      <4>2. PICK k : Sums(k, g, r)
            BY <2>4, <3>5
      <4> HIDE DEF At, h
      <4>3. At(r) = k[r] /\ At(q) = k[q]
            BY <2>5, <3>2, <3>5, <4>2
      <4>4. k[r] = g[y] + k[q]
        <5>1. r \in SUBSET r
              OBVIOUS
        <5> QED BY <2>6, <4>2, <5>1 DEF Sums
      <4> QED BY <3>3, <4>1, <4>3, <4>4
    <3> QED BY <3>4, <3>5
  <2>7. h[{}] = 0
    <3>1. CASE T = {}
          BY <3>1
    <3>2. CASE T # {}
      <4>1. {} \in SUBSET T /\ {} # T
            BY <3>2
      <4>2. h[{}] = At({})
            BY <4>1
      <4>3. PICK k : Sums(k, g, {})
            BY <2>4, <4>1
      <4>4. k[{}] = 0
            BY <4>3 DEF Sums
      <4> HIDE DEF At, h
      <4>5. At({}) = k[{}]
            BY <2>5, <4>1, <4>3
      <4> QED BY <4>2, <4>4, <4>5
    <3> QED BY <3>1, <3>2
  <2> HIDE DEF h
  <2>8. Sums(h, g, T)
        BY <2>6, <2>7 DEF Sums
  <2> QED BY <2>3, <2>8
<1>2. CASE bad = {}
  <2>1. S \in SUBSET S
        OBVIOUS
  <2>2. PICK h : Sums(h, g, S)
        BY <1>2, <2>1
  <2> DEFINE k == [s \in SUBSET S |-> h[s]]
  <2>3. \A s \in SUBSET S : k[s] = h[s] /\ s \ {First(s)} \in SUBSET S
        OBVIOUS
  <2>4. k = [s \in SUBSET S |-> k[s]]
        OBVIOUS
  <2> HIDE DEF k
  <2>5. Sums(k, g, S)
        BY <2>2, <2>3 DEF Sums
  <2> QED BY <2>4, <2>5
<1> QED BY <1>1, <1>2

LEMMA SumIs ==
    ASSUME NEW g, NEW S, IsFiniteSet(S)
    PROVE  \E h : Sums(h, g, S) /\ Sum(g, S) = h[S]
<1> DEFINE Body(h) == [s \in SUBSET S |-> IF s = {} THEN 0
                                          ELSE LET x == CHOOSE x \in s : TRUE IN g[x] + h[s \ {x}]]
           iter == CHOOSE h : h = Body(h)
<1>1. Sum(g, S) = iter[S]
      BY DEF Sum, MapThenSumSet, MapThenFoldSet
<1>2. PICK h : h = [s \in SUBSET S |-> h[s]] /\ Sums(h, g, S)
      BY SumsExist
<1>3. \A k : Body(k) = [s \in SUBSET S |-> IF s = {} THEN 0 ELSE g[First(s)] + k[s \ {First(s)}]]
      BY DEF First
<1> HIDE DEF Body
<1>4. h = Body(h)
  <2>1. \A s \in SUBSET S : h[s] = IF s = {} THEN 0 ELSE g[First(s)] + h[s \ {First(s)}]
        BY <1>2 DEF Sums
  <2>2. [s \in SUBSET S |-> h[s]] =
            [s \in SUBSET S |-> IF s = {} THEN 0 ELSE g[First(s)] + h[s \ {First(s)}]]
        BY <2>1
  <2> QED BY <1>2, <1>3, <2>2
<1>5. iter = Body(iter)
      BY <1>4
<1> HIDE DEF iter
<1>6. Sums(iter, g, S)
  <2>1. iter = [s \in SUBSET S |-> IF s = {} THEN 0 ELSE g[First(s)] + iter[s \ {First(s)}]]
        BY <1>3, <1>5
  <2> QED BY <2>1 DEF Sums
<1> QED BY <1>1, <1>6

\* A sum over nothing, over a set of integers, and without one of the elements.
LEMMA SumSteps ==
    ASSUME NEW g, NEW S, IsFiniteSet(S)
    PROVE  /\ S = {} => Sum(g, S) = 0
           /\ S # {} => First(S) \in S /\ Sum(g, S) = g[First(S)] + Sum(g, S \ {First(S)})
<1>1. PICK h : Sums(h, g, S) /\ Sum(g, S) = h[S]
      BY SumIs
<1>2. S \in SUBSET S
      OBVIOUS
<1>3. CASE S = {}
      BY <1>1, <1>2, <1>3 DEF Sums
<1>4. CASE S # {}
  <2> DEFINE x == First(S)
             T == S \ {x}
  <2>1. x \in S
        BY <1>4 DEF First
  <2>2. h[S] = g[x] + h[T]
        BY <1>1, <1>2, <1>4 DEF Sums
  <2> HIDE DEF x
  <2>3. IsFiniteSet(T) /\ T \subseteq S /\ T \subseteq T
        BY <2>1, OneLess
  <2> HIDE DEF T
  <2>4. PICK k : Sums(k, g, T) /\ Sum(g, T) = k[T]
        BY <2>3, SumIs
  <2>5. h[T] = k[T]
        BY <1>1, <2>3, <2>4, SumsAreOne
  <2> QED BY <1>1, <1>4, <2>1, <2>2, <2>4, <2>5 DEF x, T
<1> QED BY <1>3, <1>4

LEMMA SumInt ==
    ASSUME NEW D, NEW g, \A x \in D : g[x] \in Int, NEW S, S \subseteq D, IsFiniteSet(S)
    PROVE  Sum(g, S) \in Int
<1> DEFINE bad == {r \in SUBSET S : Sum(g, r) \notin Int}
<1>1. CASE bad # {}
  <2>1. \A r \in bad : IsFiniteSet(r)
        BY FS_Subset
  <2> HIDE DEF bad
  <2>2. PICK r \in bad : \A q \in bad : Cardinality(r) <= Cardinality(q)
        BY <1>1, <2>1, SmallestSet
  <2> USE DEF bad
  <2>3. r \in SUBSET S /\ Sum(g, r) \notin Int /\ IsFiniteSet(r)
        BY <2>1, <2>2
  <2>4. r # {}
        BY <2>3, SumSteps
  <2> DEFINE x == First(r)
  <2>5. x \in r /\ Sum(g, r) = g[x] + Sum(g, r \ {x})
        BY <2>3, <2>4, SumSteps
  <2> HIDE DEF x
  <2>6. ~(Cardinality(r) <= Cardinality(r \ {x})) /\ r \ {x} \in SUBSET S
        BY <2>3, <2>5, OneLess
  <2>7. Sum(g, r \ {x}) \in Int
        BY <2>2, <2>6
  <2>8. g[x] \in Int
        BY <2>3, <2>5
  <2> QED BY <2>3, <2>5, <2>7, <2>8
<1>2. CASE bad = {}
  <2>1. S \in SUBSET S
        OBVIOUS
  <2> QED BY <1>2, <2>1
<1> QED BY <1>1, <1>2

LEMMA SumWithout ==
    ASSUME NEW g, NEW S, \A y \in S : g[y] \in Int, IsFiniteSet(S), NEW x \in S
    PROVE  Sum(g, S) = g[x] + Sum(g, S \ {x})
<1> DEFINE Fine(r) == \A y \in r : Sum(g, r) = g[y] + Sum(g, r \ {y})
           bad == {r \in SUBSET S : ~Fine(r)}
<1>1. CASE bad # {}
  <2>1. \A r \in bad : IsFiniteSet(r)
        BY FS_Subset
  <2> HIDE DEF bad
  <2>2. PICK r \in bad : \A q \in bad : Cardinality(r) <= Cardinality(q)
        BY <1>1, <2>1, SmallestSet
  <2> USE DEF bad
  <2>3. r \in SUBSET S /\ ~Fine(r) /\ IsFiniteSet(r)
        BY <2>1, <2>2
  <2>4. PICK y \in r : Sum(g, r) # g[y] + Sum(g, r \ {y})
        BY <2>3
  <2> DEFINE c == First(r)
  <2>5. c \in r /\ Sum(g, r) = g[c] + Sum(g, r \ {c})
        BY <2>3, <2>4, SumSteps
  <2> HIDE DEF c
  <2>6. c # y
        BY <2>4, <2>5
  <2> DEFINE rest == (r \ {c}) \ {y}
  <2>7. /\ r \ {c} \in SUBSET S /\ r \ {y} \in SUBSET S
        /\ y \in r \ {c} /\ c \in r \ {y} /\ (r \ {y}) \ {c} = rest
        /\ ~(Cardinality(r) <= Cardinality(r \ {c})) /\ ~(Cardinality(r) <= Cardinality(r \ {y}))
        BY <2>3, <2>4, <2>5, <2>6, OneLess
  <2> HIDE DEF Fine
  <2>8. Fine(r \ {c}) /\ Fine(r \ {y})
        BY <2>2, <2>7
  <2> USE DEF Fine
  <2>9. Sum(g, r \ {c}) = g[y] + Sum(g, rest) /\ Sum(g, r \ {y}) = g[c] + Sum(g, rest)
        BY <2>7, <2>8
  <2>10. Sum(g, rest) \in Int
    <3>1. rest \subseteq S /\ IsFiniteSet(rest)
          BY <2>3, FS_Subset
    <3> HIDE DEF rest
    <3> QED BY <3>1, SumInt
  <2>11. g[c] \in Int /\ g[y] \in Int
         BY <2>3, <2>4, <2>5
  <2> HIDE DEF rest
  <2> QED BY <2>4, <2>5, <2>9, <2>10, <2>11
<1>2. CASE bad = {}
  <2>1. S \in SUBSET S
        OBVIOUS
  <2> QED BY <1>2, <2>1
<1> QED BY <1>1, <1>2

-----------------------------------------------------------------------------
\* A chain that overhears a conversation

\* What a chain holds, but for its published summary of what is in flight.
View == [open |-> open, status |-> ordStatus, cum |-> cumQty, qty |-> orderQty, id |-> clordid,
         pending |-> pending, seen |-> execIds, rows |-> execRows]

Entry(r) == [action |-> IF r.type = "G" THEN "REPLACE" ELSE "CANCEL", clordid |-> r.clordid,
             qty |-> IF r.type = "G" THEN r.qty ELSE None]

\* The kind of request a message settles, and which one.
Settles(m) == IF m.type = "9" THEN m.responseTo
              ELSE IF m.execType = "CANCELED" THEN "CANCEL"
              ELSE IF m.execType = "REPLACED" THEN "REPLACE" ELSE None
Taken(v, m) == IF Settles(m) = None THEN 0 ELSE Answered(v.pending, Settles(m), m.clordid)

\* Dispositions, of any rows.
Marked(table, m) ==
    LET own == IF m.execId = None THEN table ELSE [table EXCEPT ![m.execId] = BuildExecRow(m)]
    IN  IF m.execRefId # None /\ (IsBust(m) \/ IsCorrect(m))
        THEN [own EXCEPT ![m.execRefId] = IF IsBust(m) THEN Reemitted(@, "BUSTED", None)
                                          ELSE Reemitted(@, "CORRECTED", m.shares)]
        ELSE own

StatusAfter(v, m) == IF m.type = "D" THEN "PENDING_NEW" ELSE IF m.type = "G" THEN "PENDING_REPLACE"
                     ELSE IF m.type = "F" THEN "PENDING_CANCEL"
                     ELSE IF m.type = "Q" THEN v.status ELSE m.status
CumAfter(v, m)    == IF m.type = "D" THEN 0 ELSE IF m.type = "8" THEN m.cum ELSE v.cum
Confirms(m)       == m.type = "8" /\ m.execType = "REPLACED"
QtyAfter(v, m)    == IF m.type = "D" THEN m.qty
                     ELSE IF Confirms(m) /\ Taken(v, m) # 0 THEN v.pending[Taken(v, m)].qty ELSE v.qty
IdAfter(v, m)     == IF m.type = "D" \/ Confirms(m) THEN m.clordid ELSE v.id
PendingAfter(v, m) == IF m.type \in {"G", "F"} THEN Append(v.pending, Entry(m))
                      ELSE Without(v.pending, Taken(v, m))
SeenAfter(v, m)   == IF m.type = "8" THEN v.seen \cup {m.execId} ELSE v.seen
RowsAfter(v, m)   == IF m.type = "8" THEN Marked(v.rows, m)
                     ELSE IF m.type = "Q" THEN [v.rows EXCEPT ![m.execId] = Reemitted(@, "DK", None)]
                     ELSE v.rows

\* What a message that fits makes of a view.
After(v, m) == [open |-> TRUE, status |-> StatusAfter(v, m), cum |-> CumAfter(v, m),
                qty |-> QtyAfter(v, m), id |-> IdAfter(v, m), pending |-> PendingAfter(v, m),
                seen |-> SeenAfter(v, m), rows |-> RowsAfter(v, m)]

\* A view as a conversation leaves it.
Steady(v) ==
    /\ v.pending \in Seq(Request)
    /\ v.rows \in [Optional(ExecIDs) -> Optional(ExecRow)]
    /\ v.open => v.qty \in 1..MaxQty
    /\ \A i \in 1..Len(v.pending) : v.pending[i].action = "REPLACE" => v.pending[i].qty \in 1..MaxQty

\* A message that comes to a view in its turn: a new order first, no report a second time, none
\* that is behind.
Fits(v, m) ==
    /\ m \in Message
    /\ v.open <=> m.type # "D"
    /\ m.type = "D" => m.qty \in 1..MaxQty /\ m.clordid # None
    /\ m.type = "8" => /\ m.execId # None /\ m.execId \notin v.seen
                       /\ m.clordid # None /\ m.status # None /\ m.cum # None
                       /\ ~IsBust(m) /\ ~IsCorrect(m) => v.cum <= m.cum
                       /\ IsBust(m) \/ IsCorrect(m) => m.execRefId \in v.seen
                       /\ m.execType = "CANCELED" <=> m.status = "CANCELED"
    /\ m.type = "9" => m.responseTo # None /\ m.status # None
    /\ m.type = "Q" => m.execId # None
    /\ m.type \notin {"8", "9"} => Settles(m) = None

-----------------------------------------------------------------------------
\* What is on its way

\* The requests of the conversation that are still to be answered after the first i messages on
\* the wire.
Awaited(w, asked, i) ==
    {id \in ClOrdIDs : /\ \/ \E r \in asked : r.clordid = id
                          \/ \E j \in i + 1..Len(w) : Answers(w[j], id)
                       /\ ~\E j \in i + 1..Len(w) : w[j].type \in {"G", "F"} /\ w[j].clordid = id}

PendingIds(requests) == {requests[i].clordid : i \in DOMAIN requests}

\* The list holds the requests asked, each once.
Holds(requests, asked) ==
    /\ \A i \in 1..Len(requests) : \E r \in asked : requests[i] = Entry(r)
    /\ \A r \in asked : \E i \in 1..Len(requests) : requests[i] = Entry(r)
    /\ \A i, j \in 1..Len(requests) : requests[i].clordid = requests[j].clordid => i = j

OfAction(asked, a) == {r \in asked : Entry(r).action = a}

\* The list holds no more of an action than are asked.
NoMore(requests, asked) ==
    \A a \in Actions : Cardinality(InFlight(requests, a)) <= Cardinality(OfAction(asked, a))

\* The executions that count, and what they add up to.
Counting(table) == {e \in ExecIDs : table[e] # None /\ table[e].fill /\ table[e].disposition # "BUSTED"}
SharesOf(table) == [e \in ExecIDs |-> IF table[e] = None THEN 0 ELSE table[e].shares]
Filled(table)   == Sum(SharesOf(table), Counting(table))

\* A table whose rows are of executions seen, whose counting rows add up to cum, and in which the
\* last fill counts.
Tallies(table, seen, cum, last) ==
    /\ \A e \in ExecIDs : table[e] # None => e \in seen
    /\ Filled(table) = cum
    /\ last # NoFill => /\ last.execId \in Counting(table)
                        /\ last.shares = table[last.execId].shares
                        /\ last.shares \in 1..cum

\* The conversation so far.
Asked ==
    /\ IsFiniteSet(unanswered) /\ unanswered \subseteq Message
    /\ \A r \in unanswered : r.type \in {"G", "F"} /\ r.clordid \in 2..sent
                             /\ (r.type = "G" => r.qty \in 1..MaxQty)
    /\ \A q, r \in unanswered : q.clordid = r.clordid => q = r
    /\ phase = "none" => vCum = 0 /\ sent = 0 /\ vClordid = None /\ vStatus = None
    /\ phase # "none" => sent \in 1..MaxRequests + 1 /\ vClordid \in 1..sent
    /\ vCum \in 0..vQty /\ vQty \in Qtys
    /\ \A j \in 1..Len(wire) : wire[j].clordid \in {None} \cup 1..sent

\* What the chain will hold when it has heard what is on the wire, in terms of the venue's state.
OrderFollows(v) ==
    /\ v.open <=> phase # "none"
    /\ vStatus # None /\ unanswered = {} => v.status = vStatus
    /\ ~unasked => v.qty = vQty /\ v.id = vClordid
RequestsFollow(v) == /\ NoMore(v.pending, unanswered)
                     /\ ~unasked => Holds(v.pending, unanswered)
FillsFollow(v) == v.cum = vCum /\ v.seen = 1..execs /\ Tallies(v.rows, v.seen, v.cum, lastFill)

\* The views of the chain from now on, one for each message on the wire.
Trail(s) ==
    /\ s = [i \in 0..Len(wire) |-> s[i]]
    /\ s[0] = View
    /\ \A i \in 1..Len(wire) : Fits(s[i - 1], wire[i]) /\ s[i] = After(s[i - 1], wire[i])
    /\ \A i \in 0..Len(wire) : /\ Steady(s[i])
                               /\ ~unasked => PendingIds(s[i].pending) = Awaited(wire, unanswered, i)

Ahead(v) == OrderFollows(v) /\ RequestsFollow(v) /\ FillsFollow(v)

\* What the cache has heard it has noted, and a bust for good.
HeardNoted ==
    /\ heard # {} => open
    /\ \A m \in heard : /\ m \in Message /\ m.type = "8" /\ m.execId \in execIds
                        /\ IsBust(m) => /\ m.execRefId \in execIds
                                        /\ execRows[m.execRefId] # None
                                        /\ execRows[m.execRefId].disposition # "NORMAL"

SessionTypes ==
    /\ wire \in Seq(Message) /\ heard \subseteq Message
    /\ phase \in {"none", "asked", "live", "canceled", "rejected"}
    /\ vStatus \in Optional(Statuses) /\ unasked \in BOOLEAN
    /\ sent \in 0..MaxRequests + 1 /\ execs \in {0} \cup ExecIDs

SessionInv ==
    /\ SessionTypes /\ ChainSound /\ Asked /\ HeardNoted
    /\ \E s : Trail(s) /\ Ahead(s[Len(wire)])

-----------------------------------------------------------------------------
\* The handlers as a function

LEMMA ViewParts ==
    /\ View.open = open /\ View.status = ordStatus /\ View.cum = cumQty /\ View.qty = orderQty
    /\ View.id = clordid /\ View.pending = pending /\ View.seen = execIds /\ View.rows = execRows
BY DEF View

LEMMA AfterParts ==
    ASSUME NEW v, NEW m
    PROVE  /\ After(v, m).open = TRUE /\ After(v, m).status = StatusAfter(v, m)
           /\ After(v, m).cum = CumAfter(v, m) /\ After(v, m).qty = QtyAfter(v, m)
           /\ After(v, m).id = IdAfter(v, m) /\ After(v, m).pending = PendingAfter(v, m)
           /\ After(v, m).seen = SeenAfter(v, m) /\ After(v, m).rows = RowsAfter(v, m)
BY DEF After

\* A message that settles nothing takes nothing out.
LEMMA TakesNothing ==
    ASSUME NEW v, NEW m, Settles(m) = None
    PROVE  Taken(v, m) = 0 /\ Without(v.pending, Taken(v, m)) = v.pending
BY DEF Taken, Without

\* Values are not None.
LEMMA NotNone ==
    /\ \A x \in ClOrdIDs \cup ExecIDs \cup Qtys : x # None
    /\ \A x \in 1..MaxQty : x \in Qtys /\ x # None
    /\ \A x \in Statuses \cup Actions \cup ExecRow : x # None
    /\ "NEW" # None /\ "CANCEL" # None /\ "CORRECT" # None
<1>1. \A x \in 1..MaxQty : x \in Qtys
      BY ChainAssumption DEF Qtys
<1> QED BY <1>1, SessionAssumption

LEMMA AfterNewOrder ==
    ASSUME NEW m, Fits(View, m), NewOrder(m)
    PROVE  View' = After(View, m)
<1>1. m.type = "D" /\ ~open /\ Settles(m) = None /\ m.qty # None
      BY NotNone, ViewParts DEF NewOrder, Fits
<1>2. /\ open' = TRUE /\ ordStatus' = "PENDING_NEW" /\ cumQty' = 0 /\ orderQty' = m.qty
      /\ clordid' = m.clordid /\ pending' = pending /\ execIds' = execIds /\ execRows' = execRows
      BY <1>1 DEF NewOrder, Terms, OrElse, rows
<1>3. /\ StatusAfter(View, m) = "PENDING_NEW" /\ CumAfter(View, m) = 0 /\ QtyAfter(View, m) = m.qty
      /\ IdAfter(View, m) = m.clordid /\ PendingAfter(View, m) = pending
      /\ SeenAfter(View, m) = execIds /\ RowsAfter(View, m) = execRows
      BY <1>1, ViewParts, TakesNothing
         DEF StatusAfter, CumAfter, QtyAfter, IdAfter, PendingAfter, SeenAfter, RowsAfter
<1> QED BY <1>2, <1>3 DEF View, After

LEMMA AfterRequest ==
    ASSUME NEW m, Fits(View, m), ReplaceRequest(m) \/ CancelRequest(m)
    PROVE  View' = After(View, m)
<1>1. open /\ Settles(m) = None /\ m.type \in {"G", "F"}
      BY ViewParts DEF Fits, ReplaceRequest, CancelRequest
<1>2. /\ open' = TRUE /\ orderQty' = orderQty /\ clordid' = clordid
      BY <1>1 DEF ReplaceRequest, CancelRequest, SeedFromRequest
<1>3. cumQty' = cumQty /\ execIds' = execIds /\ execRows' = execRows
      BY DEF ReplaceRequest, CancelRequest, rows
<1>4. ordStatus' = StatusAfter(View, m)
      BY DEF ReplaceRequest, CancelRequest, StatusAfter
<1>5. pending' = Append(pending, Entry(m))
      BY DEF ReplaceRequest, CancelRequest, Register, Entry
<1>6. /\ CumAfter(View, m) = cumQty /\ QtyAfter(View, m) = orderQty
      /\ IdAfter(View, m) = clordid /\ PendingAfter(View, m) = Append(pending, Entry(m))
      /\ SeenAfter(View, m) = execIds /\ RowsAfter(View, m) = execRows
      BY <1>1, ViewParts
         DEF CumAfter, QtyAfter, IdAfter, PendingAfter, SeenAfter, RowsAfter, Confirms
<1> QED BY <1>2, <1>3, <1>4, <1>5, <1>6 DEF View, After

LEMMA AfterReject ==
    ASSUME NEW m, Fits(View, m), CancelReject(m)
    PROVE  View' = After(View, m)
<1>1. open /\ m.type = "9" /\ m.responseTo # None /\ m.status # None
      BY ViewParts DEF Fits, CancelReject
<1>2. /\ open' = TRUE /\ orderQty' = orderQty /\ clordid' = clordid
      /\ cumQty' = cumQty /\ execIds' = execIds /\ execRows' = execRows
      BY <1>1 DEF CancelReject, rows
<1>3. ordStatus' = m.status
      BY <1>1 DEF CancelReject, StatusAfterReject, OrElse
<1>4. RejectedAction(m) = m.responseTo
      BY <1>1 DEF RejectedAction, OrElse
<1>5. pending' = Without(pending, Answered(pending, m.responseTo, m.clordid))
      BY <1>1, <1>4 DEF CancelReject
<1>6. Taken(View, m) = Answered(pending, m.responseTo, m.clordid)
      BY <1>1, ViewParts DEF Taken, Settles
<1>7. /\ StatusAfter(View, m) = m.status /\ CumAfter(View, m) = cumQty /\ QtyAfter(View, m) = orderQty
      /\ IdAfter(View, m) = clordid /\ PendingAfter(View, m) = Without(pending, Taken(View, m))
      /\ SeenAfter(View, m) = execIds /\ RowsAfter(View, m) = execRows
      BY <1>1, ViewParts
         DEF StatusAfter, CumAfter, QtyAfter, IdAfter, PendingAfter, SeenAfter, RowsAfter, Confirms
<1> QED BY <1>2, <1>3, <1>5, <1>6, <1>7 DEF View, After

LEMMA AfterDontKnow ==
    ASSUME NEW m, Fits(View, m), DontKnowTrade(m)
    PROVE  View' = After(View, m)
<1>1. open /\ m.type = "Q" /\ Settles(m) = None
      BY ViewParts DEF Fits, DontKnowTrade
<1>2. /\ open' = TRUE /\ orderQty' = orderQty /\ clordid' = clordid /\ ordStatus' = ordStatus
      /\ cumQty' = cumQty /\ execIds' = execIds /\ pending' = pending
      /\ execRows' = [execRows EXCEPT ![m.execId] = Reemitted(@, "DK", None)]
      BY <1>1 DEF DontKnowTrade, published, flight
<1>3. /\ StatusAfter(View, m) = ordStatus /\ CumAfter(View, m) = cumQty /\ QtyAfter(View, m) = orderQty
      /\ IdAfter(View, m) = clordid /\ PendingAfter(View, m) = pending
      /\ SeenAfter(View, m) = execIds /\ RowsAfter(View, m) = execRows'
      BY <1>1, <1>2, ViewParts, TakesNothing
         DEF StatusAfter, CumAfter, QtyAfter, IdAfter, PendingAfter, SeenAfter, RowsAfter, Confirms
<1> QED BY <1>2, <1>3 DEF View, After

LEMMA AfterReport ==
    ASSUME ChainSound, NEW m, Fits(View, m), Steady(View), ExecutionReport(m)
    PROVE  View' = After(View, m)
<1>1. /\ open /\ m.type = "8" /\ m.execId # None /\ m.execId \notin execIds
      /\ m.clordid # None /\ m.status # None /\ m.cum # None
      /\ ~IsBust(m) /\ ~IsCorrect(m) => cumQty <= m.cum
      /\ m.execType = "CANCELED" <=> m.status = "CANCELED"
      BY ViewParts DEF Fits, ExecutionReport
<1>2. m \in Message /\ m.cum \in Int /\ cumQty \in Int
      BY <1>1, MessageParts, ChainAssumption DEF Fits, Optional, Qtys, ChainSound, ChainTypeOK
<1>3. ~Duplicate(m) /\ ~Stale(m)
      BY <1>1, <1>2 DEF Duplicate, Stale
<1>4. ReportCurrent(m)
      BY <1>3 DEF ExecutionReport, ReportDuplicate, ReportStale
<1>5. /\ open' = TRUE /\ ordStatus' = m.status /\ cumQty' = m.cum /\ execIds' = execIds \cup {m.execId}
      /\ execRows' = Dispositions(m)
      BY <1>1, <1>4 DEF ReportCurrent, OrElse, ExecutionReport
<1>6. Dispositions(m) = RowsAfter(View, m)
      BY <1>1, ViewParts DEF Dispositions, RowsAfter, Marked
<1>7. orderQty # 0 /\ FillTerms(m) = orderQty /\ SeededId(m) = clordid
      BY <1>1, ViewParts DEF Steady, FillTerms, SeededId
<1>8. ResolvePending(m)
      BY <1>4 DEF ReportCurrent
<1>9. pending' = PendingAfter(View, m) /\ orderQty' = QtyAfter(View, m) /\ clordid' = IdAfter(View, m)
  <2>1. CASE m.execType = "CANCELED"
    <3>1. AfterCancel(m) = Without(pending, Answered(pending, "CANCEL", m.clordid))
          BY <1>1, <2>1 DEF AfterCancel
    <3>2. Settles(m) = "CANCEL" /\ ~Confirms(m)
          BY <1>1, <2>1 DEF Settles, Confirms
    <3>3. Taken(View, m) = Answered(pending, "CANCEL", m.clordid)
          BY <3>2, NotNone, ViewParts DEF Taken
    <3>4. pending' = AfterCancel(m) /\ orderQty' = orderQty /\ clordid' = clordid
          BY <1>7, <1>8, <2>1 DEF ResolvePending
    <3> QED BY <1>1, <3>1, <3>2, <3>3, <3>4, ViewParts DEF PendingAfter, QtyAfter, IdAfter
  <2>2. CASE m.execType = "REPLACED"
    <3>1. AfterCancel(m) = pending
          BY <1>1, <2>2 DEF AfterCancel
    <3>2. Settles(m) = "REPLACE" /\ Confirms(m)
          BY <1>1, <2>2 DEF Settles, Confirms
    <3> DEFINE i == Answered(pending, "REPLACE", m.clordid)
    <3>3. Taken(View, m) = i
          BY <3>2, NotNone, ViewParts DEF Taken, Actions
    <3>4. /\ pending' = Without(pending, i)
          /\ orderQty' = OrElse(IF i = 0 THEN None ELSE pending[i].qty, orderQty)
          /\ clordid' = OrElse(OrElse(m.clordid, IF i = 0 THEN None ELSE pending[i].clordid), clordid)
          BY <1>7, <1>8, <2>2, <3>1 DEF ResolvePending
    <3>5. i # 0 => i \in 1..Len(pending) /\ pending[i].action = "REPLACE"
          BY AnsweredIsInFlight, InFlightFinite DEF ChainSound, ChainTypeOK, InFlight
    <3> HIDE DEF i
    <3>6. i # 0 => pending[i].qty # None
          BY <3>5, NotNone, ViewParts DEF Steady
    <3>7. clordid' = m.clordid /\ orderQty' = IF i = 0 THEN orderQty ELSE pending[i].qty
          BY <1>1, <3>4, <3>6 DEF OrElse
    <3> QED BY <1>1, <3>2, <3>3, <3>4, <3>7, ViewParts DEF PendingAfter, QtyAfter, IdAfter
  <2>3. CASE m.execType \notin {"CANCELED", "REPLACED"}
    <3>1. AfterCancel(m) = pending
          BY <1>1, <2>3 DEF AfterCancel
    <3>2. Settles(m) = None /\ ~Confirms(m)
          BY <1>1, <2>3 DEF Settles, Confirms
    <3>3. pending' = pending /\ orderQty' = orderQty /\ clordid' = clordid
          BY <1>7, <1>8, <2>3, <3>1 DEF ResolvePending
    <3> QED BY <1>1, <3>2, <3>3, ViewParts, TakesNothing DEF PendingAfter, QtyAfter, IdAfter
  <2> QED BY <2>1, <2>2, <2>3
<1>10. /\ StatusAfter(View, m) = m.status /\ CumAfter(View, m) = m.cum
       /\ SeenAfter(View, m) = execIds \cup {m.execId}
      BY <1>1, ViewParts DEF StatusAfter, CumAfter, SeenAfter
<1> QED BY <1>5, <1>6, <1>9, <1>10 DEF View, After

\* What a message in its turn does to the chain, and that it leaves it sound.
LEMMA HandleIsAfter ==
    ASSUME ChainSound, NEW m, Fits(View, m), Steady(View), Handle(m)
    PROVE  ChainSound' /\ View' = After(View, m)
<1>1. m \in Message
      BY DEF Fits
<1>2. ChainSound'
      BY <1>1, NewOrderSound, RequestSound, ReportSound, RejectSound, DontKnowSound DEF Handle
<1>3. View' = After(View, m)
      BY AfterNewOrder, AfterRequest, AfterReport, AfterReject, AfterDontKnow DEF Handle
<1> QED BY <1>2, <1>3

-----------------------------------------------------------------------------
\* The trail

\* What is awaited after the first messages of a wire, when the first of them is gone.
LEMMA AwaitedShifts ==
    ASSUME NEW w \in Seq(Message), w # <<>>, NEW asked, NEW i \in 0..Len(w) - 1
    PROVE  Awaited(Tail(w), asked, i) = Awaited(w, asked, i + 1)
<1> DEFINE n == Len(w)
           t == Tail(w)
<1>1. n \in Nat /\ n >= 1 /\ Len(t) = n - 1 /\ \A j \in 1..n - 1 : t[j] = w[j + 1]
      OBVIOUS
<1> HIDE DEF n, t
<1>2. \A j \in i + 1..n - 1 : t[j] = w[j + 1] /\ j + 1 \in (i + 1) + 1..n
      BY <1>1 DEF n
<1>3. \A j \in (i + 1) + 1..n : t[j - 1] = w[j] /\ j - 1 \in i + 1..n - 1
  <2> TAKE j \in (i + 1) + 1..n
  <2>1. j - 1 \in i + 1..n - 1 /\ (j - 1) + 1 = j
        BY <1>1 DEF n
  <2> QED BY <1>2, <2>1
<1>4. /\ \A j \in i + 1..n - 1 : \E k \in (i + 1) + 1..n : t[j] = w[k]
      /\ \A j \in (i + 1) + 1..n : \E k \in i + 1..n - 1 : t[k] = w[j]
      BY <1>2, <1>3
<1>5. ASSUME NEW id
      PROVE  (\E j \in i + 1..n - 1 : Answers(t[j], id))
                 <=> (\E j \in (i + 1) + 1..n : Answers(w[j], id))
      BY <1>4, Zenon
<1>6. ASSUME NEW id
      PROVE  (\E j \in i + 1..n - 1 : t[j].type \in {"G", "F"} /\ t[j].clordid = id)
                 <=> (\E j \in (i + 1) + 1..n : w[j].type \in {"G", "F"} /\ w[j].clordid = id)
  <2>1. ASSUME NEW j \in i + 1..n - 1, t[j].type \in {"G", "F"} /\ t[j].clordid = id
        PROVE  \E k \in (i + 1) + 1..n : w[k].type \in {"G", "F"} /\ w[k].clordid = id
    <3>1. PICK k \in (i + 1) + 1..n : t[j] = w[k]
          BY <1>4
    <3> QED BY <2>1, <3>1, Zenon
  <2>2. ASSUME NEW j \in (i + 1) + 1..n, w[j].type \in {"G", "F"} /\ w[j].clordid = id
        PROVE  \E k \in i + 1..n - 1 : t[k].type \in {"G", "F"} /\ t[k].clordid = id
    <3>1. PICK k \in i + 1..n - 1 : t[k] = w[j]
          BY <1>4
    <3> QED BY <2>2, <3>1, Zenon
  <2> QED BY <2>1, <2>2, Zenon
<1>7. /\ Awaited(t, asked, i) =
           {id \in ClOrdIDs : /\ \/ \E r \in asked : r.clordid = id
                                 \/ \E j \in i + 1..n - 1 : Answers(t[j], id)
                              /\ ~\E j \in i + 1..n - 1 : t[j].type \in {"G", "F"} /\ t[j].clordid = id}
      /\ Awaited(w, asked, i + 1) =
           {id \in ClOrdIDs : /\ \/ \E r \in asked : r.clordid = id
                                 \/ \E j \in (i + 1) + 1..n : Answers(w[j], id)
                              /\ ~\E j \in (i + 1) + 1..n : w[j].type \in {"G", "F"} /\ w[j].clordid = id}
      BY <1>1 DEF Awaited, n
<1>8. Awaited(t, asked, i) = Awaited(w, asked, i + 1)
      BY <1>5, <1>6, <1>7, Zenon
<1> QED BY <1>8 DEF t

\* The first message on the wire is heard: the trail begins one later.
LEMMA TrailShortens ==
    ASSUME SessionTypes, wire # <<>>, wire' = Tail(wire), UNCHANGED <<unanswered, unasked>>,
           NEW s, Trail(s), View' = After(View, Head(wire))
    PROVE  \E t : Trail(t)' /\ t[Len(wire')] = s[Len(wire)]
<1>0. PICK n, t : n = Len(wire) /\ t = [i \in 0..n - 1 |-> s[i + 1]]
      OBVIOUS
<1>1. /\ n \in Nat /\ n >= 1 /\ wire' \in Seq(Message) /\ Len(wire') = n - 1 /\ Head(wire) = wire[1]
      BY <1>0 DEF SessionTypes
<1>2. \A i \in 1..n - 1 : wire'[i] = wire[i + 1]
      BY <1>0 DEF SessionTypes
<1>3. \A i \in 0..n - 1 : t[i] = s[i + 1] /\ i + 1 \in 0..n /\ i + 1 \in 1..n
      BY <1>0, <1>1
<1>4. /\ s[0] = View
      /\ \A i \in 1..n : Fits(s[i - 1], wire[i]) /\ s[i] = After(s[i - 1], wire[i])
      /\ \A i \in 0..n : /\ Steady(s[i])
                         /\ ~unasked => PendingIds(s[i].pending) = Awaited(wire, unanswered, i)
      BY <1>0 DEF Trail
<1>5. t = [i \in 0..Len(wire') |-> t[i]]
      BY <1>0, <1>1
<1>6. t[0] = View'
  <2>1. t[0] = s[1] /\ 1 \in 1..n
    <3>1. 0 \in 0..n - 1 /\ 0 + 1 = 1
          BY <1>1
    <3> QED BY <1>1, <1>3, <3>1
  <2>2. 1 - 1 = 0
        OBVIOUS
  <2> QED BY <1>1, <1>4, <2>1, <2>2
<1>7. t[Len(wire')] = s[n]
  <2>1. n - 1 \in 0..n - 1 /\ (n - 1) + 1 = n
        BY <1>1
  <2> QED BY <1>1, <1>3, <2>1
<1>8. ASSUME NEW i \in 1..n - 1
      PROVE  Fits(t[i - 1], wire'[i]) /\ t[i] = After(t[i - 1], wire'[i])
  <2>1. i - 1 \in 0..n - 1 /\ i \in 0..n - 1 /\ (i - 1) + 1 = i /\ i + 1 \in 1..n /\ (i + 1) - 1 = i
        BY <1>1
  <2>2. t[i - 1] = s[i] /\ t[i] = s[i + 1] /\ wire'[i] = wire[i + 1]
        BY <1>2, <1>3, <2>1
  <2> QED BY <1>4, <2>1, <2>2
<1>9. ASSUME NEW i \in 0..n - 1
      PROVE  /\ Steady(t[i])
             /\ ~unasked => PendingIds(t[i].pending) = Awaited(wire', unanswered, i)
  <2>1. t[i] = s[i + 1] /\ i + 1 \in 0..n
        BY <1>3
  <2>2. Awaited(wire', unanswered, i) = Awaited(wire, unanswered, i + 1)
    <3>1. wire \in Seq(Message) /\ i \in 0..Len(wire) - 1
          BY <1>0 DEF SessionTypes
    <3> QED BY <3>1, AwaitedShifts
  <2> QED BY <1>4, <2>1, <2>2
<1>10. Trail(t)'
  <2>1. \A i \in 1..Len(wire') : Fits(t[i - 1], wire'[i]) /\ t[i] = After(t[i - 1], wire'[i])
        BY <1>1, <1>8
  <2>2. \A i \in 0..Len(wire') :
           /\ Steady(t[i])
           /\ ~unasked' => PendingIds(t[i].pending) = Awaited(wire', unanswered', i)
        BY <1>1, <1>9
  <2> QED BY <1>5, <1>6, <2>1, <2>2 DEF Trail
<1> QED BY <1>0, <1>7, <1>10

\* What the messages after the i-th say of a request, when one more is added.
LEMMA AwaitedGrows ==
    ASSUME NEW w \in Seq(Message), NEW m \in Message, NEW asked, NEW i \in 0..Len(w), NEW id \in ClOrdIDs
    PROVE  id \in Awaited(Append(w, m), asked, i) <=>
               /\ \/ \E r \in asked : r.clordid = id
                  \/ \E j \in i + 1..Len(w) : Answers(w[j], id)
                  \/ Answers(m, id)
               /\ ~\E j \in i + 1..Len(w) : w[j].type \in {"G", "F"} /\ w[j].clordid = id
               /\ ~(m.type \in {"G", "F"} /\ m.clordid = id)
<1> DEFINE n == Len(w)
           t == Append(w, m)
<1>1. n \in Nat /\ Len(t) = n + 1 /\ t[n + 1] = m /\ \A j \in 1..n : t[j] = w[j]
      OBVIOUS
<1> HIDE DEF n, t
<1>2. /\ \A j \in i + 1..n + 1 : j = n + 1 \/ j \in i + 1..n
      /\ \A j \in i + 1..n : j \in i + 1..n + 1 /\ t[j] = w[j]
      /\ n + 1 \in i + 1..n + 1
      BY <1>1 DEF n
<1>3. /\ (\E j \in i + 1..n + 1 : Answers(t[j], id)) <=>
             (\E j \in i + 1..n : Answers(w[j], id)) \/ Answers(m, id)
      /\ (\E j \in i + 1..n + 1 : t[j].type \in {"G", "F"} /\ t[j].clordid = id) <=>
             \/ \E j \in i + 1..n : w[j].type \in {"G", "F"} /\ w[j].clordid = id
             \/ m.type \in {"G", "F"} /\ m.clordid = id
      BY <1>1, <1>2, Zenon
<1>4. Awaited(t, asked, i) =
           {x \in ClOrdIDs : /\ \/ \E r \in asked : r.clordid = x
                                \/ \E j \in i + 1..n + 1 : Answers(t[j], x)
                             /\ ~\E j \in i + 1..n + 1 : t[j].type \in {"G", "F"} /\ t[j].clordid = x}
      BY <1>1 DEF Awaited
<1> QED BY <1>3, <1>4, Zenon DEF t, n

\* What one more message does to the requests asked.
Opens(m)  == /\ m.type \in {"G", "F"} /\ m.clordid = sent + 1 /\ sent' = sent + 1
             /\ unanswered' = unanswered \cup {m}
Closes(m) == /\ m.type \notin {"G", "F"} /\ sent' = sent
             /\ \E r \in unanswered : /\ unanswered' = unanswered \ {r}
                                      /\ m.clordid = r.clordid /\ Answers(m, r.clordid)
Tells(m)  == /\ m.type \notin {"G", "F"} /\ sent' >= sent
             /\ unanswered' = unanswered /\ \A id : ~Answers(m, id)

\* The requests still awaited after a message on the wire are the same when one more is said.
LEMMA AwaitedStays ==
    ASSUME SessionTypes, Asked, NEW m \in Message, wire' = Append(wire, m),
           Opens(m) \/ Closes(m) \/ Tells(m), NEW i \in 0..Len(wire)
    PROVE  Awaited(wire', unanswered', i) = Awaited(wire, unanswered, i)
<1> DEFINE Was(id) == /\ \/ \E r \in unanswered : r.clordid = id
                         \/ \E j \in i + 1..Len(wire) : Answers(wire[j], id)
                      /\ ~\E j \in i + 1..Len(wire) : wire[j].type \in {"G", "F"} /\ wire[j].clordid = id
<1>1. wire \in Seq(Message)
      BY DEF SessionTypes
<1>2. ASSUME NEW id \in ClOrdIDs
      PROVE  id \in Awaited(wire', unanswered', i) <=> Was(id)
  <2>1. id \in Awaited(wire', unanswered', i) <=>
               /\ \/ \E r \in unanswered' : r.clordid = id
                  \/ \E j \in i + 1..Len(wire) : Answers(wire[j], id)
                  \/ Answers(m, id)
               /\ ~\E j \in i + 1..Len(wire) : wire[j].type \in {"G", "F"} /\ wire[j].clordid = id
               /\ ~(m.type \in {"G", "F"} /\ m.clordid = id)
        BY <1>1, AwaitedGrows
  <2>2. CASE Tells(m)
        BY <2>1, <2>2, Zenon DEF Tells
  <2>3. CASE Closes(m)
    <3>1. PICK r \in unanswered : /\ unanswered' = unanswered \ {r}
                                 /\ m.clordid = r.clordid /\ Answers(m, r.clordid)
          BY <2>3 DEF Closes
    <3>2. Answers(m, id) <=> id = r.clordid
          BY <3>1 DEF Answers
    <3>3. (\E q \in unanswered' : q.clordid = id) \/ id = r.clordid <=> \E q \in unanswered : q.clordid = id
          BY <3>1
    <3>4. ~(m.type \in {"G", "F"} /\ m.clordid = id)
          BY <2>3 DEF Closes
    <3> QED BY <2>1, <3>2, <3>3, <3>4, Zenon
  <2>4. CASE Opens(m)
    <3>1. sent \in Nat
          BY SessionAssumption DEF SessionTypes
    <3>2. CASE id = m.clordid
      <4>1. id \notin 2..sent /\ id \notin 1..sent /\ id # None
            BY <2>4, <3>1, <3>2, NotNone DEF Opens
      <4>2. \A r \in unanswered : r.clordid # id
            BY <4>1 DEF Asked
      <4>3. \A j \in 1..Len(wire) : wire[j].clordid # id
            BY <4>1 DEF Asked
      <4>4. \A j \in i + 1..Len(wire) : ~Answers(wire[j], id)
        <5>1. \A j \in i + 1..Len(wire) : j \in 1..Len(wire)
              BY <1>1
        <5> QED BY <4>3, <5>1 DEF Answers
      <4> QED BY <2>1, <2>4, <3>2, <4>2, <4>4 DEF Opens
    <3>3. CASE id # m.clordid
      <4>1. ~Answers(m, id)
            BY <3>3 DEF Answers
      <4>2. (\E q \in unanswered' : q.clordid = id) <=> \E q \in unanswered : q.clordid = id
            BY <2>4, <3>3 DEF Opens
      <4> QED BY <2>1, <3>3, <4>1, <4>2, Zenon
    <3> QED BY <3>2, <3>3
  <2> QED BY <2>2, <2>3, <2>4
<1>3. Awaited(wire, unanswered, i) = {id \in ClOrdIDs : Was(id)}
      BY DEF Awaited
<1>4. Awaited(wire', unanswered', i) \subseteq ClOrdIDs
      BY DEF Awaited
<1> HIDE DEF Was
<1> QED BY <1>2, <1>3, <1>4

\* One more message is said: the trail goes on to what it will make of the chain.
LEMMA TrailGrows ==
    ASSUME SessionTypes, Asked, NEW m, wire' = Append(wire, m),
           unasked' = FALSE => ~unasked /\ (Opens(m) \/ Closes(m) \/ Tells(m)),
           NEW s, Trail(s), View' = View, Fits(s[Len(wire)], m), Steady(After(s[Len(wire)], m)),
           unasked' = FALSE =>
              PendingIds(PendingAfter(s[Len(wire)], m)) = {id \in ClOrdIDs : \E r \in unanswered' : r.clordid = id},
           unasked' \in BOOLEAN
    PROVE  \E t : Trail(t)' /\ t[Len(wire')] = After(s[Len(wire)], m)
<1>n. PICK n, end : n = Len(wire) /\ end = After(s[n], m)
      OBVIOUS
<1>t. PICK t : t = [i \in 0..n + 1 |-> IF i = n + 1 THEN end ELSE s[i]]
      OBVIOUS
<1>0. m \in Message
      BY DEF Fits
<1>1. /\ n \in Nat /\ wire' \in Seq(Message) /\ Len(wire') = n + 1 /\ wire'[n + 1] = m
      /\ \A i \in 1..n : wire'[i] = wire[i]
      BY <1>0, <1>n DEF SessionTypes
<1>2. /\ s[0] = View
      /\ \A i \in 1..n : Fits(s[i - 1], wire[i]) /\ s[i] = After(s[i - 1], wire[i])
      /\ \A i \in 0..n : /\ Steady(s[i])
                         /\ ~unasked => PendingIds(s[i].pending) = Awaited(wire, unanswered, i)
      BY <1>n DEF Trail
<1>3. Fits(s[n], m) /\ Steady(end) /\ end.pending = PendingAfter(s[n], m)
      BY <1>n, AfterParts
<1>4. unasked' = FALSE => \A i \in 0..n : Awaited(wire', unanswered', i) = Awaited(wire, unanswered, i)
      BY <1>0, <1>n, AwaitedStays
<1>5. Awaited(wire', unanswered', n + 1) = {id \in ClOrdIDs : \E r \in unanswered' : r.clordid = id}
  <2>1. (n + 1) + 1..n + 1 = {}
        BY <1>1
  <2> QED BY <1>1, <2>1 DEF Awaited
<1>6. /\ \A i \in 0..n : t[i] = s[i] /\ i # n + 1 /\ i \in 0..n + 1
      /\ t[n + 1] = end /\ 0 \in 0..n /\ n \in 0..n
      BY <1>1, <1>t
<1>7. t = [i \in 0..Len(wire') |-> t[i]]
      BY <1>1, <1>t
<1>8. t[0] = View'
      BY <1>2, <1>6
<1>9. ASSUME NEW i \in 1..n + 1
      PROVE  Fits(t[i - 1], wire'[i]) /\ t[i] = After(t[i - 1], wire'[i])
  <2>1. CASE i = n + 1
    <3>1. i - 1 = n /\ t[n] = s[n] /\ t[i] = end /\ wire'[i] = m
          BY <1>1, <1>6, <2>1
    <3> QED BY <1>3, <1>n, <3>1
  <2>2. CASE i # n + 1
    <3>1. i \in 1..n /\ i \in 0..n /\ i - 1 \in 0..n
          BY <1>1, <2>2
    <3>2. t[i] = s[i] /\ t[i - 1] = s[i - 1] /\ wire'[i] = wire[i]
          BY <1>1, <1>6, <3>1
    <3> QED BY <1>2, <3>1, <3>2
  <2> QED BY <2>1, <2>2
<1>10. ASSUME NEW i \in 0..n + 1
       PROVE  /\ Steady(t[i])
              /\ ~unasked' => PendingIds(t[i].pending) = Awaited(wire', unanswered', i)
  <2>1. CASE i = n + 1
    <3>1. t[i] = end
          BY <1>6, <2>1
    <3>2. ~unasked' => PendingIds(PendingAfter(s[n], m)) = {id \in ClOrdIDs : \E r \in unanswered' : r.clordid = id}
          BY <1>n
    <3> QED BY <1>3, <1>5, <2>1, <3>1, <3>2
  <2>2. CASE i # n + 1
    <3>1. i \in 0..n /\ t[i] = s[i]
          BY <1>1, <1>6, <2>2
    <3>2. ~unasked' => ~unasked /\ Awaited(wire', unanswered', i) = Awaited(wire, unanswered, i)
          BY <1>4, <3>1
    <3> QED BY <1>2, <3>1, <3>2
  <2> QED BY <2>1, <2>2
<1>11. Trail(t)'
  <2>1. \A i \in 1..Len(wire') : Fits(t[i - 1], wire'[i]) /\ t[i] = After(t[i - 1], wire'[i])
        BY <1>1, <1>9
  <2>2. \A i \in 0..Len(wire') :
           /\ Steady(t[i])
           /\ ~unasked' => PendingIds(t[i].pending) = Awaited(wire', unanswered', i)
        BY <1>1, <1>10
  <2> QED BY <1>7, <1>8, <2>1, <2>2 DEF Trail
<1>12. t[Len(wire')] = After(s[Len(wire)], m)
       BY <1>1, <1>6, <1>n
<1> QED BY <1>11, <1>12

-----------------------------------------------------------------------------
\* Requests, asked and answered

\* A request as the chain keeps it.
LEMMA EntryParts ==
    ASSUME NEW r \in Message
    PROVE  /\ Entry(r) \in Request /\ Entry(r).clordid = r.clordid
           /\ Entry(r).action = (IF r.type = "G" THEN "REPLACE" ELSE "CANCEL")
           /\ Entry(r).qty = (IF r.type = "G" THEN r.qty ELSE None)
           /\ Entry(r).action \in Actions
BY MessageParts DEF Entry, Request, Actions, Optional

\* One more request asked, and one more in the list.
LEMMA HoldsOpened ==
    ASSUME NEW s \in Seq(Request), NEW asked \in SUBSET Message, Holds(s, asked), NEW m \in Message,
           \A r \in asked : r.clordid # m.clordid
    PROVE  Holds(Append(s, Entry(m)), asked \cup {m})
<1> DEFINE e == Entry(m)
           t == Append(s, e)
           n == Len(s)
<1>1. e \in Request /\ e.clordid = m.clordid
      BY EntryParts
<1> HIDE DEF e
<1>2. /\ n \in Nat /\ t \in Seq(Request) /\ Len(t) = n + 1 /\ t[n + 1] = e
      /\ \A i \in 1..n : t[i] = s[i]
      BY <1>1
<1> HIDE DEF t, n
<1>3. /\ \A i \in 1..n : \E r \in asked : s[i] = Entry(r)
      /\ \A r \in asked : \E i \in 1..n : s[i] = Entry(r)
      /\ \A i, j \in 1..n : s[i].clordid = s[j].clordid => i = j
      BY DEF Holds, n
<1>4. \A i \in 1..n + 1 : i \in 1..n \/ i = n + 1
      BY <1>2
<1>5. \A i \in 1..n : i \in 1..n + 1
      BY <1>2
<1>6. n + 1 \in 1..n + 1
      BY <1>2
<1>7. \A i \in 1..n : s[i].clordid # e.clordid
  <2> TAKE i \in 1..n
  <2>1. PICK r \in asked : s[i] = Entry(r)
        BY <1>3
  <2>2. r \in Message
        OBVIOUS
  <2>3. s[i].clordid = r.clordid
        BY <2>1, <2>2, EntryParts
  <2> QED BY <1>1, <2>3
<1>8. ASSUME NEW i \in 1..n + 1 PROVE \E r \in asked \cup {m} : t[i] = Entry(r)
  <2>1. CASE i = n + 1
        BY <1>2, <2>1 DEF e
  <2>2. CASE i \in 1..n
    <3>1. t[i] = s[i]
          BY <1>2, <2>2
    <3>2. \E r \in asked : s[i] = Entry(r)
          BY <1>3, <2>2
    <3> QED BY <3>1, <3>2
  <2> QED BY <1>4, <2>1, <2>2
<1>9. ASSUME NEW r \in asked \cup {m} PROVE \E i \in 1..n + 1 : t[i] = Entry(r)
  <2>1. CASE r = m
        BY <1>2, <1>6, <2>1 DEF e
  <2>2. CASE r \in asked
        BY <1>2, <1>3, <1>5, <2>2
  <2> QED BY <2>1, <2>2
<1>10. ASSUME NEW i \in 1..n + 1, NEW j \in 1..n + 1, t[i].clordid = t[j].clordid PROVE i = j
  <2>1. CASE i = n + 1 /\ j = n + 1
        BY <2>1
  <2>2. CASE i \in 1..n /\ j \in 1..n
        BY <1>2, <1>3, <1>10, <2>2
  <2>3. CASE i \in 1..n /\ j = n + 1
        BY <1>2, <1>7, <1>10, <2>3
  <2>4. CASE i = n + 1 /\ j \in 1..n
        BY <1>2, <1>7, <1>10, <2>4
  <2> QED BY <1>4, <2>1, <2>2, <2>3, <2>4
<1>11. Holds(t, asked \cup {m})
       BY <1>2, <1>8, <1>9, <1>10 DEF Holds
<1> QED BY <1>11 DEF t, e

\* A request is answered: it is the one taken out of the list.
LEMMA HoldsClosed ==
    ASSUME NEW s \in Seq(Request), NEW asked \in SUBSET Message, Holds(s, asked), NEW r \in asked,
           r.clordid # None, \A q \in asked : q.clordid = r.clordid => q = r
    PROVE  LET i == Answered(s, Entry(r).action, r.clordid)
           IN  i \in 1..Len(s) /\ s[i] = Entry(r) /\ Holds(Without(s, i), asked \ {r})
<1> DEFINE n == Len(s)
           a == Entry(r).action
           i == Answered(s, a, r.clordid)
           t == Without(s, i)
<1>1. /\ \A k \in 1..n : \E q \in asked : s[k] = Entry(q)
      /\ \A q \in asked : \E k \in 1..n : s[k] = Entry(q)
      /\ \A k, j \in 1..n : s[k].clordid = s[j].clordid => k = j
      /\ n \in Nat
      BY DEF Holds
<1>2. PICK k \in 1..n : s[k] = Entry(r)
      BY <1>1
<1>3. s[k].clordid = r.clordid /\ s[k].action = a
      BY <1>2, EntryParts
<1>4. {j \in InFlight(s, a) : r.clordid # None /\ s[j].clordid = r.clordid} = {k}
  <2>1. InFlight(s, a) = {j \in 1..n : s[j].action = a}
        BY InFlightFinite
  <2> QED BY <1>1, <1>3, <2>1
<1>5. Newest({k}) = k
  <2>1. {k} \in SUBSET (1..n) /\ {k} # {}
        OBVIOUS
  <2> QED BY <1>1, <2>1, NewestIsLast
<1>6. i = k
      BY <1>4, <1>5 DEF Answered
<1> HIDE DEF i, n
<1>7. /\ t \in Seq(Request) /\ Len(t) = n - 1
      /\ \A j \in 1..n - 1 : t[j] = IF j < k THEN s[j] ELSE s[j + 1]
      BY <1>6, WithoutFacts DEF n
<1> HIDE DEF t
<1>8. \A j \in 1..n - 1 : \E l \in 1..n : l # k /\ t[j] = s[l] /\ l = IF j < k THEN j ELSE j + 1
  <2> TAKE j \in 1..n - 1
  <2>1. j \in 1..n /\ j + 1 \in 1..n /\ (j < k => j # k) /\ (~(j < k) => j + 1 # k)
        BY <1>1
  <2> QED BY <1>7, <2>1
<1>9. \A l \in 1..n : l # k => \E j \in 1..n - 1 : t[j] = s[l]
  <2> TAKE l \in 1..n
  <2> HAVE l # k
  <2>1. CASE l < k
    <3>1. l \in 1..n - 1
          BY <1>1, <2>1
    <3> QED BY <1>7, <2>1, <3>1
  <2>2. CASE ~(l < k)
    <3>1. PICK j : j = l - 1
          OBVIOUS
    <3>2. j \in 1..n - 1 /\ ~(j < k) /\ j + 1 = l
          BY <1>1, <2>2, <3>1
    <3>3. t[j] = s[j + 1]
          BY <1>7, <3>2
    <3> QED BY <3>2, <3>3
  <2> QED BY <2>1, <2>2
<1>10. \A l \in 1..n : l # k => s[l].clordid # r.clordid
       BY <1>1, <1>3
<1>11. ASSUME NEW j \in 1..n - 1 PROVE \E q \in asked \ {r} : t[j] = Entry(q)
  <2>1. PICK l \in 1..n : l # k /\ t[j] = s[l]
        BY <1>8
  <2>2. PICK q \in asked : s[l] = Entry(q)
        BY <1>1
  <2>3. q # r
        BY <1>1, <1>2, <2>1, <2>2
  <2> QED BY <2>1, <2>2, <2>3
<1>12. ASSUME NEW q \in asked \ {r} PROVE \E j \in 1..n - 1 : t[j] = Entry(q)
  <2>1. PICK l \in 1..n : s[l] = Entry(q)
        BY <1>1
  <2>2. s[l].clordid = q.clordid
        BY <2>1, EntryParts
  <2>3. l # k
        BY <1>3, <2>2
  <2>4. \E j \in 1..n - 1 : t[j] = s[l]
        BY <1>9, <2>3
  <2> QED BY <2>1, <2>4
<1>13. ASSUME NEW j \in 1..n - 1, NEW l \in 1..n - 1, t[j].clordid = t[l].clordid PROVE j = l
  <2>1. PICK p \in 1..n : t[j] = s[p] /\ p = IF j < k THEN j ELSE j + 1
        BY <1>8
  <2>2. PICK q \in 1..n : t[l] = s[q] /\ q = IF l < k THEN l ELSE l + 1
        BY <1>8
  <2>3. p = q
        BY <1>1, <1>13, <2>1, <2>2
  <2>4. j \in Int /\ l \in Int /\ k \in Int
        BY <1>1
  <2>5. (IF j < k THEN j ELSE j + 1) = (IF l < k THEN l ELSE l + 1)
        BY <2>1, <2>2, <2>3
  <2> QED BY <2>4, <2>5
<1>14. Holds(t, asked \ {r})
       BY <1>7, <1>11, <1>12, <1>13 DEF Holds
<1> QED BY <1>2, <1>6, <1>14 DEF t, i, n

\* The requests in the list are known by the identifiers of those asked.
LEMMA HoldsIds ==
    ASSUME NEW s \in Seq(Request), NEW asked \in SUBSET Message, Holds(s, asked),
           \A r \in asked : r.clordid \in ClOrdIDs
    PROVE  PendingIds(s) = {id \in ClOrdIDs : \E r \in asked : r.clordid = id}
<1>1. DOMAIN s = 1..Len(s)
      OBVIOUS
<1>2. \A i \in 1..Len(s) : \E r \in asked : s[i].clordid = r.clordid
  <2> TAKE i \in 1..Len(s)
  <2>1. PICK r \in asked : s[i] = Entry(r)
        BY DEF Holds
  <2>2. r \in Message
        OBVIOUS
  <2> QED BY <2>1, <2>2, EntryParts
<1>3. \A r \in asked : \E i \in 1..Len(s) : s[i].clordid = r.clordid
  <2> TAKE r \in asked
  <2>1. PICK i \in 1..Len(s) : s[i] = Entry(r)
        BY DEF Holds
  <2>2. r \in Message
        OBVIOUS
  <2> QED BY <2>1, <2>2, EntryParts
<1>4. \A id \in PendingIds(s) : id \in ClOrdIDs /\ \E r \in asked : r.clordid = id
      BY <1>1, <1>2 DEF PendingIds
<1>5. \A r \in asked : r.clordid \in PendingIds(s)
      BY <1>1, <1>3 DEF PendingIds
<1> QED BY <1>4, <1>5

\* An answer leaves no more requests of any action, and one less of its own if there was one.
LEMMA AnswerLeavesLess ==
    ASSUME NEW s \in Seq(Request), NEW action, NEW id, NEW a
    PROVE  LET t == Without(s, Answered(s, action, id))
           IN  /\ Cardinality(InFlight(t, a)) <= Cardinality(InFlight(s, a))
               /\ a = action /\ InFlight(s, a) # {} =>
                     Cardinality(InFlight(t, a)) + 1 <= Cardinality(InFlight(s, a))
<1> DEFINE i == Answered(s, action, id)
           t == Without(s, i)
           S == InFlight(s, a)
           T == InFlight(t, a)
           f == [k \in T |-> IF k < i THEN k ELSE k + 1]
<1>1. i \in InFlight(s, action) \cup {0} /\ t \in Seq(Request)
      BY AnsweredIsInFlight, ResolvedFacts
<1>2. /\ IsFiniteSet(S) /\ Cardinality(S) \in Nat /\ S = {k \in 1..Len(s) : s[k].action = a}
      /\ IsFiniteSet(T) /\ Cardinality(T) \in Nat /\ T = {k \in 1..Len(t) : t[k].action = a}
      /\ InFlight(s, action) = {k \in 1..Len(s) : s[k].action = action}
      BY <1>1, InFlightFinite
<1>3. CASE i = 0
  <2>1. t = s
        BY <1>3 DEF Without
  <2>2. a = action => S = {}
    <3> DEFINE exact == {k \in S : id # None /\ s[k].clordid = id}
    <3> SUFFICES ASSUME a = action, S # {} PROVE FALSE
        OBVIOUS
    <3>1. Len(s) \in Nat /\ S \in SUBSET (1..Len(s)) /\ exact \in SUBSET (1..Len(s))
          BY <1>2
    <3>2. i = IF exact # {} THEN Newest(exact) ELSE Newest(S)
          BY DEF Answered
    <3> HIDE DEF exact, S
    <3>3. Newest(S) \in S
          BY <3>1, NewestIsLast
    <3>4. exact # {} => Newest(exact) \in exact
          BY <3>1, NewestIsLast
    <3> QED BY <1>3, <3>1, <3>2, <3>3, <3>4
  <2> QED BY <1>2, <2>1, <2>2
<1>4. CASE i \in 1..Len(s)
  <2>1. /\ Len(t) = Len(s) - 1 /\ Len(s) \in Nat
        /\ \A k \in 1..(Len(s) - 1) : t[k] = IF k < i THEN s[k] ELSE s[k + 1]
        BY <1>4, WithoutFacts
  <2> HIDE DEF S, T, t, i
  <2>2. ASSUME NEW k \in T PROVE f[k] \in S \ {i}
    <3>1. k \in 1..(Len(s) - 1) /\ t[k].action = a
          BY <1>2, <2>1
    <3>2. CASE k < i
      <4>1. f[k] = k /\ k \in 1..Len(s) /\ t[k] = s[k] /\ k # i
            BY <1>4, <2>1, <3>1, <3>2
      <4> QED BY <1>2, <3>1, <4>1
    <3>3. CASE ~(k < i)
      <4>1. PICK p : p = k + 1
            OBVIOUS
      <4>2. f[k] = p /\ p \in 1..Len(s) /\ p # i
            BY <1>4, <2>1, <3>1, <3>3, <4>1
      <4>3. t[k] = s[p]
            BY <2>1, <3>1, <3>3, <4>1
      <4> QED BY <1>2, <3>1, <4>2, <4>3
    <3> QED BY <3>2, <3>3
  <2>3. \A k, l \in T : f[k] = f[l] => k = l
    <3> TAKE k, l \in T
    <3>1. k \in Nat /\ l \in Nat
          BY <1>2, <2>1
    <3>2. f[k] = (IF k < i THEN k ELSE k + 1) /\ f[l] = (IF l < i THEN l ELSE l + 1)
          OBVIOUS
    <3> QED BY <1>4, <2>1, <3>1, <3>2
  <2>4. f \in Injection(T, S \ {i})
    <3>1. f \in [T -> S \ {i}]
          BY <2>2
    <3> HIDE DEF f
    <3> QED BY <2>3, <3>1 DEF Injection, IsInjective
  <2>5. IsFiniteSet(S \ {i}) /\ Cardinality(S \ {i}) = IF i \in S THEN Cardinality(S) - 1 ELSE Cardinality(S)
        BY <1>2, FS_RemoveElement
  <2>6. Cardinality(T) <= Cardinality(S \ {i})
    <3> HIDE DEF f
    <3> QED BY <2>4, <2>5, FS_Injection
  <2>7. a = action => i \in S
        BY <1>1, <1>2, <1>4 DEF S
  <2> QED BY <1>2, <2>5, <2>6, <2>7 DEF S, T, t, i
<1> QED BY <1>1, <1>2, <1>3, <1>4

\* The requests asked of one action.
LEMMA AskedFinite ==
    ASSUME NEW asked, IsFiniteSet(asked), NEW a
    PROVE  IsFiniteSet(OfAction(asked, a)) /\ Cardinality(OfAction(asked, a)) \in Nat
<1>1. OfAction(asked, a) \in SUBSET asked
      BY DEF OfAction
<1> QED BY <1>1, FS_Subset, FS_CardinalityType

LEMMA NoMoreOpened ==
    ASSUME NEW s \in Seq(Request), NEW asked, IsFiniteSet(asked), NoMore(s, asked),
           NEW m \in Message, m \notin asked
    PROVE  NoMore(Append(s, Entry(m)), asked \cup {m})
<1> DEFINE e == Entry(m)
           t == Append(s, e)
           n == Len(s)
           more == asked \cup {m}
<1>1. e \in Request
      BY EntryParts
<1>2. /\ n \in Nat /\ t \in Seq(Request) /\ Len(t) = n + 1 /\ t[n + 1] = e
      /\ \A i \in 1..n : t[i] = s[i]
      BY <1>1
<1>3. IsFiniteSet(more)
      BY FS_AddElement
<1> HIDE DEF t, n, more
<1>4. ASSUME NEW a \in Actions
      PROVE  Cardinality(InFlight(t, a)) <= Cardinality(OfAction(more, a))
  <2> DEFINE S == InFlight(s, a)
             T == InFlight(t, a)
             P == OfAction(asked, a)
             Q == OfAction(more, a)
  <2>1. /\ IsFiniteSet(S) /\ Cardinality(S) \in Nat /\ S = {k \in 1..n : s[k].action = a}
        /\ T = {k \in 1..n + 1 : t[k].action = a}
        BY <1>2, InFlightFinite DEF n
  <2>2. IsFiniteSet(P) /\ Cardinality(P) \in Nat
        BY AskedFinite
  <2>3. Cardinality(S) <= Cardinality(P)
        BY DEF NoMore
  <2>4. m \notin P
        BY DEF OfAction
  <2>5. \A k \in 1..n + 1 : k \in 1..n \/ k = n + 1
        BY <1>2
  <2>6. n + 1 \notin 1..n /\ n + 1 \in 1..n + 1 /\ \A k \in 1..n : k \in 1..n + 1
        BY <1>2
  <2>7. CASE e.action = a
    <3>1. T = S \cup {n + 1}
          BY <1>2, <2>1, <2>5, <2>6, <2>7
    <3>2. Q = P \cup {m}
          BY <2>7 DEF OfAction, more, e
    <3>3. n + 1 \notin S
          BY <2>1, <2>6
    <3> HIDE DEF S, T, P, Q
    <3>4. Cardinality(T) = Cardinality(S) + 1
          BY <2>1, <3>1, <3>3, FS_AddElement
    <3>5. Cardinality(Q) = Cardinality(P) + 1
          BY <2>2, <2>4, <3>2, FS_AddElement
    <3>6. Cardinality(T) <= Cardinality(Q)
          BY <2>1, <2>2, <2>3, <3>4, <3>5
    <3> QED BY <3>6 DEF T, Q
  <2>8. CASE e.action # a
    <3>1. T = S
          BY <1>2, <2>1, <2>5, <2>6, <2>8
    <3>2. Q = P
          BY <2>8 DEF OfAction, more, e
    <3> QED BY <2>3, <3>1, <3>2
  <2> QED BY <2>7, <2>8
<1>5. NoMore(t, more)
      BY <1>4 DEF NoMore
<1> QED BY <1>5 DEF t, e, more

LEMMA NoMoreClosed ==
    ASSUME NEW s \in Seq(Request), NEW asked \in SUBSET Message, IsFiniteSet(asked), NoMore(s, asked),
           NEW r \in asked, NEW id
    PROVE  NoMore(Without(s, Answered(s, Entry(r).action, id)), asked \ {r})
<1> DEFINE b == Entry(r).action
           t == Without(s, Answered(s, b, id))
           less == asked \ {r}
<1>1. t \in Seq(Request)
      BY ResolvedFacts
<1>2. ASSUME NEW a \in Actions
      PROVE  Cardinality(InFlight(t, a)) <= Cardinality(OfAction(less, a))
  <2> DEFINE S == InFlight(s, a)
             T == InFlight(t, a)
             P == OfAction(asked, a)
             Q == OfAction(less, a)
  <2>1. /\ Cardinality(T) <= Cardinality(S)
        /\ a = b /\ S # {} => Cardinality(T) + 1 <= Cardinality(S)
        BY AnswerLeavesLess
  <2>2. /\ IsFiniteSet(S) /\ Cardinality(S) \in Nat
        /\ IsFiniteSet(T) /\ Cardinality(T) \in Nat
        BY <1>1, InFlightFinite
  <2>3. IsFiniteSet(P) /\ Cardinality(P) \in Nat
        BY AskedFinite
  <2>4. Cardinality(S) <= Cardinality(P)
        BY DEF NoMore
  <2>5. CASE a # b
    <3>1. Q = P
          BY <2>5 DEF OfAction
    <3> HIDE DEF S, T, P, Q
    <3>2. Cardinality(T) <= Cardinality(Q)
          BY <2>1, <2>2, <2>3, <2>4, <3>1
    <3> QED BY <3>2 DEF T, Q
  <2>6. CASE a = b
    <3>1. Q = P \ {r} /\ r \in P
          BY <2>6 DEF OfAction
    <3> HIDE DEF S, T, P, Q
    <3>2. Cardinality(Q) = Cardinality(P) - 1 /\ Cardinality(Q) \in Nat
          BY <2>3, <3>1, FS_RemoveElement, FS_CardinalityType
    <3>3. S = {} => Cardinality(S) = 0
          BY FS_EmptySet
    <3>4. Cardinality(T) <= Cardinality(Q)
          BY <2>1, <2>2, <2>3, <2>4, <2>6, <3>2, <3>3
    <3> QED BY <3>4 DEF T, Q
  <2> QED BY <2>5, <2>6
<1> HIDE DEF t, less
<1>3. NoMore(t, less)
      BY <1>2 DEF NoMore
<1> QED BY <1>3 DEF t, less

LEMMA NoMoreSettled ==
    ASSUME NEW s \in Seq(Request), NEW asked, IsFiniteSet(asked), NoMore(s, asked), NEW action, NEW id
    PROVE  NoMore(Without(s, Answered(s, action, id)), asked)
<1> DEFINE t == Without(s, Answered(s, action, id))
<1>1. t \in Seq(Request)
      BY ResolvedFacts
<1>2. ASSUME NEW a \in Actions
      PROVE  Cardinality(InFlight(t, a)) <= Cardinality(OfAction(asked, a))
  <2>1. Cardinality(InFlight(t, a)) <= Cardinality(InFlight(s, a))
        BY AnswerLeavesLess
  <2>2. Cardinality(InFlight(s, a)) \in Nat /\ Cardinality(InFlight(t, a)) \in Nat
        BY <1>1, InFlightFinite
  <2>3. Cardinality(OfAction(asked, a)) \in Nat
        BY AskedFinite
  <2>4. Cardinality(InFlight(s, a)) <= Cardinality(OfAction(asked, a))
        BY DEF NoMore
  <2> HIDE DEF t
  <2> QED BY <2>1, <2>2, <2>3, <2>4
<1> HIDE DEF t
<1>3. NoMore(t, asked)
      BY <1>2 DEF NoMore
<1> QED BY <1>3 DEF t

\* Where none is asked, none is in the list.
LEMMA NoMoreThanNone ==
    ASSUME NEW s \in Seq(Request), NoMore(s, {})
    PROVE  s = <<>>
<1>1. ASSUME NEW a \in Actions PROVE InFlight(s, a) = {}
  <2>1. IsFiniteSet(InFlight(s, a)) /\ Cardinality(InFlight(s, a)) \in Nat
        BY InFlightFinite
  <2>2. OfAction({}, a) = {}
        BY DEF OfAction
  <2>3. Cardinality({}) = 0
        BY FS_EmptySet
  <2>4. Cardinality(InFlight(s, a)) <= 0
        BY <2>2, <2>3 DEF NoMore
  <2>5. Cardinality(InFlight(s, a)) = 0
        BY <2>1, <2>4
  <2> QED BY <2>1, <2>5, FS_EmptySet
<1>2. CASE s # <<>>
  <2>1. 1 \in 1..Len(s) /\ s[1] \in Request
        BY <1>2
  <2>2. s[1].action \in Actions
        BY <2>1 DEF Request
  <2>3. 1 \in InFlight(s, s[1].action)
        BY <2>1, InFlightFinite
  <2> QED BY <1>1, <2>2, <2>3
<1> QED BY <1>2

-----------------------------------------------------------------------------
\* The executions

\* Two functions that agree on a set have one sum over it.
LEMMA SumAgrees ==
    ASSUME NEW g, NEW h, NEW S, IsFiniteSet(S), \A x \in S : g[x] = h[x]
    PROVE  Sum(g, S) = Sum(h, S)
<1> DEFINE bad == {r \in SUBSET S : Sum(g, r) # Sum(h, r)}
<1>1. CASE bad # {}
  <2>1. \A r \in bad : IsFiniteSet(r)
        BY FS_Subset
  <2> HIDE DEF bad
  <2>2. PICK r \in bad : \A q \in bad : Cardinality(r) <= Cardinality(q)
        BY <1>1, <2>1, SmallestSet
  <2> USE DEF bad
  <2>3. r \in SUBSET S /\ Sum(g, r) # Sum(h, r) /\ IsFiniteSet(r)
        BY <2>1, <2>2
  <2>4. r # {}
        BY <2>3, SumSteps
  <2> DEFINE x == First(r)
  <2>5. x \in r /\ Sum(g, r) = g[x] + Sum(g, r \ {x}) /\ Sum(h, r) = h[x] + Sum(h, r \ {x})
        BY <2>3, <2>4, SumSteps
  <2> HIDE DEF x
  <2>6. ~(Cardinality(r) <= Cardinality(r \ {x})) /\ r \ {x} \in SUBSET S
        BY <2>3, <2>5, OneLess
  <2>7. Sum(g, r \ {x}) = Sum(h, r \ {x})
        BY <2>2, <2>6
  <2>8. g[x] = h[x]
        BY <2>3, <2>5
  <2> QED BY <2>3, <2>5, <2>7, <2>8
<1>2. CASE bad = {}
  <2>1. S \in SUBSET S
        OBVIOUS
  <2> QED BY <1>2, <2>1
<1> QED BY <1>1, <1>2

Tables == [Optional(ExecIDs) -> Optional(ExecRow)]

\* A row of a table.
LEMMA RowParts ==
    ASSUME NEW table \in Tables, NEW e \in Optional(ExecIDs), table[e] # None
    PROVE  /\ table[e] \in ExecRow /\ table[e].fill \in BOOLEAN /\ table[e].shares \in Qtys
           /\ table[e].shares \in Nat
           /\ table[e].disposition \in {"NORMAL", "BUSTED", "CORRECTED", "DK"}
<1>1. table[e] \in ExecRow
      BY DEF Tables, Optional
<1>2. Qtys \subseteq Nat
      BY ChainAssumption DEF Qtys
<1> QED BY <1>1, <1>2 DEF ExecRow

\* What counts is finite, and adds up.
LEMMA CountingIsFinite ==
    ASSUME NEW table \in Tables
    PROVE  /\ Counting(table) \subseteq ExecIDs /\ IsFiniteSet(Counting(table))
           /\ \A e \in ExecIDs : SharesOf(table)[e] \in Nat
           /\ \A e \in Counting(table) : SharesOf(table)[e] = table[e].shares
<1>1. Counting(table) \subseteq ExecIDs
      BY DEF Counting
<1>2. IsFiniteSet(Counting(table))
      BY <1>1, SessionAssumption, FS_Subset
<1>3. \A e \in ExecIDs : SharesOf(table)[e] \in Nat
  <2> TAKE e \in ExecIDs
  <2>1. SharesOf(table)[e] = IF table[e] = None THEN 0 ELSE table[e].shares
        BY DEF SharesOf
  <2>2. e \in Optional(ExecIDs)
        BY DEF Optional
  <2> QED BY <2>1, <2>2, RowParts
<1>4. \A e \in Counting(table) : SharesOf(table)[e] = table[e].shares
      BY DEF Counting, SharesOf
<1> QED BY <1>1, <1>2, <1>3, <1>4

\* The same rows count, for the same shares.
LEMMA FilledStays ==
    ASSUME NEW table \in Tables, NEW t \in Tables, Counting(t) = Counting(table),
           \A e \in Counting(table) : t[e].shares = table[e].shares
    PROVE  Filled(t) = Filled(table)
<1> DEFINE S == Counting(table)
           g == SharesOf(table)
           h == SharesOf(t)
<1>1. IsFiniteSet(S) /\ \A e \in S : g[e] = table[e].shares
      BY CountingIsFinite
<1>2. \A e \in S : h[e] = t[e].shares
      BY CountingIsFinite
<1>3. \A e \in S : g[e] = h[e]
      BY <1>1, <1>2
<1> HIDE DEF S, g, h
<1>4. Sum(g, S) = Sum(h, S)
      BY <1>1, <1>3, SumAgrees
<1> QED BY <1>4 DEF Filled, S, g, h

\* One row less counts.
LEMMA FilledFalls ==
    ASSUME NEW table \in Tables, NEW t \in Tables, NEW x \in Counting(table),
           Counting(t) = Counting(table) \ {x},
           \A e \in Counting(t) : t[e].shares = table[e].shares
    PROVE  /\ Filled(table) = table[x].shares + Filled(t) /\ table[x].shares \in Nat
           /\ Filled(t) \in Int
<1> DEFINE S == Counting(table)
           R == Counting(t)
           g == SharesOf(table)
           h == SharesOf(t)
<1>1. /\ IsFiniteSet(S) /\ \A e \in S : g[e] = table[e].shares
      /\ S \subseteq ExecIDs /\ \A e \in ExecIDs : g[e] \in Nat
      BY CountingIsFinite
<1>2. /\ IsFiniteSet(R) /\ \A e \in R : h[e] = t[e].shares
      /\ R \subseteq ExecIDs /\ \A e \in ExecIDs : h[e] \in Nat
      BY CountingIsFinite
<1>3. R = S \ {x} /\ x \in S
      OBVIOUS
<1>4. \A e \in R : g[e] = h[e]
      BY <1>1, <1>2, <1>3
<1> HIDE DEF S, R, g, h
<1>5. Sum(g, R) = Sum(h, R)
      BY <1>2, <1>4, SumAgrees
<1>6. \A y \in S : g[y] \in Int
      BY <1>1
<1>7. Sum(g, S) = g[x] + Sum(g, S \ {x})
      BY <1>1, <1>3, <1>6, SumWithout
<1>8. Sum(h, R) \in Int
  <2>1. \A y \in ExecIDs : h[y] \in Int
        BY <1>2
  <2> QED BY <1>2, <2>1, SumInt
<1>9. g[x] = table[x].shares /\ g[x] \in Nat
      BY <1>1, <1>3
<1> QED BY <1>3, <1>5, <1>7, <1>8, <1>9 DEF Filled, S, R, g, h

\* One row of a table is written.
Rewritten(table, e, row) == [table EXCEPT ![e] = row]

LEMMA RewrittenParts ==
    ASSUME NEW table \in Tables, NEW e \in Optional(ExecIDs), NEW row \in Optional(ExecRow)
    PROVE  /\ Rewritten(table, e, row) \in Tables /\ Rewritten(table, e, row)[e] = row
           /\ \A f \in Optional(ExecIDs) : f # e => Rewritten(table, e, row)[f] = table[f]
BY DEF Rewritten, Tables

\* The row a report writes of itself.
LEMMA OwnRow ==
    ASSUME NEW m \in Message
    PROVE  /\ BuildExecRow(m) \in ExecRow /\ BuildExecRow(m) \in Optional(ExecRow)
           /\ BuildExecRow(m).disposition = "NORMAL" /\ BuildExecRow(m).shares = OrElse(m.shares, 0)
           /\ BuildExecRow(m).fill = (/\ m.trans \in {None, "NEW"}
                                      /\ m.execType \in {"PARTIALLY_FILLED", "FILLED"})
<1>1. OrElse(m.shares, 0) \in Qtys
      BY MessageParts, ChainAssumption DEF OrElse, Qtys, Optional
<1> QED BY <1>1 DEF BuildExecRow, ExecRow, Optional

\* A row that is marked keeps its kind, and its shares unless a correction gives others.
LEMMA MarkedRow ==
    ASSUME NEW row \in Optional(ExecRow), NEW shares \in Optional(Qtys),
           NEW d \in {"NORMAL", "BUSTED", "CORRECTED", "DK"}
    PROVE  /\ Reemitted(row, d, shares) \in ExecRow /\ Reemitted(row, d, shares) \in Optional(ExecRow)
           /\ Reemitted(row, d, shares).disposition = d
           /\ row # None => Reemitted(row, d, shares).fill = row.fill
           /\ row # None => Reemitted(row, d, shares).shares = OrElse(shares, row.shares)
<1> DEFINE stored == IF row = None THEN [fill |-> FALSE, shares |-> 0] ELSE row
<1>1. stored.fill \in BOOLEAN /\ stored.shares \in Qtys
  <2>1. 0 \in Qtys
        BY ChainAssumption DEF Qtys
  <2>2. CASE row = None
        BY <2>1, <2>2
  <2>3. CASE row \in ExecRow /\ row # None
        BY <2>3 DEF ExecRow
  <2> QED BY <2>2, <2>3 DEF Optional
<1>2. OrElse(shares, stored.shares) \in Qtys
      BY <1>1 DEF OrElse, Optional
<1>3. Reemitted(row, d, shares)
        = [fill |-> stored.fill, shares |-> OrElse(shares, stored.shares), disposition |-> d]
      BY DEF Reemitted
<1>4. row # None => stored = row
      OBVIOUS
<1> HIDE DEF stored
<1>5. Reemitted(row, d, shares) \in ExecRow
      BY <1>1, <1>2, <1>3 DEF ExecRow
<1> QED BY <1>3, <1>4, <1>5 DEF Optional

\* What a report writes.
LEMMA MarkedParts ==
    ASSUME NEW table, NEW m, m.execId # None
    PROVE  LET own == Rewritten(table, m.execId, BuildExecRow(m))
           IN  /\ ~IsBust(m) /\ ~IsCorrect(m) => Marked(table, m) = own
               /\ m.execRefId # None /\ IsBust(m) =>
                     Marked(table, m) = Rewritten(own, m.execRefId,
                                                  Reemitted(own[m.execRefId], "BUSTED", None))
               /\ m.execRefId # None /\ IsCorrect(m) =>
                     Marked(table, m) = Rewritten(own, m.execRefId,
                                                  Reemitted(own[m.execRefId], "CORRECTED", m.shares))
<1> DEFINE own == Rewritten(table, m.execId, BuildExecRow(m))
<1>1. own = [table EXCEPT ![m.execId] = BuildExecRow(m)]
      BY DEF Rewritten
<1>2. Marked(table, m) =
        IF m.execRefId # None /\ (IsBust(m) \/ IsCorrect(m))
        THEN [own EXCEPT ![m.execRefId] =
                IF IsBust(m) THEN Reemitted(own[m.execRefId], "BUSTED", None)
                ELSE Reemitted(own[m.execRefId], "CORRECTED", m.shares)]
        ELSE own
      BY <1>1 DEF Marked
<1> HIDE DEF own
<1>3. ~(IsBust(m) /\ IsCorrect(m))
      BY DEF IsBust, IsCorrect
<1>4. /\ ~IsBust(m) /\ ~IsCorrect(m) => Marked(table, m) = own
      /\ m.execRefId # None /\ IsBust(m) =>
            Marked(table, m) = Rewritten(own, m.execRefId, Reemitted(own[m.execRefId], "BUSTED", None))
      /\ m.execRefId # None /\ IsCorrect(m) =>
            Marked(table, m) = Rewritten(own, m.execRefId, Reemitted(own[m.execRefId], "CORRECTED", m.shares))
      BY <1>2, <1>3 DEF Rewritten
<1> QED BY <1>4 DEF own

\* A new row that counts adds its shares, one that does not adds nothing.
LEMMA OwnTallies ==
    ASSUME NEW table \in Tables, NEW e \in ExecIDs, table[e] = None, NEW row \in ExecRow,
           row.disposition = "NORMAL"
    PROVE  LET own == Rewritten(table, e, row)
           IN  /\ own \in Tables /\ own[e] = row
               /\ \A f \in Optional(ExecIDs) : f # e => own[f] = table[f]
               /\ e \notin Counting(table)
               /\ ~row.fill => Counting(own) = Counting(table) /\ Filled(own) = Filled(table)
               /\ row.fill => /\ Counting(own) = Counting(table) \cup {e}
                              /\ Filled(own) = row.shares + Filled(table)
<1> DEFINE own == Rewritten(table, e, row)
<1>1. e \in Optional(ExecIDs) /\ row \in Optional(ExecRow) /\ row # None
      BY NotNone DEF Optional
<1>2. /\ own \in Tables /\ own[e] = row
      /\ \A f \in Optional(ExecIDs) : f # e => own[f] = table[f]
      BY <1>1, RewrittenParts
<1>3. \A f \in ExecIDs : f # e => own[f] = table[f]
      BY <1>2 DEF Optional
<1>4. e \notin Counting(table)
      BY DEF Counting
<1> HIDE DEF own
<1>5. \A f \in ExecIDs : f # e => (f \in Counting(own) <=> f \in Counting(table))
      BY <1>3 DEF Counting
<1>6. e \in Counting(own) <=> row.fill
      BY <1>1, <1>2 DEF Counting
<1>7. Counting(own) \subseteq ExecIDs /\ Counting(table) \subseteq ExecIDs
      BY DEF Counting
<1>8. \A f \in Counting(table) : own[f].shares = table[f].shares
      BY <1>3, <1>4, <1>7
<1>9. ASSUME ~row.fill
      PROVE  Counting(own) = Counting(table) /\ Filled(own) = Filled(table)
  <2>1. Counting(own) = Counting(table)
        BY <1>4, <1>5, <1>6, <1>7, <1>9
  <2> QED BY <1>2, <1>8, <2>1, FilledStays
<1>10. ASSUME row.fill
       PROVE  Counting(own) = Counting(table) \cup {e} /\ Filled(own) = row.shares + Filled(table)
  <2>1. Counting(own) = Counting(table) \cup {e}
        BY <1>4, <1>5, <1>6, <1>7, <1>10
  <2>2. Counting(table) = Counting(own) \ {e} /\ e \in Counting(own)
        BY <1>4, <2>1
  <2>3. \A f \in Counting(table) : table[f].shares = own[f].shares
        BY <1>8
  <2>4. Filled(own) = own[e].shares + Filled(table)
        BY <1>2, <2>2, <2>3, FilledFalls
  <2> QED BY <1>2, <2>1, <2>4
<1> QED BY <1>2, <1>4, <1>9, <1>10 DEF own

\* A report that is no fill leaves the tally.
LEMMA PlainTallies ==
    ASSUME NEW table \in Tables, NEW seen, NEW cum, NEW last, Tallies(table, seen, cum, last),
           NEW m \in Message, m.execId \in ExecIDs, m.execId \notin seen,
           ~IsBust(m), ~IsCorrect(m), ~BuildExecRow(m).fill
    PROVE  Tallies(Marked(table, m), seen \cup {m.execId}, cum, last)
<1>1. PICK e, row : e = m.execId /\ row = BuildExecRow(m)
      OBVIOUS
<1>2. /\ row \in ExecRow /\ row.disposition = "NORMAL" /\ ~row.fill
      /\ e \in ExecIDs /\ e # None /\ table[e] = None
      BY <1>1, OwnRow, NotNone DEF Tallies
<1> DEFINE own == Rewritten(table, e, row)
<1>3. /\ own \in Tables /\ own[e] = row
      /\ \A f \in Optional(ExecIDs) : f # e => own[f] = table[f]
      /\ e \notin Counting(table)
      /\ Counting(own) = Counting(table) /\ Filled(own) = Filled(table)
      BY <1>2, OwnTallies
<1>4. Marked(table, m) = own
      BY <1>1, <1>2, MarkedParts
<1> HIDE DEF own
<1>5. \A f \in ExecIDs : f # e => own[f] = table[f]
      BY <1>3 DEF Optional
<1>6. \A f \in ExecIDs : own[f] # None => f \in seen \cup {e}
      BY <1>5 DEF Tallies
<1>7. ASSUME last # NoFill
      PROVE  /\ last.execId \in Counting(own) /\ last.shares = own[last.execId].shares
             /\ last.shares \in 1..cum
  <2>1. /\ last.execId \in Counting(table) /\ last.shares = table[last.execId].shares
        /\ last.shares \in 1..cum
        BY <1>7 DEF Tallies
  <2>2. last.execId \in ExecIDs /\ last.execId # e
        BY <1>3, <2>1 DEF Counting
  <2> QED BY <1>3, <1>5, <2>1, <2>2
<1>8. Filled(own) = cum
      BY <1>3 DEF Tallies
<1>9. Tallies(own, seen \cup {e}, cum, last)
      BY <1>6, <1>7, <1>8 DEF Tallies
<1> QED BY <1>1, <1>4, <1>9

\* A fill adds its shares, and is the last one.
LEMMA FillTallies ==
    ASSUME NEW table \in Tables, NEW seen, NEW cum \in Nat, NEW last, Tallies(table, seen, cum, last),
           NEW m \in Message, m.execId \in ExecIDs, m.execId \notin seen,
           ~IsBust(m), ~IsCorrect(m), BuildExecRow(m).fill, m.shares \in Nat \ {0}, m.shares # None
    PROVE  Tallies(Marked(table, m), seen \cup {m.execId}, cum + m.shares,
                   [execId |-> m.execId, shares |-> m.shares])
<1>1. PICK e, row, n : e = m.execId /\ row = BuildExecRow(m) /\ n = m.shares
      OBVIOUS
<1>2. /\ row \in ExecRow /\ row.disposition = "NORMAL" /\ row.fill /\ row.shares = n
      /\ e \in ExecIDs /\ e # None /\ table[e] = None /\ n \in Nat \ {0}
      BY <1>1, OwnRow, NotNone DEF Tallies, OrElse
<1> DEFINE own == Rewritten(table, e, row)
<1>3. /\ own \in Tables /\ own[e] = row
      /\ \A f \in Optional(ExecIDs) : f # e => own[f] = table[f]
      /\ Counting(own) = Counting(table) \cup {e} /\ Filled(own) = row.shares + Filled(table)
      BY <1>2, OwnTallies
<1>4. Marked(table, m) = own
      BY <1>1, <1>2, MarkedParts
<1> HIDE DEF own
<1>5. \A f \in ExecIDs : f # e => own[f] = table[f]
      BY <1>3 DEF Optional
<1>6. \A f \in ExecIDs : own[f] # None => f \in seen \cup {e}
      BY <1>5 DEF Tallies
<1>7. Filled(own) = cum + n
      BY <1>2, <1>3 DEF Tallies
<1>8. e \in Counting(own) /\ n = own[e].shares /\ n \in 1..cum + n
      BY <1>2, <1>3
<1>9. PICK now : now = [execId |-> e, shares |-> n]
      OBVIOUS
<1>10. now.execId = e /\ now.shares = n
       BY <1>9
<1>11. Tallies(own, seen \cup {e}, cum + n, now)
       BY <1>6, <1>7, <1>8, <1>10 DEF Tallies
<1> QED BY <1>1, <1>4, <1>9, <1>11

\* What a bust or a correction of the last fill leaves: the row of its own, which does not count,
\* and the row it names, marked.
LEMMA NamedTallies ==
    ASSUME NEW table \in Tables, NEW seen, NEW cum, NEW last, Tallies(table, seen, cum, last),
           last # NoFill, NEW m \in Message, m.execId \in ExecIDs, m.execId \notin seen,
           m.execRefId = last.execId, m.trans \notin {None, "NEW"},
           NEW d \in {"BUSTED", "CORRECTED"}, NEW shares \in Optional(Qtys),
           shares = None \/ shares = last.shares
    PROVE  \E own, t \in Tables :
              /\ own = Rewritten(table, m.execId, BuildExecRow(m))
              /\ t = Rewritten(own, m.execRefId, Reemitted(own[m.execRefId], d, shares))
              /\ last.execId \in Counting(own) /\ last.execId \in ExecIDs
              /\ Counting(own) = Counting(table) /\ Filled(own) = cum
              /\ own[last.execId].shares = last.shares
              /\ \A f \in ExecIDs : t[f] # None => f \in seen \cup {m.execId}
              /\ \A f \in ExecIDs : t[f].shares = own[f].shares
              /\ \A f \in ExecIDs : f # last.execId => t[f] = own[f]
              /\ t[last.execId].fill /\ t[last.execId] # None /\ t[last.execId].disposition = d
<1>1. PICK e, row, r : e = m.execId /\ row = BuildExecRow(m) /\ r = m.execRefId
      OBVIOUS
<1>2. /\ row \in ExecRow /\ row.disposition = "NORMAL" /\ ~row.fill
      /\ e \in ExecIDs /\ e # None /\ table[e] = None
      BY <1>1, OwnRow, NotNone DEF Tallies
<1>3. PICK own : own = Rewritten(table, e, row)
      OBVIOUS
<1>4. /\ Rewritten(table, e, row) \in Tables /\ Rewritten(table, e, row)[e] = row
      /\ \A f \in Optional(ExecIDs) : f # e => Rewritten(table, e, row)[f] = table[f]
      /\ e \notin Counting(table)
      /\ Counting(Rewritten(table, e, row)) = Counting(table)
      /\ Filled(Rewritten(table, e, row)) = Filled(table)
      BY <1>2, OwnTallies
<1>5. /\ own \in Tables /\ e \notin Counting(table)
      /\ \A f \in ExecIDs : f # e => own[f] = table[f]
      /\ Counting(own) = Counting(table) /\ Filled(own) = cum
      BY <1>3, <1>4 DEF Tallies, Optional
<1>6. /\ r = last.execId /\ r \in Counting(own) /\ r \in ExecIDs /\ r # e
      /\ last.shares = own[r].shares /\ own[r] # None /\ own[r].fill
  <2>1. /\ last.execId \in Counting(table) /\ last.shares = table[last.execId].shares
        BY DEF Tallies
  <2>2. last.execId \in ExecIDs
        BY <2>1 DEF Counting
  <2>3. r = last.execId /\ r # e
        BY <1>1, <1>5, <2>1
  <2>4. own[r] = table[r]
        BY <1>5, <2>2, <2>3
  <2>5. r \in Counting(own)
        BY <1>5, <2>1, <2>3
  <2> QED BY <2>1, <2>2, <2>3, <2>4, <2>5 DEF Counting
<1>7. r \in Optional(ExecIDs) /\ own[r] \in Optional(ExecRow)
      BY <1>5, <1>6 DEF Tables, Optional
<1>8. PICK marked : marked = Reemitted(own[r], d, shares)
      OBVIOUS
<1>9. /\ marked \in ExecRow /\ marked \in Optional(ExecRow) /\ marked.disposition = d
      /\ marked.fill = own[r].fill /\ marked.shares = OrElse(shares, own[r].shares)
  <2>1. PICK old : old = own[r]
        OBVIOUS
  <2>2. /\ Reemitted(old, d, shares) \in ExecRow /\ Reemitted(old, d, shares) \in Optional(ExecRow)
        /\ Reemitted(old, d, shares).disposition = d
        /\ old # None => Reemitted(old, d, shares).fill = old.fill
        /\ old # None => Reemitted(old, d, shares).shares = OrElse(shares, old.shares)
    <3>1. old \in Optional(ExecRow)
          BY <1>7, <2>1
    <3>2. d \in {"NORMAL", "BUSTED", "CORRECTED", "DK"}
          OBVIOUS
    <3> QED BY <3>1, <3>2, MarkedRow
  <2> QED BY <1>6, <1>8, <2>1, <2>2
<1>10. PICK t : t = Rewritten(own, r, marked)
       OBVIOUS
<1>11. /\ t \in Tables /\ t[r] = marked
       /\ \A f \in Optional(ExecIDs) : f # r => t[f] = own[f]
  <2>1. /\ Rewritten(own, r, marked) \in Tables /\ Rewritten(own, r, marked)[r] = marked
        /\ \A f \in Optional(ExecIDs) : f # r => Rewritten(own, r, marked)[f] = own[f]
        BY <1>5, <1>7, <1>9, RewrittenParts
  <2> QED BY <1>10, <2>1
<1>12. \A f \in ExecIDs : f # r => t[f] = own[f]
       BY <1>11 DEF Optional
<1>13. marked.shares = own[r].shares
       BY <1>6, <1>9 DEF OrElse
<1>14. \A f \in ExecIDs : t[f].shares = own[f].shares
       BY <1>11, <1>12, <1>13
<1>15. \A f \in ExecIDs : t[f] # None => f \in seen \cup {e}
  <2> TAKE f \in ExecIDs
  <2>1. CASE f = e
        BY <2>1
  <2>2. CASE f # e /\ f # r
        BY <1>5, <1>12, <2>2 DEF Tallies
  <2>3. CASE f = r
    <3>1. table[r] = own[r]
          BY <1>5, <1>6
    <3> QED BY <1>6, <2>3, <3>1 DEF Tallies
  <2> QED BY <2>1, <2>2, <2>3
<1>16. marked # None
       BY <1>9, NotNone
<1>17. /\ own = Rewritten(table, m.execId, BuildExecRow(m))
       /\ t = Rewritten(own, m.execRefId, Reemitted(own[m.execRefId], d, shares))
       BY <1>1, <1>3, <1>8, <1>10
<1>18. /\ t[last.execId].fill /\ t[last.execId] # None /\ t[last.execId].disposition = d
       BY <1>6, <1>9, <1>11, <1>16
<1> QED BY <1>1, <1>5, <1>6, <1>11, <1>12, <1>14, <1>15, <1>17, <1>18

\* A bust takes the shares of the last fill out again.
LEMMA BustTallies ==
    ASSUME NEW table \in Tables, NEW seen, NEW cum \in Nat, NEW last, Tallies(table, seen, cum, last),
           last # NoFill, NEW m \in Message, m.execId \in ExecIDs, m.execId \notin seen,
           m.execRefId = last.execId, IsBust(m)
    PROVE  Tallies(Marked(table, m), seen \cup {m.execId}, cum - last.shares, NoFill)
<1>1. m.trans \notin {None, "NEW"}
      BY NotNone DEF IsBust
<1>2. None \in Optional(Qtys)
      BY DEF Optional
<1>3. PICK own \in Tables, t \in Tables :
              /\ own = Rewritten(table, m.execId, BuildExecRow(m))
              /\ t = Rewritten(own, m.execRefId, Reemitted(own[m.execRefId], "BUSTED", None))
              /\ last.execId \in Counting(own) /\ last.execId \in ExecIDs
              /\ Counting(own) = Counting(table) /\ Filled(own) = cum
              /\ own[last.execId].shares = last.shares
              /\ \A f \in ExecIDs : t[f] # None => f \in seen \cup {m.execId}
              /\ \A f \in ExecIDs : t[f].shares = own[f].shares
              /\ \A f \in ExecIDs : f # last.execId => t[f] = own[f]
              /\ t[last.execId].fill /\ t[last.execId] # None /\ t[last.execId].disposition = "BUSTED"
      BY <1>1, <1>2, NamedTallies
<1>4. PICK r : r = last.execId
      OBVIOUS
<1>5. m.execId # None /\ r # None /\ m.execRefId # None
      BY <1>3, <1>4, NotNone
<1>6. Marked(table, m) = t
      BY <1>3, <1>5, MarkedParts
<1>7. Counting(t) = Counting(own) \ {r}
  <2>1. r \notin Counting(t)
        BY <1>3, <1>4 DEF Counting
  <2>2. \A f \in ExecIDs : f # r => (f \in Counting(t) <=> f \in Counting(own))
        BY <1>3, <1>4 DEF Counting
  <2>3. Counting(t) \subseteq ExecIDs /\ Counting(own) \subseteq ExecIDs
        BY DEF Counting
  <2> QED BY <2>1, <2>2, <2>3
<1>8. r \in Counting(own) /\ \A f \in Counting(t) : t[f].shares = own[f].shares
      BY <1>3, <1>4, <1>7 DEF Counting
<1>9. Filled(own) = own[r].shares + Filled(t) /\ own[r].shares \in Nat /\ Filled(t) \in Int
      BY <1>3, <1>7, <1>8, FilledFalls
<1>10. Filled(t) = cum - last.shares
       BY <1>3, <1>4, <1>9
<1>11. Tallies(t, seen \cup {m.execId}, cum - last.shares, NoFill)
       BY <1>3, <1>10 DEF Tallies
<1> QED BY <1>6, <1>11

\* A correction that restates the shares of the last fill leaves the tally.
LEMMA CorrectTallies ==
    ASSUME NEW table \in Tables, NEW seen, NEW cum, NEW last, Tallies(table, seen, cum, last),
           last # NoFill, NEW m \in Message, m.execId \in ExecIDs, m.execId \notin seen,
           m.execRefId = last.execId, IsCorrect(m), m.shares = last.shares
    PROVE  Tallies(Marked(table, m), seen \cup {m.execId}, cum, last)
<1>1. m.trans \notin {None, "NEW"}
      BY NotNone DEF IsCorrect
<1>2. m.shares \in Optional(Qtys)
      BY MessageParts
<1>3. PICK own \in Tables, t \in Tables :
              /\ own = Rewritten(table, m.execId, BuildExecRow(m))
              /\ t = Rewritten(own, m.execRefId, Reemitted(own[m.execRefId], "CORRECTED", m.shares))
              /\ last.execId \in Counting(own) /\ last.execId \in ExecIDs
              /\ Counting(own) = Counting(table) /\ Filled(own) = cum
              /\ own[last.execId].shares = last.shares
              /\ \A f \in ExecIDs : t[f] # None => f \in seen \cup {m.execId}
              /\ \A f \in ExecIDs : t[f].shares = own[f].shares
              /\ \A f \in ExecIDs : f # last.execId => t[f] = own[f]
              /\ t[last.execId].fill /\ t[last.execId] # None /\ t[last.execId].disposition = "CORRECTED"
      BY <1>1, <1>2, NamedTallies
<1>4. PICK r : r = last.execId
      OBVIOUS
<1>5. m.execId # None /\ r # None /\ m.execRefId # None
      BY <1>3, <1>4, NotNone
<1>6. Marked(table, m) = t
      BY <1>3, <1>5, MarkedParts
<1>7. Counting(t) = Counting(own)
  <2>1. r \in Counting(t) /\ r \in Counting(own)
        BY <1>3, <1>4 DEF Counting
  <2>2. \A f \in ExecIDs : f # r => (f \in Counting(t) <=> f \in Counting(own))
        BY <1>3, <1>4 DEF Counting
  <2>3. Counting(t) \subseteq ExecIDs /\ Counting(own) \subseteq ExecIDs
        BY DEF Counting
  <2> QED BY <2>1, <2>2, <2>3
<1>8. \A f \in Counting(own) : t[f].shares = own[f].shares
      BY <1>3 DEF Counting
<1>9. Filled(t) = cum
      BY <1>3, <1>7, <1>8, FilledStays
<1>10. last.shares \in 1..cum
       BY DEF Tallies
<1>11. Tallies(t, seen \cup {m.execId}, cum, last)
       BY <1>3, <1>7, <1>9, <1>10 DEF Tallies
<1> QED BY <1>6, <1>11

\* So does a mark that the client does not know the last fill.
LEMMA DontKnowTallies ==
    ASSUME NEW table \in Tables, NEW seen, NEW cum, NEW last, Tallies(table, seen, cum, last),
           last # NoFill, NEW e, e = last.execId
    PROVE  Tallies([table EXCEPT ![e] = Reemitted(@, "DK", None)], seen, cum, last)
<1>1. /\ e \in Counting(table) /\ last.shares = table[e].shares /\ last.shares \in 1..cum
      /\ e \in ExecIDs /\ e \in Optional(ExecIDs) /\ table[e] # None /\ table[e].fill
      BY DEF Tallies, Counting, Optional
<1>2. PICK old, marked : old = table[e] /\ marked = Reemitted(old, "DK", None)
      OBVIOUS
<1>3. None \in Optional(Qtys) /\ old \in Optional(ExecRow) /\ old # None
      BY <1>1, <1>2 DEF Optional, Tables
<1>4. /\ Reemitted(old, "DK", None) \in ExecRow /\ Reemitted(old, "DK", None) \in Optional(ExecRow)
      /\ Reemitted(old, "DK", None).disposition = "DK"
      /\ old # None => Reemitted(old, "DK", None).fill = old.fill
      /\ old # None => Reemitted(old, "DK", None).shares = OrElse(None, old.shares)
      BY <1>3, MarkedRow
<1>5. /\ marked \in Optional(ExecRow) /\ marked # None /\ marked.disposition = "DK"
      /\ marked.fill /\ marked.shares = table[e].shares
      BY <1>1, <1>2, <1>3, <1>4, NotNone DEF OrElse
<1>6. PICK t : t = Rewritten(table, e, marked)
      OBVIOUS
<1>7. /\ t \in Tables /\ t[e] = marked /\ \A f \in Optional(ExecIDs) : f # e => t[f] = table[f]
  <2>1. /\ Rewritten(table, e, marked) \in Tables /\ Rewritten(table, e, marked)[e] = marked
        /\ \A f \in Optional(ExecIDs) : f # e => Rewritten(table, e, marked)[f] = table[f]
        BY <1>1, <1>5, RewrittenParts
  <2> QED BY <1>6, <2>1
<1>8. \A f \in ExecIDs : f # e => t[f] = table[f]
      BY <1>7 DEF Optional
<1>9. \A f \in ExecIDs : t[f].shares = table[f].shares
      BY <1>5, <1>7, <1>8
<1>10. Counting(t) = Counting(table)
  <2>1. e \in Counting(t)
        BY <1>1, <1>5, <1>7 DEF Counting
  <2>2. \A f \in ExecIDs : f # e => (f \in Counting(t) <=> f \in Counting(table))
        BY <1>8 DEF Counting
  <2>3. Counting(t) \subseteq ExecIDs /\ Counting(table) \subseteq ExecIDs
        BY DEF Counting
  <2> QED BY <1>1, <2>1, <2>2, <2>3
<1>11. \A f \in Counting(table) : t[f].shares = table[f].shares
       BY <1>9 DEF Counting
<1>12. Filled(t) = Filled(table)
       BY <1>7, <1>10, <1>11, FilledStays
<1>13. Filled(t) = cum
       BY <1>12 DEF Tallies
<1>14. \A f \in ExecIDs : t[f] # None => f \in seen
       BY <1>1, <1>8 DEF Tallies
<1>15. t[last.execId].shares = last.shares /\ last.execId \in Counting(t)
       BY <1>1, <1>9, <1>10
<1>16. Tallies(t, seen, cum, last)
       BY <1>1, <1>13, <1>14, <1>15 DEF Tallies
<1>17. t = [table EXCEPT ![e] = Reemitted(@, "DK", None)]
       BY <1>2, <1>6 DEF Rewritten
<1> QED BY <1>16, <1>17

\* The tables a report and a mark leave.
LEMMA RowsStayTyped ==
    ASSUME NEW table \in Tables, NEW m \in Message
    PROVE  /\ m.execId # None => Marked(table, m) \in Tables
           /\ [table EXCEPT ![m.execId] = Reemitted(@, "DK", None)] \in Tables
<1>1. PICK e, r, row : e = m.execId /\ r = m.execRefId /\ row = BuildExecRow(m)
      OBVIOUS
<1>2. /\ e \in Optional(ExecIDs) /\ r \in Optional(ExecIDs) /\ m.shares \in Optional(Qtys)
      /\ row \in Optional(ExecRow) /\ None \in Optional(Qtys)
      BY <1>1, MessageParts, OwnRow DEF Optional
<1>3. PICK own : own = Rewritten(table, e, row)
      OBVIOUS
<1>4. Rewritten(table, e, row) \in Tables
      BY <1>2, RewrittenParts
<1>5. own \in Tables /\ own[r] \in Optional(ExecRow) /\ table[e] \in Optional(ExecRow)
      BY <1>2, <1>3, <1>4 DEF Tables
<1>6. PICK old, was : old = own[r] /\ was = table[e]
      OBVIOUS
<1>7. /\ Reemitted(old, "BUSTED", None) \in Optional(ExecRow)
      /\ Reemitted(old, "CORRECTED", m.shares) \in Optional(ExecRow)
      /\ Reemitted(was, "DK", None) \in Optional(ExecRow)
  <2>1. old \in Optional(ExecRow) /\ was \in Optional(ExecRow)
        BY <1>5, <1>6
  <2>2. Reemitted(old, "BUSTED", None) \in Optional(ExecRow)
        BY <1>2, <2>1, MarkedRow
  <2>3. Reemitted(old, "CORRECTED", m.shares) \in Optional(ExecRow)
        BY <1>2, <2>1, MarkedRow
  <2>4. Reemitted(was, "DK", None) \in Optional(ExecRow)
        BY <1>2, <2>1, MarkedRow
  <2> QED BY <2>2, <2>3, <2>4
<1>8. PICK x, y, z : /\ x = Reemitted(old, "BUSTED", None) /\ y = Reemitted(old, "CORRECTED", m.shares)
                     /\ z = Reemitted(was, "DK", None)
      OBVIOUS
<1>9. Rewritten(own, r, x) \in Tables /\ Rewritten(own, r, y) \in Tables /\ Rewritten(table, e, z) \in Tables
      BY <1>2, <1>5, <1>7, <1>8, RewrittenParts
<1>10. [table EXCEPT ![m.execId] = Reemitted(@, "DK", None)] = Rewritten(table, e, z)
       BY <1>1, <1>6, <1>8 DEF Rewritten
<1>11. m.execId # None => Marked(table, m) \in {own, Rewritten(own, r, x), Rewritten(own, r, y)}
  <2>1. own = [table EXCEPT ![m.execId] = BuildExecRow(m)]
        BY <1>1, <1>3 DEF Rewritten
  <2>2. m.execId # None =>
          Marked(table, m) =
            IF m.execRefId # None /\ (IsBust(m) \/ IsCorrect(m))
            THEN [own EXCEPT ![m.execRefId] =
                    IF IsBust(m) THEN Reemitted(own[m.execRefId], "BUSTED", None)
                    ELSE Reemitted(own[m.execRefId], "CORRECTED", m.shares)]
            ELSE own
        BY <2>1 DEF Marked
  <2> QED BY <1>1, <1>6, <1>8, <2>2 DEF Rewritten
<1> QED BY <1>5, <1>9, <1>10, <1>11

-----------------------------------------------------------------------------
\* One more message is said

\* A list without a request, or without none.
LEMMA LeftOver ==
    ASSUME NEW s \in Seq(Request), NEW m
    PROVE  LET v == [pending |-> s]
               t == Without(s, Taken(v, m))
           IN  t \in Seq(Request) /\ \A k \in 1..Len(t) : \E j \in 1..Len(s) : t[k] = s[j]
<1> DEFINE v == [pending |-> s]
           t == Without(s, Taken(v, m))
<1>1. v.pending = s
      OBVIOUS
<1>2. CASE Settles(m) = None
  <2>1. t = s
        BY <1>1, <1>2, TakesNothing
  <2> QED BY <2>1
<1>3. CASE Settles(m) # None
  <2>1. PICK a, id : a = Settles(m) /\ id = m.clordid
        OBVIOUS
  <2>2. t = Without(s, Answered(s, a, id))
        BY <1>1, <1>3, <2>1 DEF Taken
  <2>3. /\ Without(s, Answered(s, a, id)) \in Seq(Request)
        /\ \A k \in 1..Len(Without(s, Answered(s, a, id))) :
              \E j \in 1..Len(s) : Without(s, Answered(s, a, id))[k] = s[j]
        BY ResolvedFacts
  <2> QED BY <2>2, <2>3
<1> QED BY <1>2, <1>3

\* A message that fits leaves a view a conversation leaves.
LEMMA SteadyAfter ==
    ASSUME NEW v, NEW m, Steady(v), Fits(v, m), m.type = "G" => m.qty \in 1..MaxQty
    PROVE  Steady(After(v, m))
<1>1. /\ v.pending \in Seq(Request) /\ v.rows \in Tables /\ m \in Message
      /\ \A i \in 1..Len(v.pending) : v.pending[i].action = "REPLACE" => v.pending[i].qty \in 1..MaxQty
      BY DEF Steady, Fits, Tables
<1>2. RowsAfter(v, m) \in Tables
  <2>1. m.type = "8" => m.execId # None
        BY DEF Fits
  <2> QED BY <1>1, <2>1, RowsStayTyped DEF RowsAfter
<1>3. QtyAfter(v, m) \in 1..MaxQty
  <2>1. CASE m.type = "D"
        BY <2>1 DEF QtyAfter, Fits
  <2>2. CASE m.type # "D" /\ ~(Confirms(m) /\ Taken(v, m) # 0)
        BY <2>2 DEF QtyAfter, Fits, Steady
  <2>3. CASE m.type # "D" /\ Confirms(m) /\ Taken(v, m) # 0
    <3>1. Settles(m) = "REPLACE" /\ "REPLACE" # None
          BY <2>3, NotNone DEF Confirms, Settles, Actions
    <3>2. PICK s, id, i : s = v.pending /\ id = m.clordid /\ i = Answered(s, "REPLACE", id)
          OBVIOUS
    <3>3. Taken(v, m) = i /\ i # 0 /\ s \in Seq(Request)
          BY <1>1, <2>3, <3>1, <3>2 DEF Taken
    <3>4. i \in InFlight(s, "REPLACE") \cup {0} /\ InFlight(s, "REPLACE") \subseteq 1..Len(s)
          BY <3>2, <3>3, AnsweredIsInFlight
    <3>5. i \in 1..Len(s) /\ s[i].action = "REPLACE"
          BY <3>3, <3>4 DEF InFlight
    <3>6. s[i].qty \in 1..MaxQty
          BY <1>1, <3>2, <3>5
    <3>7. QtyAfter(v, m) = s[i].qty
          BY <2>3, <3>2, <3>3 DEF QtyAfter
    <3> QED BY <3>6, <3>7
  <2> QED BY <2>1, <2>2, <2>3
<1>4. /\ PendingAfter(v, m) \in Seq(Request)
      /\ \A i \in 1..Len(PendingAfter(v, m)) :
            PendingAfter(v, m)[i].action = "REPLACE" => PendingAfter(v, m)[i].qty \in 1..MaxQty
  <2>1. PICK s : s = v.pending
        OBVIOUS
  <2>2. CASE m.type \in {"G", "F"}
    <3>1. PICK e : e = Entry(m)
          OBVIOUS
    <3>2. e \in Request /\ (e.action = "REPLACE" => e.qty \in 1..MaxQty)
          BY <1>1, <3>1, EntryParts
    <3>3. PendingAfter(v, m) = Append(s, e) /\ s \in Seq(Request)
          BY <1>1, <2>1, <2>2, <3>1 DEF PendingAfter
    <3>4. /\ Append(s, e) \in Seq(Request) /\ Len(Append(s, e)) = Len(s) + 1
          /\ \A i \in 1..Len(s) : Append(s, e)[i] = s[i]
          /\ Append(s, e)[Len(s) + 1] = e
          BY <3>2, <3>3
    <3>5. \A i \in 1..Len(s) + 1 : i \in 1..Len(s) \/ i = Len(s) + 1
          BY <3>3
    <3> QED BY <1>1, <2>1, <3>2, <3>3, <3>4, <3>5
  <2>3. CASE m.type \notin {"G", "F"}
    <3>1. PICK w, t : w = [pending |-> s] /\ t = Without(s, Taken(w, m))
          OBVIOUS
    <3>2. PendingAfter(v, m) = t
          BY <2>1, <2>3, <3>1 DEF PendingAfter, Taken
    <3>3. t \in Seq(Request) /\ \A k \in 1..Len(t) : \E j \in 1..Len(s) : t[k] = s[j]
          BY <1>1, <2>1, <3>1, LeftOver
    <3>4. \A k \in 1..Len(t) : t[k].action = "REPLACE" => t[k].qty \in 1..MaxQty
          BY <1>1, <2>1, <3>3
    <3> QED BY <3>2, <3>3, <3>4
  <2> QED BY <2>2, <2>3
<1>5. PICK w : w = After(v, m)
      OBVIOUS
<1>6. w.pending = PendingAfter(v, m) /\ w.rows = RowsAfter(v, m) /\ w.qty = QtyAfter(v, m)
      BY <1>5, AfterParts
<1>7. Steady(w)
      BY <1>2, <1>3, <1>4, <1>6 DEF Steady, Tables
<1> QED BY <1>5, <1>7

\* The requests go on to be followed.
Answering(m) == \E r \in unanswered : /\ unanswered' = unanswered \ {r}
                                      /\ m.clordid = r.clordid /\ Settles(m) = Entry(r).action
LEMMA RequestsGoOn ==
    ASSUME Asked, NEW v, NEW m \in Message, Steady(v), RequestsFollow(v),
           \/ Opens(m) /\ unasked' = unasked
           \/ m.type \notin {"G", "F"} /\ Answering(m) /\ unasked' = unasked
           \/ /\ m.type \notin {"G", "F"} /\ Settles(m) = None
              /\ unanswered' = unanswered /\ unasked' = unasked
           \/ m.type \notin {"G", "F"} /\ unanswered' = unanswered /\ unasked'
    PROVE  RequestsFollow(After(v, m))'
<1>1. PICK s, t, w : s = v.pending /\ w = After(v, m) /\ t = w.pending
      OBVIOUS
<1>2. s \in Seq(Request) /\ t = PendingAfter(v, m) /\ NoMore(s, unanswered) /\ (~unasked => Holds(s, unanswered))
      BY <1>1, AfterParts DEF Steady, RequestsFollow
<1>3. /\ unanswered \in SUBSET Message /\ IsFiniteSet(unanswered)
      /\ \A r \in unanswered : r.clordid \in 2..sent
      /\ \A q, r \in unanswered : q.clordid = r.clordid => q = r
      BY DEF Asked
<1>4. PICK asked : asked = unanswered
      OBVIOUS
<1>5. NoMore(t, unanswered') /\ (~unasked' => Holds(t, unanswered'))
  <2>1. CASE Opens(m) /\ unasked' = unasked
    <3>1. t = Append(s, Entry(m)) /\ unanswered' = asked \cup {m}
          BY <1>1, <1>2, <1>4, <2>1 DEF Opens, PendingAfter
    <3>2. \A r \in asked : r.clordid # m.clordid
      <4>1. \A x \in 2..sent : x # sent + 1
        <5>1. \A x \in 2..sent : sent \in Int /\ x <= sent
              BY DEF Asked
        <5> QED BY <5>1
      <4> QED BY <1>3, <1>4, <2>1, <4>1 DEF Opens
    <3>3. m \notin asked
          BY <3>2
    <3>4. NoMore(Append(s, Entry(m)), asked \cup {m})
          BY <1>2, <1>3, <1>4, <3>3, NoMoreOpened
    <3>5. ~unasked' => Holds(Append(s, Entry(m)), asked \cup {m})
          BY <1>2, <1>3, <1>4, <2>1, <3>2, HoldsOpened
    <3> QED BY <3>1, <3>4, <3>5
  <2>2. CASE m.type \notin {"G", "F"} /\ Answering(m) /\ unasked' = unasked
    <3>1. PICK r \in asked : /\ unanswered' = asked \ {r}
                             /\ m.clordid = r.clordid /\ Settles(m) = Entry(r).action
          BY <1>4, <2>2 DEF Answering
    <3>2. r \in Message /\ r.clordid \in 2..sent
          BY <1>3, <1>4
    <3>3. Entry(r).action # None
          BY <3>2, EntryParts, NotNone
    <3>4. PICK id : id = r.clordid
          OBVIOUS
    <3>5. t = Without(s, Answered(s, Entry(r).action, id))
          BY <1>1, <1>2, <2>2, <3>1, <3>3, <3>4 DEF PendingAfter, Taken
    <3>6. NoMore(Without(s, Answered(s, Entry(r).action, id)), asked \ {r})
          BY <1>2, <1>3, <1>4, NoMoreClosed
    <3>7. ~unasked' => Holds(Without(s, Answered(s, Entry(r).action, id)), asked \ {r})
      <4> SUFFICES ASSUME ~unasked' PROVE Holds(Without(s, Answered(s, Entry(r).action, id)), asked \ {r})
          OBVIOUS
      <4>1. Holds(s, asked) /\ asked \in SUBSET Message
            BY <1>2, <1>3, <1>4, <2>2
      <4>2. r.clordid # None
            BY <3>1, <3>2, NotNone, SessionAssumption DEF Asked
      <4>3. \A q \in asked : q.clordid = r.clordid => q = r
            BY <1>3, <1>4
      <4>4. Holds(Without(s, Answered(s, Entry(r).action, r.clordid)), asked \ {r})
            BY <1>2, <4>1, <4>2, <4>3, HoldsClosed
      <4> QED BY <3>4, <4>4
    <3> QED BY <3>1, <3>5, <3>6, <3>7
  <2>3. CASE /\ m.type \notin {"G", "F"} /\ Settles(m) = None
             /\ unanswered' = unanswered /\ unasked' = unasked
    <3>1. t = s
          BY <1>1, <1>2, <2>3, TakesNothing DEF PendingAfter
    <3> QED BY <1>2, <2>3, <3>1
  <2>4. CASE m.type \notin {"G", "F"} /\ unanswered' = unanswered /\ unasked'
    <3>1. CASE Settles(m) = None
      <4>1. t = s
            BY <1>1, <1>2, <2>4, <3>1, TakesNothing DEF PendingAfter
      <4> QED BY <1>2, <2>4, <4>1
    <3>2. CASE Settles(m) # None
      <4>1. PICK a, id : a = Settles(m) /\ id = m.clordid
            OBVIOUS
      <4>2. t = Without(s, Answered(s, a, id))
            BY <1>1, <1>2, <2>4, <3>2, <4>1 DEF PendingAfter, Taken
      <4>3. NoMore(Without(s, Answered(s, a, id)), asked)
            BY <1>2, <1>3, <1>4, NoMoreSettled
      <4> QED BY <1>4, <2>4, <4>2, <4>3
    <3> QED BY <3>1, <3>2
  <2> QED BY <2>1, <2>2, <2>3, <2>4
<1>6. RequestsFollow(w)'
      BY <1>1, <1>5 DEF RequestsFollow
<1> QED BY <1>1, <1>6

\* The numbers of the conversation after one more message.
Going(m) ==
    /\ phase' # "none" /\ sent' \in 1..MaxRequests + 1 /\ sent' >= sent /\ vClordid' \in 1..sent'
    /\ vCum' \in 0..vQty' /\ vQty' \in Qtys
    /\ m.clordid \in {None} \cup 1..sent'
    /\ unanswered' \in SUBSET unanswered \/ (Opens(m) /\ sent >= 1 /\ (m.type = "G" => m.qty \in 1..MaxQty))

LEMMA AskedGoesOn ==
    ASSUME SessionTypes, Asked, NEW m \in Message, wire' = Append(wire, m), Going(m)
    PROVE  Asked'
<1>1. /\ IsFiniteSet(unanswered) /\ unanswered \subseteq Message
      /\ \A r \in unanswered : r.type \in {"G", "F"} /\ r.clordid \in 2..sent
                               /\ (r.type = "G" => r.qty \in 1..MaxQty)
      /\ \A q, r \in unanswered : q.clordid = r.clordid => q = r
      BY DEF Asked
<1>2. sent \in Nat /\ sent' \in Nat /\ sent' >= sent /\ MaxRequests \in Nat
      BY SessionAssumption DEF SessionTypes, Going
<1>3. \A x \in 2..sent : x \in 2..sent' /\ x # sent + 1
      BY <1>2
<1>4. /\ IsFiniteSet(unanswered') /\ unanswered' \subseteq Message
      /\ \A r \in unanswered' : r.type \in {"G", "F"} /\ r.clordid \in 2..sent'
                                /\ (r.type = "G" => r.qty \in 1..MaxQty)
      /\ \A q, r \in unanswered' : q.clordid = r.clordid => q = r
  <2>1. CASE unanswered' \in SUBSET unanswered
    <3>1. IsFiniteSet(unanswered')
          BY <1>1, <2>1, FS_Subset
    <3> QED BY <1>1, <1>3, <2>1, <3>1
  <2>2. CASE Opens(m) /\ sent >= 1 /\ (m.type = "G" => m.qty \in 1..MaxQty)
    <3>1. unanswered' = unanswered \cup {m} /\ m.clordid = sent + 1 /\ sent' = sent + 1
          BY <2>2 DEF Opens
    <3>2. IsFiniteSet(unanswered')
          BY <1>1, <3>1, FS_AddElement
    <3>3. m.type \in {"G", "F"} /\ m.clordid \in 2..sent'
          BY <1>2, <2>2, <3>1 DEF Opens
    <3>4. \A r \in unanswered' : r.type \in {"G", "F"} /\ r.clordid \in 2..sent'
                                /\ (r.type = "G" => r.qty \in 1..MaxQty)
          BY <1>1, <1>3, <2>2, <3>1, <3>3
    <3>5. \A r \in unanswered : r.clordid # m.clordid
          BY <1>1, <1>3, <3>1
    <3>6. \A q, r \in unanswered' : q.clordid = r.clordid => q = r
          BY <1>1, <3>1, <3>5
    <3> QED BY <1>1, <3>1, <3>2, <3>4, <3>6
  <2> QED BY <2>1, <2>2 DEF Going
<1>5. \A j \in 1..Len(wire') : wire'[j].clordid \in {None} \cup 1..sent'
  <2>1. wire \in Seq(Message)
        BY DEF SessionTypes
  <2>2. Len(wire') = Len(wire) + 1 /\ Len(wire) \in Nat /\ wire'[Len(wire) + 1] = m
        BY <2>1
  <2>3. \A j \in 1..Len(wire) : wire'[j] = wire[j]
        BY <2>1
  <2>4. \A x \in 1..sent : x \in 1..sent'
        BY <1>2
  <2> TAKE j \in 1..Len(wire')
  <2>5. CASE j = Len(wire) + 1
        BY <2>2, <2>5 DEF Going
  <2>6. CASE j # Len(wire) + 1
    <3>1. j \in 1..Len(wire)
          BY <2>2, <2>6
    <3>2. wire'[j].clordid \in {None} \cup 1..sent
          BY <2>3, <3>1 DEF Asked
    <3> QED BY <2>4, <3>2
  <2> QED BY <2>5, <2>6
<1> QED BY <1>4, <1>5 DEF Asked, Going

\* Saying changes nothing of the chain.
LEMMA ChainRests ==
    ASSUME ChainSound, HeardNoted, UNCHANGED <<chainVars, heard>>
    PROVE  ChainSound' /\ HeardNoted' /\ View' = View
BY DEF ChainSound, ChainTypeOK, PendingShown, HeardNoted, View, chainVars, published, flight, rows

\* The end of the trail.
LEMMA TrailEnds ==
    ASSUME SessionTypes, NEW s, Trail(s)
    PROVE  /\ Steady(s[Len(wire)])
           /\ ~unasked => PendingIds(s[Len(wire)].pending) = Awaited(wire, unanswered, Len(wire))
<1>1. Len(wire) \in 0..Len(wire)
      BY DEF SessionTypes
<1> QED BY <1>1 DEF Trail

\* What a message must be, said after what is on the wire, for the cache to go on following.
LEMMA Spoken ==
    ASSUME SessionInv, NEW s, Trail(s), NEW v, v = s[Len(wire)], NEW m, Fits(v, m),
           wire' = Append(wire, m), UNCHANGED <<chainVars, heard>>, Going(m),
           m.type = "G" => m.qty \in 1..MaxQty, unasked' \in BOOLEAN,
           unasked' = FALSE => ~unasked /\ (Opens(m) \/ Closes(m) \/ Tells(m)),
           SessionTypes', OrderFollows(After(v, m))', RequestsFollow(After(v, m))',
           FillsFollow(After(v, m))'
    PROVE  SessionInv'
<1>1. SessionTypes /\ Asked /\ ChainSound /\ HeardNoted /\ m \in Message
      BY DEF SessionInv, Fits
<1>2. Asked'
      BY <1>1, AskedGoesOn
<1>3. ChainSound' /\ HeardNoted' /\ View' = View
      BY <1>1, ChainRests
<1>4. Steady(v)
      BY <1>1, TrailEnds
<1>5. Steady(After(v, m))
      BY <1>4, SteadyAfter
<1>6. PICK w : w = After(v, m)
      OBVIOUS
<1>7. w.pending = PendingAfter(v, m) /\ w.pending \in Seq(Request)
      BY <1>5, <1>6, AfterParts DEF Steady
<1>8. unasked' = FALSE =>
        PendingIds(PendingAfter(v, m)) = {id \in ClOrdIDs : \E r \in unanswered' : r.clordid = id}
  <2> SUFFICES ASSUME unasked' = FALSE
               PROVE  PendingIds(w.pending) = {id \in ClOrdIDs : \E r \in unanswered' : r.clordid = id}
      BY <1>7
  <2>1. PICK asked : asked = unanswered'
        OBVIOUS
  <2>2. RequestsFollow(w)'
        BY <1>6
  <2>3. Holds(w.pending, asked)
        BY <2>1, <2>2 DEF RequestsFollow
  <2>4. asked \in SUBSET Message /\ \A r \in asked : r.clordid \in 2..sent'
        BY <1>2, <2>1 DEF Asked
  <2>5. \A x \in 2..sent' : x \in ClOrdIDs
        BY SessionAssumption DEF Going
  <2>6. PendingIds(w.pending) = {id \in ClOrdIDs : \E r \in asked : r.clordid = id}
    <3>1. PICK q : q = w.pending
          OBVIOUS
    <3>2. PendingIds(q) = {id \in ClOrdIDs : \E r \in asked : r.clordid = id}
          BY <1>7, <2>3, <2>4, <2>5, <3>1, HoldsIds
    <3> QED BY <3>1, <3>2
  <2> QED BY <2>1, <2>6
<1>9. \E t : Trail(t)' /\ t[Len(wire')] = After(s[Len(wire)], m)
      BY <1>1, <1>3, <1>5, <1>8, TrailGrows
<1>10. PICK t : Trail(t)' /\ t[Len(wire')] = w
       BY <1>6, <1>9
<1>11. OrderFollows(w)' /\ RequestsFollow(w)' /\ FillsFollow(w)'
       BY <1>6
<1>12. PICK x : x = t[Len(wire')]
       OBVIOUS
<1>13. x = w
       BY <1>10, <1>12
<1>14. Ahead(w)'
       BY <1>11 DEF Ahead
<1>15. Ahead(t[Len(wire)])'
       BY <1>10, <1>14
<1> QED BY <1>2, <1>3, <1>10, <1>15 DEF SessionInv

\* A message that states no end of a request.
LEMMA SettlesNothing ==
    ASSUME NEW m, m.type # "9", m.execType \notin {"CANCELED", "REPLACED"} \/ m.execType = None
    PROVE  Settles(m) = None
<1>1. "CANCELED" \in Statuses /\ "REPLACED" \in Statuses
      BY DEF Statuses
<1>2. "CANCELED" # None /\ "REPLACED" # None
      BY <1>1, NotNone
<1> QED BY <1>2 DEF Settles

LEMMA TypesGoOn ==
    ASSUME SessionTypes, NEW m \in Message, wire' = Append(wire, m), UNCHANGED <<chainVars, heard>>,
           phase' \in {"none", "asked", "live", "canceled", "rejected"},
           vStatus' \in Optional(Statuses), unasked' \in BOOLEAN,
           sent' \in 0..MaxRequests + 1, execs' \in {0} \cup ExecIDs
    PROVE  SessionTypes'
<1>1. wire' \in Seq(Message)
      BY DEF SessionTypes
<1>2. heard' = heard
      OBVIOUS
<1> QED BY <1>1, <1>2 DEF SessionTypes

LEMMA OrderGoesOn ==
    ASSUME NEW v, NEW m, phase' # "none",
           vStatus' # None /\ unanswered' = {} => StatusAfter(v, m) = vStatus',
           ~unasked' => QtyAfter(v, m) = vQty' /\ IdAfter(v, m) = vClordid'
    PROVE  OrderFollows(After(v, m))'
<1>1. PICK w : w = After(v, m)
      OBVIOUS
<1>2. w.open = TRUE /\ w.status = StatusAfter(v, m) /\ w.qty = QtyAfter(v, m) /\ w.id = IdAfter(v, m)
      BY <1>1, AfterParts
<1>3. OrderFollows(w)'
      BY <1>2 DEF OrderFollows
<1> QED BY <1>1, <1>3

\* No report, no fill.
LEMMA FillsRest ==
    ASSUME NEW v, NEW m, FillsFollow(v), m.type \in {"D", "G", "F", "9"}, m.type = "D" => vCum = 0,
           UNCHANGED <<vCum, execs, lastFill>>
    PROVE  FillsFollow(After(v, m))'
<1>1. PICK w : w = After(v, m)
      OBVIOUS
<1>2. w.cum = CumAfter(v, m) /\ w.seen = SeenAfter(v, m) /\ w.rows = RowsAfter(v, m)
      BY <1>1, AfterParts
<1>3. w.cum = v.cum /\ w.seen = v.seen /\ w.rows = v.rows
      BY <1>2 DEF CumAfter, SeenAfter, RowsAfter, FillsFollow
<1>4. v.cum = vCum /\ v.seen = 1..execs /\ Tallies(v.rows, v.seen, v.cum, lastFill)
      BY DEF FillsFollow
<1>5. PICK last : last = lastFill
      OBVIOUS
<1>6. Tallies(v.rows, v.seen, v.cum, last) /\ lastFill' = last
      BY <1>4, <1>5
<1>7. FillsFollow(w)'
      BY <1>3, <1>4, <1>6 DEF FillsFollow
<1> QED BY <1>1, <1>7

\* What the cache will hold, and where the conversation stands.
LEMMA Begun ==
    ASSUME SessionInv
    PROVE  /\ SessionTypes /\ Asked /\ ChainSound /\ HeardNoted
           /\ \E s, v : /\ Trail(s) /\ v = s[Len(wire)] /\ Steady(v)
                        /\ OrderFollows(v) /\ RequestsFollow(v) /\ FillsFollow(v)
           /\ sent \in 0..MaxRequests + 1 /\ MaxRequests \in Nat
           /\ phase # "none" => sent \in 1..MaxRequests + 1 /\ vClordid \in 1..sent
           /\ vCum \in 0..vQty /\ vQty \in Qtys /\ Qtys = 0..MaxQty /\ MaxQty \in Nat
           /\ ClOrdIDs = 1..MaxRequests + 1
<1>1. SessionTypes /\ Asked /\ ChainSound /\ HeardNoted
      BY DEF SessionInv
<1>2. PICK s : Trail(s) /\ Ahead(s[Len(wire)])
      BY DEF SessionInv
<1>3. Steady(s[Len(wire)])
      BY <1>1, <1>2, TrailEnds
<1> QED BY <1>1, <1>2, <1>3, ChainAssumption, SessionAssumption DEF Ahead, SessionTypes, Asked, Qtys

-----------------------------------------------------------------------------
\* The client's steps

LEMMA SendNewStep ==
    ASSUME SessionInv, SendNew
    PROVE  SessionInv'
<1>1. PICK q \in 1..MaxQty :
        /\ vQty' = q /\ phase = "none" /\ phase' = "asked" /\ vClordid' = 1 /\ sent' = 1
        /\ UNCHANGED <<vCum, vStatus, unanswered, execs, lastFill, unasked, heard>>
        /\ Capture([Blank EXCEPT !.type = "D", !.clordid = 1, !.qty = q])
      BY DEF SendNew
<1>2. PICK m : m = [Blank EXCEPT !.type = "D", !.clordid = 1, !.qty = q]
      OBVIOUS
<1>3. PICK s, v : /\ Trail(s) /\ v = s[Len(wire)] /\ Steady(v)
                  /\ OrderFollows(v) /\ RequestsFollow(v) /\ FillsFollow(v)
      BY Begun
<1>4. /\ SessionTypes /\ Asked /\ MaxRequests \in Nat /\ Qtys = 0..MaxQty /\ MaxQty \in Nat
      /\ ClOrdIDs = 1..MaxRequests + 1
      BY Begun
<1>5. 1 \in ClOrdIDs /\ q \in Qtys /\ 1 \in 1..MaxRequests + 1 /\ 1 \in 0..MaxRequests + 1 /\ 1 # None
      BY <1>4, NotNone
<1>6. /\ m.type = "D" /\ m.clordid = 1 /\ m.qty = q /\ m.execType = None /\ m.origClordid = None
      BY <1>2 DEF Blank
<1>7. m \in Message
      BY <1>2, <1>5 DEF Blank, Message, Optional
<1>8. wire' = Append(wire, m) /\ UNCHANGED <<chainVars, heard>>
      BY <1>1, <1>2 DEF Capture
<1>9. Settles(m) = None
      BY <1>6, SettlesNothing
<1>10. vCum = 0 /\ sent = 0 /\ vStatus = None
       BY <1>1, <1>4 DEF Asked
<1>11. Fits(v, m)
       BY <1>1, <1>3, <1>5, <1>6, <1>7, <1>9 DEF Fits, OrderFollows
<1>12. Tells(m)
       BY <1>1, <1>6, <1>10 DEF Tells, Answers
<1>13. unasked \in BOOLEAN /\ vStatus \in Optional(Statuses) /\ execs \in {0} \cup ExecIDs
       BY <1>4 DEF SessionTypes
<1>14. Going(m)
       BY <1>1, <1>4, <1>5, <1>6, <1>10 DEF Going
<1>15. SessionTypes'
       BY <1>1, <1>4, <1>5, <1>7, <1>8, <1>13, TypesGoOn
<1>16. OrderFollows(After(v, m))'
  <2>1. QtyAfter(v, m) = vQty' /\ IdAfter(v, m) = vClordid' /\ vStatus' = None /\ phase' # "none"
        BY <1>1, <1>6, <1>10 DEF QtyAfter, IdAfter
  <2> QED BY <2>1, OrderGoesOn
<1>17. RequestsFollow(After(v, m))'
  <2>1. /\ m.type \notin {"G", "F"} /\ Settles(m) = None
        /\ unanswered' = unanswered /\ unasked' = unasked
        BY <1>1, <1>6, <1>9
  <2> QED BY <1>3, <1>4, <1>7, <2>1, RequestsGoOn
<1>18. FillsFollow(After(v, m))'
  <2>1. m.type \in {"D", "G", "F", "9"} /\ vCum = 0 /\ UNCHANGED <<vCum, execs, lastFill>>
        BY <1>1, <1>6, <1>10
  <2> QED BY <1>3, <2>1, FillsRest
<1>19. /\ m.type = "G" => m.qty \in 1..MaxQty
       /\ unasked' \in BOOLEAN
       /\ unasked' = FALSE => ~unasked /\ (Opens(m) \/ Closes(m) \/ Tells(m))
       BY <1>1, <1>6, <1>12, <1>13
<1> QED BY <1>3, <1>8, <1>11, <1>14, <1>15, <1>16, <1>17, <1>18, <1>19, Spoken

\* A request goes out.
LEMMA AskStep ==
    ASSUME SessionInv, NEW m \in Message, Ask(m), m.type \in {"G", "F"}, m.clordid = sent + 1,
           m.type = "G" => m.qty \in 1..MaxQty, m.execType = None
    PROVE  SessionInv'
<1>1. /\ phase = "live" /\ sent <= MaxRequests /\ sent' = sent + 1
      /\ unanswered' = unanswered \cup {m}
      /\ wire' = Append(wire, m) /\ UNCHANGED <<chainVars, heard>>
      /\ UNCHANGED <<phase, vCum, vQty, vClordid, vStatus, execs, lastFill, unasked>>
      BY DEF Ask, Capture
<1>2. PICK s, v : /\ Trail(s) /\ v = s[Len(wire)] /\ Steady(v)
                  /\ OrderFollows(v) /\ RequestsFollow(v) /\ FillsFollow(v)
      BY Begun
<1>3. /\ SessionTypes /\ Asked /\ MaxRequests \in Nat /\ sent \in 1..MaxRequests + 1
      /\ vClordid \in 1..sent /\ vCum \in 0..vQty /\ vQty \in Qtys
      BY <1>1, Begun
<1>4. Settles(m) = None
      BY SettlesNothing
<1>5. Fits(v, m)
      BY <1>1, <1>2, <1>4 DEF Fits, OrderFollows
<1>6. Opens(m)
      BY <1>1 DEF Opens
<1>7. unasked \in BOOLEAN /\ vStatus \in Optional(Statuses) /\ execs \in {0} \cup ExecIDs
      /\ phase \in {"none", "asked", "live", "canceled", "rejected"}
      BY <1>3 DEF SessionTypes
<1>8. sent' \in 1..MaxRequests + 1 /\ sent' \in 0..MaxRequests + 1 /\ sent' >= sent /\ sent >= 1
      /\ vClordid' \in 1..sent' /\ m.clordid \in 1..sent'
      BY <1>1, <1>3
<1>9. Going(m)
      BY <1>1, <1>3, <1>6, <1>8 DEF Going
<1>10. SessionTypes'
       BY <1>1, <1>3, <1>7, <1>8, TypesGoOn
<1>11. OrderFollows(After(v, m))'
  <2>1. ~unasked' => QtyAfter(v, m) = vQty' /\ IdAfter(v, m) = vClordid'
        BY <1>1, <1>2 DEF QtyAfter, IdAfter, OrderFollows, Confirms
  <2>2. unanswered' # {} /\ phase' # "none"
        BY <1>1
  <2> QED BY <2>1, <2>2, OrderGoesOn
<1>12. RequestsFollow(After(v, m))'
  <2>1. Opens(m) /\ unasked' = unasked
        BY <1>1, <1>6
  <2> QED BY <1>2, <1>3, <2>1, RequestsGoOn
<1>13. FillsFollow(After(v, m))'
  <2>1. m.type \in {"D", "G", "F", "9"} /\ m.type # "D" /\ UNCHANGED <<vCum, execs, lastFill>>
        BY <1>1
  <2> QED BY <1>2, <2>1, FillsRest
<1>14. /\ unasked' \in BOOLEAN
       /\ unasked' = FALSE => ~unasked /\ (Opens(m) \/ Closes(m) \/ Tells(m))
       BY <1>1, <1>6, <1>7
<1> QED BY <1>1, <1>2, <1>5, <1>9, <1>10, <1>11, <1>12, <1>13, <1>14, Spoken

LEMMA RequestStep ==
    ASSUME SessionInv, SendAmend \/ SendCancel
    PROVE  SessionInv'
<1>1. /\ MaxRequests \in Nat /\ vQty \in Qtys /\ Qtys = 0..MaxQty /\ MaxQty \in Nat
      /\ ClOrdIDs = 1..MaxRequests + 1 /\ sent \in 0..MaxRequests + 1
      /\ phase # "none" => vClordid \in 1..sent
      BY Begun
<1>2. CASE SendAmend
  <2>1. PICK q \in 1..MaxQty :
          Ask([Blank EXCEPT !.type = "G", !.clordid = sent + 1, !.origClordid = vClordid, !.qty = q])
        BY <1>2 DEF SendAmend
  <2>2. PICK m : m = [Blank EXCEPT !.type = "G", !.clordid = sent + 1, !.origClordid = vClordid, !.qty = q]
        OBVIOUS
  <2>3. Ask(m)
        BY <2>1, <2>2
  <2>4. sent + 1 \in ClOrdIDs /\ vClordid \in ClOrdIDs /\ q \in Qtys
        BY <1>1, <2>3 DEF Ask
  <2>5. m \in Message
        BY <2>2, <2>4 DEF Blank, Message, Optional
  <2>6. m.type = "G" /\ m.clordid = sent + 1 /\ m.qty = q /\ m.execType = None
        BY <2>2 DEF Blank
  <2> QED BY <2>3, <2>5, <2>6, AskStep
<1>3. CASE SendCancel
  <2>1. PICK m : m = [Blank EXCEPT !.type = "F", !.clordid = sent + 1, !.origClordid = vClordid, !.qty = vQty]
        OBVIOUS
  <2>2. Ask(m)
        BY <1>3, <2>1 DEF SendCancel
  <2>3. sent + 1 \in ClOrdIDs /\ vClordid \in ClOrdIDs
        BY <1>1, <2>2 DEF Ask
  <2>4. m \in Message
        BY <1>1, <2>1, <2>3 DEF Blank, Message, Optional
  <2>5. m.type = "F" /\ m.clordid = sent + 1 /\ m.execType = None
        BY <2>1 DEF Blank
  <2> QED BY <2>2, <2>4, <2>5, AskStep
<1> QED BY <1>2, <1>3

\* A fill is last only of an order that was sent.
LEMMA LastFillIs ==
    ASSUME SessionInv, NEW v, FillsFollow(v), lastFill # NoFill
    PROVE  /\ lastFill.execId \in ExecIDs /\ lastFill.execId \in Counting(v.rows)
           /\ lastFill.execId \in v.seen /\ lastFill.shares \in 1..vCum /\ phase # "none"
           /\ lastFill.shares \in Qtys
<1>1. Tallies(v.rows, v.seen, v.cum, lastFill) /\ v.cum = vCum
      BY DEF FillsFollow
<1>2. lastFill.execId \in Counting(v.rows) /\ lastFill.shares \in 1..vCum
      BY <1>1 DEF Tallies
<1>3. lastFill.execId \in ExecIDs /\ v.rows[lastFill.execId] # None
      BY <1>2 DEF Counting
<1>4. lastFill.execId \in v.seen
      BY <1>1, <1>3 DEF Tallies
<1>5. vCum \in 0..vQty /\ vQty \in 0..MaxQty /\ MaxQty \in Nat /\ Qtys = 0..MaxQty
      BY Begun
<1>6. phase # "none"
  <2>1. phase = "none" => vCum = 0
        BY Begun DEF Asked
  <2> QED BY <1>2, <2>1
<1> QED BY <1>2, <1>3, <1>4, <1>5, <1>6

LEMMA SendDontKnowStep ==
    ASSUME SessionInv, SendDontKnow
    PROVE  SessionInv'
<1>1. /\ lastFill # NoFill /\ UNCHANGED venueVars
      /\ Capture([Blank EXCEPT !.type = "Q", !.execId = lastFill.execId])
      BY DEF SendDontKnow
<1>2. PICK m : m = [Blank EXCEPT !.type = "Q", !.execId = lastFill.execId]
      OBVIOUS
<1>3. PICK s, v : /\ Trail(s) /\ v = s[Len(wire)] /\ Steady(v)
                  /\ OrderFollows(v) /\ RequestsFollow(v) /\ FillsFollow(v)
      BY Begun
<1>4. lastFill.execId \in ExecIDs /\ phase # "none"
      BY <1>1, <1>3, LastFillIs
<1>5. /\ SessionTypes /\ Asked /\ MaxRequests \in Nat /\ sent \in 1..MaxRequests + 1
      /\ vClordid \in 1..sent /\ vCum \in 0..vQty /\ vQty \in Qtys /\ sent \in 0..MaxRequests + 1
      BY <1>4, Begun
<1>6. /\ m.type = "Q" /\ m.clordid = None /\ m.execType = None /\ m.origClordid = None
      /\ m.execId = lastFill.execId
      BY <1>2 DEF Blank
<1>7. m \in Message
      BY <1>2, <1>4 DEF Blank, Message, Optional
<1>8. wire' = Append(wire, m) /\ UNCHANGED <<chainVars, heard>>
      BY <1>1, <1>2 DEF Capture
<1>9. Settles(m) = None
      BY <1>6, SettlesNothing
<1>10. Fits(v, m)
       BY <1>3, <1>4, <1>6, <1>7, <1>9, NotNone DEF Fits, OrderFollows
<1>11. UNCHANGED <<phase, vCum, vQty, vClordid, vStatus, unanswered, sent, execs, lastFill, unasked>>
       BY <1>1 DEF venueVars
<1>12. Tells(m)
  <2>1. sent' >= sent
        BY <1>5, <1>11
  <2> QED BY <1>6, <1>11, <2>1 DEF Tells, Answers
<1>13. unasked \in BOOLEAN /\ vStatus \in Optional(Statuses) /\ execs \in {0} \cup ExecIDs
       /\ phase \in {"none", "asked", "live", "canceled", "rejected"}
       BY <1>5 DEF SessionTypes
<1>14. Going(m)
  <2>1. sent' >= sent
        BY <1>5, <1>11
  <2> QED BY <1>4, <1>5, <1>6, <1>11, <2>1 DEF Going
<1>15. SessionTypes'
       BY <1>5, <1>7, <1>8, <1>11, <1>13, TypesGoOn
<1>16. OrderFollows(After(v, m))'
  <2>1. /\ ~unasked' => QtyAfter(v, m) = vQty' /\ IdAfter(v, m) = vClordid'
        /\ vStatus' # None /\ unanswered' = {} => StatusAfter(v, m) = vStatus'
        BY <1>3, <1>6, <1>11 DEF QtyAfter, IdAfter, OrderFollows, Confirms, StatusAfter
  <2>2. phase' # "none"
        BY <1>4, <1>11
  <2> QED BY <2>1, <2>2, OrderGoesOn
<1>17. RequestsFollow(After(v, m))'
  <2>1. /\ m.type \notin {"G", "F"} /\ Settles(m) = None
        /\ unanswered' = unanswered /\ unasked' = unasked
        BY <1>6, <1>9, <1>11
  <2> QED BY <1>3, <1>5, <1>7, <2>1, RequestsGoOn
<1>18. FillsFollow(After(v, m))'
  <2>1. PICK w, table, last, e, seen, cum : /\ w = After(v, m) /\ table = v.rows /\ last = lastFill
                                            /\ e = m.execId /\ seen = v.seen /\ cum = v.cum
        OBVIOUS
  <2>2. /\ table \in Tables /\ Tallies(table, seen, cum, last) /\ last # NoFill /\ e = last.execId
        /\ cum = vCum /\ seen = 1..execs
        BY <1>1, <1>3, <1>6, <2>1 DEF Steady, Tables, FillsFollow
  <2>3. Tallies([table EXCEPT ![e] = Reemitted(@, "DK", None)], seen, cum, last)
        BY <2>2, DontKnowTallies
  <2>4. w.cum = CumAfter(v, m) /\ w.seen = SeenAfter(v, m) /\ w.rows = RowsAfter(v, m)
        BY <2>1, AfterParts
  <2>5. w.cum = cum /\ w.seen = seen /\ w.rows = [table EXCEPT ![e] = Reemitted(@, "DK", None)]
        BY <1>6, <2>1, <2>4 DEF CumAfter, SeenAfter, RowsAfter
  <2>6. Tallies(w.rows, w.seen, w.cum, last)
        BY <2>3, <2>5
  <2>7. FillsFollow(w)'
        BY <1>11, <2>1, <2>2, <2>5, <2>6 DEF FillsFollow
  <2> QED BY <2>1, <2>7
<1>19. /\ m.type = "G" => m.qty \in 1..MaxQty
       /\ unasked' \in BOOLEAN
       /\ unasked' = FALSE => ~unasked /\ (Opens(m) \/ Closes(m) \/ Tells(m))
       BY <1>6, <1>11, <1>12, <1>13
<1> QED BY <1>3, <1>8, <1>10, <1>14, <1>15, <1>16, <1>17, <1>18, <1>19, Spoken

-----------------------------------------------------------------------------
\* The venue's reports

\* One more report: numbered, and restating the order.
Reports(m) ==
    /\ m \in Message /\ m.type = "8" /\ m.execId = execs + 1 /\ m.execId \in ExecIDs
    /\ execs' = execs + 1 /\ m.cum = vCum' /\ m.status = vStatus' /\ m.status \in Statuses
    /\ vQty' \in Qtys /\ vCum' \in 0..vQty'
    /\ wire' = Append(wire, m) /\ UNCHANGED <<chainVars, heard>>

LEMMA ReportIs ==
    ASSUME NEW m0 \in Message, m0.type = "8", m0.status \in Statuses, Report(m0),
           vQty' \in Qtys, vCum' \in 0..vQty'
    PROVE  \E m : /\ Reports(m)
                  /\ m.clordid = m0.clordid /\ m.origClordid = m0.origClordid
                  /\ m.execRefId = m0.execRefId /\ m.execType = m0.execType
                  /\ m.status = m0.status /\ m.shares = m0.shares
                  /\ m.trans = IF m0.trans = None THEN "NEW" ELSE m0.trans
<1>1. PICK e, q, c, x : /\ e = execs' /\ q = vQty' /\ c = vCum'
                        /\ x = IF m0.trans = None THEN "NEW" ELSE m0.trans
      OBVIOUS
<1>2. /\ execs' = execs + 1 /\ e \in ExecIDs /\ vStatus' = m0.status
      /\ Capture([m0 EXCEPT !.execId = e, !.qty = q, !.cum = c, !.trans = x])
      BY <1>1 DEF Report
<1>3. q \in Qtys /\ c \in Qtys
      BY <1>1, ChainAssumption DEF Qtys
<1>4. x \in Optional({"NEW", "CANCEL", "CORRECT"})
      BY <1>1 DEF Message, Optional
<1>5. PICK m : m = [m0 EXCEPT !.execId = e, !.qty = q, !.cum = c, !.trans = x]
      OBVIOUS
<1>6. m \in Message
      BY <1>2, <1>3, <1>4, <1>5 DEF Message, Optional
<1>7. /\ m.type = "8" /\ m.execId = e /\ m.cum = c /\ m.trans = x
      /\ m.clordid = m0.clordid /\ m.origClordid = m0.origClordid
      /\ m.execRefId = m0.execRefId /\ m.execType = m0.execType
      /\ m.status = m0.status /\ m.shares = m0.shares
      BY <1>5 DEF Message
<1>8. wire' = Append(wire, m) /\ UNCHANGED <<chainVars, heard>>
      BY <1>2, <1>5 DEF Capture
<1>9. Reports(m)
      BY <1>1, <1>2, <1>6, <1>7, <1>8 DEF Reports
<1> QED BY <1>1, <1>7, <1>9

LEMMA ReportSpoken ==
    ASSUME SessionInv, NEW s, Trail(s), NEW v, v = s[Len(wire)], Steady(v),
           OrderFollows(v), RequestsFollow(v), FillsFollow(v), NEW m, Reports(m),
           phase # "none", phase' \in {"asked", "live", "canceled", "rejected"}, sent' = sent,
           vClordid' \in 1..sent, m.clordid \in 1..sent,
           m.execType = "CANCELED" <=> m.status = "CANCELED",
           ~IsBust(m) /\ ~IsCorrect(m) => vCum <= vCum',
           IsBust(m) \/ IsCorrect(m) => m.execRefId \in v.seen,
           \/ Answering(m) /\ Answers(m, m.clordid) /\ unasked' = unasked
           \/ Settles(m) = None /\ unanswered' = unanswered /\ unasked' = unasked
           \/ unanswered' = unanswered /\ unasked' = TRUE,
           ~unasked' => QtyAfter(v, m) = vQty' /\ IdAfter(v, m) = vClordid',
           Tallies(Marked(v.rows, m), v.seen \cup {m.execId}, vCum', lastFill')
    PROVE  SessionInv'
<1>1. /\ SessionTypes /\ Asked /\ MaxRequests \in Nat /\ sent \in 1..MaxRequests + 1
      /\ sent \in 0..MaxRequests + 1 /\ ClOrdIDs = 1..MaxRequests + 1
      BY Begun
<1>2. unasked \in BOOLEAN /\ execs \in Nat
  <2>1. execs \in {0} \cup ExecIDs /\ unasked \in BOOLEAN
        BY <1>1 DEF SessionTypes
  <2>2. IsFiniteSet(ExecIDs) /\ ExecIDs = 1..Cardinality(ExecIDs)
        BY SessionAssumption
  <2>3. Cardinality(ExecIDs) \in Nat
        BY <2>2, FS_CardinalityType
  <2> QED BY <2>1, <2>2, <2>3
<1>3. /\ m \in Message /\ m.type = "8" /\ m.execId = execs + 1 /\ m.execId \in ExecIDs
      /\ execs' = execs + 1 /\ m.cum = vCum' /\ m.status = vStatus' /\ m.status \in Statuses
      /\ vQty' \in Qtys /\ vCum' \in 0..vQty'
      /\ wire' = Append(wire, m) /\ UNCHANGED <<chainVars, heard>>
      BY DEF Reports
<1>4. m.cum \in Qtys
      BY <1>3, ChainAssumption DEF Qtys
<1>5. m.clordid \in ClOrdIDs
      BY <1>1
<1>6. m.cum # None /\ m.clordid # None /\ m.execId # None /\ m.status # None
      BY <1>3, <1>4, <1>5, NotNone
<1>7. v.cum = vCum /\ v.seen = 1..execs /\ (v.open <=> phase # "none")
      BY DEF FillsFollow, OrderFollows
<1>8. m.execId \notin v.seen
      BY <1>2, <1>3, <1>7
<1>9. Fits(v, m)
      BY <1>3, <1>6, <1>7, <1>8 DEF Fits
<1>10. unanswered' \in SUBSET unanswered
       BY DEF Answering
<1>11. Going(m)
       BY <1>1, <1>3, <1>10 DEF Going
<1>12. unasked' \in BOOLEAN
       BY <1>2
<1>13. SessionTypes'
  <2>1. /\ phase' \in {"none", "asked", "live", "canceled", "rejected"}
        /\ vStatus' \in Optional(Statuses)
        /\ sent' \in 0..MaxRequests + 1 /\ execs' \in {0} \cup ExecIDs
        BY <1>1, <1>3 DEF Optional
  <2> QED BY <1>1, <1>3, <1>12, <2>1, TypesGoOn
<1>14. unasked' = FALSE => ~unasked /\ (Opens(m) \/ Closes(m) \/ Tells(m))
  <2> SUFFICES ASSUME unasked' = FALSE PROVE ~unasked /\ (Closes(m) \/ Tells(m))
      OBVIOUS
  <2>1. ~unasked
        OBVIOUS
  <2>2. CASE Answering(m) /\ Answers(m, m.clordid)
        BY <1>3, <2>1, <2>2 DEF Answering, Closes
  <2>3. CASE Settles(m) = None /\ unanswered' = unanswered
    <3>1. m.execType \notin {"REPLACED", "CANCELED"}
          BY <1>3, <2>3, NotNone DEF Settles, Actions
    <3>2. \A id : ~Answers(m, id)
          BY <1>3, <3>1 DEF Answers
    <3> QED BY <1>1, <1>3, <2>1, <2>3, <3>2 DEF Tells
  <2> QED BY <2>2, <2>3
<1>15. OrderFollows(After(v, m))'
  <2>1. StatusAfter(v, m) = vStatus' /\ phase' # "none"
        BY <1>3 DEF StatusAfter
  <2> QED BY <2>1, OrderGoesOn
<1>16. RequestsFollow(After(v, m))'
  <2>1. m.type \notin {"G", "F"}
        BY <1>3
  <2> QED BY <1>1, <1>3, <2>1, RequestsGoOn
<1>17. FillsFollow(After(v, m))'
  <2>1. PICK w, last : w = After(v, m) /\ last = lastFill'
        OBVIOUS
  <2>2. w.cum = CumAfter(v, m) /\ w.seen = SeenAfter(v, m) /\ w.rows = RowsAfter(v, m)
        BY <2>1, AfterParts
  <2>3. w.cum = vCum' /\ w.seen = v.seen \cup {m.execId} /\ w.rows = Marked(v.rows, m)
        BY <1>3, <2>2 DEF CumAfter, SeenAfter, RowsAfter
  <2>4. w.seen = 1..execs'
        BY <1>2, <1>3, <1>7, <2>3
  <2>5. Tallies(w.rows, w.seen, w.cum, last)
        BY <2>1, <2>3
  <2>6. FillsFollow(w)'
        BY <2>1, <2>3, <2>4, <2>5 DEF FillsFollow
  <2> QED BY <2>1, <2>6
<1> QED BY <1>3, <1>9, <1>11, <1>12, <1>13, <1>14, <1>15, <1>16, <1>17, Spoken

\* What the tallies need of a report.
LEMMA Numbered ==
    ASSUME SessionInv, NEW m, Reports(m), NEW v, FillsFollow(v), Steady(v)
    PROVE  /\ v.rows \in Tables /\ Tallies(v.rows, v.seen, v.cum, lastFill) /\ v.cum = vCum
           /\ vCum \in Nat /\ m \in Message /\ m.execId \in ExecIDs /\ m.execId \notin v.seen
           /\ m.execId = execs + 1
<1>1. m \in Message /\ m.execId = execs + 1 /\ m.execId \in ExecIDs
      BY DEF Reports
<1>2. vCum \in Nat /\ execs \in Nat
  <2>1. execs \in {0} \cup ExecIDs /\ vCum \in 0..vQty
        BY Begun DEF SessionTypes
  <2>2. IsFiniteSet(ExecIDs) /\ ExecIDs = 1..Cardinality(ExecIDs)
        BY SessionAssumption
  <2>3. Cardinality(ExecIDs) \in Nat
        BY <2>2, FS_CardinalityType
  <2> QED BY <2>1, <2>2, <2>3
<1> QED BY <1>1, <1>2 DEF Steady, Tables, FillsFollow

\* A report that is no fill leaves the tallies.
LEMMA PlainSpoken ==
    ASSUME SessionInv, NEW m, Reports(m), m.trans = "NEW",
           m.execType \notin {"PARTIALLY_FILLED", "FILLED"}, UNCHANGED <<vCum, lastFill>>,
           phase # "none", phase' \in {"asked", "live", "canceled", "rejected"}, sent' = sent,
           vClordid' \in 1..sent, m.clordid \in 1..sent,
           m.execType = "CANCELED" <=> m.status = "CANCELED",
           \/ Answering(m) /\ Answers(m, m.clordid) /\ unasked' = unasked
           \/ Settles(m) = None /\ unanswered' = unanswered /\ unasked' = unasked
           \/ unanswered' = unanswered /\ unasked' = TRUE,
           ~unasked' => \A v : OrderFollows(v) /\ RequestsFollow(v) /\ Steady(v) =>
                                  QtyAfter(v, m) = vQty' /\ IdAfter(v, m) = vClordid'
    PROVE  SessionInv'
<1>1. PICK s, v : /\ Trail(s) /\ v = s[Len(wire)] /\ Steady(v)
                  /\ OrderFollows(v) /\ RequestsFollow(v) /\ FillsFollow(v)
      BY Begun
<1>2. ~IsBust(m) /\ ~IsCorrect(m)
      BY DEF IsBust, IsCorrect
<1>3. vCum \in Nat
      BY <1>1, Numbered
<1>5. Tallies(Marked(v.rows, m), v.seen \cup {m.execId}, vCum', lastFill')
  <2>1. PICK table, seen, cum, last : table = v.rows /\ seen = v.seen /\ cum = v.cum /\ last = lastFill
        OBVIOUS
  <2>2. /\ table \in Tables /\ Tallies(table, seen, cum, last) /\ cum = vCum
        /\ m \in Message /\ m.execId \in ExecIDs /\ m.execId \notin seen
        BY <1>1, <2>1, Numbered
  <2>3. ~BuildExecRow(m).fill
        BY DEF BuildExecRow
  <2>4. Tallies(Marked(table, m), seen \cup {m.execId}, cum, last)
        BY <1>2, <2>2, <2>3, PlainTallies
  <2> QED BY <2>1, <2>2, <2>4
<1>6. ~unasked' => QtyAfter(v, m) = vQty' /\ IdAfter(v, m) = vClordid'
      BY <1>1
<1>7. ~IsBust(m) /\ ~IsCorrect(m) => vCum <= vCum'
      BY <1>3
<1>8. IsBust(m) \/ IsCorrect(m) => m.execRefId \in v.seen
      BY <1>2
<1> QED BY <1>1, <1>5, <1>6, <1>7, <1>8, ReportSpoken

\* The terms stay when nothing is said of them.
LEMMA TermsStay ==
    ASSUME NEW m, m.type = "8", m.execType # "REPLACED", UNCHANGED <<vQty, vClordid, unasked>>
    PROVE  ~unasked' => \A v : OrderFollows(v) /\ RequestsFollow(v) /\ Steady(v) =>
                                  QtyAfter(v, m) = vQty' /\ IdAfter(v, m) = vClordid'
BY DEF QtyAfter, IdAfter, Confirms, OrderFollows

\* The venue's answer to a new order, three ways.
LEMMA NewAnsweredStep ==
    ASSUME SessionInv, PendingNew \/ Acknowledge \/ RejectNew
    PROVE  SessionInv'
<1>1. /\ vQty \in Qtys /\ vCum \in 0..vQty /\ MaxRequests \in Nat /\ ClOrdIDs = 1..MaxRequests + 1
      /\ phase # "none" => sent \in 1..MaxRequests + 1 /\ vClordid \in 1..sent
      BY Begun
<1>2. PICK x, p : /\ x \in {"PENDING_NEW", "NEW", "REJECTED"} /\ p \in {"asked", "live", "rejected"}
                  /\ phase = "asked" /\ phase' = p
                  /\ UNCHANGED <<vCum, vQty, vClordid, unanswered, sent, lastFill, unasked>>
                  /\ Report([Blank EXCEPT !.clordid = 1, !.execType = x, !.status = x])
  <2>1. CASE PendingNew
        BY <2>1 DEF PendingNew
  <2>2. CASE Acknowledge
        BY <2>2 DEF Acknowledge
  <2>3. CASE RejectNew
        BY <2>3 DEF RejectNew
  <2> QED BY <2>1, <2>2, <2>3
<1>3. PICK m0 : m0 = [Blank EXCEPT !.clordid = 1, !.execType = x, !.status = x]
      OBVIOUS
<1>4. /\ m0.type = "8" /\ m0.clordid = 1 /\ m0.execType = x /\ m0.status = x /\ m0.trans = None
      BY <1>3 DEF Blank
<1>5. m0 \in Message /\ m0.status \in Statuses
  <2>1. 1 \in ClOrdIDs /\ x \in Statuses
        BY <1>1, <1>2 DEF Statuses
  <2> QED BY <1>3, <1>4, <2>1 DEF Blank, Message, Optional, ExecTypes
<1>6. vQty' \in Qtys /\ vCum' \in 0..vQty' /\ Report(m0)
      BY <1>1, <1>2, <1>3
<1>7. PICK m : /\ Reports(m) /\ m.clordid = 1 /\ m.execType = x /\ m.status = x /\ m.trans = "NEW"
      BY <1>4, <1>5, <1>6, ReportIs
<1>8. m.type = "8"
      BY <1>7 DEF Reports
<1>9. Settles(m) = None
      BY <1>2, <1>7, <1>8, SettlesNothing
<1>10. ~unasked' => \A v : OrderFollows(v) /\ RequestsFollow(v) /\ Steady(v) =>
                              QtyAfter(v, m) = vQty' /\ IdAfter(v, m) = vClordid'
       BY <1>2, <1>7, <1>8, TermsStay
<1>11. /\ m.execType \notin {"PARTIALLY_FILLED", "FILLED"} /\ (m.execType = "CANCELED" <=> m.status = "CANCELED")
       /\ phase # "none" /\ phase' \in {"asked", "live", "canceled", "rejected"}
       /\ vClordid' \in 1..sent /\ m.clordid \in 1..sent
       BY <1>1, <1>2, <1>7
<1> QED BY <1>2, <1>7, <1>9, <1>10, <1>11, PlainSpoken

\* A request waits at the venue.
LEMMA ReceivedStep ==
    ASSUME SessionInv, NEW r \in unanswered, Received(r)
    PROVE  SessionInv'
<1>1. /\ vQty \in Qtys /\ vCum \in 0..vQty /\ MaxRequests \in Nat /\ ClOrdIDs = 1..MaxRequests + 1
      /\ phase # "none" => sent \in 1..MaxRequests + 1 /\ vClordid \in 1..sent
      /\ r.clordid \in 2..sent
      BY Begun DEF Asked
<1>2. PICK x, id, old : /\ x \in {"PENDING_REPLACE", "PENDING_CANCEL"} /\ id = r.clordid /\ old = vClordid
                        /\ phase = "live"
                        /\ UNCHANGED <<phase, vCum, vQty, vClordid, unanswered, sent, lastFill, unasked>>
                        /\ Report([Blank EXCEPT !.clordid = id, !.origClordid = old,
                                                !.execType = x, !.status = x])
      BY DEF Received
<1>3. PICK m0 : m0 = [Blank EXCEPT !.clordid = id, !.origClordid = old, !.execType = x, !.status = x]
      OBVIOUS
<1>4. /\ m0.type = "8" /\ m0.clordid = id /\ m0.execType = x /\ m0.status = x /\ m0.trans = None
      BY <1>3 DEF Blank
<1>5. m0 \in Message /\ m0.status \in Statuses
  <2>1. id \in ClOrdIDs /\ old \in ClOrdIDs /\ x \in Statuses
        BY <1>1, <1>2 DEF Statuses
  <2> QED BY <1>3, <1>4, <2>1 DEF Blank, Message, Optional, ExecTypes
<1>6. vQty' \in Qtys /\ vCum' \in 0..vQty' /\ Report(m0)
      BY <1>1, <1>2, <1>3
<1>7. PICK m : /\ Reports(m) /\ m.clordid = id /\ m.execType = x /\ m.status = x /\ m.trans = "NEW"
      BY <1>4, <1>5, <1>6, ReportIs
<1>8. m.type = "8"
      BY <1>7 DEF Reports
<1>9. Settles(m) = None
      BY <1>2, <1>7, <1>8, SettlesNothing
<1>10. ~unasked' => \A v : OrderFollows(v) /\ RequestsFollow(v) /\ Steady(v) =>
                              QtyAfter(v, m) = vQty' /\ IdAfter(v, m) = vClordid'
       BY <1>2, <1>7, <1>8, TermsStay
<1>11. /\ m.execType \notin {"PARTIALLY_FILLED", "FILLED"} /\ (m.execType = "CANCELED" <=> m.status = "CANCELED")
       /\ phase # "none" /\ phase' \in {"asked", "live", "canceled", "rejected"}
       /\ vClordid' \in 1..sent /\ m.clordid \in 1..sent
       BY <1>1, <1>2, <1>7
<1> QED BY <1>2, <1>7, <1>9, <1>10, <1>11, PlainSpoken

\* The venue cancels the order, asked or not.
LEMMA CancelStep ==
    ASSUME SessionInv, CancelUnasked \/ \E r \in unanswered : CancelOrder(r)
    PROVE  SessionInv'
<1>1. /\ vQty \in Qtys /\ vCum \in 0..vQty /\ MaxRequests \in Nat /\ ClOrdIDs = 1..MaxRequests + 1
      /\ phase # "none" => sent \in 1..MaxRequests + 1 /\ vClordid \in 1..sent
      /\ \A r \in unanswered : r.clordid \in 2..sent
      BY Begun DEF Asked
<1>2. PICK id, old : /\ phase = "live" /\ phase' = "canceled"
                     /\ UNCHANGED <<vCum, vQty, vClordid, sent, lastFill>>
                     /\ Report([Blank EXCEPT !.clordid = id, !.origClordid = old,
                                             !.execType = "CANCELED", !.status = "CANCELED"])
                     /\ \/ /\ id = vClordid /\ old = None
                           /\ unanswered' = unanswered /\ unasked' = TRUE
                        \/ /\ old = vClordid /\ unasked' = unasked
                           /\ \E r \in unanswered : /\ unanswered' = unanswered \ {r}
                                                    /\ id = r.clordid /\ r.type = "F"
  <2>1. CASE CancelUnasked
    <3>1. PICK id, b : /\ id = vClordid
                       /\ b = [Blank EXCEPT !.clordid = id, !.execType = "CANCELED", !.status = "CANCELED"]
          OBVIOUS
    <3>2. b = [type |-> "8", clordid |-> id, origClordid |-> None, qty |-> None,
               execId |-> None, execRefId |-> None, trans |-> None, execType |-> "CANCELED",
               status |-> "CANCELED", cum |-> None, shares |-> None, responseTo |-> None]
          BY <3>1 DEF Blank
    <3>3. PICK c : c = [Blank EXCEPT !.clordid = id, !.origClordid = None,
                                     !.execType = "CANCELED", !.status = "CANCELED"]
          OBVIOUS
    <3>5. c = [type |-> "8", clordid |-> id, origClordid |-> None, qty |-> None,
               execId |-> None, execRefId |-> None, trans |-> None, execType |-> "CANCELED",
               status |-> "CANCELED", cum |-> None, shares |-> None, responseTo |-> None]
          BY <3>3 DEF Blank
    <3>4. /\ phase = "live" /\ phase' = "canceled" /\ unanswered' = unanswered /\ unasked' = TRUE
          /\ UNCHANGED <<vCum, vQty, vClordid, sent, lastFill>> /\ Report(b)
          BY <2>1, <3>1 DEF CancelUnasked
    <3>6. Report([Blank EXCEPT !.clordid = id, !.origClordid = None,
                               !.execType = "CANCELED", !.status = "CANCELED"])
      <4>1. b = c
            BY <3>2, <3>5
      <4> QED BY <3>3, <3>4, <4>1
    <3> QED BY <3>1, <3>4, <3>6
  <2>2. CASE \E r \in unanswered : CancelOrder(r)
        BY <2>2 DEF CancelOrder
  <2> QED BY <2>1, <2>2
<1>3. PICK m0 : m0 = [Blank EXCEPT !.clordid = id, !.origClordid = old,
                                   !.execType = "CANCELED", !.status = "CANCELED"]
      OBVIOUS
<1>4. /\ m0.type = "8" /\ m0.clordid = id /\ m0.origClordid = old /\ m0.execType = "CANCELED"
      /\ m0.status = "CANCELED" /\ m0.trans = None
      BY <1>3 DEF Blank
<1>5. id \in 1..sent /\ old \in Optional(ClOrdIDs)
      BY <1>1, <1>2 DEF Optional
<1>6. m0 \in Message /\ m0.status \in Statuses
  <2>1. id \in ClOrdIDs /\ "CANCELED" \in Statuses
        BY <1>1, <1>2, <1>5 DEF Statuses
  <2> QED BY <1>3, <1>4, <1>5, <2>1 DEF Blank, Message, Optional, ExecTypes
<1>7. vQty' \in Qtys /\ vCum' \in 0..vQty' /\ Report(m0)
      BY <1>1, <1>2, <1>3
<1>8. PICK m : /\ Reports(m) /\ m.clordid = id /\ m.origClordid = old /\ m.execType = "CANCELED"
               /\ m.status = "CANCELED" /\ m.trans = "NEW"
      BY <1>4, <1>6, <1>7, ReportIs
<1>9. m.type = "8" /\ Settles(m) = "CANCEL"
      BY <1>8 DEF Reports, Settles
<1>10. \/ Answering(m) /\ Answers(m, m.clordid) /\ unasked' = unasked
       \/ unanswered' = unanswered /\ unasked' = TRUE
  <2>1. CASE unanswered' = unanswered /\ unasked' = TRUE
        BY <2>1
  <2>2. CASE /\ old = vClordid /\ unasked' = unasked
             /\ \E r \in unanswered : /\ unanswered' = unanswered \ {r}
                                      /\ id = r.clordid /\ r.type = "F"
    <3>1. PICK r \in unanswered : unanswered' = unanswered \ {r} /\ id = r.clordid /\ r.type = "F"
          BY <2>2
    <3>2. Entry(r).action = "CANCEL"
          BY <3>1 DEF Entry
    <3>3. old # None
      <4>1. old \in ClOrdIDs
            BY <1>1, <1>2, <2>2
      <4> QED BY <4>1, NotNone
    <3> QED BY <1>8, <1>9, <2>2, <3>1, <3>2, <3>3 DEF Answering, Answers
  <2> QED BY <1>2, <2>1, <2>2
<1>11. ~unasked' => \A v : OrderFollows(v) /\ RequestsFollow(v) /\ Steady(v) =>
                              QtyAfter(v, m) = vQty' /\ IdAfter(v, m) = vClordid'
  <2>1. CASE unasked' = TRUE
        BY <2>1
  <2>2. CASE unasked' = unasked
        BY <1>2, <1>8, <1>9, <2>2, TermsStay
  <2> QED BY <1>10, <2>1, <2>2
<1>12. /\ m.execType \notin {"PARTIALLY_FILLED", "FILLED"} /\ (m.execType = "CANCELED" <=> m.status = "CANCELED")
       /\ phase # "none" /\ phase' \in {"asked", "live", "canceled", "rejected"}
       /\ vClordid' \in 1..sent /\ m.clordid \in 1..sent
       BY <1>1, <1>2, <1>5, <1>8
<1> QED BY <1>2, <1>8, <1>10, <1>11, <1>12, PlainSpoken

\* The status a live order is restated with.
LEMMA WorkingIs == Working \in {"NEW", "FILLED", "PARTIALLY_FILLED"} /\ Working \in Statuses
BY DEF Working, Statuses

\* The venue makes an amendment that was asked for: its staged terms are the order's.
LEMMA ReplaceStep ==
    ASSUME SessionInv, NEW r \in unanswered, Replace(r)
    PROVE  SessionInv'
<1>1. /\ vQty \in Qtys /\ vCum \in 0..vQty /\ MaxRequests \in Nat /\ ClOrdIDs = 1..MaxRequests + 1
      /\ phase # "none" => sent \in 1..MaxRequests + 1 /\ vClordid \in 1..sent
      /\ MaxQty \in Nat /\ Qtys = 0..MaxQty
      BY Begun
<1>2. /\ unanswered \in SUBSET Message /\ r \in Message /\ r.clordid \in 2..sent
      /\ (r.type = "G" => r.qty \in 1..MaxQty)
      /\ \A q \in unanswered : q.clordid = r.clordid => q = r
      BY Begun DEF Asked
<1>3. PICK x, id, old : /\ x = Working /\ id = r.clordid /\ old = vClordid
                        /\ r.type = "G" /\ phase = "live" /\ r.qty > vCum
                        /\ unanswered' = unanswered \ {r} /\ vQty' = r.qty /\ vClordid' = r.clordid
                        /\ UNCHANGED <<phase, vCum, sent, lastFill, unasked>>
                        /\ Report([Blank EXCEPT !.clordid = id, !.origClordid = old,
                                                !.execType = "REPLACED", !.status = x])
      BY DEF Replace
<1>4. PICK m0 : m0 = [Blank EXCEPT !.clordid = id, !.origClordid = old, !.execType = "REPLACED", !.status = x]
      OBVIOUS
<1>5. /\ m0.type = "8" /\ m0.clordid = id /\ m0.origClordid = old /\ m0.execType = "REPLACED"
      /\ m0.status = x /\ m0.trans = None
      BY <1>4 DEF Blank
<1>6. x \in Statuses /\ x # "CANCELED"
      BY <1>3, WorkingIs
<1>7. id \in ClOrdIDs /\ old \in ClOrdIDs /\ id \in 1..sent
      BY <1>1, <1>2, <1>3
<1>8. m0 \in Message /\ m0.status \in Statuses
      BY <1>4, <1>5, <1>6, <1>7 DEF Blank, Message, Optional, ExecTypes, Statuses
<1>9. vQty' \in Qtys /\ vCum' \in 0..vQty' /\ Report(m0)
      BY <1>1, <1>2, <1>3, <1>4
<1>10. PICK m : /\ Reports(m) /\ m.clordid = id /\ m.origClordid = old /\ m.execType = "REPLACED"
                /\ m.status = x /\ m.trans = "NEW"
       BY <1>5, <1>8, <1>9, ReportIs
<1>11. m.type = "8" /\ Settles(m) = "REPLACE" /\ Confirms(m)
       BY <1>10 DEF Reports, Settles, Confirms
<1>12. Entry(r).action = "REPLACE" /\ Entry(r).qty = r.qty
       BY <1>2, <1>3, EntryParts
<1>13. Answering(m) /\ Answers(m, m.clordid)
  <2>1. old # None
        BY <1>7, NotNone
  <2> QED BY <1>3, <1>10, <1>11, <1>12, <2>1 DEF Answering, Answers
<1>14. ASSUME ~unasked', NEW v, OrderFollows(v), RequestsFollow(v), Steady(v)
       PROVE  QtyAfter(v, m) = vQty' /\ IdAfter(v, m) = vClordid'
  <2>1. PICK s, asked, i : s = v.pending /\ asked = unanswered /\ i = Answered(s, "REPLACE", id)
        OBVIOUS
  <2>2. s \in Seq(Request) /\ asked \in SUBSET Message /\ r \in asked /\ Holds(s, asked)
        BY <1>2, <1>3, <1>14, <2>1 DEF RequestsFollow, Steady
  <2>3. r.clordid # None /\ \A q \in asked : q.clordid = r.clordid => q = r
        BY <1>2, <1>3, <1>7, <2>1, NotNone
  <2>4. LET j == Answered(s, Entry(r).action, r.clordid)
        IN  j \in 1..Len(s) /\ s[j] = Entry(r) /\ Holds(Without(s, j), asked \ {r})
        BY <2>2, <2>3, HoldsClosed
  <2>5. i \in 1..Len(s) /\ s[i] = Entry(r)
        BY <1>3, <1>12, <2>1, <2>4
  <2>6. Taken(v, m) = i
    <3>1. "REPLACE" # None
          BY NotNone DEF Actions
    <3> QED BY <1>10, <1>11, <2>1, <3>1 DEF Taken
  <2>7. QtyAfter(v, m) = s[i].qty
        BY <1>11, <2>1, <2>5, <2>6 DEF QtyAfter
  <2>8. IdAfter(v, m) = id
        BY <1>10, <1>11 DEF IdAfter
  <2> QED BY <1>3, <1>12, <2>5, <2>7, <2>8
<1>15. /\ m.execType \notin {"PARTIALLY_FILLED", "FILLED"} /\ (m.execType = "CANCELED" <=> m.status = "CANCELED")
       /\ phase # "none" /\ phase' \in {"asked", "live", "canceled", "rejected"}
       /\ vClordid' \in 1..sent /\ m.clordid \in 1..sent
       BY <1>3, <1>6, <1>7, <1>10
<1> QED BY <1>3, <1>10, <1>13, <1>14, <1>15, PlainSpoken

\* The venue replaces the order's terms of its own accord.
LEMMA ReplaceUnaskedStep ==
    ASSUME SessionInv, ReplaceUnasked
    PROVE  SessionInv'
<1>1. /\ vQty \in Qtys /\ vCum \in 0..vQty /\ MaxRequests \in Nat /\ ClOrdIDs = 1..MaxRequests + 1
      /\ phase # "none" => sent \in 1..MaxRequests + 1 /\ vClordid \in 1..sent
      /\ MaxQty \in Nat /\ Qtys = 0..MaxQty
      BY Begun
<1>2. PICK x, id : /\ x = Working /\ id = vClordid /\ phase = "live"
                   /\ vQty' \in (vCum + 1)..MaxQty /\ unasked' = TRUE
                   /\ UNCHANGED <<phase, vCum, vClordid, unanswered, sent, lastFill>>
                   /\ Report([Blank EXCEPT !.clordid = id, !.execType = "REPLACED", !.status = x])
      BY DEF ReplaceUnasked
<1>3. PICK m0 : m0 = [Blank EXCEPT !.clordid = id, !.execType = "REPLACED", !.status = x]
      OBVIOUS
<1>4. /\ m0.type = "8" /\ m0.clordid = id /\ m0.execType = "REPLACED" /\ m0.status = x /\ m0.trans = None
      BY <1>3 DEF Blank
<1>5. x \in Statuses /\ x # "CANCELED"
      BY <1>2, WorkingIs
<1>6. id \in ClOrdIDs /\ id \in 1..sent
      BY <1>1, <1>2
<1>7. m0 \in Message /\ m0.status \in Statuses
      BY <1>3, <1>4, <1>5, <1>6 DEF Blank, Message, Optional, ExecTypes, Statuses
<1>8. vQty' \in Qtys /\ vCum' \in 0..vQty' /\ Report(m0)
      BY <1>1, <1>2, <1>3
<1>9. PICK m : /\ Reports(m) /\ m.clordid = id /\ m.execType = "REPLACED"
               /\ m.status = x /\ m.trans = "NEW"
      BY <1>4, <1>7, <1>8, ReportIs
<1>10. /\ m.execType \notin {"PARTIALLY_FILLED", "FILLED"} /\ (m.execType = "CANCELED" <=> m.status = "CANCELED")
       /\ phase # "none" /\ phase' \in {"asked", "live", "canceled", "rejected"}
       /\ vClordid' \in 1..sent /\ m.clordid \in 1..sent
       BY <1>2, <1>5, <1>6, <1>9
<1> QED BY <1>2, <1>9, <1>10, PlainSpoken

\* An execution fills the order further.
LEMMA FillStep ==
    ASSUME SessionInv, Fill
    PROVE  SessionInv'
<1>1. /\ vQty \in Qtys /\ vCum \in 0..vQty /\ MaxRequests \in Nat /\ ClOrdIDs = 1..MaxRequests + 1
      /\ phase # "none" => sent \in 1..MaxRequests + 1 /\ vClordid \in 1..sent
      /\ MaxQty \in Nat /\ Qtys = 0..MaxQty
      BY Begun
<1>2. PICK n \in 1..(vQty - vCum) :
        /\ vCum' = vCum + n /\ lastFill' = [execId |-> execs + 1, shares |-> n]
        /\ phase = "live" /\ UNCHANGED <<phase, vQty, vClordid, unanswered, sent, unasked>>
        /\ Report([Blank EXCEPT !.clordid = vClordid, !.execType = Working, !.status = Working,
                                !.shares = vCum' - vCum])
      BY DEF Fill
<1>3. vCum' - vCum = n /\ vCum' # 0 /\ vQty' \in Qtys /\ vCum' \in 0..vQty' /\ n \in Qtys
      /\ n \in Nat \ {0} /\ vCum <= vCum'
      BY <1>1, <1>2
<1>4. PICK x, id : x = Working /\ id = vClordid
      OBVIOUS
<1>5. x \in {"FILLED", "PARTIALLY_FILLED"} /\ x \in Statuses
      BY <1>3, <1>4, WorkingIs DEF Working
<1>6. PICK m0 : m0 = [Blank EXCEPT !.clordid = id, !.execType = x, !.status = x, !.shares = n]
      OBVIOUS
<1>7. Report(m0)
      BY <1>2, <1>3, <1>4, <1>6
<1>8. id \in ClOrdIDs /\ id \in 1..sent
      BY <1>1, <1>2, <1>4
<1>9. /\ m0.type = "8" /\ m0.clordid = id /\ m0.execType = x /\ m0.status = x /\ m0.trans = None
      /\ m0.shares = n
      BY <1>6 DEF Blank
<1>10. m0 \in Message /\ m0.status \in Statuses
       BY <1>3, <1>5, <1>6, <1>8, <1>9 DEF Blank, Message, Optional, ExecTypes
<1>11. PICK m : /\ Reports(m) /\ m.clordid = id /\ m.execType = x /\ m.status = x /\ m.trans = "NEW"
                /\ m.shares = n
       BY <1>3, <1>7, <1>9, <1>10, ReportIs
<1>12. ~IsBust(m) /\ ~IsCorrect(m) /\ m.type = "8" /\ m.shares # None
       BY <1>3, <1>11, NotNone DEF IsBust, IsCorrect, Reports
<1>13. PICK s, v : /\ Trail(s) /\ v = s[Len(wire)] /\ Steady(v)
                   /\ OrderFollows(v) /\ RequestsFollow(v) /\ FillsFollow(v)
       BY Begun
<1>14. Tallies(Marked(v.rows, m), v.seen \cup {m.execId}, vCum', lastFill')
  <2>1. PICK table, seen, cum, last : table = v.rows /\ seen = v.seen /\ cum = v.cum /\ last = lastFill
        OBVIOUS
  <2>2. /\ table \in Tables /\ Tallies(table, seen, cum, last) /\ cum \in Nat /\ cum = vCum
        /\ m \in Message /\ m.execId \in ExecIDs /\ m.execId \notin seen /\ m.execId = execs + 1
        BY <1>11, <1>13, <2>1, Numbered
  <2>3. BuildExecRow(m).fill /\ m.shares \in Nat \ {0}
        BY <1>3, <1>5, <1>11 DEF BuildExecRow
  <2>4. Tallies(Marked(table, m), seen \cup {m.execId}, cum + m.shares,
                [execId |-> m.execId, shares |-> m.shares])
        BY <1>12, <2>2, <2>3, FillTallies
  <2>5. cum + m.shares = vCum' /\ [execId |-> m.execId, shares |-> m.shares] = lastFill'
        BY <1>2, <1>11, <2>2
  <2> QED BY <2>1, <2>4, <2>5
<1>15. Settles(m) = None
       BY <1>5, <1>11, <1>12, SettlesNothing
<1>16. ~unasked' => QtyAfter(v, m) = vQty' /\ IdAfter(v, m) = vClordid'
  <2>1. ~unasked' => \A w : OrderFollows(w) /\ RequestsFollow(w) /\ Steady(w) =>
                               QtyAfter(w, m) = vQty' /\ IdAfter(w, m) = vClordid'
        BY <1>2, <1>5, <1>11, <1>12, TermsStay
  <2> QED BY <1>13, <2>1
<1>17. /\ (m.execType = "CANCELED" <=> m.status = "CANCELED")
       /\ phase # "none" /\ phase' \in {"asked", "live", "canceled", "rejected"}
       /\ vClordid' \in 1..sent /\ m.clordid \in 1..sent
       BY <1>2, <1>4, <1>8, <1>11
<1>18. /\ ~IsBust(m) /\ ~IsCorrect(m) => vCum <= vCum'
       /\ IsBust(m) \/ IsCorrect(m) => m.execRefId \in v.seen
       BY <1>3, <1>12
<1> QED BY <1>2, <1>11, <1>13, <1>14, <1>15, <1>16, <1>17, <1>18, ReportSpoken

\* The last fill is busted, or corrected.
LEMMA UndoStep ==
    ASSUME SessionInv, Bust \/ Correct
    PROVE  SessionInv'
<1>1. /\ vQty \in Qtys /\ vCum \in 0..vQty /\ MaxRequests \in Nat /\ ClOrdIDs = 1..MaxRequests + 1
      /\ phase # "none" => sent \in 1..MaxRequests + 1 /\ vClordid \in 1..sent
      /\ MaxQty \in Nat /\ Qtys = 0..MaxQty
      BY Begun
<1>2. PICK s, v : /\ Trail(s) /\ v = s[Len(wire)] /\ Steady(v)
                  /\ OrderFollows(v) /\ RequestsFollow(v) /\ FillsFollow(v)
      BY Begun
<1>3. lastFill # NoFill
      BY DEF Bust, Correct
<1>4. /\ lastFill.execId \in ExecIDs /\ lastFill.execId \in v.seen
      /\ lastFill.shares \in 1..vCum /\ lastFill.shares \in Qtys
      BY <1>2, <1>3, LastFillIs
<1>5. PICK x, id, ref, n : x = Working /\ id = vClordid /\ ref = lastFill.execId /\ n = lastFill.shares
      OBVIOUS
<1>6. PICK kind, shares :
        /\ phase = "live" /\ UNCHANGED <<phase, vQty, vClordid, unanswered, sent, unasked>>
        /\ \/ kind = "CANCEL" /\ shares = None /\ vCum' = vCum - n /\ lastFill' = NoFill
           \/ kind = "CORRECT" /\ shares = n /\ UNCHANGED <<vCum, lastFill>>
        /\ \E b : /\ Report(b)
                  /\ b = [Blank EXCEPT !.clordid = id, !.trans = kind, !.execRefId = ref, !.shares = shares,
                                       !.execType = x, !.status = x]
  <2>1. CASE Bust
    <3>1. PICK b : b = [Blank EXCEPT !.clordid = id, !.trans = "CANCEL", !.execRefId = ref,
                                     !.execType = x, !.status = x]
          OBVIOUS
    <3>2. PICK c : c = [Blank EXCEPT !.clordid = id, !.trans = "CANCEL", !.execRefId = ref, !.shares = None,
                                     !.execType = x, !.status = x]
          OBVIOUS
    <3>3. b = [type |-> "8", clordid |-> id, origClordid |-> None, qty |-> None,
               execId |-> None, execRefId |-> ref, trans |-> "CANCEL", execType |-> x,
               status |-> x, cum |-> None, shares |-> None, responseTo |-> None]
          BY <3>1 DEF Blank
    <3>4. c = [type |-> "8", clordid |-> id, origClordid |-> None, qty |-> None,
               execId |-> None, execRefId |-> ref, trans |-> "CANCEL", execType |-> x,
               status |-> x, cum |-> None, shares |-> None, responseTo |-> None]
          BY <3>2 DEF Blank
    <3>5. b = c
          BY <3>3, <3>4
    <3>6. /\ phase = "live" /\ UNCHANGED <<phase, vQty, vClordid, unanswered, sent, unasked>>
          /\ vCum' = vCum - n /\ lastFill' = NoFill
          BY <1>5, <2>1 DEF Bust
    <3>7. Report(b)
          BY <1>5, <2>1, <3>1 DEF Bust
    <3> QED BY <3>2, <3>5, <3>6, <3>7
  <2>2. CASE Correct
        BY <1>5, <2>2 DEF Correct
  <2> QED BY <2>1, <2>2
<1>7. PICK m0 : /\ Report(m0)
                /\ m0 = [Blank EXCEPT !.clordid = id, !.trans = kind, !.execRefId = ref, !.shares = shares,
                                      !.execType = x, !.status = x]
      BY <1>6
<1>8. /\ id \in ClOrdIDs /\ id \in 1..sent /\ ref \in ExecIDs /\ shares \in Optional(Qtys)
      /\ kind \in {"CANCEL", "CORRECT"}
      BY <1>1, <1>4, <1>5, <1>6 DEF Optional
<1>9. x \in {"NEW", "FILLED", "PARTIALLY_FILLED"} /\ x \in Statuses
      BY <1>5, WorkingIs
<1>10. /\ m0.type = "8" /\ m0.clordid = id /\ m0.execType = x /\ m0.status = x /\ m0.trans = kind
       /\ m0.shares = shares /\ m0.execRefId = ref
       BY <1>7 DEF Blank
<1>11. m0 \in Message /\ m0.status \in Statuses
       BY <1>7, <1>8, <1>9, <1>10 DEF Blank, Message, Optional, ExecTypes
<1>12. vQty' \in Qtys /\ vCum' \in 0..vQty'
       BY <1>1, <1>4, <1>5, <1>6
<1>13. kind # None
       BY <1>8, NotNone
<1>14. PICK m : /\ Reports(m) /\ m.clordid = id /\ m.execType = x /\ m.status = x /\ m.trans = kind
                /\ m.shares = shares /\ m.execRefId = ref
  <2>1. m0 \in Message /\ m0.type = "8" /\ m0.status \in Statuses /\ Report(m0)
        BY <1>7, <1>10, <1>11
  <2>2. PICK m : /\ Reports(m)
                 /\ m.clordid = m0.clordid /\ m.execRefId = m0.execRefId /\ m.execType = m0.execType
                 /\ m.status = m0.status /\ m.shares = m0.shares
                 /\ m.trans = IF m0.trans = None THEN "NEW" ELSE m0.trans
        BY <1>12, <2>1, ReportIs
  <2>3. m.trans = kind
        BY <1>10, <1>13, <2>2
  <2> QED BY <1>10, <2>2, <2>3
<1>15. Tallies(Marked(v.rows, m), v.seen \cup {m.execId}, vCum', lastFill')
  <2>1. PICK table, seen, cum, last : table = v.rows /\ seen = v.seen /\ cum = v.cum /\ last = lastFill
        OBVIOUS
  <2>2. /\ table \in Tables /\ Tallies(table, seen, cum, last) /\ cum \in Nat /\ cum = vCum
        /\ m \in Message /\ m.execId \in ExecIDs /\ m.execId \notin seen
        BY <1>2, <1>14, <2>1, Numbered
  <2>3. last # NoFill /\ m.execRefId = last.execId /\ n = last.shares
        BY <1>3, <1>5, <1>14, <2>1
  <2>4. CASE kind = "CANCEL" /\ vCum' = vCum - n /\ lastFill' = NoFill
    <3>1. IsBust(m)
          BY <1>14, <2>4 DEF IsBust
    <3>2. Tallies(Marked(table, m), seen \cup {m.execId}, cum - last.shares, NoFill)
          BY <2>2, <2>3, <3>1, BustTallies
    <3>3. cum - last.shares = vCum'
          BY <2>2, <2>3, <2>4
    <3> QED BY <2>1, <2>4, <3>2, <3>3
  <2>5. CASE kind = "CORRECT" /\ shares = n /\ UNCHANGED <<vCum, lastFill>>
    <3>1. IsCorrect(m) /\ m.shares = last.shares
          BY <1>14, <2>3, <2>5 DEF IsCorrect
    <3>2. Tallies(Marked(table, m), seen \cup {m.execId}, cum, last)
          BY <2>2, <2>3, <3>1, CorrectTallies
    <3> QED BY <2>1, <2>2, <2>5, <3>2
  <2> QED BY <1>6, <2>4, <2>5
<1>16. m.type = "8" /\ (IsBust(m) \/ IsCorrect(m)) /\ m.execRefId \in v.seen
       BY <1>4, <1>5, <1>8, <1>14 DEF Reports, IsBust, IsCorrect
<1>17. Settles(m) = None
       BY <1>9, <1>14, <1>16, SettlesNothing
<1>18. ~unasked' => QtyAfter(v, m) = vQty' /\ IdAfter(v, m) = vClordid'
  <2>1. ~unasked' => \A w : OrderFollows(w) /\ RequestsFollow(w) /\ Steady(w) =>
                               QtyAfter(w, m) = vQty' /\ IdAfter(w, m) = vClordid'
        BY <1>6, <1>9, <1>14, <1>16, TermsStay
  <2> QED BY <1>2, <2>1
<1>19. /\ (m.execType = "CANCELED" <=> m.status = "CANCELED")
       /\ phase # "none" /\ phase' \in {"asked", "live", "canceled", "rejected"}
       /\ vClordid' \in 1..sent /\ m.clordid \in 1..sent
       BY <1>5, <1>6, <1>8, <1>14, <1>1
<1>20. ~IsBust(m) /\ ~IsCorrect(m) => vCum <= vCum'
       BY <1>16
<1>21. /\ Settles(m) = None /\ unanswered' = unanswered /\ unasked' = unasked
       /\ sent' = sent /\ Reports(m)
       BY <1>6, <1>14, <1>17
<1>22. IsBust(m) \/ IsCorrect(m) => m.execRefId \in v.seen
       BY <1>16
<1> QED BY <1>2, <1>15, <1>18, <1>19, <1>20, <1>21, <1>22, ReportSpoken

\* The venue refuses a request, and restates the order's status.
LEMMA RejectStep ==
    ASSUME SessionInv, RejectsCarryStatus, NEW r \in unanswered, RejectRequest(r)
    PROVE  SessionInv'
<1>1. /\ SessionTypes /\ Asked /\ vQty \in Qtys /\ vCum \in 0..vQty /\ MaxRequests \in Nat
      /\ ClOrdIDs = 1..MaxRequests + 1 /\ sent \in 0..MaxRequests + 1
      /\ phase # "none" => sent \in 1..MaxRequests + 1 /\ vClordid \in 1..sent
      BY Begun
<1>2. /\ r \in Message /\ r.clordid \in 2..sent
      BY <1>1 DEF Asked
<1>3. phase # "none"
      BY <1>1, <1>2 DEF Asked
<1>4. PICK x, id, old, a :
        /\ x = (IF phase = "canceled" THEN "CANCELED" ELSE Working) /\ id = r.clordid /\ old = vClordid
        /\ a = (IF r.type = "G" THEN "REPLACE" ELSE "CANCEL")
        /\ unanswered' = unanswered \ {r} /\ vStatus' = x
        /\ UNCHANGED <<phase, vCum, vQty, vClordid, sent, execs, lastFill, unasked>>
        /\ Capture([Blank EXCEPT !.type = "9", !.clordid = id, !.origClordid = old,
                                 !.responseTo = a, !.status = x])
      BY DEF RejectRequest
<1>5. PICK m : m = [Blank EXCEPT !.type = "9", !.clordid = id, !.origClordid = old,
                                 !.responseTo = a, !.status = x]
      OBVIOUS
<1>6. /\ m.type = "9" /\ m.clordid = id /\ m.origClordid = old /\ m.responseTo = a /\ m.status = x
      /\ m.execType = None
      BY <1>5 DEF Blank
<1>7. x \in Statuses /\ a \in Actions /\ id \in ClOrdIDs /\ old \in ClOrdIDs /\ id \in 1..sent
  <2>1. x \in Statuses
        BY <1>4, WorkingIs DEF Statuses
  <2>2. id \in 1..sent /\ old \in 1..sent /\ a \in Actions
        BY <1>1, <1>2, <1>3, <1>4 DEF Actions
  <2> QED BY <1>1, <1>3, <2>1, <2>2
<1>8. m \in Message
      BY <1>5, <1>7 DEF Blank, Message, Optional
<1>9. wire' = Append(wire, m) /\ UNCHANGED <<chainVars, heard>>
      BY <1>4, <1>5 DEF Capture
<1>10. x # None /\ a # None /\ old # None
       BY <1>7, NotNone
<1>11. PICK s, v : /\ Trail(s) /\ v = s[Len(wire)] /\ Steady(v)
                   /\ OrderFollows(v) /\ RequestsFollow(v) /\ FillsFollow(v)
       BY Begun
<1>12. Fits(v, m)
       BY <1>3, <1>6, <1>8, <1>10, <1>11 DEF Fits, OrderFollows
<1>13. Answering(m) /\ Answers(m, m.clordid)
  <2>1. Settles(m) = a
        BY <1>6 DEF Settles
  <2>2. Entry(r).action = a
        BY <1>4 DEF Entry
  <2> QED BY <1>4, <1>6, <1>10, <2>1, <2>2 DEF Answering, Answers
<1>14. Closes(m)
       BY <1>4, <1>6, <1>13 DEF Closes, Answering
<1>15. unasked \in BOOLEAN /\ execs \in {0} \cup ExecIDs
       /\ phase \in {"none", "asked", "live", "canceled", "rejected"}
       BY <1>1 DEF SessionTypes
<1>16. Going(m)
       BY <1>1, <1>3, <1>4, <1>6, <1>7 DEF Going
<1>17. SessionTypes'
  <2>1. vStatus' \in Optional(Statuses)
        BY <1>4, <1>7 DEF Optional
  <2> QED BY <1>1, <1>4, <1>8, <1>9, <1>15, <2>1, TypesGoOn
<1>18. OrderFollows(After(v, m))'
  <2>1. /\ ~unasked' => QtyAfter(v, m) = vQty' /\ IdAfter(v, m) = vClordid'
        /\ StatusAfter(v, m) = vStatus'
        BY <1>4, <1>6, <1>11 DEF QtyAfter, IdAfter, OrderFollows, Confirms, StatusAfter
  <2>2. phase' # "none"
        BY <1>3, <1>4
  <2> QED BY <2>1, <2>2, OrderGoesOn
<1>19. RequestsFollow(After(v, m))'
  <2>1. m.type \notin {"G", "F"} /\ Answering(m) /\ unasked' = unasked
        BY <1>4, <1>6, <1>13
  <2> QED BY <1>1, <1>8, <1>11, <2>1, RequestsGoOn
<1>20. FillsFollow(After(v, m))'
  <2>1. m.type \in {"D", "G", "F", "9"} /\ m.type # "D" /\ UNCHANGED <<vCum, execs, lastFill>>
        BY <1>4, <1>6
  <2> QED BY <1>11, <2>1, FillsRest
<1>21. /\ m.type = "G" => m.qty \in 1..MaxQty
       /\ unasked' \in BOOLEAN
       /\ unasked' = FALSE => ~unasked /\ (Opens(m) \/ Closes(m) \/ Tells(m))
       BY <1>4, <1>6, <1>14, <1>15
<1> QED BY <1>9, <1>11, <1>12, <1>16, <1>17, <1>18, <1>19, <1>20, <1>21, Spoken

-----------------------------------------------------------------------------
\* The cache's steps

\* A row that shows an end shows one from then on.
LEMMA MarkStays ==
    ASSUME NEW table \in Tables, NEW m \in Message, m.execId \in ExecIDs,
           IsBust(m) \/ IsCorrect(m) => m.execRefId \in ExecIDs,
           NEW f \in ExecIDs,
           \/ f # m.execId /\ table[f] # None /\ table[f].disposition # "NORMAL"
           \/ f = m.execRefId /\ IsBust(m)
    PROVE  Marked(table, m)[f] # None /\ Marked(table, m)[f].disposition # "NORMAL"
<1>1. PICK own, e, row : e = m.execId /\ row = BuildExecRow(m) /\ own = Rewritten(table, e, row)
      OBVIOUS
<1>2. e \in Optional(ExecIDs) /\ row \in Optional(ExecRow) /\ e # None
      BY <1>1, OwnRow, NotNone DEF Optional
<1>3. /\ own \in Tables /\ \A g \in Optional(ExecIDs) : g # e => own[g] = table[g]
      BY <1>1, <1>2, RewrittenParts
<1>4. f \in Optional(ExecIDs)
      BY DEF Optional
<1>5. /\ ~IsBust(m) /\ ~IsCorrect(m) => Marked(table, m) = own
      /\ m.execRefId # None /\ IsBust(m) =>
            Marked(table, m) = Rewritten(own, m.execRefId, Reemitted(own[m.execRefId], "BUSTED", None))
      /\ m.execRefId # None /\ IsCorrect(m) =>
            Marked(table, m) = Rewritten(own, m.execRefId, Reemitted(own[m.execRefId], "CORRECTED", m.shares))
      BY <1>1, <1>2, MarkedParts
<1>6. CASE ~IsBust(m) /\ ~IsCorrect(m)
      BY <1>1, <1>3, <1>4, <1>5, <1>6
<1>7. CASE IsBust(m) \/ IsCorrect(m)
  <2>1. PICK d, shares, g, old, new :
          /\ g = m.execRefId /\ old = own[g] /\ new = Reemitted(old, d, shares)
          /\ Marked(table, m) = Rewritten(own, g, new)
          /\ d \in {"BUSTED", "CORRECTED"} /\ shares \in Optional(Qtys)
    <3>1. m.execRefId # None
          BY <1>7, NotNone
    <3>2. None \in Optional(Qtys) /\ m.shares \in Optional(Qtys)
          BY DEF Message, Optional
    <3>3. CASE IsBust(m)
          BY <1>5, <3>1, <3>2, <3>3
    <3>4. CASE IsCorrect(m)
          BY <1>5, <3>1, <3>2, <3>4
    <3> QED BY <1>7, <3>3, <3>4
  <2>2. g \in Optional(ExecIDs)
        BY <1>7, <2>1 DEF Optional
  <2>3. old \in Optional(ExecRow)
        BY <1>3, <2>1, <2>2 DEF Tables
  <2>4. d \in {"NORMAL", "BUSTED", "CORRECTED", "DK"}
        BY <2>1
  <2>5. new \in ExecRow /\ new \in Optional(ExecRow) /\ new.disposition = d
    <3>1. shares \in Optional(Qtys)
          BY <2>1
    <3>2. LET made == Reemitted(old, d, shares)
          IN  made \in ExecRow /\ made \in Optional(ExecRow) /\ made.disposition = d
          BY <2>3, <2>4, <3>1, MarkedRow
    <3>3. new = Reemitted(old, d, shares)
          BY <2>1
    <3> QED BY <3>2, <3>3
  <2>6. /\ Rewritten(own, g, new)[g] = new
        /\ \A h \in Optional(ExecIDs) : h # g => Rewritten(own, g, new)[h] = own[h]
        BY <1>3, <2>2, <2>5, RewrittenParts
  <2>7. CASE f = g
    <3>1. new # None /\ new.disposition # "NORMAL"
          BY <2>1, <2>5, NotNone
    <3> QED BY <2>1, <2>6, <2>7, <3>1
  <2>8. CASE f # g
    <3>1. Marked(table, m)[f] = table[f] /\ f # m.execId /\ table[f] # None /\ table[f].disposition # "NORMAL"
          BY <1>1, <1>3, <1>4, <2>1, <2>6, <2>8
    <3> QED BY <3>1
  <2> QED BY <2>7, <2>8
<1> QED BY <1>6, <1>7

\* An execution that is not known marks another.
LEMMA DontKnowMarks ==
    ASSUME NEW table \in Tables, NEW e \in ExecIDs, NEW f \in ExecIDs,
           table[f] # None, table[f].disposition # "NORMAL"
    PROVE  LET t == [table EXCEPT ![e] = Reemitted(@, "DK", None)]
           IN  t[f] # None /\ t[f].disposition # "NORMAL"
<1>1. PICK t, old, new : /\ t = [table EXCEPT ![e] = Reemitted(@, "DK", None)]
                         /\ old = table[e] /\ new = Reemitted(old, "DK", None)
      OBVIOUS
<1>2. e \in Optional(ExecIDs) /\ f \in Optional(ExecIDs)
      BY DEF Optional
<1>3. t[e] = new /\ (f # e => t[f] = table[f])
      BY <1>1, <1>2 DEF Tables
<1>4. old \in Optional(ExecRow) /\ None \in Optional(Qtys)
      BY <1>1, <1>2 DEF Tables, Optional
<1>5. new \in ExecRow /\ new.disposition = "DK"
      BY <1>1, <1>4, MarkedRow
<1>6. new # None
      BY <1>5, NotNone
<1> QED BY <1>1, <1>3, <1>5, <1>6

LEMMA ApplyNotes ==
    ASSUME SessionTypes, ChainSound, HeardNoted, NEW m, Fits(View, m), Steady(View),
           View' = After(View, m), ChainSound',
           heard' = heard \cup (IF m.type = "8" THEN {m} ELSE {})
    PROVE  HeardNoted'
<1>1. PICK v, w : v = View /\ w = After(v, m)
      OBVIOUS
<1>2. /\ v.seen = execIds /\ v.rows = execRows
      BY <1>1, ViewParts
<1>3. open' /\ execIds' = SeenAfter(v, m) /\ execRows' = RowsAfter(v, m)
  <2>1. View' = w
        BY <1>1
  <2>2. w.open = TRUE /\ w.seen = SeenAfter(v, m) /\ w.rows = RowsAfter(v, m)
        BY <1>1, AfterParts
  <2>3. (View.open = open /\ View.seen = execIds /\ View.rows = execRows)'
        BY ViewParts, PTL
  <2> QED BY <2>1, <2>2, <2>3
<1>4. Fits(v, m) /\ m \in Message /\ v.rows \in Tables
      BY <1>1 DEF Fits, Steady, Tables
<1>5. execIds \subseteq ExecIDs /\ execIds \subseteq execIds'
  <2>1. execIds \subseteq ExecIDs
        BY DEF ChainSound, ChainTypeOK
  <2> QED BY <1>2, <1>3, <2>1 DEF SeenAfter
<1>6. m.type = "8" => m.execId \in ExecIDs /\ m.execId \notin execIds
      BY <1>2, <1>4 DEF Fits, Message, Optional
<1>7. m.type = "Q" => m.execId \in ExecIDs
      BY <1>4 DEF Fits, Message, Optional
<1>8. m.type = "8" /\ (IsBust(m) \/ IsCorrect(m)) => m.execRefId \in execIds
      BY <1>2, <1>4 DEF Fits
<1>9. ASSUME NEW f \in execIds, execRows[f] # None, execRows[f].disposition # "NORMAL"
      PROVE  execRows'[f] # None /\ execRows'[f].disposition # "NORMAL"
  <2>1. PICK table : table = v.rows
        OBVIOUS
  <2>2. f \in ExecIDs /\ table \in Tables /\ table[f] # None /\ table[f].disposition # "NORMAL"
        BY <1>2, <1>4, <1>5, <1>9, <2>1
  <2>3. CASE m.type = "8"
    <3>1. execRows' = Marked(table, m)
          BY <1>3, <2>1, <2>3 DEF RowsAfter
    <3>2. /\ m.execId \in ExecIDs /\ f # m.execId
          /\ IsBust(m) \/ IsCorrect(m) => m.execRefId \in ExecIDs
          BY <1>5, <1>6, <1>8, <1>9, <2>3
    <3>3. Marked(table, m)[f] # None /\ Marked(table, m)[f].disposition # "NORMAL"
          BY <1>4, <2>2, <3>2, MarkStays
    <3> QED BY <3>1, <3>3
  <2>4. CASE m.type = "Q"
    <3>1. PICK e : e = m.execId
          OBVIOUS
    <3>2. execRows' = [table EXCEPT ![e] = Reemitted(@, "DK", None)] /\ e \in ExecIDs
          BY <1>3, <1>7, <2>1, <2>4, <3>1 DEF RowsAfter
    <3>3. LET t == [table EXCEPT ![e] = Reemitted(@, "DK", None)]
          IN  t[f] # None /\ t[f].disposition # "NORMAL"
          BY <2>2, <3>2, DontKnowMarks
    <3> QED BY <3>2, <3>3
  <2>5. CASE m.type \notin {"8", "Q"}
        BY <1>2, <1>3, <1>9, <2>5 DEF RowsAfter
  <2> QED BY <2>3, <2>4, <2>5
<1>10. ASSUME NEW h \in heard
       PROVE  /\ h \in Message /\ h.type = "8" /\ h.execId \in execIds'
              /\ IsBust(h) => /\ h.execRefId \in execIds'
                              /\ execRows'[h.execRefId] # None
                              /\ execRows'[h.execRefId].disposition # "NORMAL"
  <2>1. /\ h \in Message /\ h.type = "8" /\ h.execId \in execIds
        /\ IsBust(h) => /\ h.execRefId \in execIds
                        /\ execRows[h.execRefId] # None
                        /\ execRows[h.execRefId].disposition # "NORMAL"
        BY <1>10 DEF HeardNoted
  <2> QED BY <1>5, <1>9, <2>1
<1>11. ASSUME m.type = "8"
       PROVE  /\ m.execId \in execIds'
              /\ IsBust(m) => /\ m.execRefId \in execIds'
                              /\ execRows'[m.execRefId] # None
                              /\ execRows'[m.execRefId].disposition # "NORMAL"
  <2>1. m.execId \in execIds'
        BY <1>3, <1>11 DEF SeenAfter
  <2>2. ASSUME IsBust(m)
        PROVE  /\ m.execRefId \in execIds'
               /\ execRows'[m.execRefId] # None
               /\ execRows'[m.execRefId].disposition # "NORMAL"
    <3>1. PICK table, f : table = v.rows /\ f = m.execRefId
          OBVIOUS
    <3>2. f \in execIds /\ f \in ExecIDs /\ m.execId \in ExecIDs /\ table \in Tables
          BY <1>4, <1>5, <1>6, <1>8, <1>11, <2>2, <3>1
    <3>3. execRows' = Marked(table, m)
          BY <1>3, <1>11, <3>1 DEF RowsAfter
    <3>4. Marked(table, m)[f] # None /\ Marked(table, m)[f].disposition # "NORMAL"
      <4>1. IsBust(m) \/ IsCorrect(m) => m.execRefId \in ExecIDs
            BY <3>1, <3>2
      <4>2. f = m.execRefId /\ IsBust(m)
            BY <2>2, <3>1
      <4> QED BY <1>4, <3>2, <4>1, <4>2, MarkStays
    <3> QED BY <1>5, <3>1, <3>2, <3>3, <3>4
  <2> QED BY <2>1, <2>2
<1>12. \A h \in heard' : h \in heard \/ (h = m /\ m.type = "8")
       OBVIOUS
<1> QED BY <1>3, <1>4, <1>10, <1>11, <1>12 DEF HeardNoted

LEMMA AheadStays ==
    ASSUME NEW v, Ahead(v), UNCHANGED venueVars
    PROVE  Ahead(v)'
<1>1. OrderFollows(v) /\ RequestsFollow(v) /\ FillsFollow(v)
      BY DEF Ahead
<1>2. OrderFollows(v)'
      BY <1>1 DEF OrderFollows, venueVars
<1>3. RequestsFollow(v)'
  <2>1. PICK asked : asked = unanswered
        OBVIOUS
  <2>2. unanswered' = asked /\ unasked' = unasked
        BY <2>1 DEF venueVars
  <2>3. NoMore(v.pending, asked) /\ (~unasked => Holds(v.pending, asked))
        BY <1>1, <2>1 DEF RequestsFollow
  <2> QED BY <2>2, <2>3 DEF RequestsFollow
<1>4. FillsFollow(v)'
  <2>1. PICK last, c, n : last = lastFill /\ c = vCum /\ n = execs
        OBVIOUS
  <2>2. lastFill' = last /\ vCum' = c /\ execs' = n
        BY <2>1 DEF venueVars
  <2>3. v.cum = c /\ v.seen = 1..n /\ Tallies(v.rows, v.seen, v.cum, last)
        BY <1>1, <2>1 DEF FillsFollow
  <2> QED BY <2>2, <2>3 DEF FillsFollow
<1> QED BY <1>2, <1>3, <1>4 DEF Ahead

\* The cache hears the next message.
LEMMA ApplyStep ==
    ASSUME SessionInv, Apply
    PROVE  SessionInv'
<1>1. /\ wire # <<>> /\ Handle(Head(wire)) /\ wire' = Tail(wire)
      /\ heard' = heard \cup (IF Head(wire).type = "8" THEN {Head(wire)} ELSE {})
      /\ UNCHANGED venueVars
      BY DEF Apply
<1>2. SessionTypes /\ Asked /\ ChainSound /\ HeardNoted
      BY DEF SessionInv
<1>3. PICK s : Trail(s) /\ Ahead(s[Len(wire)])
      BY DEF SessionInv
<1>4. PICK m : m = Head(wire)
      OBVIOUS
<1>5. /\ Len(wire) \in Nat /\ 1 \in 1..Len(wire) /\ 0 \in 0..Len(wire) /\ m = wire[1] /\ m \in Message
      /\ wire' \in Seq(Message) /\ Len(wire') = Len(wire) - 1
      /\ \A j \in 1..Len(wire') : wire'[j] = wire[j + 1] /\ j + 1 \in 1..Len(wire)
      BY <1>1, <1>2, <1>4 DEF SessionTypes
<1>6. s[0] = View /\ Steady(s[0]) /\ Fits(s[1 - 1], wire[1])
      BY <1>3, <1>5 DEF Trail
<1>7. Fits(View, m) /\ Steady(View)
      BY <1>5, <1>6
<1>8. ChainSound' /\ View' = After(View, m)
      BY <1>1, <1>2, <1>4, <1>7, HandleIsAfter
<1>9. UNCHANGED <<unanswered, unasked>>
      BY <1>1 DEF venueVars
<1>10. \E t : Trail(t)' /\ t[Len(wire')] = s[Len(wire)]
       BY <1>1, <1>2, <1>3, <1>4, <1>8, <1>9, TrailShortens
<1>11. PICK t, v : Trail(t)' /\ v = s[Len(wire)] /\ t[Len(wire')] = v
       BY <1>10
<1>12. Ahead(v)'
       BY <1>1, <1>3, <1>11, AheadStays
<1>13. Ahead(t[Len(wire)])'
       BY <1>11, <1>12
<1>14. HeardNoted'
       BY <1>1, <1>2, <1>4, <1>7, <1>8, ApplyNotes
<1>15. SessionTypes'
       BY <1>1, <1>2, <1>5, <1>4 DEF SessionTypes, venueVars
<1>16. Asked'
  <2>1. \A j \in 1..Len(wire') : wire'[j].clordid \in {None} \cup 1..sent
        BY <1>2, <1>5 DEF Asked
  <2> QED BY <1>1, <1>2, <2>1 DEF Asked, venueVars
<1> QED BY <1>8, <1>11, <1>13, <1>14, <1>15, <1>16 DEF SessionInv

\* A report that comes in once more changes nothing at all.
LEMMA RedeliveredStep ==
    ASSUME SessionInv, Redelivered
    PROVE  UNCHANGED sessionVars
<1>1. PICK m \in heard : Handle(m) /\ UNCHANGED <<wire, venueVars, heard>>
      BY DEF Redelivered
<1>2. SessionTypes /\ ChainSound /\ HeardNoted
      BY DEF SessionInv
<1>3. open /\ m \in Message /\ m.type = "8" /\ m.execId \in execIds
      BY <1>2 DEF HeardNoted
<1>4. ExecutionReport(m)
      BY <1>1, <1>3 DEF Handle, NewOrder, ReplaceRequest, CancelRequest, CancelReject, DontKnowTrade
<1>5. UNCHANGED <<ordStatus, cumQty, flight, rows, clordid>>
      BY <1>1, <1>2, <1>3, ReplayIsDuplicate DEF ReplayChangesNothing
<1>6. PICK s : Trail(s)
      BY DEF SessionInv
<1>7. orderQty \in 1..MaxQty
  <2>1. s[0] = View /\ Steady(s[0])
    <3>1. 0 \in 0..Len(wire)
          BY <1>2 DEF SessionTypes
    <3> QED BY <1>6, <3>1 DEF Trail
  <2>2. Steady(View)
        BY <2>1
  <2> QED BY <1>3, <2>2, ViewParts DEF Steady
<1>8. orderQty # 0
      BY <1>7
<1>9. UNCHANGED <<orderQty, open>>
  <2>1. Duplicate(m)
        BY <1>2, <1>3 DEF ChainSound, Duplicate
  <2>2. ReportDuplicate(m) /\ open' = TRUE
        BY <1>4, <2>1 DEF ExecutionReport, ReportStale, ReportCurrent
  <2>3. open \in BOOLEAN
        BY <1>2 DEF ChainSound, ChainTypeOK
  <2> QED BY <1>3, <1>8, <2>2, <2>3 DEF ReportDuplicate, FillTerms
<1> QED BY <1>1, <1>5, <1>9 DEF sessionVars, chainVars, published

LEMMA RestStep ==
    ASSUME SessionInv, UNCHANGED sessionVars
    PROVE  SessionInv'
<1>1. UNCHANGED <<chainVars, wire, venueVars, heard>>
      BY DEF sessionVars
<1>2. SessionTypes /\ Asked /\ ChainSound /\ HeardNoted
      BY DEF SessionInv
<1>3. PICK s, v : Trail(s) /\ v = s[Len(wire)] /\ Ahead(v)
      BY DEF SessionInv
<1>4. ChainSound' /\ HeardNoted' /\ View' = View
      BY <1>1, <1>2, ChainRests
<1>5. Ahead(v)'
      BY <1>1, <1>3, AheadStays
<1>6. Trail(s)'
      BY <1>1, <1>3, <1>4 DEF Trail, venueVars
<1>7. Ahead(s[Len(wire)])'
      BY <1>1, <1>3, <1>5
<1>8. SessionTypes' /\ Asked'
      BY <1>1, <1>2 DEF SessionTypes, Asked, venueVars
<1> QED BY <1>4, <1>6, <1>7, <1>8 DEF SessionInv

\* Before anything is said.
LEMMA SessionBegins == Init => SessionInv
<1> SUFFICES ASSUME Init PROVE SessionInv
    OBVIOUS
<1>1. ChainInit /\ wire = <<>> /\ unanswered = {} /\ heard = {} /\ phase = "none" /\ lastFill = NoFill
      /\ vCum = 0 /\ vQty = 0 /\ vClordid = None /\ vStatus = None /\ sent = 0 /\ execs = 0
      /\ unasked = FALSE
      BY DEF Init
<1>2. ChainSound
      BY <1>1, SoundInit
<1>3. MaxRequests \in Nat /\ MaxQty \in Nat /\ Qtys = 0..MaxQty /\ 0 \in Qtys
      BY SessionAssumption, ChainAssumption DEF Qtys
<1>4. SessionTypes
  <2>1. wire \in Seq(Message) /\ heard \subseteq Message
        BY <1>1
  <2>2. sent \in 0..MaxRequests + 1
        BY <1>1, <1>3
  <2> QED BY <1>1, <2>1, <2>2 DEF SessionTypes, Optional
<1>5. HeardNoted
      BY <1>1 DEF HeardNoted
<1>6. Asked
  <2>1. IsFiniteSet({})
        BY FS_EmptySet
  <2> QED BY <1>1, <1>3, <2>1 DEF Asked
<1>7. PICK v : v = View
      OBVIOUS
<1>8. /\ v.open = FALSE /\ v.status = None /\ v.cum = 0 /\ v.qty = 0 /\ v.id = None
      /\ v.pending = <<>> /\ v.seen = {} /\ v.rows = [e \in Optional(ExecIDs) |-> None]
      BY <1>1, <1>7, ViewParts DEF ChainInit
<1>9. v.pending \in Seq(Request) /\ Len(v.pending) = 0 /\ v.rows \in Tables
      BY <1>8 DEF Tables, Optional
<1>10. Steady(v)
       BY <1>8, <1>9 DEF Steady, Tables
<1>11. PICK s : s = [i \in 0..Len(wire) |-> v]
       OBVIOUS
<1>12. Len(wire) = 0 /\ 0..Len(wire) = {0} /\ 1..Len(wire) = {} /\ s[0] = v
       BY <1>1, <1>11
<1>13. PendingIds(v.pending) = Awaited(wire, unanswered, 0)
  <2>1. PendingIds(v.pending) = {}
        BY <1>8 DEF PendingIds
  <2>2. 0 + 1..Len(wire) = {}
        BY <1>12
  <2>3. Awaited(wire, unanswered, 0) = {}
        BY <1>1, <2>2 DEF Awaited
  <2> QED BY <2>1, <2>3
<1>14. Trail(s)
       BY <1>7, <1>10, <1>11, <1>12, <1>13 DEF Trail
<1>15. OrderFollows(v)
       BY <1>1, <1>8 DEF OrderFollows
<1>16. RequestsFollow(v)
  <2>1. \A a : InFlight(v.pending, a) = {} /\ OfAction(unanswered, a) = {}
        BY <1>1, <1>8 DEF InFlight, OfAction
  <2>2. NoMore(v.pending, unanswered)
    <3>1. Cardinality({}) = 0
          BY FS_EmptySet
    <3> QED BY <2>1, <3>1 DEF NoMore
  <2>3. Holds(v.pending, unanswered)
        BY <1>1, <1>9 DEF Holds
  <2> QED BY <2>2, <2>3 DEF RequestsFollow
<1>17. FillsFollow(v)
  <2>1. PICK table : table = v.rows
        OBVIOUS
  <2>2. \A e \in ExecIDs : table[e] = None
        BY <1>8, <2>1 DEF Optional
  <2>3. Counting(table) = {}
        BY <2>2 DEF Counting
  <2>4. Filled(table) = 0
    <3>1. PICK g : g = SharesOf(table)
          OBVIOUS
    <3>2. IsFiniteSet({})
          BY FS_EmptySet
    <3>3. Sum(g, {}) = 0
          BY <3>2, SumSteps
    <3> QED BY <2>3, <3>1, <3>3 DEF Filled
  <2>5. Tallies(table, v.seen, v.cum, lastFill)
        BY <1>1, <1>8, <2>2, <2>4 DEF Tallies
  <2>6. v.seen = 1..execs
        BY <1>1, <1>8
  <2> QED BY <1>1, <1>8, <2>1, <2>5, <2>6 DEF FillsFollow
<1>18. Ahead(s[Len(wire)])
       BY <1>12, <1>15, <1>16, <1>17 DEF Ahead
<1> QED BY <1>2, <1>4, <1>5, <1>6, <1>14, <1>18 DEF SessionInv

\* Every step of the conversation.
LEMMA SessionGoesOn == RejectsCarryStatus /\ SessionInv /\ [Next]_sessionVars => SessionInv'
<1> SUFFICES ASSUME RejectsCarryStatus, SessionInv, [Next]_sessionVars PROVE SessionInv'
    OBVIOUS
<1>1. CASE UNCHANGED sessionVars
      BY <1>1, RestStep
<1>2. CASE SendNew
      BY <1>2, SendNewStep
<1>3. CASE SendAmend \/ SendCancel
      BY <1>3, RequestStep
<1>4. CASE SendDontKnow
      BY <1>4, SendDontKnowStep
<1>5. CASE PendingNew \/ Acknowledge \/ RejectNew
      BY <1>5, NewAnsweredStep
<1>6. CASE Fill
      BY <1>6, FillStep
<1>7. CASE \E r \in unanswered : Received(r)
      BY <1>7, ReceivedStep
<1>8. CASE \E r \in unanswered : Replace(r)
      BY <1>8, ReplaceStep
<1>9. CASE CancelUnasked \/ \E r \in unanswered : CancelOrder(r)
      BY <1>9, CancelStep
<1>10. CASE \E r \in unanswered : RejectRequest(r)
       BY <1>10, RejectStep
<1>11. CASE Bust \/ Correct
       BY <1>11, UndoStep
<1>12. CASE ReplaceUnasked
       BY <1>12, ReplaceUnaskedStep
<1>13. CASE Apply
       BY <1>13, ApplyStep
<1>14. CASE Redelivered
       BY <1>14, RedeliveredStep, RestStep
<1> QED BY <1>1, <1>2, <1>3, <1>4, <1>5, <1>6, <1>7, <1>8, <1>9, <1>10, <1>11, <1>12, <1>13, <1>14
        DEF Next

-----------------------------------------------------------------------------
\* What it comes to

\* The sum of the shares that count, as the property states it.
LEMMA FilledIsTheSum ==
    ASSUME NEW table \in Tables
    PROVE  MapThenSumSet(LAMBDA e : table[e].shares, Counting(table)) = Filled(table)
<1> DEFINE S == Counting(table)
           g == SharesOf(table)
           Body(h) == [s \in SUBSET S |-> IF s = {} THEN 0
                                          ELSE LET x == CHOOSE x \in s : TRUE
                                               IN  table[x].shares + h[s \ {x}]]
           iter == CHOOSE h : h = Body(h)
<1>1. MapThenSumSet(LAMBDA e : table[e].shares, S) = iter[S]
      BY DEF MapThenSumSet, MapThenFoldSet
<1>2. IsFiniteSet(S) /\ \A e \in S : g[e] = table[e].shares
      BY CountingIsFinite
<1> HIDE DEF g, S
<1>3. PICK h : h = [s \in SUBSET S |-> h[s]] /\ Sums(h, g, S)
      BY <1>2, SumsExist
<1>4. \A k : Body(k) = [s \in SUBSET S |-> IF s = {} THEN 0 ELSE g[First(s)] + k[s \ {First(s)}]]
  <2> TAKE k
  <2>1. \A s \in SUBSET S : s # {} => First(s) \in S
        BY DEF First
  <2>2. \A s \in SUBSET S : s # {} => g[First(s)] = table[First(s)].shares
        BY <1>2, <2>1
  <2>3. Body(k) = [s \in SUBSET S |-> IF s = {} THEN 0 ELSE table[First(s)].shares + k[s \ {First(s)}]]
        BY DEF First
  <2> HIDE DEF Body
  <2> QED BY <2>2, <2>3
<1> HIDE DEF Body
<1>5. h = Body(h)
  <2>1. \A s \in SUBSET S : h[s] = IF s = {} THEN 0 ELSE g[First(s)] + h[s \ {First(s)}]
        BY <1>3 DEF Sums
  <2>2. [s \in SUBSET S |-> h[s]] =
            [s \in SUBSET S |-> IF s = {} THEN 0 ELSE g[First(s)] + h[s \ {First(s)}]]
        BY <2>1
  <2> QED BY <1>3, <1>4, <2>2
<1>6. iter = Body(iter)
      BY <1>5
<1> HIDE DEF iter
<1>7. Sums(iter, g, S)
  <2>1. iter = [s \in SUBSET S |-> IF s = {} THEN 0 ELSE g[First(s)] + iter[s \ {First(s)}]]
        BY <1>4, <1>6
  <2> QED BY <2>1 DEF Sums
<1>8. PICK k : Sums(k, g, S) /\ Sum(g, S) = k[S]
      BY <1>2, SumIs
<1>9. iter[S] = k[S]
  <2>1. S \in SUBSET S
        OBVIOUS
  <2> QED BY <1>2, <1>7, <1>8, <2>1, SumsAreOne
<1>10. Filled(table) = Sum(g, S)
       BY DEF Filled, g, S
<1>11. MapThenSumSet(LAMBDA e : table[e].shares, S) = Filled(table)
       BY <1>1, <1>8, <1>9, <1>10
<1> QED BY <1>11 DEF S

\* The cache follows the conversation.
LEMMA FollowsAlways == SessionInv => CacheFollows
<1> SUFFICES ASSUME SessionInv PROVE CacheFollows
    OBVIOUS
<1>1. /\ SessionTypes /\ Asked /\ ChainSound /\ HeardNoted
      /\ MaxRequests \in Nat /\ MaxQty \in Nat /\ Qtys = 0..MaxQty
      /\ vCum \in 0..vQty /\ vQty \in Qtys
      BY Begun
<1>2. PICK s, v : /\ Trail(s) /\ v = s[Len(wire)] /\ Steady(v)
                  /\ OrderFollows(v) /\ RequestsFollow(v) /\ FillsFollow(v)
      BY Begun
<1>3. SessionTypeOK
  <2>1. vCum \in Qtys
        BY <1>1
  <2>2. unanswered \in SUBSET Message /\ ChainTypeOK
        BY <1>1 DEF Asked, ChainSound
  <2> QED BY <1>1, <2>1, <2>2 DEF SessionTypes, SessionTypeOK
<1>4. PendingExact
  <2> SUFFICES ASSUME ~unasked
               PROVE  {pending[i].clordid : i \in DOMAIN pending}
                        = {id \in ClOrdIDs :
                             /\ \/ \E r \in unanswered : r.clordid = id
                                \/ \E i \in DOMAIN wire : Answers(wire[i], id)
                             /\ ~\E i \in DOMAIN wire : wire[i].type \in {"G", "F"} /\ wire[i].clordid = id}
      BY DEF PendingExact
  <2>1. Len(wire) \in Nat /\ 0 \in 0..Len(wire) /\ DOMAIN wire = 1..Len(wire)
        BY <1>1 DEF SessionTypes
  <2>2. s[0] = View /\ PendingIds(s[0].pending) = Awaited(wire, unanswered, 0)
        BY <1>2, <2>1 DEF Trail
  <2>3. PendingIds(pending) = Awaited(wire, unanswered, 0)
        BY <2>2, ViewParts
  <2>4. 0 + 1..Len(wire) = DOMAIN wire
        BY <2>1
  <2> QED BY <2>3, <2>4 DEF PendingIds, Awaited
<1>5. PendingShown
      BY <1>1 DEF ChainSound
<1>6. BustsStay
      BY <1>1 DEF BustsStay, HeardNoted, IsBust
<1>7. ASSUME Settled
      PROVE  /\ vStatus # None => ordStatus = vStatus
             /\ cumQty = vCum
             /\ ~unasked => orderQty = vQty /\ clordid = vClordid
             /\ pending = <<>>
             /\ cumQty = Filled(execRows) /\ execRows \in Tables
  <2>1. wire = <<>> /\ unanswered = {}
        BY <1>7 DEF Settled
  <2>2. Len(wire) = 0 /\ 0 \in 0..Len(wire)
        BY <2>1
  <2>3. v = View
        BY <1>2, <2>2 DEF Trail
  <2>4. /\ v.status = ordStatus /\ v.cum = cumQty /\ v.qty = orderQty
        /\ v.id = clordid /\ v.pending = pending /\ v.rows = execRows
        BY <2>3, ViewParts
  <2>5. /\ vStatus # None => ordStatus = vStatus
        /\ ~unasked => orderQty = vQty /\ clordid = vClordid
        BY <1>2, <2>1, <2>4 DEF OrderFollows
  <2>6. pending \in Seq(Request) /\ execRows \in Tables
        BY <1>2, <2>4 DEF Steady, Tables
  <2>7. pending = <<>>
    <3>1. PICK p : p = pending
          OBVIOUS
    <3>2. p \in Seq(Request) /\ NoMore(p, {})
          BY <1>2, <2>1, <2>4, <2>6, <3>1 DEF RequestsFollow
    <3> QED BY <3>1, <3>2, NoMoreThanNone
  <2>8. cumQty = vCum /\ cumQty = Filled(execRows)
        BY <1>2, <2>4 DEF FillsFollow, Tallies
  <2> QED BY <2>5, <2>6, <2>7, <2>8
<1>8. StatusAgrees /\ FillsAgree /\ TermsAgree /\ NothingInFlight
      BY <1>7 DEF StatusAgrees, FillsAgree, TermsAgree, NothingInFlight
<1>9. ExecutionsExplainCum
  <2> SUFFICES ASSUME Settled
               PROVE  cumQty = MapThenSumSet(LAMBDA e : execRows[e].shares,
                                  {e \in ExecIDs : /\ execRows[e] # None
                                                   /\ execRows[e].fill /\ execRows[e].disposition # "BUSTED"})
      BY DEF ExecutionsExplainCum
  <2>1. execRows \in Tables /\ cumQty = Filled(execRows)
        BY <1>7
  <2>2. MapThenSumSet(LAMBDA e : execRows[e].shares, Counting(execRows)) = Filled(execRows)
        BY <2>1, FilledIsTheSum
  <2> QED BY <2>1, <2>2 DEF Counting
<1> QED BY <1>3, <1>4, <1>5, <1>6, <1>8, <1>9 DEF CacheFollows

\* However client and venue interleave, however many requests overlap and whatever fills, busts,
\* corrections, unasked cancels and replayed reports come between, the cache holds exactly the
\* requests it has not seen answered, and at rest shows the venue's status, filled quantity, terms
\* and executions; provided the venue puts tag 39 on its cancel rejects.
\* state_machine.py: the six handlers.
THEOREM SessionFollows == RejectsCarryStatus /\ Spec => []CacheFollows
<1> SUFFICES ASSUME RejectsCarryStatus PROVE Spec => []CacheFollows
    OBVIOUS
<1>1. Init => SessionInv
      BY SessionBegins
<1>2. SessionInv /\ [Next]_sessionVars => SessionInv'
      BY SessionGoesOn
<1>3. SessionInv => CacheFollows
      BY FollowsAlways
<1> QED BY <1>1, <1>2, <1>3, PTL DEF Spec
=============================================================================
