-------------------------- MODULE RemoteFleetProofs -------------------------
(***************************************************************************)
(* What the collector's queries and quotes promise, for every fleet and    *)
(* any number of crashes, queries and orders: no query's global is left on *)
(* a leaf unaccounted for, the panel never shows the answer to an earlier  *)
(* press, and every symbol of an order is quoted.  The number of a query   *)
(* ties its worker, its global and its nonce together.                     *)
(***************************************************************************)
EXTENDS FleetQuotes, FiniteSetTheorems, SequenceTheorems, WellFoundedInduction, TLAPS

-----------------------------------------------------------------------------
\* The inductive invariant

WorkerPcs == {"console", "open", "keep", "execute", "session", "snapshot", "answer", "done"}

Worker == [pc : WorkerPcs, job : {"bind", "drop"}, leaf : Names, hand : Int, nonce : Nat,
           ok : BOOLEAN]

Server == [phase : {"down", "wiring", "ready"}, life : Nat, globals : SUBSET Nat]

FleetTypeOK ==
    /\ server \in [Names -> Server]
    /\ sessions \in [Names -> Int] /\ consoles \in [Names -> Int]
    /\ queries \in Nat /\ crashes \in Nat
    /\ DOMAIN workers \subseteq 1..queries
    /\ \A q \in DOMAIN workers : workers[q] \in Worker
    /\ console = [pc |-> console.pc, startup |-> console.startup, at |-> console.at,
                  got |-> console.got, missing |-> console.missing, query |-> console.query]

\* A query number is a press's, the console's or a live query's, and bound under it on one
\* leaf at most.
NumbersApart ==
    /\ \A x \in live : /\ x = <<x[1], x[2]>> /\ x[1] \in Names
                       /\ x[2] \in 1..queries /\ x[2] \notin DOMAIN workers
    /\ console.pc # "live" => console.query = <<>>
    /\ console.pc = "live" =>
         /\ console.query = <<console.query[1], console.query[2]>>
         /\ console.query[1] \in Names
         /\ console.query[2] \in 1..queries /\ console.query[2] \notin DOMAIN workers
         /\ \A x \in live : x[2] # console.query[2]
    /\ \A l \in Names : server[l].globals \subseteq 1..queries
    /\ \A l \in Names, q \in DOMAIN workers :
         q \in server[l].globals => /\ workers[q].leaf = l
                                    /\ ~(workers[q].job = "bind"
                                         /\ workers[q].pc \in {"console", "open", "keep", "execute"})

\* What is bound is accounted for, and live queries stay bound.
Bound ==
    \A l \in Names : \A q \in server[l].globals :
       \/ <<l, q>> \in live \/ console.query = <<l, q>> \/ q \in undropped
       \/ q \in DOMAIN workers /\ workers[q].pc \notin {"answer", "done"}
LiveBound == crashes = 0 => \A x \in live : x[2] \in server[x[1]].globals

\* The nonce of a request and of an answer is the number of its query.
NoncesMatch ==
    /\ \A q \in DOMAIN workers : workers[q].nonce = q
    /\ request[2] # 0 => \A q \in DOMAIN workers : q <= request[2]
    /\ result.nonce = result.query

FleetSound == FleetTypeOK /\ NumbersApart /\ Bound /\ LiveBound /\ NoncesMatch

-----------------------------------------------------------------------------
\* The leaves

\* A session is the one kept, or the present life of the leaf.
LEMMA SessionType ==
    ASSUME FleetTypeOK, NEW l \in Names
    PROVE  SessionOf(l) \in Int /\ ConsoleOf(l) \in Int
BY DEF FleetTypeOK, SessionOf, ConsoleOf, Server

\* A fleet starts sound.
LEMMA FleetInit == Init => FleetSound
<1> SUFFICES ASSUME Init PROVE FleetSound
    OBVIOUS
<1>1. FleetTypeOK
  <2>1. server \in [Names -> Server]
        BY DEF Init, Server
  <2> QED BY <2>1 DEF Init, FleetTypeOK
<1>2. NumbersApart
      BY DEF Init, NumbersApart
<1>3. Bound /\ LiveBound
      BY DEF Init, Bound, LiveBound
<1>4. NoncesMatch
      BY DEF Init, NoncesMatch, NoResult
<1> QED BY <1>1, <1>2, <1>3, <1>4 DEF FleetSound

\* A leaf that crashes forgets its globals, one that boots or is wired has none yet.
LEMMA LeafSound ==
    ASSUME FleetSound, NEW l \in Names, Crash(l) \/ Boot(l) \/ Wire(l)
    PROVE  FleetSound'
<1> USE DEF FleetSound
<1>1. /\ UNCHANGED <<leaves, sessions, consoles, live, console, panelVars, queries, undropped>>
      /\ Names' = Names
      BY DEF Crash, Boot, Wire, Names
<1>2. /\ server' \in [Names -> Server] /\ crashes' \in Nat
      /\ \A k \in Names : server'[k].globals \subseteq server[k].globals
      /\ crashes' = 0 => \A k \in Names : server'[k].globals = server[k].globals
  <2>1. CASE Crash(l)
    <3>1. crashes' \in Nat /\ crashes' # 0
          BY <2>1 DEF Crash, FleetTypeOK
    <3>2. /\ server' \in [Names -> Server]
          /\ \A k \in Names : server'[k].globals \subseteq server[k].globals
          BY <2>1 DEF Crash, FleetTypeOK, Server
    <3> QED BY <3>1, <3>2
  <2>2. CASE Boot(l)
        BY <2>2 DEF Boot, FleetTypeOK, Server
  <2>3. CASE Wire(l)
        BY <2>3 DEF Wire, FleetTypeOK, Server
  <2> QED BY <2>1, <2>2, <2>3
<1>3. FleetTypeOK'
      BY <1>1, <1>2 DEF FleetTypeOK, Worker, panelVars
<1>4. NumbersApart'
      BY <1>1, <1>2 DEF NumbersApart, panelVars
<1>5. Bound'
      BY <1>1, <1>2 DEF Bound, panelVars
<1>6. LiveBound'
  <2>1. crashes' = 0 => crashes = 0
        BY DEF Crash, Boot, Wire, FleetTypeOK
  <2> QED BY <1>1, <1>2, <2>1 DEF LiveBound, NumbersApart
<1>7. NoncesMatch'
      BY <1>1 DEF NoncesMatch, panelVars
<1> QED BY <1>3, <1>4, <1>5, <1>6, <1>7

-----------------------------------------------------------------------------
\* The console

\* The steps of connect() and reconnect() that leave leaves, workers and live queries alone.
LEMMA ConnectSound ==
    ASSUME FleetSound, Subscribe \/ Retry \/ Connected \/ Reconnect
    PROVE  FleetSound'
<1> USE DEF FleetSound
<1>1. /\ UNCHANGED <<leaves, server, consoles, live, panelVars, queries, crashes, undropped>>
      /\ Names' = Names
  <2>1. UNCHANGED <<leaves, server, consoles, live, panelVars, queries, crashes, undropped>>
    <3>1. CASE Subscribe
          BY <3>1, Zenon DEF Subscribe
    <3>2. CASE Retry
          BY <3>2, Zenon DEF Retry, fleetVars
    <3>3. CASE Connected
          BY <3>3, Zenon DEF Connected, fleetVars
    <3>4. CASE Reconnect
          BY <3>4, Zenon DEF Reconnect, fleetVars
    <3> QED BY <3>1, <3>2, <3>3, <3>4
  <2> QED BY <2>1 DEF Names
<1>2. sessions' \in [Names -> Int]
  <2>1. CASE Subscribe
    <3>1. PICK l : sessions' \in {sessions, [sessions EXCEPT ![l] = SessionOf(l)]}
          BY <2>1 DEF Subscribe
    <3>2. CASE l \in Names
          BY <3>1, <3>2, SessionType DEF FleetTypeOK
    <3>3. CASE l \notin Names
          BY <3>1, <3>3 DEF FleetTypeOK
    <3> QED BY <3>2, <3>3
  <2>2. CASE Retry \/ Connected \/ Reconnect
        BY <2>2 DEF Retry, Connected, Reconnect, fleetVars, FleetTypeOK
  <2> QED BY <2>1, <2>2
<1>3. /\ console' = [pc |-> console'.pc, startup |-> console'.startup, at |-> console'.at,
                     got |-> console'.got, missing |-> console'.missing, query |-> console'.query]
      /\ console.pc # "live" /\ console'.pc # "live" /\ console'.query = console.query
  <2> DEFINE Shape(c) == c = [pc |-> c.pc, startup |-> c.startup, at |-> c.at, got |-> c.got,
                              missing |-> c.missing, query |-> c.query]
  <2>1. Shape(console)
        BY DEF FleetTypeOK
  <2>2. CASE Subscribe
    <3>1. PICK at, got, missing :
             console' = [console EXCEPT !.at = at, !.got = got, !.missing = missing]
          BY <2>2 DEF Subscribe
    <3> QED BY <2>1, <2>2, <3>1 DEF Subscribe
  <2>3. CASE Retry \/ Connected \/ Reconnect
        BY <2>1, <2>3 DEF Retry, Connected, Reconnect
  <2> QED BY <2>2, <2>3
<1>4. FleetTypeOK'
      BY <1>1, <1>2, <1>3 DEF FleetTypeOK, Worker, panelVars
<1>5. NumbersApart'
      BY <1>1, <1>3 DEF NumbersApart, panelVars
<1>6. Bound' /\ LiveBound'
      BY <1>1, <1>3 DEF Bound, LiveBound, panelVars
<1>7. NoncesMatch'
      BY <1>1 DEF NoncesMatch, panelVars
<1> QED BY <1>4, <1>5, <1>6, <1>7

\* Of each live query, either the global is deleted or that it is not is recorded.
LEMMA ReleaseSound == ASSUME FleetSound, Release PROVE FleetSound'
<1> USE DEF FleetSound
<1> DEFINE dropped == {q \in live : Usable(q[1], ConsoleOf(q[1]))}
<1>1. /\ UNCHANGED <<leaves, panelVars, queries, crashes>>
      /\ Names' = Names
      /\ live' = {}
      /\ undropped' = undropped \cup {q[2] : q \in live \ dropped}
      /\ server' = [l \in Names |-> [server[l] EXCEPT
                       !.globals = @ \ {q[2] : q \in {d \in dropped : d[1] = l}}]]
      BY DEF Release, Names
<1> HIDE DEF dropped
<1>2. /\ server' \in [Names -> Server]
      /\ \A l \in Names :
           server'[l].globals = server[l].globals \ {q[2] : q \in {d \in dropped : d[1] = l}}
      BY <1>1 DEF FleetTypeOK, Server
<1>3. sessions' \in [Names -> Int] /\ consoles' \in [Names -> Int]
      BY SessionType DEF Release, FleetTypeOK
<1>4. /\ console' = [pc |-> console'.pc, startup |-> console'.startup, at |-> console'.at,
                     got |-> console'.got, missing |-> console'.missing, query |-> console'.query]
      /\ console.pc # "live" /\ console'.pc # "live" /\ console'.query = console.query
      BY DEF FleetTypeOK, Release
<1>5. FleetTypeOK'
      BY <1>1, <1>2, <1>3, <1>4 DEF FleetTypeOK, Worker, panelVars
<1>6. NumbersApart'
      BY <1>1, <1>2, <1>4 DEF NumbersApart, panelVars
<1>7. Bound'
  <2> SUFFICES ASSUME NEW l \in Names, NEW q \in server'[l].globals
               PROVE  \/ console'.query = <<l, q>> \/ q \in undropped'
                      \/ q \in DOMAIN workers' /\ workers'[q].pc \notin {"answer", "done"}
      BY <1>1 DEF Bound
  <2>1. q \in server[l].globals
        BY <1>2
  <2>2. CASE <<l, q>> \in live
    <3>1. <<l, q>> \notin dropped
          BY <1>2
    <3>2. <<l, q>>[2] = q
          OBVIOUS
    <3>3. q \in {x[2] : x \in live \ dropped}
          BY <2>2, <3>1, <3>2
    <3> QED BY <1>1, <3>3
  <2> QED BY <1>1, <1>4, <2>1, <2>2 DEF Bound, panelVars
<1>8. LiveBound' /\ NoncesMatch'
      BY <1>1 DEF LiveBound, NoncesMatch, panelVars
<1> QED BY <1>5, <1>6, <1>7, <1>8

\* close() takes the hand off the workers' sessions and nothing else.
LEMMA CloseSound == ASSUME FleetSound, Close PROVE FleetSound'
<1> USE DEF FleetSound
<1>1. /\ UNCHANGED <<leaves, server, live, request, result, queries, crashes, undropped>>
      /\ Names' = Names
      BY DEF Close, Names
<1>2. /\ DOMAIN workers' = DOMAIN workers
      /\ \A q \in DOMAIN workers :
           /\ workers'[q] \in Worker
           /\ workers'[q].pc = workers[q].pc /\ workers'[q].job = workers[q].job
           /\ workers'[q].leaf = workers[q].leaf /\ workers'[q].nonce = workers[q].nonce
      BY DEF Close, FleetTypeOK, Worker, Closed
<1>3. sessions' \in [Names -> Int] /\ consoles' \in [Names -> Int]
      BY DEF Close
<1>4. /\ console' = [pc |-> console'.pc, startup |-> console'.startup, at |-> console'.at,
                     got |-> console'.got, missing |-> console'.missing, query |-> console'.query]
      /\ console.pc # "live" /\ console'.pc # "live" /\ console'.query = console.query
      BY DEF FleetTypeOK, Close
<1>5. FleetTypeOK'
      BY <1>1, <1>2, <1>3, <1>4 DEF FleetTypeOK, Worker
<1>6. NumbersApart'
      BY <1>1, <1>2, <1>4 DEF NumbersApart
<1>7. Bound' /\ LiveBound'
      BY <1>1, <1>2, <1>4 DEF Bound, LiveBound
<1>8. NoncesMatch'
      BY <1>1, <1>2 DEF NoncesMatch
<1> QED BY <1>5, <1>6, <1>7, <1>8

\* The leaf of a hub is one of the leaves.
LEMMA LeafOfType ==
    ASSUME NEW hub \in Folded
    PROVE  LeafOf(hub) \in Names
<1>1. PICK leaf \in ToSet(leaves) : hub \in HubsOf(leaf)
      BY DEF Folded
<1> DEFINE chosen == CHOOSE k \in ToSet(leaves) : hub \in HubsOf(k)
<1>2. chosen \in ToSet(leaves)
      BY <1>1
<1>3. LeafOf(hub) = chosen.name
      BY DEF LeafOf
<1> HIDE DEF chosen
<1> QED BY <1>2, <1>3 DEF Names, ToSet

\* A live query binds a global under a new number, or does nothing on the leaf.
LEMMA LiveBindSound ==
    ASSUME FleetSound, NEW hub \in Folded, LiveBind(hub)
    PROVE  FleetSound'
<1> USE DEF FleetSound
<1> DEFINE l == LeafOf(hub)
<1>1. l \in Names
      BY LeafOfType
<1> HIDE DEF l
<1>2. /\ UNCHANGED <<leaves, live, panelVars, crashes, undropped>>
      /\ Names' = Names
      /\ queries' = queries + 1 /\ queries \in Nat
      /\ console.pc = "idle" /\ console.query = <<>>
      BY DEF LiveBind, Names, FleetTypeOK, NumbersApart
<1>3. sessions' \in [Names -> Int]
      BY <1>1, SessionType DEF LiveBind, FleetTypeOK, l
<1>4. CASE UNCHANGED <<server, consoles, console>>
  <2>1. FleetTypeOK'
        BY <1>2, <1>3, <1>4 DEF FleetTypeOK, Worker, panelVars
  <2>2. NumbersApart'
        BY <1>2, <1>4 DEF NumbersApart, panelVars
  <2>3. Bound' /\ LiveBound' /\ NoncesMatch'
        BY <1>2, <1>4 DEF Bound, LiveBound, NoncesMatch, panelVars
  <2> QED BY <2>1, <2>2, <2>3
<1>5. CASE /\ server' = [server EXCEPT ![l].globals = @ \cup {queries + 1}]
           /\ consoles' = [consoles EXCEPT ![l] = ConsoleOf(l)]
           /\ console' = [console EXCEPT !.pc = "live", !.query = <<l, queries + 1>>]
  <2>1. /\ server' \in [Names -> Server]
        /\ server'[l].globals = server[l].globals \cup {queries + 1}
        /\ \A k \in Names : k # l => server'[k].globals = server[k].globals
    <3>1. queries + 1 \in Nat
          BY <1>2
    <3>2. server[l].globals \cup {queries + 1} \in SUBSET Nat
          BY <1>1, <3>1 DEF FleetTypeOK, Server
    <3> QED BY <1>1, <1>5, <3>2 DEF FleetTypeOK, Server
  <2>2. consoles' \in [Names -> Int]
        BY <1>1, <1>5, SessionType DEF FleetTypeOK
  <2>3. /\ console' = [pc |-> console'.pc, startup |-> console'.startup, at |-> console'.at,
                       got |-> console'.got, missing |-> console'.missing, query |-> console'.query]
        /\ console'.pc = "live" /\ console'.query = <<l, queries + 1>>
        BY <1>5 DEF FleetTypeOK
  <2>4. FleetTypeOK'
        BY <1>2, <1>3, <2>1, <2>2, <2>3 DEF FleetTypeOK, Worker, panelVars
  <2>5. NumbersApart'
    <3>1. \A q \in DOMAIN workers : q \in Nat /\ q <= queries
          BY DEF FleetTypeOK
    <3>2. \A k \in Names : server'[k].globals \subseteq 1..(queries + 1)
          BY <1>2, <2>1 DEF NumbersApart
    <3>3. queries + 1 \notin DOMAIN workers /\ \A x \in live : x[2] # queries + 1
          BY <1>2, <3>1 DEF NumbersApart
    <3>4. \A k \in Names, q \in DOMAIN workers : q \in server'[k].globals => q \in server[k].globals
          BY <2>1, <3>3
    <3>5. \A x \in live : x[2] \in 1..(queries + 1)
          BY <1>2 DEF NumbersApart
    <3>6. <<l, queries + 1>>[1] = l /\ <<l, queries + 1>>[2] = queries + 1
          OBVIOUS
    <3> QED BY <1>1, <1>2, <2>3, <3>2, <3>3, <3>4, <3>5, <3>6 DEF NumbersApart, panelVars
  <2>6. Bound'
    <3> SUFFICES ASSUME NEW k \in Names, NEW q \in server'[k].globals
                 PROVE  \/ <<k, q>> \in live \/ console'.query = <<k, q>> \/ q \in undropped
                        \/ q \in DOMAIN workers /\ workers[q].pc \notin {"answer", "done"}
        BY <1>2 DEF Bound, panelVars
    <3>1. CASE q \in server[k].globals
          BY <1>2, <3>1 DEF Bound
    <3>2. CASE q \notin server[k].globals
          BY <2>1, <2>3, <3>2
    <3> QED BY <3>1, <3>2
  <2>7. LiveBound'
        BY <1>2, <2>1 DEF LiveBound, NumbersApart
  <2>8. NoncesMatch'
        BY <1>2 DEF NoncesMatch, panelVars
  <2> QED BY <2>4, <2>5, <2>6, <2>7, <2>8
<1> QED BY <1>4, <1>5 DEF LiveBind, l

\* It becomes a live query, or its global is deleted, or that it is not is recorded.
LEMMA LiveSubscribeSound == ASSUME FleetSound, LiveSubscribe PROVE FleetSound'
<1> USE DEF FleetSound
<1> DEFINE l == console.query[1]
           n == console.query[2]
<1>1. /\ UNCHANGED <<leaves, consoles, panelVars, crashes, queries>>
      /\ Names' = Names
      /\ console.pc = "live"
      BY DEF LiveSubscribe, Names
<1>2. /\ l \in Names /\ console.query = <<l, n>>
      /\ n \in 1..queries /\ n \notin DOMAIN workers
      /\ \A x \in live : x[2] # n
      BY <1>1 DEF NumbersApart
<1>3. sessions' \in [Names -> Int]
      BY <1>2, SessionType DEF LiveSubscribe, FleetTypeOK
<1>4. /\ console' = [pc |-> console'.pc, startup |-> console'.startup, at |-> console'.at,
                     got |-> console'.got, missing |-> console'.missing, query |-> console'.query]
      /\ console'.pc = "idle" /\ console'.query = <<>>
      BY DEF LiveSubscribe, FleetTypeOK
<1>5. \/ /\ live' = live \cup {<<l, n>>} /\ n \in server[l].globals
         /\ UNCHANGED <<server, undropped>>
      \/ /\ server' = [server EXCEPT ![l].globals = @ \ {n}]
         /\ UNCHANGED <<live, undropped>>
      \/ /\ server' = [server EXCEPT ![l].globals = @]
         /\ undropped' = undropped \cup {n} /\ live' = live
      BY <1>2 DEF LiveSubscribe
<1> HIDE DEF l, n
<1>6. CASE /\ live' = live \cup {<<l, n>>} /\ n \in server[l].globals
           /\ UNCHANGED <<server, undropped>>
  <2>1. FleetTypeOK'
        BY <1>1, <1>3, <1>4, <1>6 DEF FleetTypeOK, Worker, panelVars
  <2>2. <<l, n>>[1] = l /\ <<l, n>>[2] = n
        OBVIOUS
  <2>3. NumbersApart'
        BY <1>1, <1>2, <1>4, <1>6, <2>2 DEF NumbersApart, panelVars
  <2>4. Bound'
        BY <1>1, <1>2, <1>6 DEF Bound, panelVars
  <2>5. LiveBound'
        BY <1>1, <1>6, <2>2 DEF LiveBound
  <2> QED BY <1>1, <2>1, <2>3, <2>4, <2>5 DEF NoncesMatch, panelVars
<1>7. CASE /\ \/ server' = [server EXCEPT ![l].globals = @ \ {n}] /\ undropped' = undropped
              \/ server' = [server EXCEPT ![l].globals = @] /\ undropped' = undropped \cup {n}
           /\ live' = live
  <2>1. /\ server' \in [Names -> Server]
        /\ \A k \in Names : server'[k].globals \subseteq server[k].globals
        /\ \A k \in Names : \A q : q \in server[k].globals /\ q # n => q \in server'[k].globals
        /\ n \in server'[l].globals => n \in undropped'
        /\ \A k \in Names : k # l => server'[k].globals = server[k].globals
        /\ undropped \subseteq undropped'
    <3>1. CASE server' = [server EXCEPT ![l].globals = @ \ {n}] /\ undropped' = undropped
          BY <1>2, <3>1 DEF FleetTypeOK, Server
    <3>2. CASE server' = [server EXCEPT ![l].globals = @] /\ undropped' = undropped \cup {n}
          BY <1>2, <3>2 DEF FleetTypeOK, Server
    <3> QED BY <1>7, <3>1, <3>2
  <2>2. FleetTypeOK'
        BY <1>1, <1>3, <1>4, <2>1 DEF FleetTypeOK, Worker, panelVars
  <2>3. NumbersApart'
        BY <1>1, <1>4, <1>7, <2>1 DEF NumbersApart, panelVars
  <2>4. Bound'
    <3> SUFFICES ASSUME NEW k \in Names, NEW q \in server'[k].globals
                 PROVE  \/ <<k, q>> \in live \/ q \in undropped'
                        \/ q \in DOMAIN workers /\ workers[q].pc \notin {"answer", "done"}
        BY <1>1, <1>7 DEF Bound, panelVars
    <3>1. q \in server[k].globals
          BY <2>1
    <3>2. CASE console.query = <<k, q>>
      <4>1. k = l /\ q = n
            BY <1>2, <3>2
      <4> QED BY <2>1, <4>1
    <3>3. CASE console.query # <<k, q>>
          BY <2>1, <3>1, <3>3 DEF Bound
    <3> QED BY <3>2, <3>3
  <2>5. LiveBound'
        BY <1>1, <1>2, <1>7, <2>1 DEF LiveBound, NumbersApart
  <2> QED BY <1>1, <2>2, <2>3, <2>4, <2>5 DEF NoncesMatch, panelVars
<1> QED BY <1>5, <1>6, <1>7

-----------------------------------------------------------------------------
\* The dashboard

\* A press has a number and a nonce that no earlier one had.
LEMMA PressSound ==
    ASSUME FleetSound, NEW hub \in Folded, Press(hub)
    PROVE  FleetSound'
<1> USE DEF FleetSound
<1> DEFINE n == queries + 1
           w == [pc |-> "console", job |-> "bind", leaf |-> LeafOf(hub), hand |-> 0,
                 nonce |-> n, ok |-> FALSE]
<1>1. /\ UNCHANGED <<leaves, fleetVars, live, console, result, crashes, undropped>>
      /\ Names' = Names
      /\ queries' = n /\ queries \in Nat /\ n \in Nat
      /\ request' = <<hub, n>>
      BY DEF Press, Nonce, Names, FleetTypeOK
<1>2. n \notin DOMAIN workers /\ \A q \in DOMAIN workers : q \in 1..queries /\ q <= n
      BY <1>1 DEF FleetTypeOK
<1>3. /\ DOMAIN workers' = DOMAIN workers \cup {n}
      /\ \A q \in DOMAIN workers : workers'[q] = workers[q]
      /\ workers'[n] = w
      BY <1>2 DEF Press, Nonce
<1>4. w \in Worker
      BY <1>1, LeafOfType DEF Worker, WorkerPcs
<1>5. w.pc = "console" /\ w.nonce = n
      OBVIOUS
<1>6. 1..n = 1..queries \cup {n}
      BY <1>1
<1> HIDE DEF n, w
<1>7. FleetTypeOK'
      BY <1>1, <1>2, <1>3, <1>4, <1>6 DEF FleetTypeOK, Worker, fleetVars
<1>8. /\ \A k \in Names : n \notin server[k].globals
      /\ \A x \in live : x[2] # n
      /\ console.pc = "live" => console.query[2] # n
  <2>1. n \notin 1..queries
        BY <1>1 DEF n
  <2> QED BY <2>1 DEF NumbersApart
<1>9. NumbersApart'
      BY <1>1, <1>3, <1>6, <1>8 DEF NumbersApart, fleetVars
<1>10. Bound' /\ LiveBound'
       BY <1>1, <1>2, <1>3 DEF Bound, LiveBound, fleetVars
<1>11. NoncesMatch'
  <2>1. request'[2] = n /\ n <= n
        BY <1>1
  <2> QED BY <1>1, <1>2, <1>3, <1>5, <2>1 DEF NoncesMatch
<1> QED BY <1>7, <1>9, <1>10, <1>11

\* [Find] and [Clear] forget the press and its answer.
LEMMA ClearSound == ASSUME FleetSound, ClearRequest PROVE FleetSound'
<1> USE DEF FleetSound
<1>1. /\ UNCHANGED <<leaves, fleetVars, live, console, workers, crashes, queries, undropped>>
      /\ Names' = Names
      /\ request'[2] = 0 /\ result' = NoResult
      BY DEF ClearRequest, Names
<1>2. FleetTypeOK' /\ NumbersApart'
      BY <1>1 DEF FleetTypeOK, NumbersApart, Worker, fleetVars
<1>3. Bound' /\ LiveBound' /\ NoncesMatch'
      BY <1>1 DEF Bound, LiveBound, NoncesMatch, NoResult, fleetVars
<1> QED BY <1>2, <1>3

-----------------------------------------------------------------------------
\* The workers

\* What a step of worker n leaves alone.
Elsewhere(n) ==
    /\ UNCHANGED <<leaves, live, console, request, crashes, queries>>
    /\ DOMAIN workers' = DOMAIN workers
    /\ \A q \in DOMAIN workers : q # n => workers'[q] = workers[q]
    /\ workers'[n].leaf = workers[n].leaf /\ workers'[n].nonce = workers[n].nonce

\* A step of a worker that binds nothing keeps what the invariant says, if it leaves its own
\* global accounted for.
LEMMA WorkerKeeps ==
    ASSUME FleetSound, NEW n \in DOMAIN workers, Elsewhere(n),
           FleetTypeOK', NoncesMatch',
           \A l \in Names : server'[l].globals \subseteq server[l].globals,
           \A l \in Names : \A q : q \in server[l].globals /\ q # n => q \in server'[l].globals,
           undropped \subseteq undropped',
           \A l \in Names : n \in server'[l].globals =>
              /\ n \in undropped' \/ workers'[n].pc \notin {"answer", "done"}
              /\ ~(workers'[n].job = "bind"
                     /\ workers'[n].pc \in {"console", "open", "keep", "execute"})
    PROVE  FleetSound'
<1> USE DEF FleetSound
<1>1. Names' = Names
      BY DEF Elsewhere, Names
<1>2. NumbersApart'
  <2>1. ASSUME NEW l \in Names, NEW q \in DOMAIN workers, q \in server'[l].globals
        PROVE  /\ workers'[q].leaf = l
               /\ ~(workers'[q].job = "bind"
                    /\ workers'[q].pc \in {"console", "open", "keep", "execute"})
        BY <2>1 DEF NumbersApart, Elsewhere
  <2> QED BY <1>1, <2>1 DEF NumbersApart, Elsewhere
<1>3. Bound'
  <2> SUFFICES ASSUME NEW l \in Names, NEW q \in server'[l].globals
               PROVE  \/ <<l, q>> \in live \/ console.query = <<l, q>> \/ q \in undropped'
                      \/ q \in DOMAIN workers /\ workers'[q].pc \notin {"answer", "done"}
      BY <1>1 DEF Bound, Elsewhere
  <2>1. CASE q = n
        BY <2>1
  <2>2. CASE q # n
        BY <2>2 DEF Bound, Elsewhere
  <2> QED BY <2>1, <2>2
<1>4. LiveBound'
      BY <1>1 DEF LiveBound, NumbersApart, Elsewhere
<1> QED BY <1>2, <1>3, <1>4

\* The steps that do not touch the leaf: it takes a console, opens one, keeps it, takes a
\* session, takes the snapshot, answers.
LEMMA WorkerWaits ==
    ASSUME FleetSound, NEW n \in DOMAIN workers,
           \/ WorkerConsole(n) \/ WorkerOpen(n) \/ WorkerKeep(n)
           \/ WorkerSession(n) \/ WorkerSnapshot(n) \/ WorkerAnswer(n)
    PROVE  FleetSound'
<1> USE DEF FleetSound
<1>1. /\ UNCHANGED <<leaves, server, live, console, request, crashes, queries>>
      /\ Names' = Names
  <2>1. UNCHANGED <<leaves, server, live, console, request, crashes, queries>>
    <3>1. CASE WorkerConsole(n)
          BY <3>1, Zenon DEF WorkerConsole
    <3>2. CASE WorkerOpen(n)
          BY <3>2, Zenon DEF WorkerOpen, fleetVars
    <3>3. CASE WorkerKeep(n)
          BY <3>3, Zenon DEF WorkerKeep
    <3>4. CASE WorkerSession(n)
          BY <3>4, Zenon DEF WorkerSession
    <3>5. CASE WorkerSnapshot(n)
          BY <3>5, Zenon DEF WorkerSnapshot, fleetVars
    <3>6. CASE WorkerAnswer(n)
          BY <3>6, Zenon DEF WorkerAnswer, fleetVars
    <3> QED BY <3>1, <3>2, <3>3, <3>4, <3>5, <3>6
  <2> QED BY <2>1 DEF Names
<1>2. workers[n] \in Worker /\ workers[n].leaf \in Names /\ workers[n].hand \in Int
      BY DEF FleetTypeOK, Worker
<1>3. SessionOf(workers[n].leaf) \in Int /\ consoles[workers[n].leaf] \in Int
      BY <1>2, SessionType DEF FleetTypeOK
<1>4. /\ sessions' \in [Names -> Int] /\ consoles' \in [Names -> Int]
      /\ undropped \subseteq undropped'
  <2>1. CASE WorkerConsole(n)
        BY <1>2, <1>3, <2>1 DEF WorkerConsole, FleetTypeOK
  <2>2. CASE WorkerOpen(n) \/ WorkerSnapshot(n) \/ WorkerAnswer(n)
        BY <2>2 DEF WorkerOpen, WorkerSnapshot, WorkerAnswer, fleetVars, FleetTypeOK
  <2>3. CASE WorkerKeep(n) \/ WorkerSession(n)
        BY <1>2, <1>3, <2>3 DEF WorkerKeep, WorkerSession, FleetTypeOK
  <2> QED BY <2>1, <2>2, <2>3
<1>5. \E v \in Worker : /\ workers' = [workers EXCEPT ![n] = v]
                        /\ v.leaf = workers[n].leaf /\ v.nonce = workers[n].nonce
                        /\ v.pc = "answer" => \/ workers[n].job = "bind"
                                                 /\ workers[n].pc \in {"console", "open"}
                                              \/ n \in undropped'
                        /\ v.pc = "done" => workers[n].pc = "answer"
                        /\ v.job = "bind" /\ v.pc \in {"console", "open", "keep", "execute"} =>
                             workers[n].job = "bind"
                               /\ workers[n].pc \in {"console", "open", "keep", "execute"}
  <2>1. CASE WorkerConsole(n)
    <3>1. CASE consoles[workers[n].leaf] # 0
      <4> DEFINE v == [workers[n] EXCEPT !.pc = "execute", !.hand = consoles[workers[n].leaf]]
      <4>1. v \in Worker /\ v.leaf = workers[n].leaf /\ v.nonce = workers[n].nonce
            /\ v.pc = "execute" /\ v.job = workers[n].job
            BY <1>2, <1>3 DEF Worker, WorkerPcs
      <4>2. workers' = [workers EXCEPT ![n] = v] /\ workers[n].pc = "console"
            BY <2>1, <3>1 DEF WorkerConsole, At
      <4> QED BY <4>1, <4>2
    <3>2. CASE consoles[workers[n].leaf] = 0 /\ SessionOf(workers[n].leaf) # 0
      <4> DEFINE v == [workers[n] EXCEPT !.pc = "open", !.hand = SessionOf(workers[n].leaf)]
      <4>1. v \in Worker /\ v.leaf = workers[n].leaf /\ v.nonce = workers[n].nonce
            /\ v.pc = "open" /\ v.job = workers[n].job
            BY <1>2, <1>3 DEF Worker, WorkerPcs
      <4>2. workers' = [workers EXCEPT ![n] = v] /\ workers[n].pc = "console"
            BY <2>1, <3>2 DEF WorkerConsole, At
      <4> QED BY <4>1, <4>2
    <3>3. CASE consoles[workers[n].leaf] = 0 /\ SessionOf(workers[n].leaf) = 0
      <4> DEFINE none == 0
                 v == [workers[n] EXCEPT !.pc = "answer", !.hand = none]
      <4>0. none \in Int
            OBVIOUS
      <4>2. /\ workers' = [workers EXCEPT ![n] = v] /\ workers[n].pc = "console"
            /\ workers[n].job = "drop" => n \in undropped'
            BY <2>1, <3>3 DEF WorkerConsole, At, JobFails
      <4> HIDE DEF none
      <4>1. v \in Worker /\ v.leaf = workers[n].leaf /\ v.nonce = workers[n].nonce
            /\ v.pc = "answer" /\ v.job = workers[n].job
            BY <1>2, <4>0 DEF Worker, WorkerPcs
      <4>3. workers[n].job \in {"bind", "drop"}
            BY <1>2 DEF Worker
      <4> QED BY <4>1, <4>2, <4>3
    <3> QED BY <3>1, <3>2, <3>3
  <2>2. CASE WorkerOpen(n)
    <3>1. CASE Usable(workers[n].leaf, workers[n].hand)
      <4> DEFINE v == [workers[n] EXCEPT !.pc = "keep"]
      <4>1. v \in Worker /\ v.leaf = workers[n].leaf /\ v.nonce = workers[n].nonce
            /\ v.pc = "keep" /\ v.job = workers[n].job
            BY <1>2 DEF Worker, WorkerPcs
      <4>2. workers' = [workers EXCEPT ![n] = v] /\ workers[n].pc = "open"
            BY <2>2, <3>1 DEF WorkerOpen, At
      <4> QED BY <4>1, <4>2
    <3>2. CASE ~Usable(workers[n].leaf, workers[n].hand)
      <4> DEFINE none == 0
                 v == [workers[n] EXCEPT !.pc = "answer", !.hand = none]
      <4>0. none \in Int
            OBVIOUS
      <4>2. /\ workers' = [workers EXCEPT ![n] = v] /\ workers[n].pc = "open"
            /\ workers[n].job = "drop" => n \in undropped'
            BY <2>2, <3>2 DEF WorkerOpen, At, JobFails
      <4> HIDE DEF none
      <4>1. v \in Worker /\ v.leaf = workers[n].leaf /\ v.nonce = workers[n].nonce
            /\ v.pc = "answer" /\ v.job = workers[n].job
            BY <1>2, <4>0 DEF Worker, WorkerPcs
      <4>3. workers[n].job \in {"bind", "drop"}
            BY <1>2 DEF Worker
      <4> QED BY <4>1, <4>2, <4>3
    <3> QED BY <3>1, <3>2
  <2>3. CASE WorkerKeep(n)
    <3> DEFINE v == [workers[n] EXCEPT !.pc = "execute"]
    <3>1. v \in Worker /\ v.leaf = workers[n].leaf /\ v.nonce = workers[n].nonce
          /\ v.pc = "execute" /\ v.job = workers[n].job
          BY <1>2 DEF Worker, WorkerPcs
    <3>2. workers' = [workers EXCEPT ![n] = v] /\ workers[n].pc = "keep"
          BY <2>3 DEF WorkerKeep, At
    <3> QED BY <3>1, <3>2
  <2>4. CASE WorkerSession(n)
    <3> DEFINE v == [workers[n] EXCEPT !.pc = "snapshot", !.hand = SessionOf(workers[n].leaf)]
    <3>1. v \in Worker /\ v.leaf = workers[n].leaf /\ v.nonce = workers[n].nonce
          /\ v.pc = "snapshot"
          BY <1>2, <1>3 DEF Worker, WorkerPcs
    <3>2. workers' = [workers EXCEPT ![n] = v]
          BY <2>4 DEF WorkerSession, At
    <3> QED BY <3>1, <3>2
  <2>5. CASE WorkerSnapshot(n)
    <3> DEFINE got == Usable(workers[n].leaf, workers[n].hand)
                      /\ n \in server[workers[n].leaf].globals
               none == 0
               v == [workers[n] EXCEPT !.pc = "console", !.job = "drop", !.hand = none, !.ok = got]
    <3>0. got \in BOOLEAN /\ none \in Int
          BY DEF Usable
    <3>2. workers' = [workers EXCEPT ![n] = v]
          BY <2>5 DEF WorkerSnapshot, At
    <3> HIDE DEF got, none
    <3>1. v \in Worker /\ v.leaf = workers[n].leaf /\ v.nonce = workers[n].nonce
          /\ v.pc = "console" /\ v.job = "drop"
          BY <1>2, <3>0 DEF Worker, WorkerPcs
    <3> QED BY <3>1, <3>2
  <2>6. CASE WorkerAnswer(n)
    <3> DEFINE v == [workers[n] EXCEPT !.pc = "done", !.ok = FALSE]
    <3>1. v \in Worker /\ v.leaf = workers[n].leaf /\ v.nonce = workers[n].nonce
          /\ v.pc = "done"
          BY <1>2 DEF Worker, WorkerPcs
    <3>2. workers' = [workers EXCEPT ![n] = v] /\ workers[n].pc = "answer"
          BY <2>6 DEF WorkerAnswer, At
    <3> QED BY <3>1, <3>2
  <2> QED BY <2>1, <2>2, <2>3, <2>4, <2>5, <2>6
<1>6. PICK v \in Worker :
         /\ workers' = [workers EXCEPT ![n] = v]
         /\ v.leaf = workers[n].leaf /\ v.nonce = workers[n].nonce
         /\ v.pc = "answer" => \/ workers[n].job = "bind" /\ workers[n].pc \in {"console", "open"}
                               \/ n \in undropped'
         /\ v.pc = "done" => workers[n].pc = "answer"
         /\ v.job = "bind" /\ v.pc \in {"console", "open", "keep", "execute"} =>
              workers[n].job = "bind" /\ workers[n].pc \in {"console", "open", "keep", "execute"}
      BY <1>5
<1>7. Elsewhere(n) /\ workers'[n] = v
      BY <1>1, <1>6 DEF Elsewhere
<1>8. FleetTypeOK'
  <2>1. \A q \in DOMAIN workers : workers'[q] \in Worker
        BY <1>6, <1>7 DEF Elsewhere, FleetTypeOK
  <2> QED BY <1>1, <1>4, <1>7, <2>1 DEF FleetTypeOK, Elsewhere, Worker
<1>9. NoncesMatch'
  <2>1. result'.nonce = result'.query
    <3>1. CASE result' = result
          BY <3>1 DEF NoncesMatch
    <3>2. CASE result' # result
          BY <3>2 DEF WorkerConsole, WorkerOpen, WorkerKeep, WorkerSession, WorkerSnapshot,
                      WorkerAnswer, NoncesMatch
    <3> QED BY <3>1, <3>2
  <2> QED BY <1>1, <1>7, <2>1 DEF NoncesMatch, Elsewhere
<1>10. ASSUME NEW l \in Names, n \in server'[l].globals
       PROVE  /\ n \in undropped' \/ workers'[n].pc \notin {"answer", "done"}
              /\ ~(workers'[n].job = "bind"
                     /\ workers'[n].pc \in {"console", "open", "keep", "execute"})
  <2>1. ~(workers[n].job = "bind" /\ workers[n].pc \in {"console", "open", "keep", "execute"})
        BY <1>1, <1>10 DEF NumbersApart
  <2>2. \/ n \in undropped \/ workers[n].pc \notin {"answer", "done"}
        \/ <<l, n>> \in live \/ console.query = <<l, n>>
        BY <1>1, <1>10 DEF Bound
  <2>3. <<l, n>> \notin live /\ console.query # <<l, n>>
    <3>1. <<l, n>>[2] = n
          OBVIOUS
    <3> QED BY <3>1 DEF NumbersApart
  <2> QED BY <1>4, <1>6, <1>7, <2>1, <2>2, <2>3
<1> QED BY <1>1, <1>4, <1>7, <1>8, <1>9, <1>10, WorkerKeeps

\* executeCode binds the query's global, after which the worker is no more about to bind it, or
\* deletes it; when it cannot be sent, nothing was bound yet or what stays is recorded.
LEMMA ExecuteSound ==
    ASSUME FleetSound, NEW n \in DOMAIN workers, WorkerExecute(n)
    PROVE  FleetSound'
<1> USE DEF FleetSound
<1> DEFINE l == workers[n].leaf
           bind == workers[n].job = "bind"
           none == 0
           pc == IF bind THEN "session" ELSE "answer"
           v == [workers[n] EXCEPT !.pc = pc, !.hand = none]
           u == [workers[n] EXCEPT !.pc = "answer", !.hand = none]
<1>1. /\ UNCHANGED <<leaves, sessions, consoles, live, console, request, result, crashes, queries>>
      /\ Names' = Names
      /\ workers[n].pc = "execute"
      BY DEF WorkerExecute, At, Names
<1>2. /\ workers[n] \in Worker /\ l \in Names /\ workers[n].job \in {"bind", "drop"}
      /\ n \in Nat /\ none \in Int /\ pc \in WorkerPcs
      BY DEF FleetTypeOK, Worker, WorkerPcs
<1>3. \/ /\ server' = [server EXCEPT ![l].globals = IF bind THEN @ \cup {n} ELSE @ \ {n}]
         /\ workers' = [workers EXCEPT ![n] = v] /\ undropped' = undropped
      \/ /\ workers' = [workers EXCEPT ![n] = u] /\ server' = server
         /\ undropped' = IF bind THEN undropped ELSE undropped \cup {n}
      BY <1>2 DEF WorkerExecute, JobFails
<1>4. \A k \in Names : n \in server[k].globals => k = l /\ ~bind
      BY <1>1 DEF NumbersApart
<1> HIDE DEF none
<1>5. /\ v \in Worker /\ v.pc = pc /\ v.job = workers[n].job
      /\ v.leaf = l /\ v.nonce = workers[n].nonce
      /\ u \in Worker /\ u.pc = "answer" /\ u.job = workers[n].job
      /\ u.leaf = l /\ u.nonce = workers[n].nonce
  <2>1. /\ u \in Worker /\ u.pc = "answer" /\ u.job = workers[n].job
        /\ u.leaf = l /\ u.nonce = workers[n].nonce
        BY <1>2 DEF Worker, WorkerPcs
  <2> HIDE DEF pc, u
  <2>2. /\ v \in Worker /\ v.pc = pc /\ v.job = workers[n].job
        /\ v.leaf = l /\ v.nonce = workers[n].nonce
        BY <1>2 DEF Worker
  <2> QED BY <2>1, <2>2
<1> HIDE DEF v, u
<1>6. Elsewhere(n) /\ workers'[n] \in {v, u}
      BY <1>1, <1>3, <1>5 DEF Elsewhere
<1>7. server' \in [Names -> Server]
  <2>1. CASE server' = server
        BY <2>1 DEF FleetTypeOK
  <2>2. CASE server' = [server EXCEPT ![l].globals = IF bind THEN @ \cup {n} ELSE @ \ {n}]
    <3> DEFINE globals == IF bind THEN server[l].globals \cup {n} ELSE server[l].globals \ {n}
    <3>1. server[l] \in Server /\ globals \in SUBSET Nat
          BY <1>2 DEF FleetTypeOK, Server
    <3>2. server' = [server EXCEPT ![l].globals = globals]
          BY <1>2, <2>2 DEF FleetTypeOK, Server
    <3> HIDE DEF globals
    <3> QED BY <1>2, <3>1, <3>2 DEF FleetTypeOK, Server
  <2> QED BY <1>3, <2>1, <2>2
<1>8. FleetTypeOK'
  <2>1. \A q \in DOMAIN workers : workers'[q] \in Worker
        BY <1>5, <1>6 DEF Elsewhere, FleetTypeOK
  <2> QED BY <1>1, <1>6, <1>7, <2>1 DEF FleetTypeOK, Elsewhere, Worker
<1>9. NoncesMatch'
      BY <1>1, <1>6 DEF NoncesMatch, Elsewhere
<1>10. CASE /\ bind /\ workers'[n] = v
            /\ server' = [server EXCEPT ![l].globals = @ \cup {n}] /\ undropped' = undropped
  <2>1. /\ \A k \in Names : k # l => server'[k].globals = server[k].globals
        /\ server'[l].globals = server[l].globals \cup {n}
        BY <1>2, <1>10 DEF FleetTypeOK, Server
  <2>2. workers'[n].pc = "session" /\ workers'[n].leaf = l
        BY <1>5, <1>10
  <2>3. NumbersApart'
    <3>1. \A k \in Names : server'[k].globals \subseteq 1..queries
      <4>1. n \in 1..queries /\ \A k \in Names : server[k].globals \subseteq 1..queries
            BY DEF NumbersApart, FleetTypeOK
      <4> QED BY <2>1, <4>1
    <3>2. ASSUME NEW k \in Names, NEW q \in DOMAIN workers, q \in server'[k].globals
          PROVE  /\ workers'[q].leaf = k
                 /\ ~(workers'[q].job = "bind"
                      /\ workers'[q].pc \in {"console", "open", "keep", "execute"})
      <4>1. CASE q = n
            BY <1>4, <2>1, <2>2, <3>2, <4>1
      <4>2. CASE q # n
            BY <1>6, <2>1, <3>2, <4>2 DEF NumbersApart, Elsewhere
      <4> QED BY <4>1, <4>2
    <3> QED BY <1>1, <1>6, <3>1, <3>2 DEF NumbersApart, Elsewhere
  <2>4. Bound'
    <3> SUFFICES ASSUME NEW k \in Names, NEW q \in server'[k].globals
                 PROVE  \/ <<k, q>> \in live \/ console.query = <<k, q>> \/ q \in undropped
                        \/ q \in DOMAIN workers /\ workers'[q].pc \notin {"answer", "done"}
        BY <1>1, <1>6, <1>10 DEF Bound, Elsewhere
    <3>1. CASE q = n
          BY <2>2, <3>1
    <3>2. CASE q # n
          BY <1>6, <2>1, <3>2 DEF Bound, Elsewhere
    <3> QED BY <3>1, <3>2
  <2>5. LiveBound'
        BY <1>1, <2>1 DEF LiveBound, NumbersApart
  <2> QED BY <1>8, <1>9, <2>3, <2>4, <2>5
<1>11. CASE ~(bind /\ server' # server)
  <2>1. /\ \A k \in Names : server'[k].globals \subseteq server[k].globals
        /\ \A k \in Names : \A q : q \in server[k].globals /\ q # n => q \in server'[k].globals
    <3>1. CASE server' = server
          BY <3>1
    <3>2. CASE ~bind /\ server' = [server EXCEPT ![l].globals = @ \ {n}]
          BY <1>2, <3>2 DEF FleetTypeOK, Server
    <3> QED BY <1>3, <1>11, <3>1, <3>2
  <2>2. ASSUME NEW k \in Names, n \in server'[k].globals
        PROVE  n \in undropped' /\ ~(workers'[n].job = "bind")
    <3>1. k = l /\ ~bind /\ workers'[n].job = workers[n].job
          BY <1>4, <1>5, <1>6, <2>1, <2>2
    <3>2. server' # [server EXCEPT ![l].globals = @ \ {n}]
          BY <1>2, <2>2, <3>1 DEF FleetTypeOK, Server
    <3> QED BY <1>3, <3>1, <3>2
  <2>3. undropped \subseteq undropped'
        BY <1>3
  <2> QED BY <1>6, <1>8, <1>9, <2>1, <2>2, <2>3, WorkerKeeps
<1> QED BY <1>3, <1>6, <1>10, <1>11

-----------------------------------------------------------------------------
\* Every step

LEMMA FleetStep == FleetSound /\ [Next]_vars => FleetSound'
<1> SUFFICES ASSUME FleetSound, [Next]_vars PROVE FleetSound'
    OBVIOUS
<1>1. CASE \E l \in Names : Crash(l) \/ Boot(l) \/ Wire(l)
      BY <1>1, LeafSound
<1>2. CASE Subscribe \/ Connected \/ Retry \/ Reconnect
      BY <1>2, ConnectSound
<1>3. CASE Release
      BY <1>3, ReleaseSound
<1>4. CASE Close
      BY <1>4, CloseSound
<1>5. CASE LiveSubscribe
      BY <1>5, LiveSubscribeSound
<1>6. CASE \E hub \in Folded : LiveBind(hub) \/ Press(hub)
      BY <1>6, LiveBindSound, PressSound
<1>7. CASE ClearRequest
      BY <1>7, ClearSound
<1>8. ASSUME NEW q \in DOMAIN workers, WorkerStep(q) PROVE FleetSound'
      BY <1>8, WorkerWaits, ExecuteSound DEF WorkerStep
<1>9. CASE UNCHANGED vars
  <2>1. UNCHANGED <<leaves, server, sessions, consoles, live, console, workers, request, result,
                    crashes, queries, undropped>> /\ Names' = Names
        BY <1>9 DEF vars, fleetVars, panelVars, Names
  <2> QED BY <2>1 DEF FleetSound, FleetTypeOK, NumbersApart, Bound, LiveBound, NoncesMatch, Worker
<1> QED BY <1>1, <1>2, <1>3, <1>4, <1>5, <1>6, <1>7, <1>8, <1>9 DEF Next, ConsoleStep

LEMMA FleetInvariant == RemoteFleetSpec => []FleetSound
BY FleetInit, FleetStep, PTL DEF RemoteFleetSpec

\* For every fleet, no query leaves its global on a leaf: it belongs to a query under way or to
\* a live one, or its del could not be sent; and while no leaf crashed a live query's stays.
\* remote.py: query_snapshot, query_live, release_live.
THEOREM FleetGlobals == RemoteFleetSpec => []GlobalsAccounted
<1>1. FleetSound => GlobalsAccounted
  <2> SUFFICES ASSUME FleetSound PROVE GlobalsAccounted
      OBVIOUS
  <2>1. \A l \in Names : \A q \in server[l].globals :
           \/ <<l, q>> \in live \/ console.query = <<l, q>> \/ q \in undropped
           \/ q \in DOMAIN workers /\ workers[q].pc \notin {"answer", "done"}
        BY DEF FleetSound, Bound
  <2>2. ASSUME crashes = 0, NEW l \in Names, NEW q \in live, q[1] = l
        PROVE  q[2] \in server[l].globals
        BY <2>2 DEF FleetSound, LiveBound
  <2> QED BY <2>1, <2>2 DEF GlobalsAccounted
<1> QED BY <1>1, FleetInvariant, PTL

\* For every fleet, what the panel shows was fetched for the last press.
\* dashboard.py: _selection_handler, run_remote_query.
THEOREM FleetPanel == RemoteFleetSpec => []PanelAnswersPress
<1>1. FleetSound => PanelAnswersPress
      BY DEF FleetSound, NoncesMatch, PanelAnswersPress, Shown
<1> QED BY <1>1, FleetInvariant, PTL

-----------------------------------------------------------------------------
\* The walk of the quotes

\* Every quote is positive.
Sane(walk) == \A s \in DOMAIN walk.prices : walk.prices[s] \in Nat \ {0}

\* A symbol is quoted, and not at the default if the price with it counts.
Quotes(walk, pair) ==
    /\ UpperCase[pair[1]] \in DOMAIN walk.prices
    /\ Positive(pair[2]) => UpperCase[pair[1]] \notin walk.defaulted

Now == Walk(prices, defaulted)

Pair == Symbols \X (Int \cup {Null})

\* A price is never below the least one.
LEMMA Clamped == ASSUME NEW p \in Int PROVE Clamp(p) \in Nat \ {0}
BY QuoteAssumption DEF Clamp

\* A row of the listener quotes its symbol, and takes nothing from what is quoted already.
LEMMA EnsureQuotes ==
    ASSUME NEW walk, Sane(walk), NEW pair \in Pair
    PROVE  /\ Sane(Ensure(walk, pair))
           /\ Quotes(Ensure(walk, pair), pair)
           /\ \A other : Quotes(walk, other) => Quotes(Ensure(walk, pair), other)
<1> DEFINE name == UpperCase[pair[1]]
           begin == IF Positive(pair[2]) THEN Clamp(pair[2]) ELSE DefaultPrice
           known == [n \in DOMAIN walk.prices \cup {name} |->
                        IF n = name THEN begin ELSE walk.prices[n]]
           open == IF Positive(pair[2]) THEN walk.defaulted \ {name}
                                        ELSE walk.defaulted \cup {name}
<1>1. begin \in Nat \ {0}
  <2>1. Positive(pair[2]) => pair[2] \in Int
        BY DEF Positive, Pair
  <2> QED BY <2>1, Clamped, QuoteAssumption
<1>2. CASE name \in DOMAIN walk.prices /\ ~(Positive(pair[2]) /\ name \in walk.defaulted)
  <2>1. Ensure(walk, pair) = walk
        BY <1>2 DEF Ensure
  <2> QED BY <1>2, <2>1 DEF Quotes
<1>3. CASE ~(name \in DOMAIN walk.prices /\ ~(Positive(pair[2]) /\ name \in walk.defaulted))
  <2>1. Ensure(walk, pair) = [prices |-> known, defaulted |-> open]
        BY <1>3 DEF Ensure, Walk
  <2>2. Ensure(walk, pair).prices = known /\ Ensure(walk, pair).defaulted = open
        BY <2>1
  <2>3. DOMAIN known = DOMAIN walk.prices \cup {name}
        OBVIOUS
  <2>4. \A n \in DOMAIN known : \/ known[n] = begin
                                \/ n \in DOMAIN walk.prices /\ known[n] = walk.prices[n]
    <3> HIDE DEF begin
    <3> QED OBVIOUS
  <2>5. \A n \in DOMAIN walk.prices : n \in open /\ n \notin walk.defaulted =>
            n = name /\ ~Positive(pair[2])
        OBVIOUS
  <2>6. Positive(pair[2]) => name \notin open
        OBVIOUS
  <2>7. \A n \in DOMAIN walk.prices : n \in open => n \in walk.defaulted
        BY <1>3, <2>5
  <2> HIDE DEF known, open, begin
  <2>8. Sane(Ensure(walk, pair))
        BY <1>1, <2>2, <2>4 DEF Sane
  <2>9. Quotes(Ensure(walk, pair), pair)
        BY <2>2, <2>3, <2>6 DEF Quotes
  <2>10. ASSUME NEW other, Quotes(walk, other)
         PROVE  Quotes(Ensure(walk, pair), other)
         BY <2>2, <2>3, <2>7, <2>10 DEF Quotes
  <2> QED BY <2>8, <2>9, <2>10
<1> QED BY <1>2, <1>3

\* A set of naturals has a least element.
LEMMA LeastElement ==
    ASSUME NEW T, T \subseteq Nat, T # {}
    PROVE  \E x \in T : \A y \in T : x <= y
<1> DEFINE R == OpToRel(<, Nat)
<1>1. IsWellFoundedOn(R, Nat)
      BY NatLessThanWellFounded
<1>2. \A x, y \in Nat : x < y => <<x, y>> \in R
      BY DEF OpToRel
<1>   HIDE DEF R
<1>3. PICK x \in T : \A y \in T : ~ (<<y, x>> \in R)
      BY <1>1, WFMin
<1>4. \A y \in T : ~(y < x)
      BY <1>2, <1>3
<1> QED BY <1>3, <1>4

\* The first n steps of the walk along some rows.
Steps(f, pairs, n) ==
    /\ f = [i \in 0..n |-> f[i]]
    /\ f[0] = Now
    /\ \A i \in 1..n : f[i] = Ensure(f[i - 1], pairs[i])

\* There is such a walk along any rows,
LEMMA WalkExists ==
    ASSUME NEW pairs, NEW n \in Nat
    PROVE  \E f : Steps(f, pairs, n)
<1> DEFINE Good(m) == \E f : Steps(f, pairs, m)
           bad == {m \in 0..n : ~Good(m)}
<1>1. CASE bad # {}
  <2>1. bad \subseteq Nat
        OBVIOUS
  <2> HIDE DEF bad
  <2>2. PICK m \in bad : \A k \in bad : m <= k
        BY <1>1, <2>1, LeastElement
  <2> USE DEF bad
  <2>3. m \in Nat /\ m <= n /\ ~Good(m)
        BY <2>2
  <2>4. m # 0
    <3>1. Steps([i \in 0..0 |-> Now], pairs, 0)
          BY DEF Steps
    <3> QED BY <2>3, <3>1
  <2> DEFINE k == m - 1
  <2>5. k \in Nat /\ k + 1 = m /\ k \in 0..n /\ ~(m <= k)
        BY <2>3, <2>4
  <2>6. Good(k)
        BY <2>2, <2>5
  <2>7. PICK f : Steps(f, pairs, k)
        BY <2>6
  <2> HIDE DEF k
  <2> DEFINE g == [i \in 0..m |-> IF i <= k THEN f[i] ELSE Ensure(f[k], pairs[m])]
  <2>8. ASSUME NEW i \in 1..m PROVE g[i] = Ensure(g[i - 1], pairs[i])
    <3>1. CASE i <= k
      <4>1. i \in 1..k /\ i - 1 \in 0..m /\ i - 1 <= k /\ i \in 0..m
            BY <2>3, <2>5, <3>1
      <4>2. f[i] = Ensure(f[i - 1], pairs[i])
            BY <2>7, <4>1 DEF Steps
      <4>3. g[i] = f[i] /\ g[i - 1] = f[i - 1]
            BY <3>1, <4>1
      <4> QED BY <4>2, <4>3
    <3>2. CASE i = m
      <4>1. i - 1 = k /\ k \in 0..m /\ ~(i <= k) /\ i \in 0..m /\ k <= k
            BY <2>3, <2>5, <3>2
      <4>2. g[i] = Ensure(f[k], pairs[i]) /\ g[k] = f[k]
            BY <3>2, <4>1
      <4> QED BY <4>1, <4>2
    <3> QED BY <2>3, <2>5, <3>1, <3>2
  <2>9. g[0] = Now
    <3>1. 0 \in 0..m /\ 0 <= k
          BY <2>3, <2>5
    <3> QED BY <2>7, <3>1 DEF Steps
  <2>10. g = [i \in 0..m |-> g[i]]
         OBVIOUS
  <2> HIDE DEF g
  <2>11. Steps(g, pairs, m)
         BY <2>8, <2>9, <2>10 DEF Steps
  <2> QED BY <2>3, <2>11
<1>2. CASE bad = {}
      BY <1>2
<1> QED BY <1>1, <1>2

\* and the listener's walk is one.
LEMMA WalkedIs ==
    ASSUME NEW pairs \in Seq(Pair)
    PROVE  \E f : Steps(f, pairs, Len(pairs)) /\ Walked(pairs) = f[Len(pairs)]
<1> DEFINE n == Len(pairs)
           Body(f) == [i \in 0..n |-> IF i = 0 THEN Walk(prices, defaulted)
                                               ELSE Ensure(f[i - 1], pairs[i])]
           walk == CHOOSE f : f = Body(f)
<1>1. n \in Nat
      BY LenProperties
<1>2. Walked(pairs) = walk[n]
      BY DEF Walked
<1>3. PICK f : Steps(f, pairs, n)
      BY <1>1, WalkExists
<1>4. \A i \in 0..n : f[i] = Body(f)[i]
  <2>1. \A i \in 0..n : i = 0 \/ i \in 1..n
        BY <1>1
  <2> QED BY <1>1, <1>3, <2>1 DEF Steps, Now
<1>5. f = Body(f)
  <2>1. f = [i \in 0..n |-> f[i]]
        BY <1>3 DEF Steps
  <2> HIDE DEF n
  <2> QED BY <1>4, <2>1
<1>6. walk = Body(walk)
  <2> HIDE DEF Body
  <2> QED BY <1>5
<1>7. Steps(walk, pairs, n)
  <2> HIDE DEF walk
  <2>1. walk = [i \in 0..n |-> walk[i]]
        BY <1>6
  <2>2. \A i \in 0..n : walk[i] = Body(walk)[i]
        BY <1>6
  <2>3. 0 \in 0..n /\ \A i \in 1..n : i \in 0..n /\ i # 0
        BY <1>1
  <2> QED BY <2>1, <2>2, <2>3 DEF Steps, Now
<1> HIDE DEF walk, n
<1> QED BY <1>2, <1>7 DEF n

\* After the rows each of their symbols is quoted, and what was quoted still is.
LEMMA WalkedQuotes ==
    ASSUME Sane(Now), NEW pairs \in Seq(Pair)
    PROVE  /\ Sane(Walked(pairs))
           /\ \A i \in 1..Len(pairs) : Quotes(Walked(pairs), pairs[i])
           /\ \A other : Quotes(Now, other) => Quotes(Walked(pairs), other)
<1>1. Len(pairs) \in Nat /\ \A i \in 1..Len(pairs) : pairs[i] \in Pair
      BY LenProperties, ElementOfSeq
<1>2. PICK f : Steps(f, pairs, Len(pairs)) /\ Walked(pairs) = f[Len(pairs)]
      BY WalkedIs
<1> DEFINE Good(m) == /\ Sane(f[m])
                      /\ \A i \in 1..m : Quotes(f[m], pairs[i])
                      /\ \A other : Quotes(Now, other) => Quotes(f[m], other)
           bad == {m \in 0..Len(pairs) : ~Good(m)}
<1>3. CASE bad # {}
  <2>1. bad \subseteq Nat
        BY <1>1
  <2> HIDE DEF bad
  <2>2. PICK m \in bad : \A k \in bad : m <= k
        BY <1>3, <2>1, LeastElement
  <2> USE DEF bad
  <2> HIDE DEF Good
  <2>3. m \in Nat /\ m <= Len(pairs) /\ ~Good(m)
        BY <1>1, <2>2
  <2>4. m # 0
    <3>1. f[0] = Now
          BY <1>2 DEF Steps
    <3>2. \A i \in 1..0 : FALSE
          OBVIOUS
    <3> QED BY <2>3, <3>1, <3>2 DEF Good
  <2> DEFINE k == m - 1
  <2>5. k \in Nat /\ k + 1 = m /\ k \in 0..Len(pairs) /\ ~(m <= k) /\ m \in 1..Len(pairs)
        BY <1>1, <2>3, <2>4
  <2>6. Good(k)
        BY <2>2, <2>5
  <2>7. f[m] = Ensure(f[k], pairs[m]) /\ pairs[m] \in Pair
        BY <1>1, <1>2, <2>5 DEF Steps
  <2>8. \A i \in 1..m : i = m \/ i \in 1..k
        BY <2>5
  <2> HIDE DEF k
  <2>9. Sane(f[k])
        BY <2>6 DEF Good
  <2>10. /\ Sane(f[m])
         /\ Quotes(f[m], pairs[m])
         /\ \A other : Quotes(f[k], other) => Quotes(f[m], other)
         BY <2>7, <2>9, EnsureQuotes
  <2>11. Good(m)
    <3>1. ASSUME NEW i \in 1..m PROVE Quotes(f[m], pairs[i])
          BY <2>6, <2>8, <2>10 DEF Good
    <3> QED BY <2>6, <2>10, <3>1 DEF Good
  <2> QED BY <2>3, <2>11
<1>4. CASE bad = {}
  <2>1. Good(Len(pairs))
        BY <1>1, <1>4
  <2> QED BY <1>2, <2>1
<1> QED BY <1>3, <1>4

-----------------------------------------------------------------------------
\* The orders and their quotes

QuoteTypes ==
    /\ IsFiniteSet(DOMAIN rows)
    /\ \A o \in DOMAIN rows : rows[o] \in OrderState
    /\ Sane(Now)

Followed == listening => \A pair \in Pairs(rows) : Quotes(Now, pair)

QuoteSound == QuoteTypes /\ Followed

\* The sequences of a finite set name each of its elements.
LEMMA Listed ==
    ASSUME NEW S, IsFiniteSet(S), NEW order \in SetToSeqs(S)
    PROVE  /\ order \in Seq(S)
           /\ \A x \in S : \E i \in 1..Len(order) : order[i] = x
<1> DEFINE n == Cardinality(S)
<1>1. n \in Nat
      BY FS_CardinalityType
<1>2. order \in [1..n -> S] /\ \A i, j \in 1..n : i # j => order[i] # order[j]
      BY DEF SetToSeqs
<1> HIDE DEF n
<1>3. order \in Seq(S) /\ Len(order) = n
      BY <1>1, <1>2
<1>4. order \in Injection(1..n, S)
      BY <1>2 DEF Injection, IsInjective
<1>5. Cardinality(1..n) = n /\ IsFiniteSet(1..n)
      BY <1>1, FS_Interval
<1>6. order \in Surjection(1..n, S)
      BY <1>4, <1>5, FS_Injection DEF n
<1> QED BY <1>3, <1>6 DEF Surjection

\* The listener's source has finitely many rows, and they are pairs.
LEMMA PairsFinite ==
    ASSUME NEW orders, IsFiniteSet(DOMAIN orders),
           \A o \in DOMAIN orders : orders[o] \in OrderState
    PROVE  IsFiniteSet(Pairs(orders)) /\ Pairs(orders) \subseteq Pair
<1> DEFINE pairOf == [o \in DOMAIN orders |-> <<orders[o].symbol, orders[o].price>>]
<1>1. \A o \in DOMAIN orders : pairOf[o] \in Pairs(orders)
      BY DEF Pairs, Range
<1>2. \A pair \in Pairs(orders) : \E o \in DOMAIN orders : pair = pairOf[o]
      BY DEF Pairs, Range
<1>3. \A o \in DOMAIN orders : pairOf[o] \in Pair
      BY DEF OrderState, Pair
<1>4. pairOf \in Surjection(DOMAIN orders, Pairs(orders))
  <2>1. pairOf \in [DOMAIN orders -> Pairs(orders)]
        BY <1>1
  <2> HIDE DEF pairOf
  <2> QED BY <1>2, <2>1 DEF Surjection
<1> HIDE DEF pairOf
<1>5. IsFiniteSet(Pairs(orders))
      BY <1>4, FS_Surjection
<1> QED BY <1>2, <1>3, <1>5

\* What comes to the listener is quoted after it, and what was quoted still is.
LEMMA UpdateQuotes ==
    ASSUME Sane(Now), NEW added, IsFiniteSet(added), added \subseteq Pair, OnUpdate(added)
    PROVE  /\ Sane(Now)'
           /\ \A pair \in added : Quotes(Now, pair)'
           /\ \A pair : Quotes(Now, pair) => Quotes(Now, pair)'
<1>1. PICK order \in SetToSeqs(added) :
          prices' = Walked(order).prices /\ defaulted' = Walked(order).defaulted
      BY DEF OnUpdate
<1>2. order \in Seq(added) /\ \A x \in added : \E i \in 1..Len(order) : order[i] = x
      BY <1>1, Listed
<1>3. order \in Seq(Pair)
  <2>1. Len(order) \in Nat /\ order \in [1..Len(order) -> added]
        BY <1>2
  <2> QED BY <2>1
<1> DEFINE walk == Walked(order)
<1>4. /\ Sane(walk)
      /\ \A i \in 1..Len(order) : Quotes(walk, order[i])
      /\ \A other : Quotes(Now, other) => Quotes(walk, other)
      BY <1>3, WalkedQuotes
<1> HIDE DEF walk
<1>5. Now'.prices = walk.prices /\ Now'.defaulted = walk.defaulted
      BY <1>1 DEF Now, Walk, walk
<1>6. Sane(Now)' /\ \A pair : Quotes(walk, pair) <=> Quotes(Now, pair)'
      BY <1>4, <1>5 DEF Sane, Quotes
<1> QED BY <1>2, <1>4, <1>6

\* No step of the walk takes a quote away or below the least price.
LEMMA StepSound ==
    ASSUME QuoteSound, Step
    PROVE  QuoteSound'
<1>1. PICK move \in [DOMAIN prices -> {-1, 0, 1}] :
          prices' = [s \in DOMAIN prices |-> Min({MaxPrice, Clamp(prices[s] + move[s])})]
      BY DEF Step
<1>2. UNCHANGED <<rows, listening, defaulted>>
      BY DEF Step
<1>3. ASSUME NEW s \in DOMAIN prices PROVE prices'[s] \in Nat \ {0}
  <2> DEFINE b == Clamp(prices[s] + move[s])
  <2>1. prices[s] \in Int /\ move[s] \in Int
        BY DEF QuoteSound, QuoteTypes, Sane, Now, Walk
  <2>2. b \in Nat \ {0}
        BY <2>1, Clamped
  <2> HIDE DEF b
  <2>3. \E x \in {MaxPrice, b} : \A y \in {MaxPrice, b} : x =< y
        BY <2>2, QuoteAssumption
  <2>4. Min({MaxPrice, b}) \in {MaxPrice, b}
        BY <2>3 DEF Min
  <2>5. prices'[s] = Min({MaxPrice, b})
        BY <1>1 DEF b
  <2> QED BY <2>2, <2>4, <2>5, QuoteAssumption
<1>4. DOMAIN prices' = DOMAIN prices
      BY <1>1
<1>5. Sane(Now)'
      BY <1>3, <1>4 DEF Sane, Now, Walk
<1>6. \A pair : Quotes(Now, pair) => Quotes(Now, pair)'
      BY <1>2, <1>4 DEF Quotes, Now, Walk
<1>7. Pairs(rows)' = Pairs(rows)
      BY <1>2
<1> QED BY <1>2, <1>5, <1>6, <1>7 DEF QuoteSound, QuoteTypes, Followed

\* A feed that listens to nothing promises nothing.
LEMMA DetachSound ==
    ASSUME QuoteSound, Detach
    PROVE  QuoteSound'
BY DEF Detach, QuoteSound, QuoteTypes, Followed, Now

\* The listener replays what is there when it is attached.
LEMMA AttachSound ==
    ASSUME QuoteSound, Attach
    PROVE  QuoteSound'
<1> SUFFICES ASSUME listening' = TRUE, OnUpdate(Pairs(rows)), UNCHANGED rows PROVE QuoteSound'
    BY DetachSound DEF Attach
<1>1. IsFiniteSet(Pairs(rows)) /\ Pairs(rows) \subseteq Pair
      BY PairsFinite DEF QuoteSound, QuoteTypes
<1>2. OnUpdate(Pairs(rows)) /\ rows' = rows
      OBVIOUS
<1>3. Sane(Now)' /\ \A pair \in Pairs(rows) : Quotes(Now, pair)'
      BY <1>1, <1>2, UpdateQuotes DEF QuoteSound, QuoteTypes
<1> QED BY <1>2, <1>3 DEF QuoteSound, QuoteTypes, Followed

\* Whatever the fleet does, the feed is attached, detached or left alone.
LEMMA FleetMovesSound ==
    ASSUME QuoteSound, QuotesFollowFleet
    PROVE  QuoteSound'
<1>1. Attach \/ Detach \/ UNCHANGED quoteVars
      BY DEF QuotesFollowFleet
<1>2. CASE Attach
      BY <1>2, AttachSound
<1>3. CASE Detach
      BY <1>3, DetachSound
<1>4. CASE UNCHANGED quoteVars
      BY <1>4 DEF quoteVars, QuoteSound, QuoteTypes, Followed, Now
<1> QED BY <1>1, <1>2, <1>3, <1>4

\* An order's symbol and price are known already or new to the listener.
LEMMA OrderUpdateSound ==
    ASSUME QuoteSound, OrderUpdate
    PROVE  QuoteSound'
<1>1. PICK update \in OrderStates :
          rows' = [o \in DOMAIN rows \cup {update[1]} |->
                      IF o = update[1] THEN update[2] ELSE rows[o]]
      BY DEF OrderUpdate
<1>2. update[2] \in OrderState
      BY QuoteAssumption
<1>3. /\ IsFiniteSet(DOMAIN rows')
      /\ \A o \in DOMAIN rows' : rows'[o] \in OrderState
  <2>1. DOMAIN rows' = DOMAIN rows \cup {update[1]}
        BY <1>1
  <2>2. IsFiniteSet(DOMAIN rows \cup {update[1]})
        BY FS_AddElement DEF QuoteSound, QuoteTypes
  <2> QED BY <1>1, <1>2, <2>1, <2>2 DEF QuoteSound, QuoteTypes
<1> DEFINE added == Pairs(rows') \ Pairs(rows)
<1>4. IsFiniteSet(Pairs(rows')) /\ Pairs(rows') \subseteq Pair
      BY <1>3, PairsFinite
<1>5. IsFiniteSet(added) /\ added \subseteq Pair
      BY <1>4, FS_Subset
<1>6. listening' = listening
      BY DEF OrderUpdate
<1>7. CASE listening
  <2>1. OnUpdate(added)
        BY <1>7 DEF OrderUpdate
  <2> HIDE DEF added
  <2>2. /\ Sane(Now)'
        /\ \A pair \in added : Quotes(Now, pair)'
        /\ \A pair : Quotes(Now, pair) => Quotes(Now, pair)'
        BY <1>5, <2>1, UpdateQuotes DEF QuoteSound, QuoteTypes
  <2>3. \A pair \in Pairs(rows') : Quotes(Now, pair)'
        BY <1>7, <2>2 DEF added, QuoteSound, Followed
  <2> QED BY <1>3, <2>2, <2>3 DEF QuoteSound, QuoteTypes, Followed
<1>8. CASE ~listening
  <2>1. UNCHANGED <<prices, defaulted>>
        BY <1>8 DEF OrderUpdate
  <2> QED BY <1>3, <1>6, <1>8, <2>1 DEF QuoteSound, QuoteTypes, Followed, Now
<1> QED BY <1>7, <1>8

\* The walk is seeded with the prices of an accepted universe.
LEMMA QuoteInitSound == QuoteInit => QuoteSound
<1> SUFFICES ASSUME QuoteInit PROVE QuoteSound
    OBVIOUS
<1>1. rows = [o \in {} |-> Null] /\ listening = FALSE
      BY DEF QuoteInit
<1>2. DOMAIN rows = {}
      BY <1>1
<1>3. PICK u \in Universes : prices = [s \in {UpperCase[pair[1]] : pair \in ToSet(u)} |->
               Clamp((CHOOSE pair \in ToSet(u) : UpperCase[pair[1]] = s)[2])]
      BY DEF QuoteInit
<1>4. \A pair \in ToSet(u) : pair[2] \in Int
  <2>1. u \in Seq(Symbols \X Int)
        BY QuoteAssumption
  <2>2. \A i \in DOMAIN u : u[i] \in Symbols \X Int
        BY <2>1
  <2> QED BY <2>2 DEF ToSet
<1>5. ASSUME NEW s \in DOMAIN prices PROVE prices[s] \in Nat \ {0}
  <2> DEFINE seed == CHOOSE pair \in ToSet(u) : UpperCase[pair[1]] = s
  <2>1. \E pair \in ToSet(u) : UpperCase[pair[1]] = s
        BY <1>3
  <2>2. seed \in ToSet(u)
        BY <2>1
  <2>3. prices[s] = Clamp(seed[2])
        BY <1>3
  <2> HIDE DEF seed
  <2> QED BY <1>4, <2>2, <2>3, Clamped
<1> QED BY <1>1, <1>2, <1>5, FS_EmptySet DEF QuoteSound, QuoteTypes, Followed, Sane, Now, Walk

-----------------------------------------------------------------------------
\* The exposure

\* The table's formula and the plain Python agree on an order.
LEMMA ExposuresAgree ==
    ASSUME QuoteSound, NEW o \in DOMAIN rows
    PROVE  SignedExposure(rows[o]) = RefExposure(rows[o])
<1> DEFINE r == rows[o]
           mid == Mid(r.symbol)
           done == OrZero(r.avg) * r.cum
           openly == r.leaves * RefMark(mid, r.price)
<1>1. r \in OrderState
      BY DEF QuoteSound, QuoteTypes
<1>2. mid = Null \/ mid \in Nat \ {0}
      BY DEF QuoteSound, QuoteTypes, Sane, Now, Walk, Mid
<1>3. MarkPx(r) = RefMark(mid, r.price)
  <2>1. mid # Null => Positive(mid)
        BY <1>2 DEF Positive
  <2>2. mid = Null => ~Positive(mid)
        BY DEF Positive
  <2> QED BY <2>1, <2>2 DEF MarkPx, RefMark
<1>4. OpenNotional(r) = openly
      BY <1>3 DEF OpenNotional
<1>5. /\ OrZero(r.avg) \in Int /\ OrZero(r.price) \in Int
      /\ r.cum \in Int /\ r.leaves \in Int /\ r.buy \in BOOLEAN
      BY <1>1 DEF OrderState, OrZero
<1>6. RefMark(mid, r.price) \in Int
      BY <1>2, <1>5 DEF RefMark, Positive
<1>7. done \in Int /\ openly \in Int
  <2> HIDE DEF mid, r
  <2> QED BY <1>5, <1>6
<1>8. SignedExposure(r) = (IF r.buy THEN 1 ELSE -1) * (done + openly)
      BY <1>4 DEF SignedExposure
<1>9. RefExposure(r) = IF r.buy THEN done + openly ELSE -(done + openly)
      BY DEF RefExposure
<1> HIDE DEF done, openly, r
<1>10. SignedExposure(r) = RefExposure(r)
       BY <1>5, <1>7, <1>8, <1>9
<1> QED BY <1>10 DEF r

\* A sum is that of its terms.
LEMMA SumsOfExposures ==
    ASSUME QuoteSound, NEW symbol
    PROVE  ExposureOf(symbol) = SumExposure({o \in DOMAIN rows : rows[o].symbol = symbol})
<1> DEFINE S == {o \in DOMAIN rows : rows[o].symbol = symbol}
           First(s) == CHOOSE o \in s : TRUE
           F(o) == SignedExposure(rows[o])
           G(o) == RefExposure(rows[o])
           SumF(g) == [s \in SUBSET S |-> IF s = {} THEN 0 ELSE F(First(s)) + g[s \ {First(s)}]]
           SumG(g) == [s \in SUBSET S |-> IF s = {} THEN 0 ELSE G(First(s)) + g[s \ {First(s)}]]
<1>1. \A o \in S : F(o) = G(o)
      BY ExposuresAgree
<1>2. ExposureOf(symbol) = (CHOOSE g : g = SumF(g))[S]
      BY DEF ExposureOf, MapThenSumSet, MapThenFoldSet
<1>3. SumExposure(S) = (CHOOSE g : g = SumG(g))[S]
      BY DEF SumExposure, MapThenSumSet, MapThenFoldSet
<1> HIDE DEF S, F, G
<1>4. \A s \in SUBSET S : s # {} => First(s) \in S
      OBVIOUS
<1> HIDE DEF First
<1>5. \A g : SumF(g) = SumG(g)
      BY <1>1, <1>4
<1> HIDE DEF SumF, SumG
<1>6. (CHOOSE g : g = SumF(g)) = (CHOOSE g : g = SumG(g))
      BY <1>5
<1> QED BY <1>2, <1>3, <1>6 DEF S

LEMMA QuoteSafety == QuoteSound => QuotesFollow
<1> SUFFICES ASSUME QuoteSound PROVE QuotesFollow
    OBVIOUS
<1>1. ASSUME listening, NEW o \in Range(rows)
      PROVE  /\ UpperCase[o.symbol] \in DOMAIN prices
             /\ Positive(o.price) => UpperCase[o.symbol] \notin defaulted
  <2>1. Quotes(Now, <<o.symbol, o.price>>)
        BY <1>1 DEF QuoteSound, Followed, Pairs
  <2> QED BY <2>1 DEF Quotes, Now, Walk
<1>2. \A symbol \in {o.symbol : o \in Range(rows)} :
          ExposureOf(symbol) = SumExposure({o \in DOMAIN rows : rows[o].symbol = symbol})
      BY SumsOfExposures
<1> QED BY <1>1, <1>2 DEF QuotesFollow

\* For every universe, every stream of orders and every reconnect: while the feed listens every
\* symbol of an order is quoted, not at the default price if an order of it has a price, and the
\* tables' exposure is the plain Python's.
THEOREM QuotesFollowOrders == FleetQuotesSpec => []QuotesFollow
<1>1. Init /\ QuoteInit => QuoteSound
      BY QuoteInitSound
<1>2. QuoteSound /\ [FleetMoves \/ OrdersMove \/ QuotesMove]_allVars => QuoteSound'
  <2> SUFFICES ASSUME QuoteSound, [FleetMoves \/ OrdersMove \/ QuotesMove]_allVars
               PROVE  QuoteSound'
      OBVIOUS
  <2>1. CASE FleetMoves
        BY <2>1, FleetMovesSound DEF FleetMoves
  <2>2. CASE OrdersMove
        BY <2>2, OrderUpdateSound DEF OrdersMove
  <2>3. CASE QuotesMove
        BY <2>3, StepSound DEF QuotesMove
  <2>4. CASE UNCHANGED allVars
        BY <2>4 DEF allVars, quoteVars, QuoteSound, QuoteTypes, Followed, Now
  <2> QED BY <2>1, <2>2, <2>3, <2>4
<1> QED BY <1>1, <1>2, QuoteSafety, PTL DEF FleetQuotesSpec

\* The quotes disturb nothing of the fleet: under their specification it is the fleet's.
THEOREM QuotesOverFleet == FleetQuotesSpec => RemoteFleetSpec
<1>1. [FleetMoves \/ OrdersMove \/ QuotesMove]_allVars => [Next]_vars
      BY DEF FleetMoves, OrdersMove, QuotesMove, allVars
<1> QED BY <1>1, PTL DEF FleetQuotesSpec, RemoteFleetSpec
=============================================================================
