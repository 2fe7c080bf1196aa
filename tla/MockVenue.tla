------------------------------ MODULE MockVenue ------------------------------
(***************************************************************************)
(* The mock venue of the basket OMS demo (venue.py) and the thread that    *)
(* drives it (simulator.py), against the order core.                       *)
(*                                                                         *)
(* A round of step() takes a snapshot of the orders at a venue and then    *)
(* looks at one after the other without the core's lock: it works out      *)
(* whether and how much an order fills (Look), fills it (Execute) and      *)
(* cancels what an IOC order has left (Finish), each under a lock of its   *)
(* own, while traders do what they like.  The simulator's loop and the     *)
(* console's oms_sim("step") may be in a round at once.  Chances drawn at  *)
(* random are choices.                                                     *)
(***************************************************************************)
EXTENDS BasketCore, FiniteSetsExt

CONSTANTS Loops,         \* bound: threads the simulator may start, one after the other
          Console,       \* the caller of oms_sim("step")
          MaxRounds,     \* bound: rounds the console asks for
          Quotes         \* states of the quote board: [bid, ask]

ASSUME VenueAssumption == \A q \in Quotes : q.bid > 0 /\ q.bid <= q.ask

Steppers == Loops \cup {Console}

VARIABLES
    quote,               \* the quote board
    iocTried,            \* orders that had their one attempt
    doing,               \* stepper -> "idle", "round", "priced", "tried" or "gone"
    todo,                \* stepper -> the rest of its snapshot, taken in order of creation
    hand,                \* stepper -> [ioc, fills, qty] of the current order
    stopSet,             \* Simulator._stop
    thread,              \* Simulator._thread
    started,             \* loops that were started
    joining,             \* the thread a stop() waits for, None if nobody does
    rounds,              \* rounds the console asked for
    overlapped           \* history: two rounds were under way at once

venueVars == <<quote, iocTried, doing, todo, hand, overlapped>>
simVars   == <<stopSet, thread, started, joining, rounds>>

Idle == [ioc |-> FALSE, fills |-> FALSE, qty |-> 0]

InRound(v) == doing[v] \in {"round", "priced", "tried"}

-----------------------------------------------------------------------------
Snapshot(statuses) == {i \in DOMAIN orders : orders[i].status \in statuses}

\* Mutant: the snapshot leaves out orders that were not yet acknowledged.
BeginRound_SkipsRouted(v) ==
    /\ doing[v] = "idle"
    /\ quote' \in Quotes
    /\ todo' = [todo EXCEPT ![v] = Snapshot({"WORKING", "PARTIAL"})]
    /\ doing' = [doing EXCEPT ![v] = "round"]
    /\ overlapped' = (overlapped \/ \E w \in Steppers \ {v} : InRound(w))
    /\ UNCHANGED <<coreVars, iocTried, hand>>

\* step(): quotes tick, then a snapshot under the lock.
BeginRound(v) ==
    /\ doing[v] = "idle"
    /\ quote' \in Quotes
    /\ todo' = [todo EXCEPT ![v] = Snapshot(Routed)]
    /\ doing' = [doing EXCEPT ![v] = "round"]
    /\ overlapped' = (overlapped \/ \E w \in Steppers \ {v} : InRound(w))
    /\ UNCHANGED <<coreVars, iocTried, hand>>

\* The order of the snapshot that a stepper is at.
First(v)   == Min(todo[v])
Current(v) == orders[First(v)]

\* On to the next one.
Onward(v) == /\ doing' = [doing EXCEPT ![v] = "round"]
             /\ todo'  = [todo EXCEPT ![v] = @ \ {First(v)}]
             /\ hand'  = [hand EXCEPT ![v] = Idle]

\* A routed order is acknowledged, or rejected at the dark pool.
Answer(v) ==
    /\ doing[v] = "round" /\ todo[v] # {}
    /\ Current(v).status = "ROUTED"
    /\ \/ Ack(First(v))
       \/ Current(v).venue = Dark /\ Reject(First(v))
    /\ Onward(v)
    /\ UNCHANGED <<quote, iocTried, overlapped>>

\* Whether an order could fill at the quotes of now.
FillPrice(order) ==
    IF order.side = "BUY" THEN order.type = "MKT" \/ quote.ask <= order.limit
    ELSE order.type = "MKT" \/ quote.bid >= order.limit

\* What a fill may ask for, quantities counted in lots of 100: all that is left when it is
\* little, else between 15 and 60 per cent of it and at least a lot.
Sizes(order) ==
    IF order.leaves <= 2 THEN {order.leaves} ELSE 1..((6 * order.leaves + 5) \div 10)

\* An order at work: one attempt for IOC, a chance otherwise.
Look(v) ==
    /\ doing[v] = "round" /\ todo[v] # {}
    /\ Current(v).status # "ROUTED"
    /\ LET i == First(v)  ioc == Current(v).tif = "IOC" IN
       \/ /\ (ioc => i \notin iocTried)
          /\ IF FillPrice(Current(v))
             THEN \E q \in Sizes(Current(v)) :
                    hand' = [hand EXCEPT ![v] = [ioc |-> ioc, fills |-> TRUE, qty |-> q]]
             ELSE hand' = [hand EXCEPT ![v] = [Idle EXCEPT !.ioc = ioc]]
          /\ doing' = [doing EXCEPT ![v] = "priced"]
          /\ UNCHANGED todo
       \/ /\ (ioc => i \in iocTried)
          /\ Onward(v)
    /\ UNCHANGED <<coreVars, quote, iocTried, overlapped>>

\* The fill, if there was a price.  A refused one ends the work on this order.
Execute(v) ==
    /\ doing[v] = "priced"
    /\ LET i == First(v)  h == hand[v] IN
       \/ /\ h.fills
          /\ Fill(i, h.qty)
          /\ doing' = [doing EXCEPT ![v] = "tried"]
          /\ UNCHANGED <<todo, hand>>
       \/ /\ h.fills
          /\ ~(orders[i].status \in {"WORKING", "PARTIAL"} /\ orders[i].leaves > 0)
          /\ Onward(v)
          /\ UNCHANGED coreVars
       \/ /\ ~h.fills
          /\ doing' = [doing EXCEPT ![v] = "tried"]
          /\ UNCHANGED <<coreVars, todo, hand>>
    /\ UNCHANGED <<quote, iocTried, overlapped>>

\* Mutant: what an IOC order has left stays at work.
Finish_KeepsRest(v) ==
    /\ doing[v] = "tried"
    /\ iocTried' = IF hand[v].ioc THEN iocTried \cup {First(v)} ELSE iocTried
    /\ Onward(v)
    /\ UNCHANGED <<coreVars, quote, overlapped>>

\* After an IOC order's attempt the venue cancels the rest of it.
Finish(v) ==
    /\ doing[v] = "tried"
    /\ LET i == First(v) IN
       \/ /\ hand[v].ioc
          /\ iocTried' = iocTried \cup {i}
          /\ orders[i].leaves > 0 /\ orders[i].status \in {"WORKING", "PARTIAL"}
          /\ Cancel(i) /\ UNCHANGED calls
       \/ /\ hand[v].ioc
          /\ iocTried' = iocTried \cup {i}
          /\ ~(orders[i].leaves > 0 /\ orders[i].status \in {"WORKING", "PARTIAL"})
          /\ UNCHANGED coreVars
       \/ /\ ~hand[v].ioc
          /\ UNCHANGED <<coreVars, iocTried>>
    /\ Onward(v)
    /\ UNCHANGED <<quote, overlapped>>

\* A loop looks at the stop flag between two rounds.
EndRound(v) ==
    /\ doing[v] = "round" /\ todo[v] = {}
    /\ doing' = [doing EXCEPT ![v] = IF v # Console /\ stopSet THEN "gone" ELSE "idle"]
    /\ UNCHANGED <<coreVars, quote, iocTried, todo, hand, overlapped>>

\* Stopped while it waits for the next round.
LeaveLoop(v) ==
    /\ v \in started /\ doing[v] = "idle" /\ stopSet
    /\ doing' = [doing EXCEPT ![v] = "gone"]
    /\ UNCHANGED <<coreVars, quote, iocTried, todo, hand, overlapped>>

-----------------------------------------------------------------------------
\* The simulator's thread

Alive(v) == v \in started /\ doing[v] # "gone"
Running  == thread # None /\ Alive(thread) /\ ~stopSet

StartSimulator ==
    /\ ~Running
    /\ stopSet' = FALSE
    /\ \E v \in Loops \ started :
         thread' = v /\ started' = started \cup {v}
    /\ UNCHANGED <<coreVars, venueVars, joining, rounds>>

\* stop(): the flag, then a join that may give up after its timeout.
StopSimulator ==
    /\ joining = None
    /\ stopSet' = TRUE
    /\ IF thread # None /\ Alive(thread)
       THEN joining' = thread /\ UNCHANGED thread
       ELSE thread' = None /\ UNCHANGED joining
    /\ UNCHANGED <<coreVars, venueVars, started, rounds>>

Joined ==
    /\ joining # None
    /\ joining' = None
    /\ thread' = None
    /\ UNCHANGED <<coreVars, venueVars, stopSet, started, rounds>>

\* oms_sim("step")
AskForRound ==
    /\ rounds < MaxRounds
    /\ rounds' = rounds + 1
    /\ BeginRound(Console)
    /\ UNCHANGED <<stopSet, thread, started, joining>>

LoopBegins(v) == v \in started /\ ~stopSet /\ BeginRound(v)

Round(v) == Answer(v) \/ Look(v) \/ Execute(v) \/ Finish(v) \/ EndRound(v)

-----------------------------------------------------------------------------
\* The traders, at the console or in the dashboard's dialogs.
TraderActs ==
    /\ calls < MaxCalls /\ calls' = calls + 1
    /\ \/ \E p \in Pastes : CreateBasket(p)
       \/ \E b \in DOMAIN baskets, p \in Pastes : AddOrders(b, p)
       \/ \E b \in DOMAIN baskets, x \in Venues : RouteBasket(b, x)
       \/ \E b \in DOMAIN baskets : CancelBasket(b)
       \/ \E i \in DOMAIN orders :
            \/ \E x \in Venues : Route(i, x)
            \/ Cancel(i)
            \/ \E qty \in NewQtys \cup {None}, px \in NewPrices \cup {None},
                  tif \in NewTifs \cup {None} : Modify(i, qty, px, tif)
            \/ \E n \in {2, 3} : SplitEvenly(i, n)
            \/ \E a, c \in 1..orders[i].qty : SplitAs(i, <<a, c>>)

CoreInit == /\ orders = <<>> /\ baskets = <<>> /\ executions = <<>> /\ shown = <<>>
            /\ halfModified = {} /\ calls = 0

VenueInit ==
    /\ quote \in Quotes
    /\ iocTried = {}
    /\ doing = [v \in Steppers |-> "idle"]
    /\ todo  = [v \in Steppers |-> {}]
    /\ hand  = [v \in Steppers |-> Idle]
    /\ stopSet = FALSE /\ thread = None /\ started = {} /\ joining = None /\ rounds = 0
    /\ overlapped = FALSE

BasketInit == CoreInit /\ VenueInit

BasketNext ==
    \/ TraderActs /\ UNCHANGED <<venueVars, simVars>>
    \/ \E v \in Loops : LoopBegins(v) /\ UNCHANGED simVars
    \/ \E v \in Loops : LeaveLoop(v) /\ UNCHANGED simVars
    \/ \E v \in Steppers : Round(v) /\ UNCHANGED simVars
    \/ StartSimulator \/ StopSimulator \/ Joined \/ AskForRound

basketVars == <<coreVars, venueVars, simVars>>

\* A started thread keeps running; traders and whoever starts and stops it need not act.
BasketSpec ==
    /\ BasketInit /\ [][BasketNext]_basketVars
    /\ \A v \in Loops :
         WF_basketVars((LoopBegins(v) \/ LeaveLoop(v) \/ Round(v)) /\ UNCHANGED simVars)

-----------------------------------------------------------------------------
\* Properties

ExecutedQty(i) ==
    SumOf(executions, {k \in DOMAIN executions : executions[k].order = i}, "qty")

\* Filled + Leaves = Qty for every order that is not done with, the executions are what an
\* order says it filled, nothing is overfilled and a done order has nothing left, however
\* traders and venue threads interleave.  Orders a refused modify() left half written are
\* excepted.  core.py: fill, modify, split, _cancel.
QuantitiesAddUp ==
    \A i \in DOMAIN orders \ halfModified :
        LET o == orders[i] IN
        /\ o.filled = ExecutedQty(i)
        /\ o.filled <= o.qty
        /\ o.leaves = IF o.status \in Live THEN o.qty - o.filled ELSE 0
        /\ (o.status = "FILLED") <=> (o.filled = o.qty)

\* The tables show the core: each row is the order as it is, and the counts the derived view
\* computes from the rows tell the story of the basket's rolled-up status.  Rows of half
\* modified orders are excepted.  tables.py: on_order, _build_baskets_view; core.py:
\* _touch_basket, basket_rollup.
TablesAgree ==
    /\ \A i \in DOMAIN orders \ halfModified : shown[i] = orders[i]
    /\ \A b \in DOMAIN baskets :
         LET view == BasketView(shown, b) IN
         /\ view.live + view.done = Cardinality(Leaf(shown, b))
         /\ baskets[b] \in {"DONE", "CANCELLED"} <=> view.live = 0
         /\ baskets[b] = "DONE"   => view.filled > 0 /\ view.leaves = 0
         /\ baskets[b] = "STAGED" => view.filled = 0 /\ view.leaves = view.qty

TotalQty(b) == SumOf(orders, Leaf(orders, b), "qty")

\* A basket's quantity changes only with new lines and modifications: splitting keeps it,
\* child by child, and so do routing, filling and cancelling.  core.py: split.
SplitKeepsTotals ==
    [][\A b \in DOMAIN baskets :
         TotalQty(b)' # TotalQty(b) =>
            \/ \E i \in DOMAIN orders : orders'[i].qty # orders[i].qty
            \/ \E i \in DOMAIN orders' \ DOMAIN orders : orders'[i].parent = 0]_basketVars

\* An order that is done with stays as it is, whoever still has it in hand: a trader in a
\* dialog opened before, or a venue thread in the middle of its round.
DoneIsDone ==
    [][\A i \in DOMAIN orders :
         orders[i].status \in Terminal \cup {"SPLIT"} => orders'[i] = orders[i]]_basketVars

\* An IOC order gets one attempt: it is gone from the book after it, and no attempt is under
\* way on an order that had one, as long as rounds do not overlap (a console step during a
\* loop's round, or a loop that outlived a stop()).  venue.py: step.
OneShot ==
    /\ \A i \in iocTried \ halfModified : orders[i].status \in Terminal
    /\ ~overlapped => \A v \in Steppers :
                         doing[v] \in {"priced", "tried"} /\ hand[v].ioc => First(v) \notin iocTried

AtVenue(i) == i \in DOMAIN orders /\ orders[i].status = "ROUTED"

\* While the simulator is left running, every routed order is answered.  venue.py: step;
\* simulator.py: start, stop, _loop.
RoutedIsAnswered ==
    \A i \in 1..MaxOrders : AtVenue(i) ~> (stopSet \/ thread = None \/ ~AtVenue(i))
=============================================================================
