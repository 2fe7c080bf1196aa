----------------------------- MODULE BasketCore -----------------------------
(***************************************************************************)
(* The order core of the basket OMS demo (core.py) and the table bridge    *)
(* that mirrors it (tables.py).  Every method of OmsCore holds one lock    *)
(* from validation to the last listener call, so a method is an action.    *)
(* A refused call raises OmsError before it writes anything and is a       *)
(* stutter; only modify() may have written when it refuses.                *)
(*                                                                         *)
(* Ids are positions: the third order created is orders[3].  Symbols,      *)
(* traders, notes, timestamps, the audit tape and the prices of executions  *)
(* are left out; a limit is a number, 0 where there is none.               *)
(***************************************************************************)
EXTENDS Integers, Sequences, FiniteSets

CONSTANTS Venues, Dark,   \* routing targets; the one that may reject
          None,           \* a Python None
          Pastes,         \* what traders paste: sequences of ticket lines
          NewQtys, NewPrices, NewTifs,   \* what they type into a Modify dialog
          MaxOrders,      \* bound: orders ever created
          MaxBaskets,     \* bound: baskets ever created
          MaxCalls        \* bound: trader calls that write

Live     == {"NEW", "ROUTED", "WORKING", "PARTIAL"}
Routed   == {"ROUTED", "WORKING", "PARTIAL"}
Terminal == {"FILLED", "CANCELLED", "REJECTED"}
Tifs     == {"DAY", "IOC", "GTC"}
Sides    == {"BUY", "SELL", "SHORT"}

ASSUME CoreAssumption == /\ Dark \in Venues /\ None \notin Venues
                         /\ NewQtys \subseteq Int /\ NewPrices \subseteq Int
                         /\ Pastes \subseteq Seq([side : STRING, qty : Int,
                                rest : Seq([word : STRING] \cup [number : Int])])

VARIABLES
    orders,          \* OmsCore.orders, in order of creation
    baskets,         \* the status of each basket; its row is written with it
    executions,      \* OmsCore.executions
    shown,           \* the oms_orders table: each order as last published
    halfModified,    \* history: orders a refused modify() had written to
    calls            \* trader calls that wrote, for the bound

coreVars == <<orders, baskets, executions, shown, halfModified, calls>>

Order == [basket : Nat, parent : Nat, side : Sides, qty : Int, type : {"MKT", "LMT"},
          limit : Int, tif : Tifs, venue : Venues \cup {None},
          status : Live \cup Terminal \cup {"SPLIT"}, filled : Int, leaves : Int]

-----------------------------------------------------------------------------
\* Ticket lines.  A line is [side, qty, rest], rest its tokens after the quantity:
\* words, or [number |-> n].  Later tokens win, LMT takes the token after it.
Word(token)   == "word" \in DOMAIN token
NoTerms       == [ok |-> TRUE, type |-> None, limit |-> 0, tif |-> None]
BadTerms      == [NoTerms EXCEPT !.ok = FALSE]

Terms(rest) ==
    LET from[i \in 1..Len(rest) + 2] ==
          IF i > Len(rest) THEN NoTerms
          ELSE IF ~Word(rest[i]) THEN BadTerms
          ELSE LET w == rest[i].word  later == from[i + 1] IN
               CASE w = "MKT" -> IF later.type = None THEN [later EXCEPT !.type = "MKT"] ELSE later
                 [] w \in Tifs -> IF later.tif = None THEN [later EXCEPT !.tif = w] ELSE later
                 [] w = "LMT" /\ i < Len(rest) /\ ~Word(rest[i + 1]) /\ rest[i + 1].number > 0 ->
                      LET after == from[i + 2] IN
                      IF after.type = None
                      THEN [after EXCEPT !.type = "LMT", !.limit = rest[i + 1].number] ELSE after
                 [] OTHER -> BadTerms
    IN  from[1]

OrElse(a, b) == IF a # None THEN a ELSE b

ParseLine(line) ==
    LET terms == Terms(line.rest) IN
    [ok |-> terms.ok /\ line.qty > 0 /\ line.side \in Sides,
     side |-> line.side, qty |-> line.qty, limit |-> terms.limit,
     type |-> OrElse(terms.type, "MKT"), tif |-> OrElse(terms.tif, "DAY")]

\* All lines of a paste, or none if one of them is bad.
Lines(paste) ==
    LET parsed == [i \in DOMAIN paste |-> ParseLine(paste[i])] IN
    IF \A i \in DOMAIN parsed : parsed[i].ok THEN parsed ELSE <<>>

NewOrder(basket, parent, line) ==
    [basket |-> basket, parent |-> parent, side |-> line.side, qty |-> line.qty,
     type |-> line.type, limit |-> line.limit, tif |-> line.tif, venue |-> None,
     status |-> "NEW", filled |-> 0, leaves |-> line.qty]

-----------------------------------------------------------------------------
\* Pure helpers

\* Mutant: a filled order may be modified.
Allowed_Reopens(order) ==
    (IF order.status \in Live \cup {"FILLED"} THEN {"modify"} ELSE {})
      \cup (IF order.status \in Live THEN {"cancel"} ELSE {})
      \cup (IF order.status = "NEW" THEN {"route"} ELSE {})

Allowed(order) ==
    (IF order.status \in Live THEN {"modify", "cancel"} ELSE {})
      \cup (IF order.status = "NEW" THEN {"route"} ELSE {})
      \cup (IF order.status = "NEW" /\ order.qty >= 2 THEN {"split"} ELSE {})

\* Mutant: the remainder of the division is dropped.
SplitQuantities_Floor(qty, slices) == [i \in 1..slices |-> qty \div slices]

SplitQuantities(qty, slices) ==
    [i \in 1..slices |-> qty \div slices + (IF i <= qty % slices THEN 1 ELSE 0)]

\* The sum of a sequence, and of a field of some rows of a table.
Total(s) == LET sum[i \in 0..Len(s)] == IF i = 0 THEN 0 ELSE sum[i - 1] + s[i]
            IN  sum[Len(s)]

SumOf(rows, S, field) == Total([i \in DOMAIN rows |-> IF i \in S THEN rows[i][field] ELSE 0])

InBasket(os, b) == {i \in DOMAIN os : os[i].basket = b}
Leaf(os, b)     == {i \in InBasket(os, b) : os[i].status # "SPLIT"}

Rollup(os, b) ==
    LET leaf   == Leaf(os, b)
        filled == SumOf(os, leaf, "filled")
    IN  IF \A i \in leaf : os[i].status = "NEW" THEN "STAGED"
        ELSE IF \A i \in leaf : os[i].status \in Terminal
             THEN (IF filled > 0 THEN "DONE" ELSE "CANCELLED")
             ELSE "WORKING"

\* The basket's row in the derived view, counted from the rows of the orders table.
BasketView(rows, b) ==
    LET leaf == Leaf(rows, b) IN
    [live   |-> Cardinality({i \in leaf : rows[i].status \in Live}),
     done   |-> Cardinality({i \in leaf : rows[i].status \in Terminal}),
     qty    |-> SumOf(rows, leaf, "qty"),
     filled |-> SumOf(rows, leaf, "filled"),
     leaves |-> SumOf(rows, leaf, "leaves")]

\* The orders table after the rows of ids were written again.
Shown(os, ids) == [i \in DOMAIN os |-> IF i \in ids THEN os[i] ELSE shown[i]]

\* Mutant: the basket is not touched, its status stays what it was.
Touched_Not(os, b) == IF b \in DOMAIN baskets THEN baskets ELSE Append(baskets, Rollup(os, b))

\* The basket's status is rolled up from the orders as they now are.
Touched(os, b) == IF b \in DOMAIN baskets THEN [baskets EXCEPT ![b] = Rollup(os, b)]
                  ELSE Append(baskets, Rollup(os, b))

\* _publish_order of ids, then _touch_basket.
Publish(os, ids, b) ==
    /\ orders' = os
    /\ shown' = Shown(os, ids)
    /\ baskets' = Touched(os, b)

\* The executions and what the histories say are left alone.
NoFill == UNCHANGED <<executions, halfModified, calls>>

-----------------------------------------------------------------------------
\* Baskets

AddLines(b, lines) ==
    /\ lines # <<>>
    /\ Len(orders) + Len(lines) <= MaxOrders
    /\ LET os == orders \o [i \in DOMAIN lines |-> NewOrder(b, 0, lines[i])] IN
       Publish(os, DOMAIN os \ DOMAIN orders, b)
    /\ UNCHANGED <<executions, halfModified>>

CreateBasket(paste) == Len(baskets) < MaxBaskets /\ AddLines(Len(baskets) + 1, Lines(paste))

AddOrders(b, paste) == b \in DOMAIN baskets /\ AddLines(b, Lines(paste))

RoutedTo(order, venue)  == [order EXCEPT !.venue = venue, !.status = "ROUTED"]
Cancelled(order)        == [order EXCEPT !.status = "CANCELLED", !.leaves = 0]

RouteBasket(b, venue) ==
    /\ b \in DOMAIN baskets /\ venue \in Venues
    /\ LET ids == {i \in InBasket(orders, b) : orders[i].status = "NEW"} IN
       Publish([i \in DOMAIN orders |-> IF i \in ids THEN RoutedTo(orders[i], venue)
                                        ELSE orders[i]], ids, b)
    /\ UNCHANGED <<executions, halfModified>>

CancelBasket(b) ==
    /\ b \in DOMAIN baskets
    /\ LET ids == {i \in InBasket(orders, b) : "cancel" \in Allowed(orders[i])} IN
       Publish([i \in DOMAIN orders |-> IF i \in ids THEN Cancelled(orders[i])
                                        ELSE orders[i]], ids, b)
    /\ UNCHANGED <<executions, halfModified>>

-----------------------------------------------------------------------------
\* One order.  Replace writes it, publishes its row and touches its basket.
Replace(i, order) == Publish([orders EXCEPT ![i] = order], {i}, orders[i].basket)

Route(i, venue) ==
    /\ i \in DOMAIN orders /\ venue \in Venues
    /\ "route" \in Allowed(orders[i])
    /\ Replace(i, RoutedTo(orders[i], venue))
    /\ UNCHANGED <<executions, halfModified>>

Cancel(i) ==
    /\ i \in DOMAIN orders
    /\ "cancel" \in Allowed(orders[i])
    /\ Replace(i, Cancelled(orders[i]))
    /\ UNCHANGED <<executions, halfModified>>

\* The order as modify() has it when it returns or raises, field by field as it checks
\* them: [order, ok].  A later check that fails leaves the earlier fields written.
Modified(order, qty, px, tif) ==
    LET qtyOk == qty = None \/ (qty > 0 /\ qty >= order.filled)
        pxOk  == px = None \/ (order.type = "LMT" /\ px > 0)
        tifOk == tif = None \/ tif \in Tifs
        a == IF qty # None /\ qtyOk THEN [order EXCEPT !.qty = qty] ELSE order
        b == IF px # None /\ qtyOk /\ pxOk THEN [a EXCEPT !.limit = px] ELSE a
        c == IF tif # None /\ qtyOk /\ pxOk /\ tifOk THEN [b EXCEPT !.tif = tif] ELSE b
        d == [c EXCEPT !.leaves = c.qty - c.filled,
                       !.status = IF c.qty = c.filled THEN "FILLED" ELSE @]
    IN  IF qtyOk /\ pxOk /\ tifOk /\ c # order THEN [order |-> d, ok |-> TRUE]
        ELSE [order |-> c, ok |-> FALSE]

Modify(i, qty, px, tif) ==
    /\ i \in DOMAIN orders
    /\ "modify" \in Allowed(orders[i])
    /\ LET m == Modified(orders[i], qty, px, tif) IN
       \/ /\ m.ok
          /\ Replace(i, m.order)
          /\ UNCHANGED halfModified
       \/ /\ ~m.ok /\ m.order # orders[i]
          /\ orders' = [orders EXCEPT ![i] = m.order]
          /\ halfModified' = halfModified \cup {i}
          /\ UNCHANGED <<shown, baskets>>
    /\ UNCHANGED executions

\* The children follow the parent, with its terms and what it has left to buy or sell.
SplitInto(i, sizes) ==
    /\ i \in DOMAIN orders
    /\ "split" \in Allowed(orders[i])
    /\ Len(orders) + Len(sizes) <= MaxOrders
    /\ LET parent   == orders[i]
           child(k) == NewOrder(parent.basket, i, [parent EXCEPT !.qty = sizes[k]])
           os       == [orders EXCEPT ![i].status = "SPLIT", ![i].leaves = 0]
                         \o [k \in DOMAIN sizes |-> child(k)]
       IN  Publish(os, {i} \cup (DOMAIN os \ DOMAIN orders), parent.basket)
    /\ UNCHANGED <<executions, halfModified>>

SplitEvenly(i, slices) ==
    /\ i \in DOMAIN orders /\ slices >= 2 /\ orders[i].qty >= slices
    /\ SplitInto(i, SplitQuantities(orders[i].qty, slices))

SplitAs(i, sizes) ==
    /\ i \in DOMAIN orders /\ Len(sizes) >= 2
    /\ \A k \in DOMAIN sizes : sizes[k] > 0
    /\ Total(sizes) = orders[i].qty
    /\ SplitInto(i, sizes)

-----------------------------------------------------------------------------
\* The venue's side

Ack(i) ==
    /\ orders[i].status = "ROUTED"
    /\ Replace(i, [orders[i] EXCEPT !.status = "WORKING"])
    /\ NoFill

Reject(i) ==
    /\ orders[i].status \in Routed
    /\ Replace(i, [orders[i] EXCEPT !.status = "REJECTED", !.leaves = 0])
    /\ NoFill

LesserOf(a, b) == IF a < b THEN a ELSE b

Booked(i, qty) == Append(executions, [order |-> i, qty |-> qty])

Filled(order, qty) ==
    LET left == order.qty - (order.filled + qty) IN
    [order EXCEPT !.filled = @ + qty, !.leaves = left,
                  !.status = IF left = 0 THEN "FILLED" ELSE "PARTIAL"]

\* Mutant: the fill is not cut down to what the order has left.
Fill_Unclipped(i, qty) ==
    /\ orders[i].status \in {"WORKING", "PARTIAL"}
    /\ qty > 0
    /\ Replace(i, Filled(orders[i], qty))
    /\ executions' = Booked(i, qty)
    /\ UNCHANGED <<halfModified, calls>>

Fill(i, qty) ==
    /\ orders[i].status \in {"WORKING", "PARTIAL"}
    /\ LesserOf(qty, orders[i].leaves) > 0
    /\ LET cut == LesserOf(qty, orders[i].leaves) IN
       /\ Replace(i, Filled(orders[i], cut))
       /\ executions' = Booked(i, cut)
    /\ UNCHANGED <<halfModified, calls>>

=============================================================================
