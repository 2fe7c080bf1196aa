------------------------------ MODULE BasketDesk ----------------------------
(***************************************************************************)
(* The basket OMS dashboard (dashboard.py) over the order core: its        *)
(* selections, context menus, dialogs and ticket, while a venue works.     *)
(*                                                                         *)
(* A handler runs with what its component's last render closed over        *)
(* (page); what it sets (state) is rendered later, and other events may    *)
(* come in between.  Refs are read as they are.  Layout, formats, toasts   *)
(* and the trader's name are left out; a dialog or menu is what it names.  *)
(***************************************************************************)
EXTENDS BasketCore

CONSTANTS SeedBooks,     \* books the demo data leaves at startup: [orders, baskets]
          MaxEvents      \* bound: events of the page

\* A book that the core has come to by its own calls: it adds up.
SoundBook(book) ==
    LET os == book.orders  ex == book.executions IN
    /\ os \in Seq(Order) /\ ex \in Seq([order : DOMAIN os, qty : Int])
    /\ book.baskets \in Seq({"STAGED", "WORKING", "DONE", "CANCELLED"})
    /\ \A i \in DOMAIN os :
         /\ os[i].basket \in DOMAIN book.baskets
         /\ os[i].filled = SumOf(ex, {k \in DOMAIN ex : ex[k].order = i}, "qty")
         /\ os[i].qty > 0 /\ os[i].filled <= os[i].qty
         /\ os[i].leaves = IF os[i].status \in Live THEN os[i].qty - os[i].filled ELSE 0
         /\ (os[i].status = "FILLED") <=> (os[i].filled = os[i].qty)
         /\ os[i].status = "NEW" => os[i].filled = 0
    /\ \A b \in DOMAIN book.baskets : Leaf(os, b) # {} /\ book.baskets[b] = Rollup(os, b)

ASSUME DeskAssumption == \A book \in SeedBooks : SoundBook(book)

VARIABLES
    desk,      \* the traders sit at the dashboard, not at the console
    state,     \* [basket, order, dialog]: the selections, 0 for none, and `pending`
    ref,       \* [basket, order]: basket_ref and order_ref
    page,      \* the state as last rendered
    form,      \* the order as the open Modify dialog shows it, <<>> if there is none
    menu,      \* the open context menu: [on: what it acts on, target, items]
    routing,   \* <<basket, venue>> that a ticket has still to route, or <<>>
    events

deskVars == <<desk, state, ref, page, form, menu, routing, events>>
bookVars == <<orders, baskets, executions, shown, halfModified>>

OrderDialogs == {"modify", "split", "cancel"}
NoMenu == [on |-> "nothing", target |-> 0, items |-> {}]

-----------------------------------------------------------------------------
\* What the page looks up

\* on_basket_press
AfterBasketPress(b) ==
    [ref |-> [basket |-> b, order |-> IF b # page.basket THEN 0 ELSE ref.order],
     state |-> IF b # page.basket THEN [state EXCEPT !.basket = b, !.order = 0] ELSE state]

\* resolve_order, the click being on the id cell of `row` or on another cell (0).
ResolveOrder(row) ==
    IF row # 0 THEN row ELSE IF ref.order # 0 THEN ref.order ELSE page.order

\* resolve_basket
ResolveBasket(row) ==
    IF row # 0 THEN row ELSE IF ref.basket \in DOMAIN baskets THEN ref.basket ELSE page.basket

\* The orders table follows the rendered selection.
OrdersShown == IF page.basket = 0 THEN DOMAIN orders ELSE InBasket(orders, page.basket)

NewIn(b)  == {i \in InBasket(orders, b) : orders[i].status = "NEW"}
LiveIn(b) == {i \in InBasket(orders, b) : "cancel" \in Allowed(orders[i])}

\* split_preview, without the quantities typed one by one
SplitPreview(qty, slices) ==
    IF slices >= 2 /\ qty >= slices THEN SplitQuantities(qty, slices) ELSE <<>>

-----------------------------------------------------------------------------
\* An event of the page: rendered or not, it runs to its end.
Event ==
    /\ desk /\ events < MaxEvents /\ routing = <<>>
    /\ events' = events + 1
    /\ UNCHANGED <<desk, page, form>>

\* Behind a modal dialog there are no events.
Press == Event /\ page.dialog = <<>>

Quiet == UNCHANGED <<bookVars, calls, routing>>
Calls == calls < MaxCalls /\ calls' = calls + 1 /\ UNCHANGED routing

Asks(kind, target) == state' = [state EXCEPT !.dialog = <<kind, target>>]

PressBasket(b) ==
    /\ Press /\ b \in DOMAIN baskets
    /\ ref' = AfterBasketPress(b).ref /\ state' = AfterBasketPress(b).state
    /\ UNCHANGED menu /\ Quiet

\* on_order_press and on_order_selection; 0 clears the selection.  A right-click selects, too,
\* maybe after it has opened its menu.
PressOrder(i) ==
    /\ Press /\ i \in {0} \cup OrdersShown
    /\ ref' = [ref EXCEPT !.order = i] /\ state' = [state EXCEPT !.order = i]
    /\ UNCHANGED menu /\ Quiet

\* order_menu: with nothing to resolve the entries speak of the selected order.
OpenOrderMenu(row) ==
    /\ Press /\ row \in {0} \cup OrdersShown
    /\ LET i == ResolveOrder(row) IN
       menu' = IF i = 0 THEN [on |-> "selected", target |-> 0, items |-> {"modify", "split", "cancel", "route"}]
               ELSE [on |-> "order", target |-> i, items |-> Allowed(orders[i])]
    /\ UNCHANGED <<state, ref>> /\ Quiet

\* basket_menu
OpenBasketMenu(row) ==
    /\ Press /\ row \in {0} \cup DOMAIN baskets
    /\ LET b == ResolveBasket(row) IN
       menu' = [on |-> "basket", target |-> b,
                items |-> {"add_orders"} \cup (IF NewIn(b) # {} THEN {"route"} ELSE {})
                                         \cup (IF LiveIn(b) # {} THEN {"cancel_basket"} ELSE {})]
    /\ UNCHANGED <<state, ref>> /\ Quiet

\* Mutant: an entry looks its order up when it is chosen.
Target_Late == IF menu.on # "basket" /\ ResolveOrder(0) # 0 THEN ResolveOrder(0) ELSE menu.target

\* The entries of an order's menu keep its id; those for the selected order look it up.
Target == IF menu.on = "selected" THEN ResolveOrder(0) ELSE menu.target

\* open_for, and the entries that open a dialog
PickDialog(kind) ==
    /\ Press /\ kind \in menu.items \ {"route"}
    /\ IF menu.on = "selected" /\ (Target = 0 \/ kind \notin Allowed(orders[Target]))
       THEN UNCHANGED state ELSE Asks(kind, Target)
    /\ menu' = NoMenu /\ UNCHANGED ref /\ Quiet

\* route_action and route_selected: the core refuses an order that is not NEW any more.
PickRoute(venue) ==
    /\ Press /\ "route" \in menu.items /\ menu.on # "basket" /\ Target # 0
    /\ Calls /\ IF "route" \in Allowed(orders[Target]) THEN Route(Target, venue) ELSE UNCHANGED bookVars
    /\ menu' = NoMenu /\ UNCHANGED <<state, ref>>

\* The toolbar and the basket's menu route a basket at once.
PickRouteBasket(b, venue) ==
    /\ Press
    /\ \/ menu.on = "nothing" /\ b = page.basket
       \/ menu.on = "basket" /\ "route" \in menu.items /\ b = menu.target
    /\ Calls /\ RouteBasket(b, venue)
    /\ menu' = NoMenu /\ UNCHANGED <<state, ref>>

\* The toolbar's other buttons
ToolbarDialog(kind) ==
    /\ Press /\ menu = NoMenu
    /\ kind \in {"new_basket"} \cup (IF page.basket # 0 THEN {"add_orders", "cancel_basket"} ELSE {})
    /\ Asks(kind, IF kind = "new_basket" THEN 0 ELSE page.basket)
    /\ UNCHANGED <<ref, menu>> /\ Quiet

-----------------------------------------------------------------------------
\* The dialogs

Shows(kind) == Event /\ page.dialog # <<>> /\ page.dialog[1] = kind
Named == page.dialog[2]
Closes == state' = [state EXCEPT !.dialog = <<>>] /\ UNCHANGED <<ref, menu>>
StaysOpen == UNCHANGED <<state, ref, menu>>

\* [Save] sends every field, typed into or not; a refusal is shown and the dialog stays.
SaveModify(qty, px, tif) ==
    /\ Shows("modify") /\ Calls
    /\ qty \in NewQtys \cup {form.qty} /\ tif \in NewTifs \cup {form.tif}
    /\ px \in (IF orders[Named].type = "LMT" THEN NewPrices \cup {form.limit} ELSE {None})
    /\ LET m == Modified(orders[Named], qty, px, tif) IN
       IF "modify" \in Allowed(orders[Named]) /\ (m.ok \/ m.order # orders[Named])
       THEN Modify(Named, qty, px, tif) /\ IF m.ok THEN Closes ELSE StaysOpen
       ELSE UNCHANGED bookVars /\ StaysOpen

SaveSplit(slices) ==
    /\ Shows("split") /\ Calls
    /\ IF "split" \in Allowed(orders[Named]) /\ SplitPreview(orders[Named].qty, slices) # <<>>
       THEN SplitEvenly(Named, slices) /\ Closes
       ELSE UNCHANGED bookVars /\ StaysOpen

\* confirm_dialog closes whatever the core says.
ConfirmCancel ==
    /\ Shows("cancel") /\ Calls
    /\ IF "cancel" \in Allowed(orders[Named]) THEN Cancel(Named) ELSE UNCHANGED bookVars
    /\ Closes

ConfirmCancelBasket == Shows("cancel_basket") /\ Calls /\ CancelBasket(Named) /\ Closes

\* create() of the ticket makes two calls when it is to route as well; venue None stays staged.
SubmitTicket(paste, venue) ==
    /\ Event /\ page.dialog # <<>> /\ page.dialog[1] \in {"new_basket", "add_orders"}
    /\ calls < MaxCalls /\ calls' = calls + 1
    /\ LET b == IF Named = 0 THEN Len(baskets) + 1 ELSE Named IN
       /\ IF Named = 0 THEN CreateBasket(paste) ELSE AddOrders(b, paste)
       /\ IF venue = None THEN Closes /\ UNCHANGED routing
          ELSE StaysOpen /\ routing' = <<b, venue>>

TicketRoutes ==
    /\ desk /\ routing # <<>>
    /\ RouteBasket(routing[1], routing[2])
    /\ routing' = <<>> /\ Closes
    /\ UNCHANGED <<calls, desk, page, form, events>>

CloseDialog == Event /\ page.dialog # <<>> /\ Closes /\ Quiet

Render ==
    /\ desk /\ page # state
    /\ page' = state
    /\ form' = IF state.dialog = <<>> \/ state.dialog[1] # "modify" THEN <<>>
               ELSE IF page.dialog = state.dialog THEN form ELSE orders[state.dialog[2]]
    /\ UNCHANGED <<coreVars, desk, state, ref, menu, routing, events>>

-----------------------------------------------------------------------------
\* The dashboard is open on a book of the demo data, maybe with a dialog of one of its orders.
DeskInit ==
    /\ \E book \in SeedBooks :
         /\ orders = book.orders /\ shown = book.orders /\ baskets = book.baskets
         /\ executions = book.executions /\ halfModified = {} /\ calls = 0
    /\ desk = TRUE
    /\ \/ /\ state = [basket |-> IF baskets = <<>> THEN 0 ELSE 1, order |-> 0, dialog |-> <<>>]
          /\ form = <<>>
       \/ \E i \in DOMAIN orders : \E kind \in Allowed(orders[i]) \ {"route"} :
             /\ state = [basket |-> orders[i].basket, order |-> i, dialog |-> <<kind, i>>]
             /\ form = IF kind = "modify" THEN orders[i] ELSE <<>>
    /\ page = state /\ ref = [basket |-> state.basket, order |-> state.order]
    /\ menu = NoMenu /\ routing = <<>> /\ events = 0

\* There is no dashboard, the traders are at the console.
NoDesk ==
    /\ desk = FALSE /\ state = [basket |-> 0, order |-> 0, dialog |-> <<>>]
    /\ page = state /\ ref = [basket |-> 0, order |-> 0]
    /\ form = <<>> /\ menu = NoMenu /\ routing = <<>> /\ events = 0

PageNext ==
    \/ \E b \in DOMAIN baskets : PressBasket(b)
    \/ \E i \in {0} \cup DOMAIN orders : PressOrder(i) \/ OpenOrderMenu(i)
    \/ \E b \in {0} \cup DOMAIN baskets : OpenBasketMenu(b)
    \/ \E kind \in {"modify", "split", "cancel", "add_orders", "cancel_basket"} : PickDialog(kind)
    \/ \E venue \in Venues :
         PickRoute(venue) \/ \E b \in DOMAIN baskets : PickRouteBasket(b, venue)
    \/ \E kind \in {"new_basket", "add_orders", "cancel_basket"} : ToolbarDialog(kind)
    \/ \E qty \in 1..9, px \in 0..9 \cup {None}, tif \in Tifs : form # <<>> /\ SaveModify(qty, px, tif)
    \/ \E slices \in {2, 3} : SaveSplit(slices)
    \/ \E paste \in Pastes, venue \in Venues \cup {None} : SubmitTicket(paste, venue)
    \/ ConfirmCancel \/ ConfirmCancelBasket \/ TicketRoutes \/ CloseDialog \/ Render

\* Whatever a venue may tell the core.
VenueActs ==
    /\ desk /\ \E i \in DOMAIN orders : Ack(i) \/ Reject(i) \/ Fill(i, 1)
    /\ UNCHANGED deskVars

DeskNext == PageNext \/ VenueActs

desktopVars == <<coreVars, deskVars>>

DeskSpec == DeskInit /\ [][DeskNext]_desktopVars

-----------------------------------------------------------------------------
\* Properties

\* The menu, the dialog or else the toolbar names order i.
Touches(i) ==
    IF page.dialog # <<>>
    THEN page.dialog = <<page.dialog[1], IF page.dialog[1] = "cancel_basket" THEN orders[i].basket ELSE i>>
    ELSE \/ menu.on = "order" /\ menu.target = i
         \/ menu.on = "basket" /\ menu.target = orders[i].basket
         \/ menu.on = "selected" /\ i \in {ref.order, page.order}
         \/ menu.on = "nothing" /\ page.basket = orders[i].basket

\* What a gesture changes, or opens a dialog for, is touched by it.
OnlyTouched ==
    \A i \in DOMAIN orders :
        \/ calls' # calls /\ orders'[i] # orders[i]
        \/ /\ page.dialog = <<>> /\ state'.dialog # state.dialog
           /\ state'.dialog \in {<<kind, i>> : kind \in OrderDialogs}
        => Touches(i)

\* What a trader's gesture changes, or opens a dialog for, is the order that the menu or the
\* dialog names, or of the basket that they or the toolbar name, whatever was selected
\* meanwhile.  dashboard.py: order_menu, route_action, basket_menu, the dialogs.
ActsOnNamed == [][desk => OnlyTouched]_desktopVars
=============================================================================
