----------------------------- MODULE BlotterDesk -----------------------------
(***************************************************************************)
(* The blotter's page (dashboard.py) over the hubs' tables: filters kept   *)
(* by memo keys, paging against a live row count, and the chain of the     *)
(* order that was clicked.                                                 *)
(*                                                                         *)
(* Handlers set the state, a later render shows it: `shown` is the state   *)
(* of the last render and what handlers close over.  Tables stay live      *)
(* between renders.  The account picker stands for the three pickers; the  *)
(* search text is one of an order's ids.  Formats are left out.            *)
(***************************************************************************)
EXTENDS HubTree, SequencesExt

CONSTANTS AccountOf,     \* order key -> account
          KeyRank,       \* <<hub, key>> -> its place in the order of global keys
          Searches,      \* texts searched for
          PageSize,
          MaxEvents      \* bound: events of the page

VARIABLES
    state,     \* [account, search, breaks, hubs, page, key, root]
    shown,     \* the state as last rendered
    memo,      \* [key, applied]: the filter key and the controls the table was filtered by
    total,     \* the row count as last rendered, Unknown before the counter has told
    events

pageVars == <<state, shown, memo, total, events>>

\* Global keys are unique and have an order; a page has rows.
ASSUME RankAssumption ==
    /\ PageSize \in Nat \ {0}
    /\ \A a, b \in DOMAIN KeyRank : KeyRank[a] \in Int /\ (KeyRank[a] = KeyRank[b] => a = b)
    /\ \A t \in Tapes : \A hub \in DOMAIN t : \A p \in DOMAIN t[hub] :
          <<hub, t[hub][p].key>> \in DOMAIN KeyRank

\* An id of a hub is of one order: the fold binds each to the first order that has it, and no
\* message names one order by its order id and another by its client order id.
ASSUME OneOwnerAssumption ==
    \A t \in Tapes : \A hub \in DOMAIN t : \A p, q \in DOMAIN t[hub] :
        (/\ t[hub][p].kind = "fix" /\ t[hub][q].kind = "fix"
         /\ \/ t[hub][p].id = t[hub][q].id
            \/ t[hub][p].orderId # Nothing /\ t[hub][p].orderId = t[hub][q].orderId)
        => t[hub][p].key = t[hub][q].key

Unknown == -1

-----------------------------------------------------------------------------
\* The filters

EdgeBreak(o) == Children(o) # {} /\ Apart(latest[o].cum, ChildRollup(o).cum, QtyTol)
OnBrokenEdge(o) == EdgeBreak(o) \/ (ParentOf(o) \in DOMAIN latest /\ EdgeBreak(ParentOf(o)))

Texts(o) == {o[2], latest[o].orderId, latest[o].ext} \ {Nothing}

\* blotter_filters: no hub at all shows nothing.
Matches(o, controls) ==
    /\ controls.account \in {Nothing, AccountOf[o[2]]}
    /\ o[1] \in controls.hubs
    /\ controls.breaks => BreakKind(o) # "NONE" \/ OnBrokenEdge(o)
    /\ controls.search \in {Nothing} \cup Texts(o)

Matching(controls) == {o \in DOMAIN latest : Matches(o, controls)}
Count == Cardinality(Matching(memo.applied))

\* Mutant: the memo key forgets a control.
FilterKey_NoBreaks(s) == [account |-> s.account, search |-> s.search, hubs |-> s.hubs]

FilterKey(s) == [account |-> s.account, search |-> s.search, breaks |-> s.breaks, hubs |-> s.hubs]

\* The order of the rows: by root, depth, hub and key.
Before(a, b) ==
    LET place(o) == <<KeyRank[Walked(o).root], Walked(o).depth, KeyRank[o]>>
    IN  \E i \in 1..3 : /\ place(a)[i] < place(b)[i]
                        /\ \A j \in 1..i - 1 : place(a)[j] = place(b)[j]

-----------------------------------------------------------------------------
\* Paging

\* page_bounds
PageBounds(page, count) ==
    LET pages == Max({1, (count + PageSize - 1) \div PageSize})
        at    == IF count = Unknown THEN page ELSE Min({page, pages - 1})
    IN  [page |-> at, pages |-> IF count = Unknown THEN 1 ELSE pages, start |-> at * PageSize]

Bounds == PageBounds(shown.page, total)

\* The rows of a slice of the filtered table: those with so many rows before them.
Window(start) ==
    LET rows == Matching(memo.applied)
    IN  {o \in rows : Cardinality({other \in rows : Before(other, o)}) \in start..start + PageSize - 1}

\* _chain_view
Chain == {o \in DOMAIN latest : Walked(o).root = shown.root}

-----------------------------------------------------------------------------
\* Handlers

Event == events < MaxEvents /\ events' = events + 1 /\ UNCHANGED <<hubVars, shown, memo, total>>

\* resetting: a new value of a control, and back to the first page.
Pick(control, value) == Event /\ state' = [state EXCEPT ![control] = value, !.page = 0]

\* toggle_hub, on the hubs that were rendered.
ToggleHub(name) ==
    /\ Event
    /\ state' = [state EXCEPT !.page = 0,
                   !.hubs = IF name \in shown.hubs THEN shown.hubs \ {name} ELSE shown.hubs \cup {name}]

ClearFilters ==
    /\ Event
    /\ state' = [state EXCEPT !.account = Nothing, !.search = Nothing, !.breaks = FALSE,
                              !.hubs = Names(config), !.page = 0]

Prev == Event /\ Bounds.page > 0 /\ state' = [state EXCEPT !.page = Bounds.page - 1]

NextPage ==
    /\ Event /\ (total = Unknown \/ Bounds.page < Bounds.pages - 1)
    /\ state' = [state EXCEPT !.page = Bounds.page + 1]

\* Mutant: the root of the first row that was clicked stays.
PressRow_KeepsRoot(o) ==
    /\ Event /\ o \in Window(Bounds.start) \cup Chain
    /\ state' = [state EXCEPT !.key = o, !.root = IF @ = Nothing THEN Walked(o).root ELSE @]

\* _selection_handler, of the blotter and of the chain
PressRow(o) ==
    /\ Event /\ o \in Window(Bounds.start) \cup Chain
    /\ state' = [state EXCEPT !.key = o, !.root = Walked(o).root]

\* use_cell_data: the counter of a table that was just filtered may not have told yet.
Render ==
    /\ shown # state \/ total # Count
    /\ shown' = state
    /\ IF memo.key = FilterKey(state)
       THEN total' = Count /\ UNCHANGED memo
       ELSE /\ memo' = [key |-> FilterKey(state), applied |-> state]
            /\ total' \in {Unknown, Cardinality(Matching(state))}
    /\ UNCHANGED <<hubVars, state, events>>

PageInit(trader) ==
    /\ state = [account |-> Nothing, search |-> Nothing, breaks |-> FALSE, hubs |-> Names(config),
                page |-> 0, key |-> Nothing, root |-> Nothing]
    /\ shown = state /\ memo = [key |-> FilterKey(state), applied |-> state]
    /\ total = 0 /\ events = IF trader THEN 0 ELSE MaxEvents

PageNext ==
    \/ \E account \in {AccountOf[k] : k \in DOMAIN AccountOf} : Pick("account", account)
    \/ \E text \in Searches : Pick("search", text)
    \/ \E on \in BOOLEAN : on # shown.breaks /\ Pick("breaks", on)
    \/ \E hub \in Names(config) : ToggleHub(hub)
    \/ \E o \in DOMAIN latest : PressRow(o)
    \/ ClearFilters \/ Prev \/ NextPage \/ Render

\* The hubs go on publishing while the page is looked at.
PageSpec == /\ Init /\ \E trader \in BOOLEAN : PageInit(trader)
            /\ [][(Next /\ UNCHANGED pageVars) \/ PageNext]_<<hubVars, pageVars>>

-----------------------------------------------------------------------------
\* Properties

\* Once it is rendered, the page shows what its controls say: only matching rows, some if there
\* are any, and every matching row is on one of the pages that Prev and Next reach.
\* dashboard.py: filter_key, use_memo; config.py: page_bounds.
PagesShowAll ==
    (shown = state /\ total = Count) =>
        /\ Window(Bounds.start) \subseteq Matching(state)
        /\ Matching(state) # {} => Window(Bounds.start) # {}
        /\ Matching(state) \subseteq UNION {Window(p * PageSize) : p \in 0..Bounds.pages - 1}

\* The chain panel shows the family of the order that was clicked, the whole of it and no other.  It
\* is empty in one case only: the root kept at the click has since been linked to an order above it.
\* dashboard.py: _selection_handler, _chain_view.
ChainIsOfSelected ==
    shown.key # Nothing =>
        IF ParentMap(shown.root) = Nothing
        THEN Chain = {o \in DOMAIN latest : Walked(o).root = Walked(shown.key).root}
        ELSE Chain = {}
=============================================================================
