------------------------------ MODULE TreeDesk ------------------------------
(***************************************************************************)
(* The page of the order tree (dashboard.py) and the console's lookups     *)
(* (query_api.py) over the tables of OrderTree: the filter fields, an      *)
(* exposure row pressed to pin its bucket, and four panels that apply one  *)
(* filter to different tables.                                             *)
(*                                                                         *)
(* Handlers set the fields, a later render shows them: `page` is what was  *)
(* rendered last and what handlers close over.  The tables stay live       *)
(* between renders.  The text inputs are uncontrolled: `box` is what they  *)
(* show in the browser.  A symbol is one with its side, so the side picker *)
(* is left out, and so are formats and layout.                             *)
(***************************************************************************)
EXTENDS OrderTree

CONSTANTS Starts,        \* pairs <<value, text>>: value starts with text, in whatever case
          Upper,         \* text -> the text in upper case
          Monikers, Symbols, Searches,   \* texts typed
          MaxPresses     \* bound: events of the page

VARIABLES
    fields,    \* [moniker, symbol, unlinked, breaks, search, pinned, epoch]
    page,      \* the fields as last rendered
    memo,      \* [key, applied]: the filter key, and the fields the tables are filtered by
    box,       \* [moniker, symbol, search]: the texts in the inputs
    presses,
    raced      \* history: an event came before the effect of an earlier one was rendered

deskVars == <<fields, page, memo, box, presses, raced>>

Cleared == [moniker |-> Nothing, symbol |-> Nothing, unlinked |-> TRUE, breaks |-> FALSE,
            search |-> Nothing, pinned |-> FALSE, epoch |-> 0]
Texts(f) == [moniker |-> f.moniker, symbol |-> f.symbol, search |-> f.search]

-----------------------------------------------------------------------------
\* Filters

\* _match
Match(text, value, prefix) ==
    \/ text = Nothing
    \/ IF prefix THEN <<value, text>> \in Starts ELSE value = text

\* _filters: an unlinked row need not match the moniker.
Filters(f, bucket, unlinkedRow, broken) ==
    /\ Match(f.moniker, bucket[1], ~f.pinned) \/ (f.unlinked /\ unlinkedRow)
    /\ Match(f.symbol, bucket[2], ~f.pinned)
    /\ f.breaks => broken

TreeOf(recon, root) == {o \in DOMAIN recon : recon[o].root = root}
Red(recon, S)       == {o \in S : recon[o].kind \in RedKinds}
Buckets(recon, S)   == {Bucket(recon[o].root) : o \in S}

\* node_filters
NodeFilter(recon, f) ==
    {o \in DOMAIN recon : LET root == recon[o].root IN
        Filters(f, Bucket(root), recon[root].state # "ROOT", Red(recon, TreeOf(recon, root)) # {})}

\* bucket_filters
BucketFilter(recon, f) ==
    {b \in Buckets(recon, DOMAIN recon) :
        Filters(f, b, b[1] = Nothing, Red(recon, InBucket(recon, b)) # {})}

\* The orders an id belongs to, whatever the system.
Hits(id) == {OwnerOf(nodes, events.ids, s, id) : s \in Systems} \ {Nothing}

\* find_tree
FindTree(recon, id) == UNION {TreeOf(recon, recon[o].root) : o \in Hits(id)}

\* order_tree: exact on what is given.
OrderTreeOf(recon, moniker, symbol) ==
    LET f == [Cleared EXCEPT !.moniker = moniker, !.symbol = symbol, !.pinned = TRUE]
    IN  [tree |-> NodeFilter(recon, f), exposure |-> BucketFilter(recon, f),
         breaks |-> Red(recon, NodeFilter(recon, f))]

-----------------------------------------------------------------------------
\* The panels, as the memoised views show them

\* Mutant: a pinned bucket has the key of the same text typed.
FilterKey_NotPinned(f) == <<Upper[f.moniker], Upper[f.symbol], f.unlinked, f.breaks, f.search>>

FilterKey(f) == <<Upper[f.moniker], Upper[f.symbol], f.unlinked, f.breaks, f.search, f.pinned>>

\* nodes_in_view
NodesInView(recon) ==
    LET f == memo.applied IN
    IF f.search = Nothing THEN NodeFilter(recon, f)
    ELSE NodeFilter(recon, f) \cap FindTree(recon, f.search)

\* buckets_in_view: a search narrows the buckets to those of the trees it finds.
BucketsInView(recon, f) ==
    IF f.search = Nothing THEN BucketFilter(recon, f)
    ELSE BucketFilter(recon, f) \cap Buckets(recon, NodesInView(recon))

ExposureView(recon) == BucketsInView(recon, memo.applied)
LadderView(recon)   == BucketsInView(recon, [memo.applied EXCEPT !.breaks = FALSE])
BreaksView(recon) ==
    Red(recon, UNION {TreeOf(recon, recon[o].root) : o \in NodesInView(recon)})

-----------------------------------------------------------------------------
\* Handlers

Event ==
    /\ presses < MaxPresses /\ presses' = presses + 1
    /\ raced' = (raced \/ page # fields)
    /\ UNCHANGED <<treeVars, page, memo>>

\* typed: the text that was rendered is an echo, not typing.
Type(field, text) ==
    /\ Event /\ text # box[field]
    /\ box' = [box EXCEPT ![field] = text]
    /\ fields' = IF text = page[field] THEN fields
                 ELSE [fields EXCEPT ![field] = text, !.pinned = FALSE]

Search(text) ==
    /\ Event /\ text # box.search
    /\ box' = [box EXCEPT !.search = text]
    /\ fields' = [fields EXCEPT !.search = text]

Tick(field) ==
    /\ Event /\ fields' = [fields EXCEPT ![field] = ~page[field]] /\ UNCHANGED box

\* row_bucket: the rows of the exposure panel that name a bucket.
RowBuckets(recon) == ExposureView(recon) \ {<<Nothing, Nothing>>}

\* pin_bucket: such a row was pressed.
PinBucket ==
    /\ Event
    /\ \E recon \in {Recon} : \E b \in RowBuckets(recon) :
          fields' = [fields EXCEPT !.moniker = b[1], !.symbol = b[2], !.pinned = TRUE,
                                   !.epoch = page.epoch + 1]
    /\ UNCHANGED box

Clear == Event /\ fields' = [Cleared EXCEPT !.epoch = page.epoch + 1] /\ UNCHANGED box

\* A render filters anew if the key has changed; a new epoch mounts the inputs anew.
Render ==
    /\ page # fields /\ page' = fields
    /\ memo' = IF FilterKey(fields) = memo.key THEN memo
               ELSE [key |-> FilterKey(fields), applied |-> fields]
    /\ box' = IF fields.epoch = page.epoch THEN box ELSE Texts(fields)
    /\ UNCHANGED <<treeVars, fields, presses, raced>>

DeskInit(trader) ==
    /\ fields = Cleared /\ page = Cleared /\ box = Texts(Cleared)
    /\ memo = [key |-> FilterKey(Cleared), applied |-> Cleared]
    /\ presses = (IF trader THEN 0 ELSE MaxPresses) /\ raced = FALSE

DeskNext ==
    \/ \E text \in Monikers : Type("moniker", text)
    \/ \E text \in Symbols : Type("symbol", text)
    \/ \E text \in Searches : Search(text)
    \/ \E field \in {"unlinked", "breaks"} : Tick(field)
    \/ PinBucket \/ Clear \/ Render

-----------------------------------------------------------------------------
\* Properties

\* The exposure row of every tree in view is in view, in the ladder too, with no row of a
\* bucket none of whose trees is, except for client orders without an account; and every red
\* order of the rows in view is in the breaks panel, under the same exception.
PanelsAgree(recon) ==
    LET trees == Buckets(recon, NodesInView(recon))
        kept  == {b \in ExposureView(recon) : b[1] # Nothing}
    IN  /\ trees \subseteq ExposureView(recon)
        /\ ExposureView(recon) \subseteq LadderView(recon)
        /\ kept \subseteq trees
        /\ memo.applied.search = Nothing =>
             Red(recon, UNION {InBucket(recon, b) : b \in kept}) \subseteq BreaksView(recon)

\* A pinned bucket with an account is the console's exact lookup of it.
PinIsLookup(recon) ==
    LET lookup == OrderTreeOf(recon, page.moniker, page.symbol) IN
    (page.pinned /\ page.moniker # Nothing /\ page.unlinked /\ ~page.breaks /\ page.search = Nothing) =>
        /\ NodesInView(recon) = lookup.tree /\ ExposureView(recon) = lookup.exposure
        /\ BreaksView(recon) = lookup.breaks
        /\ \A b \in ExposureView(recon) : b[1] \in {page.moniker, Nothing} /\ b[2] = page.symbol

\* A search alone is the console's find_tree.
SearchIsLookup(recon) ==
    (page.search # Nothing /\ page = [Cleared EXCEPT !.search = page.search, !.epoch = page.epoch]) =>
        NodesInView(recon) = FindTree(recon, page.search)

\* Whatever was typed, pressed and cleared in whatever order: the panels apply one filter, that
\* of the fields as rendered, the same as the console's lookups, and, as long as no event
\* overtook a render, the inputs show it.  dashboard.py: key, typed, pin_bucket, epoch.
PageIsOneFilter ==
    \A recon \in {Recon} :
        /\ PanelsAgree(recon) /\ PinIsLookup(recon) /\ SearchIsLookup(recon)
        /\ ~raced /\ page = fields => box = Texts(fields)
=============================================================================
