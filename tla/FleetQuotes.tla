----------------------------- MODULE FleetQuotes ----------------------------
(***************************************************************************)
(* The collector's market data (marketdata.py, marketdata_table.py) and    *)
(* the exposure marked with it (exposure.py, collector.py), over the       *)
(* orders that the fleet's tables bring.                                   *)
(*                                                                         *)
(* A generated table moves every quote a bounded random step; a listener   *)
(* on orders_all adds the symbols that orders bring, until reconnect()     *)
(* detaches it, and again once the tables are rebuilt, beginning with a    *)
(* replay of what is there.  A price is a number of the least price, a     *)
(* move of the walk is one of them.  An order is [symbol, price, avg, cum, *)
(* leaves, buy].  Bid, ask and the time stamp are left out.                *)
(***************************************************************************)
EXTENDS RemoteFleet, Functions

CONSTANTS Null,          \* an absent price
          Universes,     \* values of REMOTEURI_MD_SYMBOLS: sequences of <<symbol, price>>
          UpperCase,     \* symbol -> the symbol in upper case
          OrderStates,   \* <<order, its state>>: what the leaves publish
          DefaultPrice,  \* DEFAULT_REFERENCE_PRICE
          MinPrice,      \* MIN_PRICE
          MaxPrice       \* bound: no quote rises above it

Symbols == DOMAIN UpperCase

\* The state of an order, as far as it is quoted and marked.
OrderState == [symbol : Symbols, price : Int \cup {Null}, avg : Int \cup {Null},
               cum : Int, leaves : Int, buy : BOOLEAN]

ASSUME QuoteAssumption ==
    /\ Null \notin Int
    /\ MinPrice \in Nat \ {0} /\ DefaultPrice \in Nat \ {0} /\ MaxPrice \in Nat \ {0}
    /\ \A u \in Universes : u \in Seq(Symbols \X Int)
    /\ \A update \in OrderStates : update[2] \in OrderState

VARIABLES
    rows,        \* orders_all: order -> its state
    listening,   \* the listener is attached
    prices,      \* _prices: symbol -> price
    defaulted    \* _defaulted

quoteVars == <<rows, listening, prices, defaulted>>

-----------------------------------------------------------------------------
\* The walk

Clamp(p) == IF p < MinPrice THEN MinPrice ELSE p

\* _positive
Positive(p) == p # Null /\ p > 0

\* parse_universe and its caller: positive prices, one for each symbol, and some symbol.
UniverseAccepted(u) ==
    /\ u # <<>>
    /\ \A i \in DOMAIN u : u[i][2] > 0
    /\ \A i, j \in DOMAIN u : i # j => UpperCase[u[i][1]] # UpperCase[u[j][1]]

Walk(known, open) == [prices |-> known, defaulted |-> open]

\* ensure: a new symbol begins at its reference price or, until one turns up, at the default.
Ensure(walk, pair) ==
    LET name == UpperCase[pair[1]]
        begin == IF Positive(pair[2]) THEN Clamp(pair[2]) ELSE DefaultPrice
    IN  IF name \in DOMAIN walk.prices /\ ~(Positive(pair[2]) /\ name \in walk.defaulted) THEN walk
        ELSE Walk([n \in DOMAIN walk.prices \cup {name} |-> IF n = name THEN begin ELSE walk.prices[n]],
                  IF Positive(pair[2]) THEN walk.defaulted \ {name} ELSE walk.defaulted \cup {name})

\* What a row after the other makes of the walk.
Walked(pairs) ==
    LET walk[i \in 0..Len(pairs)] ==
            IF i = 0 THEN Walk(prices, defaulted) ELSE Ensure(walk[i - 1], pairs[i])
    IN  walk[Len(pairs)]

\* _on_update: the added rows of the listener's source, in any order.
OnUpdate(added) ==
    \E order \in SetToSeqs(added) :
        prices' = Walked(order).prices /\ defaulted' = Walked(order).defaulted

\* step: every price moves; the generated table shows them.
Step ==
    /\ \E move \in [DOMAIN prices -> {-1, 0, 1}] :
          prices' = [s \in DOMAIN prices |-> Min({MaxPrice, Clamp(prices[s] + move[s])})]
    /\ UNCHANGED <<rows, listening, defaulted>>

-----------------------------------------------------------------------------
\* MarketDataFeed

\* The listener's source: the distinct symbols and prices.
Pairs(orders) == {<<o.symbol, o.price>> : o \in Range(orders)}

\* Mutant: the rows that are there already are not replayed.
Attach_NoReplay == listening' = TRUE /\ UNCHANGED <<rows, prices, defaulted>>

Detach == listening' = FALSE /\ UNCHANGED <<rows, prices, defaulted>>

\* The rows that are there already are replayed.  Or the source or the listener cannot be made,
\* and the feed listens no more.
Attach == \/ listening' = TRUE /\ OnUpdate(Pairs(rows)) /\ UNCHANGED rows
          \/ Detach

\* An order comes or changes on a leaf, and in the collector's tables.
OrderUpdate ==
    /\ published # {}
    /\ \E update \in OrderStates :
          rows' = [o \in DOMAIN rows \cup {update[1]} |->
                      IF o = update[1] THEN update[2] ELSE rows[o]]
    /\ rows' # rows
    /\ IF listening THEN OnUpdate(Pairs(rows') \ Pairs(rows)) ELSE UNCHANGED <<prices, defaulted>>
    /\ UNCHANGED listening

-----------------------------------------------------------------------------
\* Exposure

\* The quote that orders_marked joins to a symbol, spelled as in the order.
Mid(symbol) == IF symbol \in DOMAIN prices THEN prices[symbol] ELSE Null

OrZero(x) == IF x = Null THEN 0 ELSE x

\* EXPOSURE_FORMULAS: the table's mark, open notional and signed exposure.
MarkPx(o) == IF Mid(o.symbol) = Null THEN OrZero(o.price) ELSE Mid(o.symbol)
OpenNotional(o) == o.leaves * MarkPx(o)
SignedExposure(o) == (IF o.buy THEN 1 ELSE -1) * (OrZero(o.avg) * o.cum + OpenNotional(o))

\* mark_px of the plain Python: a quote that is not positive does not count.
RefMark(mid, price) == IF Positive(mid) THEN mid ELSE OrZero(price)

\* order_exposure
RefExposure(o) ==
    LET total == OrZero(o.avg) * o.cum + o.leaves * RefMark(Mid(o.symbol), o.price)
    IN  IF o.buy THEN total ELSE -total

\* exposure_by_source, of orders that are all roots
ExposureOf(symbol) ==
    MapThenSumSet(LAMBDA o : SignedExposure(rows[o]), {o \in DOMAIN rows : rows[o].symbol = symbol})

\* sum_exposure
SumExposure(orders) == MapThenSumSet(LAMBDA o : RefExposure(rows[o]), orders)

-----------------------------------------------------------------------------

\* The walk is seeded from the universe before anything is resolved.
QuoteInit ==
    /\ rows = [o \in {} |-> Null] /\ listening = FALSE /\ defaulted = {}
    /\ \E u \in {u \in Universes : UniverseAccepted(u)} :
          prices = [s \in {UpperCase[pair[1]] : pair \in ToSet(u)} |->
                       Clamp((CHOOSE pair \in ToSet(u) : UpperCase[pair[1]] = s)[2])]

\* connect() attaches the feed to the tables it has built, reconnect() detaches it first.
QuotesFollowFleet ==
    IF Connected /\ Complete THEN Attach
    ELSE IF Reconnect THEN Detach ELSE UNCHANGED quoteVars

FleetMoves  == Next /\ QuotesFollowFleet
OrdersMove  == OrderUpdate /\ UNCHANGED vars
QuotesMove  == Step /\ UNCHANGED vars

allVars == <<vars, quoteVars>>

FleetQuotesSpec ==
    /\ Init /\ QuoteInit
    /\ [][FleetMoves \/ OrdersMove \/ QuotesMove]_allVars
    /\ FleetFairness

-----------------------------------------------------------------------------
\* Properties

\* While the feed listens, every symbol in the orders is quoted, and not at the default price
\* if an order of it has one of its own, whenever they came: before the feed was attached,
\* between reconnect() and the rebuilt tables, without a price at first.  The exposure that the
\* tables show is the one that the plain Python computes.
\* marketdata_table.py: attach; marketdata.py: ensure; exposure.py: mark_px.
QuotesFollow ==
    /\ listening => \A o \in Range(rows) :
          /\ UpperCase[o.symbol] \in DOMAIN prices
          /\ Positive(o.price) => UpperCase[o.symbol] \notin defaulted
    /\ \A symbol \in {o.symbol : o \in Range(rows)} :
          ExposureOf(symbol) = SumExposure({o \in DOMAIN rows : rows[o].symbol = symbol})
=============================================================================
