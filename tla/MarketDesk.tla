----------------------------- MODULE MarketDesk -----------------------------
(***************************************************************************)
(* The market data app (app.py), its console functions (query_api.py), the *)
(* tables derived from a load (derived.py) and the page (dashboard.py).    *)
(*                                                                         *)
(* The app scans the store, loads a default selection and builds the page, *)
(* which keeps the symbols and days of that moment.  From then on the      *)
(* console and the page load through one reader: the page renders its last *)
(* state, recomputing what a memo key says has changed, and its handlers   *)
(* run between renders.  Figures are the tables they draw; a file's bars   *)
(* are given by its path and content.                                      *)
(***************************************************************************)
EXTENDS BarReader

CONSTANTS BarsOf(_, _),  \* path, content -> its bars [symbol, t, open, high, low, close, volume]
          WidthOf,       \* interval -> its length; the files' own is 1
          Typed,         \* what may be typed as symbols -> the symbols, Nothing if one is invalid
          Presets,       \* numbers of available days, 0 for all
          DayLength, DayShift,   \* a day in the bars' time, and where a trading day begins in it
          MaxEvents,     \* bound: events of the page
          MaxCalls       \* bound: calls on the console

VARIABLES
    console,    \* what the app or the console is at: [at, list]
    inventory,  \* the files of the last scan
    defaults,   \* the tables md_bars was made of
    clears,     \* md_refresh calls so far
    built,      \* [universe, days] of the page, Nothing before it is built
    state,      \* the page's state
    shown,      \* the state as last rendered
    panels,     \* the memos: [load, bars, daily, norm, charts], each [key, value]
    events, calls

ASSUME DeskAssumption ==
    /\ {"console", "desk"} \subseteq Callers
    /\ Presets \subseteq Nat /\ DayLength \in Nat \ {0} /\ DayShift \in Int
    /\ \A path \in Keys, content \in Contents \ {Half, Corrupt} :
          /\ IsFiniteSet(BarsOf(path, content))
          /\ \A bar \in BarsOf(path, content) : bar.t \in Int

appVars  == <<console, inventory, defaults, clears, built, calls>>
pageVars == <<state, shown, panels, events>>
deskVars == <<storeVars, readerVars, appVars, pageVars>>

-----------------------------------------------------------------------------
\* Derived tables

TableOf(loaded) == UNION {BarsOf(e.path, e.table) : e \in loaded}

\* One bar over several of a symbol: first open, last close, the extremes and the sum.
Rolled(bars) ==
    LET first == CHOOSE b \in bars : \A x \in bars : b.t <= x.t
        last  == CHOOSE b \in bars : \A x \in bars : b.t >= x.t
    IN  [symbol |-> first.symbol, t |-> first.t, open |-> first.open,
         high |-> Max({b.high : b \in bars}), low |-> Min({b.low : b \in bars}),
         close |-> last.close, volume |-> MapThenSumSet(LAMBDA b : b.volume, bars)]

Grouped(bars, key) == {Rolled({x \in bars : key[x] = key[b]}) : b \in bars}

\* resample: bins of an interval; the files' own interval is the table itself.
Resample(bars, interval) ==
    IF WidthOf[interval] = 1 THEN bars
    ELSE Grouped(bars, [b \in bars |-> <<b.symbol, b.t \div WidthOf[interval]>>])

\* daily_summary: trading days, which begin elsewhere than bins of a day do.
Daily(bars) == Grouped(bars, [b \in bars |-> <<b.symbol, (b.t - DayShift) \div DayLength>>])

\* normalized: every close beside its symbol's first.
Normalized(bars) ==
    {[symbol |-> b.symbol, t |-> b.t, close |-> b.close,
      base |-> Rolled({x \in bars : x.symbol = b.symbol /\ \A y \in bars :
                         y.symbol = b.symbol => x.t <= y.t}).close] : b \in bars}

\* build_charts: a figure per symbol for the financial kinds, one figure otherwise.
Figures(kind, symbols, bars, norm, gaps) ==
    [kind |-> kind, gaps |-> gaps,
     drawn |-> CASE kind = "candlestick" -> {{b \in bars : b.symbol = s} : s \in symbols}
                 [] kind = "normalized"  -> {norm}
                 [] OTHER -> {bars}]

-----------------------------------------------------------------------------
\* The app and the console

Symbols(paths) == {Symbol(path) : path \in paths}
DaysOf(paths)  == {path.day : path \in paths}

\* preset_range: the last available days.
PresetRange(days, count) ==
    IF days = {} THEN Nothing
    ELSE IF count = 0 \/ count >= Cardinality(days) THEN <<Min(days), Max(days)>>
    ELSE <<Max({d \in days : Cardinality({x \in days : x >= d}) >= count}), Max(days)>>

\* initial_symbols: the configured ones that exist, else the first few.
InitialSymbols(universe) ==
    LET configured == SelectSeq(config.symbols, LAMBDA s : s \in ToSet(universe))
    IN  IF configured # <<>> THEN configured ELSE SubSeq(universe, 1, Min({3, Len(universe)}))

Ordered(symbols) == SelectSeq(Universe, LAMBDA s : s \in symbols)

At(step) == [at |-> step, list |-> Nothing]

\* scan begins with the days there are.
ScanDays ==
    /\ console.at = "scan" /\ console.list = Nothing
    /\ IF Reachable /\ AvailableDays # {}
       THEN /\ console' = [console EXCEPT !.list = Listing(Min(AvailableDays), Max(AvailableDays), Nothing)]
            /\ UNCHANGED inventory
       ELSE inventory' = {} /\ console' = At("load defaults")
    /\ UNCHANGED <<storeVars, readerVars, defaults, clears, built, calls, pageVars>>

\* The files of those days; a listing that fails leaves an empty inventory.
ScanPage ==
    /\ console.at = "scan" /\ console.list # Nothing
    /\ \/ /\ LET l == NextPage(console.list)
             IN  IF Listed(l) THEN inventory' = l.found /\ console' = At("load defaults")
                 ELSE console' = [console EXCEPT !.list = l] /\ UNCHANGED inventory
          /\ UNCHANGED faults
       \/ config.source = "s3" /\ Fault /\ inventory' = {} /\ console' = At("load defaults")
    /\ UNCHANGED <<config, tree, bucket, job, jobs, readerVars, defaults, clears, built, calls, pageVars>>

LoadDefaults ==
    LET period  == PresetRange(DaysOf(inventory), config.days)
        symbols == InitialSymbols(Ordered(Symbols(inventory)))
    IN  /\ console.at = "load defaults"
        /\ console' = At("defaults")
        /\ load' = [load EXCEPT !["console"] =
                       IF period = Nothing THEN [NoLoad EXCEPT !.phase = "done", !.list = Listing(1, 0, {})]
                       ELSE Requested(period[1], period[2], ToSet(symbols))]
        /\ UNCHANGED <<storeVars, cache, inventory, defaults, clears, built, calls, pageVars>>

\* The initial state of a page: everything is captured from the inventory.
Fresh(universe, days) ==
    [symbols |-> InitialSymbols(universe), period |-> PresetRange(days, config.days),
     interval |-> config.interval, chart |-> config.chart, gaps |-> TRUE, reload |-> 0]

\* The default tables are there; on the first pass the page is built.
Wired ==
    /\ console.at = "defaults" /\ load["console"].phase = "done"
    /\ defaults' = load["console"].loaded
    /\ load' = [load EXCEPT !["console"] = NoLoad]
    /\ console' = At("prompt")
    /\ IF built = Nothing
       THEN /\ built' = [universe |-> Ordered(Symbols(inventory)), days |-> DaysOf(inventory)]
            /\ state' = Fresh(built'.universe, built'.days)
       ELSE UNCHANGED <<built, state>>
    /\ UNCHANGED <<storeVars, cache, inventory, clears, calls, shown, panels, events>>

Call == calls < MaxCalls /\ calls' = calls + 1 /\ console.at = "prompt"

\* Mutant: md_refresh scans, and leaves the cache.
Refresh_KeepsCache ==
    /\ Call /\ clears' = clears + 1 /\ console' = At("scan")
    /\ UNCHANGED <<storeVars, readerVars, inventory, defaults, built, pageVars>>

\* md_refresh: drop the tables, scan again, load the defaults again.
Refresh ==
    /\ Call /\ clears' = clears + 1
    /\ cache' = <<>>
    /\ console' = At("scan")
    /\ UNCHANGED <<storeVars, load, inventory, defaults, built, pageVars>>

\* md_load and the functions over it: the inventory's span where a bound is left out.
MdLoad(symbols) ==
    /\ Call /\ inventory # {}
    /\ console' = At("md_load")
    /\ load' = [load EXCEPT !["console"] =
                   Requested(Min(DaysOf(inventory)), Max(DaysOf(inventory)), symbols)]
    /\ UNCHANGED <<storeVars, cache, inventory, defaults, clears, built, pageVars>>

MdDone == /\ console.at = "md_load" /\ load["console"].phase = "done"
          /\ load' = [load EXCEPT !["console"] = NoLoad]
          /\ console' = At("prompt")
          /\ UNCHANGED <<storeVars, cache, inventory, defaults, clears, built, calls, pageVars>>

-----------------------------------------------------------------------------
\* The page: handlers

Event == /\ events < MaxEvents /\ events' = events + 1
         /\ load["desk"].phase = "idle"
         /\ UNCHANGED <<storeVars, readerVars, appVars, shown, panels>>

Set(field, value) == Event /\ value # state[field] /\ state' = [state EXCEPT ![field] = value]

\* on_symbols: what was picked, in the order of the list and of nothing else.
PickSymbols(picked) == Set("symbols", SelectSeq(built.universe, LAMBDA s : s \in picked))

\* on_typed_submit: the symbols of the box after those that were rendered.  A text with an invalid
\* symbol raises in the handler and changes nothing.
AddTyped(names) ==
    /\ names \notin {Nothing, <<>>}
    /\ Set("symbols", shown.symbols \o SelectSeq(names, LAMBDA s : s \notin ToSet(shown.symbols)))

\* Two days of the span of a page, or a preset.
Periods(days) == {<<d, e>> : d, e \in Min(days)..Max(days)} \cup {PresetRange(days, n) : n \in Presets}

\* on_range, apply_preset and a click on a day of the summary
PickPeriod ==
    /\ built.days # {}
    /\ \E period \in Periods(built.days) :
           Set("period", <<Min({period[1], period[2]}), Max({period[1], period[2]})>>)
PickDay == \E b \in panels.daily.value :
              LET day == (b.t - DayShift) \div DayLength IN Set("period", <<day, day>>)

Handler ==
    \/ \E picked \in SUBSET ToSet(built.universe) : PickSymbols(picked)
    \/ \E text \in DOMAIN Typed : AddTyped(Typed[text])
    \/ PickPeriod \/ PickDay
    \/ \E interval \in Intervals : Set("interval", interval)
    \/ \E chart \in ChartTypes : Set("chart", chart)
    \/ Set("gaps", ~shown.gaps)
    \/ Set("reload", shown.reload + 1)

-----------------------------------------------------------------------------
\* The page: renders

Memo(cell, key, value) == IF cell.key = key THEN cell ELSE [key |-> key, value |-> value]

LoadKey(s) == <<s.symbols, s.period, s.reload>>

\* Mutant: the bars' key leaves out the interval.
BarsKey_NoInterval(s) == <<LoadKey(s)>>

BarsKey(s) == <<LoadKey(s), s.interval>>

\* Everything below the load, for a finished load.
Panels(l) ==
    LET loaded == Memo(panels.load, LoadKey(state),
                       [loaded |-> l.loaded, from |-> l.list.from, to |-> l.list.to, wanted |-> l.list.wanted])
        table  == TableOf(loaded.value.loaded)
        bars   == Memo(panels.bars, BarsKey(state), Resample(table, state.interval))
        norm   == Memo(panels.norm, <<BarsKey(state), state.chart>>,
                       IF state.chart = "normalized" THEN Normalized(bars.value) ELSE Nothing)
    IN  [load   |-> loaded,
         bars   |-> bars,
         daily  |-> Memo(panels.daily, LoadKey(state), Daily(table)),
         norm   |-> norm,
         charts |-> Memo(panels.charts, <<BarsKey(state), state.chart, state.gaps>>,
                         Figures(state.chart, ToSet(state.symbols), bars.value, norm.value, state.gaps))]

Due == built # Nothing /\ shown # state

\* A render that must load first; do_load without symbols or period is an empty result.
RenderLoads ==
    /\ Due /\ load["desk"].phase = "idle" /\ panels.load.key # LoadKey(state)
    /\ load' = [load EXCEPT !["desk"] =
                   IF state.period = Nothing \/ state.symbols = <<>>
                   THEN [NoLoad EXCEPT !.phase = "done", !.list = Listing(1, 0, {})]
                   ELSE Requested(state.period[1], state.period[2], ToSet(state.symbols))]
    /\ UNCHANGED <<storeVars, cache, appVars, pageVars>>

Render ==
    /\ Due
    /\ \/ load["desk"].phase = "done"
       \/ load["desk"].phase = "idle" /\ panels.load.key = LoadKey(state)
    /\ shown' = state /\ panels' = Panels(load["desk"])
    /\ load' = [load EXCEPT !["desk"] = NoLoad]
    /\ UNCHANGED <<storeVars, cache, appVars, state, events>>

-----------------------------------------------------------------------------

\* A memo that has not run has no key.
Unset == [key |-> <<>>, value |-> {}]

Init == /\ StoreInit /\ ReaderInit
        /\ console = At("scan") /\ inventory = {} /\ defaults = {} /\ clears = 0
        /\ built = Nothing
        /\ state = Nothing /\ shown = Nothing
        /\ panels = [load |-> Unset, bars |-> Unset, daily |-> Unset, norm |-> Unset, charts |-> Unset]

Console == \/ ScanDays \/ ScanPage \/ LoadDefaults \/ Wired \/ Refresh
           \/ \E symbols \in {Nothing, {Universe[1]}} : MdLoad(symbols)
           \/ MdDone

Next == \/ Command /\ UNCHANGED <<readerVars, appVars, pageVars>>
        \/ \E c \in Callers : Work(c) /\ UNCHANGED <<appVars, pageVars>>
        \/ Console
        \/ shown # Nothing /\ Handler
        \/ RenderLoads \/ Render

DeskSpec == Init /\ [][Next]_deskVars

-----------------------------------------------------------------------------
\* Properties

\* The rows of a panel are the table's, one for each group and each rolled up from all of its group.
RollsUp(rows, table, group(_)) ==
    /\ {group(b) : b \in rows} = {group(x) : x \in table}
    /\ \A b \in rows :
          LET in == {x \in table : group(x) = group(b)}
          IN  /\ b.volume = MapThenSumSet(LAMBDA x : x.volume, in)
              /\ \E x, y \in in : /\ b.t = x.t /\ b.open = x.open /\ b.close = y.close
                                  /\ \A z \in in : x.t <= z.t /\ z.t <= y.t
              /\ \E x, y \in in : /\ b.low = x.low /\ b.high = y.high
                                  /\ \A z \in in : x.low <= z.low /\ z.high <= y.high

\* Every close of the bars is there once, beside the first close of its symbol.
StartsAtFirst(norm, bars) ==
    /\ {<<n.symbol, n.t, n.close>> : n \in norm} = {<<b.symbol, b.t, b.close>> : b \in bars}
    /\ \A n \in norm : \E x \in bars :
          /\ x.symbol = n.symbol /\ x.close = n.base
          /\ \A y \in bars : y.symbol = n.symbol => x.t <= y.t

\* Once rendered, every panel shows the selection above it: the load is of its symbols and period,
\* bars are those of the load at its interval, the summary those of its trading days, normalised
\* closes and figures those of the bars.  A panel whose memo key leaves out what it is made of is
\* left with the rows of an earlier selection.
\* dashboard.py: market_data_component; derived.py: resample, daily_summary, normalized.
ShownIsSelected ==
    (shown # Nothing /\ shown = state) =>
        LET l     == panels.load.value
            table == TableOf(l.loaded)
            bars  == panels.bars.value
            drawn == panels.charts.value.drawn
        IN  /\ (shown.symbols # <<>> /\ shown.period # Nothing) =>
                  l.wanted = ToSet(shown.symbols) /\ <<l.from, l.to>> = shown.period
            /\ RollsUp(bars, table, LAMBDA b : <<b.symbol, b.t \div WidthOf[shown.interval]>>)
            /\ RollsUp(panels.daily.value, table,
                       LAMBDA b : <<b.symbol, (b.t - DayShift) \div DayLength>>)
            /\ IF shown.chart = "normalized"
               THEN StartsAtFirst(panels.norm.value, bars) /\ drawn = {panels.norm.value}
               ELSE /\ UNION drawn = bars
                    /\ shown.chart = "candlestick" =>
                          \A figure \in drawn : \A x, y \in figure : x.symbol = y.symbol
            /\ panels.charts.value.kind = shown.chart /\ panels.charts.value.gaps = shown.gaps
=============================================================================
