---------------------------- MODULE MarketWatch ----------------------------
(***************************************************************************)
(* The market data app with a history of what its files were: what the     *)
(* reader's cache may hold is stated against it.                           *)
(***************************************************************************)
EXTENDS MarketDesk

VARIABLES
    since,     \* path -> what the file was since the last md_refresh
    onTheWay   \* the files whose table a load had read, and not yet kept, at that moment

watchVars == <<deskVars, since, onTheWay>>

Content(path) == IF path \in DOMAIN Objects THEN {Objects[path]} ELSE {}
Opened == UNION {Paths({e \in load[c].active : e.table # Nothing}) : c \in Callers}

WatchInit == /\ Init
             /\ since = [path \in ToSet(KeyOrder) |-> Content(path)]
             /\ onTheWay = {}

WatchNext ==
    /\ Next
    /\ since' = [path \in ToSet(KeyOrder) |->
                    (IF clears' # clears THEN {} ELSE since[path]) \cup Content(path)']
    /\ onTheWay' = IF clears' # clears THEN Opened ELSE onTheWay

WatchSpec == WatchInit /\ [][WatchNext]_watchVars

-----------------------------------------------------------------------------
\* Properties

\* The cache is never above its limit and holds a file once; and what it holds, and what md_bars is
\* made of, the file was at some time since the last md_refresh, except for a table that a load had
\* read, and not yet kept, when md_refresh dropped the others.
\* reader.py: read_file, clear_cache; app.py: refresh.
CacheFresh ==
    /\ Len(cache) <= config.cacheFiles
    /\ \A i, j \in DOMAIN cache : cache[i].path = cache[j].path => i = j
    /\ \A e \in ToSet(cache) \cup (IF console.at = "prompt" THEN defaults ELSE {}) :
          e.path \in onTheWay \/ e.table \in since[e.path]
=============================================================================
