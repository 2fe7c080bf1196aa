---------------------------- MODULE MCMarketDesk ----------------------------
(***************************************************************************)
(* Two trading days around a weekend day, two symbols, a tree that holds a *)
(* file, a part file of another writer and its marker file; on S3 the      *)
(* bucket is filled while the app runs, two keys a page.                   *)
(***************************************************************************)
EXTENDS MarketWatch, TLC

CONSTANTS A, B, Part, Marker, Key

Local == [source |-> "local", bucket |-> Nothing, keyId |-> Nothing, secret |-> Nothing,
          anonymous |-> FALSE, cacheFiles |-> 1, maxFiles |-> 2, threads |-> 2, days |-> 1, symbols |-> <<Marker>>,
          interval |-> "1m", chart |-> "candlestick"]
OnS3  == [Local EXCEPT !.source = "s3", !.bucket = "market-data", !.cacheFiles = 2, !.maxFiles = 3, !.symbols = <<B, A>>]

MCConfigs == {Local, OnS3, [OnS3 EXCEPT !.bucket = Nothing], [OnS3 EXCEPT !.keyId = Key],
              [OnS3 EXCEPT !.keyId = Key, !.secret = Key, !.anonymous = TRUE],
              [Local EXCEPT !.maxFiles = 0], [Local EXCEPT !.interval = "2m"]}

File1  == Flat(1, A)
Parts  == [day |-> 1, dir |-> B, name |-> Part, suffix |-> "parquet"]
Success == [day |-> 1, dir |-> B, name |-> Marker, suffix |-> "other"]

MCKeys == << Flat(1, A), Tmp(Flat(1, A)), Success, Parts, Flat(3, B), Tmp(Flat(3, B)) >>
MCTrees == { File1 :> 1 @@ Parts :> 1 @@ Success :> 1 }
MCSymbols == A :> A @@ B :> B @@ Part :> Nothing @@ Marker :> Nothing
MCUniverse == <<A, B>>
MCRequests == {[from |-> 1, to |-> 1, symbols |-> <<A>>], [from |-> 2, to |-> 3, symbols |-> <<B>>]}
MCWidths == "1m" :> 1 @@ "4m" :> 4
MCTyped == "b" :> <<B>> @@ "a c/d" :> Nothing

Bar(symbol, t, price, volume) ==
    [symbol |-> symbol, t |-> t, open |-> price, high |-> price + 2, low |-> price - 1,
     close |-> price + 1, volume |-> volume]
\* Days and symbols have bars of their own; the last of a day is past the day's end on the clock.
MCBarsOf(path, version) ==
    LET s  == Symbol(path)
        at == 10 * path.day + IF path.dir = Nothing THEN 4 ELSE 5
        p  == at + version
    IN  {Bar(s, at, p + 4, at), Bar(s, at + 1, p + 6, at + 1), Bar(s, at + 6, p + 3, at + 2)}

-----------------------------------------------------------------------------
\* What happens beside the start of the app: how many of each are left.
Budget(js, fs, cs, es) == /\ jobs = MaxJobs - js /\ faults = MaxFaults - fs
                          /\ calls = MaxCalls - cs /\ events = MaxEvents - es

MCInit == /\ WatchInit
          /\ \/ Budget(0, 0, 0, 2) \/ Budget(1, 1, 0, 1) \/ Budget(1, 0, 1, 1) \/ Budget(0, 1, 1, 1)

MCSpec == MCInit /\ [][WatchNext]_watchVars
=============================================================================
