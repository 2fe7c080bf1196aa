---------------------------- MODULE MarketStore ----------------------------
(***************************************************************************)
(* Where the market data demo keeps its parquet files (layout.py, store.py)*)
(* and the two commands that put them there (mockgen.py, cli.py): a local  *)
(* tree, an S3 bucket, their listings, `generate` and `upload`.            *)
(*                                                                         *)
(* A path is its parsed parts; a file's content is a version of its bars,  *)
(* or Half while it is written, or Corrupt.  One command runs at a time    *)
(* and may be killed between any two steps.  The listings run while files  *)
(* arrive: a directory at a time on disk, a page at a time on S3.          *)
(***************************************************************************)
EXTENDS Integers, Sequences, FiniteSets, SequencesExt, FiniteSetsExt, Functions

CONSTANTS Configs,     \* the configurations the app may be started with
          Trees,       \* the local trees there may be at the start
          KeyOrder,    \* every path a store may hold, in the order of S3 keys
          SymbolOf,    \* a name in a path -> the symbol it normalises to, Nothing if invalid
          TradingDays, \* the weekdays among the days
          Universe,    \* every symbol, in order
          Requests,    \* what `generate` is asked for: [from, to, symbols]
          Versions,    \* what a seed makes of a file
          Half, Corrupt,   \* the content of a file that is being written, or has gone bad
          Intervals, ChartTypes, Nothing,
          PageKeys,    \* keys in a page of an S3 listing
          MaxJobs,     \* bound: commands started
          MaxFaults    \* bound: commands killed, files gone bad and failed requests

VARIABLES
    config,    \* the configuration the app runs with
    tree,      \* the local tree: path -> content
    bucket,    \* the bucket, Nothing before it is created
    job,       \* the running command: [kind, todo, done, force, version, tmp]
    jobs, faults

storeVars == <<config, tree, bucket, job, jobs, faults>>

-----------------------------------------------------------------------------
\* Configuration

\* load_config: a malformed value is a startup error.
Accepted(c) ==
    /\ c.source \in {"local", "s3"}
    /\ c.cacheFiles >= 0 /\ c.maxFiles >= 1 /\ c.threads >= 1 /\ c.days >= 1
    /\ c.source = "s3" => /\ c.bucket # Nothing
                          /\ (c.keyId = Nothing) = (c.secret = Nothing)
                          /\ c.anonymous => c.keyId = Nothing
    /\ c.interval \in Intervals /\ c.chart \in ChartTypes

\* make_store
Objects   == IF config.source = "local" THEN tree ELSE IF bucket = Nothing THEN <<>> ELSE bucket
Reachable == config.source = "local" \/ bucket # Nothing

-----------------------------------------------------------------------------
\* Layout: YYYY/MM/DD/SYMBOL.parquet or YYYY/MM/DD/SYMBOL/part.parquet

Flat(day, symbol) == [day |-> day, dir |-> Nothing, name |-> symbol, suffix |-> "parquet"]

\* parse_relative_path: the symbol of a data file, Nothing for any other file.
Symbol(path) ==
    IF path.suffix # "parquet" THEN Nothing
    ELSE SymbolOf[IF path.dir = Nothing THEN path.name ELSE path.dir]

Covers(l, path) ==
    /\ path.day \in l.from..l.to /\ Symbol(path) # Nothing
    /\ l.wanted = Nothing \/ Symbol(path) \in l.wanted

\* The paths of a set, in the order of keys.
InOrder(paths) ==
    LET upto[i \in 0..Len(KeyOrder)] ==
          IF i = 0 THEN <<>>
          ELSE IF KeyOrder[i] \in paths THEN Append(upto[i - 1], KeyOrder[i]) ELSE upto[i - 1]
    IN  upto[Len(KeyOrder)]

\* Presets and defaults count available days; None is every day.
AvailableDays == {path.day : path \in DOMAIN Objects}

-----------------------------------------------------------------------------
\* list_files, from `from` to `to`.  A running listing holds the day it is at, the rank of the
\* last key it saw and the files it found; the files there at its start are kept for the properties.
Listing(from, to, wanted) ==
    [from |-> from, to |-> to, wanted |-> wanted, day |-> from, after |-> 0,
     found |-> {},
     atStart |-> {path \in DOMAIN Objects : Covers([from |-> from, to |-> to, wanted |-> wanted], path)}]

Listed(l) == l.day > l.to

\* Mutant: a truncated listing is taken for the whole day.
NextPage_FirstOnly(l) ==
    LET rest == {i \in DOMAIN KeyOrder : KeyOrder[i] \in DOMAIN Objects /\ KeyOrder[i].day = l.day}
        page == {i \in rest : Cardinality({j \in rest : j < i}) < PageKeys}
    IN  [l EXCEPT !.found = @ \cup {path \in {KeyOrder[i] : i \in page} : Covers(l, path)},
                  !.day = @ + 1]

\* A directory, or a page of the day's prefix.
NextPage(l) ==
    LET rest == {i \in DOMAIN KeyOrder : /\ KeyOrder[i] \in DOMAIN Objects
                                         /\ KeyOrder[i].day = l.day /\ i > l.after}
        page == IF config.source = "local" THEN rest
                ELSE {i \in rest : Cardinality({j \in rest : j < i}) < PageKeys}
    IN  [l EXCEPT !.found = @ \cup {path \in {KeyOrder[i] : i \in page} : Covers(l, path)},
                  !.day   = IF page = rest THEN @ + 1 ELSE @,
                  !.after = IF page = rest THEN 0 ELSE Max(page)]

-----------------------------------------------------------------------------
\* The commands

Idle  == [kind |-> "idle", todo |-> <<>>, done |-> {}, force |-> FALSE, version |-> Nothing, tmp |-> FALSE]
Tmp(path) == [path EXCEPT !.suffix = "tmp"]
File  == Head(job.todo)
Write(store, path, content) ==
    [p \in DOMAIN store \cup {path} |-> IF p = path THEN content ELSE store[p]]
Ahead == [job EXCEPT !.todo = Tail(@), !.done = @ \cup {File}, !.tmp = FALSE]

\* What a store may be: contents of some of the keys there can be.
Keys     == ToSet(KeyOrder)
Contents == Versions \cup {Half, Corrupt} \cup UNION {Range(t) : t \in Trees}
Stores   == UNION {[paths -> Contents] : paths \in SUBSET Keys}

ASSUME StoreAssumption ==
    /\ KeyOrder \in Seq(Keys) /\ \A path \in Keys : path.day \in Int
    /\ \A i, j \in DOMAIN KeyOrder : KeyOrder[i] = KeyOrder[j] => i = j
    /\ PageKeys \in Nat \ {0}
    /\ Half # Corrupt /\ Half \notin Versions
    /\ Nothing \notin Stores /\ Nothing # {}
    /\ \A c \in Configs : {c.cacheFiles, c.maxFiles, c.threads, c.days} \subseteq Int
    /\ \A t \in Trees : /\ t \in Stores
                         /\ \A path \in DOMAIN t : Symbol(path) # Nothing => t[path] # Half
    /\ \A r \in Requests :
          /\ r.from \in Int /\ r.to \in Int /\ r.symbols \in Seq(Range(r.symbols))
          /\ \A day \in TradingDays \cap r.from..r.to, s \in DOMAIN r.symbols :
                {Flat(day, r.symbols[s]), Tmp(Flat(day, r.symbols[s]))} \subseteq Keys

StoreInit ==
    /\ config \in {c \in Configs : Accepted(c)}
    /\ tree \in Trees
    /\ bucket \in IF config.source = "local" THEN {Nothing} ELSE {Nothing} \cup Trees
    /\ job = Idle

Start(kind, files, force, version) ==
    /\ job.todo = <<>> /\ jobs < MaxJobs
    /\ job' = [Idle EXCEPT !.kind = kind, !.todo = files, !.force = force, !.version = version]
    /\ jobs' = jobs + 1
    /\ UNCHANGED <<config, tree, faults>>

\* generate: every symbol of every weekday of a period, day by day.
Generate(request, force, version) ==
    LET files(day) == IF day \in TradingDays
                      THEN [s \in DOMAIN request.symbols |-> Flat(day, request.symbols[s])]
                      ELSE <<>>
    IN  /\ Start("generate", FlattenSeq([d \in 1..request.to - request.from + 1 |->
                                            files(request.from + d - 1)]), force, version)
        /\ UNCHANGED bucket

\* A file that is there is skipped, unless the command is forced.
Skip == /\ job.kind = "generate" /\ job.todo # <<>> /\ ~job.tmp
        /\ File \in DOMAIN tree /\ ~job.force
        /\ job' = Ahead
        /\ UNCHANGED <<config, tree, bucket, jobs, faults>>

\* Mutant: the file is written in place.
WriteTmp_InPlace ==
    /\ job.kind = "generate" /\ job.todo # <<>> /\ ~job.tmp
    /\ File \notin DOMAIN tree \/ job.force
    /\ tree' = Write(tree, File, Half)
    /\ job' = [job EXCEPT !.tmp = TRUE]
    /\ UNCHANGED <<config, bucket, jobs, faults>>

\* write_day_file: the bars go to a temporary sibling...
WriteTmp ==
    /\ job.kind = "generate" /\ job.todo # <<>> /\ ~job.tmp
    /\ File \notin DOMAIN tree \/ job.force
    /\ tree' = Write(tree, Tmp(File), Half)
    /\ job' = [job EXCEPT !.tmp = TRUE]
    /\ UNCHANGED <<config, bucket, jobs, faults>>

\* ... that is complete when it is renamed.
Rename ==
    /\ job.kind = "generate" /\ job.tmp
    /\ tree' = [path \in (DOMAIN tree \cup {File}) \ {Tmp(File)} |->
                   IF path = File THEN job.version ELSE tree[path]]
    /\ job' = Ahead
    /\ UNCHANGED <<config, bucket, jobs, faults>>

\* ensure_bucket, and the local listing upload_tree works off.
Upload ==
    LET files == InOrder({path \in DOMAIN tree : Symbol(path) # Nothing})
    IN  /\ Start("upload", files, FALSE, Nothing)
        /\ bucket' = IF bucket = Nothing THEN <<>> ELSE bucket

Put == /\ job.kind = "upload" /\ job.todo # <<>>
       /\ bucket' = Write(bucket, File, tree[File])
       /\ job' = Ahead
       /\ UNCHANGED <<config, tree, jobs, faults>>

Fault == faults < MaxFaults /\ faults' = faults + 1

\* The command is killed: what it wrote stays as it is.
Kill == /\ job.todo # <<>> /\ Fault
        /\ job' = Idle
        /\ UNCHANGED <<config, tree, bucket, jobs>>

\* A file goes bad where the app reads it.
Spoil(path) ==
    /\ Symbol(path) # Nothing /\ path \in DOMAIN Objects /\ Fault
    /\ IF config.source = "local"
       THEN tree' = [tree EXCEPT ![path] = Corrupt] /\ UNCHANGED bucket
       ELSE bucket' = [bucket EXCEPT ![path] = Corrupt] /\ UNCHANGED tree
    /\ UNCHANGED <<config, job, jobs>>

Command ==
    \/ \E request \in Requests, force \in BOOLEAN, version \in Versions :
          Generate(request, force, version)
    \/ Skip \/ WriteTmp \/ Rename
    \/ config.source = "s3" /\ (Upload \/ Put)
    \/ Kill
    \/ \E path \in DOMAIN Objects : Spoil(path)

-----------------------------------------------------------------------------
\* Properties

\* When a command has worked off its list, every file on it is there and whole, wherever an earlier
\* command was killed: `generate` never skips a file that was only begun, and no file that is
\* taken for data was ever seen half written.
\* mockgen.py: write_day_file, generate; store.py: upload_tree.
JobsDeliver ==
    /\ \A path \in job.done : path \in DOMAIN (IF job.kind = "upload" THEN bucket ELSE tree)
    /\ \A path \in DOMAIN tree : Symbol(path) # Nothing => tree[path] # Half
=============================================================================
