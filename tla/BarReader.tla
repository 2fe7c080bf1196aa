----------------------------- MODULE BarReader -----------------------------
(***************************************************************************)
(* Loads of a period and some symbols (reader.py): list the files, read    *)
(* them on a pool of threads through a bounded cache of tables, merge what *)
(* could be read and account for the rest.                                 *)
(*                                                                         *)
(* The page and the console load through one reader at the same time.  The *)
(* cache is locked for a lookup and for an insertion, not between them.    *)
(***************************************************************************)
EXTENDS MarketStore

CONSTANT Callers

VARIABLES
    load,     \* caller -> its load: [phase, list, todo, active, loaded, failed, hits, error]
    cache     \* the cached tables [path, table], least recently used first

readerVars == <<load, cache>>

NoLoad == [phase |-> "idle", list |-> Nothing, todo |-> <<>>, active |-> {}, loaded |-> {},
           failed |-> {}, hits |-> 0, error |-> "none"]

Paths(entries) == {e.path : e \in entries}
Cached(path)   == \E e \in ToSet(cache) : e.path = path
Except(path)   == IF Cached(path) THEN RemoveAt(cache, CHOOSE i \in DOMAIN cache : cache[i].path = path)
                  ELSE cache

ReaderInit == load = [c \in Callers |-> NoLoad] /\ cache = <<>>

-----------------------------------------------------------------------------
\* The files of a load

\* What to do with a finished listing.
Chosen(l) ==
    CASE Cardinality(l.list.found) > config.maxFiles ->
            [l EXCEPT !.phase = "done", !.error = "limit"]
      [] l.list.found = {} -> [l EXCEPT !.phase = "done"]
      [] OTHER -> [l EXCEPT !.phase = "reading", !.todo = InOrder(l.list.found),
                            !.hits = Cardinality({path \in l.list.found : Cached(path)})]

\* read: the bounds in either order; symbols = Nothing is every symbol there is.
Requested(from, to, wanted) ==
    LET list == Listing(Min({from, to}), Max({from, to}), wanted)
    IN  [NoLoad EXCEPT !.phase = IF wanted = {} THEN "done" ELSE "listing", !.list = list]

ListPage(c) ==
    LET l == [load[c] EXCEPT !.list = NextPage(@)]
    IN  /\ load[c].phase = "listing" /\ Reachable
        /\ load' = [load EXCEPT ![c] = IF Listed(l.list) THEN Chosen(l) ELSE l]
        /\ UNCHANGED <<cache, storeVars>>

ListFails(c) ==
    /\ load[c].phase = "listing"
    /\ \/ ~Reachable /\ UNCHANGED faults
       \/ config.source = "s3" /\ Fault
    /\ load' = [load EXCEPT ![c].phase = "done", ![c].error = "listing"]
    /\ UNCHANGED <<cache, config, tree, bucket, job, jobs>>

-----------------------------------------------------------------------------
\* read_file, on a thread of the pool: look in the cache, read, keep

TakeUp(c) ==
    LET path == Head(load[c].todo)
        hit  == CHOOSE e \in ToSet(cache) : e.path = path
    IN  /\ load[c].todo # <<>> /\ Cardinality(load[c].active) < config.threads
        /\ IF Cached(path)
           THEN /\ cache' = Append(Except(path), hit)
                /\ load' = [load EXCEPT ![c].todo = Tail(@), ![c].loaded = @ \cup {hit}]
           ELSE /\ load' = [load EXCEPT ![c].todo = Tail(@),
                                        ![c].active = @ \cup {[path |-> path, table |-> Nothing]}]
                /\ UNCHANGED cache
        /\ UNCHANGED storeVars

Fail(c, e) == load' = [load EXCEPT ![c].active = @ \ {e}, ![c].failed = @ \cup {e.path}]

\* parquet.read and _conform: a table of the file as it is now, or an error.
Open(c, e) ==
    /\ e \in load[c].active /\ e.table = Nothing
    /\ \/ /\ Objects[e.path] \notin {Half, Corrupt}
          /\ load' = [load EXCEPT ![c].active =
                         (@ \ {e}) \cup {[e EXCEPT !.table = Objects[e.path]]}]
          /\ UNCHANGED faults
       \/ Objects[e.path] \in {Half, Corrupt} /\ Fail(c, e) /\ UNCHANGED faults
       \/ config.source = "s3" /\ Fault /\ Fail(c, e)
    /\ UNCHANGED <<cache, config, tree, bucket, job, jobs>>

\* The cache with one more table, and without the least recently used ones it has no room for.
Kept(e) ==
    LET all == Append(Except(e.path), e)
    IN  IF Len(all) > config.cacheFiles THEN SubSeq(all, 1 + Len(all) - config.cacheFiles, Len(all))
        ELSE all

Keep(c, e) ==
    /\ e \in load[c].active /\ e.table # Nothing
    /\ cache' = Kept(e)
    /\ load' = [load EXCEPT ![c].active = @ \ {e}, ![c].loaded = @ \cup {e}]
    /\ UNCHANGED storeVars

Merge(c) ==
    /\ load[c].phase = "reading" /\ load[c].todo = <<>> /\ load[c].active = {}
    /\ load' = [load EXCEPT ![c].phase = "done"]
    /\ UNCHANGED <<cache, storeVars>>

Work(c) == \/ ListPage(c) \/ ListFails(c) \/ TakeUp(c) \/ Merge(c)
           \/ \E e \in load[c].active : Open(c, e) \/ Keep(c, e)

\* The LoadResult of a finished load.
Result(l) ==
    [files   |-> IF l.error # "none" THEN {} ELSE l.list.found,
     rows    |-> l.loaded,
     failed  |-> l.failed,
     error   |-> l.error,
     symbols |-> IF l.list.wanted # Nothing THEN l.list.wanted
                 ELSE {Symbol(path) : path \in l.list.found},
     missing |-> IF l.list.wanted = Nothing \/ l.error = "listing" THEN {}
                 ELSE l.list.wanted \ {Symbol(path) : path \in l.list.found},
     ok      |-> l.error = "none" /\ l.failed = {}]

-----------------------------------------------------------------------------
\* Properties

\* A load that reports no error holds exactly one table of every wanted data file that stood in the
\* store when it began, however many pages and threads it took and whatever was written or evicted
\* meanwhile; one that reports an error names every listed file it holds no table of.
\* reader.py: BarReader.read; store.py: list_files, _list_keys.
OkIsWhole ==
    \A c \in Callers : load[c].phase = "done" =>
        LET l == load[c]
            r == Result(l)
        IN  /\ r.ok => l.list.atStart \subseteq Paths(r.rows)
            /\ r.error = "none" => Paths(r.rows) \cup r.failed = r.files
            /\ Cardinality(Paths(r.rows)) = Cardinality(r.rows)
            /\ \A s \in r.missing : \A path \in Paths(r.rows) : Symbol(path) # s
=============================================================================
