---------------------------- MODULE MarketProofs ----------------------------
(***************************************************************************)
(* The market data app, for any trees, configurations, requests and page   *)
(* sizes, and for any number of commands, faults, loads, calls and events: *)
(* what a finished command left is whole, a load without errors is whole,  *)
(* and the reader's cache holds nothing older than the last md_refresh.    *)
(***************************************************************************)
EXTENDS MarketWatch, SequenceTheorems, FiniteSetTheorems, WellFoundedInduction, TLAPS

-----------------------------------------------------------------------------
\* Sequences

\* A set of naturals has a least element.
LEMMA LeastElement ==
    ASSUME NEW T, T \subseteq Nat, T # {}
    PROVE  \E x \in T : \A y \in T : x <= y
<1> DEFINE R == OpToRel(<, Nat)
<1>1. IsWellFoundedOn(R, Nat)
      BY NatLessThanWellFounded
<1>2. \A x, y \in Nat : x < y => <<x, y>> \in R
      BY DEF OpToRel
<1>   HIDE DEF R
<1>3. PICK x \in T : \A y \in T : ~ (<<y, x>> \in R)
      BY <1>1, WFMin
<1>4. \A y \in T : ~(y < x)
      BY <1>2, <1>3
<1> QED BY <1>3, <1>4

\* What the first n keys leave of a set of paths.
Upto(f, paths, n) ==
    /\ f = [i \in 0..n |-> f[i]]
    /\ f[0] = <<>>
    /\ \A i \in 1..n : f[i] = IF KeyOrder[i] \in paths THEN Append(f[i - 1], KeyOrder[i])
                              ELSE f[i - 1]

\* There is such a function for every n.
LEMMA UptoExists ==
    ASSUME NEW paths, NEW n \in Nat
    PROVE  \E f : Upto(f, paths, n)
<1> DEFINE Good(m) == \E f : Upto(f, paths, m)
           bad == {m \in 0..n : ~Good(m)}
           Then(s, i) == IF KeyOrder[i] \in paths THEN Append(s, KeyOrder[i]) ELSE s
<1>1. CASE bad # {}
  <2>1. bad \subseteq Nat
        OBVIOUS
  <2> HIDE DEF bad
  <2>2. PICK m \in bad : \A k \in bad : m <= k
        BY <1>1, <2>1, LeastElement
  <2> USE DEF bad
  <2>3. m \in Nat /\ m <= n /\ ~Good(m)
        BY <2>2
  <2>4. m # 0
    <3>1. Upto([i \in 0..0 |-> <<>>], paths, 0)
          BY DEF Upto
    <3> QED BY <2>3, <3>1
  <2> DEFINE k == m - 1
  <2>5. k \in Nat /\ k + 1 = m /\ k \in 0..n /\ ~(m <= k)
        BY <2>3, <2>4
  <2>6. Good(k)
        BY <2>2, <2>5
  <2>7. PICK f : Upto(f, paths, k)
        BY <2>6
  <2> HIDE DEF k
  <2> DEFINE g == [i \in 0..m |-> IF i <= k THEN f[i] ELSE Then(f[k], m)]
  <2>8. ASSUME NEW i \in 1..m PROVE g[i] = Then(g[i - 1], i)
    <3>1. CASE i <= k
      <4>1. i \in 1..k /\ i - 1 \in 0..m /\ i - 1 <= k /\ i \in 0..m
            BY <2>3, <2>5, <3>1
      <4>2. f[i] = Then(f[i - 1], i)
            BY <2>7, <4>1 DEF Upto
      <4>3. g[i] = f[i] /\ g[i - 1] = f[i - 1]
            BY <3>1, <4>1
      <4> QED BY <4>2, <4>3
    <3>2. CASE i = m
      <4>1. i - 1 = k /\ k \in 0..m /\ ~(i <= k) /\ i \in 0..m /\ k <= k
            BY <2>3, <2>5, <3>2
      <4>2. g[i] = Then(f[k], m) /\ g[k] = f[k]
            BY <3>2, <4>1
      <4> QED BY <3>2, <4>1, <4>2
    <3> QED BY <2>3, <2>5, <3>1, <3>2
  <2>9. g[0] = <<>>
    <3>1. 0 \in 0..m /\ 0 <= k
          BY <2>3, <2>5
    <3> QED BY <2>7, <3>1 DEF Upto
  <2>10. g = [i \in 0..m |-> g[i]]
         OBVIOUS
  <2> HIDE DEF g
  <2>11. Upto(g, paths, m)
         BY <2>8, <2>9, <2>10 DEF Upto
  <2> QED BY <2>3, <2>11
<1>2. CASE bad = {}
      BY <1>2
<1> QED BY <1>1, <1>2

\* The paths of a set in the order of keys are found by such a function.
LEMMA InOrderIs ==
    ASSUME NEW paths
    PROVE  \E f : Upto(f, paths, Len(KeyOrder)) /\ InOrder(paths) = f[Len(KeyOrder)]
<1> DEFINE n == Len(KeyOrder)
           Body(f) == [i \in 0..n |-> IF i = 0 THEN <<>>
                                      ELSE IF KeyOrder[i] \in paths
                                           THEN Append(f[i - 1], KeyOrder[i]) ELSE f[i - 1]]
           upto == CHOOSE f : f = Body(f)
<1>1. n \in Nat
      BY StoreAssumption, LenProperties
<1>2. InOrder(paths) = upto[n]
      BY DEF InOrder
<1>3. PICK f : Upto(f, paths, n)
      BY <1>1, UptoExists
<1>4. \A i \in 0..n : f[i] = Body(f)[i]
  <2>1. \A i \in 0..n : i = 0 \/ i \in 1..n
        BY <1>1
  <2> QED BY <1>1, <1>3, <2>1 DEF Upto
<1>5. f = Body(f)
  <2>1. f = [i \in 0..n |-> f[i]]
        BY <1>3 DEF Upto
  <2> HIDE DEF n
  <2> QED BY <1>4, <2>1
<1>6. upto = Body(upto)
  <2> HIDE DEF Body
  <2> QED BY <1>5
<1>7. Upto(upto, paths, n)
  <2> HIDE DEF upto
  <2>1. upto = [i \in 0..n |-> upto[i]]
        BY <1>6
  <2>2. \A i \in 0..n : upto[i] = Body(upto)[i]
        BY <1>6
  <2>3. 0 \in 0..n /\ \A i \in 1..n : i \in 0..n /\ i # 0
        BY <1>1
  <2> QED BY <2>1, <2>2, <2>3 DEF Upto
<1> HIDE DEF upto, n
<1> QED BY <1>2, <1>7 DEF n

\* A sequence of paths that lists, once each, those of a set among the first n keys.
Lists(s, paths, n) ==
    /\ s \in Seq(paths)
    /\ \A i \in 1..Len(s) : \E j \in 1..n : s[i] = KeyOrder[j]
    /\ \A j \in 1..n : KeyOrder[j] \in paths => \E i \in 1..Len(s) : s[i] = KeyOrder[j]
    /\ \A i, j \in 1..Len(s) : s[i] = s[j] => i = j

LEMMA ListsNext ==
    ASSUME NEW paths, NEW k \in 1..Len(KeyOrder), NEW s, Lists(s, paths, k - 1)
    PROVE  Lists(IF KeyOrder[k] \in paths THEN Append(s, KeyOrder[k]) ELSE s, paths, k)
<1>1. /\ k \in Nat /\ k - 1 \in Nat /\ 1..k - 1 \subseteq 1..k /\ k \in 1..k /\ k \notin 1..k - 1
      /\ \A j \in 1..k : j = k \/ j \in 1..k - 1
      /\ 1..k \subseteq DOMAIN KeyOrder
      BY StoreAssumption, LenProperties
<1>2. \A j \in 1..k - 1 : KeyOrder[j] # KeyOrder[k]
      BY <1>1, StoreAssumption
<1>3. CASE KeyOrder[k] \notin paths
      BY <1>1, <1>3 DEF Lists
<1>4. CASE KeyOrder[k] \in paths
  <2> DEFINE x == KeyOrder[k]
             r == Append(s, x)
  <2>1. s \in Seq(paths) /\ Len(s) \in Nat
        BY LenProperties DEF Lists
  <2>2. /\ r \in Seq(paths) /\ Len(r) = Len(s) + 1 /\ r[Len(s) + 1] = x
        /\ \A i \in 1..Len(s) : r[i] = s[i]
        BY <1>4, <2>1, AppendProperties
  <2> HIDE DEF r
  <2>3. \A i \in 1..Len(r) : i = Len(s) + 1 \/ i \in 1..Len(s)
        BY <2>1, <2>2
  <2>4. /\ 1..Len(s) \subseteq 1..Len(r) /\ Len(s) + 1 \in 1..Len(r)
        /\ Len(s) + 1 \notin 1..Len(s)
        BY <2>1, <2>2
  <2>5. \A i \in 1..Len(s) : \E j \in 1..k - 1 : s[i] = KeyOrder[j]
        BY DEF Lists
  <2>6. \A i \in 1..Len(r) : \E j \in 1..k : r[i] = KeyOrder[j]
        BY <1>1, <2>2, <2>3, <2>5
  <2>7. ASSUME NEW j \in 1..k, KeyOrder[j] \in paths
        PROVE  \E i \in 1..Len(r) : r[i] = KeyOrder[j]
    <3>1. CASE j = k
          BY <2>2, <2>4, <3>1
    <3>2. CASE j \in 1..k - 1
      <4>1. PICK i \in 1..Len(s) : s[i] = KeyOrder[j]
            BY <2>7, <3>2 DEF Lists
      <4> QED BY <2>2, <2>4, <4>1
    <3> QED BY <1>1, <3>1, <3>2
  <2>8. \A i \in 1..Len(s) : s[i] # x
        BY <1>2, <2>5
  <2>9. ASSUME NEW i \in 1..Len(r), NEW j \in 1..Len(r), r[i] = r[j] PROVE i = j
    <3>1. CASE i \in 1..Len(s) /\ j \in 1..Len(s)
          BY <2>2, <2>9, <3>1 DEF Lists
    <3>2. CASE i = Len(s) + 1 \/ j = Len(s) + 1
          BY <2>2, <2>3, <2>8, <2>9, <3>2
    <3> QED BY <2>3, <3>1, <3>2
  <2>10. Lists(r, paths, k)
         BY <2>2, <2>6, <2>7, <2>9 DEF Lists
  <2> QED BY <1>4, <2>10 DEF r
<1> QED BY <1>3, <1>4

\* InOrder lists the paths of a set that are keys.
LEMMA InOrderLists ==
    ASSUME NEW paths
    PROVE  Lists(InOrder(paths), paths, Len(KeyOrder))
<1> DEFINE n == Len(KeyOrder)
<1>1. n \in Nat
      BY StoreAssumption, LenProperties
<1>2. PICK f : Upto(f, paths, n) /\ InOrder(paths) = f[n]
      BY InOrderIs
<1> DEFINE bad == {m \in 0..n : ~Lists(f[m], paths, m)}
<1>3. CASE bad # {}
  <2>1. bad \subseteq Nat
        OBVIOUS
  <2> HIDE DEF bad
  <2>2. PICK m \in bad : \A k \in bad : m <= k
        BY <1>3, <2>1, LeastElement
  <2> USE DEF bad
  <2>3. m \in 0..n /\ ~Lists(f[m], paths, m)
        BY <2>2
  <2>4. m # 0
    <3>1. f[0] = <<>> /\ Len(<<>>) = 0 /\ <<>> \in Seq(paths)
          BY <1>2, EmptySeq DEF Upto
    <3>2. Lists(f[0], paths, 0)
          BY <3>1 DEF Lists
    <3> QED BY <2>3, <3>2
  <2>5. m \in 1..n /\ m - 1 \in 0..n /\ ~(m <= m - 1)
        BY <1>1, <2>3, <2>4
  <2>6. Lists(f[m - 1], paths, m - 1)
        BY <2>2, <2>5
  <2>7. f[m] = IF KeyOrder[m] \in paths THEN Append(f[m - 1], KeyOrder[m]) ELSE f[m - 1]
        BY <1>2, <2>5 DEF Upto
  <2> HIDE DEF bad
  <2>8. Lists(f[m], paths, m)
        BY <2>5, <2>6, <2>7, ListsNext
  <2> QED BY <2>3, <2>8
<1>4. CASE bad = {}
  <2>1. n \in 0..n
        BY <1>1
  <2> QED BY <1>2, <1>4, <2>1
<1> QED BY <1>3, <1>4

\* The same in terms of the set: a sequence of its keys, each of them once.
LEMMA Ordered1 ==
    ASSUME NEW paths \in SUBSET Keys
    PROVE  /\ InOrder(paths) \in Seq(paths)
           /\ \A path \in paths : \E i \in 1..Len(InOrder(paths)) : InOrder(paths)[i] = path
           /\ \A i, j \in 1..Len(InOrder(paths)) :
                 InOrder(paths)[i] = InOrder(paths)[j] => i = j
<1>1. Lists(InOrder(paths), paths, Len(KeyOrder))
      BY InOrderLists
<1>2. \A path \in paths : \E j \in 1..Len(KeyOrder) : KeyOrder[j] = path
      BY StoreAssumption, LenProperties DEF Keys, ToSet
<1>3. \A path \in paths : \E i \in 1..Len(InOrder(paths)) : InOrder(paths)[i] = path
      BY <1>1, <1>2 DEF Lists
<1> QED BY <1>1, <1>3 DEF Lists

-----------------------------------------------------------------------------
\* Sequences put end to end

\* What the first n of them make.
Joined(f, seqs, n) ==
    /\ f = [i \in 1..n |-> f[i]]
    /\ \A i \in 1..n : f[i] = IF i = 1 THEN seqs[i] ELSE f[i - 1] \o seqs[i]

LEMMA JoinedExists ==
    ASSUME NEW seqs, NEW n \in Nat
    PROVE  \E f : Joined(f, seqs, n)
<1> DEFINE bad == {m \in 0..n : ~\E f : Joined(f, seqs, m)}
<1>1. CASE bad # {}
  <2>1. bad \subseteq Nat
        OBVIOUS
  <2> HIDE DEF bad
  <2>2. PICK m \in bad : \A k \in bad : m <= k
        BY <1>1, <2>1, LeastElement
  <2> USE DEF bad
  <2>3. m \in Nat /\ m <= n /\ ~\E f : Joined(f, seqs, m)
        BY <2>2
  <2>4. m # 0
    <3>1. Joined([i \in 1..0 |-> <<>>], seqs, 0)
          BY DEF Joined
    <3> QED BY <2>3, <3>1
  <2> DEFINE k == m - 1
  <2>5. k \in Nat /\ k + 1 = m /\ k \in 0..n /\ ~(m <= k)
        BY <2>3, <2>4
  <2>6. PICK f : Joined(f, seqs, k)
        BY <2>2, <2>5
  <2> HIDE DEF k
  <2> DEFINE end == IF m = 1 THEN seqs[m] ELSE f[k] \o seqs[m]
             g == [i \in 1..m |-> IF i <= k THEN f[i] ELSE end]
  <2>7. ASSUME NEW i \in 1..m PROVE g[i] = IF i = 1 THEN seqs[i] ELSE g[i - 1] \o seqs[i]
    <3>1. CASE i <= k
      <4>1. i \in 1..k /\ i \in 1..m /\ (i # 1 => i - 1 \in 1..m /\ i - 1 <= k)
            BY <2>3, <2>5, <3>1
      <4>2. f[i] = IF i = 1 THEN seqs[i] ELSE f[i - 1] \o seqs[i]
            BY <2>6, <4>1 DEF Joined
      <4>3. g[i] = f[i] /\ (i # 1 => g[i - 1] = f[i - 1])
            BY <3>1, <4>1
      <4> QED BY <4>2, <4>3
    <3>2. CASE i = m
      <4>1. i - 1 = k /\ ~(i <= k) /\ i \in 1..m /\ k <= k /\ (i # 1 => k \in 1..m)
            BY <2>3, <2>5, <3>2
      <4>2. g[i] = end /\ (i # 1 => g[k] = f[k])
            BY <3>2, <4>1
      <4> HIDE DEF g
      <4> QED BY <3>2, <4>1, <4>2
    <3> QED BY <2>3, <2>5, <3>1, <3>2
  <2>8. g = [i \in 1..m |-> g[i]]
        OBVIOUS
  <2> HIDE DEF g
  <2>9. Joined(g, seqs, m)
        BY <2>7, <2>8 DEF Joined
  <2> QED BY <2>3, <2>9
<1>2. CASE bad = {}
  <2>1. n \in 0..n
        OBVIOUS
  <2> QED BY <1>2, <2>1
<1> QED BY <1>1, <1>2

\* Put end to end, sequences over a set are a sequence over it.
LEMMA FlattenType ==
    ASSUME NEW S, NEW seqs \in Seq(Seq(S))
    PROVE  FlattenSeq(seqs) \in Seq(S)
<1> DEFINE n == Len(seqs)
           Body(f) == [i \in 1..n |-> IF i = 1 THEN seqs[i] ELSE f[i - 1] \o seqs[i]]
           flatten == CHOOSE f : f = Body(f)
<1>1. n \in Nat
      BY LenProperties
<1>2. CASE n = 0
  <2>1. seqs = <<>>
        BY <1>2, EmptySeq
  <2>2. FlattenSeq(seqs) = seqs
        BY <1>2 DEF FlattenSeq
  <2> QED BY <2>1, <2>2, EmptySeq
<1>3. CASE n # 0
  <2>1. FlattenSeq(seqs) = flatten[n]
        BY <1>3 DEF FlattenSeq
  <2>2. PICK f : Joined(f, seqs, n)
        BY <1>1, JoinedExists
  <2>3. f = Body(f)
    <3>1. f = [i \in 1..n |-> f[i]] /\ \A i \in 1..n : f[i] = Body(f)[i]
          BY <2>2 DEF Joined
    <3> HIDE DEF n
    <3> QED BY <3>1
  <2>4. flatten = Body(flatten)
    <3> HIDE DEF Body
    <3> QED BY <2>3
  <2> HIDE DEF flatten
  <2>5. \A i \in 1..n : flatten[i] = IF i = 1 THEN seqs[i] ELSE flatten[i - 1] \o seqs[i]
        BY <2>4
  <2>6. \A i \in 1..n : seqs[i] \in Seq(S)
        BY ElementOfSeq
  <2> DEFINE bad == {m \in 1..n : flatten[m] \notin Seq(S)}
  <2>7. CASE bad # {}
    <3>1. bad \subseteq Nat
          BY <1>1
    <3> HIDE DEF bad
    <3>2. PICK m \in bad : \A k \in bad : m <= k
          BY <2>7, <3>1, LeastElement
    <3> USE DEF bad
    <3>3. m \in 1..n /\ flatten[m] \notin Seq(S)
          BY <3>2
    <3>4. CASE m = 1
          BY <2>5, <2>6, <3>3, <3>4
    <3>5. CASE m # 1
      <4>1. m - 1 \in 1..n /\ ~(m <= m - 1)
            BY <1>1, <3>3, <3>5
      <4>2. flatten[m - 1] \in Seq(S)
            BY <3>2, <4>1
      <4>3. flatten[m] = flatten[m - 1] \o seqs[m]
            BY <2>5, <3>3, <3>5
      <4> QED BY <2>6, <3>3, <4>2, <4>3, ConcatProperties
    <3> QED BY <3>4, <3>5
  <2>8. CASE bad = {}
    <3>1. n \in 1..n
          BY <1>1, <1>3
    <3> QED BY <2>1, <2>8, <3>1
  <2> QED BY <2>7, <2>8
<1> QED BY <1>2, <1>3

-----------------------------------------------------------------------------
\* The store

\* Files that generate may write, each with a temporary sibling that is no file of this kind.
Generated == {path \in Keys : /\ path.suffix = "parquet"
                              /\ Tmp(path) \in Keys /\ Tmp(path).suffix = "tmp"}

Job == [kind : {"idle", "generate", "upload"}, todo : Seq(Keys), done : SUBSET Keys,
        force : BOOLEAN, version : Versions \cup {Nothing}, tmp : BOOLEAN]

StoreTypeOK == /\ config \in Configs /\ Accepted(config)
               /\ tree \in Stores /\ bucket \in Stores \cup {Nothing}
               /\ job \in Job

\* No data file of the tree is half written.
TreeWhole == \A path \in DOMAIN tree : Symbol(path) # Nothing => tree[path] # Half

\* What a running command has done is there, and what it has to do can be done.
JobSound ==
    /\ job.tmp => job.kind = "generate" /\ job.todo # <<>>
    /\ job.kind = "idle" => job.done = {}
    /\ job.kind = "generate" => /\ job.version \in Versions
                                /\ job.todo \in Seq(Generated)
                                /\ job.done \subseteq DOMAIN tree \cap Generated
    /\ job.kind = "upload" => /\ bucket # Nothing
                              /\ job.todo \in Seq(DOMAIN tree)
                              /\ job.done \subseteq DOMAIN bucket

StoreInv == StoreTypeOK /\ TreeWhole /\ JobSound

\* The members of Stores.
LEMMA StoreMember ==
    /\ \A s \in Stores : DOMAIN s \subseteq Keys /\ s = [p \in DOMAIN s |-> s[p]]
                        /\ \A p \in DOMAIN s : s[p] \in Contents
    /\ \A paths \in SUBSET Keys : [paths -> Contents] \subseteq Stores
BY DEF Stores

\* Writing a file.
LEMMA WriteStore ==
    ASSUME NEW s \in Stores, NEW path \in Keys, NEW c \in Contents
    PROVE  /\ Write(s, path, c) \in Stores
           /\ DOMAIN Write(s, path, c) = DOMAIN s \cup {path}
           /\ Write(s, path, c)[path] = c
           /\ \A p \in DOMAIN s : p # path => Write(s, path, c)[p] = s[p]
<1>1. DOMAIN s \cup {path} \in SUBSET Keys /\ \A p \in DOMAIN s : s[p] \in Contents
      BY StoreMember
<1>2. Write(s, path, c) \in [DOMAIN s \cup {path} -> Contents]
      BY <1>1 DEF Write
<1>3. Write(s, path, c) \in Stores
      BY <1>1, <1>2, StoreMember
<1> QED BY <1>3 DEF Write

\* What generate has to do.
LEMMA RequestedFiles ==
    ASSUME NEW request \in Requests
    PROVE  FlattenSeq([d \in 1..request.to - request.from + 1 |->
                         IF request.from + d - 1 \in TradingDays
                         THEN [s \in DOMAIN request.symbols |->
                                  Flat(request.from + d - 1, request.symbols[s])]
                         ELSE <<>>]) \in Seq(Generated)
<1> DEFINE day(d) == request.from + d - 1
           files(d) == IF day(d) \in TradingDays
                       THEN [s \in DOMAIN request.symbols |-> Flat(day(d), request.symbols[s])]
                       ELSE <<>>
           m == request.to - request.from + 1
           seqs == [d \in 1..m |-> files(d)]
<1>1. /\ request.from \in Int /\ request.to \in Int /\ m \in Int
      /\ DOMAIN request.symbols = 1..Len(request.symbols) /\ Len(request.symbols) \in Nat
      BY StoreAssumption, LenProperties
<1>2. ASSUME NEW d \in 1..m PROVE files(d) \in Seq(Generated)
  <2>1. CASE day(d) \in TradingDays
    <3>1. day(d) \in TradingDays \cap request.from..request.to
          BY <1>1, <2>1
    <3>2. ASSUME NEW s \in DOMAIN request.symbols
          PROVE  Flat(day(d), request.symbols[s]) \in Generated
      <4> DEFINE path == Flat(day(d), request.symbols[s])
      <4>1. {path, Tmp(path)} \subseteq Keys
            BY <3>1, StoreAssumption
      <4>2. path.suffix = "parquet" /\ Tmp(path).suffix = "tmp"
            BY DEF Flat, Tmp
      <4> QED BY <4>1, <4>2 DEF Generated
    <3>3. files(d) \in [1..Len(request.symbols) -> Generated]
          BY <1>1, <2>1, <3>2
    <3> HIDE DEF files
    <3> QED BY <1>1, <3>3
  <2>2. CASE day(d) \notin TradingDays
        BY <2>2, EmptySeq
  <2> QED BY <2>1, <2>2
<1>3. seqs \in Seq(Seq(Generated))
  <2> HIDE DEF files
  <2>1. CASE m \in Nat
    <3> HIDE DEF m
    <3>1. seqs \in [1..m -> Seq(Generated)]
          BY <1>2
    <3> HIDE DEF seqs
    <3> QED BY <2>1, <3>1
  <2>2. CASE m \notin Nat
    <3>1. 1..m = {} /\ 1..0 = {}
          BY <1>1, <2>2
    <3>2. seqs = <<>>
          BY <3>1
    <3> QED BY <3>2, EmptySeq
  <2> QED BY <2>1, <2>2
<1> HIDE DEF seqs
<1>4. FlattenSeq(seqs) \in Seq(Generated)
      BY <1>3, FlattenType
<1> QED BY <1>4 DEF seqs

\* A step takes no data file out of a store.
StoreGrows ==
    /\ config' = config
    /\ \A path \in DOMAIN tree : Symbol(path) # Nothing => path \in DOMAIN tree'
    /\ bucket # Nothing => bucket' # Nothing /\ DOMAIN bucket \subseteq DOMAIN bucket'

\* The next file of a running command.
LEMMA NextFile ==
    ASSUME NEW S, job \in Job, job.todo \in Seq(S), job.todo # <<>>
    PROVE  File \in S /\ Tail(job.todo) \in Seq(S)
BY HeadTailProperties DEF File

\* The command after that file.
LEMMA AheadIs ==
    ASSUME job \in Job, job.todo # <<>>
    PROVE  /\ Ahead \in Job /\ File \in Keys
           /\ Ahead.kind = job.kind /\ Ahead.version = job.version
           /\ Ahead.todo = Tail(job.todo) /\ Ahead.done = job.done \cup {File}
           /\ Ahead.tmp = FALSE
<1>1. job.todo \in Seq(Keys)
      BY DEF Job
<1>2. File \in Keys /\ Tail(job.todo) \in Seq(Keys)
      BY <1>1, NextFile
<1> DEFINE rest == Tail(job.todo)
           file == File
<1>3. Ahead = [job EXCEPT !.todo = rest, !.done = job.done \cup {file}, !.tmp = FALSE]
      BY DEF Ahead
<1> HIDE DEF rest, file
<1>4. rest \in Seq(Keys) /\ file \in Keys
      BY <1>2 DEF rest, file
<1>5. /\ Ahead \in Job
      /\ Ahead.kind = job.kind /\ Ahead.version = job.version
      /\ Ahead.todo = rest /\ Ahead.done = job.done \cup {file}
      /\ Ahead.tmp = FALSE
      BY <1>3, <1>4 DEF Job
<1> QED BY <1>2, <1>5 DEF rest, file

LEMMA StartStep ==
    ASSUME StoreInv, NEW kind \in {"generate", "upload"}, NEW files \in Seq(Keys),
           NEW force \in BOOLEAN, NEW version \in Versions \cup {Nothing},
           Start(kind, files, force, version)
    PROVE  /\ job' \in Job /\ job'.kind = kind /\ job'.todo = files /\ job'.done = {}
           /\ job'.version = version /\ job'.tmp = FALSE
<1> DEFINE none == <<>>
           i == "idle"
<1>1. job' = [kind |-> kind, todo |-> files, done |-> {}, force |-> force, version |-> version,
              tmp |-> FALSE]
      BY DEF Start, Idle
<1> QED BY <1>1 DEF Job

LEMMA GenerateStep ==
    ASSUME StoreInv, NEW request \in Requests, NEW force \in BOOLEAN, NEW version \in Versions,
           Generate(request, force, version)
    PROVE  StoreInv' /\ StoreGrows
<1> DEFINE files == FlattenSeq([d \in 1..request.to - request.from + 1 |->
                         IF request.from + d - 1 \in TradingDays
                         THEN [s \in DOMAIN request.symbols |->
                                  Flat(request.from + d - 1, request.symbols[s])]
                         ELSE <<>>])
<1>1. files \in Seq(Generated)
      BY RequestedFiles
<1>2. Start("generate", files, force, version) /\ UNCHANGED <<config, tree, bucket>>
      BY DEF Generate, Start
<1> HIDE DEF files
<1>3. files \in Seq(Keys)
  <2>1. Generated \subseteq Keys
        BY DEF Generated
  <2> QED BY <1>1, <2>1
<1>4. /\ job' \in Job /\ job'.kind = "generate" /\ job'.todo = files /\ job'.done = {}
      /\ job'.version = version /\ job'.tmp = FALSE
      BY <1>2, <1>3, StartStep
<1>5. StoreTypeOK' /\ TreeWhole'
      BY <1>2, <1>4 DEF StoreInv, StoreTypeOK, TreeWhole, Accepted
<1>6. JobSound'
      BY <1>1, <1>4 DEF JobSound
<1> QED BY <1>2, <1>5, <1>6 DEF StoreInv, StoreGrows

LEMMA SkipStep ==
    ASSUME StoreInv, Skip
    PROVE  StoreInv' /\ StoreGrows
<1>1. /\ job \in Job /\ job.todo # <<>> /\ job.kind = "generate" /\ job' = Ahead
      /\ UNCHANGED <<config, tree, bucket>> /\ File \in DOMAIN tree
      BY DEF Skip, StoreInv, StoreTypeOK
<1>2. job.todo \in Seq(Generated) /\ job.version \in Versions /\ job.done \subseteq DOMAIN tree \cap Generated
      BY <1>1 DEF StoreInv, JobSound
<1>3. File \in Generated /\ Tail(job.todo) \in Seq(Generated)
      BY <1>1, <1>2, NextFile
<1>4. /\ job' \in Job /\ job'.kind = "generate" /\ job'.version \in Versions
      /\ job'.todo \in Seq(Generated) /\ job'.done = job.done \cup {File} /\ job'.tmp = FALSE
      BY <1>1, <1>2, <1>3, AheadIs
<1>5. job'.done \subseteq DOMAIN tree' \cap Generated
      BY <1>1, <1>2, <1>3, <1>4
<1>6. StoreTypeOK' /\ TreeWhole'
      BY <1>1, <1>4 DEF StoreInv, StoreTypeOK, TreeWhole, Accepted
<1>7. JobSound'
      BY <1>4, <1>5 DEF JobSound
<1> QED BY <1>1, <1>6, <1>7 DEF StoreInv, StoreGrows

LEMMA WriteTmpStep ==
    ASSUME StoreInv, WriteTmp
    PROVE  StoreInv' /\ StoreGrows
<1>1. /\ job \in Job /\ job.todo # <<>> /\ job.kind = "generate" /\ tree \in Stores
      /\ tree' = Write(tree, Tmp(File), Half) /\ job' = [job EXCEPT !.tmp = TRUE]
      /\ UNCHANGED <<config, bucket>>
      BY DEF WriteTmp, StoreInv, StoreTypeOK
<1>2. job.todo \in Seq(Generated) /\ job.version \in Versions /\ job.done \subseteq DOMAIN tree \cap Generated
      BY <1>1 DEF StoreInv, JobSound
<1>3. File \in Generated
      BY <1>1, <1>2, NextFile
<1>4. Tmp(File) \in Keys /\ Symbol(Tmp(File)) = Nothing
      BY <1>3 DEF Generated, Symbol
<1>5. Half \in Contents
      BY DEF Contents
<1>6. /\ tree' \in Stores /\ DOMAIN tree' = DOMAIN tree \cup {Tmp(File)}
      /\ \A p \in DOMAIN tree : p # Tmp(File) => tree'[p] = tree[p]
  <2>1. PICK tmp : tmp = Tmp(File)
        OBVIOUS
  <2>2. tmp \in Keys /\ tree \in Stores
        BY <1>1, <1>4, <2>1
  <2>3. /\ Write(tree, tmp, Half) \in Stores
        /\ DOMAIN Write(tree, tmp, Half) = DOMAIN tree \cup {tmp}
        /\ \A p \in DOMAIN tree : p # tmp => Write(tree, tmp, Half)[p] = tree[p]
        BY <1>5, <2>2, WriteStore
  <2>4. tree' = Write(tree, tmp, Half)
        BY <1>1, <2>1
  <2> QED BY <2>1, <2>3, <2>4
<1>7. /\ job' \in Job /\ job'.kind = "generate" /\ job'.version = job.version
      /\ job'.todo = job.todo /\ job'.done = job.done /\ job'.tmp = TRUE
      BY <1>1 DEF Job
<1>8. StoreTypeOK'
      BY <1>1, <1>6, <1>7 DEF StoreInv, StoreTypeOK, Accepted
<1>9. TreeWhole'
      BY <1>4, <1>6 DEF StoreInv, TreeWhole
<1>10. JobSound'
       BY <1>1, <1>2, <1>6, <1>7 DEF JobSound
<1>11. StoreGrows
       BY <1>1, <1>6 DEF StoreGrows
<1> QED BY <1>8, <1>9, <1>10, <1>11 DEF StoreInv

LEMMA RenameStep ==
    ASSUME StoreInv, Rename
    PROVE  StoreInv' /\ StoreGrows
<1>1. /\ job \in Job /\ job.todo # <<>> /\ job.kind = "generate" /\ tree \in Stores
      /\ tree' = [path \in (DOMAIN tree \cup {File}) \ {Tmp(File)} |->
                     IF path = File THEN job.version ELSE tree[path]]
      /\ job' = Ahead
      /\ UNCHANGED <<config, bucket>>
      BY DEF Rename, StoreInv, StoreTypeOK, JobSound
<1>2. job.todo \in Seq(Generated) /\ job.version \in Versions /\ job.done \subseteq DOMAIN tree \cap Generated
      BY <1>1 DEF StoreInv, JobSound
<1>3. File \in Generated /\ Tail(job.todo) \in Seq(Generated)
      BY <1>1, <1>2, NextFile
<1>4. /\ Symbol(Tmp(File)) = Nothing /\ File \in Keys /\ Tmp(File) \notin Generated
      BY <1>3 DEF Generated, Symbol
<1>5. job.version \in Contents /\ job.version # Half
      BY <1>2, StoreAssumption DEF Contents
<1>6. DOMAIN tree \subseteq Keys /\ \A p \in DOMAIN tree : tree[p] \in Contents
      BY <1>1, StoreMember
<1> DEFINE files == (DOMAIN tree \cup {File}) \ {Tmp(File)}
<1>7. files \in SUBSET Keys
      BY <1>4, <1>6
<1>8. tree' \in [files -> Contents]
      BY <1>1, <1>5, <1>6
<1>9. tree' \in Stores
  <2> HIDE DEF files
  <2> QED BY <1>7, <1>8, StoreMember
<1>10. DOMAIN tree' = files /\ \A p \in files : p = File \/ tree'[p] = tree[p]
       BY <1>1
<1>11. tree'[File] # Half
       BY <1>1, <1>3, <1>4, <1>5
<1>12. /\ job' \in Job /\ job'.kind = "generate" /\ job'.version \in Versions
       /\ job'.todo \in Seq(Generated) /\ job'.done = job.done \cup {File} /\ job'.tmp = FALSE
       BY <1>1, <1>2, <1>3, AheadIs
<1>13. job'.done \subseteq DOMAIN tree' \cap Generated
       BY <1>2, <1>3, <1>4, <1>10, <1>12
<1>14. StoreTypeOK'
       BY <1>1, <1>9, <1>12 DEF StoreInv, StoreTypeOK, Accepted
<1>15. TreeWhole'
       BY <1>10, <1>11 DEF StoreInv, TreeWhole
<1>16. JobSound'
       BY <1>12, <1>13 DEF JobSound
<1>17. StoreGrows
       BY <1>1, <1>4, <1>10 DEF StoreGrows
<1> QED BY <1>14, <1>15, <1>16, <1>17 DEF StoreInv

\* The empty store.
LEMMA EmptyStore == <<>> \in Stores /\ DOMAIN <<>> = {}
<1>1. <<>> \in [{} -> Contents] /\ {} \in SUBSET Keys
      OBVIOUS
<1> QED BY <1>1, StoreMember

LEMMA UploadStep ==
    ASSUME StoreInv, Upload
    PROVE  StoreInv' /\ StoreGrows
<1> DEFINE data == {path \in DOMAIN tree : Symbol(path) # Nothing}
           files == InOrder(data)
<1>1. /\ Start("upload", files, FALSE, Nothing) /\ UNCHANGED <<config, tree>>
      /\ bucket' = IF bucket = Nothing THEN <<>> ELSE bucket
      BY DEF Upload, Start
<1>2. data \in SUBSET Keys /\ data \subseteq DOMAIN tree
      BY StoreMember DEF StoreInv, StoreTypeOK
<1> HIDE DEF data
<1>3. files \in Seq(data)
      BY <1>2, Ordered1
<1> HIDE DEF files
<1>4. files \in Seq(Keys) /\ files \in Seq(DOMAIN tree)
      BY <1>2, <1>3
<1>5. /\ job' \in Job /\ job'.kind = "upload" /\ job'.todo = files /\ job'.done = {}
      /\ job'.tmp = FALSE
      BY <1>1, <1>4, StartStep
<1>6. bucket' \in Stores /\ bucket' # Nothing
      BY <1>1, EmptyStore, StoreAssumption DEF StoreInv, StoreTypeOK
<1>7. StoreTypeOK' /\ TreeWhole'
      BY <1>1, <1>5, <1>6 DEF StoreInv, StoreTypeOK, TreeWhole, Accepted
<1>8. JobSound'
      BY <1>1, <1>4, <1>5, <1>6 DEF JobSound
<1>9. StoreGrows
      BY <1>1, <1>6 DEF StoreGrows
<1> QED BY <1>7, <1>8, <1>9 DEF StoreInv

LEMMA PutStep ==
    ASSUME StoreInv, Put
    PROVE  StoreInv' /\ StoreGrows
<1>1. /\ job \in Job /\ job.todo # <<>> /\ job.kind = "upload" /\ job' = Ahead
      /\ bucket' = Write(bucket, File, tree[File]) /\ tree \in Stores
      /\ UNCHANGED <<config, tree>>
      BY DEF Put, StoreInv, StoreTypeOK
<1>2. /\ job.todo \in Seq(DOMAIN tree) /\ job.done \subseteq DOMAIN bucket
      /\ bucket # Nothing /\ bucket \in Stores
      BY <1>1 DEF StoreInv, StoreTypeOK, JobSound
<1>3. File \in DOMAIN tree /\ Tail(job.todo) \in Seq(DOMAIN tree)
      BY <1>1, <1>2, NextFile
<1>4. File \in Keys /\ tree[File] \in Contents
      BY <1>1, <1>3, StoreMember
<1>5. bucket' \in Stores /\ DOMAIN bucket' = DOMAIN bucket \cup {File}
  <2>1. PICK path, content : path = File /\ content = tree[File]
        OBVIOUS
  <2>2. path \in Keys /\ content \in Contents /\ bucket \in Stores
        BY <1>2, <1>4, <2>1
  <2>3. /\ Write(bucket, path, content) \in Stores
        /\ DOMAIN Write(bucket, path, content) = DOMAIN bucket \cup {path}
        BY <2>2, WriteStore
  <2>4. bucket' = Write(bucket, path, content)
        BY <1>1, <2>1
  <2> QED BY <2>1, <2>3, <2>4
<1>6. /\ job' \in Job /\ job'.kind = "upload"
      /\ job'.todo \in Seq(DOMAIN tree) /\ job'.done = job.done \cup {File} /\ job'.tmp = FALSE
      BY <1>1, <1>3, AheadIs
<1>7. StoreTypeOK' /\ TreeWhole'
      BY <1>1, <1>5, <1>6 DEF StoreInv, StoreTypeOK, TreeWhole, Accepted
<1>8. bucket' # Nothing
      BY <1>5, StoreAssumption
<1>9. JobSound'
      BY <1>1, <1>2, <1>5, <1>6, <1>8 DEF JobSound
<1>10. StoreGrows
       BY <1>1, <1>5, <1>8 DEF StoreGrows
<1> QED BY <1>7, <1>9, <1>10 DEF StoreInv

\* The command that does nothing.
LEMMA IdleJob == /\ Idle \in Job /\ Idle.kind = "idle" /\ Idle.done = {} /\ ~Idle.tmp
<1>1. <<>> \in Seq(Keys)
      OBVIOUS
<1> DEFINE none == <<>>
<1>2. Idle = [kind |-> "idle", todo |-> none, done |-> {}, force |-> FALSE, version |-> Nothing,
              tmp |-> FALSE]
      BY DEF Idle
<1> HIDE DEF none
<1>3. none \in Seq(Keys)
      BY <1>1 DEF none
<1> QED BY <1>2, <1>3 DEF Job

LEMMA KillStep ==
    ASSUME StoreInv, Kill
    PROVE  StoreInv' /\ StoreGrows
<1>1. job' = Idle /\ UNCHANGED <<config, tree, bucket>>
      BY DEF Kill
<1>2. job' \in Job /\ job'.kind = "idle" /\ job'.done = {} /\ ~job'.tmp
      BY <1>1, IdleJob
<1>3. StoreTypeOK' /\ TreeWhole'
      BY <1>1, <1>2 DEF StoreInv, StoreTypeOK, TreeWhole, Accepted
<1>4. JobSound'
      BY <1>2 DEF JobSound
<1> QED BY <1>1, <1>3, <1>4 DEF StoreInv, StoreGrows

\* A file of a store with another content.
LEMMA SpoilStore ==
    ASSUME NEW s \in Stores, NEW path \in DOMAIN s
    PROVE  /\ [s EXCEPT ![path] = Corrupt] \in Stores
           /\ DOMAIN [s EXCEPT ![path] = Corrupt] = DOMAIN s
<1>1. DOMAIN s \in SUBSET Keys /\ s \in [DOMAIN s -> Contents]
      BY StoreMember
<1>2. Corrupt \in Contents
      BY DEF Contents
<1>3. [s EXCEPT ![path] = Corrupt] \in [DOMAIN s -> Contents]
      BY <1>1, <1>2
<1> QED BY <1>1, <1>3, StoreMember

LEMMA SpoilStep ==
    ASSUME StoreInv, NEW path, Spoil(path)
    PROVE  StoreInv' /\ StoreGrows
<1>1. UNCHANGED <<config, job>> /\ path \in DOMAIN Objects
      BY DEF Spoil
<1>2. CASE config.source = "local"
  <2>1. path \in DOMAIN tree /\ tree' = [tree EXCEPT ![path] = Corrupt] /\ bucket' = bucket
        BY <1>1, <1>2 DEF Spoil, Objects
  <2>2. tree' \in Stores /\ DOMAIN tree' = DOMAIN tree
        BY <2>1, SpoilStore DEF StoreInv, StoreTypeOK
  <2>3. TreeWhole'
        BY <2>1, <2>2, StoreAssumption DEF StoreInv, TreeWhole
  <2>4. StoreTypeOK' /\ JobSound'
        BY <1>1, <2>1, <2>2 DEF StoreInv, StoreTypeOK, JobSound, Accepted
  <2> QED BY <1>1, <2>1, <2>2, <2>3, <2>4 DEF StoreInv, StoreGrows
<1>3. CASE config.source # "local"
  <2>1. bucket # Nothing
        BY <1>1, <1>3, EmptyStore DEF Objects
  <2>2. bucket \in Stores /\ path \in DOMAIN bucket /\ tree' = tree
        /\ bucket' = [bucket EXCEPT ![path] = Corrupt]
        BY <1>1, <1>3, <2>1 DEF Spoil, Objects, StoreInv, StoreTypeOK
  <2>3. bucket' \in Stores /\ DOMAIN bucket' = DOMAIN bucket
        BY <2>2, SpoilStore
  <2>4. bucket' # Nothing
        BY <2>3, StoreAssumption
  <2>5. StoreTypeOK' /\ TreeWhole' /\ JobSound'
        BY <1>1, <2>2, <2>3, <2>4 DEF StoreInv, StoreTypeOK, TreeWhole, JobSound, Accepted
  <2> QED BY <1>1, <2>2, <2>3, <2>4, <2>5 DEF StoreInv, StoreGrows
<1> QED BY <1>2, <1>3

\* Any step of a command, or of what happens to it.
LEMMA CommandStep ==
    ASSUME StoreInv, Command
    PROVE  StoreInv' /\ StoreGrows
BY GenerateStep, SkipStep, WriteTmpStep, RenameStep, UploadStep, PutStep, KillStep, SpoilStep
   DEF Command

\* A step that leaves the stores and the command alone.
LEMMA QuietStep ==
    ASSUME StoreInv, UNCHANGED <<config, tree, bucket, job>>
    PROVE  StoreInv' /\ StoreGrows
<1>1. StoreTypeOK' /\ TreeWhole' /\ JobSound'
      BY DEF StoreInv, StoreTypeOK, TreeWhole, JobSound, Accepted
<1> QED BY <1>1 DEF StoreInv, StoreGrows

LEMMA StoreStart ==
    ASSUME StoreInit
    PROVE  StoreInv
<1>1. /\ config \in Configs /\ Accepted(config) /\ tree \in Trees
      /\ bucket \in {Nothing} \cup Trees /\ job = Idle
      BY DEF StoreInit
<1>2. StoreTypeOK /\ TreeWhole
      BY <1>1, IdleJob, StoreAssumption DEF StoreTypeOK, TreeWhole
<1>3. JobSound
      BY <1>1, IdleJob DEF JobSound
<1> QED BY <1>2, <1>3 DEF StoreInv

\* Only commands and faults change the stores.
LEMMA OtherSteps ==
    ASSUME Next, ~Command
    PROVE  UNCHANGED <<config, tree, bucket, job>>
<1>1. ASSUME NEW c \in Callers, Work(c) PROVE UNCHANGED <<config, tree, bucket, job>>
      BY <1>1 DEF Work, ListPage, ListFails, TakeUp, Merge, Open, Keep, storeVars
<1>2. ASSUME Console PROVE UNCHANGED <<config, tree, bucket, job>>
      BY <1>2 DEF Console, ScanDays, ScanPage, LoadDefaults, Wired, Refresh, MdLoad, MdDone, storeVars
<1>3. ASSUME Handler PROVE UNCHANGED <<config, tree, bucket, job>>
  <2>1. ASSUME NEW field, NEW value, Set(field, value) PROVE Event
        BY <2>1 DEF Set
  <2>2. \A picked : PickSymbols(picked) => Event
        BY Zenon DEF PickSymbols, Set
  <2>3. \A names : AddTyped(names) => Event
        BY Zenon DEF AddTyped, Set
  <2>4. ASSUME PickPeriod PROVE Event
        BY <2>4 DEF PickPeriod, Set
  <2>6. ASSUME PickDay PROVE Event
        BY Zenon, <2>1, <2>6 DEF PickDay
  <2>5. Event
        BY Zenon, <1>3, <2>1, <2>2, <2>3, <2>4, <2>6 DEF Handler
  <2> QED BY <2>5 DEF Event, storeVars
<1>4. ASSUME RenderLoads \/ Render PROVE UNCHANGED <<config, tree, bucket, job>>
      BY <1>4 DEF RenderLoads, Render, storeVars
<1> QED BY <1>1, <1>2, <1>3, <1>4 DEF Next

LEMMA StoreStep ==
    ASSUME StoreInv, [Next]_deskVars
    PROVE  StoreInv' /\ StoreGrows
<1>1. CASE Command
      BY <1>1, CommandStep
<1>2. CASE Next /\ ~Command
      BY <1>2, OtherSteps, QuietStep
<1>3. CASE UNCHANGED deskVars
      BY <1>3, QuietStep DEF deskVars, storeVars
<1> QED BY <1>1, <1>2, <1>3

\* The stores, the listings of commands and what commands are at keep their types,
\* through every step of the app beside them.
THEOREM StoreTypes == DeskSpec => []StoreTypeOK
<1>1. Init => StoreInv
      BY StoreStart DEF Init
<1>2. StoreInv /\ [Next]_deskVars => StoreInv'
      BY StoreStep
<1>3. StoreInv => StoreTypeOK
      BY DEF StoreInv
<1> QED BY <1>1, <1>2, <1>3, PTL DEF DeskSpec

\* When a command has worked off its list, every file on it is there and whole, wherever an
\* earlier command was killed, and no data file is ever seen half written.
\* mockgen.py: write_day_file, generate; store.py: upload_tree.
THEOREM JobsAreDelivered == DeskSpec => []JobsDeliver
<1>1. Init => StoreInv
      BY StoreStart DEF Init
<1>2. StoreInv /\ [Next]_deskVars => StoreInv'
      BY StoreStep
<1>3. StoreInv => JobsDeliver
      BY DEF StoreInv, StoreTypeOK, Job, TreeWhole, JobSound, JobsDeliver
<1> QED BY <1>1, <1>2, <1>3, PTL DEF DeskSpec

-----------------------------------------------------------------------------
\* Finite sets of numbers

\* They have a greatest and a least element, which Max and Min are.
LEMMA Greatest ==
    ASSUME NEW T, T \subseteq Int, IsFiniteSet(T), T # {}
    PROVE  Max(T) \in T /\ \A y \in T : y <= Max(T)
<1> DEFINE above(x) == {y \in T : y > x}
           sizes == {Cardinality(above(x)) : x \in T}
<1>1. \A x \in T : above(x) \in SUBSET T /\ IsFiniteSet(above(x)) /\ Cardinality(above(x)) \in Nat
  <2>1. \A x \in T : above(x) \in SUBSET T
        OBVIOUS
  <2> HIDE DEF above
  <2> QED BY <2>1, FS_Subset, FS_CardinalityType
<1>2. sizes \subseteq Nat /\ sizes # {}
  <2> HIDE DEF above
  <2> QED BY <1>1
<1>3. PICK m \in sizes : \A k \in sizes : m <= k
  <2> HIDE DEF sizes
  <2> QED BY <1>2, LeastElement
<1>4. PICK x \in T : m = Cardinality(above(x))
  <2> HIDE DEF above
  <2> QED BY <1>3
<1>5. above(x) = {}
  <2> SUFFICES ASSUME NEW y \in above(x) PROVE FALSE
      OBVIOUS
  <2>1. y \in T /\ y > x
        OBVIOUS
  <2>2. above(y) \in SUBSET above(x) /\ above(y) # above(x)
    <3>1. x \in Int /\ y \in Int /\ \A z \in T : z \in Int
          BY <1>4, <2>1
    <3>2. \A z \in T : z > y => z > x
          BY <2>1, <3>1
    <3>3. y \in above(x) /\ y \notin above(y)
          BY <2>1, <3>1
    <3> QED BY <3>2, <3>3
  <2> HIDE DEF above
  <2>3. Cardinality(above(y)) <= Cardinality(above(x)) /\ Cardinality(above(y)) # Cardinality(above(x))
        BY <1>1, <2>2, FS_Subset
  <2>4. Cardinality(above(x)) <= Cardinality(above(y))
    <3>1. Cardinality(above(y)) \in sizes
          BY <2>1
    <3> HIDE DEF sizes
    <3>2. m <= Cardinality(above(y))
          BY <1>3, <3>1
    <3> QED BY <1>4, <3>2
  <2>5. Cardinality(above(x)) \in Nat /\ Cardinality(above(y)) \in Nat
        BY <1>1, <2>1
  <2> QED BY <2>3, <2>4, <2>5
<1>6. \A y \in T : x >= y
      BY <1>5
<1> HIDE DEF above, sizes
<1>7. Max(T) \in T /\ \A y \in T : Max(T) >= y
      BY <1>6 DEF Max
<1> QED BY <1>7

LEMMA Smallest ==
    ASSUME NEW T, T \subseteq Int, IsFiniteSet(T), T # {}
    PROVE  Min(T) \in T /\ \A y \in T : Min(T) <= y
<1> DEFINE below(x) == {y \in T : y < x}
           sizes == {Cardinality(below(x)) : x \in T}
<1>1. \A x \in T : below(x) \in SUBSET T /\ IsFiniteSet(below(x)) /\ Cardinality(below(x)) \in Nat
  <2>1. \A x \in T : below(x) \in SUBSET T
        OBVIOUS
  <2> HIDE DEF below
  <2> QED BY <2>1, FS_Subset, FS_CardinalityType
<1>2. sizes \subseteq Nat /\ sizes # {}
  <2> HIDE DEF below
  <2> QED BY <1>1
<1>3. PICK m \in sizes : \A k \in sizes : m <= k
  <2> HIDE DEF sizes
  <2> QED BY <1>2, LeastElement
<1>4. PICK x \in T : m = Cardinality(below(x))
  <2> HIDE DEF below
  <2> QED BY <1>3
<1>5. below(x) = {}
  <2> SUFFICES ASSUME NEW y \in below(x) PROVE FALSE
      OBVIOUS
  <2>1. y \in T /\ y < x
        OBVIOUS
  <2>2. below(y) \in SUBSET below(x) /\ below(y) # below(x)
    <3>1. x \in Int /\ y \in Int /\ \A z \in T : z \in Int
          BY <1>4, <2>1
    <3>2. \A z \in T : z < y => z < x
          BY <2>1, <3>1
    <3>3. y \in below(x) /\ y \notin below(y)
          BY <2>1, <3>1
    <3> QED BY <3>2, <3>3
  <2> HIDE DEF below
  <2>3. Cardinality(below(y)) <= Cardinality(below(x)) /\ Cardinality(below(y)) # Cardinality(below(x))
        BY <1>1, <2>2, FS_Subset
  <2>4. Cardinality(below(x)) <= Cardinality(below(y))
    <3>1. Cardinality(below(y)) \in sizes
          BY <2>1
    <3> HIDE DEF sizes
    <3> QED BY <1>3, <1>4, <3>1
  <2>5. Cardinality(below(x)) \in Nat /\ Cardinality(below(y)) \in Nat
        BY <1>1, <2>1
  <2> QED BY <2>3, <2>4, <2>5
<1>6. \A y \in T : x <= y
      BY <1>5
<1> HIDE DEF below, sizes
<1>7. Min(T) \in T /\ \A y \in T : Min(T) <= y
      BY <1>6 DEF Min
<1> QED BY <1>7

LEMMA PairFinite ==
    ASSUME NEW a, NEW b
    PROVE  IsFiniteSet({a, b}) /\ {a, b} # {}
<1>1. IsFiniteSet({a} \cup {b})
      BY FS_Singleton, FS_AddElement
<1>2. {a, b} = {a} \cup {b}
      OBVIOUS
<1> QED BY <1>1, <1>2

\* There are finitely many keys, and so files and days.
LEMMA KeysFinite ==
    /\ IsFiniteSet(Keys)
    /\ \A paths \in SUBSET Keys : IsFiniteSet(paths) /\ Cardinality(paths) \in Nat
<1> DEFINE n == Len(KeyOrder)
<1>1. n \in Nat /\ KeyOrder \in [1..n -> Keys]
      BY StoreAssumption, LenProperties
<1>2. KeyOrder \in Surjection(1..n, Keys)
  <2>1. \A path \in Keys : \E i \in 1..n : KeyOrder[i] = path
        BY StoreAssumption, LenProperties DEF Keys, ToSet
  <2> HIDE DEF n
  <2> QED BY <1>1, <2>1 DEF Surjection
<1>3. IsFiniteSet(1..n)
  <2> HIDE DEF n
  <2> QED BY <1>1, FS_Interval
<1>4. IsFiniteSet(Keys)
  <2> HIDE DEF n
  <2> QED BY <1>2, <1>3, FS_Surjection
<1> QED BY <1>4, FS_Subset, FS_CardinalityType

LEMMA DaysFinite ==
    ASSUME NEW paths \in SUBSET Keys
    PROVE  IsFiniteSet(DaysOf(paths)) /\ DaysOf(paths) \subseteq Int
<1> DEFINE f == [path \in paths |-> path.day]
<1>1. f \in Surjection(paths, DaysOf(paths))
      BY DEF Surjection, DaysOf
<1>2. DaysOf(paths) \subseteq Int
      BY StoreAssumption DEF DaysOf
<1> HIDE DEF f
<1> QED BY <1>1, <1>2, KeysFinite, FS_Surjection

-----------------------------------------------------------------------------
\* Listings

\* The data files there are.
DataFiles == {path \in DOMAIN Objects : Symbol(path) # Nothing}

\* A listing of what a store holds of `files`: it has found a file that was there at its
\* start, or has yet to come to it.
ListOK(l, files) ==
    /\ l \in [from : Int, to : Int, wanted : {l.wanted}, day : Int, after : Nat,
              found : SUBSET files, atStart : SUBSET files]
    /\ \A path \in l.found \cup l.atStart : Covers(l, path)
    /\ \A path \in l.atStart :
          \/ path \in l.found
          \/ path.day > l.day
          \/ path.day = l.day /\ \E i \in DOMAIN KeyOrder : KeyOrder[i] = path /\ i > l.after

LEMMA DataAreKeys ==
    ASSUME StoreInv
    PROVE  /\ DataFiles \subseteq Keys
           /\ \A path \in DataFiles : /\ path \in DOMAIN Objects /\ Symbol(path) # Nothing
                                       /\ Objects[path] \in Contents
BY StoreMember, EmptyStore DEF DataFiles, Objects, StoreInv, StoreTypeOK

\* No step takes a data file away.
LEMMA DataStay ==
    ASSUME StoreInv, StoreGrows
    PROVE  DataFiles \subseteq DataFiles'
<1>1. config' = config
      BY DEF StoreGrows
<1>2. ASSUME NEW path \in DataFiles PROVE path \in DOMAIN Objects' /\ Symbol(path) # Nothing
      BY <1>1, EmptyStore DEF DataFiles, Objects, StoreGrows
<1> QED BY <1>2 DEF DataFiles

\* A listing goes on when there are more files.
LEMMA ListKeeps ==
    ASSUME NEW l, NEW files, NEW more, ListOK(l, files), files \subseteq more
    PROVE  ListOK(l, more)
BY DEF ListOK

\* A listing that is done has found every file that was there at its start.
LEMMA ListWhole ==
    ASSUME NEW l, NEW files \in SUBSET Keys, ListOK(l, files), Listed(l)
    PROVE  l.atStart \subseteq l.found
<1> SUFFICES ASSUME NEW path \in l.atStart PROVE path \in l.found
    OBVIOUS
<1>1. l.day \in Int /\ l.to \in Int /\ l.from \in Int /\ path \in Keys
      BY DEF ListOK
<1>2. path.day \in Int
      BY <1>1, StoreAssumption
<1>3. path.day <= l.to
      BY <1>1, <1>2 DEF ListOK, Covers
<1>4. l.day > l.to
      BY DEF Listed
<1> QED BY <1>1, <1>2, <1>3, <1>4 DEF ListOK

\* A listing begins.
LEMMA ListBegins ==
    ASSUME StoreInv, NEW from \in Int, NEW to \in Int, NEW wanted
    PROVE  /\ ListOK(Listing(from, to, wanted), DataFiles)
           /\ Listing(from, to, wanted).found = {}
           /\ Listing(from, to, wanted).wanted = wanted
           /\ (wanted = {} /\ Nothing # {}) \/ from > to => Listing(from, to, wanted).atStart = {}
<1> DEFINE r == [from |-> from, to |-> to, wanted |-> wanted]
           start == {path \in DOMAIN Objects : Covers(r, path)}
           l == [from |-> from, to |-> to, wanted |-> wanted, day |-> from, after |-> 0,
                 found |-> {}, atStart |-> start]
<1>1. Listing(from, to, wanted) = l
      BY DEF Listing
<1>2. start \subseteq DataFiles
      BY DEF Covers, DataFiles
<1>3. DataFiles \subseteq Keys
      BY DataAreKeys
<1>4. \A path \in start : path.day \in from..to /\ Covers(l, path)
      BY DEF Covers
<1>5. (wanted = {} /\ Nothing # {}) \/ from > to => start = {}
      BY DEF Covers
<1> HIDE DEF start
<1>6. ASSUME NEW path \in start
      PROVE  \/ path.day > from
             \/ path.day = from /\ \E i \in DOMAIN KeyOrder : KeyOrder[i] = path /\ i > 0
  <2>1. path \in Keys /\ path.day \in Int /\ path.day >= from
        BY <1>2, <1>3, <1>4, StoreAssumption
  <2>2. \E i \in DOMAIN KeyOrder : KeyOrder[i] = path /\ i > 0
        BY <2>1, StoreAssumption, LenProperties DEF Keys, ToSet
  <2> QED BY <2>1, <2>2
<1>7. ListOK(l, DataFiles)
      BY <1>2, <1>4, <1>6 DEF ListOK
<1> QED BY <1>1, <1>5, <1>7

\* It goes on by a directory or a page.
LEMMA ListGoesOn ==
    ASSUME StoreInv, NEW l, ListOK(l, DataFiles)
    PROVE  /\ ListOK(NextPage(l), DataFiles)
           /\ NextPage(l).from = l.from /\ NextPage(l).to = l.to
           /\ NextPage(l).wanted = l.wanted /\ NextPage(l).atStart = l.atStart
<1> DEFINE rest == {i \in DOMAIN KeyOrder : /\ KeyOrder[i] \in DOMAIN Objects
                                            /\ KeyOrder[i].day = l.day /\ i > l.after}
           before(i) == {j \in rest : j < i}
           page == IF config.source = "local" THEN rest
                   ELSE {i \in rest : Cardinality(before(i)) < PageKeys}
           new == {path \in {KeyOrder[i] : i \in page} : Covers(l, path)}
           found == l.found \cup new
           day == IF page = rest THEN l.day + 1 ELSE l.day
           after == IF page = rest THEN 0 ELSE Max(page)
           r == [l EXCEPT !.found = found, !.day = day, !.after = after]
<1>1. NextPage(l) = r
      BY DEF NextPage
<1>2. /\ DOMAIN KeyOrder = 1..Len(KeyOrder) /\ Len(KeyOrder) \in Nat
      /\ \A i \in DOMAIN KeyOrder : KeyOrder[i] \in Keys
      BY StoreAssumption, LenProperties
<1>3. /\ l.from \in Int /\ l.to \in Int /\ l.day \in Int /\ l.after \in Nat
      /\ l.found \subseteq DataFiles /\ l.atStart \subseteq DataFiles
      BY DEF ListOK
<1>4. rest \subseteq Nat /\ rest \subseteq 1..Len(KeyOrder) /\ IsFiniteSet(rest)
  <2>1. IsFiniteSet(1..Len(KeyOrder))
        BY <1>2, FS_Interval
  <2>2. rest \in SUBSET (1..Len(KeyOrder)) /\ rest \subseteq Nat
        BY <1>2
  <2> HIDE DEF rest
  <2> QED BY <2>1, <2>2, FS_Subset
<1>5. \A path \in l.atStart : path \in Keys /\ path \in DOMAIN Objects /\ path.day \in Int
      BY <1>3, DataAreKeys, StoreAssumption
<1>6. page \subseteq rest
      OBVIOUS
<1>7. new \subseteq DataFiles /\ \A path \in new : Covers(l, path)
      BY <1>6 DEF Covers, DataFiles
<1>8. found \subseteq DataFiles /\ \A path \in found \cup l.atStart : Covers(l, path)
  <2> HIDE DEF new
  <2> QED BY <1>3, <1>7 DEF ListOK
<1>9. \A path \in l.atStart : path.day = l.day =>
         path \in l.found \/ \E i \in rest : KeyOrder[i] = path
  <2> SUFFICES ASSUME NEW path \in l.atStart, path.day = l.day, path \notin l.found
               PROVE  \E i \in rest : KeyOrder[i] = path
      OBVIOUS
  <2>1. PICK i \in DOMAIN KeyOrder : KeyOrder[i] = path /\ i > l.after
        BY <1>3, <1>5 DEF ListOK
  <2> QED BY <1>5, <2>1
<1>10. \A path \in l.atStart : \A i \in page : KeyOrder[i] = path => path \in found
  <2>1. \A path \in l.atStart : Covers(l, path)
        BY DEF ListOK
  <2>2. \A path \in l.atStart : \A i \in page : KeyOrder[i] = path => path \in new
        BY <2>1
  <2> HIDE DEF new
  <2> QED BY <2>2
<1>11. /\ day \in Int /\ after \in Nat
       /\ \A path \in l.atStart :
             \/ path \in found
             \/ path.day > day
             \/ path.day = day /\ \E i \in DOMAIN KeyOrder : KeyOrder[i] = path /\ i > after
  <2>1. CASE page = rest
    <3> HIDE DEF rest, page, new
    <3>1. day = l.day + 1 /\ after = 0
          BY <2>1
    <3> HIDE DEF day, after
    <3>2. ASSUME NEW path \in l.atStart, path \notin found, ~(path.day > day)
          PROVE  path.day = day /\ \E i \in DOMAIN KeyOrder : KeyOrder[i] = path /\ i > after
      <4>1. path.day = l.day \/ path.day > l.day
            BY <3>2 DEF ListOK
      <4>2. path.day # l.day
            BY <1>9, <1>10, <2>1, <3>2
      <4>3. path.day = day
            BY <1>3, <1>5, <3>1, <3>2, <4>1, <4>2
      <4>4. \E i \in 1..Len(KeyOrder) : KeyOrder[i] = path
            BY <1>2, <1>5 DEF Keys, ToSet
      <4> QED BY <1>2, <3>1, <4>3, <4>4
    <3> QED BY <1>3, <3>1, <3>2
  <2>2. CASE page # rest
    <3>1. page = {i \in rest : Cardinality(before(i)) < PageKeys}
          BY <2>2
    <3>2. \A i \in rest : before(i) \in SUBSET rest
          OBVIOUS
    <3>3. \A i, j \in rest : i < j => before(i) \in SUBSET before(j)
          BY <1>4
    <3>4. rest # {}
          BY <2>2
    <3>5. PICK least \in rest : \A j \in rest : least <= j
      <4> HIDE DEF rest
      <4> QED BY <1>4, <3>4, LeastElement
    <3>6. before(least) = {}
      <4>1. \A j \in rest : ~(j < least)
        <5> HIDE DEF rest
        <5> QED BY <1>4, <3>5
      <4> HIDE DEF rest
      <4> QED BY <4>1
    <3> DEFINE size(i) == Cardinality(before(i))
    <3>7. \A i \in rest : IsFiniteSet(before(i)) /\ size(i) \in Nat
      <4> HIDE DEF rest, before
      <4> QED BY <1>4, <3>2, FS_Subset, FS_CardinalityType
    <3>8. \A i, j \in rest : i < j => size(i) <= size(j)
      <4> HIDE DEF rest, before
      <4> QED BY <3>3, <3>7, FS_Subset
    <3>9. size(least) = 0
          BY <3>6, FS_EmptySet
    <3>10. page = {i \in rest : size(i) < PageKeys}
           BY <3>1
    <3> HIDE DEF rest, page, new, before, size
    <3>11. least \in page
           BY <3>5, <3>9, <3>10, StoreAssumption
    <3>12. page \in SUBSET rest /\ IsFiniteSet(page) /\ page \subseteq Int
      <4>1. page \in SUBSET rest /\ page \subseteq Int
            BY <1>4, <1>6
      <4> QED BY <1>4, <4>1, FS_Subset
    <3>13. Max(page) \in page /\ \A i \in page : i <= Max(page)
           BY <3>11, <3>12, Greatest
    <3>14. day = l.day /\ after = Max(page) /\ after \in rest /\ after \in Nat
           BY <1>4, <1>6, <2>2, <3>13
    <3>15. ASSUME NEW i \in rest, i \notin page PROVE i > after
      <4>1. ~(size(i) < PageKeys) /\ size(after) < PageKeys
            BY <3>10, <3>13, <3>14, <3>15
      <4>2. i # after
            BY <3>13, <3>14, <3>15
      <4>3. CASE i < after
        <5>1. size(i) <= size(after)
              BY <3>8, <3>14, <4>3
        <5> QED BY <3>7, <3>14, <4>1, <5>1, StoreAssumption
      <4> QED BY <1>4, <3>14, <4>2, <4>3
    <3> HIDE DEF day, after
    <3>16. ASSUME NEW path \in l.atStart, path \notin found, ~(path.day > day)
           PROVE  path.day = day /\ \E i \in DOMAIN KeyOrder : KeyOrder[i] = path /\ i > after
      <4>1. path.day = l.day
            BY <1>3, <1>5, <3>14, <3>16 DEF ListOK
      <4>2. PICK i \in rest : KeyOrder[i] = path
            BY <1>9, <3>16, <4>1
      <4>3. i \notin page
            BY <1>10, <3>16, <4>2
      <4>4. i > after
            BY <3>15, <4>2, <4>3
      <4> QED BY <1>2, <1>4, <3>14, <4>1, <4>2, <4>4
    <3> QED BY <1>3, <3>14, <3>16
  <2> QED BY <2>1, <2>2
<1> HIDE DEF rest, page, new, found, day, after
<1>12. /\ r.from = l.from /\ r.to = l.to /\ r.wanted = l.wanted /\ r.atStart = l.atStart
       /\ r.found = found /\ r.day = day /\ r.after = after
       /\ r \in [from : Int, to : Int, wanted : {l.wanted}, day : Int, after : Nat,
                 found : SUBSET DataFiles, atStart : SUBSET DataFiles]
       BY <1>3, <1>8, <1>11 DEF ListOK
<1> HIDE DEF r
<1>13. \A path \in r.found \cup r.atStart : Covers(r, path)
       BY <1>8, <1>12 DEF Covers
<1>14. ListOK(r, DataFiles)
       BY <1>11, <1>12, <1>13 DEF ListOK
<1> QED BY <1>1, <1>12, <1>14

-----------------------------------------------------------------------------
\* Loads

\* A table that was read, and a file that a load has read or is reading: its table, or Nothing
\* until it is there.
Tables  == Contents \ {Half, Corrupt}
Read    == [path : Keys, table : Tables]
Entries == [path : Keys, table : Tables \cup {Nothing}]

\* A load, of what a store holds of `files`: every file its listing found is waiting, being
\* read, read or failed, and no file is so twice.
LoadType(l) ==
    l \in [phase : {"idle", "listing", "reading", "done"}, list : {l.list}, todo : Seq(Keys),
           active : SUBSET Entries, loaded : SUBSET Read, failed : SUBSET Keys,
           hits : {l.hits}, error : {"none", "limit", "listing"}]

LoadParts(l) ==
    /\ \A i, j \in 1..Len(l.todo) : l.todo[i] = l.todo[j] => i = j
    /\ \A i \in 1..Len(l.todo), e \in l.active \cup l.loaded : e.path # l.todo[i]
    /\ \A e, f \in l.active \cup l.loaded : e.path = f.path => e = f
    /\ l.active \cap l.loaded = {}

LoadWhole(l) ==
    /\ l.list.found = {l.todo[i] : i \in 1..Len(l.todo)}
                      \cup Paths(l.active) \cup Paths(l.loaded) \cup l.failed
    /\ Listed(l.list) \/ l.list.atStart = {}

LoadOK(l, files) ==
    /\ LoadType(l) /\ LoadParts(l)
    /\ l.phase # "idle" => ListOK(l.list, files)
    /\ l.phase # "reading" => l.todo = <<>> /\ l.active = {}
    /\ l.phase \in {"idle", "listing"} \/ l.error # "none" => l.loaded = {} /\ l.failed = {}
    /\ l.phase \in {"listing", "reading"} => l.error = "none"
    /\ l.phase \in {"reading", "done"} /\ l.error = "none" => LoadWhole(l)

\* The cache: a file once, and no more of them than it has room for.
CacheOK(c, room) ==
    /\ c \in Seq(Read)
    /\ \A i, j \in 1..Len(c) : c[i].path = c[j].path => i = j
    /\ Len(c) <= room

ReaderInv == /\ load = [c \in Callers |-> load[c]]
             /\ \A c \in Callers : LoadOK(load[c], DataFiles)
             /\ CacheOK(cache, config.cacheFiles)

\* What the app and the page hold of days and periods.
Period(p) == p = Nothing \/ p \in Int \X Int

PageOK(s) == /\ DOMAIN s = {"symbols", "period", "interval", "chart", "gaps", "reload"}
             /\ Period(s.period)

ConsoleOK == /\ console \in [at : {"scan", "load defaults", "defaults", "prompt", "md_load"},
                             list : {console.list}]
             /\ console.list # Nothing => ListOK(console.list, DataFiles)
             /\ inventory \subseteq Keys
             /\ built # Nothing => IsFiniteSet(built.days) /\ built.days \subseteq Int

PageInv == /\ built # Nothing => PageOK(state)
           /\ shown # Nothing => built # Nothing
           /\ panels.load.key = <<>> \/ (/\ panels.load.value.loaded \subseteq Read
                                         /\ IsFiniteSet(panels.load.value.loaded))
           /\ \A b \in panels.daily.value : b.t \in Int

DeskInv == StoreInv /\ ReaderInv /\ ConsoleOK /\ PageInv

LEMMA LoadKeeps ==
    ASSUME NEW l, NEW files, NEW more, LoadOK(l, files), files \subseteq more
    PROVE  LoadOK(l, more)
BY ListKeeps DEF LoadOK

LEMMA NoLoadOK ==
    ASSUME NEW files
    PROVE  LoadOK(NoLoad, files)
<1> DEFINE none == <<>>
           idle == "idle"
           no == "none"
           l == [phase |-> idle, list |-> Nothing, todo |-> none, active |-> {}, loaded |-> {},
                 failed |-> {}, hits |-> 0, error |-> no]
<1>1. NoLoad = l
      BY DEF NoLoad
<1>2. none \in Seq(Keys) /\ Len(none) = 0
      BY EmptySeq
<1>3. LoadType(l)
  <2> HIDE DEF none
  <2> QED BY <1>2 DEF LoadType
<1>4. LoadParts(l)
  <2> HIDE DEF none
  <2> QED BY <1>2 DEF LoadParts
<1> QED BY <1>1, <1>3, <1>4 DEF LoadOK

\* One load goes on, and the others find the files they found.
LEMMA LoadsGoOn ==
    ASSUME StoreInv, ReaderInv, StoreGrows, NEW c \in Callers, NEW l,
           load' = [load EXCEPT ![c] = l], LoadOK(l, DataFiles), CacheOK(cache', config.cacheFiles)
    PROVE  ReaderInv'
<1>1. DataFiles \subseteq DataFiles'
      BY DataStay
<1>2. config' = config
      BY DEF StoreGrows
<1>3. \A d \in Callers : load'[d] = IF d = c THEN l ELSE load[d]
      BY DEF ReaderInv
<1>4. \A d \in Callers : LoadOK(load'[d], DataFiles)
      BY <1>3 DEF ReaderInv
<1>5. \A d \in Callers : LoadOK(load'[d], DataFiles')
      BY <1>1, <1>4, LoadKeeps
<1>6. load' = [d \in Callers |-> load'[d]]
      BY DEF ReaderInv
<1> QED BY <1>2, <1>5, <1>6 DEF ReaderInv

LEMMA LoadsStay ==
    ASSUME StoreInv, ReaderInv, StoreGrows, UNCHANGED <<load, cache>>
    PROVE  ReaderInv'
<1>1. DataFiles \subseteq DataFiles' /\ config' = config
      BY DataStay DEF StoreGrows
<1>2. \A d \in Callers : LoadOK(load'[d], DataFiles')
      BY <1>1, LoadKeeps DEF ReaderInv
<1> QED BY <1>1, <1>2 DEF ReaderInv

\* A listing that is done chooses what to read.
LEMMA ChosenOK ==
    ASSUME StoreInv, NEW l, LoadOK(l, DataFiles), l.phase = "listing", Listed(l.list)
    PROVE  LoadOK(Chosen(l), DataFiles)
<1> DEFINE found == l.list.found
           files == InOrder(found)
<1>1. /\ LoadType(l) /\ ListOK(l.list, DataFiles) /\ l.todo = <<>> /\ l.active = {}
      /\ l.loaded = {} /\ l.failed = {} /\ l.error = "none"
      BY DEF LoadOK
<1>2. found \subseteq Keys
      BY <1>1, DataAreKeys DEF ListOK
<1>3. CASE Cardinality(found) > config.maxFiles
  <2> DEFINE r == [l EXCEPT !.phase = "done", !.error = "limit"]
  <2>1. Chosen(l) = r
    <3>1. config.maxFiles \in Int /\ config.maxFiles >= 1
          BY StoreAssumption DEF StoreInv, StoreTypeOK, Accepted
    <3>2. found # {}
          BY <1>3, <3>1, FS_EmptySet
    <3> QED BY <1>3, <3>2 DEF Chosen
  <2>2. /\ LoadType(r) /\ r.phase = "done" /\ r.error = "limit" /\ r.list = l.list /\ r.todo = l.todo
        /\ r.active = {} /\ r.loaded = {} /\ r.failed = {}
        BY <1>1 DEF LoadType
  <2> HIDE DEF r
  <2>3. LoadParts(r)
        BY <1>1, <2>2 DEF LoadParts
  <2> QED BY <1>1, <2>1, <2>2, <2>3 DEF LoadOK
<1>4. CASE ~(Cardinality(found) > config.maxFiles) /\ found = {}
  <2> DEFINE r == [l EXCEPT !.phase = "done"]
  <2>1. Chosen(l) = r
        BY <1>4 DEF Chosen
  <2>2. /\ LoadType(r) /\ r.phase = "done" /\ r.error = "none" /\ r.list = l.list /\ r.todo = l.todo
        /\ r.active = {} /\ r.loaded = {} /\ r.failed = {}
        BY <1>1 DEF LoadType
  <2> HIDE DEF r
  <2>3. LoadParts(r)
        BY <1>1, <2>2 DEF LoadParts
  <2>4. {r.todo[i] : i \in 1..Len(r.todo)} = {} /\ Paths(r.active) = {} /\ Paths(r.loaded) = {}
        BY <1>1, <2>2, EmptySeq DEF Paths
  <2>5. LoadWhole(r)
        BY <1>4, <2>2, <2>4 DEF LoadWhole
  <2> QED BY <1>1, <2>1, <2>2, <2>3, <2>5 DEF LoadOK
<1>5. CASE ~(Cardinality(found) > config.maxFiles) /\ found # {}
  <2> DEFINE hits == Cardinality({path \in found : Cached(path)})
             r == [l EXCEPT !.phase = "reading", !.todo = files, !.hits = hits]
  <2>1. Chosen(l) = r
        BY <1>5 DEF Chosen
  <2>2. /\ files \in Seq(found) /\ Len(files) \in Nat
        /\ \A path \in found : \E i \in 1..Len(files) : files[i] = path
        /\ \A i, j \in 1..Len(files) : files[i] = files[j] => i = j
        /\ \A i \in 1..Len(files) : files[i] \in found
    <3> HIDE DEF found
    <3>1. /\ files \in Seq(found)
          /\ \A path \in found : \E i \in 1..Len(files) : files[i] = path
          /\ \A i, j \in 1..Len(files) : files[i] = files[j] => i = j
          BY <1>2, Ordered1
    <3> HIDE DEF files
    <3> QED BY <3>1, LenProperties
  <2> HIDE DEF files, hits
  <2>3. files \in Seq(Keys)
        BY <1>2, <2>2
  <2>4. /\ LoadType(r) /\ r.phase = "reading" /\ r.error = "none" /\ r.list = l.list
        /\ r.todo = files /\ r.active = {} /\ r.loaded = {} /\ r.failed = {}
        BY <1>1, <2>3 DEF LoadType
  <2> HIDE DEF r
  <2>5. LoadParts(r)
        BY <2>2, <2>4 DEF LoadParts
  <2>6. {r.todo[i] : i \in 1..Len(r.todo)} = found /\ Paths(r.active) = {} /\ Paths(r.loaded) = {}
    <3> HIDE DEF found
    <3>1. {files[i] : i \in 1..Len(files)} = found
          BY <2>2
    <3> QED BY <2>4, <3>1 DEF Paths
  <2>7. LoadWhole(r)
        BY <2>4, <2>6 DEF LoadWhole
  <2> QED BY <1>1, <2>1, <2>4, <2>5, <2>7 DEF LoadOK
<1> QED BY <1>3, <1>4, <1>5

\* Choosing what to read reads nothing.
LEMMA ChosenKeeps ==
    ASSUME NEW l, LoadType(l)
    PROVE  Chosen(l).active = l.active /\ Chosen(l).loaded = l.loaded
<1> DEFINE todo == InOrder(l.list.found)
           hits == Cardinality({path \in l.list.found : Cached(path)})
<1>1. \/ Chosen(l) = [l EXCEPT !.phase = "done", !.error = "limit"]
      \/ Chosen(l) = [l EXCEPT !.phase = "done"]
      \/ Chosen(l) = [l EXCEPT !.phase = "reading", !.todo = todo, !.hits = hits]
      BY DEF Chosen
<1> HIDE DEF todo, hits
<1> QED BY <1>1 DEF LoadType

LEMMA ListPageStep ==
    ASSUME StoreInv, ReaderInv, NEW c \in Callers, ListPage(c)
    PROVE  ReaderInv'
<1> DEFINE list == NextPage(load[c].list)
           l == [load[c] EXCEPT !.list = list]
<1>1. UNCHANGED <<cache, config, tree, bucket, job>> /\ load[c].phase = "listing"
      /\ load' = [load EXCEPT ![c] = IF Listed(l.list) THEN Chosen(l) ELSE l]
      BY DEF ListPage, storeVars
<1>2. LoadOK(load[c], DataFiles) /\ ListOK(load[c].list, DataFiles)
      BY <1>1 DEF ReaderInv, LoadOK
<1>3. ListOK(list, DataFiles)
      BY <1>2, ListGoesOn
<1> HIDE DEF list
<1>4. LoadOK(l, DataFiles) /\ l.phase = "listing"
  <2>1. /\ LoadType(l) /\ l.list = list /\ l.phase = "listing" /\ l.todo = load[c].todo
        /\ l.active = load[c].active /\ l.loaded = load[c].loaded /\ l.failed = load[c].failed
        /\ l.error = load[c].error
        BY <1>1, <1>2 DEF LoadOK, LoadType
  <2> HIDE DEF l
  <2>2. LoadParts(l)
        BY <1>2, <2>1 DEF LoadOK, LoadParts
  <2> QED BY <1>1, <1>2, <1>3, <2>1, <2>2 DEF LoadOK
<1> HIDE DEF l
<1> DEFINE next == IF Listed(l.list) THEN Chosen(l) ELSE l
<1>5. LoadOK(next, DataFiles)
      BY <1>4, ChosenOK
<1>6. load' = [load EXCEPT ![c] = next] /\ CacheOK(cache', config.cacheFiles)
      BY <1>1 DEF ReaderInv
<1> HIDE DEF next
<1>7. StoreGrows
      BY <1>1, QuietStep
<1> QED BY <1>5, <1>6, <1>7, LoadsGoOn

LEMMA ListFailsStep ==
    ASSUME StoreInv, ReaderInv, NEW c \in Callers, ListFails(c)
    PROVE  ReaderInv'
<1> DEFINE l == [load[c] EXCEPT !.phase = "done", !.error = "listing"]
<1>1. UNCHANGED <<cache, config, tree, bucket, job>> /\ load[c].phase = "listing"
      BY DEF ListFails
<1>2. LoadOK(load[c], DataFiles) /\ load = [d \in Callers |-> load[d]]
      BY DEF ReaderInv
<1>3. load' = [load EXCEPT ![c] = l]
      BY <1>2 DEF ListFails
<1>4. /\ LoadType(l) /\ l.list = load[c].list /\ l.phase = "done" /\ l.todo = load[c].todo
      /\ l.active = load[c].active /\ l.loaded = load[c].loaded /\ l.failed = load[c].failed
      /\ l.error = "listing"
      BY <1>1, <1>2 DEF LoadOK, LoadType
<1> HIDE DEF l
<1>5. LoadParts(l)
      BY <1>2, <1>4 DEF LoadOK, LoadParts
<1>6. LoadOK(l, DataFiles)
      BY <1>1, <1>2, <1>4, <1>5 DEF LoadOK
<1>7. StoreGrows /\ CacheOK(cache', config.cacheFiles)
      BY <1>1, QuietStep DEF ReaderInv
<1> QED BY <1>3, <1>6, <1>7, LoadsGoOn

-----------------------------------------------------------------------------
\* The cache

\* A sequence without its i-th element.
LEMMA Removed ==
    ASSUME NEW S, NEW s \in Seq(S), NEW i \in 1..Len(s)
    PROVE  /\ RemoveAt(s, i) \in Seq(S) /\ Len(RemoveAt(s, i)) = Len(s) - 1
           /\ \A k \in 1..Len(s) - 1 : RemoveAt(s, i)[k] = s[IF k < i THEN k ELSE k + 1]
<1> DEFINE n == Len(s)
           left == SubSeq(s, 1, i - 1)
           right == SubSeq(s, i + 1, n)
<1>1. n \in Nat /\ i \in Int /\ 1 <= i /\ i <= n /\ \A k \in 1..n : s[k] \in S
      BY LenProperties
<1>2. RemoveAt(s, i) = left \o right
      BY DEF RemoveAt
<1>3. /\ left \in Seq(S) /\ Len(left) = i - 1
      /\ \A k \in 1..i - 1 : left[k] = s[k]
  <2>1. \A k \in 1..i - 1 : s[k] \in S
        BY <1>1
  <2>2. /\ left \in Seq(S) /\ Len(left) = (IF 1 <= i - 1 THEN i - 1 - 1 + 1 ELSE 0)
        /\ \A k \in 1..(i - 1) - 1 + 1 : left[k] = s[1 + k - 1]
        BY <1>1, <2>1, SubSeqProperties
  <2> HIDE DEF left
  <2> QED BY <1>1, <2>2
<1>4. /\ right \in Seq(S) /\ Len(right) = n - i
      /\ \A k \in 1..n - i : right[k] = s[i + k]
  <2>1. \A k \in i + 1..n : s[k] \in S
        BY <1>1
  <2>2. i + 1 \in Int /\ n \in Int
        BY <1>1
  <2> HIDE DEF n
  <2>3. /\ right \in Seq(S) /\ Len(right) = (IF i + 1 <= n THEN n - (i + 1) + 1 ELSE 0)
        /\ \A k \in 1..n - (i + 1) + 1 : right[k] = s[(i + 1) + k - 1]
        BY <2>1, <2>2, SubSeqProperties
  <2> HIDE DEF right
  <2>4. n - (i + 1) + 1 = n - i /\ \A k \in 1..n - i : (i + 1) + k - 1 = i + k
        BY <1>1
  <2> QED BY <1>1, <2>3, <2>4
<1> HIDE DEF left, right, n
<1>5. /\ left \o right \in Seq(S) /\ Len(left \o right) = Len(left) + Len(right)
      /\ \A k \in 1..Len(left) + Len(right) :
            (left \o right)[k] = IF k <= Len(left) THEN left[k] ELSE right[k - Len(left)]
      BY <1>3, <1>4, ConcatProperties
<1>6. Len(left) + Len(right) = n - 1
      BY <1>1, <1>3, <1>4
<1>7. ASSUME NEW k \in 1..n - 1
      PROVE  (left \o right)[k] = s[IF k < i THEN k ELSE k + 1]
  <2>1. CASE k < i
    <3>1. k \in 1..i - 1 /\ k <= Len(left)
          BY <1>1, <1>3, <2>1
    <3> QED BY <1>3, <1>5, <1>6, <2>1, <3>1
  <2>2. CASE ~(k < i)
    <3>1. k - Len(left) \in 1..n - i /\ ~(k <= Len(left)) /\ i + (k - Len(left)) = k + 1
          BY <1>1, <1>3, <2>2
    <3> QED BY <1>4, <1>5, <1>6, <2>2, <3>1
  <2> QED BY <2>1, <2>2
<1> QED BY <1>2, <1>5, <1>6, <1>7 DEF n

\* The cache without a path: no other table goes, and that path is not in it.
LEMMA ExceptIs ==
    ASSUME NEW room \in Int, CacheOK(cache, room), NEW path
    PROVE  /\ CacheOK(Except(path), room)
           /\ \A i \in 1..Len(Except(path)) :
                 Except(path)[i].path # path /\ \E j \in 1..Len(cache) : Except(path)[i] = cache[j]
           /\ Cached(path) => Len(Except(path)) = Len(cache) - 1
<1>1. cache \in Seq(Read) /\ Len(cache) \in Nat /\ DOMAIN cache = 1..Len(cache)
      BY LenProperties DEF CacheOK
<1>2. CASE ~Cached(path)
  <2>1. Except(path) = cache
        BY <1>2 DEF Except
  <2>2. \A i \in 1..Len(cache) : cache[i].path # path
        BY <1>1, <1>2 DEF Cached, ToSet
  <2> QED BY <1>2, <2>1, <2>2
<1>3. CASE Cached(path)
  <2> DEFINE at == CHOOSE i \in DOMAIN cache : cache[i].path = path
             r == RemoveAt(cache, at)
  <2>1. Except(path) = r
        BY <1>3 DEF Except
  <2>2. at \in 1..Len(cache) /\ cache[at].path = path
    <3>1. \E i \in DOMAIN cache : cache[i].path = path
          BY <1>3 DEF Cached, ToSet
    <3> QED BY <1>1, <3>1
  <2> HIDE DEF at
  <2>3. /\ r \in Seq(Read) /\ Len(r) = Len(cache) - 1
        /\ \A k \in 1..Len(cache) - 1 : r[k] = cache[IF k < at THEN k ELSE k + 1]
        BY <1>1, <2>2, Removed
  <2> HIDE DEF r
  <2> DEFINE was(k) == IF k < at THEN k ELSE k + 1
  <2>4. \A k \in 1..Len(r) : was(k) \in 1..Len(cache) /\ was(k) # at /\ r[k] = cache[was(k)]
        BY <1>1, <2>2, <2>3
  <2>5. \A k, m \in 1..Len(r) : was(k) = was(m) => k = m
        BY <1>1, <2>2, <2>3
  <2> HIDE DEF was
  <2>6. \A i, j \in 1..Len(cache) : cache[i].path = cache[j].path => i = j
        BY DEF CacheOK
  <2>7. \A k \in 1..Len(r) : r[k].path # path
        BY <2>2, <2>4, <2>6
  <2>8. \A k, m \in 1..Len(r) : r[k].path = r[m].path => k = m
        BY <2>4, <2>5, <2>6
  <2>9. Len(r) <= room
        BY <1>1, <2>3 DEF CacheOK
  <2>10. CacheOK(r, room)
         BY <2>3, <2>8, <2>9 DEF CacheOK
  <2> QED BY <2>1, <2>3, <2>4, <2>7, <2>10
<1> QED BY <1>2, <1>3

\* A table of a path goes to the end of a cache that holds none of it.
LEMMA Appended ==
    ASSUME NEW c \in Seq(Read), NEW e \in Read,
           \A i, j \in 1..Len(c) : c[i].path = c[j].path => i = j,
           \A i \in 1..Len(c) : c[i].path # e.path
    PROVE  CacheOK(Append(c, e), Len(c) + 1) /\ Len(Append(c, e)) = Len(c) + 1
           /\ \A i \in 1..Len(c) + 1 : Append(c, e)[i] = IF i = Len(c) + 1 THEN e ELSE c[i]
<1> DEFINE r == Append(c, e)
<1>1. /\ Len(c) \in Nat /\ r \in Seq(Read) /\ Len(r) = Len(c) + 1
      /\ \A i \in 1..Len(c) : r[i] = c[i]
      /\ r[Len(c) + 1] = e
      BY LenProperties, AppendProperties
<1> HIDE DEF r
<1>2. \A i \in 1..Len(c) + 1 : i \in 1..Len(c) \/ i = Len(c) + 1
      BY <1>1
<1>3. \A i \in 1..Len(c) + 1 : r[i] = IF i = Len(c) + 1 THEN e ELSE c[i]
      BY <1>1, <1>2
<1>4. \A i, j \in 1..Len(r) : r[i].path = r[j].path => i = j
  <2> SUFFICES ASSUME NEW i \in 1..Len(r), NEW j \in 1..Len(r), r[i].path = r[j].path PROVE i = j
      OBVIOUS
  <2>1. CASE i = Len(c) + 1 /\ j # Len(c) + 1
        BY <1>1, <1>2, <1>3, <2>1
  <2>2. CASE i # Len(c) + 1 /\ j = Len(c) + 1
        BY <1>1, <1>2, <1>3, <2>2
  <2>3. CASE i # Len(c) + 1 /\ j # Len(c) + 1
        BY <1>1, <1>2, <1>3, <2>3
  <2>4. CASE i = Len(c) + 1 /\ j = Len(c) + 1
        BY <2>4
  <2> QED BY <2>1, <2>2, <2>3, <2>4
<1>5. CacheOK(r, Len(c) + 1)
      BY <1>1, <1>4 DEF CacheOK
<1> QED BY <1>1, <1>3, <1>5 DEF r

\* A hit moves to the end.
LEMMA HitIs ==
    ASSUME NEW room \in Int, CacheOK(cache, room), NEW path, Cached(path), NEW e \in ToSet(cache),
           e.path = path
    PROVE  /\ CacheOK(Append(Except(path), e), room) /\ e \in Read
           /\ ToSet(Append(Except(path), e)) \subseteq ToSet(cache)
<1> DEFINE c == Except(path)
           r == Append(c, e)
<1>1. /\ CacheOK(c, room) /\ Len(c) = Len(cache) - 1
      /\ \A i \in 1..Len(c) : c[i].path # path /\ \E j \in 1..Len(cache) : c[i] = cache[j]
      BY ExceptIs
<1>2. cache \in Seq(Read) /\ Len(cache) \in Nat /\ Len(cache) <= room /\ DOMAIN cache = 1..Len(cache)
      BY LenProperties DEF CacheOK
<1>3. e \in Read
      BY <1>2, LenProperties DEF ToSet
<1> HIDE DEF c
<1>4. c \in Seq(Read) /\ \A i, j \in 1..Len(c) : c[i].path = c[j].path => i = j
      BY <1>1 DEF CacheOK
<1>5. \A i \in 1..Len(c) : c[i].path # e.path
      BY <1>1
<1>6. /\ CacheOK(r, Len(c) + 1) /\ Len(r) = Len(c) + 1
      /\ \A i \in 1..Len(c) + 1 : r[i] = IF i = Len(c) + 1 THEN e ELSE c[i]
      BY <1>3, <1>4, <1>5, Appended
<1> HIDE DEF r
<1>7. CacheOK(r, room)
      BY <1>1, <1>2, <1>6 DEF CacheOK
<1>8. r \in Seq(Read) /\ DOMAIN r = 1..Len(r)
      BY <1>6, LenProperties DEF CacheOK
<1>9. \A i \in 1..Len(r) : r[i] \in ToSet(cache)
  <2> SUFFICES ASSUME NEW i \in 1..Len(r) PROVE r[i] \in ToSet(cache)
      OBVIOUS
  <2>1. CASE i = Len(c) + 1
        BY <1>6, <2>1
  <2>2. CASE i # Len(c) + 1
    <3>1. i \in 1..Len(c) /\ r[i] = c[i]
          BY <1>1, <1>2, <1>6, <2>2
    <3> QED BY <1>1, <1>2, <3>1 DEF ToSet
  <2> QED BY <2>1, <2>2
<1>10. ToSet(r) \subseteq ToSet(cache)
       BY <1>8, <1>9 DEF ToSet
<1> QED BY <1>3, <1>7, <1>10 DEF r, c

\* What was read is kept, and the least recently used tables go.
LEMMA KeptIs ==
    ASSUME config.cacheFiles \in Nat, CacheOK(cache, config.cacheFiles), NEW e \in Read
    PROVE  /\ CacheOK(Kept(e), config.cacheFiles)
           /\ ToSet(Kept(e)) \subseteq ToSet(cache) \cup {e}
<1> DEFINE c == Except(e.path)
           all == Append(c, e)
           room == config.cacheFiles
           from == 1 + Len(all) - room
           last == SubSeq(all, from, Len(all))
<1>1. /\ CacheOK(c, room)
      /\ \A i \in 1..Len(c) : c[i].path # e.path /\ \E j \in 1..Len(cache) : c[i] = cache[j]
      BY ExceptIs
<1>2. cache \in Seq(Read) /\ DOMAIN cache = 1..Len(cache)
      BY LenProperties DEF CacheOK
<1>3. Kept(e) = IF Len(all) > room THEN last ELSE all
      BY DEF Kept
<1> HIDE DEF c
<1>4. /\ c \in Seq(Read) /\ \A i, j \in 1..Len(c) : c[i].path = c[j].path => i = j
      /\ Len(c) \in Nat
      BY <1>1, LenProperties DEF CacheOK
<1>5. /\ CacheOK(all, Len(c) + 1) /\ Len(all) = Len(c) + 1
      /\ \A i \in 1..Len(c) + 1 : all[i] = IF i = Len(c) + 1 THEN e ELSE c[i]
      BY <1>1, <1>4, Appended
<1> HIDE DEF all
<1>6. all \in Seq(Read) /\ DOMAIN all = 1..Len(all)
      BY <1>5, LenProperties DEF CacheOK
<1>7. \A i \in 1..Len(all) : all[i] \in ToSet(cache) \cup {e}
  <2> SUFFICES ASSUME NEW i \in 1..Len(all) PROVE all[i] \in ToSet(cache) \cup {e}
      OBVIOUS
  <2>1. CASE i = Len(c) + 1
        BY <1>5, <2>1
  <2>2. CASE i # Len(c) + 1
    <3>1. i \in 1..Len(c) /\ all[i] = c[i]
          BY <1>4, <1>5, <2>2
    <3> QED BY <1>1, <1>2, <3>1 DEF ToSet
  <2> QED BY <2>1, <2>2
<1>8. CASE ~(Len(all) > room)
  <2>1. CacheOK(all, room)
        BY <1>4, <1>5, <1>8 DEF CacheOK
  <2>2. ToSet(all) \subseteq ToSet(cache) \cup {e}
        BY <1>6, <1>7 DEF ToSet
  <2> QED BY <1>3, <1>8, <2>1, <2>2
<1>9. CASE Len(all) > room
  <2>1. /\ from \in Int /\ Len(all) \in Nat /\ from >= 1 /\ room \in Nat
        /\ Len(all) - from + 1 = room
        BY <1>4, <1>5, <1>9
  <2> HIDE DEF from
  <2>2. \A i \in from..Len(all) : all[i] \in Read
        BY <1>6, <2>1, LenProperties
  <2>3. /\ last \in Seq(Read) /\ Len(last) = IF from <= Len(all) THEN Len(all) - from + 1 ELSE 0
        /\ \A i \in 1..Len(all) - from + 1 : last[i] = all[from + i - 1]
        BY <2>1, <2>2, SubSeqProperties
  <2> HIDE DEF last, room
  <2>4. Len(last) = room /\ DOMAIN last = 1..Len(last)
        BY <2>1, <2>3, LenProperties
  <2>5. \A i \in 1..Len(last) : from + i - 1 \in 1..Len(all) /\ last[i] = all[from + i - 1]
        BY <2>1, <2>3, <2>4
  <2>6. \A i, j \in 1..Len(last) : last[i].path = last[j].path => i = j
    <3> SUFFICES ASSUME NEW i \in 1..Len(last), NEW j \in 1..Len(last), last[i].path = last[j].path
                 PROVE  i = j
        OBVIOUS
    <3>1. from + i - 1 = from + j - 1
          BY <1>5, <2>5 DEF CacheOK
    <3> QED BY <2>1, <2>4, <3>1
  <2>7. CacheOK(last, room)
        BY <2>1, <2>3, <2>4, <2>6 DEF CacheOK
  <2>8. ToSet(last) \subseteq ToSet(cache) \cup {e}
        BY <1>7, <2>4, <2>5 DEF ToSet
  <2> QED BY <1>3, <1>9, <2>7, <2>8 DEF room
<1> QED BY <1>8, <1>9

-----------------------------------------------------------------------------
\* The threads of a load

\* A load that is reading.
LEMMA Reading ==
    ASSUME NEW l, LoadOK(l, DataFiles), l.todo # <<>> \/ l.active # {} \/ l.phase = "reading"
    PROVE  /\ l.phase = "reading" /\ l.error = "none" /\ LoadWhole(l)
           /\ LoadType(l) /\ LoadParts(l) /\ ListOK(l.list, DataFiles)
BY DEF LoadOK

\* Its first file, and the others.
LEMMA FirstFile ==
    ASSUME NEW l, LoadType(l), LoadParts(l), l.todo # <<>>
    PROVE  /\ Tail(l.todo) \in Seq(Keys) /\ Head(l.todo) \in Keys
           /\ {l.todo[i] : i \in 1..Len(l.todo)} =
                 {Head(l.todo)} \cup {Tail(l.todo)[i] : i \in 1..Len(Tail(l.todo))}
           /\ \A i, j \in 1..Len(Tail(l.todo)) : Tail(l.todo)[i] = Tail(l.todo)[j] => i = j
           /\ \A i \in 1..Len(Tail(l.todo)) : Tail(l.todo)[i] # Head(l.todo)
           /\ \A i \in 1..Len(Tail(l.todo)), e \in l.active \cup l.loaded : e.path # Tail(l.todo)[i]
           /\ \A e \in l.active \cup l.loaded : e.path # Head(l.todo)
<1> DEFINE s == l.todo
           t == Tail(s)
<1>1. s \in Seq(Keys)
      BY DEF LoadType
<1>2. /\ Head(s) \in Keys /\ t \in Seq(Keys) /\ Len(t) = Len(s) - 1
      /\ \A i \in 1..Len(t) : t[i] = s[i + 1]
      BY <1>1, HeadTailProperties
<1>3. Len(s) \in Nat /\ Len(t) \in Nat /\ Head(s) = s[1]
      BY <1>1, <1>2, LenProperties
<1> HIDE DEF t
<1>4. \A i \in 1..Len(t) : i + 1 \in 1..Len(s) /\ i + 1 # 1
      BY <1>2, <1>3
<1>5. \A i \in 1..Len(s) : i = 1 \/ (i - 1 \in 1..Len(t) /\ (i - 1) + 1 = i)
      BY <1>2, <1>3
<1>6. 1 \in 1..Len(s)
      BY <1>2, <1>3
<1>7. \A i, j \in 1..Len(s) : s[i] = s[j] => i = j
      BY DEF LoadParts
<1>8. \A i \in 1..Len(s), e \in l.active \cup l.loaded : e.path # s[i]
      BY DEF LoadParts
<1> HIDE DEF s
<1>9. {s[i] : i \in 1..Len(s)} = {Head(s)} \cup {t[i] : i \in 1..Len(t)}
  <2>1. \A i \in 1..Len(s) : s[i] = Head(s) \/ \E j \in 1..Len(t) : s[i] = t[j]
        BY <1>2, <1>3, <1>5
  <2>2. \A j \in 1..Len(t) : \E i \in 1..Len(s) : t[j] = s[i]
        BY <1>2, <1>4
  <2> DEFINE whole == {s[i] : i \in 1..Len(s)}
             rest  == {t[i] : i \in 1..Len(t)}
  <2>3. \A x \in whole : x = Head(s) \/ x \in rest
        BY <2>1
  <2>4. \A x \in rest : x \in whole
        BY <2>2
  <2>5. Head(s) \in whole
        BY <1>3, <1>6
  <2> HIDE DEF whole, rest
  <2>6. whole = {Head(s)} \cup rest
        BY <2>3, <2>4, <2>5
  <2> QED BY <2>6 DEF whole, rest
<1>10. \A i, j \in 1..Len(t) : t[i] = t[j] => i = j
  <2> SUFFICES ASSUME NEW i \in 1..Len(t), NEW j \in 1..Len(t), t[i] = t[j] PROVE i = j
      OBVIOUS
  <2>1. i + 1 = j + 1
        BY <1>2, <1>4, <1>7
  <2> QED BY <1>3, <2>1
<1>11. \A i \in 1..Len(t) : t[i] # Head(s)
       BY <1>2, <1>3, <1>4, <1>6, <1>7
<1>12. \A i \in 1..Len(t), e \in l.active \cup l.loaded : e.path # t[i]
       BY <1>2, <1>4, <1>8
<1>13. \A e \in l.active \cup l.loaded : e.path # Head(s)
       BY <1>3, <1>6, <1>8
<1> QED BY <1>2, <1>9, <1>10, <1>11, <1>12, <1>13 DEF s, t

\* It is read, or found in the cache.
LEMMA TakenOK ==
    ASSUME NEW l, LoadOK(l, DataFiles), l.todo # <<>>, NEW e \in Entries, e.path = Head(l.todo),
           NEW r, \/ e \in Read /\ r = [l EXCEPT !.todo = Tail(@), !.loaded = @ \cup {e}]
                  \/ r = [l EXCEPT !.todo = Tail(@), !.active = @ \cup {e}]
    PROVE  LoadOK(r, DataFiles)
<1> DEFINE t == Tail(l.todo)
<1>1. /\ l.phase = "reading" /\ l.error = "none" /\ LoadWhole(l)
      /\ LoadType(l) /\ LoadParts(l) /\ ListOK(l.list, DataFiles)
      BY Reading
<1>2. /\ t \in Seq(Keys) /\ Head(l.todo) \in Keys
      /\ {l.todo[i] : i \in 1..Len(l.todo)} = {e.path} \cup {t[i] : i \in 1..Len(t)}
      /\ \A i, j \in 1..Len(t) : t[i] = t[j] => i = j
      /\ \A i \in 1..Len(t) : t[i] # e.path
      /\ \A i \in 1..Len(t), f \in l.active \cup l.loaded : f.path # t[i]
      /\ \A f \in l.active \cup l.loaded : f.path # e.path
      BY <1>1, FirstFile
<1> HIDE DEF t
<1>3. r = [l EXCEPT !.todo = t, !.loaded = r.loaded, !.active = r.active]
      /\ LoadType(r) /\ r.phase = l.phase /\ r.error = l.error /\ r.list = l.list /\ r.todo = t
      /\ r.failed = l.failed
      /\ r.active \cup r.loaded = l.active \cup l.loaded \cup {e}
      /\ r.active \cap r.loaded = {}
  <2>1. /\ l.active \cap l.loaded = {} /\ e \notin l.active /\ e \notin l.loaded
        BY <1>1, <1>2 DEF LoadParts
  <2>2. l.active \in SUBSET Entries /\ l.loaded \in SUBSET Read
        BY <1>1 DEF LoadType
  <2>3. CASE e \in Read /\ r = [l EXCEPT !.todo = t, !.loaded = @ \cup {e}]
    <3>1. /\ r.todo = t /\ r.loaded = l.loaded \cup {e} /\ r.active = l.active
          /\ r.phase = l.phase /\ r.error = l.error /\ r.list = l.list /\ r.failed = l.failed
          BY <1>1, <2>3 DEF LoadType
    <3>2. r = [l EXCEPT !.todo = t, !.loaded = r.loaded, !.active = r.active]
          BY <1>1, <2>3, <3>1 DEF LoadType
    <3>3. LoadType(r)
          BY <1>1, <1>2, <2>3, <3>1 DEF LoadType
    <3>4. /\ r.active \cup r.loaded = l.active \cup l.loaded \cup {e}
          /\ r.active \cap r.loaded = {}
          BY <2>1, <3>1
    <3> QED BY <3>1, <3>2, <3>3, <3>4
  <2>4. CASE r = [l EXCEPT !.todo = t, !.active = @ \cup {e}]
    <3>1. /\ r.todo = t /\ r.active = l.active \cup {e} /\ r.loaded = l.loaded
          /\ r.phase = l.phase /\ r.error = l.error /\ r.list = l.list /\ r.failed = l.failed
          BY <1>1, <2>4 DEF LoadType
    <3>2. r = [l EXCEPT !.todo = t, !.loaded = r.loaded, !.active = r.active]
          BY <1>1, <2>4, <3>1 DEF LoadType
    <3>3. LoadType(r)
          BY <1>1, <1>2, <2>4, <3>1 DEF LoadType
    <3>4. /\ r.active \cup r.loaded = l.active \cup l.loaded \cup {e}
          /\ r.active \cap r.loaded = {}
          BY <2>1, <3>1
    <3> QED BY <3>1, <3>2, <3>3, <3>4
  <2> QED BY <2>3, <2>4 DEF t
<1>4. LoadParts(r)
  <2>1. \A i \in 1..Len(t), f \in l.active \cup l.loaded \cup {e} : f.path # t[i]
        BY <1>2
  <2>2. \A f, g \in l.active \cup l.loaded \cup {e} : f.path = g.path => f = g
        BY <1>1, <1>2 DEF LoadParts
  <2> QED BY <1>2, <1>3, <2>1, <2>2 DEF LoadParts
<1>5. Paths(r.active) \cup Paths(r.loaded) = Paths(l.active) \cup Paths(l.loaded) \cup {e.path}
      BY <1>3 DEF Paths
<1>6. LoadWhole(r)
  <2>1. {r.todo[i] : i \in 1..Len(r.todo)} = {t[i] : i \in 1..Len(t)}
        BY <1>3
  <2>2. /\ l.list.found = {l.todo[i] : i \in 1..Len(l.todo)}
                          \cup Paths(l.active) \cup Paths(l.loaded) \cup l.failed
        /\ Listed(l.list) \/ l.list.atStart = {}
        BY <1>1 DEF LoadWhole
  <2> DEFINE all == {r.todo[i] : i \in 1..Len(r.todo)}
             some == {l.todo[i] : i \in 1..Len(l.todo)}
             rest == {t[i] : i \in 1..Len(t)}
  <2>3. all = rest /\ some = {e.path} \cup rest
        BY <1>2, <2>1
  <2> HIDE DEF all, some, rest
  <2>4. l.list.found = some \cup Paths(l.active) \cup Paths(l.loaded) \cup l.failed
        BY <2>2 DEF some
  <2>5. r.list.found = all \cup Paths(r.active) \cup Paths(r.loaded) \cup r.failed
        BY <1>3, <1>5, <2>3, <2>4
  <2> QED BY <1>3, <2>2, <2>5 DEF LoadWhole, all
<1> QED BY <1>1, <1>3, <1>4, <1>6 DEF LoadOK

LEMMA TakeUpStep ==
    ASSUME StoreInv, ReaderInv, NEW c \in Callers, TakeUp(c)
    PROVE  ReaderInv'
<1> DEFINE l == load[c]
           path == Head(l.todo)
           hit == CHOOSE e \in ToSet(cache) : e.path = path
           new == [path |-> path, table |-> Nothing]
<1>1. UNCHANGED <<config, tree, bucket, job>> /\ l.todo # <<>>
      BY DEF TakeUp, storeVars
<1>2. /\ LoadOK(l, DataFiles) /\ load = [d \in Callers |-> load[d]]
      /\ CacheOK(cache, config.cacheFiles) /\ config' = config /\ config.cacheFiles \in Int
      BY <1>1, StoreAssumption DEF ReaderInv, StoreInv, StoreTypeOK
<1>3. StoreGrows
      BY <1>1, QuietStep
<1>4. path \in Keys
      BY <1>1, <1>2, Reading, FirstFile
<1>5. CASE Cached(path)
  <2> DEFINE r == [l EXCEPT !.todo = Tail(@), !.loaded = @ \cup {hit}]
  <2>1. cache' = Append(Except(path), hit) /\ load' = [load EXCEPT ![c] = r]
        BY <1>2, <1>5 DEF TakeUp
  <2>2. hit \in ToSet(cache) /\ hit.path = path
        BY <1>5 DEF Cached
  <2> HIDE DEF hit
  <2>3. CacheOK(cache', config.cacheFiles) /\ hit \in Read
        BY <1>2, <1>5, <2>1, <2>2, HitIs
  <2>4. hit \in Entries
        BY <2>3 DEF Read, Entries
  <2>5. LoadOK(r, DataFiles)
        BY <1>1, <1>2, <2>2, <2>3, <2>4, TakenOK
  <2> HIDE DEF r
  <2> QED BY <1>3, <2>1, <2>3, <2>5, LoadsGoOn
<1>6. CASE ~Cached(path)
  <2> DEFINE r == [l EXCEPT !.todo = Tail(@), !.active = @ \cup {new}]
  <2>1. cache' = cache /\ load' = [load EXCEPT ![c] = r]
        BY <1>2, <1>6 DEF TakeUp
  <2>2. new \in Entries /\ new.path = path
        BY <1>4 DEF Entries
  <2> HIDE DEF new
  <2>3. LoadOK(r, DataFiles)
        BY <1>1, <1>2, <2>2, TakenOK
  <2> HIDE DEF r
  <2> QED BY <1>2, <1>3, <2>1, <2>3, LoadsGoOn
<1> QED BY <1>5, <1>6

\* A file that is being read is read, or not.
LEMMA ReadOK ==
    ASSUME NEW l, LoadOK(l, DataFiles), NEW e \in l.active, NEW r,
           \/ r = [l EXCEPT !.active = @ \ {e}, !.failed = @ \cup {e.path}]
           \/ e \in Read /\ r = [l EXCEPT !.active = @ \ {e}, !.loaded = @ \cup {e}]
           \/ \E f \in Entries : f.path = e.path /\ r = [l EXCEPT !.active = (@ \ {e}) \cup {f}]
    PROVE  LoadOK(r, DataFiles)
<1>1. /\ l.phase = "reading" /\ l.error = "none" /\ LoadWhole(l)
      /\ LoadType(l) /\ LoadParts(l) /\ ListOK(l.list, DataFiles)
      BY Reading
<1>2. e \in Entries /\ e.path \in Keys
      BY <1>1 DEF LoadType, Entries
<1>3. /\ LoadType(r) /\ r.phase = l.phase /\ r.error = l.error /\ r.list = l.list /\ r.todo = l.todo
      /\ \A f \in r.active \cup r.loaded : \E g \in l.active \cup l.loaded : f.path = g.path
      /\ \A f, g \in r.active \cup r.loaded : f.path = g.path => f = g
      /\ r.active \cap r.loaded = {}
      /\ Paths(r.active) \cup Paths(r.loaded) \cup r.failed
            = Paths(l.active) \cup Paths(l.loaded) \cup l.failed
  <2>1. CASE r = [l EXCEPT !.active = @ \ {e}, !.failed = @ \cup {e.path}]
    <3>1. /\ LoadType(r) /\ r.phase = l.phase /\ r.error = l.error /\ r.list = l.list
          /\ r.todo = l.todo /\ r.active = l.active \ {e} /\ r.loaded = l.loaded
          /\ r.failed = l.failed \cup {e.path}
          BY <1>1, <1>2, <2>1 DEF LoadType
    <3>2. Paths(l.active) = Paths(r.active) \cup {e.path}
          BY <3>1 DEF Paths
    <3> QED BY <1>1, <3>1, <3>2 DEF LoadParts
  <2>2. CASE e \in Read /\ r = [l EXCEPT !.active = @ \ {e}, !.loaded = @ \cup {e}]
    <3>1. /\ LoadType(r) /\ r.phase = l.phase /\ r.error = l.error /\ r.list = l.list
          /\ r.todo = l.todo /\ r.active = l.active \ {e} /\ r.loaded = l.loaded \cup {e}
          /\ r.failed = l.failed
          BY <1>1, <1>2, <2>2 DEF LoadType
    <3>2. /\ Paths(l.active) = Paths(r.active) \cup {e.path}
          /\ Paths(r.loaded) = Paths(l.loaded) \cup {e.path}
          BY <3>1 DEF Paths
    <3>3. r.active \cup r.loaded = l.active \cup l.loaded
          BY <3>1
    <3>4. \A f, g \in r.active \cup r.loaded : f.path = g.path => f = g
          BY <1>1, <3>3 DEF LoadParts
    <3>5. r.active \cap r.loaded = {}
          BY <1>1, <3>1 DEF LoadParts
    <3> QED BY <3>1, <3>2, <3>3, <3>4, <3>5
  <2>3. ASSUME NEW f \in Entries, f.path = e.path, r = [l EXCEPT !.active = (@ \ {e}) \cup {f}]
        PROVE  /\ LoadType(r) /\ r.phase = l.phase /\ r.error = l.error /\ r.list = l.list
               /\ r.todo = l.todo
               /\ \A g \in r.active \cup r.loaded : \E h \in l.active \cup l.loaded : g.path = h.path
               /\ \A g, h \in r.active \cup r.loaded : g.path = h.path => g = h
               /\ r.active \cap r.loaded = {}
               /\ Paths(r.active) \cup Paths(r.loaded) \cup r.failed
                     = Paths(l.active) \cup Paths(l.loaded) \cup l.failed
    <3>1. /\ LoadType(r) /\ r.phase = l.phase /\ r.error = l.error /\ r.list = l.list
          /\ r.todo = l.todo /\ r.active = (l.active \ {e}) \cup {f} /\ r.loaded = l.loaded
          /\ r.failed = l.failed
          BY <1>1, <1>2, <2>3 DEF LoadType
    <3>2. Paths(l.active) = Paths(r.active)
          BY <2>3, <3>1 DEF Paths
    <3>3. \A g \in l.active \cup l.loaded : g.path = e.path => g = e
          BY <1>1 DEF LoadParts
    <3>4. \A g \in r.active \cup r.loaded : g = f \/ (g \in l.active \cup l.loaded /\ g # e)
          BY <1>1, <3>1 DEF LoadParts
    <3>6. r.active \cap r.loaded = {}
          BY <1>1, <2>3, <3>1, <3>3 DEF LoadParts
    <3>5. \A g, h \in r.active \cup r.loaded : g.path = h.path => g = h
          BY <1>1, <2>3, <3>1, <3>3, <3>4 DEF LoadParts
    <3> QED BY <2>3, <3>1, <3>2, <3>4, <3>5, <3>6
  <2> QED BY <2>1, <2>2, <2>3
<1>4. LoadParts(r)
      BY <1>1, <1>3 DEF LoadParts
<1>5. LoadWhole(r)
      BY <1>1, <1>3 DEF LoadWhole
<1> QED BY <1>1, <1>3, <1>4, <1>5 DEF LoadOK

LEMMA OpenStep ==
    ASSUME StoreInv, ReaderInv, NEW c \in Callers, NEW e \in load[c].active, Open(c, e)
    PROVE  ReaderInv'
<1> DEFINE l == load[c]
           failed == [l EXCEPT !.active = @ \ {e}, !.failed = @ \cup {e.path}]
           f == [e EXCEPT !.table = Objects[e.path]]
           read == [l EXCEPT !.active = (@ \ {e}) \cup {f}]
<1>1. UNCHANGED <<cache, config, tree, bucket, job>>
      BY DEF Open
<1>2. /\ LoadOK(l, DataFiles) /\ load = [d \in Callers |-> load[d]]
      /\ CacheOK(cache', config.cacheFiles) /\ StoreGrows
      BY <1>1, QuietStep DEF ReaderInv
<1>3. \/ load' = [load EXCEPT ![c] = failed]
      \/ Objects[e.path] \notin {Half, Corrupt} /\ load' = [load EXCEPT ![c] = read]
      BY <1>2 DEF Open, Fail
<1>4. CASE load' = [load EXCEPT ![c] = failed]
  <2>1. LoadOK(failed, DataFiles)
        BY <1>2, ReadOK
  <2> HIDE DEF failed
  <2> QED BY <1>2, <1>4, <2>1, LoadsGoOn
<1>5. CASE Objects[e.path] \notin {Half, Corrupt} /\ load' = [load EXCEPT ![c] = read]
  <2>1. e.path \in DataFiles /\ e \in Entries
    <3>1. LoadWhole(l) /\ LoadType(l) /\ ListOK(l.list, DataFiles)
          BY <1>2, Reading
    <3>2. e.path \in l.list.found
          BY <3>1 DEF LoadWhole, Paths
    <3> QED BY <3>1, <3>2 DEF ListOK, LoadType
  <2>2. Objects[e.path] \in Tables
        BY <1>5, <2>1, DataAreKeys DEF Tables
  <2>3. f \in Entries /\ f.path = e.path
        BY <2>1, <2>2 DEF Entries
  <2> HIDE DEF f
  <2>4. LoadOK(read, DataFiles)
        BY <1>2, <2>3, ReadOK
  <2> HIDE DEF read
  <2> QED BY <1>2, <1>5, <2>4, LoadsGoOn
<1> QED BY <1>3, <1>4, <1>5

LEMMA KeepStep ==
    ASSUME StoreInv, ReaderInv, NEW c \in Callers, NEW e \in load[c].active, Keep(c, e)
    PROVE  ReaderInv'
<1> DEFINE l == load[c]
           kept == [l EXCEPT !.active = @ \ {e}, !.loaded = @ \cup {e}]
<1>1. /\ UNCHANGED <<config, tree, bucket, job>> /\ cache' = Kept(e) /\ e.table # Nothing
      BY DEF Keep, storeVars
<1>2. /\ LoadOK(l, DataFiles) /\ load = [d \in Callers |-> load[d]]
      /\ CacheOK(cache, config.cacheFiles) /\ StoreGrows /\ config.cacheFiles \in Nat
  <2>1. config.cacheFiles \in Int /\ config.cacheFiles >= 0
        BY StoreAssumption DEF StoreInv, StoreTypeOK, Accepted
  <2> QED BY <1>1, <2>1, QuietStep DEF ReaderInv
<1>3. load' = [load EXCEPT ![c] = kept]
      BY <1>2 DEF Keep
<1>4. e \in Read
  <2>1. e \in Entries
        BY <1>2, Reading DEF LoadType
  <2> QED BY <1>1, <2>1 DEF Read, Entries
<1>5. CacheOK(cache', config.cacheFiles)
      BY <1>1, <1>2, <1>4, KeptIs
<1>6. LoadOK(kept, DataFiles)
      BY <1>2, <1>4, ReadOK
<1> HIDE DEF kept
<1> QED BY <1>2, <1>3, <1>5, <1>6, LoadsGoOn

LEMMA MergeStep ==
    ASSUME StoreInv, ReaderInv, NEW c \in Callers, Merge(c)
    PROVE  ReaderInv'
<1> DEFINE l == load[c]
           r == [l EXCEPT !.phase = "done"]
<1>1. /\ UNCHANGED <<cache, config, tree, bucket, job>> /\ l.phase = "reading" /\ l.todo = <<>>
      /\ l.active = {}
      BY DEF Merge, storeVars
<1>2. /\ LoadOK(l, DataFiles) /\ load = [d \in Callers |-> load[d]]
      /\ CacheOK(cache', config.cacheFiles) /\ StoreGrows
      BY <1>1, QuietStep DEF ReaderInv
<1>3. load' = [load EXCEPT ![c] = r]
      BY <1>2 DEF Merge
<1>4. /\ LoadWhole(l) /\ LoadType(l) /\ LoadParts(l) /\ ListOK(l.list, DataFiles) /\ l.error = "none"
      BY <1>1, <1>2, Reading
<1>5. /\ LoadType(r) /\ r.phase = "done" /\ r.error = l.error /\ r.list = l.list /\ r.todo = l.todo
      /\ r.active = l.active /\ r.loaded = l.loaded /\ r.failed = l.failed
      BY <1>4 DEF LoadType
<1> HIDE DEF r
<1>6. LoadParts(r) /\ LoadWhole(r)
      BY <1>4, <1>5 DEF LoadParts, LoadWhole
<1>7. LoadOK(r, DataFiles)
      BY <1>1, <1>4, <1>5, <1>6 DEF LoadOK
<1> QED BY <1>2, <1>3, <1>7, LoadsGoOn

LEMMA WorkStep ==
    ASSUME StoreInv, ReaderInv, NEW c \in Callers, Work(c)
    PROVE  ReaderInv'
BY ListPageStep, ListFailsStep, TakeUpStep, OpenStep, KeepStep, MergeStep DEF Work

\* A finished load holds a table per file, and finitely many.
LEMMA LoadedFinite ==
    ASSUME NEW l, NEW files, LoadOK(l, files)
    PROVE  /\ l.loaded \subseteq Read /\ IsFiniteSet(l.loaded)
           /\ Cardinality(Paths(l.loaded)) = Cardinality(l.loaded)
<1> DEFINE f == [e \in l.loaded |-> e.path]
<1>1. l.loaded \subseteq Read /\ \A e, g \in l.loaded : e.path = g.path => e = g
      BY DEF LoadOK, LoadType, LoadParts
<1>2. f \in Injection(l.loaded, Paths(l.loaded)) /\ f \in Surjection(l.loaded, Paths(l.loaded))
      BY <1>1 DEF Injection, Surjection, IsInjective, Paths
<1> HIDE DEF f
<1>3. Paths(l.loaded) \in SUBSET Keys
      BY <1>1 DEF Paths, Read
<1>4. IsFiniteSet(l.loaded)
      BY <1>2, <1>3, KeysFinite, FS_Injection
<1>5. Cardinality(Paths(l.loaded)) = Cardinality(l.loaded)
      BY <1>2, <1>4, FS_Surjection
<1> QED BY <1>1, <1>4, <1>5

\* A load that reports no error is whole; one that does names every file it holds no table of.
LEMMA DoneIsWhole ==
    ASSUME StoreInv, ReaderInv
    PROVE  OkIsWhole
<1> SUFFICES ASSUME NEW c \in Callers, load[c].phase = "done"
             PROVE  LET l == load[c]
                        r == Result(l)
                    IN  /\ r.ok => l.list.atStart \subseteq Paths(r.rows)
                        /\ r.error = "none" => Paths(r.rows) \cup r.failed = r.files
                        /\ Cardinality(Paths(r.rows)) = Cardinality(r.rows)
                        /\ \A s \in r.missing : \A path \in Paths(r.rows) : Symbol(path) # s
    BY Zenon DEF OkIsWhole
<1> DEFINE l == load[c]
<1>1. LoadOK(l, DataFiles)
      BY DEF ReaderInv
<1>2. ListOK(l.list, DataFiles) /\ DataFiles \in SUBSET Keys /\ l.todo = <<>> /\ l.active = {}
      BY <1>1, DataAreKeys DEF LoadOK
<1>3. Cardinality(Paths(l.loaded)) = Cardinality(l.loaded)
      BY <1>1, LoadedFinite
<1>4. l.error = "none" =>
         /\ l.list.found = Paths(l.loaded) \cup l.failed
         /\ l.list.atStart \subseteq l.list.found
  <2> SUFFICES ASSUME l.error = "none" PROVE  /\ l.list.found = Paths(l.loaded) \cup l.failed
                                            /\ l.list.atStart \subseteq l.list.found
      OBVIOUS
  <2>1. LoadWhole(l)
        BY <1>1 DEF LoadOK
  <2>2. {l.todo[i] : i \in 1..Len(l.todo)} = {} /\ Paths(l.active) = {}
        BY <1>2, EmptySeq DEF Paths
  <2>3. Listed(l.list) => l.list.atStart \subseteq l.list.found
        BY <1>2, ListWhole
  <2> QED BY <2>1, <2>2, <2>3 DEF LoadWhole
<1>5. l.error # "none" => Paths(l.loaded) = {}
      BY <1>1 DEF LoadOK, Paths
<1> DEFINE r == Result(l)
<1>6. /\ r.rows = l.loaded /\ r.failed = l.failed /\ r.error = l.error
      /\ r.files = IF l.error # "none" THEN {} ELSE l.list.found
      /\ r.ok <=> l.error = "none" /\ l.failed = {}
      /\ \A s \in r.missing : \A path \in l.list.found : Symbol(path) # s
      BY DEF Result
<1> HIDE DEF r, l
<1>7. /\ r.ok => l.list.atStart \subseteq Paths(r.rows)
      /\ r.error = "none" => Paths(r.rows) \cup r.failed = r.files
      /\ Cardinality(Paths(r.rows)) = Cardinality(r.rows)
      /\ \A s \in r.missing : \A path \in Paths(r.rows) : Symbol(path) # s
      BY <1>3, <1>4, <1>5, <1>6
<1> QED BY <1>7 DEF r, l

-----------------------------------------------------------------------------
\* Loads begin

LEMMA PairBounds ==
    ASSUME NEW a \in Int, NEW b \in Int
    PROVE  Min({a, b}) \in Int /\ Max({a, b}) \in Int
<1> DEFINE pair == {a, b}
<1>1. pair \subseteq Int /\ IsFiniteSet(pair) /\ pair # {}
      BY PairFinite
<1> HIDE DEF pair
<1>2. Min(pair) \in Int /\ Max(pair) \in Int
      BY <1>1, Smallest, Greatest
<1> QED BY <1>2 DEF pair

LEMMA BeginsOK ==
    ASSUME StoreInv, NEW list, ListOK(list, DataFiles), list.found = {},
           NEW phase \in {"listing", "done"}, phase = "done" => list.atStart = {}
    PROVE  LoadOK([NoLoad EXCEPT !.phase = phase, !.list = list], DataFiles)
<1> DEFINE r == [NoLoad EXCEPT !.phase = phase, !.list = list]
<1>1. LoadOK(NoLoad, DataFiles) /\ NoLoad.phase = "idle" /\ NoLoad.error = "none"
      BY NoLoadOK DEF NoLoad
<1>2. /\ LoadType(NoLoad) /\ LoadParts(NoLoad) /\ NoLoad.todo = <<>> /\ NoLoad.active = {}
      /\ NoLoad.loaded = {} /\ NoLoad.failed = {}
      BY <1>1 DEF LoadOK
<1>3. /\ LoadType(r) /\ r.phase = phase /\ r.error = "none" /\ r.list = list /\ r.todo = <<>>
      /\ r.active = {} /\ r.loaded = {} /\ r.failed = {}
      BY <1>1, <1>2 DEF LoadType
<1> HIDE DEF r
<1>4. LoadParts(r)
      BY <1>2, <1>3 DEF LoadParts
<1>5. {r.todo[i] : i \in 1..Len(r.todo)} = {} /\ Paths(r.active) = {} /\ Paths(r.loaded) = {}
      BY <1>3, EmptySeq DEF Paths
<1>6. phase = "done" => LoadWhole(r)
      BY <1>3, <1>5 DEF LoadWhole
<1> QED BY <1>3, <1>4, <1>6 DEF LoadOK, r

LEMMA RequestedOK ==
    ASSUME StoreInv, NEW from \in Int, NEW to \in Int, NEW wanted
    PROVE  LoadOK(Requested(from, to, wanted), DataFiles)
<1> DEFINE a == Min({from, to})
           b == Max({from, to})
           list == Listing(a, b, wanted)
           phase == IF wanted = {} THEN "done" ELSE "listing"
<1>1. Requested(from, to, wanted) = [NoLoad EXCEPT !.phase = phase, !.list = list]
      BY DEF Requested
<1>2. a \in Int /\ b \in Int
      BY PairBounds
<1> HIDE DEF a, b
<1>3. ListOK(list, DataFiles) /\ list.found = {} /\ (wanted = {} => list.atStart = {})
      BY <1>2, ListBegins, StoreAssumption
<1> HIDE DEF list
<1>4. phase \in {"listing", "done"} /\ (phase = "done" => wanted = {})
      OBVIOUS
<1> HIDE DEF phase
<1> QED BY <1>1, <1>3, <1>4, BeginsOK

LEMMA EmptyResultOK ==
    ASSUME StoreInv
    PROVE  LoadOK([NoLoad EXCEPT !.phase = "done", !.list = Listing(1, 0, {})], DataFiles)
<1> DEFINE none == {}
           one == 1
           zero == 0
           list == Listing(one, zero, none)
           phase == "done"
<1>1. one \in Int /\ zero \in Int /\ one > zero
      OBVIOUS
<1> HIDE DEF none, one, zero
<1>2. ListOK(list, DataFiles) /\ list.found = {} /\ list.atStart = {}
      BY <1>1, ListBegins
<1>3. phase \in {"listing", "done"}
      OBVIOUS
<1> HIDE DEF list, phase
<1>4. LoadOK([NoLoad EXCEPT !.phase = phase, !.list = list], DataFiles)
      BY <1>2, <1>3, BeginsOK
<1> QED BY <1>4 DEF phase, list, one, zero, none

\* The last available days are days.
LEMMA PresetRangeOK ==
    ASSUME NEW days, days \subseteq Int, IsFiniteSet(days), NEW count \in Int
    PROVE  /\ Period(PresetRange(days, count))
           /\ days # {} => PresetRange(days, count) \in Int \X Int
<1> DEFINE since_(d) == {x \in days : x >= d}
           enough == {d \in days : Cardinality(since_(d)) >= count}
<1>1. CASE days = {}
      BY <1>1 DEF PresetRange, Period
<1>2. CASE days # {} /\ (count = 0 \/ count >= Cardinality(days))
  <2>1. Min(days) \in Int /\ Max(days) \in Int
        BY <1>2, Smallest, Greatest
  <2>2. PresetRange(days, count) = <<Min(days), Max(days)>>
        BY <1>2 DEF PresetRange
  <2> QED BY <2>1, <2>2 DEF Period
<1>3. CASE days # {} /\ ~(count = 0 \/ count >= Cardinality(days))
  <2>1. Min(days) \in days /\ (\A y \in days : Min(days) <= y) /\ Max(days) \in Int
        BY <1>3, Smallest, Greatest
  <2>2. since_(Min(days)) = days
        BY <2>1
  <2>3. Cardinality(days) \in Nat
        BY FS_CardinalityType
  <2>4. enough \subseteq days
        OBVIOUS
  <2> HIDE DEF since_
  <2>5. Min(days) \in enough
        BY <1>3, <2>1, <2>2, <2>3
  <2>6. PresetRange(days, count) = <<Max(enough), Max(days)>>
        BY <1>3 DEF PresetRange, since_
  <2> HIDE DEF enough
  <2>7. IsFiniteSet(enough) /\ enough \subseteq Int /\ enough # {}
        BY <2>4, <2>5, FS_Subset
  <2>8. Max(enough) \in Int
        BY <2>7, Greatest
  <2> QED BY <2>1, <2>6, <2>8 DEF Period
<1> QED BY <1>1, <1>2, <1>3

-----------------------------------------------------------------------------
\* Bars

\* The image of a finite set under the times of its bars.
LEMMA TimesFinite ==
    ASSUME NEW S, IsFiniteSet(S), S # {}, \A x \in S : x.t \in Int
    PROVE  LET times == {x.t : x \in S}
           IN  IsFiniteSet(times) /\ times \subseteq Int /\ times # {}
<1> DEFINE times == {x.t : x \in S}
           f == [x \in S |-> x.t]
<1>1. f \in Surjection(S, times)
      BY DEF Surjection
<1> HIDE DEF f
<1>2. IsFiniteSet(times)
      BY <1>1, FS_Surjection
<1> QED BY <1>2

\* One bar over several: of the first and the last of them.
LEMMA RolledIs ==
    ASSUME NEW S, IsFiniteSet(S), S # {}, \A x \in S : x.t \in Int
    PROVE  \E first, last \in S :
              /\ \A x \in S : first.t <= x.t /\ x.t <= last.t
              /\ Rolled(S).symbol = first.symbol /\ Rolled(S).t = first.t
              /\ Rolled(S).open = first.open /\ Rolled(S).close = last.close
              /\ Rolled(S).high = Max({b.high : b \in S}) /\ Rolled(S).low = Min({b.low : b \in S})
<1> DEFINE times == {x.t : x \in S}
           first == CHOOSE b \in S : \A x \in S : b.t <= x.t
           last  == CHOOSE b \in S : \A x \in S : b.t >= x.t
<1>1. IsFiniteSet(times) /\ times \subseteq Int /\ times # {}
      BY TimesFinite
<1>2. /\ Min(times) \in times /\ \A y \in times : Min(times) <= y
      /\ Max(times) \in times /\ \A y \in times : y <= Max(times)
  <2> HIDE DEF times
  <2> QED BY <1>1, Smallest, Greatest
<1>3. PICK a \in S, b \in S : a.t = Min(times) /\ b.t = Max(times)
      BY <1>2
<1>4. \A x \in S : a.t <= x.t /\ b.t >= x.t
      BY <1>2, <1>3
<1>5. first \in S /\ \A x \in S : first.t <= x.t
      BY <1>4
<1>6. last \in S /\ \A x \in S : last.t >= x.t
      BY <1>4
<1>7. \A x \in S : x.t <= last.t
      BY <1>6
<1>8. /\ Rolled(S).symbol = first.symbol /\ Rolled(S).t = first.t
      /\ Rolled(S).open = first.open /\ Rolled(S).close = last.close
      /\ Rolled(S).high = Max({b_1.high : b_1 \in S}) /\ Rolled(S).low = Min({b_1.low : b_1 \in S})
      BY DEF Rolled
<1> QED BY <1>5, <1>6, <1>7, <1>8

\* The rows of a load.
LEMMA TableFinite ==
    ASSUME NEW loaded, loaded \subseteq Read, IsFiniteSet(loaded)
    PROVE  IsFiniteSet(TableOf(loaded)) /\ \A x \in TableOf(loaded) : x.t \in Int
<1> DEFINE f == [e \in loaded |-> BarsOf(e.path, e.table)]
           all == {BarsOf(e.path, e.table) : e \in loaded}
<1>1. f \in Surjection(loaded, all)
      BY DEF Surjection
<1>2. \A T \in all : IsFiniteSet(T) /\ \A x \in T : x.t \in Int
      BY DeskAssumption DEF Read, Tables
<1> HIDE DEF f, all
<1>3. IsFiniteSet(all)
      BY <1>1, FS_Surjection
<1>4. IsFiniteSet(UNION all) /\ \A x \in UNION all : x.t \in Int
      BY <1>2, <1>3, FS_UNION
<1> QED BY <1>4 DEF TableOf, all

\* Rows rolled up by a key begin at a time of theirs.
LEMMA GroupedTimes ==
    ASSUME NEW S, IsFiniteSet(S), \A x \in S : x.t \in Int, NEW key
    PROVE  \A g \in Grouped(S, key) : g.t \in Int
<1> SUFFICES ASSUME NEW g \in Grouped(S, key) PROVE g.t \in Int
    OBVIOUS
<1>1. PICK b \in S : g = Rolled({x \in S : key[x] = key[b]})
      BY DEF Grouped
<1> DEFINE T == {x \in S : key[x] = key[b]}
<1>2. T \in SUBSET S /\ b \in T /\ \A x \in T : x.t \in Int
      OBVIOUS
<1> HIDE DEF T
<1>3. IsFiniteSet(T) /\ T # {}
      BY <1>2, FS_Subset
<1>4. \E first \in T : Rolled(T).t = first.t
      BY <1>2, <1>3, RolledIs
<1> QED BY <1>1, <1>2, <1>4 DEF T

-----------------------------------------------------------------------------
\* The page and the console

LEMMA ConsoleStays ==
    ASSUME StoreInv, ConsoleOK, StoreGrows, UNCHANGED <<console, inventory, built>>
    PROVE  ConsoleOK'
<1>1. DataFiles \subseteq DataFiles'
      BY DataStay
<1>2. console.list # Nothing => ListOK(console.list, DataFiles')
      BY <1>1, ListKeeps DEF ConsoleOK
<1> QED BY <1>2 DEF ConsoleOK

LEMMA PageStays ==
    ASSUME PageInv, UNCHANGED <<built, state, shown, panels>>
    PROVE  PageInv'
BY DEF PageInv, PageOK, Period

\* A handler sets a field of the state, the period to one.
LEMMA SetStep ==
    ASSUME PageOK(state), NEW field, NEW value, field = "period" => Period(value),
           Set(field, value)
    PROVE  PageOK(state')
<1>1. state' = [state EXCEPT ![field] = value]
      BY DEF Set
<1>2. DOMAIN state' = DOMAIN state
      BY <1>1
<1>3. "period" \in DOMAIN state
      BY DEF PageOK
<1>4. CASE field = "period"
      BY <1>1, <1>2, <1>3, <1>4 DEF PageOK
<1>5. CASE field # "period"
      BY <1>1, <1>2, <1>3, <1>5 DEF PageOK
<1> QED BY <1>4, <1>5

LEMMA HandlerStep ==
    ASSUME StoreInv, ReaderInv, ConsoleOK, PageInv, shown # Nothing, Handler
    PROVE  StoreGrows /\ ReaderInv' /\ ConsoleOK' /\ PageInv'
<1>1. PageOK(state) /\ built # Nothing /\ IsFiniteSet(built.days) /\ built.days \subseteq Int
      BY DEF PageInv, ConsoleOK
<1> DEFINE Changes(field, value) == (field = "period" => Period(value)) /\ Set(field, value)
<1>2. ASSUME NEW field, NEW value, field # "period", Set(field, value)
      PROVE  \E f, v : Changes(f, v)
      BY <1>2
<1>3. \A picked : PickSymbols(picked) => \E f, v : Changes(f, v)
  <2>1. "symbols" # "period"
        OBVIOUS
  <2> HIDE DEF Changes
  <2> QED BY Zenon, <1>2, <2>1 DEF PickSymbols
<1>4. \A names : AddTyped(names) => \E f, v : Changes(f, v)
  <2>1. "symbols" # "period"
        OBVIOUS
  <2> HIDE DEF Changes
  <2> QED BY Zenon, <1>2, <2>1 DEF AddTyped
<1>5. ASSUME PickPeriod PROVE \E f, v : Changes(f, v)
  <2>1. built.days # {}
        BY <1>5 DEF PickPeriod
  <2>2. PICK period \in Periods(built.days) :
           Set("period", <<Min({period[1], period[2]}), Max({period[1], period[2]})>>)
        BY <1>5 DEF PickPeriod
  <2>3. Min(built.days) \in Int /\ Max(built.days) \in Int
        BY <1>1, <2>1, Smallest, Greatest
  <2>4. period[1] \in Int /\ period[2] \in Int
    <3>1. CASE period \in {<<d, e>> : d, e \in Min(built.days)..Max(built.days)}
          BY <2>3, <3>1
    <3>2. CASE period \in {PresetRange(built.days, n) : n \in Presets}
      <4>1. PICK n \in Presets : period = PresetRange(built.days, n)
            BY <3>2
      <4>2. n \in Int
            BY DeskAssumption
      <4>3. PresetRange(built.days, n) \in Int \X Int
            BY <1>1, <2>1, <4>2, PresetRangeOK
      <4> QED BY <4>1, <4>3
    <3> QED BY <3>1, <3>2 DEF Periods
  <2>5. Min({period[1], period[2]}) \in Int /\ Max({period[1], period[2]}) \in Int
        BY <2>4, PairBounds
  <2> DEFINE v == <<Min({period[1], period[2]}), Max({period[1], period[2]})>>
  <2>6. Period(v) /\ Set("period", v)
        BY <2>2, <2>5 DEF Period
  <2> QED BY <2>6
<1>6. ASSUME PickDay PROVE \E f, v : Changes(f, v)
  <2>1. PICK b \in panels.daily.value :
           Set("period", <<(b.t - DayShift) \div DayLength, (b.t - DayShift) \div DayLength>>)
        BY <1>6 DEF PickDay
  <2>2. (b.t - DayShift) \div DayLength \in Int
        BY <2>1, DeskAssumption DEF PageInv
  <2> DEFINE v == <<(b.t - DayShift) \div DayLength, (b.t - DayShift) \div DayLength>>
  <2>3. Period(v) /\ Set("period", v)
        BY <2>1, <2>2 DEF Period
  <2> QED BY <2>3
<1>7. \A v : Set("interval", v) => \E f, w : Changes(f, w)
      BY <1>2
<1>8. \A v : Set("chart", v) => \E f, w : Changes(f, w)
      BY <1>2
<1>9. \A v : Set("gaps", v) => \E f, w : Changes(f, w)
      BY <1>2
<1>10. \A v : Set("reload", v) => \E f, w : Changes(f, w)
       BY <1>2
<1>11. \E f, v : Changes(f, v)
  <2> HIDE DEF Changes
  <2> QED BY Zenon, <1>3, <1>4, <1>5, <1>6, <1>7, <1>8, <1>9, <1>10 DEF Handler
<1>12. PICK f, v : Changes(f, v)
       BY <1>11
<1>13. PageOK(state')
       BY <1>1, <1>12, SetStep
<1>14. UNCHANGED <<config, tree, bucket, job, load, cache, console, inventory, built, shown, panels>>
       BY <1>12 DEF Set, Event, storeVars, readerVars, appVars
<1>15. StoreGrows
       BY <1>14, QuietStep
<1>16. PageInv'
       BY <1>13, <1>14 DEF PageInv
<1> QED BY <1>14, <1>15, <1>16, LoadsStay, ConsoleStays

\* A load of the console or the page is replaced by one that begins, or by none.
LEMMA LoadBegins ==
    ASSUME StoreInv, ReaderInv, NEW c \in {"console", "desk"}, NEW l, LoadOK(l, DataFiles),
           load' = [load EXCEPT ![c] = l], cache' = cache,
           UNCHANGED <<config, tree, bucket, job>>
    PROVE  StoreGrows /\ ReaderInv'
<1>1. StoreGrows
      BY QuietStep
<1>2. c \in Callers /\ CacheOK(cache', config.cacheFiles)
      BY DeskAssumption DEF ReaderInv
<1> QED BY <1>1, <1>2, LoadsGoOn

LEMMA ObjectsAreKeys ==
    ASSUME StoreInv
    PROVE  DOMAIN Objects \in SUBSET Keys
BY StoreMember, EmptyStore DEF Objects, StoreInv, StoreTypeOK

LEMMA ScanDaysStep ==
    ASSUME StoreInv, ReaderInv, ConsoleOK, PageInv, ScanDays
    PROVE  StoreGrows /\ ReaderInv' /\ ConsoleOK' /\ PageInv'
<1>1. UNCHANGED <<config, tree, bucket, job, load, cache, built, state, shown, panels>>
      BY DEF ScanDays, storeVars, readerVars, pageVars
<1>2. StoreGrows /\ ReaderInv' /\ PageInv'
      BY <1>1, QuietStep, LoadsStay, PageStays
<1>3. CASE Reachable /\ AvailableDays # {}
  <2> DEFINE list == Listing(Min(AvailableDays), Max(AvailableDays), Nothing)
  <2>1. console' = [console EXCEPT !.list = list] /\ inventory' = inventory
        BY <1>3 DEF ScanDays
  <2>2. AvailableDays = DaysOf(DOMAIN Objects)
        BY DEF AvailableDays, DaysOf
  <2>3. Min(AvailableDays) \in Int /\ Max(AvailableDays) \in Int
        BY <1>3, <2>2, ObjectsAreKeys, DaysFinite, Smallest, Greatest
  <2>4. ListOK(list, DataFiles)
        BY <2>3, ListBegins
  <2> HIDE DEF list
  <2>5. ListOK(list, DataFiles')
        BY <1>2, <2>4, DataStay, ListKeeps
  <2> QED BY <1>1, <1>2, <2>1, <2>5 DEF ConsoleOK
<1>4. CASE ~(Reachable /\ AvailableDays # {})
  <2>1. inventory' = {} /\ console' = At("load defaults")
        BY <1>4 DEF ScanDays
  <2> QED BY <1>1, <1>2, <2>1 DEF ConsoleOK, At
<1> QED BY <1>3, <1>4

LEMMA ScanPageStep ==
    ASSUME StoreInv, ReaderInv, ConsoleOK, PageInv, ScanPage
    PROVE  StoreGrows /\ ReaderInv' /\ ConsoleOK' /\ PageInv'
<1> DEFINE l == NextPage(console.list)
<1>1. /\ UNCHANGED <<config, tree, bucket, job, load, cache, built, state, shown, panels>>
      /\ console.list # Nothing
      /\ \/ inventory' = l.found /\ console' = At("load defaults")
         \/ console' = [console EXCEPT !.list = l] /\ inventory' = inventory
         \/ inventory' = {} /\ console' = At("load defaults")
      BY DEF ScanPage, readerVars, pageVars
<1>2. StoreGrows /\ ReaderInv' /\ PageInv'
      BY <1>1, QuietStep, LoadsStay, PageStays
<1>3. ListOK(l, DataFiles)
      BY <1>1, ListGoesOn DEF ConsoleOK
<1> HIDE DEF l
<1>4. ListOK(l, DataFiles') /\ l.found \subseteq Keys
      BY <1>2, <1>3, DataStay, DataAreKeys, ListKeeps DEF ListOK
<1>5. CASE inventory' = l.found /\ console' = At("load defaults")
      BY <1>1, <1>2, <1>4, <1>5 DEF ConsoleOK, At
<1>6. CASE console' = [console EXCEPT !.list = l] /\ inventory' = inventory
      BY <1>1, <1>2, <1>4, <1>6 DEF ConsoleOK
<1>7. CASE inventory' = {} /\ console' = At("load defaults")
      BY <1>1, <1>2, <1>7 DEF ConsoleOK, At
<1> QED BY <1>1, <1>5, <1>6, <1>7

\* The console goes to another step.
LEMMA ConsoleGoes ==
    ASSUME StoreInv, ConsoleOK, PageInv, NEW at \in {"scan", "load defaults", "defaults", "prompt", "md_load"},
           console' = At(at), UNCHANGED <<inventory, built, state, shown, panels>>
    PROVE  ConsoleOK' /\ PageInv'
<1>1. ConsoleOK'
      BY DEF ConsoleOK, At
<1> QED BY <1>1, PageStays

LEMMA LoadDefaultsStep ==
    ASSUME StoreInv, ReaderInv, ConsoleOK, PageInv, LoadDefaults
    PROVE  StoreGrows /\ ReaderInv' /\ ConsoleOK' /\ PageInv'
<1> DEFINE period == PresetRange(DaysOf(inventory), config.days)
           wanted == ToSet(InitialSymbols(Ordered(Symbols(inventory))))
           none == [NoLoad EXCEPT !.phase = "done", !.list = Listing(1, 0, {})]
           l == IF period = Nothing THEN none ELSE Requested(period[1], period[2], wanted)
<1>1. UNCHANGED <<config, tree, bucket, job, cache, inventory, built, state, shown, panels>>
      BY DEF LoadDefaults, storeVars, pageVars
<1>2. console' = At("defaults") /\ load' = [load EXCEPT !["console"] = l]
      BY DEF LoadDefaults
<1>3. Period(period)
  <2>1. config.days \in Int
        BY StoreAssumption DEF StoreInv, StoreTypeOK
  <2>2. IsFiniteSet(DaysOf(inventory)) /\ DaysOf(inventory) \subseteq Int
        BY DaysFinite DEF ConsoleOK
  <2> QED BY <2>1, <2>2, PresetRangeOK
<1> HIDE DEF period, wanted
<1>4. LoadOK(none, DataFiles)
      BY EmptyResultOK
<1> HIDE DEF none
<1>5. LoadOK(l, DataFiles)
  <2>1. CASE period = Nothing
        BY <1>4, <2>1
  <2>2. CASE period # Nothing
    <3>1. period[1] \in Int /\ period[2] \in Int
          BY <1>3, <2>2 DEF Period
    <3> QED BY <2>2, <3>1, RequestedOK
  <2> QED BY <2>1, <2>2
<1> HIDE DEF l
<1>6. StoreGrows /\ ReaderInv'
      BY <1>1, <1>2, <1>5, LoadBegins
<1>7. ConsoleOK' /\ PageInv'
      BY <1>1, <1>2, ConsoleGoes
<1> QED BY <1>6, <1>7

LEMMA WiredStep ==
    ASSUME StoreInv, ReaderInv, ConsoleOK, PageInv, Wired
    PROVE  StoreGrows /\ ReaderInv' /\ ConsoleOK' /\ PageInv'
<1>1. UNCHANGED <<config, tree, bucket, job, cache, inventory, shown, panels>>
      BY DEF Wired, storeVars
<1>2. console' = At("prompt") /\ load' = [load EXCEPT !["console"] = NoLoad]
      BY DEF Wired
<1>3. StoreGrows /\ ReaderInv'
      BY <1>1, <1>2, NoLoadOK, LoadBegins
<1>4. CASE built # Nothing
  <2>1. UNCHANGED <<built, state>>
        BY <1>4 DEF Wired
  <2> QED BY <1>1, <1>2, <1>3, <2>1, ConsoleGoes
<1>5. CASE built = Nothing
  <2> DEFINE days == DaysOf(inventory)
             universe == Ordered(Symbols(inventory))
  <2>1. built' = [universe |-> universe, days |-> days] /\ state' = Fresh(built'.universe, built'.days)
        BY <1>5 DEF Wired
  <2>2. IsFiniteSet(days) /\ days \subseteq Int
        BY DaysFinite DEF ConsoleOK
  <2>3. config.days \in Int
        BY StoreAssumption DEF StoreInv, StoreTypeOK
  <2> HIDE DEF days, universe
  <2>4. Period(PresetRange(days, config.days))
        BY <2>2, <2>3, PresetRangeOK
  <2>5. PageOK(Fresh(universe, days))
        BY <2>4 DEF PageOK, Fresh
  <2>6. built'.days = days /\ state' = Fresh(universe, days)
        BY <2>1
  <2>7. ConsoleOK'
        BY <1>1, <1>2, <2>2, <2>6 DEF ConsoleOK, At
  <2>8. shown = Nothing
        BY <1>5 DEF PageInv
  <2>9. PageInv'
        BY <1>1, <2>5, <2>6, <2>8 DEF PageInv
  <2> QED BY <1>3, <2>7, <2>9
<1> QED BY <1>4, <1>5

LEMMA RefreshStep ==
    ASSUME StoreInv, ReaderInv, ConsoleOK, PageInv, Refresh
    PROVE  StoreGrows /\ ReaderInv' /\ ConsoleOK' /\ PageInv'
<1>1. /\ UNCHANGED <<config, tree, bucket, job, load, inventory, built, state, shown, panels>>
      /\ cache' = <<>> /\ console' = At("scan")
      BY DEF Refresh, storeVars, pageVars
<1>2. StoreGrows /\ ConsoleOK' /\ PageInv'
      BY <1>1, QuietStep, ConsoleGoes
<1>3. CacheOK(cache', config'.cacheFiles)
  <2> DEFINE none == <<>>
  <2>1. none \in Seq(Read) /\ Len(none) = 0
        BY EmptySeq
  <2>2. config.cacheFiles >= 0
        BY DEF StoreInv, StoreTypeOK, Accepted
  <2> HIDE DEF none
  <2>3. CacheOK(none, config.cacheFiles)
        BY <2>1, <2>2 DEF CacheOK
  <2> QED BY <1>1, <2>3 DEF none
<1>4. \A d \in Callers : LoadOK(load'[d], DataFiles')
      BY <1>1, <1>2, DataStay, LoadKeeps DEF ReaderInv
<1> QED BY <1>1, <1>2, <1>3, <1>4 DEF ReaderInv

LEMMA MdLoadStep ==
    ASSUME StoreInv, ReaderInv, ConsoleOK, PageInv, NEW symbols, MdLoad(symbols)
    PROVE  StoreGrows /\ ReaderInv' /\ ConsoleOK' /\ PageInv'
<1> DEFINE days == DaysOf(inventory)
           l == Requested(Min(days), Max(days), symbols)
<1>1. /\ UNCHANGED <<config, tree, bucket, job, cache, inventory, built, state, shown, panels>>
      /\ console' = At("md_load") /\ load' = [load EXCEPT !["console"] = l] /\ inventory # {}
      BY DEF MdLoad, storeVars, pageVars
<1>2. IsFiniteSet(days) /\ days \subseteq Int /\ days # {}
  <2>1. inventory \in SUBSET Keys
        BY DEF ConsoleOK
  <2>2. IsFiniteSet(DaysOf(inventory)) /\ DaysOf(inventory) \subseteq Int
        BY <2>1, DaysFinite
  <2>3. PICK path : path \in inventory
        BY <1>1
  <2>4. path.day \in DaysOf(inventory)
        BY <2>3 DEF DaysOf
  <2> QED BY <2>2, <2>4
<1> HIDE DEF days
<1>3. Min(days) \in Int /\ Max(days) \in Int
      BY <1>2, Smallest, Greatest
<1>4. LoadOK(l, DataFiles)
      BY <1>3, RequestedOK
<1> HIDE DEF l
<1> QED BY <1>1, <1>4, LoadBegins, ConsoleGoes

LEMMA MdDoneStep ==
    ASSUME StoreInv, ReaderInv, ConsoleOK, PageInv, MdDone
    PROVE  StoreGrows /\ ReaderInv' /\ ConsoleOK' /\ PageInv'
<1>1. /\ UNCHANGED <<config, tree, bucket, job, cache, inventory, built, state, shown, panels>>
      /\ console' = At("prompt") /\ load' = [load EXCEPT !["console"] = NoLoad]
      BY DEF MdDone, storeVars, pageVars
<1> QED BY <1>1, NoLoadOK, LoadBegins, ConsoleGoes

LEMMA RenderLoadsStep ==
    ASSUME StoreInv, ReaderInv, ConsoleOK, PageInv, RenderLoads
    PROVE  StoreGrows /\ ReaderInv' /\ ConsoleOK' /\ PageInv'
<1> DEFINE none == [NoLoad EXCEPT !.phase = "done", !.list = Listing(1, 0, {})]
           l == IF state.period = Nothing \/ state.symbols = <<>> THEN none
                ELSE Requested(state.period[1], state.period[2], ToSet(state.symbols))
<1>1. /\ UNCHANGED <<config, tree, bucket, job, cache, console, inventory, built, state, shown, panels>>
      /\ load' = [load EXCEPT !["desk"] = l] /\ built # Nothing
      BY DEF RenderLoads, Due, storeVars, appVars, pageVars
<1>2. LoadOK(none, DataFiles)
      BY EmptyResultOK
<1> HIDE DEF none
<1>3. LoadOK(l, DataFiles)
  <2>1. CASE state.period = Nothing \/ state.symbols = <<>>
        BY <1>2, <2>1
  <2>2. CASE ~(state.period = Nothing \/ state.symbols = <<>>)
    <3>1. state.period[1] \in Int /\ state.period[2] \in Int
          BY <1>1, <2>2 DEF PageInv, PageOK, Period
    <3> QED BY <2>2, <3>1, RequestedOK
  <2> QED BY <2>1, <2>2
<1> HIDE DEF l
<1>4. StoreGrows /\ ReaderInv'
      BY <1>1, <1>3, LoadBegins
<1> QED BY <1>1, <1>4, ConsoleStays, PageStays

\* The memo of the load holds what was read.
LEMMA PanelsOK ==
    ASSUME StoreInv, ReaderInv, PageInv,
           \/ load["desk"].phase = "done"
           \/ load["desk"].phase = "idle" /\ panels.load.key = LoadKey(state)
    PROVE  LET p == Panels(load["desk"])
           IN  /\ p.load.value.loaded \subseteq Read /\ IsFiniteSet(p.load.value.loaded)
               /\ \A b \in p.daily.value : b.t \in Int
<1> DEFINE l == load["desk"]
           value == [loaded |-> l.loaded, from |-> l.list.from, to |-> l.list.to,
                     wanted |-> l.list.wanted]
           loaded == Memo(panels.load, LoadKey(state), value)
           table == TableOf(loaded.value.loaded)
           daily == Memo(panels.daily, LoadKey(state), Daily(table))
           p == Panels(l)
<1>1. p.load = loaded /\ p.daily = daily
      BY DEF Panels
<1>2. l.loaded \subseteq Read /\ IsFiniteSet(l.loaded)
      BY LoadedFinite, DeskAssumption DEF ReaderInv
<1>3. value.loaded = l.loaded
      OBVIOUS
<1> HIDE DEF value
<1>4. LoadKey(state) # <<>>
      BY DEF LoadKey
<1>5. loaded.value.loaded \subseteq Read /\ IsFiniteSet(loaded.value.loaded)
  <2>1. CASE panels.load.key = LoadKey(state)
        BY <1>4, <2>1 DEF Memo, PageInv
  <2>2. CASE panels.load.key # LoadKey(state)
    <3>1. loaded.value = value
          BY <2>2 DEF Memo
    <3> QED BY <1>2, <1>3, <3>1
  <2> QED BY <2>1, <2>2
<1> HIDE DEF loaded
<1>6. IsFiniteSet(table) /\ \A x \in table : x.t \in Int
      BY <1>5, TableFinite
<1> HIDE DEF table
<1>7. \A b \in Daily(table) : b.t \in Int
      BY <1>6, GroupedTimes DEF Daily
<1>8. \A b \in daily.value : b.t \in Int
  <2>1. daily = panels.daily \/ daily.value = Daily(table)
        BY DEF Memo
  <2> HIDE DEF daily
  <2> QED BY <1>7, <2>1 DEF PageInv
<1> HIDE DEF daily
<1> QED BY <1>1, <1>5, <1>8

LEMMA RenderStep ==
    ASSUME StoreInv, ReaderInv, ConsoleOK, PageInv, Render
    PROVE  StoreGrows /\ ReaderInv' /\ ConsoleOK' /\ PageInv'
<1> DEFINE p == Panels(load["desk"])
<1>1. /\ UNCHANGED <<config, tree, bucket, job, cache, console, inventory, built, state>>
      /\ load' = [load EXCEPT !["desk"] = NoLoad] /\ built # Nothing
      /\ panels' = p /\ shown' = state
      BY DEF Render, Due, storeVars, appVars
<1>2. StoreGrows /\ ReaderInv'
      BY <1>1, NoLoadOK, LoadBegins
<1>3. /\ p.load.value.loaded \subseteq Read /\ IsFiniteSet(p.load.value.loaded)
      /\ \A b \in p.daily.value : b.t \in Int
  <2>1. \/ load["desk"].phase = "done"
        \/ load["desk"].phase = "idle" /\ panels.load.key = LoadKey(state)
        BY DEF Render
  <2> QED BY <2>1, PanelsOK
<1> HIDE DEF p
<1>4. PageInv'
      BY <1>1, <1>3 DEF PageInv, PageOK, Period
<1> QED BY <1>1, <1>2, <1>4, ConsoleStays

\* Any step: of a command, a thread, the console or the page.
LEMMA DeskStep ==
    ASSUME DeskInv, [Next]_deskVars
    PROVE  DeskInv'
<1>1. StoreInv /\ ReaderInv /\ ConsoleOK /\ PageInv
      BY DEF DeskInv
<1>2. StoreInv' /\ StoreGrows
      BY <1>1, StoreStep
<1>3. CASE Command /\ UNCHANGED <<readerVars, appVars, pageVars>>
  <2>1. UNCHANGED <<load, cache, console, inventory, built, state, shown, panels>>
        BY <1>3 DEF readerVars, appVars, pageVars
  <2> QED BY <1>1, <1>2, <2>1, LoadsStay, ConsoleStays, PageStays DEF DeskInv
<1>4. CASE \E c \in Callers : Work(c) /\ UNCHANGED <<appVars, pageVars>>
  <2>1. PICK c \in Callers : Work(c) /\ UNCHANGED <<appVars, pageVars>>
        BY <1>4
  <2>2. UNCHANGED <<console, inventory, built, state, shown, panels>>
        BY <2>1 DEF appVars, pageVars
  <2>3. ReaderInv'
        BY <1>1, <2>1, WorkStep
  <2> QED BY <1>1, <1>2, <2>2, <2>3, ConsoleStays, PageStays DEF DeskInv
<1>5. CASE Console
  <2>1. ReaderInv' /\ ConsoleOK' /\ PageInv'
        BY <1>1, <1>5, ScanDaysStep, ScanPageStep, LoadDefaultsStep, WiredStep, RefreshStep,
           MdLoadStep, MdDoneStep DEF Console
  <2> QED BY <1>2, <2>1 DEF DeskInv
<1>6. CASE shown # Nothing /\ Handler
      BY <1>1, <1>2, <1>6, HandlerStep DEF DeskInv
<1>7. CASE RenderLoads
      BY <1>1, <1>2, <1>7, RenderLoadsStep DEF DeskInv
<1>8. CASE Render
      BY <1>1, <1>2, <1>8, RenderStep DEF DeskInv
<1>9. CASE UNCHANGED deskVars
  <2>1. UNCHANGED <<load, cache, console, inventory, built, state, shown, panels>>
        BY <1>9 DEF deskVars, readerVars, appVars, pageVars
  <2> QED BY <1>1, <1>2, <2>1, LoadsStay, ConsoleStays, PageStays DEF DeskInv
<1> QED BY Zenon, <1>3, <1>4, <1>5, <1>6, <1>7, <1>8, <1>9 DEF Next

LEMMA DeskStarts ==
    ASSUME Init
    PROVE  DeskInv
<1>1. StoreInv
      BY StoreStart DEF Init
<1>2. ReaderInv
  <2>1. load = [c \in Callers |-> NoLoad] /\ cache = <<>>
        BY DEF Init, ReaderInit
  <2>2. \A c \in Callers : LoadOK(load[c], DataFiles)
        BY <2>1, NoLoadOK
  <2> DEFINE none == <<>>
  <2>3. none \in Seq(Read) /\ Len(none) = 0
        BY EmptySeq
  <2>4. config.cacheFiles >= 0
        BY <1>1 DEF StoreInv, StoreTypeOK, Accepted
  <2>5. cache = none
        BY <2>1
  <2> HIDE DEF none
  <2>6. CacheOK(cache, config.cacheFiles)
        BY <2>3, <2>4, <2>5 DEF CacheOK
  <2> QED BY <2>1, <2>2, <2>6 DEF ReaderInv
<1>3. /\ console = At("scan") /\ inventory = {} /\ built = Nothing /\ shown = Nothing
      /\ panels.load.key = <<>> /\ panels.daily.value = {}
      BY DEF Init, Unset
<1>4. ConsoleOK
      BY <1>3 DEF ConsoleOK, At
<1>5. PageInv
      BY <1>3 DEF PageInv
<1> QED BY <1>1, <1>2, <1>4, <1>5 DEF DeskInv

\* A load that reports no error holds exactly one table of every wanted data file that stood in
\* the store when it began, whatever was written or evicted meanwhile, with any number of pages,
\* threads and loads at a time; one that reports an error names every listed file it holds no
\* table of.
\* reader.py: BarReader.read; store.py: list_files, _list_keys.
THEOREM LoadsAreWhole == DeskSpec => []OkIsWhole
<1>1. Init => DeskInv
      BY DeskStarts
<1>2. DeskInv /\ [Next]_deskVars => DeskInv'
      BY DeskStep
<1>3. DeskInv => OkIsWhole
      BY DoneIsWhole DEF DeskInv
<1> QED BY <1>1, <1>2, <1>3, PTL DEF DeskSpec

-----------------------------------------------------------------------------
\* What the files were

\* A table is one that the file was since the last md_refresh, or that was on its way then.
Known(e) == e.path \in onTheWay \/ e.table \in since[e.path]

WatchInv ==
    /\ clears \in Nat
    /\ since = [path \in Keys |-> since[path]]
    /\ \A path \in DOMAIN Objects : Objects[path] \in since[path]
    /\ \A e \in ToSet(cache) : Known(e)
    /\ \A c \in Callers, e \in Entries : e \in load[c].active /\ e.table # Nothing => Known(e)
    /\ \A e \in load["console"].loaded : Known(e)
    /\ console.at \in {"prompt", "md_load"} => \A e \in defaults : e \in Read /\ Known(e)
    /\ console.at \in {"prompt", "scan", "load defaults"} => load["console"].phase = "idle"

\* A step other than md_refresh adds what the files are to what they were.
Remembers == /\ clears' = clears /\ onTheWay' = onTheWay
             /\ since' = [path \in Keys |-> since[path] \cup Content(path)']

\* What such a step leaves in the cache, the loads and the defaults was known before it.
WatchNew ==
    /\ \A e \in ToSet(cache') : Known(e)
    /\ \A c \in Callers, e \in Entries : e \in load'[c].active /\ e.table # Nothing => Known(e)
    /\ \A e \in load'["console"].loaded : Known(e)
    /\ console'.at \in {"prompt", "md_load"} => \A e \in defaults' : e \in Read /\ Known(e)
    /\ console'.at \in {"prompt", "scan", "load defaults"} => load'["console"].phase = "idle"

LEMMA ReadEntries == Read \subseteq Entries
BY DEF Read, Entries

LEMMA CacheEntries ==
    ASSUME ReaderInv
    PROVE  ToSet(cache) \subseteq Read
BY LenProperties DEF ReaderInv, CacheOK, ToSet

LEMMA WatchHolds ==
    ASSUME DeskInv, DeskInv', WatchInv, Remembers, WatchNew
    PROVE  WatchInv'
<1>1. \A e \in Entries : Known(e) => Known(e)'
      BY DEF Known, Remembers, Entries
<1>2. ToSet(cache') \subseteq Entries /\ load'["console"].loaded \subseteq Entries
  <2>1. ToSet(cache') \subseteq Read
        BY CacheEntries DEF DeskInv, ReaderInv, CacheOK, ToSet
  <2>2. LoadOK(load'["console"], DataFiles')
        BY DeskAssumption DEF DeskInv, ReaderInv
  <2> QED BY <2>1, <2>2, ReadEntries DEF LoadOK, LoadType
<1>3. clears' \in Nat /\ since' = [path \in Keys |-> since'[path]]
      BY DEF Remembers, WatchInv
<1>4. \A path \in DOMAIN Objects' : Objects'[path] \in since'[path]
  <2>1. DOMAIN Objects' \in SUBSET Keys
        BY StoreMember, EmptyStore DEF Objects, DeskInv, StoreInv, StoreTypeOK
  <2> QED BY <2>1 DEF Remembers, Content
<1>5. \A e \in ToSet(cache') : Known(e)'
      BY <1>1, <1>2 DEF WatchNew
<1>6. \A c \in Callers, e \in Entries : e \in load'[c].active /\ e.table # Nothing => Known(e)'
      BY <1>1 DEF WatchNew
<1>7. \A e \in load'["console"].loaded : Known(e)'
      BY <1>1, <1>2 DEF WatchNew
<1>8. console'.at \in {"prompt", "md_load"} => \A e \in defaults' : e \in Read /\ Known(e)'
      BY <1>1, ReadEntries DEF WatchNew
<1>9. console'.at \in {"prompt", "scan", "load defaults"} => load'["console"].phase = "idle"
      BY DEF WatchNew
<1> QED BY <1>3, <1>4, <1>5, <1>6, <1>7, <1>8, <1>9 DEF WatchInv

\* A load that has begun goes on.
LEMMA WorkWatch ==
    ASSUME DeskInv, WatchInv, NEW c \in Callers, NEW l, load' = [load EXCEPT ![c] = l],
           load[c].phase # "idle", UNCHANGED <<console, defaults>>,
           \A e \in ToSet(cache') : Known(e),
           \A e \in Entries : e \in l.active /\ e.table # Nothing => Known(e),
           c = "console" => \A e \in l.loaded : Known(e)
    PROVE  WatchNew
<1>1. \A d \in Callers : load'[d] = IF d = c THEN l ELSE load[d]
      BY DEF DeskInv, ReaderInv
<1>2. \A d \in Callers, e \in Entries : e \in load'[d].active /\ e.table # Nothing => Known(e)
      BY <1>1 DEF WatchInv
<1>3. \A e \in load'["console"].loaded : Known(e)
      BY <1>1, DeskAssumption DEF WatchInv
<1>4. console.at \in {"prompt", "scan", "load defaults"} => load'["console"].phase = "idle"
      BY <1>1, DeskAssumption DEF WatchInv
<1> QED BY <1>2, <1>3, <1>4 DEF WatchNew, WatchInv

LEMMA WorkRemembers ==
    ASSUME DeskInv, WatchInv, NEW c \in Callers, Work(c), UNCHANGED <<console, defaults>>
    PROVE  WatchNew
<1> DEFINE l == load[c]
<1>1. /\ load = [d \in Callers |-> load[d]] /\ LoadOK(l, DataFiles) /\ LoadType(l)
      /\ StoreInv /\ ReaderInv /\ CacheOK(cache, config.cacheFiles)
      BY DEF DeskInv, ReaderInv, LoadOK
<1>2. /\ \A e \in ToSet(cache) : Known(e)
      /\ \A e \in Entries : e \in l.active /\ e.table # Nothing => Known(e)
      /\ c = "console" => \A e \in l.loaded : Known(e)
      BY DEF WatchInv
<1>3. CASE ListPage(c)
  <2> DEFINE list == NextPage(l.list)
             m == [l EXCEPT !.list = list]
             r == IF Listed(m.list) THEN Chosen(m) ELSE m
  <2>1. load' = [load EXCEPT ![c] = r] /\ cache' = cache /\ l.phase = "listing"
        BY <1>3 DEF ListPage
  <2>2. m.active = l.active /\ m.loaded = l.loaded
        BY <1>1 DEF LoadType
  <2>3. LoadType(m)
        BY <1>1 DEF LoadType
  <2> HIDE DEF m
  <2>4. Chosen(m).active = m.active /\ Chosen(m).loaded = m.loaded
        BY <2>3, ChosenKeeps
  <2>5. r.active = l.active /\ r.loaded = l.loaded
        BY <2>2, <2>4
  <2> HIDE DEF r
  <2> QED BY <1>2, <2>1, <2>5, WorkWatch
<1>4. CASE ListFails(c)
  <2> DEFINE r == [l EXCEPT !.phase = "done", !.error = "listing"]
  <2>1. load' = [load EXCEPT ![c] = r] /\ cache' = cache /\ l.phase = "listing"
        BY <1>1, <1>4 DEF ListFails
  <2>2. r.active = l.active /\ r.loaded = l.loaded
        BY <1>1 DEF LoadType
  <2> HIDE DEF r
  <2> QED BY <1>2, <2>1, <2>2, WorkWatch
<1>5. CASE Merge(c)
  <2> DEFINE r == [l EXCEPT !.phase = "done"]
  <2>1. load' = [load EXCEPT ![c] = r] /\ cache' = cache /\ l.phase = "reading"
        BY <1>1, <1>5 DEF Merge
  <2>2. r.active = l.active /\ r.loaded = l.loaded
        BY <1>1 DEF LoadType
  <2> HIDE DEF r
  <2> QED BY <1>2, <2>1, <2>2, WorkWatch
<1>6. CASE TakeUp(c)
  <2> DEFINE path == Head(l.todo)
             hit == CHOOSE e \in ToSet(cache) : e.path = path
             new == [path |-> path, table |-> Nothing]
  <2>1. l.todo # <<>> /\ l.phase = "reading"
        BY <1>1, <1>6, Reading DEF TakeUp
  <2>2. CASE Cached(path)
    <3> DEFINE r == [l EXCEPT !.todo = Tail(@), !.loaded = @ \cup {hit}]
    <3>1. cache' = Append(Except(path), hit) /\ load' = [load EXCEPT ![c] = r]
          BY <1>1, <1>6, <2>2 DEF TakeUp
    <3>2. hit \in ToSet(cache) /\ hit.path = path
          BY <2>2 DEF Cached
    <3> HIDE DEF hit
    <3>3. ToSet(cache') \subseteq ToSet(cache)
      <4>1. config.cacheFiles \in Int
            BY <1>1, StoreAssumption DEF StoreInv, StoreTypeOK
      <4> QED BY <1>1, <2>2, <3>1, <3>2, <4>1, HitIs
    <3>4. r.active = l.active /\ r.loaded = l.loaded \cup {hit}
          BY <1>1 DEF LoadType
    <3> HIDE DEF r
    <3>5. Known(hit)
          BY <1>2, <3>2
    <3>6. \A e \in ToSet(cache') : Known(e)
          BY <1>2, <3>3
    <3>7. c = "console" => \A e \in r.loaded : Known(e)
          BY <1>2, <3>4, <3>5
    <3> QED BY <1>2, <2>1, <3>1, <3>4, <3>6, <3>7, WorkWatch
  <2>3. CASE ~Cached(path)
    <3> DEFINE r == [l EXCEPT !.todo = Tail(@), !.active = @ \cup {new}]
    <3>1. cache' = cache /\ load' = [load EXCEPT ![c] = r]
          BY <1>1, <1>6, <2>3 DEF TakeUp
    <3>2. r.active = l.active \cup {new} /\ r.loaded = l.loaded /\ new.table = Nothing
          BY <1>1 DEF LoadType
    <3> HIDE DEF r, new
    <3>3. \A e \in Entries : e \in r.active /\ e.table # Nothing => Known(e)
          BY <1>2, <3>2
    <3> QED BY <1>2, <2>1, <3>1, <3>2, <3>3, WorkWatch
  <2> QED BY <2>2, <2>3
<1>7. ASSUME NEW e \in l.active, Open(c, e) PROVE WatchNew
  <2> DEFINE failed == [l EXCEPT !.active = @ \ {e}, !.failed = @ \cup {e.path}]
             f == [e EXCEPT !.table = Objects[e.path]]
             read == [l EXCEPT !.active = (@ \ {e}) \cup {f}]
  <2>1. /\ l.phase = "reading" /\ e \in Entries /\ e.path \in DataFiles
        /\ e.path \in DOMAIN Objects
    <3>1. l.phase = "reading" /\ LoadWhole(l) /\ ListOK(l.list, DataFiles)
          BY <1>1, Reading
    <3>2. e.path \in l.list.found
          BY <3>1 DEF LoadWhole, Paths
    <3> QED BY <1>1, <3>1, <3>2 DEF ListOK, LoadType, DataFiles
  <2>2. \/ load' = [load EXCEPT ![c] = failed]
        \/ load' = [load EXCEPT ![c] = read]
        BY <1>1, <1>7 DEF Open, Fail
  <2>3. cache' = cache
        BY <1>7 DEF Open
  <2>4. failed.active \subseteq l.active /\ failed.loaded = l.loaded
        BY <1>1 DEF LoadType
  <2>5. read.active \subseteq l.active \cup {f} /\ read.loaded = l.loaded
        BY <1>1 DEF LoadType
  <2>6. Known(f)
    <3>1. f.path = e.path /\ f.table = Objects[e.path]
          BY <2>1 DEF Entries
    <3> HIDE DEF f
    <3> QED BY <2>1, <3>1 DEF Known, WatchInv
  <2> HIDE DEF failed, read, f
  <2>7. \A g \in Entries : g \in failed.active /\ g.table # Nothing => Known(g)
        BY <1>2, <2>4
  <2>8. \A g \in Entries : g \in read.active /\ g.table # Nothing => Known(g)
        BY <1>2, <2>5, <2>6
  <2>9. CASE load' = [load EXCEPT ![c] = failed]
        BY <1>2, <2>1, <2>3, <2>4, <2>7, <2>9, WorkWatch
  <2>10. CASE load' = [load EXCEPT ![c] = read]
        BY <1>2, <2>1, <2>3, <2>5, <2>8, <2>10, WorkWatch
  <2> QED BY <2>2, <2>9, <2>10
<1>8. ASSUME NEW e \in l.active, Keep(c, e) PROVE WatchNew
  <2> DEFINE r == [l EXCEPT !.active = @ \ {e}, !.loaded = @ \cup {e}]
  <2>1. cache' = Kept(e) /\ load' = [load EXCEPT ![c] = r] /\ e.table # Nothing
        BY <1>1, <1>8 DEF Keep
  <2>2. l.phase = "reading" /\ e \in Entries /\ e \in Read
    <3>1. l.phase = "reading" /\ e \in Entries
          BY <1>1, Reading DEF LoadType
    <3> QED BY <2>1, <3>1 DEF Read, Entries
  <2>3. r.active \subseteq l.active /\ r.loaded = l.loaded \cup {e}
        BY <1>1 DEF LoadType
  <2> HIDE DEF r
  <2>4. Known(e)
        BY <1>2, <2>1, <2>2
  <2>5. ToSet(cache') \subseteq ToSet(cache) \cup {e}
    <3>1. config.cacheFiles \in Int /\ config.cacheFiles >= 0
          BY <1>1, StoreAssumption DEF StoreInv, StoreTypeOK, Accepted
    <3> QED BY <1>1, <2>1, <2>2, <3>1, KeptIs
  <2>6. \A g \in ToSet(cache') : Known(g)
        BY <1>2, <2>4, <2>5
  <2>7. \A g \in Entries : g \in r.active /\ g.table # Nothing => Known(g)
        BY <1>2, <2>3
  <2>8. c = "console" => \A g \in r.loaded : Known(g)
        BY <1>2, <2>3, <2>4
  <2> QED BY <2>1, <2>2, <2>6, <2>7, <2>8, WorkWatch
<1> QED BY <1>3, <1>4, <1>5, <1>6, <1>7, <1>8 DEF Work

\* A load that begins has read nothing.
LEMMA BeginsEmpty ==
    ASSUME NEW from, NEW to, NEW wanted
    PROVE  LET l == Requested(from, to, wanted)
               n == [NoLoad EXCEPT !.phase = "done", !.list = Listing(1, 0, {})]
           IN  /\ l.active = {} /\ l.loaded = {} /\ n.active = {} /\ n.loaded = {}
               /\ NoLoad.active = {} /\ NoLoad.loaded = {} /\ NoLoad.phase = "idle"
BY DEF Requested, NoLoad

\* Steps that leave the loads of the reader alone.
LEMMA QuietWatch ==
    ASSUME DeskInv, WatchInv, UNCHANGED <<load, cache, defaults>>,
           \/ console' = console
           \/ console.at = "scan" /\ console'.at \in {"scan", "load defaults"}
    PROVE  WatchNew
BY DEF WatchInv, WatchNew

\* Steps by which a load of the console or the page is replaced by one that has read nothing.
LEMMA BeginsWatch ==
    ASSUME DeskInv, WatchInv, NEW c \in {"console", "desk"}, NEW l, load' = [load EXCEPT ![c] = l],
           cache' = cache, l.active = {}, l.loaded = {},
           c = "desk" => console' = console,
           console'.at \in {"prompt", "scan", "load defaults"} =>
               (l.phase = "idle" \/ c = "desk"),
           console'.at \in {"prompt", "md_load"} => \A e \in defaults' : e \in Read /\ Known(e)
    PROVE  WatchNew
<1>1. c \in Callers /\ \A d \in Callers : load'[d] = IF d = c THEN l ELSE load[d]
      BY DeskAssumption DEF DeskInv, ReaderInv
<1>2. \A d \in Callers, e \in Entries : e \in load'[d].active /\ e.table # Nothing => Known(e)
      BY <1>1 DEF WatchInv
<1>3. \A e \in load'["console"].loaded : Known(e)
      BY <1>1, DeskAssumption DEF WatchInv
<1>4. console'.at \in {"prompt", "scan", "load defaults"} => load'["console"].phase = "idle"
      BY <1>1, DeskAssumption DEF WatchInv
<1> QED BY <1>2, <1>3, <1>4 DEF WatchNew, WatchInv

LEMMA ConsoleWatch ==
    ASSUME DeskInv, WatchInv, Console, ~Refresh
    PROVE  WatchNew /\ clears' = clears
<1>1. CASE ScanDays
  <2> DEFINE l == Listing(Min(AvailableDays), Max(AvailableDays), Nothing)
  <2>1. /\ UNCHANGED <<load, cache, defaults, clears>> /\ console.at = "scan"
        /\ console' = At("load defaults") \/ console' = [console EXCEPT !.list = l]
        BY <1>1 DEF ScanDays, readerVars
  <2> HIDE DEF l
  <2>2. [console EXCEPT !.list = l].at = console.at
        BY DEF DeskInv, ConsoleOK
  <2>3. At("load defaults").at = "load defaults"
        BY DEF At
  <2>4. console'.at \in {"scan", "load defaults"}
        BY <2>1, <2>2, <2>3
  <2> QED BY <2>1, <2>4, QuietWatch
<1>2. CASE ScanPage
  <2>1. UNCHANGED <<load, cache, defaults, clears>> /\ console.at = "scan"
        BY <1>2 DEF ScanPage, readerVars
  <2> DEFINE l == NextPage(console.list)
  <2>2. console' = At("load defaults") \/ console' = [console EXCEPT !.list = l]
        BY <1>2 DEF ScanPage
  <2> HIDE DEF l
  <2>3. [console EXCEPT !.list = l].at = console.at
        BY DEF DeskInv, ConsoleOK
  <2>4. At("load defaults").at = "load defaults"
        BY DEF At
  <2>5. console'.at \in {"scan", "load defaults"}
        BY <2>1, <2>2, <2>3, <2>4
  <2> QED BY <2>1, <2>5, QuietWatch
<1>3. CASE LoadDefaults
  <2> DEFINE period == PresetRange(DaysOf(inventory), config.days)
             wanted == ToSet(InitialSymbols(Ordered(Symbols(inventory))))
             none == [NoLoad EXCEPT !.phase = "done", !.list = Listing(1, 0, {})]
             l == IF period = Nothing THEN none ELSE Requested(period[1], period[2], wanted)
  <2>1. /\ UNCHANGED <<cache, clears>> /\ console' = At("defaults")
        /\ load' = [load EXCEPT !["console"] = l]
        BY <1>3 DEF LoadDefaults
  <2> HIDE DEF period, wanted
  <2>2. none.active = {} /\ none.loaded = {}
        BY BeginsEmpty
  <2>3. Requested(period[1], period[2], wanted).active = {}
        /\ Requested(period[1], period[2], wanted).loaded = {}
        BY BeginsEmpty
  <2> HIDE DEF none
  <2>4. l.active = {} /\ l.loaded = {}
        BY <2>2, <2>3
  <2>5. console'.at = "defaults"
        BY <2>1 DEF At
  <2> HIDE DEF l
  <2> QED BY <2>1, <2>4, <2>5, BeginsWatch
<1>4. CASE Wired
  <2>1. /\ UNCHANGED <<cache, clears>> /\ console' = At("prompt")
        /\ load' = [load EXCEPT !["console"] = NoLoad] /\ defaults' = load["console"].loaded
        BY <1>4 DEF Wired
  <2>2. \A e \in defaults' : e \in Read /\ Known(e)
    <3>1. LoadOK(load["console"], DataFiles)
          BY DeskAssumption DEF DeskInv, ReaderInv
    <3> QED BY <2>1, <3>1 DEF WatchInv, LoadOK, LoadType
  <2>3. NoLoad.active = {} /\ NoLoad.loaded = {} /\ NoLoad.phase = "idle"
        BY BeginsEmpty
  <2> QED BY <2>1, <2>2, <2>3, BeginsWatch
<1>5. ASSUME NEW symbols, MdLoad(symbols) PROVE WatchNew /\ clears' = clears
  <2> DEFINE l == Requested(Min(DaysOf(inventory)), Max(DaysOf(inventory)), symbols)
  <2>1. /\ UNCHANGED <<cache, clears, defaults>> /\ console' = At("md_load") /\ console.at = "prompt"
        /\ load' = [load EXCEPT !["console"] = l]
        BY <1>5 DEF MdLoad, Call
  <2>2. l.active = {} /\ l.loaded = {}
        BY BeginsEmpty
  <2> HIDE DEF l
  <2>3. console'.at = "md_load"
        BY <2>1 DEF At
  <2>4. \A e \in defaults' : e \in Read /\ Known(e)
        BY <2>1 DEF WatchInv
  <2> QED BY <2>1, <2>2, <2>3, <2>4, BeginsWatch
<1>6. CASE MdDone
  <2>1. /\ UNCHANGED <<cache, clears, defaults>> /\ console' = At("prompt") /\ console.at = "md_load"
        /\ load' = [load EXCEPT !["console"] = NoLoad]
        BY <1>6 DEF MdDone
  <2>2. \A e \in defaults' : e \in Read /\ Known(e)
        BY <2>1 DEF WatchInv
  <2>3. NoLoad.active = {} /\ NoLoad.loaded = {} /\ NoLoad.phase = "idle"
        BY BeginsEmpty
  <2> QED BY <2>1, <2>2, <2>3, BeginsWatch
<1> QED BY <1>1, <1>2, <1>3, <1>4, <1>5, <1>6 DEF Console

LEMMA RendersWatch ==
    ASSUME DeskInv, WatchInv, RenderLoads \/ Render
    PROVE  WatchNew /\ clears' = clears
<1>1. CASE RenderLoads
  <2> DEFINE none == [NoLoad EXCEPT !.phase = "done", !.list = Listing(1, 0, {})]
             some == Requested(state.period[1], state.period[2], ToSet(state.symbols))
             l == IF state.period = Nothing \/ state.symbols = <<>> THEN none ELSE some
  <2>1. /\ UNCHANGED <<cache, clears, defaults, console>> /\ load' = [load EXCEPT !["desk"] = l]
        BY <1>1 DEF RenderLoads, appVars
  <2>2. none.active = {} /\ none.loaded = {} /\ some.active = {} /\ some.loaded = {}
        BY BeginsEmpty
  <2> HIDE DEF none, some
  <2>3. l.active = {} /\ l.loaded = {}
        BY <2>2
  <2> HIDE DEF l
  <2>4. console'.at \in {"prompt", "md_load"} => \A e \in defaults' : e \in Read /\ Known(e)
        BY <2>1 DEF WatchInv
  <2> QED BY <2>1, <2>3, <2>4, BeginsWatch
<1>2. CASE Render
  <2>1. /\ UNCHANGED <<cache, clears, defaults, console>> /\ load' = [load EXCEPT !["desk"] = NoLoad]
        BY <1>2 DEF Render, appVars
  <2>2. NoLoad.active = {} /\ NoLoad.loaded = {}
        BY BeginsEmpty
  <2>3. console'.at \in {"prompt", "md_load"} => \A e \in defaults' : e \in Read /\ Known(e)
        BY <2>1 DEF WatchInv
  <2> QED BY <2>1, <2>2, <2>3, BeginsWatch
<1> QED BY <1>1, <1>2

\* Any step but md_refresh.
LEMMA NextWatch ==
    ASSUME DeskInv, WatchInv, Next, ~Refresh
    PROVE  WatchNew /\ clears' = clears
<1>1. CASE Command /\ UNCHANGED <<readerVars, appVars, pageVars>>
  <2>1. UNCHANGED <<load, cache, defaults, console, clears>>
        BY <1>1 DEF readerVars, appVars
  <2> QED BY <2>1, QuietWatch
<1>2. CASE \E c \in Callers : Work(c) /\ UNCHANGED <<appVars, pageVars>>
  <2>1. PICK c \in Callers : Work(c) /\ UNCHANGED <<appVars, pageVars>>
        BY <1>2
  <2>2. UNCHANGED <<defaults, console, clears>>
        BY <2>1 DEF appVars
  <2> QED BY <2>1, <2>2, WorkRemembers
<1>3. CASE Console
      BY <1>3, ConsoleWatch
<1>4. CASE shown # Nothing /\ Handler
  <2>1. Event
    <3>1. ASSUME NEW field, NEW value, Set(field, value) PROVE Event
          BY <3>1 DEF Set
    <3>2. \A picked : PickSymbols(picked) => Event
          BY Zenon DEF PickSymbols, Set
    <3>3. \A names : AddTyped(names) => Event
          BY Zenon DEF AddTyped, Set
    <3>4. ASSUME PickPeriod PROVE Event
          BY <3>4 DEF PickPeriod, Set
    <3>5. ASSUME PickDay PROVE Event
          BY Zenon, <3>1, <3>5 DEF PickDay
    <3> QED BY Zenon, <1>4, <3>1, <3>2, <3>3, <3>4, <3>5 DEF Handler
  <2>2. UNCHANGED <<load, cache, defaults, console, clears>>
        BY <2>1 DEF Event, readerVars, appVars
  <2> QED BY <2>2, QuietWatch
<1>5. CASE RenderLoads \/ Render
      BY <1>5, RendersWatch
<1> QED BY Zenon, <1>1, <1>2, <1>3, <1>4, <1>5 DEF Next

\* md_refresh forgets what the files were, and knows which tables are on their way.
LEMMA RefreshWatch ==
    ASSUME DeskInv, DeskInv', WatchInv, Refresh,
           since' = [path \in Keys |-> (IF clears' # clears THEN {} ELSE since[path]) \cup Content(path)'],
           onTheWay' = IF clears' # clears THEN Opened ELSE onTheWay
    PROVE  WatchInv'
<1>1. /\ clears' = clears + 1 /\ cache' = <<>> /\ console' = At("scan") /\ load' = load
      /\ console.at = "prompt"
      BY DEF Refresh, Call
<1>2. clears' # clears /\ clears' \in Nat
      BY <1>1 DEF WatchInv
<1>3. since' = [path \in Keys |-> Content(path)'] /\ onTheWay' = Opened
      BY <1>2
<1>4. \A path \in DOMAIN Objects' : Objects'[path] \in since'[path]
  <2>1. DOMAIN Objects' \in SUBSET Keys
        BY StoreMember, EmptyStore DEF Objects, DeskInv, StoreInv, StoreTypeOK
  <2> QED BY <1>3, <2>1 DEF Content
<1>5. \A e \in ToSet(cache') : Known(e)'
  <2>1. ToSet(cache') = {}
        BY <1>1, EmptySeq DEF ToSet
  <2> QED BY <2>1
<1>6. \A c \in Callers, e \in Entries : e \in load'[c].active /\ e.table # Nothing => Known(e)'
      BY <1>1, <1>3 DEF Known, Opened, Paths
<1>7. load["console"].phase = "idle" /\ load["console"].loaded = {}
  <2>1. LoadOK(load["console"], DataFiles)
        BY DeskAssumption DEF DeskInv, ReaderInv
  <2>2. load["console"].phase = "idle"
        BY <1>1 DEF WatchInv
  <2> QED BY <2>1, <2>2 DEF LoadOK
<1>8. console'.at = "scan"
      BY <1>1 DEF At
<1>9. since' = [path \in Keys |-> since'[path]]
      BY <1>3
<1> QED BY <1>1, <1>2, <1>4, <1>5, <1>6, <1>7, <1>8, <1>9 DEF WatchInv

LEMMA WatchStep ==
    ASSUME DeskInv, WatchInv, [WatchNext]_watchVars
    PROVE  DeskInv' /\ WatchInv'
<1>1. CASE WatchNext
  <2>1. Next
        BY <1>1 DEF WatchNext
  <2>2. /\ since' = [path \in Keys |-> (IF clears' # clears THEN {} ELSE since[path]) \cup Content(path)']
        /\ onTheWay' = IF clears' # clears THEN Opened ELSE onTheWay
        BY <1>1 DEF WatchNext, Keys
  <2>3. DeskInv'
        BY <2>1, DeskStep
  <2>4. CASE Refresh
        BY <2>2, <2>3, <2>4, RefreshWatch
  <2>5. CASE ~Refresh
    <3>1. WatchNew /\ clears' = clears
          BY <2>1, <2>5, NextWatch
    <3>2. Remembers
          BY <2>2, <3>1 DEF Remembers
    <3> QED BY <2>3, <3>1, <3>2, WatchHolds
  <2> QED BY <2>3, <2>4, <2>5
<1>2. CASE UNCHANGED watchVars
  <2>1. UNCHANGED deskVars /\ UNCHANGED <<since, onTheWay>>
        BY <1>2 DEF watchVars
  <2>2. DeskInv'
        BY <2>1, DeskStep
  <2>3. UNCHANGED <<config, tree, bucket, load, cache, defaults, console, clears>>
        BY <2>1 DEF deskVars, storeVars, readerVars, appVars
  <2>4. WatchInv'
        BY <2>1, <2>3 DEF WatchInv, Known, Objects
  <2> QED BY <2>2, <2>4
<1> QED BY <1>1, <1>2

LEMMA WatchStarts ==
    ASSUME WatchInit
    PROVE  DeskInv /\ WatchInv
<1>1. Init /\ since = [path \in Keys |-> Content(path)] /\ onTheWay = {}
      BY DEF WatchInit, Keys
<1>2. DeskInv
      BY <1>1, DeskStarts
<1>3. /\ clears = 0 /\ load = [c \in Callers |-> NoLoad] /\ cache = <<>> /\ defaults = {}
      BY <1>1 DEF Init, ReaderInit
<1>4. \A path \in DOMAIN Objects : Objects[path] \in since[path]
  <2>1. DOMAIN Objects \in SUBSET Keys
        BY <1>2, ObjectsAreKeys DEF DeskInv
  <2> QED BY <1>1, <2>1 DEF Content
<1>5. NoLoad.active = {} /\ NoLoad.loaded = {} /\ NoLoad.phase = "idle"
      BY BeginsEmpty
<1>6. ToSet(cache) = {}
      BY <1>3, EmptySeq DEF ToSet
<1>7. since = [path \in Keys |-> since[path]]
      BY <1>1
<1> QED BY <1>2, <1>3, <1>4, <1>5, <1>6, <1>7, DeskAssumption DEF WatchInv

\* The cache is never above its limit and holds a file once; and what it holds, and what md_bars
\* is made of, the file was at some time since the last md_refresh, except for a table that a
\* load had read, and not yet kept, when md_refresh dropped the others.
\* reader.py: read_file, clear_cache; app.py: refresh.
THEOREM CacheIsFresh == WatchSpec => []CacheFresh
<1>1. WatchInit => DeskInv /\ WatchInv
      BY WatchStarts
<1>2. DeskInv /\ WatchInv /\ [WatchNext]_watchVars => (DeskInv /\ WatchInv)'
      BY WatchStep
<1>3. DeskInv /\ WatchInv => CacheFresh
  <2> SUFFICES ASSUME DeskInv, WatchInv PROVE CacheFresh
      OBVIOUS
  <2>1. CacheOK(cache, config.cacheFiles)
        BY DEF DeskInv, ReaderInv
  <2>2. DOMAIN cache = 1..Len(cache)
        BY <2>1, LenProperties DEF CacheOK
  <2> QED BY <2>1, <2>2 DEF CacheOK, WatchInv, Known, CacheFresh
<1> QED BY <1>1, <1>2, <1>3, PTL DEF WatchSpec
=============================================================================
