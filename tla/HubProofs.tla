----------------------------- MODULE HubProofs ------------------------------
(***************************************************************************)
(* The hubs of the blotter, for any accepted topology, any tapes and any   *)
(* way of cutting and interleaving them: what the tables hold is what the  *)
(* tapes say, a link stays, and the walk to the root of a family ends at   *)
(* its top.                                                                *)
(***************************************************************************)
EXTENDS BlotterDesk, SequenceTheorems, FiniteSetTheorems, WellFoundedInduction, TLAPS

\* A set of naturals has a least element.
LEMMA LeastElement ==
    ASSUME NEW T, T \subseteq Nat, T # {}
    PROVE  \E x \in T : \A y \in T : x <= y
<1> DEFINE R == OpToRel(<, Nat)
<1>1. IsWellFoundedOn(R, Nat)
      BY NatLessThanWellFounded
<1>2. \A x, y \in Nat : x < y => <<x, y>> \in R
      BY DEF OpToRel
<1>   HIDE DEF R
<1>3. PICK x \in T : \A y \in T : ~ (<<y, x>> \in R)
      BY <1>1, WFMin
<1>4. \A y \in T : ~(y < x)
      BY <1>2, <1>3
<1> QED BY <1>3, <1>4

-----------------------------------------------------------------------------
\* A batch through the fold

\* One message more.
Next1(was, hub, m) ==
    IF m.kind = "bad" THEN was
    ELSE LET map == Record(was.links, m.key, ExtOf(hub, m)) IN
         [links  |-> map,
          rows   |-> Put(was.rows, <<hub, m.key>>,
                         [orderId |-> m.orderId, ext |-> Sticky(map, m.key),
                          cum |-> m.cum, leaves |-> m.leaves]),
          events |-> Put(was.events, <<hub, m.id>>, m.key)]

Empty(hub) == [links |-> links[hub], rows |-> EmptyMap, events |-> EmptyMap]

\* The fold message by message, to the n-th after position i.
Folds(f, hub, i, n) ==
    /\ f = [k \in 0..n |-> f[k]]
    /\ f[0] = Empty(hub)
    /\ \A k \in 1..n : f[k] = Next1(f[k - 1], hub, tape[hub][i + k])

LEMMA FoldsExist ==
    ASSUME NEW hub, NEW i \in Nat, NEW n \in Nat
    PROVE  \E f : Folds(f, hub, i, n)
<1> DEFINE Good(m) == \E f : Folds(f, hub, i, m)
           bad == {m \in 0..n : ~Good(m)}
<1>1. CASE bad # {}
  <2>1. bad \subseteq Nat
        OBVIOUS
  <2> HIDE DEF bad
  <2>2. PICK m \in bad : \A k \in bad : m <= k
        BY <1>1, <2>1, LeastElement
  <2> USE DEF bad
  <2>3. m \in Nat /\ m <= n /\ ~Good(m)
        BY <2>2
  <2>4. m # 0
    <3> DEFINE g == [k \in 0..0 |-> Empty(hub)]
    <3>1. g[0] = Empty(hub) /\ g = [k \in 0..0 |-> g[k]]
          OBVIOUS
    <3> HIDE DEF g
    <3>2. Folds(g, hub, i, 0)
          BY <3>1 DEF Folds
    <3> QED BY <2>3, <3>2
  <2> DEFINE k == m - 1
  <2>5. k \in Nat /\ k + 1 = m /\ k \in 0..n /\ ~(m <= k)
        BY <2>3, <2>4
  <2>6. Good(k)
        BY <2>2, <2>5
  <2>7. PICK f : Folds(f, hub, i, k)
        BY <2>6
  <2> HIDE DEF k
  <2> DEFINE g == [x \in 0..m |-> IF x <= k THEN f[x] ELSE Next1(f[k], hub, tape[hub][i + m])]
  <2>8. ASSUME NEW x \in 1..m PROVE g[x] = Next1(g[x - 1], hub, tape[hub][i + x])
    <3>1. CASE x <= k
      <4>1. x \in 1..k /\ x - 1 \in 0..m /\ x - 1 <= k /\ x \in 0..m
            BY <2>3, <2>5, <3>1
      <4>2. f[x] = Next1(f[x - 1], hub, tape[hub][i + x])
            BY <2>7, <4>1 DEF Folds
      <4>3. g[x] = f[x] /\ g[x - 1] = f[x - 1]
            BY <3>1, <4>1
      <4> QED BY <4>2, <4>3
    <3>2. CASE x = m
      <4>1. x - 1 = k /\ k \in 0..m /\ ~(x <= k) /\ x \in 0..m /\ k <= k
            BY <2>3, <2>5, <3>2
      <4>2. g[x] = Next1(f[k], hub, tape[hub][i + m]) /\ g[k] = f[k]
            BY <3>2, <4>1
      <4> QED BY <3>2, <4>1, <4>2
    <3> QED BY <2>3, <2>5, <3>1, <3>2
  <2>9. g[0] = Empty(hub)
    <3>1. 0 \in 0..m /\ 0 <= k
          BY <2>3, <2>5
    <3> QED BY <2>7, <3>1 DEF Folds
  <2>10. g = [x \in 0..m |-> g[x]]
         OBVIOUS
  <2> HIDE DEF g
  <2>11. Folds(g, hub, i, m)
         BY <2>8, <2>9, <2>10 DEF Folds
  <2> QED BY <2>3, <2>11
<1>2. CASE bad = {}
      BY <1>2
<1> QED BY <1>1, <1>2

\* What Folded is.
LEMMA FoldedIs ==
    ASSUME NEW hub, NEW i \in Nat, NEW n \in Nat
    PROVE  \E f : Folds(f, hub, i, n) /\ Folded(hub, i + 1, i + n) = f[n]
<1> DEFINE j == i + 1
           Step(was, k) == LET m == tape[hub][k] IN
               IF m.kind = "bad" THEN was
               ELSE LET map == Record(was.links, m.key, ExtOf(hub, m)) IN
                    [links  |-> map,
                     rows   |-> Put(was.rows, <<hub, m.key>>,
                                    [orderId |-> m.orderId, ext |-> Sticky(map, m.key),
                                     cum |-> m.cum, leaves |-> m.leaves]),
                     events |-> Put(was.events, <<hub, m.id>>, m.key)]
           Body(g) == [k \in (j - 1)..(i + n) |-> IF k < j THEN Empty(hub) ELSE Step(g[k - 1], k)]
           after == CHOOSE g : g = Body(g)
<1>1. Folded(hub, j, i + n) = after[i + n]
      BY DEF Folded, Empty
<1>2. PICK f : Folds(f, hub, i, n)
      BY FoldsExist
<1>3. \A was, k : Step(was, k) = Next1(was, hub, tape[hub][k])
      BY DEF Next1
<1> HIDE DEF Step
<1> DEFINE g == [k \in (j - 1)..(i + n) |-> f[k - i]]
<1>4. \A k \in (j - 1)..(i + n) : g[k] = Body(g)[k]
  <2> SUFFICES ASSUME NEW k \in (j - 1)..(i + n) PROVE g[k] = Body(g)[k]
      OBVIOUS
  <2>1. CASE k < j
    <3>1. k - i = 0
          BY <2>1
    <3> QED BY <1>2, <2>1, <3>1 DEF Folds
  <2>2. CASE ~(k < j)
    <3>1. k - i \in 1..n /\ k - 1 \in (j - 1)..(i + n) /\ i + (k - i) = k
          BY <2>2
    <3>2. f[k - i] = Next1(f[(k - i) - 1], hub, tape[hub][k])
          BY <1>2, <3>1 DEF Folds
    <3>3. g[k - 1] = f[(k - i) - 1]
      <4>1. (k - 1) - i = (k - i) - 1
            OBVIOUS
      <4> QED BY <3>1, <4>1
    <3> QED BY <1>3, <2>2, <3>2, <3>3
  <2> QED BY <2>1, <2>2
<1>5. g = Body(g)
  <2> HIDE DEF j
  <2> QED BY <1>4
<1>6. after = Body(after)
  <2> HIDE DEF Body, g
  <2> QED BY <1>5
<1> HIDE DEF after
<1> DEFINE h == [k \in 0..n |-> after[i + k]]
<1>7. \A k \in 0..n : i + k \in (j - 1)..(i + n) /\ (k = 0 \/ ~(i + k < j))
      OBVIOUS
<1>8. \A k \in 0..n : after[i + k] = IF i + k < j THEN Empty(hub) ELSE Step(after[(i + k) - 1], i + k)
  <2>1. \A k \in (j - 1)..(i + n) : after[k] = IF k < j THEN Empty(hub) ELSE Step(after[k - 1], k)
    <3> HIDE DEF j
    <3> QED BY <1>6
  <2> QED BY <1>7, <2>1
<1>9. ASSUME NEW k \in 1..n PROVE h[k] = Next1(h[k - 1], hub, tape[hub][i + k])
  <2>1. k \in 0..n /\ k - 1 \in 0..n /\ ~(i + k < j) /\ (i + k) - 1 = i + (k - 1)
        OBVIOUS
  <2>2. h[k] = after[i + k] /\ h[k - 1] = after[i + (k - 1)]
        BY <2>1
  <2>3. after[i + k] = Step(after[(i + k) - 1], i + k)
        BY <1>8, <2>1
  <2> QED BY <1>3, <2>1, <2>2, <2>3
<1>10. h[0] = Empty(hub)
  <2>1. 0 \in 0..n /\ i + 0 < j
        OBVIOUS
  <2>2. h[0] = after[i + 0]
        BY <2>1
  <2> QED BY <1>8, <2>1, <2>2
<1>11. h = [k \in 0..n |-> h[k]] /\ h[n] = after[i + n]
       OBVIOUS
<1> HIDE DEF h
<1>12. Folds(h, hub, i, n)
       BY <1>9, <1>10, <1>11 DEF Folds
<1> QED BY <1>1, <1>11, <1>12

-----------------------------------------------------------------------------
\* What the tables say of the first n messages of a tape

IsFix(t, p) == t[p].kind = "fix"
ExtAt(up, t, p) == IF up = Nothing THEN Nothing ELSE t[p].ext

\* A link is the first one that the tape names.
LinkTold(map, up, t, n, k) ==
    \E p \in 1..n : /\ IsFix(t, p) /\ t[p].key = k
                    /\ ExtAt(up, t, p) # Nothing /\ map[k] = ExtAt(up, t, p)
                    /\ \A q \in 1..p - 1 : IsFix(t, q) /\ t[q].key = k => ExtAt(up, t, q) = Nothing

LinksTell(map, up, t, n) ==
    /\ \A k \in DOMAIN map : LinkTold(map, up, t, n, k)
    /\ \A p \in 1..n : IsFix(t, p) /\ ExtAt(up, t, p) # Nothing => t[p].key \in DOMAIN map

\* A row is of a message between i + 1 and n, its link the one of the map.
RowTold(row, map, t, i, n, k) ==
    \E p \in i + 1..n : /\ IsFix(t, p) /\ t[p].key = k /\ row.orderId = t[p].orderId
                        /\ row.ext = Sticky(map, k) /\ row.cum = t[p].cum

RowsTell(rows, map, hub, t, i, n) ==
    /\ \A o \in DOMAIN rows : o = <<hub, o[2]>> /\ RowTold(rows[o], map, t, i, n, o[2])
    /\ \A p \in i + 1..n : IsFix(t, p) => <<hub, t[p].key>> \in DOMAIN rows

\* An id is of the last message that has it.
IdTold(key, t, i, n, id) ==
    \E p \in i + 1..n : /\ IsFix(t, p) /\ t[p].id = id /\ t[p].key = key
                        /\ \A q \in p + 1..n : IsFix(t, q) => t[q].id # id

EventsTell(owners, hub, t, i, n) ==
    /\ \A x \in DOMAIN owners : x = <<hub, x[2]>> /\ IdTold(owners[x], t, i, n, x[2])
    /\ \A p \in i + 1..n : IsFix(t, p) => <<hub, t[p].id>> \in DOMAIN owners

PutIs(f, x, g) == /\ DOMAIN g = DOMAIN f \cup {x}
                  /\ \A z \in DOMAIN f : z # x => g[z] = f[z]

LEMMA Puts ==
    ASSUME NEW f, NEW x, NEW y
    PROVE  PutIs(f, x, Put(f, x, y)) /\ Put(f, x, y)[x] = y
BY DEF Put, PutIs

LEMMA RecordTells ==
    ASSUME NEW map, NEW up, NEW t, NEW n \in Nat, LinksTell(map, up, t, n), IsFix(t, n + 1)
    PROVE  LET new == Record(map, t[n + 1].key, ExtAt(up, t, n + 1))
           IN  /\ LinksTell(new, up, t, n + 1)
               /\ \A k : k # t[n + 1].key => Sticky(new, k) = Sticky(map, k)
               /\ \A k \in DOMAIN map : k \in DOMAIN new /\ new[k] = map[k]
<1> DEFINE p == n + 1
           key == t[p].key
           ext == ExtAt(up, t, p)
           new == Record(map, key, ext)
<1>1. /\ p \in 1..p /\ 1..n \subseteq 1..p /\ \A q \in 1..p : q = p \/ q \in 1..n
      /\ 1..p - 1 = 1..n
      OBVIOUS
<1>2. /\ \A k \in DOMAIN map : LinkTold(map, up, t, n, k)
      /\ \A q \in 1..n : IsFix(t, q) /\ ExtAt(up, t, q) # Nothing => t[q].key \in DOMAIN map
      BY DEF LinksTell
<1>3. CASE ext # Nothing /\ key \notin DOMAIN map
  <2>1. new = Put(map, key, ext)
        BY <1>3 DEF Record
  <2>2. DOMAIN new = DOMAIN map \cup {key} /\ new[key] = ext /\ \A z \in DOMAIN map : new[z] = map[z]
    <3>1. PutIs(map, key, Put(map, key, ext)) /\ Put(map, key, ext)[key] = ext
          BY Puts
    <3> HIDE DEF new, key, ext
    <3>2. PutIs(map, key, new) /\ new[key] = ext
          BY <2>1, <3>1
    <3> QED BY <1>3, <3>2 DEF PutIs
  <2> HIDE DEF new
  <2>3. ASSUME NEW k \in DOMAIN map PROVE LinkTold(new, up, t, p, k)
    <3>1. LinkTold(map, up, t, n, k) /\ new[k] = map[k]
          BY <1>2, <2>2
    <3> HIDE DEF p
    <3> QED BY <1>1, <3>1 DEF LinkTold
  <2>4. LinkTold(new, up, t, p, key)
    <3>1. \A q \in 1..p - 1 : IsFix(t, q) /\ t[q].key = key => ExtAt(up, t, q) = Nothing
          BY <1>1, <1>2, <1>3
    <3> QED BY <1>1, <1>3, <2>2, <3>1 DEF LinkTold
  <2>5. \A q \in 1..p : IsFix(t, q) /\ ExtAt(up, t, q) # Nothing => t[q].key \in DOMAIN new
        BY <1>1, <1>2, <2>2
  <2>6. LinksTell(new, up, t, p)
    <3> HIDE DEF p
    <3> QED BY <2>2, <2>3, <2>4, <2>5 DEF LinksTell
  <2>7. \A k : k # key => Sticky(new, k) = Sticky(map, k)
        BY <2>2 DEF Sticky
  <2>8. \A k \in DOMAIN map : k \in DOMAIN new /\ new[k] = map[k]
        BY <2>2
  <2> USE DEF new
  <2> HIDE DEF p, key, ext
  <2>9. LinksTell(Record(map, key, ext), up, t, p)
        BY <2>6
  <2>10. \A k : k # key => Sticky(Record(map, key, ext), k) = Sticky(map, k)
         BY <2>7
  <2>11. \A k \in DOMAIN map : k \in DOMAIN Record(map, key, ext) /\ Record(map, key, ext)[k] = map[k]
         BY <2>8
  <2> QED BY <2>9, <2>10, <2>11 DEF p, key, ext
<1>4. CASE ~(ext # Nothing /\ key \notin DOMAIN map)
  <2>1. new = map
        BY <1>4 DEF Record
  <2>2. ASSUME NEW k \in DOMAIN map PROVE LinkTold(map, up, t, p, k)
    <3>1. LinkTold(map, up, t, n, k)
          BY <1>2
    <3> HIDE DEF p
    <3> QED BY <1>1, <3>1 DEF LinkTold
  <2>3. \A q \in 1..p : IsFix(t, q) /\ ExtAt(up, t, q) # Nothing => t[q].key \in DOMAIN map
        BY <1>1, <1>2, <1>4
  <2> HIDE DEF new
  <2>4. LinksTell(map, up, t, p)
    <3> HIDE DEF p
    <3> QED BY <2>2, <2>3 DEF LinksTell
  <2> QED BY <2>1, <2>4 DEF new
<1> QED BY <1>3, <1>4

\* The fold keeps saying what the tape says.
FoldTells(r, up, hub, t, i, n) ==
    /\ LinksTell(r.links, up, t, n)
    /\ RowsTell(r.rows, r.links, hub, t, i, n)
    /\ EventsTell(r.events, hub, t, i, n)
    /\ \A k \in DOMAIN links[hub] : k \in DOMAIN r.links /\ r.links[k] = links[hub][k]

LEMMA NextTells ==
    ASSUME NEW hub, NEW i \in Nat, NEW n \in Nat, i <= n, NEW r,
           FoldTells(r, Upstream(config, hub), hub, tape[hub], i, n),
           tape[hub][n + 1].kind \in {"fix", "bad"}
    PROVE  FoldTells(Next1(r, hub, tape[hub][n + 1]), Upstream(config, hub), hub, tape[hub], i, n + 1)
<1> DEFINE up == Upstream(config, hub)
           t == tape[hub]
           p == n + 1
           m == t[p]
           map == Record(r.links, m.key, ExtOf(hub, m))
           row == [orderId |-> m.orderId, ext |-> Sticky(map, m.key), cum |-> m.cum, leaves |-> m.leaves]
           new == Next1(r, hub, m)
<1> HIDE DEF up, t
<1>1. /\ p \in i + 1..p /\ i + 1..n \subseteq i + 1..p /\ \A q \in i + 1..p : q = p \/ q \in i + 1..n
      /\ p + 1..p = {} /\ \A q \in i + 1..n : \A x \in q + 1..p : x = p \/ x \in q + 1..n
      /\ p \in 1..p /\ 1..n \subseteq 1..p /\ \A q \in 1..p : q = p \/ q \in 1..n
      OBVIOUS
<1>2. FoldTells(r, up, hub, t, i, n) /\ m.kind \in {"fix", "bad"}
      BY DEF up, t
<1>3. CASE m.kind = "bad"
  <2>1. new = r /\ ~IsFix(t, p)
        BY <1>3 DEF Next1, IsFix
  <2>2. LinksTell(r.links, up, t, p)
    <3>1. LinksTell(r.links, up, t, n)
          BY <1>2 DEF FoldTells
    <3> HIDE DEF p
    <3> QED BY <1>1, <2>1, <3>1 DEF LinksTell, LinkTold
  <2>3. RowsTell(r.rows, r.links, hub, t, i, p)
    <3>1. RowsTell(r.rows, r.links, hub, t, i, n)
          BY <1>2 DEF FoldTells
    <3> HIDE DEF p
    <3> QED BY <1>1, <2>1, <3>1 DEF RowsTell, RowTold
  <2>4. EventsTell(r.events, hub, t, i, p)
    <3>1. EventsTell(r.events, hub, t, i, n)
          BY <1>2 DEF FoldTells
    <3> HIDE DEF p
    <3>2. ASSUME NEW key, NEW id, IdTold(key, t, i, n, id) PROVE IdTold(key, t, i, p, id)
          BY <1>1, <2>1, <3>2 DEF IdTold
    <3> QED BY <1>1, <2>1, <3>1, <3>2 DEF EventsTell
  <2> HIDE DEF new, p
  <2>5. FoldTells(new, up, hub, t, i, p)
        BY <1>2, <2>1, <2>2, <2>3, <2>4 DEF FoldTells
  <2> QED BY <2>5 DEF new, p, up, t
<1>4. CASE m.kind = "fix"
  <2>1. IsFix(t, p) /\ ExtOf(hub, m) = ExtAt(up, t, p) /\ m.kind # "bad"
        BY <1>4 DEF IsFix, ExtOf, ExtAt, up
  <2>2. /\ LinksTell(map, up, t, p)
        /\ \A k : k # m.key => Sticky(map, k) = Sticky(r.links, k)
        /\ \A k \in DOMAIN r.links : k \in DOMAIN map /\ map[k] = r.links[k]
        BY <1>2, <2>1, RecordTells DEF FoldTells
  <2> HIDE DEF map
  <2>3. new = [links |-> map, rows |-> Put(r.rows, <<hub, m.key>>, row),
               events |-> Put(r.events, <<hub, m.id>>, m.key)]
        BY <2>1 DEF Next1, map
  <2>4. /\ new.links = map /\ new.rows = Put(r.rows, <<hub, m.key>>, row)
        /\ new.events = Put(r.events, <<hub, m.id>>, m.key)
        BY <2>3
  <2>5. row.orderId = m.orderId /\ row.ext = Sticky(map, m.key) /\ row.cum = m.cum
        OBVIOUS
  <2> HIDE DEF new, row
  <2>6. RowsTell(new.rows, map, hub, t, i, p)
    <3> DEFINE o0 == <<hub, m.key>>
    <3>1. RowsTell(r.rows, r.links, hub, t, i, n)
          BY <1>2 DEF FoldTells
    <3>2. /\ DOMAIN new.rows = DOMAIN r.rows \cup {o0} /\ new.rows[o0] = row
          /\ \A z \in DOMAIN r.rows : z # o0 => new.rows[z] = r.rows[z]
      <4>1. PutIs(r.rows, o0, Put(r.rows, o0, row)) /\ Put(r.rows, o0, row)[o0] = row
            BY Puts
      <4>2. PutIs(r.rows, o0, new.rows) /\ new.rows[o0] = row
            BY <2>4, <4>1
      <4> HIDE DEF o0
      <4> QED BY <4>2 DEF PutIs
    <3>3. RowTold(row, map, t, i, p, m.key)
          BY <1>1, <2>1, <2>5 DEF RowTold
    <3>4. ASSUME NEW o \in DOMAIN r.rows, o # o0
          PROVE  o = <<hub, o[2]>> /\ RowTold(new.rows[o], map, t, i, p, o[2])
      <4>1. o = <<hub, o[2]>> /\ RowTold(r.rows[o], r.links, t, i, n, o[2])
            BY <3>1 DEF RowsTell
      <4>2. Sticky(map, o[2]) = Sticky(r.links, o[2])
            BY <2>2, <3>4, <4>1
      <4>3. new.rows[o] = r.rows[o]
            BY <3>2, <3>4
      <4> HIDE DEF p
      <4> QED BY <1>1, <4>1, <4>2, <4>3 DEF RowTold
    <3>5. o0 = <<hub, o0[2]>> /\ o0[2] = m.key
          OBVIOUS
    <3>6. \A q \in i + 1..p : IsFix(t, q) => <<hub, t[q].key>> \in DOMAIN new.rows
          BY <1>1, <3>1, <3>2 DEF RowsTell
    <3> HIDE DEF o0, p
    <3>7. ASSUME NEW o \in DOMAIN new.rows
          PROVE  o = <<hub, o[2]>> /\ RowTold(new.rows[o], map, t, i, p, o[2])
      <4>1. CASE o = o0
            BY <3>2, <3>3, <3>5, <4>1
      <4>2. CASE o # o0
            BY <3>2, <3>4, <3>7, <4>2
      <4> QED BY <4>1, <4>2
    <3> QED BY <3>6, <3>7 DEF RowsTell
  <2>7. EventsTell(new.events, hub, t, i, p)
    <3> DEFINE x0 == <<hub, m.id>>
    <3>1. EventsTell(r.events, hub, t, i, n)
          BY <1>2 DEF FoldTells
    <3>2. /\ DOMAIN new.events = DOMAIN r.events \cup {x0} /\ new.events[x0] = m.key
          /\ \A z \in DOMAIN r.events : z # x0 => new.events[z] = r.events[z]
      <4>1. PutIs(r.events, x0, Put(r.events, x0, m.key)) /\ Put(r.events, x0, m.key)[x0] = m.key
            BY Puts
      <4>2. PutIs(r.events, x0, new.events) /\ new.events[x0] = m.key
            BY <2>4, <4>1
      <4> HIDE DEF x0, m
      <4> QED BY <4>2 DEF PutIs
    <3>3. IdTold(m.key, t, i, p, m.id)
          BY <1>1, <2>1 DEF IdTold
    <3>4. ASSUME NEW x \in DOMAIN r.events, x # x0
          PROVE  x = <<hub, x[2]>> /\ IdTold(new.events[x], t, i, p, x[2])
      <4>1. x = <<hub, x[2]>> /\ IdTold(r.events[x], t, i, n, x[2])
            BY <3>1 DEF EventsTell
      <4>2. x[2] # m.id /\ new.events[x] = r.events[x]
            BY <3>2, <3>4, <4>1
      <4>3. t[p].id = m.id
            OBVIOUS
      <4> HIDE DEF p, m
      <4> QED BY <1>1, <4>1, <4>2, <4>3 DEF IdTold
    <3>5. x0 = <<hub, x0[2]>> /\ x0[2] = m.id
          OBVIOUS
    <3>6. \A q \in i + 1..p : IsFix(t, q) => <<hub, t[q].id>> \in DOMAIN new.events
          BY <1>1, <3>1, <3>2 DEF EventsTell
    <3> HIDE DEF x0, p
    <3>7. ASSUME NEW x \in DOMAIN new.events
          PROVE  x = <<hub, x[2]>> /\ IdTold(new.events[x], t, i, p, x[2])
      <4>1. CASE x = x0
            BY <3>2, <3>3, <3>5, <4>1
      <4>2. CASE x # x0
            BY <3>2, <3>4, <3>7, <4>2
      <4> QED BY <4>1, <4>2
    <3> QED BY <3>6, <3>7 DEF EventsTell
  <2>8. \A k \in DOMAIN links[hub] : k \in DOMAIN map /\ map[k] = links[hub][k]
        BY <1>2, <2>2 DEF FoldTells
  <2> HIDE DEF p
  <2>9. FoldTells(new, up, hub, t, i, p)
        BY <2>2, <2>4, <2>6, <2>7, <2>8 DEF FoldTells
  <2> QED BY <2>9 DEF new, p, up, t
<1> QED BY <1>2, <1>3, <1>4

\* What a batch makes of what was there.
LEMMA FoldedTells ==
    ASSUME NEW hub, NEW i \in Nat, NEW n \in Nat,
           LinksTell(links[hub], Upstream(config, hub), tape[hub], i),
           \A p \in i + 1..i + n : tape[hub][p].kind \in {"fix", "bad"}
    PROVE  FoldTells(Folded(hub, i + 1, i + n), Upstream(config, hub), hub, tape[hub], i, i + n)
<1> DEFINE up == Upstream(config, hub)
           t == tape[hub]
<1>1. PICK f : Folds(f, hub, i, n) /\ Folded(hub, i + 1, i + n) = f[n]
      BY FoldedIs
<1> DEFINE Good(k) == FoldTells(f[k], up, hub, t, i, i + k)
           bad == {k \in 0..n : ~Good(k)}
<1>2. Good(0)
  <2>1. f[0] = Empty(hub)
        BY <1>1 DEF Folds
  <2>2. f[0].links = links[hub] /\ f[0].rows = EmptyMap /\ f[0].events = EmptyMap
        BY <2>1 DEF Empty
  <2>3. DOMAIN EmptyMap = {} /\ i + 1..i = {} /\ i + 0 = i
        BY DEF EmptyMap
  <2> HIDE DEF up, t
  <2>4. LinksTell(f[0].links, up, t, i)
        BY <2>2 DEF up, t
  <2>5. RowsTell(f[0].rows, f[0].links, hub, t, i, i)
        BY <2>2, <2>3 DEF RowsTell
  <2>6. EventsTell(f[0].events, hub, t, i, i)
        BY <2>2, <2>3 DEF EventsTell
  <2> QED BY <2>2, <2>3, <2>4, <2>5, <2>6 DEF FoldTells
<1>3. CASE bad # {}
  <2>1. bad \subseteq Nat
        OBVIOUS
  <2> HIDE DEF bad
  <2>2. PICK m \in bad : \A k \in bad : m <= k
        BY <1>3, <2>1, LeastElement
  <2> USE DEF bad
  <2>3. m \in 0..n /\ ~Good(m)
        BY <2>2
  <2>4. m # 0
        BY <1>2, <2>3
  <2> DEFINE k == m - 1
  <2>5. k \in Nat /\ k + 1 = m /\ k \in 0..n /\ ~(m <= k) /\ m \in 1..n
        BY <2>3, <2>4
  <2>6. Good(k)
        BY <2>2, <2>5
  <2> HIDE DEF bad, k
  <2>7. f[m] = Next1(f[k], hub, t[i + m])
    <3>1. m - 1 = k
          BY <2>5
    <3> QED BY <1>1, <2>5, <3>1 DEF Folds
  <2>8. i + k \in Nat /\ i <= i + k /\ (i + k) + 1 = i + m /\ i + m \in i + 1..i + n
        BY <2>5
  <2>9. t[i + m].kind \in {"fix", "bad"}
        BY <2>8
  <2>10. FoldTells(Next1(f[k], hub, t[(i + k) + 1]), up, hub, t, i, (i + k) + 1)
         BY <2>6, <2>8, <2>9, NextTells
  <2>11. FoldTells(f[m], up, hub, t, i, i + m)
    <3>1. Next1(f[k], hub, t[(i + k) + 1]) = f[m]
          BY <2>7, <2>8
    <3> QED BY <2>8, <2>10, <3>1
  <2> QED BY <2>3, <2>11
<1>4. CASE bad = {}
  <2>1. n \in 0..n
        OBVIOUS
  <2> QED BY <1>1, <1>4, <2>1
<1> QED BY <1>3, <1>4
-----------------------------------------------------------------------------
\* The inductive invariant

\* A published row is of a message that was read, its link the one that sticks.
RowIs(row, map, t, n, k) ==
    \E p \in 1..n : /\ IsFix(t, p) /\ t[p].key = k /\ row.orderId = t[p].orderId /\ row.cum = t[p].cum
                    /\ row.ext # Nothing => k \in DOMAIN map /\ row.ext = map[k]

IdIs(key, t, n, id) == \E p \in 1..n : IsFix(t, p) /\ t[p].id = id /\ t[p].key = key

HubTypes ==
    /\ config \in Configs /\ Accepted(config)
    /\ tape \in Tapes /\ DOMAIN tape = Names(config)
    /\ DOMAIN read = Names(config) /\ DOMAIN links = Names(config)
    /\ \A n \in Names(config) : read[n] \in 0..Len(tape[n])
    /\ failures \in Nat

TablesTell ==
    /\ \A n \in Names(config) : LinksTell(links[n], Upstream(config, n), tape[n], read[n])
    /\ \A o \in DOMAIN latest : /\ o = <<o[1], o[2]>> /\ o[1] \in Names(config)
                                /\ RowIs(latest[o], links[o[1]], tape[o[1]], read[o[1]], o[2])
    /\ \A x \in DOMAIN ids : /\ x = <<x[1], x[2]>> /\ x[1] \in Names(config)
                             /\ IdIs(ids[x], tape[x[1]], read[x[1]], x[2])

\* Nothing is missing while no stream has failed.
NothingLost ==
    /\ \A n \in Names(config) : \A p \in 1..read[n] :
          IsFix(tape[n], p) => <<n, tape[n][p].key>> \in DOMAIN latest /\ <<n, tape[n][p].id>> \in DOMAIN ids
    /\ \A o \in DOMAIN latest : latest[o].ext = Sticky(links[o[1]], o[2])
    /\ \A x \in DOMAIN ids : IdTold(ids[x], tape[x[1]], 0, read[x[1]], x[2])

HubInv == HubTypes /\ TablesTell /\ (failures = 0 => NothingLost)

LEMMA HubInitInv == Init => HubInv
<1> SUFFICES ASSUME Init PROVE HubInv
    OBVIOUS
<1>1. DOMAIN EmptyMap = {} /\ 1..0 = {}
      BY DEF EmptyMap
<1>2. HubTypes
  <2>1. \A n \in Names(config) : Len(tape[n]) \in Nat
        BY TapeAssumption DEF Init
  <2> QED BY <2>1 DEF HubTypes, Init
<1>3. \A n \in Names(config) : read[n] = 0 /\ links[n] = EmptyMap
      BY DEF Init
<1>4. latest = EmptyMap /\ ids = EmptyMap
      BY DEF Init
<1>5. TablesTell
      BY <1>1, <1>3, <1>4 DEF TablesTell, LinksTell
<1>6. NothingLost
      BY <1>1, <1>3, <1>4 DEF NothingLost
<1> QED BY <1>2, <1>5, <1>6 DEF HubInv

\* What one batch does, in terms of what the tape says.
Told(new, hub, i, j) ==
    /\ FoldTells(new, Upstream(config, hub), hub, tape[hub], i, j)
    /\ i = read[hub] /\ i \in Nat /\ j \in Nat /\ i < j /\ j <= Len(tape[hub])
    /\ config' = config /\ tape' = tape
    /\ links' = [links EXCEPT ![hub] = new.links] /\ read' = [read EXCEPT ![hub] = j]
    /\ latest' = latest \/ latest' = Over(new.rows, latest)
    /\ ids' = ids \/ ids' = Over(new.events, ids)
    /\ failures' \in Nat
    /\ failures' = 0 => /\ failures = 0
                        /\ latest' = Over(new.rows, latest) /\ ids' = Over(new.events, ids)

LEMMA BatchTells ==
    ASSUME HubInv, NEW hub \in Names(config), NEW failing \in SUBSET Streams,
           NEW n \in 1..Len(tape[hub]), Batch(hub, n, failing)
    PROVE  \E new, i, j : Told(new, hub, i, j)
<1> DEFINE i == read[hub]
           j == i + n
           new == Folded(hub, i + 1, j)
<1>1. /\ Len(tape[hub]) \in Nat /\ DOMAIN tape[hub] = 1..Len(tape[hub])
      /\ \A p \in DOMAIN tape[hub] : tape[hub][p].kind \in {"fix", "bad"}
  <2>1. tape \in Tapes /\ hub \in DOMAIN tape
        BY DEF HubInv, HubTypes
  <2>2. tape[hub] \in Seq({tape[hub][p] : p \in DOMAIN tape[hub]})
        BY <2>1, TapeAssumption
  <2>3. \A p \in DOMAIN tape[hub] : tape[hub][p].kind \in {"fix", "bad"}
        BY <2>1, TapeAssumption
  <2> QED BY <2>2, <2>3
<1>2. i \in 0..Len(tape[hub]) /\ failures \in Nat
      BY DEF HubInv, HubTypes
<1>3. n \in Nat /\ i \in Nat /\ j \in Nat /\ i < j /\ j <= Len(tape[hub])
      BY <1>1, <1>2 DEF Batch
<1>4. FoldTells(new, Upstream(config, hub), hub, tape[hub], i, j)
  <2>1. LinksTell(links[hub], Upstream(config, hub), tape[hub], i)
        BY DEF HubInv, TablesTell
  <2>2. \A p \in i + 1..i + n : tape[hub][p].kind \in {"fix", "bad"}
        BY <1>1, <1>3
  <2> HIDE DEF i
  <2>3. FoldTells(Folded(hub, i + 1, i + n), Upstream(config, hub), hub, tape[hub], i, i + n)
        BY <1>3, <2>1, <2>2, FoldedTells, Zenon
  <2> QED BY <2>3
<1>5. Cardinality(failing) \in Nat /\ (Cardinality(failing) = 0 => failing = {})
  <2>1. IsFiniteSet({"state", "events", "errors"})
    <3>1. IsFiniteSet({"state"})
          BY FS_Singleton
    <3>2. IsFiniteSet({"state"} \cup {"events"})
          BY <3>1, FS_AddElement
    <3>3. IsFiniteSet(({"state"} \cup {"events"}) \cup {"errors"})
          BY <3>2, FS_AddElement
    <3>4. ({"state"} \cup {"events"}) \cup {"errors"} = {"state", "events", "errors"}
          OBVIOUS
    <3> QED BY <3>3, <3>4
  <2>2. IsFiniteSet(failing)
        BY <2>1, FS_Subset DEF Streams
  <2> QED BY <2>2, FS_CardinalityType, FS_EmptySet
<1>6. /\ config' = config /\ tape' = tape
      /\ links' = [links EXCEPT ![hub] = new.links] /\ read' = [read EXCEPT ![hub] = j]
      /\ latest' = IF "state" \in failing THEN latest ELSE Over(new.rows, latest)
      /\ ids'    = IF "events" \in failing THEN ids ELSE Over(new.events, ids)
      /\ failures' = failures + Cardinality(failing)
      BY DEF Batch
<1>7. failures' \in Nat /\ (failures' = 0 => failures = 0 /\ failing = {})
      BY <1>2, <1>5, <1>6
<1> HIDE DEF new, j
<1>8. Told(new, hub, i, j)
  <2>1. latest' = latest \/ latest' = Over(new.rows, latest)
        BY <1>6
  <2>2. ids' = ids \/ ids' = Over(new.events, ids)
        BY <1>6
  <2>3. failures' = 0 => /\ failures = 0
                         /\ latest' = Over(new.rows, latest) /\ ids' = Over(new.events, ids)
        BY <1>6, <1>7
  <2> QED BY <1>3, <1>4, <1>6, <1>7, <2>1, <2>2, <2>3 DEF Told
<1> QED BY <1>8

OverIs(new, old, g) == /\ DOMAIN g = DOMAIN new \cup DOMAIN old
                       /\ \A x \in DOMAIN new : g[x] = new[x]
                       /\ \A x \in DOMAIN old : x \notin DOMAIN new => g[x] = old[x]

LEMMA Overs ==
    ASSUME NEW new, NEW old
    PROVE  OverIs(new, old, Over(new, old))
BY DEF Over, OverIs

\* The links and the read positions only grow.
LEMMA LinksGrow ==
    ASSUME HubTypes, NEW hub \in Names(config), NEW new, NEW i, NEW j, Told(new, hub, i, j)
    PROVE  /\ links'[hub] = new.links /\ read'[hub] = j
           /\ \A n \in Names(config) : n # hub => links'[n] = links[n] /\ read'[n] = read[n]
           /\ DOMAIN links' = DOMAIN links /\ DOMAIN read' = DOMAIN read
           /\ \A n \in Names(config) :
                 /\ read[n] \in Nat /\ read'[n] \in Nat /\ read[n] <= read'[n] /\ read'[n] <= Len(tape[n])
                 /\ \A k \in DOMAIN links[n] : k \in DOMAIN links'[n] /\ links'[n][k] = links[n][k]
<1>1. /\ links'[hub] = new.links /\ read'[hub] = j
      /\ \A n \in Names(config) : n # hub => links'[n] = links[n] /\ read'[n] = read[n]
      /\ DOMAIN links' = DOMAIN links /\ DOMAIN read' = DOMAIN read
      BY DEF Told, HubTypes
<1>2. \A n \in Names(config) : Len(tape[n]) \in Nat
      BY TapeAssumption DEF HubTypes
<1>3. \A n \in Names(config) : read[n] \in Nat /\ read[n] <= Len(tape[n])
      BY <1>2 DEF HubTypes
<1>4. \A k \in DOMAIN links[hub] : k \in DOMAIN new.links /\ new.links[k] = links[hub][k]
      BY DEF Told, FoldTells
<1>5. i = read[hub] /\ j \in Nat /\ i < j /\ j <= Len(tape[hub])
      BY DEF Told
<1>6. \A n \in Names(config) : read'[n] \in Nat /\ read[n] <= read'[n] /\ read'[n] <= Len(tape[n])
      BY <1>1, <1>3, <1>5
<1>7. \A n \in Names(config) :
         \A k \in DOMAIN links[n] : k \in DOMAIN links'[n] /\ links'[n][k] = links[n][k]
      BY <1>1, <1>4
<1> QED BY <1>1, <1>3, <1>6, <1>7

LEMMA BatchInv ==
    ASSUME HubInv, NEW hub \in Names(config), NEW new, NEW i, NEW j, Told(new, hub, i, j)
    PROVE  HubInv'
<1> DEFINE t == tape[hub]
<1>0. /\ OverIs(new.rows, latest, Over(new.rows, latest)) /\ OverIs(new.events, ids, Over(new.events, ids))
      BY Overs
<1>1. HubTypes /\ TablesTell /\ (failures = 0 => NothingLost)
      BY DEF HubInv
<1>2. config' = config /\ tape' = tape /\ Names(config)' = Names(config)
      BY DEF Told
<1>3. HubTypes'
  <2>1. \A n \in Names(config) : Len(tape[n]) \in Nat
        BY <1>1, TapeAssumption DEF HubTypes
  <2>2. \A n \in Names(config) : read'[n] \in 0..Len(tape[n])
        BY <1>1, <2>1, LinksGrow
  <2>3. DOMAIN links' = DOMAIN links /\ DOMAIN read' = DOMAIN read /\ failures' \in Nat
        BY <1>1, LinksGrow DEF Told
  <2> QED BY <1>1, <1>2, <2>2, <2>3 DEF HubTypes, Accepted
<1>4. /\ LinksTell(new.links, Upstream(config, hub), t, j)
      /\ RowsTell(new.rows, new.links, hub, t, i, j) /\ EventsTell(new.events, hub, t, i, j)
      /\ i = read[hub] /\ i \in Nat /\ j \in Nat /\ i < j
      BY DEF Told, FoldTells
<1>5. \A n \in Names(config) : LinksTell(links'[n], Upstream(config, n), tape[n], read'[n])
  <2> SUFFICES ASSUME NEW n \in Names(config) PROVE LinksTell(links'[n], Upstream(config, n), tape[n], read'[n])
      OBVIOUS
  <2>1. CASE n = hub
        BY <1>1, <1>4, <2>1, LinksGrow
  <2>2. CASE n # hub
        BY <1>1, <2>2, LinksGrow DEF TablesTell
  <2> QED BY <2>1, <2>2
<1>6. ASSUME NEW o \in DOMAIN latest'
      PROVE  /\ o = <<o[1], o[2]>> /\ o[1] \in Names(config)
             /\ RowIs(latest'[o], links'[o[1]], tape[o[1]], read'[o[1]], o[2])
  <2>1. CASE o \in DOMAIN new.rows /\ latest' = Over(new.rows, latest)
    <3>1. latest'[o] = new.rows[o]
          BY <2>1, <1>0 DEF OverIs
    <3>2. o = <<hub, o[2]>> /\ RowTold(new.rows[o], new.links, t, i, j, o[2])
          BY <1>4, <2>1 DEF RowsTell
    <3>3. o[1] = hub /\ links'[hub] = new.links /\ read'[hub] = j
          BY <1>1, <3>2, LinksGrow
    <3>4. RowIs(latest'[o], new.links, t, j, o[2])
      <4>1. i + 1..j \subseteq 1..j
            BY <1>4
      <4> QED BY <3>1, <3>2, <4>1 DEF RowIs, RowTold, Sticky
    <3> QED BY <3>2, <3>3, <3>4
  <2>2. CASE ~(o \in DOMAIN new.rows /\ latest' = Over(new.rows, latest))
    <3>1. o \in DOMAIN latest /\ latest'[o] = latest[o]
          BY <1>6, <2>2, <1>0 DEF Told, OverIs
    <3>2. /\ o = <<o[1], o[2]>> /\ o[1] \in Names(config)
          /\ RowIs(latest[o], links[o[1]], tape[o[1]], read[o[1]], o[2])
          BY <1>1, <3>1 DEF TablesTell
    <3>3. /\ read[o[1]] \in Nat /\ read'[o[1]] \in Nat /\ read[o[1]] <= read'[o[1]]
          /\ \A k \in DOMAIN links[o[1]] : k \in DOMAIN links'[o[1]] /\ links'[o[1]][k] = links[o[1]][k]
          BY <1>1, <3>2, LinksGrow
    <3>4. 1..read[o[1]] \subseteq 1..read'[o[1]]
          BY <3>3
    <3> QED BY <3>1, <3>2, <3>3, <3>4 DEF RowIs
  <2> QED BY <2>1, <2>2
<1>7. ASSUME NEW x \in DOMAIN ids'
      PROVE  x = <<x[1], x[2]>> /\ x[1] \in Names(config) /\ IdIs(ids'[x], tape[x[1]], read'[x[1]], x[2])
  <2>1. CASE x \in DOMAIN new.events /\ ids' = Over(new.events, ids)
    <3>1. ids'[x] = new.events[x]
          BY <2>1, <1>0 DEF OverIs
    <3>2. x = <<hub, x[2]>> /\ IdTold(new.events[x], t, i, j, x[2])
          BY <1>4, <2>1 DEF EventsTell
    <3>3. x[1] = hub /\ read'[hub] = j
          BY <1>1, <3>2, LinksGrow
    <3>4. IdIs(ids'[x], t, j, x[2])
      <4>1. i + 1..j \subseteq 1..j
            BY <1>4
      <4> QED BY <3>1, <3>2, <4>1 DEF IdIs, IdTold
    <3> QED BY <3>2, <3>3, <3>4
  <2>2. CASE ~(x \in DOMAIN new.events /\ ids' = Over(new.events, ids))
    <3>1. x \in DOMAIN ids /\ ids'[x] = ids[x]
          BY <1>7, <2>2, <1>0 DEF Told, OverIs
    <3>2. x = <<x[1], x[2]>> /\ x[1] \in Names(config) /\ IdIs(ids[x], tape[x[1]], read[x[1]], x[2])
          BY <1>1, <3>1 DEF TablesTell
    <3>3. read[x[1]] \in Nat /\ read'[x[1]] \in Nat /\ read[x[1]] <= read'[x[1]]
          BY <1>1, <3>2, LinksGrow
    <3>4. 1..read[x[1]] \subseteq 1..read'[x[1]]
          BY <3>3
    <3> QED BY <3>1, <3>2, <3>4 DEF IdIs
  <2> QED BY <2>1, <2>2
<1>8. TablesTell'
      BY <1>2, <1>5, <1>6, <1>7 DEF TablesTell
<1>9. ASSUME failures' = 0 PROVE NothingLost'
  <2>1. NothingLost /\ latest' = Over(new.rows, latest) /\ ids' = Over(new.events, ids)
        BY <1>1, <1>9 DEF Told
  <2>2. links'[hub] = new.links /\ read'[hub] = j
        BY <1>1, LinksGrow
  <2>3. /\ DOMAIN latest' = DOMAIN new.rows \cup DOMAIN latest
        /\ DOMAIN ids' = DOMAIN new.events \cup DOMAIN ids
        BY <2>1, <1>0 DEF OverIs
  <2>4. ASSUME NEW n \in Names(config), NEW p \in 1..read'[n], IsFix(tape[n], p)
        PROVE  <<n, tape[n][p].key>> \in DOMAIN latest' /\ <<n, tape[n][p].id>> \in DOMAIN ids'
    <3>1. CASE p \in 1..read[n]
          BY <2>1, <2>3, <2>4, <3>1 DEF NothingLost
    <3>2. CASE p \notin 1..read[n]
      <4>1. n = hub
            BY <1>1, <2>4, <3>2, LinksGrow
      <4>2. p \in i + 1..j
            BY <1>4, <2>2, <2>4, <3>2, <4>1
      <4> QED BY <1>4, <2>3, <2>4, <4>1, <4>2 DEF RowsTell, EventsTell
    <3> QED BY <3>1, <3>2
  <2>5. ASSUME NEW o \in DOMAIN latest' PROVE latest'[o].ext = Sticky(links'[o[1]], o[2])
    <3>1. CASE o \in DOMAIN new.rows
      <4>1. latest'[o] = new.rows[o]
            BY <2>1, <3>1, <1>0 DEF OverIs
      <4>2. o = <<hub, o[2]>> /\ RowTold(new.rows[o], new.links, t, i, j, o[2])
            BY <1>4, <3>1 DEF RowsTell
      <4>3. o[1] = hub /\ new.rows[o].ext = Sticky(new.links, o[2])
            BY <4>2 DEF RowTold
      <4> QED BY <2>2, <4>1, <4>3
    <3>2. CASE o \notin DOMAIN new.rows
      <4>1. o \in DOMAIN latest /\ latest'[o] = latest[o]
            BY <2>1, <2>3, <2>5, <3>2, <1>0 DEF OverIs
      <4>2. o = <<o[1], o[2]>> /\ o[1] \in Names(config) /\ latest[o].ext = Sticky(links[o[1]], o[2])
            BY <1>1, <2>1, <4>1 DEF TablesTell, NothingLost
      <4>3. CASE o[1] # hub
            BY <1>1, <4>1, <4>2, <4>3, LinksGrow
      <4>4. CASE o[1] = hub
        <5>1. \A k \in DOMAIN links[hub] : k \in DOMAIN new.links /\ new.links[k] = links[hub][k]
              BY DEF Told, FoldTells
        <5>2. ASSUME o[2] \in DOMAIN new.links, o[2] \notin DOMAIN links[hub] PROVE FALSE
          <6>1. PICK p \in 1..j : IsFix(t, p) /\ t[p].key = o[2] /\ ExtAt(Upstream(config, hub), t, p) # Nothing
                BY <1>4, <5>2 DEF LinksTell, LinkTold
          <6>2. LinksTell(links[hub], Upstream(config, hub), t, i)
                BY <1>1, <1>4 DEF TablesTell
          <6>3. p \notin 1..i
                BY <5>2, <6>1, <6>2 DEF LinksTell
          <6>4. p \in i + 1..j
                BY <1>4, <6>3
          <6>5. <<hub, o[2]>> \in DOMAIN new.rows
                BY <1>4, <6>1, <6>4 DEF RowsTell
          <6> QED BY <3>2, <4>2, <4>4, <6>5
        <5>3. Sticky(new.links, o[2]) = Sticky(links[hub], o[2])
              BY <5>1, <5>2 DEF Sticky
        <5> QED BY <2>2, <4>1, <4>2, <4>4, <5>3
      <4> QED BY <4>3, <4>4
    <3> QED BY <3>1, <3>2
  <2>6. ASSUME NEW x \in DOMAIN ids' PROVE IdTold(ids'[x], tape[x[1]], 0, read'[x[1]], x[2])
    <3>1. CASE x \in DOMAIN new.events
      <4>1. ids'[x] = new.events[x]
            BY <2>1, <3>1, <1>0 DEF OverIs
      <4>2. x = <<hub, x[2]>> /\ IdTold(new.events[x], t, i, j, x[2])
            BY <1>4, <3>1 DEF EventsTell
      <4>3. x[1] = hub /\ i + 1..j \subseteq 0 + 1..j
            BY <1>4, <4>2
      <4>4. IdTold(new.events[x], t, 0, j, x[2])
            BY <4>2, <4>3 DEF IdTold
      <4> QED BY <2>2, <4>1, <4>3, <4>4
    <3>2. CASE x \notin DOMAIN new.events
      <4>1. x \in DOMAIN ids /\ ids'[x] = ids[x]
            BY <2>1, <2>3, <2>6, <3>2, <1>0 DEF OverIs
      <4>2. x = <<x[1], x[2]>> /\ x[1] \in Names(config) /\ IdTold(ids[x], tape[x[1]], 0, read[x[1]], x[2])
            BY <1>1, <2>1, <4>1 DEF TablesTell, NothingLost
      <4>3. CASE x[1] # hub
            BY <1>1, <4>1, <4>2, <4>3, LinksGrow
      <4>4. CASE x[1] = hub
        <5>1. IdTold(ids[x], t, 0, i, x[2])
              BY <1>4, <4>2, <4>4
        <5>2. \A q \in i + 1..j : IsFix(t, q) => t[q].id # x[2]
              BY <1>4, <3>2, <4>2, <4>4 DEF EventsTell
        <5>3. PICK p \in 0 + 1..i : /\ IsFix(t, p) /\ t[p].id = x[2] /\ t[p].key = ids[x]
                                    /\ \A q \in p + 1..i : IsFix(t, q) => t[q].id # x[2]
              BY <5>1 DEF IdTold
        <5>4. p \in 0 + 1..j /\ \A q \in p + 1..j : q \in p + 1..i \/ q \in i + 1..j
              BY <1>4
        <5>5. IdTold(ids[x], t, 0, j, x[2])
              BY <5>2, <5>3, <5>4 DEF IdTold
        <5> QED BY <2>2, <4>1, <4>4, <5>5
      <4> QED BY <4>3, <4>4
    <3> QED BY <3>1, <3>2
  <2> QED BY <1>2, <2>4, <2>5, <2>6 DEF NothingLost
<1> QED BY <1>3, <1>8, <1>9 DEF HubInv

LEMMA HubNextInv == HubInv /\ [Next]_hubVars => HubInv'
<1> SUFFICES ASSUME HubInv, [Next]_hubVars PROVE HubInv'
    OBVIOUS
<1>1. CASE Next
  <2>1. PICK hub \in Names(config), failing \in SUBSET Streams :
            \E n \in 1..Len(tape[hub]) : Batch(hub, n, failing)
        BY <1>1 DEF Next
  <2>2. PICK n \in 1..Len(tape[hub]) : Batch(hub, n, failing)
        BY <2>1
  <2>3. PICK new, i, j : Told(new, hub, i, j)
        BY <2>2, BatchTells
  <2> QED BY <2>3, BatchInv
<1>2. CASE UNCHANGED hubVars
      BY <1>2 DEF hubVars, HubInv, HubTypes, TablesTell, NothingLost, Accepted
<1> QED BY <1>1, <1>2

LEMMA HubInvHolds == HubSpec => []HubInv
<1> QED BY HubInitInv, HubNextInv, PTL DEF HubSpec
-----------------------------------------------------------------------------
\* Who an id belongs to

OrderIds == {<<o[1], latest[o].orderId>> : o \in {o \in DOMAIN latest : latest[o].orderId # Nothing}}

IdIndexSays ==
    /\ DOMAIN IdIndex = OrderIds \cup DOMAIN ids
    /\ \A x \in OrderIds : \E o \in DOMAIN latest :
          latest[o].orderId # Nothing /\ <<o[1], latest[o].orderId>> = x /\ IdIndex[x] = o[2]
    /\ \A x \in DOMAIN ids : x \notin OrderIds => IdIndex[x] = ids[x]

LEMMA IdIndexIs == IdIndexSays
<1> DEFINE withId == {o \in DOMAIN latest : latest[o].orderId # Nothing}
           owner(x) == CHOOSE o \in withId : <<o[1], latest[o].orderId>> = x
           byOrderId == [x \in {<<o[1], latest[o].orderId>> : o \in withId} |-> owner(x)[2]]
<1>1. IdIndex = Over(byOrderId, ids)
      BY DEF IdIndex
<1>2. DOMAIN byOrderId = OrderIds
      BY DEF OrderIds
<1>3. ASSUME NEW x \in OrderIds
      PROVE  \E o \in DOMAIN latest :
                latest[o].orderId # Nothing /\ <<o[1], latest[o].orderId>> = x /\ byOrderId[x] = o[2]
  <2>1. PICK o \in withId : <<o[1], latest[o].orderId>> = x
        BY DEF OrderIds
  <2>2. owner(x) \in withId /\ <<owner(x)[1], latest[owner(x)].orderId>> = x
        BY <2>1
  <2>3. byOrderId[x] = owner(x)[2]
        BY <2>1
  <2> HIDE DEF owner, byOrderId
  <2> QED BY <2>2, <2>3
<1> HIDE DEF byOrderId
<1>4. OverIs(byOrderId, ids, IdIndex)
      BY <1>1, Overs
<1>5. DOMAIN IdIndex = OrderIds \cup DOMAIN ids
      BY <1>2, <1>4 DEF OverIs
<1>6. \A x \in OrderIds : IdIndex[x] = byOrderId[x]
      BY <1>2, <1>4 DEF OverIs
<1>7. \A x \in DOMAIN ids : x \notin OrderIds => IdIndex[x] = ids[x]
      BY <1>2, <1>4 DEF OverIs
<1> QED BY <1>3, <1>5, <1>6, <1>7 DEF IdIndexSays

\* The tapes as the invariant knows them.
LEMMA TapeTyped ==
    ASSUME HubTypes, NEW n \in Names(config)
    PROVE  /\ Len(tape[n]) \in Nat /\ DOMAIN tape[n] = 1..Len(tape[n])
           /\ read[n] \in 0..Len(tape[n])
           /\ \A p \in DOMAIN tape[n] : <<n, tape[n][p].key>> # Nothing
           /\ \A p, q \in DOMAIN tape[n] :
                 (IsFix(tape[n], p) /\ tape[n][p].orderId # Nothing) =>
                    /\ tape[n][q].id # tape[n][p].orderId
                    /\ (q > p /\ tape[n][q].key = tape[n][p].key) => tape[n][q].orderId = tape[n][p].orderId
<1>1. tape \in Tapes /\ n \in DOMAIN tape /\ read[n] \in 0..Len(tape[n])
      BY DEF HubTypes
<1>2. tape[n] \in Seq({tape[n][p] : p \in DOMAIN tape[n]})
      BY <1>1, TapeAssumption
<1>3. \A p \in DOMAIN tape[n] : <<n, tape[n][p].key>> # Nothing
      BY <1>1, TapeAssumption
<1>4. \A p, q \in DOMAIN tape[n] :
         (tape[n][p].kind = "fix" /\ tape[n][p].orderId # Nothing) =>
            /\ tape[n][q].id # tape[n][p].orderId
            /\ (q > p /\ tape[n][q].key = tape[n][p].key) => tape[n][q].orderId = tape[n][p].orderId
      BY <1>1, TapeAssumption
<1> QED BY <1>1, <1>2, <1>3, <1>4 DEF IsFix

\* An owner is an order of the hub.
OwnedAt(x, p) ==
    /\ p \in DOMAIN tape[x[1]] /\ IsFix(tape[x[1]], p) /\ tape[x[1]][p].key = IdIndex[x]
    /\ \/ tape[x[1]][p].id = x[2]
       \/ tape[x[1]][p].orderId # Nothing /\ tape[x[1]][p].orderId = x[2]

LEMMA OwnersAreOrders ==
    ASSUME HubInv, NEW x \in DOMAIN IdIndex
    PROVE  x[1] \in Names(config) /\ <<x[1], IdIndex[x]>> # Nothing /\ \E p : OwnedAt(x, p)
<1>1. HubTypes /\ TablesTell /\ IdIndexSays
      BY IdIndexIs DEF HubInv
<1>2. CASE x \in OrderIds
  <2>1. PICK o \in DOMAIN latest :
            latest[o].orderId # Nothing /\ <<o[1], latest[o].orderId>> = x /\ IdIndex[x] = o[2]
        BY <1>1, <1>2 DEF IdIndexSays
  <2>2. o[1] \in Names(config) /\ RowIs(latest[o], links[o[1]], tape[o[1]], read[o[1]], o[2])
        BY <1>1 DEF TablesTell
  <2>3. PICK p \in 1..read[o[1]] : /\ IsFix(tape[o[1]], p) /\ tape[o[1]][p].key = o[2]
                                   /\ latest[o].orderId = tape[o[1]][p].orderId
        BY <2>2 DEF RowIs
  <2>4. p \in DOMAIN tape[o[1]]
        BY <1>1, <2>2, TapeTyped
  <2>5. <<o[1], o[2]>> # Nothing
        BY <1>1, <2>2, <2>3, <2>4, TapeTyped
  <2>6. x[1] = o[1] /\ x[2] = latest[o].orderId
        BY <2>1
  <2>7. OwnedAt(x, p)
        BY <2>1, <2>3, <2>4, <2>6 DEF OwnedAt
  <2> QED BY <2>1, <2>2, <2>5, <2>6, <2>7
<1>3. CASE x \notin OrderIds
  <2>1. x \in DOMAIN ids /\ IdIndex[x] = ids[x]
        BY <1>1, <1>3 DEF IdIndexSays
  <2>2. x[1] \in Names(config) /\ IdIs(ids[x], tape[x[1]], read[x[1]], x[2])
        BY <1>1, <2>1 DEF TablesTell
  <2>3. PICK p \in 1..read[x[1]] : /\ IsFix(tape[x[1]], p) /\ tape[x[1]][p].id = x[2]
                                   /\ tape[x[1]][p].key = ids[x]
        BY <2>2 DEF IdIs
  <2>4. p \in DOMAIN tape[x[1]]
        BY <1>1, <2>2, TapeTyped
  <2>5. OwnedAt(x, p)
        BY <2>1, <2>3, <2>4 DEF OwnedAt
  <2>6. <<x[1], tape[x[1]][p].key>> # Nothing
        BY <1>1, <2>2, <2>4, TapeTyped
  <2> QED BY <2>1, <2>2, <2>3, <2>5, <2>6
<1> QED BY <1>2, <1>3

\* An order has a parent when the hub above knows the id that it names.
Linked(o) == /\ latest[o].ext # Nothing
             /\ <<Upstream(config, o[1]), latest[o].ext>> \in DOMAIN IdIndex

LEMMA ParentIs ==
    HubInv => \A o \in DOMAIN latest :
                 /\ ParentOf(o) # Nothing <=> Linked(o)
                 /\ Linked(o) => ParentOf(o) = <<Upstream(config, o[1]),
                                                 IdIndex[<<Upstream(config, o[1]), latest[o].ext>>]>>
<1> SUFFICES ASSUME HubInv, NEW o \in DOMAIN latest
             PROVE  /\ ParentOf(o) # Nothing <=> Linked(o)
                    /\ Linked(o) => ParentOf(o) = <<Upstream(config, o[1]),
                                                    IdIndex[<<Upstream(config, o[1]), latest[o].ext>>]>>
    OBVIOUS
<1> DEFINE up == <<Upstream(config, o[1]), latest[o].ext>>
<1>1. up[1] = Upstream(config, o[1]) /\ up[2] = latest[o].ext
      OBVIOUS
<1>2. CASE Linked(o)
  <2>1. ParentOf(o) = <<up[1], IdIndex[up]>>
        BY <1>1, <1>2 DEF ParentOf, Linked
  <2>2. up \in DOMAIN IdIndex
        BY <1>2 DEF Linked
  <2> HIDE DEF up
  <2>3. <<up[1], IdIndex[up]>> # Nothing
        BY <2>2, OwnersAreOrders
  <2>4. ParentOf(o) # Nothing /\ ParentOf(o) = <<Upstream(config, o[1]), IdIndex[up]>>
        BY <1>1, <2>1, <2>3
  <2> QED BY <1>2, <2>4 DEF up
<1>3. CASE ~Linked(o)
      BY <1>3 DEF ParentOf, Linked
<1> QED BY <1>2, <1>3

-----------------------------------------------------------------------------
\* A link stays

LinkedOn == \A o \in DOMAIN latest : ParentOf(o) # Nothing => ParentOf(o)' # Nothing

LEMMA LinkKeeps ==
    ASSUME HubInv, NEW hub \in Names(config), NEW new, NEW i, NEW j, Told(new, hub, i, j),
           NEW o \in DOMAIN latest
    PROVE  /\ o \in DOMAIN latest'
           /\ latest[o].orderId # Nothing => latest'[o].orderId = latest[o].orderId
           /\ latest[o].ext # Nothing => latest'[o].ext = latest[o].ext
<1> DEFINE t == tape[hub]
<1>1. HubTypes /\ TablesTell /\ OverIs(new.rows, latest, Over(new.rows, latest))
      BY Overs DEF HubInv
<1>2. CASE o \in DOMAIN new.rows /\ latest' = Over(new.rows, latest)
  <2>1. o \in DOMAIN latest' /\ latest'[o] = new.rows[o]
        BY <1>1, <1>2 DEF OverIs
  <2>2. /\ RowsTell(new.rows, new.links, hub, t, i, j) /\ i = read[hub] /\ i \in Nat /\ j \in Nat
        /\ i < j /\ j <= Len(t)
        /\ \A k \in DOMAIN links[hub] : k \in DOMAIN new.links /\ new.links[k] = links[hub][k]
        BY DEF Told, FoldTells
  <2>3. o = <<hub, o[2]>> /\ RowTold(new.rows[o], new.links, t, i, j, o[2])
        BY <1>2, <2>2 DEF RowsTell
  <2>4. o[1] = hub
        BY <2>3
  <2>5. RowIs(latest[o], links[hub], t, i, o[2])
        BY <1>1, <2>2, <2>4 DEF TablesTell
  <2>6. PICK p \in 1..i : /\ IsFix(t, p) /\ t[p].key = o[2] /\ latest[o].orderId = t[p].orderId
                          /\ latest[o].ext # Nothing =>
                                o[2] \in DOMAIN links[hub] /\ latest[o].ext = links[hub][o[2]]
        BY <2>5 DEF RowIs
  <2>7. PICK q \in i + 1..j : /\ t[q].key = o[2] /\ new.rows[o].orderId = t[q].orderId
                              /\ new.rows[o].ext = Sticky(new.links, o[2])
        BY <2>3 DEF RowTold
  <2>8. p \in DOMAIN t /\ q \in DOMAIN t /\ q > p
    <3>1. DOMAIN t = 1..Len(t) /\ Len(t) \in Nat
          BY <1>1, TapeTyped
    <3> QED BY <2>2, <2>6, <2>7, <3>1
  <2>9. latest[o].orderId # Nothing => t[q].orderId = t[p].orderId
        BY <1>1, <2>6, <2>7, <2>8, TapeTyped
  <2>10. latest[o].ext # Nothing => new.rows[o].ext = latest[o].ext
         BY <2>2, <2>6, <2>7 DEF Sticky
  <2> QED BY <2>1, <2>6, <2>7, <2>9, <2>10
<1>3. CASE ~(o \in DOMAIN new.rows /\ latest' = Over(new.rows, latest))
  <2>1. o \in DOMAIN latest' /\ latest'[o] = latest[o]
        BY <1>1, <1>3 DEF Told, OverIs
  <2> QED BY <2>1
<1> QED BY <1>2, <1>3

LEMMA BatchLinked ==
    ASSUME HubInv, HubInv', NEW hub \in Names(config), NEW new, NEW i, NEW j, Told(new, hub, i, j)
    PROVE  LinkedOn
<1>1. IdIndexSays /\ IdIndexSays'
  <2>1. IdIndexSays
        BY IdIndexIs
  <2>2. IdIndexSays'
        BY IdIndexIs, PTL
  <2> QED BY <2>1, <2>2
<1>2. OrderIds \subseteq OrderIds'
  <2> SUFFICES ASSUME NEW x \in OrderIds PROVE x \in OrderIds'
      OBVIOUS
  <2>1. PICK o \in DOMAIN latest : latest[o].orderId # Nothing /\ x = <<o[1], latest[o].orderId>>
        BY DEF OrderIds
  <2>2. o \in DOMAIN latest' /\ latest'[o].orderId = latest[o].orderId
        BY <2>1, LinkKeeps
  <2> QED BY <2>1, <2>2 DEF OrderIds
<1>3. DOMAIN ids \subseteq DOMAIN ids'
  <2>1. OverIs(new.events, ids, Over(new.events, ids))
        BY Overs
  <2> QED BY <2>1 DEF Told, OverIs
<1>4. DOMAIN IdIndex \subseteq DOMAIN IdIndex'
      BY <1>1, <1>2, <1>3 DEF IdIndexSays
<1>5. config' = config
      BY DEF Told
<1>6. \A o \in DOMAIN latest : ParentOf(o) # Nothing => Linked(o)
      BY ParentIs
<1>7. \A o \in DOMAIN latest' : Linked(o)' => ParentOf(o)' # Nothing
  <2>1. (HubInv => \A o \in DOMAIN latest :
                 /\ ParentOf(o) # Nothing <=> Linked(o)
                 /\ Linked(o) => ParentOf(o) = <<Upstream(config, o[1]),
                                                 IdIndex[<<Upstream(config, o[1]), latest[o].ext>>]>>)'
        BY ParentIs, PTL
  <2> QED BY <2>1
<1>8. ASSUME NEW o \in DOMAIN latest, Linked(o) PROVE o \in DOMAIN latest' /\ Linked(o)'
  <2>1. /\ latest[o].ext # Nothing
        /\ <<Upstream(config, o[1]), latest[o].ext>> \in DOMAIN IdIndex
        BY <1>8 DEF Linked
  <2>2. o \in DOMAIN latest' /\ latest'[o].ext = latest[o].ext
        BY <2>1, LinkKeeps
  <2>3. Upstream(config, o[1])' = Upstream(config, o[1])
        BY <1>5 DEF Upstream, Named
  <2>4. <<Upstream(config, o[1]), latest'[o].ext>> \in DOMAIN IdIndex'
        BY <1>4, <2>1, <2>2
  <2> QED BY <2>1, <2>2, <2>3, <2>4 DEF Linked
<1> QED BY <1>6, <1>7, <1>8 DEF LinkedOn

\* An order that is linked stays linked, whatever arrives or fails later.
\* linking.py: LinkTracker; dag.py: _build_id_index.
THEOREM LinkedStaysHolds == HubSpec => LinkedStays
<1>1. HubInv /\ HubInv' /\ [Next]_hubVars => [LinkedOn]_hubVars
  <2> SUFFICES ASSUME HubInv, HubInv', Next PROVE LinkedOn
      OBVIOUS
  <2>1. PICK hub \in Names(config), failing \in SUBSET Streams :
            \E n \in 1..Len(tape[hub]) : Batch(hub, n, failing)
        BY DEF Next
  <2>2. PICK n \in 1..Len(tape[hub]) : Batch(hub, n, failing)
        BY <2>1
  <2>3. PICK new, i, j : Told(new, hub, i, j)
        BY <2>2, BatchTells
  <2> QED BY <2>3, BatchLinked
<1>2. HubSpec => [][LinkedOn]_hubVars
      BY <1>1, HubInvHolds, PTL DEF HubSpec
<1> QED BY <1>2 DEF LinkedOn, LinkedStays
-----------------------------------------------------------------------------
\* What the tapes say

\* The configurations are sequences (parse_topology makes a tuple of hubs).
LEMMA ConfigTyped ==
    ASSUME HubTypes
    PROVE  /\ Len(config) \in Nat /\ DOMAIN config = 1..Len(config) /\ Len(config) >= 1
           /\ Nothing \notin Names(config)
           /\ \A n \in Names(config) : Upstream(config, n) \in Names(config) \cup {Nothing}
<1>1. config \in Configs /\ Accepted(config)
      BY DEF HubTypes
<1>2. config \in Seq({config[i] : i \in DOMAIN config})
      BY <1>1, ConfigAssumption
<1>3. config # <<>>
      BY <1>1 DEF Accepted
<1>4. Len(config) \in Nat /\ DOMAIN config = 1..Len(config) /\ Len(config) >= 1
      BY <1>2, <1>3
<1>5. \A i \in DOMAIN config : config[i].name # Nothing
      BY <1>1 DEF Accepted
<1>6. ASSUME NEW n \in Names(config)
      PROVE  Upstream(config, n) \in Names(config) \cup {Nothing}
  <2> DEFINE c == CHOOSE i \in DOMAIN config : config[i].name = n
  <2>1. c \in DOMAIN config
        BY DEF Names
  <2>2. Upstream(config, n) = config[c].upstream
        BY DEF Upstream, Named
  <2> HIDE DEF c
  <2>3. \A i \in DOMAIN config : config[i].upstream \in Names(config) \cup {Nothing}
        BY <1>1 DEF Accepted
  <2> QED BY <2>1, <2>2, <2>3
<1> QED BY <1>4, <1>5, <1>6 DEF Names

AllRead == failures = 0 /\ \A n \in Names(config) : read[n] = Len(tape[n])

\* The order of a message is there, with the link that its tape named first.
LEMMA RowsDecided ==
    ASSUME HubInv, AllRead, NEW n \in Names(config), NEW p \in DOMAIN tape[n], IsFix(tape[n], p)
    PROVE  /\ <<n, tape[n][p].key>> \in DOMAIN latest
           /\ latest[<<n, tape[n][p].key>>].ext = FirstLink(n, tape[n][p].key)
<1> DEFINE t == tape[n]
           key == t[p].key
           o == <<n, key>>
           up == Upstream(config, n)
           linking == {q \in Mentions(n, key) : t[q].ext # Nothing}
<1>1. HubTypes /\ TablesTell /\ NothingLost
      BY DEF HubInv, AllRead
<1>2. /\ DOMAIN t = 1..Len(t) /\ Len(t) \in Nat /\ read[n] = Len(t)
      BY <1>1, TapeTyped DEF AllRead
<1>3. o \in DOMAIN latest
      BY <1>1, <1>2 DEF NothingLost
<1>4. latest[o].ext = Sticky(links[n], key)
  <2>1. o[1] = n /\ o[2] = key
        OBVIOUS
  <2> QED BY <1>1, <1>3, <2>1 DEF NothingLost
<1>5. LinksTell(links[n], up, t, Len(t))
      BY <1>1, <1>2 DEF TablesTell
<1> HIDE DEF up
<1>6. linking = {q \in 1..Len(t) : IsFix(t, q) /\ t[q].key = key /\ t[q].ext # Nothing}
      BY <1>2 DEF Mentions, IsFix
<1>7. Sticky(links[n], key) = FirstLink(n, key)
  <2>1. CASE key \in DOMAIN links[n]
    <3>1. PICK q \in 1..Len(t) :
              /\ IsFix(t, q) /\ t[q].key = key
              /\ ExtAt(up, t, q) # Nothing /\ links[n][key] = ExtAt(up, t, q)
              /\ \A x \in 1..q - 1 : IsFix(t, x) /\ t[x].key = key => ExtAt(up, t, x) = Nothing
          BY <1>5, <2>1 DEF LinksTell, LinkTold
    <3>2. up # Nothing /\ ExtAt(up, t, q) = t[q].ext
          BY <3>1 DEF ExtAt
    <3>3. \A x \in 1..q - 1 : IsFix(t, x) /\ t[x].key = key => t[x].ext = Nothing
          BY <3>1, <3>2 DEF ExtAt
    <3>4. q \in linking /\ \A x \in linking : q <= x
      <4> HIDE DEF linking, t, key
      <4>1. q \in linking
            BY <1>6, <3>1, <3>2
      <4>2. ASSUME NEW x \in linking PROVE q <= x
        <5>1. x \in 1..Len(t) /\ IsFix(t, x) /\ t[x].key = key /\ t[x].ext # Nothing
              BY <1>6, <4>2
        <5>2. x \notin 1..q - 1
              BY <3>3, <5>1
        <5> QED BY <1>2, <3>1, <5>1, <5>2
      <4> QED BY <4>1, <4>2
    <3>5. linking \subseteq Nat
          BY <1>6
    <3> HIDE DEF linking
    <3>6. Min(linking) = q
      <4>1. Min(linking) \in linking /\ \A x \in linking : Min(linking) <= x
            BY <3>4 DEF Min
      <4>2. Min(linking) <= q /\ q <= Min(linking) /\ q \in Nat /\ Min(linking) \in Nat
            BY <3>4, <3>5, <4>1
      <4> QED BY <4>2
    <3>7. FirstLink(n, key) = t[q].ext
      <4>1. FirstLink(n, key) = IF up = Nothing \/ linking = {} THEN Nothing ELSE t[Min(linking)].ext
            BY DEF FirstLink, linking, up
      <4> QED BY <3>2, <3>4, <3>6, <4>1
    <3> QED BY <2>1, <3>1, <3>2, <3>7 DEF Sticky
  <2>2. CASE key \notin DOMAIN links[n]
    <3>1. \A q \in 1..Len(t) : IsFix(t, q) /\ t[q].key = key => ExtAt(up, t, q) = Nothing
          BY <1>5, <2>2 DEF LinksTell
    <3>2. up = Nothing \/ linking = {}
          BY <1>6, <3>1 DEF ExtAt
    <3>3. FirstLink(n, key) = Nothing
          BY <3>2 DEF FirstLink, up
    <3> QED BY <2>2, <3>3 DEF Sticky
  <2> QED BY <2>1, <2>2
<1> QED BY <1>3, <1>4, <1>7

\* An id is of the order that used it last.
LEMMA IdsDecided ==
    ASSUME HubInv, AllRead, NEW n \in Names(config), NEW id, Owners(n, id) # {}
    PROVE  <<n, id>> \in DOMAIN IdIndex /\ IdIndex[<<n, id>>] = tape[n][Max(Owners(n, id))].key
<1> DEFINE t == tape[n]
           x == <<n, id>>
<1>1. HubTypes /\ TablesTell /\ NothingLost /\ IdIndexSays
      BY IdIndexIs DEF HubInv, AllRead
<1>2. /\ DOMAIN t = 1..Len(t) /\ Len(t) \in Nat /\ read[n] = Len(t)
      BY <1>1, TapeTyped DEF AllRead
<1>3. Owners(n, id) = {q \in 1..Len(t) : IsFix(t, q) /\ t[q].id = id}
      BY <1>2 DEF Owners, IsFix
<1>4. PICK q \in 1..Len(t) : IsFix(t, q) /\ t[q].id = id
      BY <1>3
<1>5. x \in DOMAIN ids
      BY <1>1, <1>2, <1>4 DEF NothingLost
<1>6. x[1] = n /\ x[2] = id
      OBVIOUS
<1> HIDE DEF x
<1>7. x \notin OrderIds
  <2> SUFFICES ASSUME x \in OrderIds PROVE FALSE
      OBVIOUS
  <2>1. PICK o \in DOMAIN latest : latest[o].orderId # Nothing /\ x = <<o[1], latest[o].orderId>>
        BY DEF OrderIds
  <2>2. o[1] = n /\ latest[o].orderId = id
        BY <1>6, <2>1
  <2>3. RowIs(latest[o], links[n], t, Len(t), o[2])
        BY <1>1, <1>2, <2>2 DEF TablesTell
  <2>4. PICK p \in 1..Len(t) : IsFix(t, p) /\ latest[o].orderId = t[p].orderId
        BY <2>3 DEF RowIs
  <2>5. p \in DOMAIN t /\ q \in DOMAIN t
        BY <1>2
  <2>6. t[q].id # t[p].orderId
        BY <1>1, <2>1, <2>4, <2>5, TapeTyped
  <2> QED BY <1>4, <2>2, <2>4, <2>6
<1>8. x \in DOMAIN IdIndex /\ IdIndex[x] = ids[x]
      BY <1>1, <1>5, <1>7 DEF IdIndexSays
<1>9. IdTold(ids[x], t, 0, Len(t), id)
      BY <1>1, <1>2, <1>5, <1>6 DEF NothingLost
<1>10. PICK p \in 0 + 1..Len(t) : /\ IsFix(t, p) /\ t[p].id = id /\ t[p].key = ids[x]
                                  /\ \A y \in p + 1..Len(t) : IsFix(t, y) => t[y].id # id
       BY <1>9 DEF IdTold
<1>11. p \in Owners(n, id) /\ Owners(n, id) \subseteq Nat /\ \A y \in Owners(n, id) : p >= y
  <2> HIDE DEF t
  <2>1. p \in Owners(n, id) /\ Owners(n, id) \subseteq Nat
        BY <1>2, <1>3, <1>10
  <2>2. ASSUME NEW y \in Owners(n, id) PROVE p >= y
    <3>1. y \in 1..Len(t) /\ IsFix(t, y) /\ t[y].id = id
          BY <1>3
    <3>2. y \notin p + 1..Len(t)
          BY <1>10, <3>1
    <3> QED BY <1>2, <1>10, <3>1, <3>2
  <2> QED BY <2>1, <2>2
<1>12. Max(Owners(n, id)) = p
       BY <1>11 DEF Max
<1> QED BY <1>8, <1>10, <1>12 DEF x

\* Once the tapes are read, the tables are what the tapes say.
\* pipeline.py: _process_batch; linking.py: LinkTracker.record.
THEOREM TapesDecideHolds == HubSpec => []TapesDecide
<1>1. HubInv => TapesDecide
  <2> SUFFICES ASSUME HubInv, AllRead, NEW n \in Names(config), NEW p \in DOMAIN tape[n],
                      tape[n][p].kind = "fix"
               PROVE  LET o == <<n, tape[n][p].key>>
                          link == FirstLink(n, tape[n][p].key)
                          up == Upstream(config, n)
                      IN  /\ o \in DOMAIN latest /\ latest[o].ext = link
                          /\ (link # Nothing /\ Owners(up, link) # {}) =>
                                 ParentOf(o) = <<up, tape[up][Max(Owners(up, link))].key>>
                          /\ p = Max(Owners(n, tape[n][p].id)) =>
                                 o \in FindChain(tape[n][p].id) /\ GetOrder(n, tape[n][p].id) = {o}
      BY DEF TapesDecide, AllRead
  <2> DEFINE o == <<n, tape[n][p].key>>
             link == FirstLink(n, tape[n][p].key)
             up == Upstream(config, n)
             id == tape[n][p].id
  <2>1. o \in DOMAIN latest /\ latest[o].ext = link
        BY RowsDecided DEF IsFix
  <2>2. HubTypes /\ TablesTell
        BY DEF HubInv
  <2>3. o[1] = n /\ o[2] = tape[n][p].key
        OBVIOUS
  <2>4. ASSUME link # Nothing, Owners(up, link) # {}
        PROVE  ParentOf(o) = <<up, tape[up][Max(Owners(up, link))].key>>
    <3>1. up # Nothing
          BY <2>4 DEF FirstLink
    <3>2. up \in Names(config)
          BY <2>2, <3>1, ConfigTyped
    <3> HIDE DEF o, link, up
    <3>3. <<up, link>> \in DOMAIN IdIndex /\ IdIndex[<<up, link>>] = tape[up][Max(Owners(up, link))].key
          BY <2>4, <3>2, IdsDecided
    <3>4. Upstream(config, o[1]) = up
          BY <2>3 DEF up
    <3>5. Linked(o)
          BY <2>1, <2>4, <3>3, <3>4 DEF Linked
    <3>6. ParentOf(o) = <<up, IdIndex[<<up, link>>]>>
          BY <2>1, <3>4, <3>5, ParentIs
    <3> QED BY <3>3, <3>6
  <2>5. ASSUME p = Max(Owners(n, id))
        PROVE  o \in FindChain(id) /\ GetOrder(n, id) = {o}
    <3>1. p \in Owners(n, id)
          BY DEF Owners
    <3>2. <<n, id>> \in DOMAIN IdIndex /\ IdIndex[<<n, id>>] = tape[n][p].key
      <4> HIDE DEF id
      <4>1. <<n, id>> \in DOMAIN IdIndex /\ IdIndex[<<n, id>>] = tape[n][Max(Owners(n, id))].key
            BY <3>1, IdsDecided
      <4> QED BY <2>5, <4>1
    <3> DEFINE x == <<n, id>>
    <3>3. x[1] = n /\ x[2] = id
          OBVIOUS
    <3> HIDE DEF id
    <3>4. <<x[1], IdIndex[x]>> = o
          BY <3>2, <3>3
    <3>5. o \in FindChain(id)
      <4> HIDE DEF x, o
      <4> DEFINE hits == {y \in DOMAIN IdIndex : y[2] = id}
                 named == {<<y[1], IdIndex[y]>> : y \in hits} \cap DOMAIN latest
                 roots == {Walked(c).root : c \in named}
      <4>1. x \in hits
            BY <3>2, <3>3 DEF x
      <4>2. o \in named
            BY <2>1, <3>4, <4>1
      <4>3. Walked(o).root \in roots
            BY <4>2
      <4> QED BY <2>1, <4>3 DEF FindChain
    <3>6. GetOrder(n, id) = {o}
      <4>1. \A c \in DOMAIN latest : c = <<c[1], c[2]>>
            BY <2>2 DEF TablesTell
      <4>2. \A c \in DOMAIN latest : (c[1] = n /\ IdIndex[<<n, id>>] = c[2]) <=> c = o
            BY <2>3, <3>2, <4>1
      <4> HIDE DEF o
      <4> QED BY <2>1, <3>2, <4>2 DEF GetOrder
    <3> QED BY <3>5, <3>6
  <2> QED BY <2>1, <2>4, <2>5
<1> QED BY <1>1, HubInvHolds, PTL
-----------------------------------------------------------------------------
\* Steps up

\* A function on a set, from a point of it and as often as one likes.
Steps(f, S, F, base, n) ==
    /\ f = [k \in 0..n |-> f[k]]
    /\ f[0] = base
    /\ \A k \in 0..n : f[k] \in S
    /\ \A k \in 1..n : f[k] = F[f[k - 1]]

LEMMA StepsExist ==
    ASSUME NEW S, NEW base \in S, NEW F \in [S -> S], NEW n \in Nat
    PROVE  \E f : Steps(f, S, F, base, n)
<1> DEFINE Good(m) == \E f : Steps(f, S, F, base, m)
           bad == {m \in 0..n : ~Good(m)}
<1>1. CASE bad # {}
  <2>1. bad \subseteq Nat
        OBVIOUS
  <2> HIDE DEF bad
  <2>2. PICK m \in bad : \A k \in bad : m <= k
        BY <1>1, <2>1, LeastElement
  <2> USE DEF bad
  <2>3. m \in Nat /\ m <= n /\ ~Good(m)
        BY <2>2
  <2>4. m # 0
    <3> DEFINE g == [k \in 0..0 |-> base]
    <3>1. g[0] = base /\ g = [k \in 0..0 |-> g[k]] /\ \A k \in 0..0 : g[k] \in S
          OBVIOUS
    <3> HIDE DEF g
    <3>2. Steps(g, S, F, base, 0)
          BY <3>1 DEF Steps
    <3> QED BY <2>3, <3>2
  <2> DEFINE k == m - 1
  <2>5. k \in Nat /\ k + 1 = m /\ k \in 0..n /\ ~(m <= k)
        BY <2>3, <2>4
  <2>6. Good(k)
        BY <2>2, <2>5
  <2>7. PICK f : Steps(f, S, F, base, k)
        BY <2>6
  <2> HIDE DEF k
  <2> DEFINE g == [x \in 0..m |-> IF x <= k THEN f[x] ELSE F[f[k]]]
  <2>8. ASSUME NEW x \in 1..m PROVE g[x] = F[g[x - 1]]
    <3>1. CASE x <= k
      <4>1. x \in 1..k /\ x - 1 \in 0..m /\ x - 1 <= k /\ x \in 0..m
            BY <2>3, <2>5, <3>1
      <4>2. f[x] = F[f[x - 1]]
            BY <2>7, <4>1 DEF Steps
      <4>3. g[x] = f[x] /\ g[x - 1] = f[x - 1]
            BY <3>1, <4>1
      <4> QED BY <4>2, <4>3
    <3>2. CASE x = m
      <4>1. x - 1 = k /\ k \in 0..m /\ ~(x <= k) /\ x \in 0..m /\ k <= k
            BY <2>3, <2>5, <3>2
      <4>2. g[x] = F[f[k]] /\ g[k] = f[k]
            BY <3>2, <4>1
      <4> QED BY <3>2, <4>1, <4>2
    <3> QED BY <2>3, <2>5, <3>1, <3>2
  <2>9. g[0] = base
    <3>1. 0 \in 0..m /\ 0 <= k
          BY <2>3, <2>5
    <3> QED BY <2>7, <3>1 DEF Steps
  <2>10. g = [x \in 0..m |-> g[x]]
         OBVIOUS
  <2>11. \A x \in 0..m : g[x] \in S
    <3>1. \A x \in 0..k : f[x] \in S
          BY <2>7 DEF Steps
    <3>2. k \in 0..k /\ \A x \in 0..m : x <= k => x \in 0..k
          BY <2>3, <2>5
    <3> QED BY <3>1, <3>2
  <2> HIDE DEF g
  <2>12. Steps(g, S, F, base, m)
         BY <2>8, <2>9, <2>10, <2>11 DEF Steps
  <2> QED BY <2>3, <2>12
<1>2. CASE bad = {}
      BY <1>2
<1> QED BY <1>1, <1>2

\* The hubs from a hub up, to the n-th.
Chained(u, hubs, hub, n) ==
    /\ u[0] = hub
    /\ \A k \in 1..n : u[k] = IF u[k - 1] = Nothing THEN Nothing ELSE Upstream(hubs, u[k - 1])

LEMMA DepthsIs ==
    ASSUME HubTypes, NEW hub \in Names(config)
    PROVE  \E u : /\ Chained(u, config, hub, Len(config) + 1)
                  /\ Depths(config, hub) =
                        Cardinality({k \in 0..Len(config) + 1 : u[k] # Nothing}) - 1
<1> DEFINE n == Len(config) + 1
           S == Names(config) \cup {Nothing}
           F == [x \in S |-> IF x = Nothing THEN Nothing ELSE Upstream(config, x)]
           Body(g) == [k \in 0..n |-> IF k = 0 THEN hub
                                      ELSE IF g[k - 1] = Nothing THEN Nothing
                                      ELSE Upstream(config, g[k - 1])]
           up == CHOOSE g : g = Body(g)
<1>1. n \in Nat /\ F \in [S -> S] /\ hub \in S
      BY ConfigTyped
<1>2. Depths(config, hub) = Cardinality({k \in 0..n : up[k] # Nothing}) - 1
      BY DEF Depths
<1>3. \A x \in S : F[x] = IF x = Nothing THEN Nothing ELSE Upstream(config, x)
      OBVIOUS
<1> HIDE DEF F, n, S
<1>4. PICK f : Steps(f, S, F, hub, n)
      BY <1>1, StepsExist
<1>5. f = Body(f)
  <2>1. f = [k \in 0..n |-> f[k]]
        BY <1>4 DEF Steps
  <2>2. \A k \in 0..n : f[k] = IF k = 0 THEN hub
                               ELSE IF f[k - 1] = Nothing THEN Nothing ELSE Upstream(config, f[k - 1])
    <3> SUFFICES ASSUME NEW k \in 0..n, k # 0
                 PROVE  f[k] = IF f[k - 1] = Nothing THEN Nothing ELSE Upstream(config, f[k - 1])
        BY <1>4 DEF Steps
    <3>1. k \in 1..n /\ k - 1 \in 0..n
          BY <1>1
    <3>2. f[k] = F[f[k - 1]] /\ f[k - 1] \in S
          BY <1>4, <3>1 DEF Steps
    <3> QED BY <1>3, <3>2
  <2> QED BY <2>1, <2>2
<1>6. up = Body(up)
  <2> HIDE DEF Body
  <2> QED BY <1>5
<1> HIDE DEF up
<1>7. Chained(up, config, hub, n)
  <2>1. \A k \in 0..n : up[k] = IF k = 0 THEN hub
                                ELSE IF up[k - 1] = Nothing THEN Nothing ELSE Upstream(config, up[k - 1])
        BY <1>6
  <2>2. 0 \in 0..n /\ \A k \in 1..n : k \in 0..n /\ k # 0
        BY <1>1
  <2> QED BY <2>1, <2>2 DEF Chained
<1> QED BY <1>2, <1>7 DEF n

\* A chain that ends has as many hubs as its first place without one says.
LEMMA ChainEnds ==
    ASSUME NEW u, NEW hubs, NEW hub, NEW n \in Nat, Chained(u, hubs, hub, n), hub # Nothing,
           Cardinality({k \in 0..n : u[k] # Nothing}) <= n
    PROVE  \E m \in 1..n : /\ {k \in 0..n : u[k] # Nothing} = 0..m - 1
                           /\ Cardinality({k \in 0..n : u[k] # Nothing}) = m
<1> DEFINE gone == {k \in 0..n : u[k] = Nothing}
           there == {k \in 0..n : u[k] # Nothing}
<1>1. gone # {}
  <2> SUFFICES ASSUME gone = {} PROVE FALSE
      OBVIOUS
  <2>1. there = 0..n
        OBVIOUS
  <2>2. Cardinality(0..n) = n + 1
    <3>1. Cardinality(0..n) = IF 0 > n THEN 0 ELSE (n - 0) + 1
          BY FS_Interval
    <3> QED BY <3>1
  <2>3. Cardinality(there) = n + 1 /\ Cardinality(there) <= n
        BY <2>1, <2>2
  <2> HIDE DEF there
  <2> QED BY <2>3
<1>2. gone \subseteq Nat
      OBVIOUS
<1>3. PICK m \in gone : \A k \in gone : m <= k
  <2> HIDE DEF gone
  <2> QED BY <1>1, <1>2, LeastElement
<1>4. m \in 0..n /\ u[m] = Nothing
      BY <1>3
<1>5. m # 0
      BY <1>4 DEF Chained
<1>6. \A k \in 0..n : k < m => u[k] # Nothing
      BY <1>3, <1>4
<1>7. ASSUME NEW k \in m..n PROVE u[k] = Nothing
  <2> DEFINE late == {x \in m..n : u[x] # Nothing}
  <2>1. CASE late # {}
    <3>1. late \subseteq Nat
          BY <1>4
    <3> HIDE DEF late
    <3>2. PICK x \in late : \A y \in late : x <= y
          BY <2>1, <3>1, LeastElement
    <3> USE DEF late
    <3>3. x \in m..n /\ u[x] # Nothing /\ x # m
          BY <1>4, <3>2
    <3>4. x - 1 \in m..n /\ ~(x <= x - 1) /\ x \in 1..n
          BY <1>4, <3>3
    <3>5. u[x - 1] = Nothing
          BY <3>2, <3>4
    <3> QED BY <3>3, <3>4, <3>5 DEF Chained
  <2>2. CASE late = {}
        BY <2>2
  <2> QED BY <2>1, <2>2
<1>8. there = 0..m - 1
  <2>1. \A k \in 0..n : u[k] # Nothing <=> k \in 0..m - 1
        BY <1>4, <1>6, <1>7
  <2> QED BY <1>4, <2>1
<1>9. Cardinality(0..m - 1) = m
  <2> DEFINE b == m - 1
  <2> HIDE DEF b
  <2>2. b \in Int /\ 0 \in Int /\ ~(0 > b) /\ b + 1 = m
        BY <1>4, <1>5 DEF b
  <2>3. Cardinality(0..b) = IF 0 > b THEN 0 ELSE b - 0 + 1
        BY <2>2, FS_Interval
  <2>4. Cardinality(0..b) = m
        BY <2>2, <2>3
  <2> QED BY <2>4 DEF b
<1>10. m \in 1..n /\ there = 0..m - 1 /\ Cardinality(there) = m
  <2>1. m \in 1..n
        BY <1>4, <1>5
  <2> HIDE DEF there
  <2> QED BY <1>8, <1>9, <2>1
<1> QED BY <1>10

\* A hub is one step further down than the hub above it.
LEMMA DepthsStep ==
    ASSUME HubTypes, NEW hub \in Names(config)
    PROVE  /\ Depths(config, hub) \in 0..Len(config)
           /\ Upstream(config, hub) = Nothing <=> Depths(config, hub) = 0
           /\ Upstream(config, hub) # Nothing =>
                 Depths(config, hub) = Depths(config, Upstream(config, hub)) + 1
<1> DEFINE n == Len(config) + 1
           L == Len(config)
           up == Upstream(config, hub)
<1>1. L \in Nat /\ L >= 1 /\ hub # Nothing /\ up \in Names(config) \cup {Nothing}
      BY ConfigTyped
<1>2. \A h \in Names(config) : Depths(config, h) <= L
  <2>1. \A i \in DOMAIN config : Depths(config, config[i].name) <= L
        BY DEF HubTypes, Accepted
  <2> QED BY <2>1 DEF Names
<1>3. ASSUME NEW h \in Names(config)
      PROVE  \E m \in 1..n : \E u : /\ Chained(u, config, h, n) /\ Depths(config, h) = m - 1
                                    /\ {k \in 0..n : u[k] # Nothing} = 0..m - 1
  <2> HIDE DEF L
  <2>1. PICK u : /\ Chained(u, config, h, n)
                 /\ Depths(config, h) = Cardinality({k \in 0..n : u[k] # Nothing}) - 1
        BY DepthsIs DEF L
  <2> DEFINE there == {k \in 0..n : u[k] # Nothing}
  <2>2. Cardinality(there) <= n
    <3>1. IsFiniteSet(0..n)
          BY FS_Interval, <1>1
    <3>2. IsFiniteSet(there)
          BY <3>1, FS_Subset
    <3>3. Cardinality(there) \in Nat
          BY <3>2, FS_CardinalityType
    <3>4. Depths(config, h) <= L /\ Depths(config, h) = Cardinality(there) - 1
          BY <1>2, <2>1
    <3> HIDE DEF there
    <3> QED BY <1>1, <3>3, <3>4 DEF L
  <2>3. h # Nothing /\ n \in Nat
        BY <1>1, ConfigTyped DEF L
  <2>4. \E m \in 1..n : there = 0..m - 1 /\ Cardinality(there) = m
        BY <2>1, <2>2, <2>3, ChainEnds
  <2> QED BY <2>1, <2>4
<1>4a. PICK m \in 1..n : \E u : /\ Chained(u, config, hub, n) /\ Depths(config, hub) = m - 1
                                /\ {k \in 0..n : u[k] # Nothing} = 0..m - 1
       BY <1>3
<1>4. PICK u : /\ Chained(u, config, hub, n) /\ Depths(config, hub) = m - 1
               /\ {k \in 0..n : u[k] # Nothing} = 0..m - 1
      BY <1>4a
<1>5. u[0] = hub /\ u[1] = up
  <2>1. 1 \in 1..n
        BY <1>1
  <2>2. u[0] = hub /\ u[1] = IF u[1 - 1] = Nothing THEN Nothing ELSE Upstream(config, u[1 - 1])
        BY <1>4, <2>1 DEF Chained
  <2>3. 1 - 1 = 0
        OBVIOUS
  <2> QED BY <1>1, <2>2, <2>3
<1>6. up = Nothing <=> m = 1
  <2>1. 1 \in 0..n /\ m \in Nat /\ m >= 1
        BY <1>1, <1>4
  <2>2. u[1] # Nothing <=> 1 \in 0..m - 1
        BY <1>4, <2>1
  <2> QED BY <1>5, <2>1, <2>2
<1>7. ASSUME up # Nothing PROVE Depths(config, hub) = Depths(config, up) + 1
  <2>1. up \in Names(config)
        BY <1>1, <1>7
  <2>2a. PICK q \in 1..n : \E v : /\ Chained(v, config, up, n) /\ Depths(config, up) = q - 1
                                  /\ {k \in 0..n : v[k] # Nothing} = 0..q - 1
    <3> HIDE DEF up
    <3> QED BY <1>3, <2>1
  <2>2. PICK v : /\ Chained(v, config, up, n) /\ Depths(config, up) = q - 1
                 /\ {k \in 0..n : v[k] # Nothing} = 0..q - 1
        BY <2>2a
  <2>3. ASSUME NEW k \in 0..L PROVE v[k] = u[k + 1]
    <3> DEFINE bad == {x \in 0..L : v[x] # u[x + 1]}
    <3>1. CASE bad # {}
      <4>1. bad \subseteq Nat
            OBVIOUS
      <4> HIDE DEF bad
      <4>2. PICK x \in bad : \A y \in bad : x <= y
            BY <3>1, <4>1, LeastElement
      <4> USE DEF bad
      <4>3. x \in 0..L /\ v[x] # u[x + 1]
            BY <4>2
      <4>4. x # 0
        <5>1. v[0] = up /\ 0 + 1 = 1
              BY <2>2 DEF Chained
        <5> QED BY <1>5, <4>3, <5>1
      <4>5. x - 1 \in 0..L /\ ~(x <= x - 1) /\ x \in 1..n /\ x + 1 \in 1..n
            /\ (x - 1) + 1 = x /\ (x + 1) - 1 = x
            BY <1>1, <4>3, <4>4
      <4>6. v[x - 1] = u[x]
            BY <4>2, <4>5
      <4>7. v[x] = IF v[x - 1] = Nothing THEN Nothing ELSE Upstream(config, v[x - 1])
            BY <2>2, <4>5 DEF Chained
      <4>8. u[x + 1] = IF u[(x + 1) - 1] = Nothing THEN Nothing ELSE Upstream(config, u[(x + 1) - 1])
            BY <1>4, <4>5 DEF Chained
      <4> QED BY <4>3, <4>5, <4>6, <4>7, <4>8
    <3>2. CASE bad = {}
          BY <3>2
    <3> QED BY <3>1, <3>2
  <2>4. m # 1 /\ m \in 1..n /\ q \in 1..n
        BY <1>4, <1>6, <1>7, <2>2
  <2>5. \A k \in 0..n : u[k] # Nothing <=> k <= m - 1
        BY <1>4
  <2>6. \A k \in 0..n : v[k] # Nothing <=> k <= q - 1
        BY <2>2
  <2>7. \A k \in 0..L : k <= q - 1 <=> k + 1 <= m - 1
    <3> SUFFICES ASSUME NEW k \in 0..L PROVE k <= q - 1 <=> k + 1 <= m - 1
        OBVIOUS
    <3>1. k \in 0..n /\ k + 1 \in 0..n
          BY <1>1
    <3> QED BY <2>3, <2>5, <2>6, <3>1
  <2>8. m - 2 \in 0..L
        BY <1>1, <2>4
  <2>9. m - 2 <= q - 1
    <3>1. (m - 2) + 1 <= m - 1
          BY <2>4
    <3> QED BY <2>7, <2>8, <3>1
  <2>10. ~(m - 1 <= q - 1)
    <3>1. CASE m - 1 <= L
      <4>1. m - 1 \in 0..L /\ ~((m - 1) + 1 <= m - 1)
            BY <1>1, <2>4, <3>1
      <4> QED BY <2>7, <4>1
    <3>2. CASE m - 1 > L
          BY <1>1, <1>2, <1>4, <3>2
    <3> QED BY <1>1, <2>4, <3>1, <3>2
  <2> QED BY <1>4, <2>2, <2>4, <2>9, <2>10
<1>8. Depths(config, hub) \in 0..L
      BY <1>1, <1>2, <1>4
<1> QED BY <1>4, <1>6, <1>7, <1>8
-----------------------------------------------------------------------------
\* The walk to the root

Above(from) == IF ParentMap(from.root) = Nothing THEN from
               ELSE [root |-> ParentMap(from.root), depth |-> from.depth + 1]

Start(o) == [root |-> o, depth |-> 0]

Walking(w, o) == /\ w[0] = Start(o)
                 /\ \A k \in 1..Len(config) : w[k] = Above(w[k - 1])

LEMMA WalkedIs ==
    ASSUME HubTypes, NEW o
    PROVE  \E w : Walking(w, o) /\ Walked(o) = w[Len(config)]
<1> DEFINE L == Len(config)
           R == DOMAIN latest \cup {o} \cup {ParentMap(x) : x \in DOMAIN latest}
           S == [root : R, depth : Nat]
           F == [x \in S |-> Above(x)]
           Body(g) == [k \in 0..L - 1 |->
                         LET from == IF k = 0 THEN [root |-> o, depth |-> 0] ELSE g[k - 1]
                             up   == ParentMap(from.root)
                         IN  IF up = Nothing THEN from ELSE [root |-> up, depth |-> from.depth + 1]]
           walk == CHOOSE g : g = Body(g)
<1>1. Walked(o) = walk[L - 1]
      BY DEF Walked
<1>2. L \in Nat /\ L >= 1
      BY ConfigTyped
<1> HIDE DEF L
<1>3. F \in [S -> S]
  <2> SUFFICES ASSUME NEW x \in S PROVE Above(x) \in S
      OBVIOUS
  <2>1. x.root \in R /\ x.depth \in Nat
        OBVIOUS
  <2>2. ParentMap(x.root) # Nothing => ParentMap(x.root) \in R
        BY DEF ParentMap
  <2> HIDE DEF R
  <2> QED BY <2>1, <2>2 DEF Above
<1>4. Start(o) \in S
      BY DEF Start
<1>5. \A x \in S : F[x] = Above(x)
      OBVIOUS
<1> HIDE DEF F, S
<1>6. PICK f : Steps(f, S, F, Start(o), L)
      BY <1>2, <1>3, <1>4, StepsExist
<1>7. ASSUME NEW k \in 1..L PROVE f[k] = Above(f[k - 1])
  <2>1. k - 1 \in 0..L
        BY <1>2
  <2> QED BY <1>5, <1>6, <2>1 DEF Steps
<1> DEFINE g == [k \in 0..L - 1 |-> f[k + 1]]
           From(h, k) == IF k = 0 THEN Start(o) ELSE h[k - 1]
<1>8. \A h : Body(h) = [k \in 0..L - 1 |-> Above(From(h, k))]
      BY DEF Above, Start
<1>9. g = Body(g)
  <2>1. \A k \in 0..L - 1 : f[k + 1] = Above(From(g, k))
    <3> SUFFICES ASSUME NEW k \in 0..L - 1 PROVE f[k + 1] = Above(From(g, k))
        OBVIOUS
    <3>1. k + 1 \in 1..L /\ (k + 1) - 1 = k
          BY <1>2
    <3>2. f[k + 1] = Above(f[k])
          BY <1>7, <3>1
    <3>3. From(g, k) = f[k]
      <4>1. CASE k = 0
            BY <1>6, <4>1 DEF Steps
      <4>2. CASE k # 0
        <5>1. k - 1 \in 0..L - 1 /\ (k - 1) + 1 = k
              BY <1>2, <4>2
        <5> QED BY <4>2, <5>1
      <4> QED BY <4>1, <4>2
    <3> QED BY <3>2, <3>3
  <2>2. g = [k \in 0..L - 1 |-> Above(From(g, k))]
        BY <2>1
  <2> HIDE DEF g, Body
  <2> QED BY <1>8, <2>2
<1>10. walk = Body(walk)
  <2> HIDE DEF Body, g
  <2> QED BY <1>9
<1> HIDE DEF walk
<1>11. \A k \in 0..L - 1 : walk[k] = Above(From(walk, k))
  <2>1. walk = [k \in 0..L - 1 |-> Above(From(walk, k))]
    <3> HIDE DEF Body
    <3> QED BY <1>8, <1>10
  <2> HIDE DEF From
  <2> QED BY <2>1
<1> DEFINE w == [k \in 0..L |-> IF k = 0 THEN Start(o) ELSE walk[k - 1]]
<1>12. w[0] = Start(o) /\ w[L] = walk[L - 1]
       BY <1>2
<1>13. ASSUME NEW k \in 1..L PROVE w[k] = Above(w[k - 1])
  <2>1. k - 1 \in 0..L - 1 /\ k \in 0..L /\ k - 1 \in 0..L /\ k # 0
        BY <1>2
  <2>2. w[k] = walk[k - 1] /\ w[k - 1] = From(walk, k - 1)
        BY <2>1
  <2> QED BY <1>11, <2>1, <2>2
<1> HIDE DEF w
<1>14. Walking(w, o)
       BY <1>12, <1>13 DEF Walking, L
<1> QED BY <1>1, <1>12, <1>14 DEF L

\* A parent is an order of the hub above.
LEMMA ParentAbove ==
    ASSUME HubInv, NEW o, ParentMap(o) # Nothing
    PROVE  /\ o \in DOMAIN latest /\ o[1] \in Names(config)
           /\ ParentMap(o)[1] \in Names(config)
           /\ Upstream(config, o[1]) # Nothing
           /\ Depths(config, o[1]) = Depths(config, ParentMap(o)[1]) + 1
<1> DEFINE up == Upstream(config, o[1])
           x == <<up, latest[o].ext>>
<1>1. o \in DOMAIN latest /\ ParentMap(o) = ParentOf(o)
      BY DEF ParentMap
<1>2. HubTypes /\ TablesTell
      BY DEF HubInv
<1>3. o[1] \in Names(config)
      BY <1>1, <1>2 DEF TablesTell
<1>4. x \in DOMAIN IdIndex /\ ParentOf(o) = <<up, IdIndex[x]>>
      BY <1>1, ParentIs DEF Linked
<1>5. x[1] = up /\ <<up, IdIndex[x]>>[1] = up
      OBVIOUS
<1>6. up \in Names(config)
  <2> HIDE DEF x, up
  <2> QED BY <1>4, <1>5, OwnersAreOrders
<1>7. up # Nothing
      BY <1>2, <1>6, ConfigTyped
<1>8. Depths(config, o[1]) = Depths(config, up) + 1
      BY <1>2, <1>3, <1>7, DepthsStep
<1>9. ParentMap(o)[1] = up
      BY <1>1, <1>4
<1> QED BY <1>1, <1>3, <1>6, <1>7, <1>8, <1>9

LEMMA NothingIsNoKey == HubInv => Nothing \notin DOMAIN latest
<1> SUFFICES ASSUME HubInv, Nothing \in DOMAIN latest PROVE FALSE
    OBVIOUS
<1>1. HubTypes /\ TablesTell
      BY DEF HubInv
<1> DEFINE n == Nothing[1]
<1>2. /\ Nothing = <<n, Nothing[2]>> /\ n \in Names(config)
      /\ RowIs(latest[Nothing], links[n], tape[n], read[n], Nothing[2])
      BY <1>1 DEF TablesTell
<1>3. PICK p \in 1..read[n] : tape[n][p].key = Nothing[2]
      BY <1>2 DEF RowIs
<1>4. p \in DOMAIN tape[n] /\ <<n, tape[n][p].key>> # Nothing
  <2>1. p \in DOMAIN tape[n]
        BY <1>1, <1>2, TapeTyped
  <2> QED BY <1>1, <1>2, <2>1, TapeTyped
<1> QED BY <1>2, <1>3, <1>4

LEMMA NothingIsNoOrder == HubInv => ParentMap(Nothing) = Nothing
BY NothingIsNoKey DEF ParentMap

\* A step of the walk is a hub up, until there is no parent.
Climbed(w, o, k) ==
    /\ w[k].root[1] \in Names(config) /\ w[k].depth \in Nat
    /\ Depths(config, o[1]) = Depths(config, w[k].root[1]) + w[k].depth
    /\ ParentMap(w[k].root) = Nothing \/ w[k].depth = k

LEMMA WalkClimbs ==
    ASSUME HubInv, NEW o \in DOMAIN latest, NEW w, Walking(w, o), NEW k \in 0..Len(config)
    PROVE  Climbed(w, o, k)
<1> DEFINE L == Len(config)
           bad == {x \in 0..L : ~Climbed(w, o, x)}
<1>1. HubTypes /\ TablesTell /\ L \in Nat
      BY ConfigTyped DEF HubInv
<1> HIDE DEF L
<1>2. CASE bad # {}
  <2>1. bad \subseteq Nat
        OBVIOUS
  <2> HIDE DEF bad
  <2>2. PICK x \in bad : \A y \in bad : x <= y
        BY <1>2, <2>1, LeastElement
  <2> USE DEF bad
  <2>3. x \in 0..L /\ ~Climbed(w, o, x)
        BY <2>2
  <2>4. x # 0
    <3>1. w[0] = Start(o)
          BY DEF Walking
    <3>2. w[0].root = o /\ w[0].depth = 0
          BY <3>1 DEF Start
    <3>3. o[1] \in Names(config) /\ Depths(config, o[1]) \in 0..L
          BY <1>1, DepthsStep DEF TablesTell, L
    <3>4. Depths(config, o[1]) = Depths(config, o[1]) + 0
          BY <1>1, <3>3
    <3>5. Climbed(w, o, 0)
          BY <3>2, <3>3, <3>4 DEF Climbed
    <3> QED BY <2>3, <3>5
  <2> DEFINE was == w[x - 1]
  <2>5. x - 1 \in 0..L /\ ~(x <= x - 1) /\ x \in 1..L
        BY <1>1, <2>3, <2>4
  <2>6. Climbed(w, o, x - 1)
        BY <2>2, <2>5
  <2>7. w[x] = Above(was)
        BY <2>5 DEF Walking, L
  <2>8. /\ was.root[1] \in Names(config) /\ was.depth \in Nat
        /\ Depths(config, o[1]) = Depths(config, was.root[1]) + was.depth
        /\ ParentMap(was.root) = Nothing \/ was.depth = x - 1
        BY <2>6 DEF Climbed
  <2> HIDE DEF was
  <2>9. CASE ParentMap(was.root) = Nothing
    <3>1. w[x] = was
          BY <2>7, <2>9 DEF Above
    <3> QED BY <2>3, <2>8, <2>9, <3>1 DEF Climbed
  <2>10. CASE ParentMap(was.root) # Nothing
    <3> DEFINE up == ParentMap(was.root)
    <3>1. w[x] = [root |-> up, depth |-> was.depth + 1]
          BY <2>7, <2>10 DEF Above
    <3> HIDE DEF up
    <3>2. w[x].root = up /\ w[x].depth = was.depth + 1
          BY <3>1
    <3>3. /\ up[1] \in Names(config)
          /\ Depths(config, was.root[1]) = Depths(config, up[1]) + 1
          BY <2>10, ParentAbove DEF up
    <3>4. Depths(config, up[1]) \in Nat
          BY <1>1, <3>3, DepthsStep DEF L
    <3>5. was.depth + 1 = x /\ was.depth + 1 \in Nat
          BY <2>3, <2>8, <2>10
    <3>6. Depths(config, o[1]) = Depths(config, up[1]) + (was.depth + 1)
          BY <2>8, <3>3, <3>4
    <3> QED BY <2>3, <3>2, <3>3, <3>5, <3>6 DEF Climbed
  <2> QED BY <2>9, <2>10
<1>3. CASE bad = {}
      BY <1>3 DEF L
<1> QED BY <1>2, <1>3

\* The root has no parent: a walk of as many steps as there are hubs is at a hub without one above.
LEMMA WalkEnds ==
    ASSUME HubInv, NEW o \in DOMAIN latest, NEW w, Walking(w, o)
    PROVE  ParentMap(w[Len(config)].root) = Nothing
<1> DEFINE L == Len(config)
           end == w[L]
<1>1. HubTypes /\ TablesTell /\ L \in Nat /\ L \in 0..L
      BY ConfigTyped DEF HubInv
<1>2. Climbed(w, o, L)
      BY <1>1, WalkClimbs
<1> HIDE DEF end, L
<1>3. SUFFICES ASSUME ParentMap(end.root) # Nothing PROVE FALSE
      BY DEF end, L
<1>4. /\ end.depth = L /\ end.root[1] \in Names(config)
      /\ Depths(config, o[1]) = Depths(config, end.root[1]) + end.depth
      BY <1>2, <1>3 DEF Climbed, end
<1>5. Depths(config, o[1]) \in 0..L /\ Depths(config, end.root[1]) \in 0..L
      BY <1>1, <1>4, DepthsStep DEF L, TablesTell
<1>6. Depths(config, end.root[1]) = 0
      BY <1>1, <1>4, <1>5
<1>7. Upstream(config, end.root[1]) = Nothing
      BY <1>1, <1>4, <1>6, DepthsStep
<1> QED BY <1>3, <1>7, ParentAbove

\* The walk of the parent is the walk of the order, one step ahead.
LEMMA WalksMeet ==
    ASSUME HubInv, NEW o \in DOMAIN latest, NEW w, Walking(w, o), NEW v,
           ParentMap(o) # Nothing, Walking(v, ParentMap(o))
    PROVE  v[Len(config)].root = w[Len(config)].root
<1> DEFINE L == Len(config)
           bad == {x \in 0..L - 1 : v[x].root # w[x + 1].root}
<1>1. L \in Nat /\ L >= 1
      BY ConfigTyped DEF HubInv
<1> HIDE DEF L
<1>2. \A from : Above(from).root = IF ParentMap(from.root) = Nothing THEN from.root ELSE ParentMap(from.root)
      BY DEF Above
<1>3. ASSUME NEW x \in 1..L
      PROVE  w[x] = Above(w[x - 1]) /\ v[x] = Above(v[x - 1])
      BY DEF Walking, L
<1>4. v[0].root = w[1].root
  <2>1. w[1] = Above(w[0])
    <3>1. 1 \in 1..L /\ 1 - 1 = 0
          BY <1>1
    <3>2. w[1] = Above(w[1 - 1])
          BY <1>3, <3>1
    <3> QED BY <3>1, <3>2
  <2>2. w[0].root = o /\ v[0].root = ParentMap(o)
        BY DEF Walking, Start
  <2> QED BY <1>2, <2>1, <2>2
<1>5. ASSUME NEW x \in 0..L - 1 PROVE v[x].root = w[x + 1].root
  <2>1. CASE bad # {}
    <3>1. bad \subseteq Nat
          OBVIOUS
    <3> HIDE DEF bad
    <3>2. PICK y \in bad : \A z \in bad : y <= z
          BY <2>1, <3>1, LeastElement
    <3> USE DEF bad
    <3>3. y \in 0..L - 1 /\ v[y].root # w[y + 1].root
          BY <3>2
    <3>4. y # 0
      <4>1. 0 + 1 = 1
            OBVIOUS
      <4> QED BY <1>4, <3>3, <4>1
    <3>5. y - 1 \in 0..L - 1 /\ ~(y <= y - 1) /\ y \in 1..L /\ y + 1 \in 1..L
          /\ (y - 1) + 1 = y /\ (y + 1) - 1 = y
          BY <1>1, <3>3, <3>4
    <3>6. v[y - 1].root = w[y].root
          BY <3>2, <3>5
    <3>7. v[y] = Above(v[y - 1])
          BY <1>3, <3>5
    <3>8. w[y + 1] = Above(w[y])
      <4>1. w[y + 1] = Above(w[(y + 1) - 1])
            BY <1>3, <3>5
      <4> QED BY <3>5, <4>1
    <3> QED BY <1>2, <3>3, <3>6, <3>7, <3>8
  <2>2. CASE bad = {}
        BY <2>2
  <2> QED BY <2>1, <2>2
<1>6. L - 1 \in 0..L - 1 /\ (L - 1) + 1 = L /\ L \in 1..L
      BY <1>1
<1>7. v[L - 1].root = w[L].root
      BY <1>5, <1>6
<1>8. v[L] = Above(v[L - 1])
      BY <1>3, <1>6
<1>9. ParentMap(w[L].root) = Nothing
      BY WalkEnds DEF L
<1>10. v[L].root = w[L].root
       BY <1>2, <1>7, <1>8, <1>9
<1> QED BY <1>10 DEF L

\* The walk ends at the top of the family.
\* dag.py: _build_orders_linked; config.py: _depths.
THEOREM RootIsTopHolds == HubSpec => []RootIsTop
<1>1. HubInv => RootIsTop
  <2> SUFFICES ASSUME HubInv, NEW o \in DOMAIN latest
               PROVE  LET walk == Walked(o) IN
                      /\ ParentMap(walk.root) = Nothing
                      /\ Depths(config, o[1]) = Depths(config, walk.root[1]) + walk.depth
                      /\ ParentMap(ParentOf(o)) # Nothing => Walked(ParentOf(o)).root = walk.root
      BY DEF RootIsTop
  <2> DEFINE walk == Walked(o)
             L == Len(config)
             up == ParentOf(o)
  <2>1. HubTypes /\ L \in 0..L
        BY ConfigTyped DEF HubInv
  <2>2. PICK w : Walking(w, o) /\ walk = w[L]
        BY <2>1, WalkedIs
  <2> HIDE DEF walk
  <2>3. ParentMap(walk.root) = Nothing
        BY <2>2, WalkEnds
  <2>4. Depths(config, o[1]) = Depths(config, walk.root[1]) + walk.depth
    <3>1. Climbed(w, o, L)
          BY <2>1, <2>2, WalkClimbs
    <3> QED BY <2>2, <3>1 DEF Climbed
  <2>5. ASSUME ParentMap(up) # Nothing PROVE Walked(up).root = walk.root
    <3>1. up \in DOMAIN latest /\ up # Nothing /\ up = ParentMap(o)
          BY <2>5, NothingIsNoOrder DEF ParentMap
    <3> HIDE DEF up
    <3>2. PICK v : Walking(v, up) /\ Walked(up) = v[L]
          BY <2>1, WalkedIs
    <3>3. Walking(v, ParentMap(o)) /\ ParentMap(o) \in DOMAIN latest /\ ParentMap(o) # Nothing
          BY <3>1, <3>2
    <3>4. v[L].root = w[L].root
          BY <2>2, <3>3, WalksMeet
    <3> QED BY <2>2, <3>2, <3>4
  <2> QED BY <2>3, <2>4, <2>5 DEF walk
<1> QED BY <1>1, HubInvHolds, PTL
-----------------------------------------------------------------------------
\* The order of the rows

\* An order of a tape has a place among the keys.
LEMMA Ranked ==
    ASSUME HubTypes, NEW n \in Names(config), NEW p \in DOMAIN tape[n]
    PROVE  <<n, tape[n][p].key>> \in DOMAIN KeyRank
<1>1. tape \in Tapes /\ n \in DOMAIN tape
      BY DEF HubTypes
<1> QED BY <1>1, RankAssumption

LEMMA RowsRanked ==
    ASSUME HubInv, NEW o \in DOMAIN latest
    PROVE  o \in DOMAIN KeyRank
<1>1. HubTypes /\ TablesTell
      BY DEF HubInv
<1>2. /\ o = <<o[1], o[2]>> /\ o[1] \in Names(config)
      /\ RowIs(latest[o], links[o[1]], tape[o[1]], read[o[1]], o[2])
      BY <1>1 DEF TablesTell
<1>3. PICK p \in 1..read[o[1]] : tape[o[1]][p].key = o[2]
      BY <1>2 DEF RowIs
<1>4. p \in DOMAIN tape[o[1]]
      BY <1>1, <1>2, TapeTyped
<1> QED BY <1>1, <1>2, <1>3, <1>4, Ranked

LEMMA ParentRanked ==
    ASSUME HubInv, NEW o, ParentMap(o) # Nothing
    PROVE  ParentMap(o) \in DOMAIN KeyRank
<1> DEFINE up == Upstream(config, o[1])
           x == <<up, latest[o].ext>>
<1>1. o \in DOMAIN latest /\ ParentMap(o) = ParentOf(o) /\ HubTypes
      BY DEF ParentMap, HubInv
<1>2. x \in DOMAIN IdIndex /\ ParentOf(o) = <<up, IdIndex[x]>>
      BY <1>1, ParentIs DEF Linked
<1>3. x[1] = up
      OBVIOUS
<1> HIDE DEF x, up
<1>4. up \in Names(config) /\ \E p : OwnedAt(x, p)
      BY <1>2, <1>3, OwnersAreOrders
<1>5. PICK p : OwnedAt(x, p)
      BY <1>4
<1>6. p \in DOMAIN tape[up] /\ tape[up][p].key = IdIndex[x]
      BY <1>3, <1>5 DEF OwnedAt
<1> QED BY <1>1, <1>2, <1>4, <1>6, Ranked

LEMMA WalkRanked ==
    ASSUME HubInv, NEW o \in DOMAIN latest
    PROVE  Walked(o).root \in DOMAIN KeyRank /\ Walked(o).depth \in Nat
<1> DEFINE L == Len(config)
<1>1. HubTypes /\ L \in Nat
      BY ConfigTyped DEF HubInv
<1>2. PICK w : Walking(w, o) /\ Walked(o) = w[L]
      BY <1>1, WalkedIs
<1> DEFINE bad == {x \in 0..L : w[x].root \notin DOMAIN KeyRank}
<1>3. L \in 0..L /\ Climbed(w, o, L)
      BY <1>1, <1>2, WalkClimbs
<1>4. CASE bad # {}
  <2>1. bad \subseteq Nat
        OBVIOUS
  <2> HIDE DEF bad
  <2>2. PICK x \in bad : \A y \in bad : x <= y
        BY <1>4, <2>1, LeastElement
  <2> USE DEF bad
  <2>3. x \in 0..L /\ w[x].root \notin DOMAIN KeyRank
        BY <2>2
  <2>4. x # 0
        BY <1>2, <2>3, RowsRanked DEF Walking, Start
  <2> HIDE DEF L
  <2>5. x - 1 \in 0..L /\ ~(x <= x - 1) /\ x \in 1..L
        BY <1>1, <2>3, <2>4
  <2>6. w[x - 1].root \in DOMAIN KeyRank
        BY <2>2, <2>5
  <2>7. w[x] = Above(w[x - 1])
        BY <1>2, <2>5 DEF Walking, L
  <2>8. w[x].root = w[x - 1].root \/ (/\ ParentMap(w[x - 1].root) # Nothing
                                      /\ w[x].root = ParentMap(w[x - 1].root))
        BY <2>7 DEF Above
  <2> QED BY <2>3, <2>6, <2>8, ParentRanked
<1>5. CASE bad = {}
  <2>1. w[L].root \in DOMAIN KeyRank
        BY <1>3, <1>5
  <2> QED BY <1>2, <1>3, <2>1 DEF Climbed
<1> QED BY <1>4, <1>5

Place(o) == <<KeyRank[Walked(o).root], Walked(o).depth, KeyRank[o]>>

LEMMA BeforeIs ==
    ASSUME NEW a, NEW b
    PROVE  Before(a, b) <=>
              \/ Place(a)[1] < Place(b)[1]
              \/ Place(a)[1] = Place(b)[1] /\ Place(a)[2] < Place(b)[2]
              \/ Place(a)[1] = Place(b)[1] /\ Place(a)[2] = Place(b)[2] /\ Place(a)[3] < Place(b)[3]
<1>1. Before(a, b) <=> \E i \in 1..3 : /\ Place(a)[i] < Place(b)[i]
                                       /\ \A j \in 1..i - 1 : Place(a)[j] = Place(b)[j]
      BY DEF Before, Place
<1>2. 1..1 - 1 = {} /\ 1..2 - 1 = {1} /\ 1..3 - 1 = {1, 2} /\ 1..3 = {1, 2, 3}
      OBVIOUS
<1> DEFINE less(i) == /\ Place(a)[i] < Place(b)[i]
                      /\ \A j \in 1..i - 1 : Place(a)[j] = Place(b)[j]
<1>3. less(1) <=> Place(a)[1] < Place(b)[1]
      BY <1>2
<1>4. less(2) <=> Place(a)[1] = Place(b)[1] /\ Place(a)[2] < Place(b)[2]
      BY <1>2
<1>5. less(3) <=> Place(a)[1] = Place(b)[1] /\ Place(a)[2] = Place(b)[2] /\ Place(a)[3] < Place(b)[3]
      BY <1>2
<1>6. Before(a, b) <=> less(1) \/ less(2) \/ less(3)
  <2>1. Before(a, b) <=> \E i \in 1..3 : less(i)
        BY <1>1
  <2> HIDE DEF less
  <2> QED BY <1>2, <2>1
<1> HIDE DEF less
<1> QED BY <1>3, <1>4, <1>5, <1>6

\* The rows are in one order.
LEMMA BeforeOrders ==
    ASSUME HubInv
    PROVE  /\ \A a \in DOMAIN latest : ~Before(a, a)
           /\ \A a, b \in DOMAIN latest : a # b => Before(a, b) \/ Before(b, a)
           /\ \A a, b, c \in DOMAIN latest : Before(a, b) /\ Before(b, c) => Before(a, c)
<1>1. ASSUME NEW o \in DOMAIN latest
      PROVE  /\ Place(o)[1] \in Int /\ Place(o)[2] \in Int /\ Place(o)[3] \in Int
             /\ Place(o)[3] = KeyRank[o]
  <2>1. Walked(o).root \in DOMAIN KeyRank /\ Walked(o).depth \in Nat /\ o \in DOMAIN KeyRank
        BY WalkRanked, RowsRanked
  <2>2. KeyRank[Walked(o).root] \in Int /\ KeyRank[o] \in Int
        BY <2>1, RankAssumption
  <2>3. /\ Place(o)[1] = KeyRank[Walked(o).root] /\ Place(o)[2] = Walked(o).depth
        /\ Place(o)[3] = KeyRank[o]
        BY DEF Place
  <2> QED BY <2>1, <2>2, <2>3
<1>2. ASSUME NEW a \in DOMAIN latest PROVE ~Before(a, a)
      BY <1>1, BeforeIs
<1>3. ASSUME NEW a \in DOMAIN latest, NEW b \in DOMAIN latest, a # b
      PROVE  Before(a, b) \/ Before(b, a)
  <2>1. KeyRank[a] # KeyRank[b]
        BY <1>3, RowsRanked, RankAssumption
  <2> QED BY <1>1, <2>1, BeforeIs
<1>4. ASSUME NEW a \in DOMAIN latest, NEW b \in DOMAIN latest, NEW c \in DOMAIN latest,
             Before(a, b), Before(b, c)
      PROVE  Before(a, c)
      BY <1>1, <1>4, BeforeIs
<1> QED BY <1>2, <1>3, <1>4

RankIn(rows, o) == Cardinality({other \in rows : Before(other, o)})

\* So many rows before a row is a count from nought without gaps.
LEMMA RanksAreAll ==
    ASSUME HubInv, NEW rows, rows \subseteq DOMAIN latest, IsFiniteSet(rows)
    PROVE  /\ \A o \in rows : RankIn(rows, o) \in 0..Cardinality(rows) - 1
           /\ \A k \in 0..Cardinality(rows) - 1 : \E o \in rows : RankIn(rows, o) = k
<1> DEFINE n == Cardinality(rows)
           pre(o) == {other \in rows : Before(other, o)}
<1>1. n \in Nat
      BY FS_CardinalityType
<1>2. \A o \in rows : IsFiniteSet(pre(o)) /\ pre(o) \subseteq rows
      BY FS_Subset
<1>3. ASSUME NEW o \in rows PROVE RankIn(rows, o) \in 0..n - 1
  <2>1. o \notin pre(o)
        BY BeforeOrders
  <2>2. pre(o) \in SUBSET rows /\ pre(o) # rows
        BY <2>1
  <2> HIDE DEF pre
  <2>3. Cardinality(pre(o)) <= n /\ Cardinality(pre(o)) # n
        BY <2>2, FS_Subset
  <2>4. Cardinality(pre(o)) \in Nat
        BY <1>2, FS_CardinalityType
  <2>5. RankIn(rows, o) = Cardinality(pre(o))
        BY DEF RankIn, pre
  <2> HIDE DEF n
  <2> QED BY <1>1, <2>3, <2>4, <2>5
<1>4. ASSUME NEW a \in rows, NEW b \in rows, Before(a, b) PROVE RankIn(rows, a) # RankIn(rows, b)
  <2>1. pre(a) \subseteq pre(b)
        BY <1>4, BeforeOrders
  <2>2. a \in pre(b) /\ a \notin pre(a)
        BY <1>4, BeforeOrders
  <2>3. pre(a) \in SUBSET pre(b) /\ pre(a) # pre(b)
        BY <2>1, <2>2
  <2> HIDE DEF pre
  <2>4. Cardinality(pre(b)) # Cardinality(pre(a))
        BY <1>2, <2>3, FS_Subset
  <2> QED BY <2>4 DEF RankIn, pre
<1>5. \A a, b \in rows : a # b => RankIn(rows, a) # RankIn(rows, b)
      BY <1>4, BeforeOrders
<1> DEFINE f == [o \in rows |-> RankIn(rows, o)]
<1>6. f \in Injection(rows, 0..n - 1)
      BY <1>3, <1>5 DEF Injection, IsInjective
<1>7. IsFiniteSet(0..n - 1) /\ Cardinality(0..n - 1) = n
  <2> DEFINE b == n - 1
  <2> HIDE DEF b, n
  <2>1. b \in Int /\ b + 1 = n /\ 0 \in Int
        BY <1>1 DEF b
  <2>2. IsFiniteSet(0..b) /\ Cardinality(0..b) = IF 0 > b THEN 0 ELSE b - 0 + 1
        BY <2>1, FS_Interval
  <2>3. Cardinality(0..b) = n
        BY <1>1, <2>1, <2>2
  <2> QED BY <2>2, <2>3 DEF b
<1>8. f \in Surjection(rows, 0..n - 1)
  <2> HIDE DEF f
  <2> QED BY <1>6, <1>7, FS_Injection
<1>9. \A k \in 0..n - 1 : \E o \in rows : f[o] = k
      BY <1>8 DEF Surjection
<1> QED BY <1>3, <1>9
-----------------------------------------------------------------------------
\* The page

\* Only so many orders were published.
LEMMA LatestFinite == HubInv => IsFiniteSet(DOMAIN latest)
<1> SUFFICES ASSUME HubInv PROVE IsFiniteSet(DOMAIN latest)
    OBVIOUS
<1>1. HubTypes /\ TablesTell
      BY DEF HubInv
<1>2. IsFiniteSet(Names(config))
  <2>1. DOMAIN config = 1..Len(config) /\ Len(config) \in Nat
        BY <1>1, ConfigTyped
  <2>2. IsFiniteSet(DOMAIN config)
        BY <2>1, FS_Interval
  <2> DEFINE f == [i \in DOMAIN config |-> config[i].name]
  <2>3. f \in Surjection(DOMAIN config, Names(config))
        BY DEF Surjection, Names
  <2> HIDE DEF f
  <2> QED BY <2>2, <2>3, FS_Surjection
<1> DEFINE of(n) == {<<n, tape[n][p].key>> : p \in DOMAIN tape[n]}
           all == {of(n) : n \in Names(config)}
<1>3. ASSUME NEW n \in Names(config) PROVE IsFiniteSet(of(n))
  <2>1. DOMAIN tape[n] = 1..Len(tape[n]) /\ Len(tape[n]) \in Nat
        BY <1>1, TapeTyped
  <2>2. IsFiniteSet(DOMAIN tape[n])
        BY <2>1, FS_Interval
  <2> DEFINE f == [p \in DOMAIN tape[n] |-> <<n, tape[n][p].key>>]
  <2>3. f \in Surjection(DOMAIN tape[n], of(n))
        BY DEF Surjection
  <2> HIDE DEF f, of
  <2> QED BY <2>2, <2>3, FS_Surjection
<1>4. IsFiniteSet(all)
  <2> DEFINE f == [n \in Names(config) |-> of(n)]
  <2>1. f \in Surjection(Names(config), all)
    <3> HIDE DEF of
    <3> QED BY DEF Surjection
  <2> HIDE DEF f, all
  <2> QED BY <1>2, <2>1, FS_Surjection
<1>5. IsFiniteSet(UNION all)
  <2>1. \A T \in all : IsFiniteSet(T)
    <3> HIDE DEF of
    <3> QED BY <1>3
  <2> HIDE DEF all
  <2> QED BY <1>4, <2>1, FS_UNION
<1>6. DOMAIN latest \subseteq UNION all
  <2> SUFFICES ASSUME NEW o \in DOMAIN latest PROVE o \in UNION all
      OBVIOUS
  <2>1. /\ o = <<o[1], o[2]>> /\ o[1] \in Names(config)
        /\ RowIs(latest[o], links[o[1]], tape[o[1]], read[o[1]], o[2])
        BY <1>1 DEF TablesTell
  <2>2. PICK p \in 1..read[o[1]] : tape[o[1]][p].key = o[2]
        BY <2>1 DEF RowIs
  <2>3. p \in DOMAIN tape[o[1]]
        BY <1>1, <2>1, TapeTyped
  <2>4. o \in of(o[1])
        BY <2>1, <2>2, <2>3
  <2> HIDE DEF of
  <2> QED BY <2>1, <2>4
<1> HIDE DEF all
<1> QED BY <1>5, <1>6, FS_Subset

MatchingFinite(controls) == IsFiniteSet(Matching(controls)) /\ Cardinality(Matching(controls)) \in Nat

LEMMA MatchingIsFinite ==
    ASSUME HubInv, NEW controls
    PROVE  MatchingFinite(controls)
<1>1. Matching(controls) \in SUBSET (DOMAIN latest)
      BY DEF Matching
<1>2. IsFiniteSet(Matching(controls))
      BY <1>1, LatestFinite, FS_Subset
<1> QED BY <1>2, FS_CardinalityType DEF MatchingFinite

\* The controls of the page.
IsControls(s) ==
    /\ s = [account |-> s.account, search |-> s.search, breaks |-> s.breaks, hubs |-> s.hubs,
            page |-> s.page, key |-> s.key, root |-> s.root]
    /\ s.page \in Nat

Same(a, b) == a.account = b.account /\ a.search = b.search /\ a.breaks = b.breaks /\ a.hubs = b.hubs

PageInv ==
    /\ IsControls(state) /\ IsControls(shown)
    /\ memo.key = FilterKey(memo.applied) /\ memo.key = FilterKey(shown)
    /\ total \in Nat \cup {Unknown}

LEMMA KeysTell ==
    ASSUME NEW a, NEW b
    PROVE  FilterKey(a) = FilterKey(b) <=> Same(a, b)
<1>1. \A s : /\ FilterKey(s).account = s.account /\ FilterKey(s).search = s.search
             /\ FilterKey(s).breaks = s.breaks /\ FilterKey(s).hubs = s.hubs
      BY DEF FilterKey
<1>2. FilterKey(a) = FilterKey(b) => Same(a, b)
  <2> SUFFICES ASSUME FilterKey(a) = FilterKey(b) PROVE Same(a, b)
      OBVIOUS
  <2> QED BY <1>1 DEF Same
<1>3. Same(a, b) => FilterKey(a) = FilterKey(b)
      BY DEF Same, FilterKey
<1> QED BY <1>2, <1>3

LEMMA SameMatch ==
    ASSUME NEW a, NEW b, Same(a, b)
    PROVE  Matching(a) = Matching(b)
<1>1. \A o : Matches(o, a) <=> Matches(o, b)
      BY DEF Same, Matches
<1> QED BY <1>1 DEF Matching

LEMMA MaxMin ==
    ASSUME NEW a \in Int, NEW b \in Int
    PROVE  /\ Max({a, b}) = IF a >= b THEN a ELSE b
           /\ Min({a, b}) = IF a <= b THEN a ELSE b
<1>1. Max({a, b}) \in {a, b} /\ \A y \in {a, b} : Max({a, b}) >= y
  <2>1. \E x \in {a, b} : \A y \in {a, b} : x >= y
        BY SMT
  <2> QED BY <2>1 DEF Max
<1>2. Min({a, b}) \in {a, b} /\ \A y \in {a, b} : Min({a, b}) <= y
  <2>1. \E x \in {a, b} : \A y \in {a, b} : x <= y
        BY SMT
  <2> QED BY <2>1 DEF Min
<1> QED BY <1>1, <1>2

\* A count cut into pages.
LEMMA Pages ==
    ASSUME NEW n \in Nat, NEW d \in Nat \ {0}
    PROVE  LET pages == (n + d - 1) \div d IN
           /\ pages \in Nat /\ (n > 0 => pages >= 1) /\ n <= pages * d
           /\ \A p \in Nat : p < pages => p * d < n
           /\ \A r \in 0..n - 1 : \E p \in 0..pages - 1 : r >= p * d /\ r <= p * d + d - 1
<1> DEFINE pages == (n + d - 1) \div d
<1>1. pages \in Int /\ d * pages <= n + d - 1 /\ n + d - 1 < d * pages + d
      BY SMT
<1> HIDE DEF pages
<1>2. pages * d = d * pages /\ d * pages \in Int
      BY <1>1
<1>3. pages >= 0
  <2> SUFFICES ASSUME pages <= -1 PROVE FALSE
      BY <1>1
  <2>1. d * pages <= d * (-1)
        BY <1>1
  <2> QED BY <1>1, <1>2, <2>1
<1>4. n > 0 => pages >= 1
  <2> SUFFICES ASSUME n > 0, pages = 0 PROVE FALSE
      BY <1>1, <1>3
  <2> QED BY <1>1
<1>5. n <= pages * d
      BY <1>1, <1>2
<1>6. ASSUME NEW p \in Nat, p < pages PROVE p * d < n
  <2>1. p + 1 <= pages
        BY <1>1, <1>6
  <2>2. (p + 1) * d <= pages * d
        BY <1>1, <2>1
  <2>3. (p + 1) * d = p * d + d /\ p * d \in Int
        BY SMT
  <2> QED BY <1>1, <1>2, <2>2, <2>3
<1>7. ASSUME NEW r \in 0..n - 1
      PROVE  \E p \in 0..pages - 1 : r >= p * d /\ r <= p * d + d - 1
  <2> DEFINE p == r \div d
  <2>1. p \in Int /\ d * p <= r /\ r < d * p + d
        BY SMT
  <2> HIDE DEF p
  <2>2. p * d = d * p /\ d * p \in Int
        BY <2>1
  <2>3. p >= 0
    <3> SUFFICES ASSUME p <= -1 PROVE FALSE
        BY <2>1
    <3>1. d * p <= d * (-1)
          BY <2>1
    <3> QED BY <2>1, <2>2, <3>1
  <2>4. p < pages
    <3> SUFFICES ASSUME p >= pages PROVE FALSE
        BY <1>1, <2>1
    <3>1. p * d >= pages * d
          BY <1>1, <2>1
    <3> QED BY <1>5, <1>2, <2>1, <2>2, <3>1
  <2> QED BY <1>1, <2>1, <2>2, <2>3, <2>4
<1> QED BY <1>1, <1>3, <1>4, <1>5, <1>6, <1>7 DEF pages

\* page_bounds: a page there is, and its rows begin before the last one.
LEMMA BoundsTell ==
    ASSUME NEW page \in Nat, NEW count \in Nat \cup {Unknown}
    PROVE  LET b == PageBounds(page, count) IN
           /\ b.page \in Nat
           /\ count \in Nat =>
                /\ b.pages \in Nat /\ b.page \in 0..b.pages - 1 /\ b.start = b.page * PageSize
                /\ b.start \in Nat /\ (count > 0 => b.start < count)
                /\ \A r \in 0..count - 1 : \E p \in 0..b.pages - 1 :
                      r >= p * PageSize /\ r <= p * PageSize + PageSize - 1
<1> DEFINE q == (count + PageSize - 1) \div PageSize
           pages == Max({1, q})
           at == IF count = Unknown THEN page ELSE Min({page, pages - 1})
           b == PageBounds(page, count)
<1>1. PageSize \in Nat \ {0}
      BY RankAssumption
<1>2. b = [page |-> at, pages |-> IF count = Unknown THEN 1 ELSE pages, start |-> at * PageSize]
      BY DEF PageBounds
<1> HIDE DEF b, at
<1>3. b.page = at /\ b.pages = (IF count = Unknown THEN 1 ELSE pages) /\ b.start = at * PageSize
  <2> HIDE DEF pages
  <2> QED BY <1>2
<1>4. CASE count = Unknown
  <2>1. at = page
        BY <1>4 DEF at
  <2>2. count \notin Nat
        BY <1>4 DEF Unknown
  <2> QED BY <1>3, <2>1, <2>2 DEF b
<1>5. CASE count \in Nat
  <2>1. count # Unknown
        BY <1>5 DEF Unknown
  <2> HIDE DEF q
  <2>2. /\ q \in Nat /\ (count > 0 => q >= 1)
        /\ \A p \in Nat : p < q => p * PageSize < count
        /\ \A r \in 0..count - 1 : \E p \in 0..q - 1 :
              r >= p * PageSize /\ r <= p * PageSize + PageSize - 1
        BY <1>1, <1>5, Pages DEF q
  <2>3. pages = IF 1 >= q THEN 1 ELSE q
        BY <2>2, MaxMin
  <2> HIDE DEF pages
  <2>4. pages \in Nat /\ pages >= 1 /\ (count > 0 => pages = q)
        BY <2>2, <2>3
  <2>5. at = IF page <= pages - 1 THEN page ELSE pages - 1
    <3>1. pages - 1 \in Int /\ page \in Int
          BY <2>4
    <3>2. Min({page, pages - 1}) = IF page <= pages - 1 THEN page ELSE pages - 1
          BY <3>1, MaxMin
    <3> QED BY <2>1, <3>2 DEF at
  <2>6. at \in 0..pages - 1 /\ at \in Nat
        BY <2>4, <2>5
  <2>7. b.page = at /\ b.pages = pages /\ b.start = at * PageSize
        BY <1>3, <2>1
  <2>8. at * PageSize \in Nat
        BY <1>1, <2>6
  <2>9. count > 0 => at * PageSize < count
        BY <2>2, <2>4, <2>6
  <2>10. \A r \in 0..count - 1 : \E p \in 0..pages - 1 :
            r >= p * PageSize /\ r <= p * PageSize + PageSize - 1
    <3>1. CASE count > 0
          BY <2>2, <2>4, <3>1
    <3>2. CASE ~(count > 0)
          BY <1>5, <3>2
    <3> QED BY <3>1, <3>2
  <2> QED BY <2>4, <2>6, <2>7, <2>8, <2>9, <2>10 DEF b
<1> QED BY <1>4, <1>5

Shows == /\ Window(Bounds.start) \subseteq Matching(state)
         /\ Matching(state) # {} => Window(Bounds.start) # {}
         /\ Matching(state) \subseteq UNION {Window(p * PageSize) : p \in 0..Bounds.pages - 1}

\* A rendered page shows what its controls say.
LEMMA PageShows ==
    ASSUME HubInv, PageInv, shown = state, total = Count
    PROVE  Shows
<1> DEFINE rows == Matching(memo.applied)
           n == Cardinality(rows)
           b == Bounds
<1>1. rows = Matching(state)
  <2>1. Same(memo.applied, state)
        BY KeysTell DEF PageInv
  <2> QED BY <2>1, SameMatch
<1>2. rows \subseteq DOMAIN latest /\ IsFiniteSet(rows) /\ n \in Nat /\ total = n
      BY MatchingIsFinite DEF Matching, MatchingFinite, Count
<1>3. shown.page \in Nat
      BY DEF PageInv, IsControls
<1>4. /\ b.pages \in Nat /\ b.page \in 0..b.pages - 1 /\ b.start = b.page * PageSize
      /\ b.start \in Nat /\ (n > 0 => b.start < n)
      /\ \A r \in 0..n - 1 : \E p \in 0..b.pages - 1 :
            r >= p * PageSize /\ r <= p * PageSize + PageSize - 1
  <2>1. PICK page, count : page = shown.page /\ count = total
        OBVIOUS
  <2>2. page \in Nat /\ count \in Nat /\ count \in Nat \cup {Unknown} /\ count = n
        BY <1>2, <1>3, <2>1
  <2>3. LET c == PageBounds(page, count) IN
        /\ c.page \in Nat
        /\ count \in Nat =>
             /\ c.pages \in Nat /\ c.page \in 0..c.pages - 1 /\ c.start = c.page * PageSize
             /\ c.start \in Nat /\ (count > 0 => c.start < count)
             /\ \A r \in 0..count - 1 : \E p \in 0..c.pages - 1 :
                   r >= p * PageSize /\ r <= p * PageSize + PageSize - 1
        BY <2>2, BoundsTell
  <2>4. b = PageBounds(page, count)
        BY <2>1 DEF Bounds
  <2> HIDE DEF b
  <2> QED BY <2>2, <2>3, <2>4
<1>5. PageSize \in Nat \ {0}
      BY RankAssumption
<1> HIDE DEF rows, b
<1>6. /\ \A o \in rows : RankIn(rows, o) \in 0..n - 1
      /\ \A k \in 0..n - 1 : \E o \in rows : RankIn(rows, o) = k
      BY <1>2, RanksAreAll
<1>7. \A start : Window(start) = {o \in rows : RankIn(rows, o) \in start..start + PageSize - 1}
      BY DEF Window, RankIn, rows
<1>8. Window(b.start) \subseteq rows
      BY <1>7
<1>9. ASSUME rows # {} PROVE Window(b.start) # {}
  <2>1. n > 0
    <3>1. PICK o \in rows : TRUE
          BY <1>9
    <3>2. RankIn(rows, o) \in 0..n - 1
          BY <1>6
    <3> HIDE DEF n
    <3> QED BY <1>2, <3>2
  <2> HIDE DEF n
  <2>2. b.start \in 0..n - 1
        BY <1>2, <1>4, <2>1
  <2>3. PICK o \in rows : RankIn(rows, o) = b.start
        BY <1>6, <2>2
  <2>4. b.start \in b.start..b.start + PageSize - 1
        BY <1>4, <1>5
  <2> QED BY <1>7, <2>3, <2>4
<1>10. ASSUME NEW o \in rows PROVE \E p \in 0..b.pages - 1 : o \in Window(p * PageSize)
  <2> HIDE DEF n
  <2>1. RankIn(rows, o) \in 0..n - 1
        BY <1>6
  <2>2. PICK p \in 0..b.pages - 1 :
            RankIn(rows, o) >= p * PageSize /\ RankIn(rows, o) <= p * PageSize + PageSize - 1
        BY <1>4, <2>1
  <2>3. p * PageSize \in Int
        BY <1>5
  <2>4. RankIn(rows, o) \in p * PageSize..p * PageSize + PageSize - 1
        BY <1>2, <1>5, <2>1, <2>2, <2>3
  <2> QED BY <1>7, <2>4
<1>11. rows \subseteq UNION {Window(p * PageSize) : p \in 0..b.pages - 1}
       BY <1>10
<1>12. /\ Window(b.start) \subseteq Matching(state)
       /\ Matching(state) # {} => Window(b.start) # {}
       /\ Matching(state) \subseteq UNION {Window(p * PageSize) : p \in 0..b.pages - 1}
       BY <1>1, <1>8, <1>9, <1>11
<1> QED BY <1>12 DEF Shows, b

BoundsNat == Bounds.page \in Nat

LEMMA BoundsAreNat == PageInv => BoundsNat
<1> SUFFICES ASSUME PageInv PROVE BoundsNat
    OBVIOUS
<1>1. shown.page \in Nat /\ total \in Nat \cup {Unknown}
      BY DEF PageInv, IsControls
<1> QED BY <1>1, BoundsTell DEF BoundsNat, Bounds

LEMMA PageInitInv == (\E trader \in BOOLEAN : PageInit(trader)) => PageInv
<1> SUFFICES ASSUME NEW trader \in BOOLEAN, PageInit(trader) PROVE PageInv
    OBVIOUS
<1>1. IsControls(state)
  <2>1. state = [account |-> Nothing, search |-> Nothing, breaks |-> FALSE, hubs |-> Names(config),
                 page |-> 0, key |-> Nothing, root |-> Nothing]
        BY DEF PageInit
  <2>2. /\ state.account = Nothing /\ state.search = Nothing /\ state.breaks = FALSE
        /\ state.hubs = Names(config) /\ state.page = 0 /\ state.key = Nothing /\ state.root = Nothing
        BY <2>1
  <2> QED BY <2>1, <2>2 DEF IsControls
<1>2. shown = state /\ memo = [key |-> FilterKey(state), applied |-> state] /\ total = 0
      BY DEF PageInit
<1>3. memo.key = FilterKey(state) /\ memo.applied = state
      BY <1>2
<1> QED BY <1>1, <1>2, <1>3 DEF PageInv

\* A control, or the page, or the row that is selected, is one field or two of the state.
LEMMA ControlsKept ==
    ASSUME PageInv, PageNext, Event
    PROVE  IsControls(state')
<1>1. IsControls(state) /\ BoundsNat
      BY BoundsAreNat DEF PageInv
<1>2. /\ state = [account |-> state.account, search |-> state.search, breaks |-> state.breaks,
                  hubs |-> state.hubs, page |-> state.page, key |-> state.key, root |-> state.root]
      /\ state.page \in Nat
      BY <1>1 DEF IsControls
<1>3. ASSUME NEW control \in {"account", "search", "breaks"}, NEW value, Pick(control, value)
      PROVE  IsControls(state')
  <2>1. state' = [state EXCEPT ![control] = value, !.page = 0]
        BY <1>3 DEF Pick
  <2>2. CASE control = "account"
        BY <1>2, <2>1, <2>2 DEF IsControls
  <2>3. CASE control = "search"
        BY <1>2, <2>1, <2>3 DEF IsControls
  <2>4. CASE control = "breaks"
        BY <1>2, <2>1, <2>4 DEF IsControls
  <2> QED BY <2>2, <2>3, <2>4
<1>4. ASSUME NEW page \in Nat, state' = [state EXCEPT !.page = page] PROVE IsControls(state')
      BY <1>2, <1>4 DEF IsControls
<1>5. CASE \E account \in {AccountOf[k] : k \in DOMAIN AccountOf} : Pick("account", account)
      BY <1>3, <1>5
<1>6. CASE \E text \in Searches : Pick("search", text)
      BY <1>3, <1>6
<1>7. CASE \E on \in BOOLEAN : on # shown.breaks /\ Pick("breaks", on)
      BY <1>3, <1>7
<1>8. ASSUME NEW hub, ToggleHub(hub) PROVE IsControls(state')
  <2>1. PICK hubs : state' = [state EXCEPT !.page = 0, !.hubs = hubs]
        BY <1>8 DEF ToggleHub
  <2> QED BY <1>2, <2>1 DEF IsControls
<1>9. ASSUME NEW o, PressRow(o) PROVE IsControls(state')
  <2>1. PICK root : state' = [state EXCEPT !.key = o, !.root = root]
        BY <1>9 DEF PressRow
  <2> QED BY <1>2, <2>1 DEF IsControls
<1>10. CASE ClearFilters
  <2>1. PICK hubs : state' = [state EXCEPT !.account = Nothing, !.search = Nothing, !.breaks = FALSE,
                                           !.hubs = hubs, !.page = 0]
        BY <1>10 DEF ClearFilters
  <2> QED BY <1>2, <2>1 DEF IsControls
<1>11. CASE Prev
  <2>1. Bounds.page - 1 \in Nat
        BY <1>1, <1>11 DEF Prev, BoundsNat
  <2> QED BY <1>4, <1>11, <2>1 DEF Prev
<1>12. CASE NextPage
  <2>1. Bounds.page + 1 \in Nat
        BY <1>1 DEF BoundsNat
  <2> QED BY <1>4, <1>12, <2>1 DEF NextPage
<1>13. CASE Render
  <2>1. events' = events + 1 /\ shown' = shown /\ memo' = memo /\ total' = total /\ shown' = state
        BY <1>13 DEF Event, Render
  <2>2. shown = state /\ state' = state
        BY <1>13, <2>1 DEF Render
  <2> QED BY <1>1, <2>2
<1> QED BY <1>5, <1>6, <1>7, <1>8, <1>9, <1>10, <1>11, <1>12, <1>13 DEF PageNext

LEMMA PageStepInv ==
    ASSUME HubInv, PageInv, PageNext
    PROVE  PageInv' /\ UNCHANGED hubVars
<1>1. Event \/ Render
      BY Zenon DEF PageNext, Pick, ToggleHub, ClearFilters, Prev, NextPage, PressRow
<1>2. CASE Event
  <2>1. IsControls(state')
        BY <1>2, ControlsKept
  <2>2. shown' = shown /\ memo' = memo /\ total' = total /\ UNCHANGED hubVars
        BY <1>2 DEF Event
  <2> QED BY <2>1, <2>2 DEF PageInv, IsControls, FilterKey
<1>3. CASE Render
  <2>1. shown' = state /\ state' = state /\ UNCHANGED hubVars
        BY <1>3 DEF Render
  <2>2. CASE memo.key = FilterKey(state)
    <3>1. memo' = memo /\ total' = Count
          BY <1>3, <2>2 DEF Render
    <3>2. total' \in Nat
          BY <3>1, MatchingIsFinite DEF Count, MatchingFinite
    <3> QED BY <2>1, <2>2, <3>1, <3>2 DEF PageInv, IsControls, FilterKey
  <2>3. CASE memo.key # FilterKey(state)
    <3>1. /\ memo' = [key |-> FilterKey(state), applied |-> state]
          /\ total' \in {Unknown, Cardinality(Matching(state))}
          BY <1>3, <2>3 DEF Render
    <3>2. memo'.key = FilterKey(state) /\ memo'.applied = state
          BY <3>1
    <3>3. total' \in Nat \cup {Unknown}
          BY <3>1, MatchingIsFinite DEF MatchingFinite
    <3> QED BY <2>1, <3>2, <3>3 DEF PageInv, IsControls, FilterKey
  <2> QED BY <2>2, <2>3
<1> QED BY <1>1, <1>2, <1>3

LEMMA PageInvHolds == PageSpec => [](HubInv /\ PageInv)
<1>1. Init /\ (\E trader \in BOOLEAN : PageInit(trader)) => HubInv /\ PageInv
      BY HubInitInv, PageInitInv
<1>2. HubInv /\ PageInv /\ [(Next /\ UNCHANGED pageVars) \/ PageNext]_<<hubVars, pageVars>>
          => (HubInv /\ PageInv)'
  <2> SUFFICES ASSUME HubInv, PageInv, [(Next /\ UNCHANGED pageVars) \/ PageNext]_<<hubVars, pageVars>>
               PROVE  (HubInv /\ PageInv)'
      OBVIOUS
  <2>1. ASSUME UNCHANGED pageVars PROVE PageInv'
        BY <2>1 DEF pageVars, PageInv, IsControls, FilterKey
  <2>2. ASSUME UNCHANGED hubVars PROVE HubInv'
        BY <2>2, HubNextInv
  <2>3. CASE Next /\ UNCHANGED pageVars
        BY <2>1, <2>3, HubNextInv
  <2>4. CASE PageNext
        BY <2>2, <2>4, PageStepInv
  <2>5. CASE UNCHANGED <<hubVars, pageVars>>
        BY <2>1, <2>2, <2>5
  <2> QED BY <2>3, <2>4, <2>5
<1> QED BY <1>1, <1>2, PTL DEF PageSpec

\* Once it is rendered, the page shows what its controls say, and its pages are all the rows.
\* dashboard.py: filter_key, use_memo; config.py: page_bounds.
THEOREM PagesShow == PageSpec => []PagesShowAll
<1>1. HubInv /\ PageInv => PagesShowAll
  <2> SUFFICES ASSUME HubInv, PageInv, shown = state, total = Count PROVE Shows
      BY DEF PagesShowAll, Shows
  <2> QED BY PageShows
<1> QED BY <1>1, PageInvHolds, PTL
-----------------------------------------------------------------------------
\* A family only grows

\* An id is of one order, so a parent once known is the parent.
LEMMA OwnersStay ==
    ASSUME HubTypes, NEW x, x[1] \in Names(config),
           NEW p \in DOMAIN tape[x[1]], NEW q \in DOMAIN tape[x[1]],
           IsFix(tape[x[1]], p), IsFix(tape[x[1]], q),
           \/ tape[x[1]][p].id = x[2]
           \/ tape[x[1]][p].orderId # Nothing /\ tape[x[1]][p].orderId = x[2],
           \/ tape[x[1]][q].id = x[2]
           \/ tape[x[1]][q].orderId # Nothing /\ tape[x[1]][q].orderId = x[2]
    PROVE  tape[x[1]][p].key = tape[x[1]][q].key
<1> DEFINE t == tape[x[1]]
<1>1. tape \in Tapes /\ x[1] \in DOMAIN tape
      BY DEF HubTypes
<1>2. /\ t[p].orderId # Nothing => t[q].id # t[p].orderId
      /\ t[q].orderId # Nothing => t[p].id # t[q].orderId
      BY TapeTyped
<1>3. \/ t[p].id = t[q].id
      \/ t[p].orderId # Nothing /\ t[p].orderId = t[q].orderId
      BY <1>2
<1> QED BY <1>1, <1>3, OneOwnerAssumption DEF IsFix

OwnersTell == \A x \in DOMAIN IdIndex : x[1] \in Names(config) /\ \E p : OwnedAt(x, p)

LEMMA OwnersAreTold == HubInv => OwnersTell
BY OwnersAreOrders DEF OwnersTell

ParentsTell == \A o \in DOMAIN latest :
                 /\ ParentOf(o) # Nothing <=> Linked(o)
                 /\ Linked(o) => ParentOf(o) = <<Upstream(config, o[1]),
                                                 IdIndex[<<Upstream(config, o[1]), latest[o].ext>>]>>

LEMMA ParentsAreTold == HubInv => ParentsTell
BY ParentIs DEF ParentsTell

ParentsStay == \A o : ParentMap(o) # Nothing => ParentMap(o)' = ParentMap(o)

LEMMA BatchKeepsParents ==
    ASSUME HubInv, HubInv', NEW hub \in Names(config), NEW new, NEW i, NEW j, Told(new, hub, i, j)
    PROVE  ParentsStay
<1> SUFFICES ASSUME NEW o, ParentMap(o) # Nothing PROVE ParentMap(o)' = ParentMap(o)
    BY DEF ParentsStay
<1>1. config' = config /\ tape' = tape /\ HubTypes
      BY DEF Told, HubInv
<1>2. o \in DOMAIN latest /\ ParentMap(o) = ParentOf(o)
      BY DEF ParentMap
<1> DEFINE up == Upstream(config, o[1])
<1>0. PICK x : x = <<up, latest[o].ext>>
      OBVIOUS
<1>3. latest[o].ext # Nothing /\ x \in DOMAIN IdIndex /\ ParentOf(o) = <<up, IdIndex[x]>>
      BY <1>0, <1>2, ParentIs DEF Linked
<1>4. o \in DOMAIN latest' /\ latest'[o].ext = latest[o].ext
      BY <1>2, <1>3, LinkKeeps
<1>5. Upstream(config, o[1])' = up
      BY <1>1 DEF Upstream, Named
<1>6. ParentOf(o)' # Nothing
  <2>1. LinkedOn
        BY BatchLinked
  <2> QED BY <1>2, <2>1 DEF LinkedOn
<1>7. ParentsTell' /\ OwnersTell'
  <2>1. (HubInv => ParentsTell)' /\ (HubInv => OwnersTell)'
        BY ParentsAreTold, OwnersAreTold, PTL
  <2> QED BY <2>1
<1>8. x \in DOMAIN IdIndex' /\ ParentOf(o)' = <<up, IdIndex'[x]>>
      BY <1>0, <1>4, <1>5, <1>6, <1>7 DEF ParentsTell, Linked
<1>10. OwnersTell
       BY OwnersAreTold
<1>11. PICK p : OwnedAt(x, p)
       BY <1>3, <1>10 DEF OwnersTell
<1>12. PICK q : OwnedAt(x, q)'
       BY <1>7, <1>8 DEF OwnersTell
<1>13. x[1] \in Names(config)
       BY <1>3, <1>10 DEF OwnersTell
<1>14. /\ p \in DOMAIN tape[x[1]] /\ IsFix(tape[x[1]], p) /\ tape[x[1]][p].key = IdIndex[x]
       /\ \/ tape[x[1]][p].id = x[2]
          \/ tape[x[1]][p].orderId # Nothing /\ tape[x[1]][p].orderId = x[2]
       BY <1>11 DEF OwnedAt
<1>15. /\ q \in DOMAIN tape[x[1]] /\ IsFix(tape[x[1]], q) /\ tape[x[1]][q].key = IdIndex'[x]
       /\ \/ tape[x[1]][q].id = x[2]
          \/ tape[x[1]][q].orderId # Nothing /\ tape[x[1]][q].orderId = x[2]
       BY <1>1, <1>12 DEF OwnedAt
<1>16. IdIndex'[x] = IdIndex[x]
       BY <1>1, <1>13, <1>14, <1>15, OwnersStay
<1>17. ParentMap(o)' = ParentOf(o)'
       BY <1>4 DEF ParentMap
<1> QED BY <1>2, <1>3, <1>8, <1>16, <1>17

\* The root of an order without a parent is the order, and the root of an order is its parent's.
RootsTell == \A o : /\ ParentMap(o) = Nothing => Walked(o).root = o
                    /\ \A up : (up = ParentMap(o) /\ up # Nothing) => Walked(up).root = Walked(o).root
                    /\ \A top : (o \in DOMAIN latest /\ top = Walked(o).root) => ParentMap(top) = Nothing

LEMMA RootsAreTold == HubInv => RootsTell
<1> SUFFICES ASSUME HubInv, NEW o
             PROVE  /\ ParentMap(o) = Nothing => Walked(o).root = o
                    /\ ParentMap(o) # Nothing => Walked(ParentMap(o)).root = Walked(o).root
                    /\ o \in DOMAIN latest => ParentMap(Walked(o).root) = Nothing
    BY DEF RootsTell
<1> DEFINE L == Len(config)
<1>1. HubTypes /\ L \in Nat
      BY ConfigTyped DEF HubInv
<1>2. PICK w : Walking(w, o) /\ Walked(o) = w[L]
      BY <1>1, WalkedIs
<1>3. ASSUME ParentMap(o) = Nothing PROVE Walked(o).root = o
  <2> DEFINE bad == {x \in 0..L : w[x].root # o}
  <2>1. CASE bad # {}
    <3>1. bad \subseteq Nat
          OBVIOUS
    <3> HIDE DEF bad
    <3>2. PICK x \in bad : \A y \in bad : x <= y
          BY <2>1, <3>1, LeastElement
    <3> USE DEF bad
    <3>3. x \in 0..L /\ w[x].root # o
          BY <3>2
    <3>4. x # 0
          BY <1>2, <3>3 DEF Walking, Start
    <3> HIDE DEF L
    <3>5. x - 1 \in 0..L /\ ~(x <= x - 1) /\ x \in 1..L
          BY <1>1, <3>3, <3>4
    <3>6. w[x - 1].root = o
          BY <3>2, <3>5
    <3>7. w[x] = Above(w[x - 1])
          BY <1>2, <3>5 DEF Walking, L
    <3> QED BY <1>3, <3>3, <3>6, <3>7 DEF Above
  <2>2. CASE bad = {}
    <3>1. L \in 0..L
          BY <1>1
    <3> QED BY <1>2, <2>2, <3>1
  <2> QED BY <2>1, <2>2
<1>4. ASSUME ParentMap(o) # Nothing
      PROVE  Walked(ParentMap(o)).root = Walked(o).root
  <2>0. o \in DOMAIN latest
        BY <1>4 DEF ParentMap
  <2>1. PICK v : Walking(v, ParentMap(o)) /\ Walked(ParentMap(o)) = v[L]
        BY <1>1, WalkedIs
  <2>2. v[L].root = w[L].root
        BY <1>2, <1>4, <2>0, <2>1, WalksMeet
  <2> QED BY <1>2, <2>1, <2>2
<1>5. o \in DOMAIN latest => ParentMap(Walked(o).root) = Nothing
      BY <1>2, WalkEnds
<1> QED BY <1>3, <1>4, <1>5

\* The old root is on the new walk.
LEMMA RootsCarry ==
    ASSUME HubTypes, RootsTell', ParentsStay, NEW a, NEW top, top = Walked(a).root
    PROVE  (Walked(top).root)' = (Walked(a).root)'
<1> DEFINE L == Len(config)
<1>1. L \in Nat
      BY ConfigTyped
<1>2. PICK w : Walking(w, a) /\ Walked(a) = w[L]
      BY WalkedIs
<1>3. PICK n : n = L
      OBVIOUS
<1> DEFINE bad == {x \in 0..n : (Walked(w[x].root).root)' # (Walked(a).root)'}
<1>4. CASE bad # {}
  <2>1. bad \subseteq Nat
        BY <1>1, <1>3
  <2> HIDE DEF bad
  <2>2. PICK x \in bad : \A y \in bad : x <= y
        BY <1>4, <2>1, LeastElement
  <2> USE DEF bad
  <2>3. x \in 0..n /\ (Walked(w[x].root).root)' # (Walked(a).root)'
        BY <2>2
  <2>4. x # 0
    <3>1. w[0].root = a
          BY <1>2 DEF Walking, Start
    <3> QED BY <2>3, <3>1
  <2>5. x - 1 \in 0..n /\ ~(x <= x - 1) /\ x \in 1..n
        BY <1>1, <1>3, <2>3, <2>4
  <2>6. (Walked(w[x - 1].root).root)' = (Walked(a).root)'
        BY <2>2, <2>5
  <2> HIDE DEF bad
  <2>7. PICK c, d : c = w[x - 1].root /\ d = w[x].root
        OBVIOUS
  <2>8. w[x] = Above(w[x - 1])
        BY <1>2, <1>3, <2>5 DEF Walking
  <2>9. CASE ParentMap(c) = Nothing
    <3>1. d = c
          BY <2>7, <2>8, <2>9 DEF Above
    <3> QED BY <2>3, <2>6, <2>7, <3>1
  <2>10. CASE ParentMap(c) # Nothing
    <3>1. d = ParentMap(c)
          BY <2>7, <2>8, <2>10 DEF Above
    <3>2. ParentMap(c)' = d /\ d # Nothing
          BY <2>10, <3>1 DEF ParentsStay
    <3>3. (Walked(d).root)' = (Walked(c).root)'
          BY <3>2 DEF RootsTell
    <3> QED BY <2>3, <2>6, <2>7, <3>3
  <2> QED BY <2>9, <2>10
<1>5. CASE bad = {}
  <2>1. n \in 0..n /\ top = w[n].root
        BY <1>1, <1>2, <1>3
  <2> QED BY <1>5, <2>1
<1> QED BY <1>4, <1>5

\* What is selected, and the root that was its root when it was clicked, are of one family.
Together(s) == s.key # Nothing => s.key \in DOMAIN latest /\ Walked(s.root).root = Walked(s.key).root

ChainInv == Together(state) /\ Together(shown)

LEMMA TogetherStays ==
    ASSUME HubInv, RootsTell', NEW key \in DOMAIN latest, NEW root,
           Walked(root).root = Walked(key).root, ParentsStay
    PROVE  (Walked(root).root)' = (Walked(key).root)'
<1>1. PICK top : top = Walked(key).root
      OBVIOUS
<1>2. HubTypes
      BY DEF HubInv
<1>3. (Walked(top).root)' = (Walked(key).root)'
      BY <1>1, <1>2, RootsCarry
<1>4. (Walked(top).root)' = (Walked(root).root)'
      BY <1>1, <1>2, RootsCarry
<1> QED BY <1>3, <1>4

LEMMA HubsKeepTogether ==
    ASSUME HubInv, HubInv', ChainInv, Next, UNCHANGED pageVars
    PROVE  ChainInv'
<1>1. PICK hub \in Names(config), failing \in SUBSET Streams :
          \E n \in 1..Len(tape[hub]) : Batch(hub, n, failing)
      BY DEF Next
<1>2. PICK n \in 1..Len(tape[hub]) : Batch(hub, n, failing)
      BY <1>1
<1>3. PICK new, i, j : Told(new, hub, i, j)
      BY <1>2, BatchTells
<1>4. ParentsStay
      BY <1>3, BatchKeepsParents
<1>5. \A o \in DOMAIN latest : o \in DOMAIN latest'
      BY <1>3, LinkKeeps
<1>6. RootsTell'
  <2>1. (HubInv => RootsTell)'
        BY RootsAreTold, PTL
  <2> QED BY <2>1
<1>7. state' = state /\ shown' = shown
      BY DEF pageVars
<1>8. ASSUME NEW key, NEW root, key \in DOMAIN latest, Walked(root).root = Walked(key).root
      PROVE  key \in DOMAIN latest' /\ (Walked(root).root)' = (Walked(key).root)'
      BY <1>4, <1>5, <1>6, <1>8, TogetherStays
<1>9. PICK key, root : key = state.key /\ root = state.root
      OBVIOUS
<1>10. PICK key2, root2 : key2 = shown.key /\ root2 = shown.root
       OBVIOUS
<1>11. Together(state)'
  <2>1. key # Nothing => key \in DOMAIN latest /\ Walked(root).root = Walked(key).root
        BY <1>9 DEF ChainInv, Together
  <2>2. key # Nothing => key \in DOMAIN latest' /\ (Walked(root).root)' = (Walked(key).root)'
        BY <1>8, <2>1
  <2>3. state'.key = key /\ state'.root = root
        BY <1>7, <1>9
  <2> QED BY <2>2, <2>3 DEF Together
<1>12. Together(shown)'
  <2>1. key2 # Nothing => key2 \in DOMAIN latest /\ Walked(root2).root = Walked(key2).root
        BY <1>10 DEF ChainInv, Together
  <2>2. key2 # Nothing => key2 \in DOMAIN latest' /\ (Walked(root2).root)' = (Walked(key2).root)'
        BY <1>8, <2>1
  <2>3. shown'.key = key2 /\ shown'.root = root2
        BY <1>7, <1>10
  <2> QED BY <2>2, <2>3 DEF Together
<1> QED BY <1>11, <1>12 DEF ChainInv

LEMMA StillParents ==
    ASSUME UNCHANGED hubVars
    PROVE  ParentsStay /\ latest' = latest
<1>1. config' = config /\ latest' = latest /\ ids' = ids
      BY DEF hubVars
<1>2. IdIndex' = IdIndex
      BY <1>1 DEF IdIndex, Over
<1>3. \A o : Upstream(config, o[1])' = Upstream(config, o[1])
      BY <1>1 DEF Upstream, Named
<1>4. \A o : ParentOf(o)' = ParentOf(o)
      BY <1>1, <1>2, <1>3 DEF ParentOf
<1> QED BY <1>1, <1>4 DEF ParentsStay, ParentMap

LEMMA WindowsAreOrders == \A start : Window(start) \cup Chain \subseteq DOMAIN latest
BY DEF Window, Chain, Matching

\* Only a row that is pressed changes what is selected.
Selects(o) == o \in DOMAIN latest /\ state'.key = o /\ state'.root = Walked(o).root

LEMMA Selections ==
    ASSUME PageInv, PageNext
    PROVE  (state'.key = state.key /\ state'.root = state.root) \/ \E o : Selects(o)
<1>1. state = [account |-> state.account, search |-> state.search, breaks |-> state.breaks,
               hubs |-> state.hubs, page |-> state.page, key |-> state.key, root |-> state.root]
      BY DEF PageInv, IsControls
<1>2. ASSUME NEW control \in {"account", "search", "breaks"}, NEW value, Pick(control, value)
      PROVE  state'.key = state.key /\ state'.root = state.root
  <2>1. state' = [state EXCEPT ![control] = value, !.page = 0]
        BY <1>2 DEF Pick
  <2>2. CASE control = "account"
        BY <1>1, <2>1, <2>2
  <2>3. CASE control = "search"
        BY <1>1, <2>1, <2>3
  <2>4. CASE control = "breaks"
        BY <1>1, <2>1, <2>4
  <2> QED BY <2>2, <2>3, <2>4
<1>3. ASSUME NEW page, state' = [state EXCEPT !.page = page]
      PROVE  state'.key = state.key /\ state'.root = state.root
      BY <1>1, <1>3
<1>4. CASE \E account \in {AccountOf[k] : k \in DOMAIN AccountOf} : Pick("account", account)
      BY <1>2, <1>4
<1>5. CASE \E text \in Searches : Pick("search", text)
      BY <1>2, <1>5
<1>6. CASE \E on \in BOOLEAN : on # shown.breaks /\ Pick("breaks", on)
      BY <1>2, <1>6
<1>7. ASSUME NEW hub, ToggleHub(hub) PROVE state'.key = state.key /\ state'.root = state.root
  <2>1. PICK hubs : state' = [state EXCEPT !.page = 0, !.hubs = hubs]
        BY <1>7 DEF ToggleHub
  <2> QED BY <1>1, <2>1
<1>8. ASSUME NEW o, PressRow(o) PROVE Selects(o)
  <2>1. PICK root : root = Walked(o).root /\ state' = [state EXCEPT !.key = o, !.root = root]
        BY <1>8 DEF PressRow
  <2>2. state'.key = o /\ state'.root = root
        BY <1>1, <2>1
  <2>3. o \in DOMAIN latest
        BY <1>8, WindowsAreOrders DEF PressRow
  <2> QED BY <2>1, <2>2, <2>3 DEF Selects
<1>9. CASE ClearFilters
  <2>1. PICK hubs : state' = [state EXCEPT !.account = Nothing, !.search = Nothing, !.breaks = FALSE,
                                           !.hubs = hubs, !.page = 0]
        BY <1>9 DEF ClearFilters
  <2> QED BY <1>1, <2>1
<1>10. CASE Prev
       BY <1>3, <1>10 DEF Prev
<1>11. CASE NextPage
       BY <1>3, <1>11 DEF NextPage
<1>12. CASE Render
       BY <1>12 DEF Render
<1> QED BY <1>4, <1>5, <1>6, <1>7, <1>8, <1>9, <1>10, <1>11, <1>12 DEF PageNext

LEMMA PageKeepsTogether ==
    ASSUME HubInv, HubInv', PageInv, ChainInv, PageNext
    PROVE  ChainInv'
<1>1. ParentsStay /\ latest' = latest
      BY PageStepInv, StillParents
<1>2. RootsTell' /\ HubTypes
  <2>1. (HubInv => RootsTell)'
        BY RootsAreTold, PTL
  <2> QED BY <2>1 DEF HubInv
<1>3. ASSUME NEW key, NEW root, key # Nothing =>
                key \in DOMAIN latest /\ Walked(root).root = Walked(key).root
      PROVE  key # Nothing => key \in DOMAIN latest' /\ (Walked(root).root)' = (Walked(key).root)'
      BY <1>1, <1>2, <1>3, TogetherStays
<1>4. PICK key, root : key = state.key /\ root = state.root
      OBVIOUS
<1>5. key # Nothing => key \in DOMAIN latest' /\ (Walked(root).root)' = (Walked(key).root)'
  <2>1. key # Nothing => key \in DOMAIN latest /\ Walked(root).root = Walked(key).root
        BY <1>4 DEF ChainInv, Together
  <2> QED BY <1>3, <2>1
<1>6. Together(state)'
  <2>1. CASE state'.key = state.key /\ state'.root = state.root
        BY <1>4, <1>5, <2>1 DEF Together
  <2>2. CASE \E o : Selects(o)
    <3>1. PICK o : Selects(o)
          BY <2>2
    <3>2. PICK top : top = Walked(o).root
          OBVIOUS
    <3>3. (Walked(top).root)' = (Walked(o).root)'
          BY <1>1, <1>2, <3>2, RootsCarry
    <3>4. state'.key = o /\ state'.root = top /\ o \in DOMAIN latest'
          BY <1>1, <3>1, <3>2 DEF Selects
    <3> QED BY <3>3, <3>4 DEF Together
  <2> QED BY <2>1, <2>2, Selections
<1>7. Together(shown)'
  <2>1. shown' = shown \/ shown' = state
        BY Zenon DEF PageNext, Pick, ToggleHub, ClearFilters, Prev, NextPage, PressRow, Render, Event
  <2>2. CASE shown' = state
        BY <1>4, <1>5, <2>2 DEF Together
  <2>3. CASE shown' = shown
    <3>1. PICK key2, root2 : key2 = shown.key /\ root2 = shown.root
          OBVIOUS
    <3>2. key2 # Nothing => key2 \in DOMAIN latest /\ Walked(root2).root = Walked(key2).root
          BY <3>1 DEF ChainInv, Together
    <3>3. key2 # Nothing => key2 \in DOMAIN latest' /\ (Walked(root2).root)' = (Walked(key2).root)'
          BY <1>3, <3>2
    <3>4. shown'.key = key2 /\ shown'.root = root2
          BY <2>3, <3>1
    <3> QED BY <3>3, <3>4 DEF Together
  <2> QED BY <2>1, <2>2, <2>3
<1> QED BY <1>6, <1>7 DEF ChainInv

LEMMA ChainInitInv == (\E trader \in BOOLEAN : PageInit(trader)) => ChainInv
<1> SUFFICES ASSUME NEW trader \in BOOLEAN, PageInit(trader) PROVE ChainInv
    OBVIOUS
<1>1. state.key = Nothing /\ shown = state
  <2>1. state = [account |-> Nothing, search |-> Nothing, breaks |-> FALSE, hubs |-> Names(config),
                 page |-> 0, key |-> Nothing, root |-> Nothing]
        BY DEF PageInit
  <2> QED BY <2>1 DEF PageInit
<1> QED BY <1>1 DEF ChainInv, Together

\* The chain is the family of the order that was clicked; it is empty exactly when the root kept at
\* the click has since been linked to an order above it.
\* dashboard.py: _selection_handler, _chain_view.
THEOREM ChainOfSelected == PageSpec => []ChainIsOfSelected
<1>1. Init /\ (\E trader \in BOOLEAN : PageInit(trader)) => ChainInv
      BY ChainInitInv
<1>2. (HubInv /\ PageInv) /\ (HubInv /\ PageInv)' /\ ChainInv /\ [(Next /\ UNCHANGED pageVars) \/ PageNext]_<<hubVars, pageVars>>
          => ChainInv'
  <2> SUFFICES ASSUME HubInv, HubInv', PageInv, ChainInv, [(Next /\ UNCHANGED pageVars) \/ PageNext]_<<hubVars, pageVars>>
               PROVE  ChainInv'
      OBVIOUS
  <2>1. CASE Next /\ UNCHANGED pageVars
        BY <2>1, HubsKeepTogether
  <2>2. CASE PageNext
        BY <2>2, PageKeepsTogether
  <2>3. CASE UNCHANGED <<hubVars, pageVars>>
    <3>1. ParentsStay /\ latest' = latest /\ state' = state /\ shown' = shown
      <4>1. UNCHANGED hubVars /\ UNCHANGED pageVars
            BY <2>3
      <4> QED BY <4>1, StillParents DEF pageVars
    <3>2. RootsTell'
      <4>1. (HubInv => RootsTell)'
            BY RootsAreTold, PTL
      <4> QED BY <4>1
    <3>3. ASSUME NEW key, NEW root, key # Nothing =>
                    key \in DOMAIN latest /\ Walked(root).root = Walked(key).root
          PROVE  key # Nothing => key \in DOMAIN latest' /\ (Walked(root).root)' = (Walked(key).root)'
          BY <3>1, <3>2, <3>3, TogetherStays
    <3>4. PICK key, root, key2, root2 : /\ key = state.key /\ root = state.root
                                        /\ key2 = shown.key /\ root2 = shown.root
          OBVIOUS
    <3>5. /\ key # Nothing => key \in DOMAIN latest /\ Walked(root).root = Walked(key).root
          /\ key2 # Nothing => key2 \in DOMAIN latest /\ Walked(root2).root = Walked(key2).root
          BY <3>4 DEF ChainInv, Together
    <3>6. /\ key # Nothing => key \in DOMAIN latest' /\ (Walked(root).root)' = (Walked(key).root)'
          /\ key2 # Nothing => key2 \in DOMAIN latest' /\ (Walked(root2).root)' = (Walked(key2).root)'
          BY <3>3, <3>5
    <3>7. /\ state'.key = key /\ state'.root = root
          /\ shown'.key = key2 /\ shown'.root = root2
          BY <3>1, <3>4
    <3> QED BY <3>6, <3>7 DEF ChainInv, Together
  <2> QED BY <2>1, <2>2, <2>3
<1>3. HubInv /\ ChainInv => ChainIsOfSelected
  <2> SUFFICES ASSUME HubInv, ChainInv, shown.key # Nothing
               PROVE  IF ParentMap(shown.root) = Nothing
                      THEN Chain = {o \in DOMAIN latest : Walked(o).root = Walked(shown.key).root}
                      ELSE Chain = {}
      BY DEF ChainIsOfSelected
  <2>1. RootsTell
        BY RootsAreTold
  <2>2. CASE ParentMap(shown.root) = Nothing
    <3>1. Walked(shown.root).root = shown.root
          BY <2>1, <2>2 DEF RootsTell
    <3>2. Walked(shown.key).root = shown.root
          BY <3>1 DEF ChainInv, Together
    <3> QED BY <2>2, <3>2 DEF Chain
  <2>3. CASE ParentMap(shown.root) # Nothing
    <3>1. ASSUME NEW o \in DOMAIN latest, Walked(o).root = shown.root PROVE FALSE
          BY <2>1, <2>3, <3>1 DEF RootsTell
    <3> QED BY <2>3, <3>1 DEF Chain
  <2> QED BY <2>2, <2>3
<1>4. PageSpec => []ChainInv
      BY <1>1, <1>2, PageInvHolds, PTL DEF PageSpec
<1> QED BY <1>3, <1>4, PageInvHolds, PTL
-----------------------------------------------------------------------------
\* Sums

LEMMA SmallestSet ==
    ASSUME NEW T, T # {}, \A s \in T : IsFiniteSet(s)
    PROVE  \E s \in T : \A r \in T : Cardinality(s) <= Cardinality(r)
<1> DEFINE sizes == {Cardinality(s) : s \in T}
<1>1. sizes \subseteq Nat
      BY FS_CardinalityType
<1>2. sizes # {}
      OBVIOUS
<1> HIDE DEF sizes
<1>3. PICK m \in sizes : \A k \in sizes : m <= k
      BY <1>1, <1>2, LeastElement
<1> QED BY <1>3 DEF sizes

LEMMA OneLess ==
    ASSUME NEW s, IsFiniteSet(s), NEW x \in s
    PROVE  /\ IsFiniteSet(s \ {x}) /\ Cardinality(s) \in Nat /\ Cardinality(s \ {x}) \in Nat
           /\ ~(Cardinality(s) <= Cardinality(s \ {x}))
<1>1. IsFiniteSet(s \ {x}) /\ Cardinality(s \ {x}) = Cardinality(s) - 1
      BY FS_RemoveElement
<1>2. Cardinality(s) \in Nat /\ Cardinality(s \ {x}) \in Nat
      BY <1>1, FS_CardinalityType
<1> QED BY <1>1, <1>2

\* The sum of the values of g over a set.
Sum(g, S) == MapThenSumSet(LAMBDA x : g[x], S)

First(s) == CHOOSE x \in s : TRUE

\* The partial sums over the subsets of a set.
Sums(h, g, S) == \A s \in SUBSET S :
                    h[s] = IF s = {} THEN 0 ELSE g[First(s)] + h[s \ {First(s)}]

LEMMA SumsAreOne ==
    ASSUME NEW g, NEW S, NEW R, NEW h, NEW k, Sums(h, g, S), Sums(k, g, R),
           NEW s, s \subseteq S, s \subseteq R, IsFiniteSet(s)
    PROVE  h[s] = k[s]
<1> DEFINE bad == {r \in SUBSET s : h[r] # k[r]}
<1>1. CASE bad # {}
  <2>1. \A r \in bad : IsFiniteSet(r)
        BY FS_Subset
  <2> HIDE DEF bad
  <2>2. PICK r \in bad : \A q \in bad : Cardinality(r) <= Cardinality(q)
        BY <1>1, <2>1, SmallestSet
  <2> USE DEF bad
  <2>3. r \in SUBSET s /\ h[r] # k[r] /\ IsFiniteSet(r)
        BY <2>1, <2>2
  <2>4. r \in SUBSET S /\ r \in SUBSET R
        BY <2>3
  <2>5. r # {}
        BY <2>3, <2>4 DEF Sums
  <2> DEFINE x == First(r)
  <2>6. x \in r
        BY <2>5 DEF First
  <2> HIDE DEF x
  <2>7. ~(Cardinality(r) <= Cardinality(r \ {x}))
        BY <2>3, <2>6, OneLess
  <2>8. h[r \ {x}] = k[r \ {x}]
        BY <2>2, <2>3, <2>7
  <2>9. h[r] = g[x] + h[r \ {x}] /\ k[r] = g[x] + k[r \ {x}]
        BY <2>4, <2>5 DEF Sums, x
  <2> QED BY <2>3, <2>8, <2>9
<1>2. CASE bad = {}
      BY <1>2
<1> QED BY <1>1, <1>2

LEMMA SumsExist ==
    ASSUME NEW g, NEW S, IsFiniteSet(S)
    PROVE  \E h : h = [s \in SUBSET S |-> h[s]] /\ Sums(h, g, S)
<1> DEFINE Good(T) == \E h : Sums(h, g, T)
           bad == {T \in SUBSET S : ~Good(T)}
<1>1. CASE bad # {}
  <2>1. \A r \in bad : IsFiniteSet(r)
        BY FS_Subset
  <2> HIDE DEF bad
  <2>2. PICK T \in bad : \A q \in bad : Cardinality(T) <= Cardinality(q)
        BY <1>1, <2>1, SmallestSet
  <2> USE DEF bad
  <2>3. T \in SUBSET S /\ ~Good(T) /\ IsFiniteSet(T)
        BY <2>1, <2>2
  <2>4. ASSUME NEW r \in SUBSET T, r # T PROVE Good(r)
    <3>1. Cardinality(r) < Cardinality(T)
      <4>1. /\ Cardinality(r) <= Cardinality(T) /\ Cardinality(r) # Cardinality(T)
            /\ IsFiniteSet(r)
            BY <2>3, <2>4, FS_Subset
      <4>2. Cardinality(r) \in Nat /\ Cardinality(T) \in Nat
            BY <2>3, <4>1, FS_CardinalityType
      <4> QED BY <4>1, <4>2
    <3>2. ~(Cardinality(T) <= Cardinality(r))
      <4>1. Cardinality(r) \in Nat /\ Cardinality(T) \in Nat
            BY <2>3, FS_Subset, FS_CardinalityType
      <4> QED BY <3>1, <4>1
    <3>3. r \in SUBSET S
          BY <2>3
    <3> HIDE DEF Good
    <3> QED BY <2>2, <3>2, <3>3
  <2> DEFINE At(r) == (CHOOSE h : Sums(h, g, r))[r]
             x == First(T)
             h == [r \in SUBSET T |-> IF r # T THEN At(r)
                                      ELSE IF T = {} THEN 0 ELSE g[x] + At(T \ {x})]
  <2>5. ASSUME NEW r \in SUBSET T, r # T, NEW k, NEW R, Sums(k, g, R), r \subseteq R
        PROVE  At(r) = k[r]
    <3>1. PICK l : l = CHOOSE h2 : Sums(h2, g, r)
          OBVIOUS
    <3>2. Sums(l, g, r)
          BY <2>4, <2>5, <3>1
    <3>3. IsFiniteSet(r)
          BY <2>3, FS_Subset
    <3>4. l[r] = k[r]
          BY <2>5, <3>2, <3>3, SumsAreOne
    <3> QED BY <3>1, <3>4
  <2>6. ASSUME NEW r \in SUBSET T, r # {}
        PROVE  h[r] = g[First(r)] + h[r \ {First(r)}]
    <3>1. First(r) \in r
          BY <2>6 DEF First
    <3> DEFINE y == First(r)
               q == r \ {y}
    <3>2. q \in SUBSET T /\ q # T /\ q \in SUBSET r /\ q \subseteq r
          BY <3>1
    <3>3. h[q] = At(q)
          BY <3>2
    <3>4. CASE r = T
      <4>1. h[r] = g[x] + At(T \ {x}) /\ y = x /\ q = T \ {x}
            BY <2>6, <3>4
      <4> QED BY <3>3, <4>1
    <3>5. CASE r # T
      <4>1. h[r] = At(r)
            BY <3>5
      <4>2. PICK k : Sums(k, g, r)
            BY <2>4, <3>5
      <4> HIDE DEF At, h
      <4>3. At(r) = k[r] /\ At(q) = k[q]
            BY <2>5, <3>2, <3>5, <4>2
      <4>4. k[r] = g[y] + k[q]
        <5>1. r \in SUBSET r
              OBVIOUS
        <5> QED BY <2>6, <4>2, <5>1 DEF Sums
      <4> QED BY <3>3, <4>1, <4>3, <4>4
    <3> QED BY <3>4, <3>5
  <2>7. h[{}] = 0
    <3>1. CASE T = {}
          BY <3>1
    <3>2. CASE T # {}
      <4>1. {} \in SUBSET T /\ {} # T
            BY <3>2
      <4>2. h[{}] = At({})
            BY <4>1
      <4>3. PICK k : Sums(k, g, {})
            BY <2>4, <4>1
      <4>4. k[{}] = 0
            BY <4>3 DEF Sums
      <4> HIDE DEF At, h
      <4>5. At({}) = k[{}]
            BY <2>5, <4>1, <4>3
      <4> QED BY <4>2, <4>4, <4>5
    <3> QED BY <3>1, <3>2
  <2> HIDE DEF h
  <2>8. Sums(h, g, T)
        BY <2>6, <2>7 DEF Sums
  <2> QED BY <2>3, <2>8
<1>2. CASE bad = {}
  <2>1. S \in SUBSET S
        OBVIOUS
  <2>2. PICK h : Sums(h, g, S)
        BY <1>2, <2>1
  <2> DEFINE k == [s \in SUBSET S |-> h[s]]
  <2>3. \A s \in SUBSET S : k[s] = h[s] /\ s \ {First(s)} \in SUBSET S
        OBVIOUS
  <2>4. k = [s \in SUBSET S |-> k[s]]
        OBVIOUS
  <2> HIDE DEF k
  <2>5. Sums(k, g, S)
        BY <2>2, <2>3 DEF Sums
  <2> QED BY <2>4, <2>5
<1> QED BY <1>1, <1>2

LEMMA SumIs ==
    ASSUME NEW g, NEW S, IsFiniteSet(S)
    PROVE  \E h : Sums(h, g, S) /\ Sum(g, S) = h[S]
<1> DEFINE Body(h) == [s \in SUBSET S |-> IF s = {} THEN 0
                                          ELSE LET x == CHOOSE x \in s : TRUE IN g[x] + h[s \ {x}]]
           iter == CHOOSE h : h = Body(h)
<1>1. Sum(g, S) = iter[S]
      BY DEF Sum, MapThenSumSet, MapThenFoldSet
<1>2. PICK h : h = [s \in SUBSET S |-> h[s]] /\ Sums(h, g, S)
      BY SumsExist
<1>3. \A k : Body(k) = [s \in SUBSET S |-> IF s = {} THEN 0 ELSE g[First(s)] + k[s \ {First(s)}]]
      BY DEF First
<1> HIDE DEF Body
<1>4. h = Body(h)
  <2>1. \A s \in SUBSET S : h[s] = IF s = {} THEN 0 ELSE g[First(s)] + h[s \ {First(s)}]
        BY <1>2 DEF Sums
  <2>2. [s \in SUBSET S |-> h[s]] =
            [s \in SUBSET S |-> IF s = {} THEN 0 ELSE g[First(s)] + h[s \ {First(s)}]]
        BY <2>1
  <2> QED BY <1>2, <1>3, <2>2
<1>5. iter = Body(iter)
      BY <1>4
<1> HIDE DEF iter
<1>6. Sums(iter, g, S)
  <2>1. iter = [s \in SUBSET S |-> IF s = {} THEN 0 ELSE g[First(s)] + iter[s \ {First(s)}]]
        BY <1>3, <1>5
  <2> QED BY <2>1 DEF Sums
<1> QED BY <1>1, <1>6

\* A sum over nothing, over a set of integers, and without one of the elements.
LEMMA SumSteps ==
    ASSUME NEW g, NEW S, IsFiniteSet(S)
    PROVE  /\ S = {} => Sum(g, S) = 0
           /\ S # {} => First(S) \in S /\ Sum(g, S) = g[First(S)] + Sum(g, S \ {First(S)})
<1>1. PICK h : Sums(h, g, S) /\ Sum(g, S) = h[S]
      BY SumIs
<1>2. S \in SUBSET S
      OBVIOUS
<1>3. CASE S = {}
      BY <1>1, <1>2, <1>3 DEF Sums
<1>4. CASE S # {}
  <2> DEFINE x == First(S)
             T == S \ {x}
  <2>1. x \in S
        BY <1>4 DEF First
  <2>2. h[S] = g[x] + h[T]
        BY <1>1, <1>2, <1>4 DEF Sums
  <2> HIDE DEF x
  <2>3. IsFiniteSet(T) /\ T \subseteq S /\ T \subseteq T
        BY <2>1, OneLess
  <2> HIDE DEF T
  <2>4. PICK k : Sums(k, g, T) /\ Sum(g, T) = k[T]
        BY <2>3, SumIs
  <2>5. h[T] = k[T]
        BY <1>1, <2>3, <2>4, SumsAreOne
  <2> QED BY <1>1, <1>4, <2>1, <2>2, <2>4, <2>5 DEF x, T
<1> QED BY <1>3, <1>4

LEMMA SumInt ==
    ASSUME NEW D, NEW g, \A x \in D : g[x] \in Int, NEW S, S \subseteq D, IsFiniteSet(S)
    PROVE  Sum(g, S) \in Int
<1> DEFINE bad == {r \in SUBSET S : Sum(g, r) \notin Int}
<1>1. CASE bad # {}
  <2>1. \A r \in bad : IsFiniteSet(r)
        BY FS_Subset
  <2> HIDE DEF bad
  <2>2. PICK r \in bad : \A q \in bad : Cardinality(r) <= Cardinality(q)
        BY <1>1, <2>1, SmallestSet
  <2> USE DEF bad
  <2>3. r \in SUBSET S /\ Sum(g, r) \notin Int /\ IsFiniteSet(r)
        BY <2>1, <2>2
  <2>4. r # {}
        BY <2>3, SumSteps
  <2> DEFINE x == First(r)
  <2>5. x \in r /\ Sum(g, r) = g[x] + Sum(g, r \ {x})
        BY <2>3, <2>4, SumSteps
  <2> HIDE DEF x
  <2>6. ~(Cardinality(r) <= Cardinality(r \ {x})) /\ r \ {x} \in SUBSET S
        BY <2>3, <2>5, OneLess
  <2>7. Sum(g, r \ {x}) \in Int
        BY <2>2, <2>6
  <2>8. g[x] \in Int
        BY <2>3, <2>5
  <2> QED BY <2>3, <2>5, <2>7, <2>8
<1>2. CASE bad = {}
  <2>1. S \in SUBSET S
        OBVIOUS
  <2> QED BY <1>2, <2>1
<1> QED BY <1>1, <1>2

LEMMA SumWithout ==
    ASSUME NEW g, NEW S, \A y \in S : g[y] \in Int, IsFiniteSet(S), NEW x \in S
    PROVE  Sum(g, S) = g[x] + Sum(g, S \ {x})
<1> DEFINE Fine(r) == \A y \in r : Sum(g, r) = g[y] + Sum(g, r \ {y})
           bad == {r \in SUBSET S : ~Fine(r)}
<1>1. CASE bad # {}
  <2>1. \A r \in bad : IsFiniteSet(r)
        BY FS_Subset
  <2> HIDE DEF bad
  <2>2. PICK r \in bad : \A q \in bad : Cardinality(r) <= Cardinality(q)
        BY <1>1, <2>1, SmallestSet
  <2> USE DEF bad
  <2>3. r \in SUBSET S /\ ~Fine(r) /\ IsFiniteSet(r)
        BY <2>1, <2>2
  <2>4. PICK y \in r : Sum(g, r) # g[y] + Sum(g, r \ {y})
        BY <2>3
  <2> DEFINE c == First(r)
  <2>5. c \in r /\ Sum(g, r) = g[c] + Sum(g, r \ {c})
        BY <2>3, <2>4, SumSteps
  <2> HIDE DEF c
  <2>6. c # y
        BY <2>4, <2>5
  <2> DEFINE rest == (r \ {c}) \ {y}
  <2>7. /\ r \ {c} \in SUBSET S /\ r \ {y} \in SUBSET S
        /\ y \in r \ {c} /\ c \in r \ {y} /\ (r \ {y}) \ {c} = rest
        /\ ~(Cardinality(r) <= Cardinality(r \ {c})) /\ ~(Cardinality(r) <= Cardinality(r \ {y}))
        BY <2>3, <2>4, <2>5, <2>6, OneLess
  <2> HIDE DEF Fine
  <2>8. Fine(r \ {c}) /\ Fine(r \ {y})
        BY <2>2, <2>7
  <2> USE DEF Fine
  <2>9. Sum(g, r \ {c}) = g[y] + Sum(g, rest) /\ Sum(g, r \ {y}) = g[c] + Sum(g, rest)
        BY <2>7, <2>8
  <2>10. Sum(g, rest) \in Int
    <3>1. rest \subseteq S /\ IsFiniteSet(rest)
          BY <2>3, FS_Subset
    <3> HIDE DEF rest
    <3> QED BY <3>1, SumInt
  <2>11. g[c] \in Int /\ g[y] \in Int
         BY <2>3, <2>4, <2>5
  <2> HIDE DEF rest
  <2> QED BY <2>4, <2>5, <2>9, <2>10, <2>11
<1>2. CASE bad = {}
  <2>1. S \in SUBSET S
        OBVIOUS
  <2> QED BY <1>2, <2>1
<1> QED BY <1>1, <1>2

\* The sum over two sets apart.
LEMMA SumOfBoth ==
    ASSUME NEW g, NEW A, IsFiniteSet(A), NEW B, IsFiniteSet(B), A \cap B = {},
           \A x \in A \cup B : g[x] \in Int
    PROVE  Sum(g, A \cup B) = Sum(g, A) + Sum(g, B)
<1>0. PICK D : D = A \cup B
      OBVIOUS
<1> DEFINE bad == {r \in SUBSET B : Sum(g, A \cup r) # Sum(g, A) + Sum(g, r)}
<1>1. Sum(g, A) \in Int /\ \A r \in SUBSET B : Sum(g, r) \in Int /\ IsFiniteSet(r) /\ IsFiniteSet(A \cup r)
  <2>1. \A r \in SUBSET B : IsFiniteSet(r) /\ r \subseteq D
        BY <1>0, FS_Subset
  <2>2. \A r \in SUBSET B : IsFiniteSet(A \cup r)
        BY <2>1, FS_Union
  <2>3. Sum(g, A) \in Int
        BY <1>0, SumInt
  <2>4. \A r \in SUBSET B : Sum(g, r) \in Int
        BY <1>0, <2>1, SumInt
  <2> QED BY <2>1, <2>2, <2>3, <2>4
<1>2. CASE bad # {}
  <2>1. \A r \in bad : IsFiniteSet(r)
        BY <1>1
  <2> HIDE DEF bad
  <2>2. PICK r \in bad : \A q \in bad : Cardinality(r) <= Cardinality(q)
        BY <1>2, <2>1, SmallestSet
  <2> USE DEF bad
  <2>3. r \in SUBSET B /\ Sum(g, A \cup r) # Sum(g, A) + Sum(g, r) /\ IsFiniteSet(r)
        BY <2>1, <2>2
  <2>4. r # {}
    <3> SUFFICES ASSUME r = {} PROVE FALSE
        OBVIOUS
    <3>1. Sum(g, r) = 0 /\ A \cup r = A
          BY <2>3, SumSteps
    <3> QED BY <1>1, <2>3, <3>1
  <2>5. PICK x \in r : TRUE
        BY <2>4
  <2> DEFINE q == r \ {x}
  <2>6. q \in SUBSET B /\ ~(Cardinality(r) <= Cardinality(q))
        BY <2>3, <2>5, OneLess
  <2>7. Sum(g, A \cup q) = Sum(g, A) + Sum(g, q)
        BY <2>2, <2>6
  <2>8. x \in A \cup r /\ (A \cup r) \ {x} = A \cup q /\ A \cup r \subseteq D /\ r \subseteq D /\ x \in D
        BY <1>0, <2>3, <2>5
  <2>9. Sum(g, A \cup r) = g[x] + Sum(g, A \cup q)
    <3> DEFINE T == A \cup r
    <3>1. IsFiniteSet(T) /\ x \in T /\ \A y \in T : g[y] \in Int
          BY <1>0, <1>1, <2>3, <2>8
    <3> HIDE DEF T
    <3>2. Sum(g, T) = g[x] + Sum(g, T \ {x})
          BY <3>1, SumWithout
    <3> QED BY <2>8, <3>2 DEF T
  <2>10. Sum(g, r) = g[x] + Sum(g, q)
    <3>1. \A y \in r : g[y] \in Int
          BY <1>0, <2>8
    <3> HIDE DEF q
    <3>2. Sum(g, r) = g[x] + Sum(g, r \ {x})
          BY <2>3, <2>5, <3>1, SumWithout
    <3> QED BY <3>2 DEF q
  <2>11. g[x] \in Int /\ Sum(g, q) \in Int
         BY <1>0, <1>1, <2>6, <2>8
  <2> HIDE DEF q
  <2> QED BY <1>1, <2>3, <2>7, <2>9, <2>10, <2>11
<1>3. CASE bad = {}
  <2>1. B \in SUBSET B
        OBVIOUS
  <2> QED BY <1>3, <2>1
<1> QED BY <1>2, <1>3

\* The sum over two sets of which one belongs to the other, member by member.
LEMMA SumsByOwner ==
    ASSUME NEW g, NEW A, IsFiniteSet(A), NEW U, IsFiniteSet(U), NEW own, NEW tol \in Int,
           \A x \in A \cup U : g[x] \in Int, \A x \in A : own[x] \in U,
           \A u \in U : ~Apart(g[u], Sum(g, {x \in A : own[x] = u}), tol)
    PROVE  ~Apart(Sum(g, A), Sum(g, U), tol * Cardinality(U))
<1> DEFINE Of(T) == {x \in A : own[x] \in T}
           Fine(T) == ~Apart(Sum(g, Of(T)), Sum(g, T), tol * Cardinality(T))
           bad == {T \in SUBSET U : ~Fine(T)}
<1>1. \A T \in SUBSET U : IsFiniteSet(T) /\ IsFiniteSet(Of(T)) /\ Of(T) \in SUBSET A
  <2>1. \A T \in SUBSET U : Of(T) \in SUBSET A
        OBVIOUS
  <2> HIDE DEF Of
  <2> QED BY <2>1, FS_Subset
<1>2. CASE bad # {}
  <2>1. \A T \in bad : IsFiniteSet(T)
        BY <1>1
  <2> HIDE DEF bad
  <2>2. PICK T \in bad : \A R \in bad : Cardinality(T) <= Cardinality(R)
        BY <1>2, <2>1, SmallestSet
  <2> USE DEF bad
  <2> HIDE DEF Fine
  <2>3. T \in SUBSET U /\ ~Fine(T) /\ IsFiniteSet(T)
        BY <2>1, <2>2
  <2>4. T # {}
    <3> SUFFICES ASSUME T = {} PROVE Fine(T)
        BY <2>3
    <3>1. Of(T) = {} /\ IsFiniteSet({})
          BY FS_EmptySet
    <3> HIDE DEF Of
    <3>2. Sum(g, {}) = 0
          BY <3>1, SumSteps
    <3>3. Cardinality({}) = 0
          BY FS_EmptySet
    <3>4. Sum(g, Of(T)) = 0 /\ Sum(g, T) = 0 /\ tol * Cardinality(T) = 0
          BY <3>1, <3>2, <3>3
    <3> QED BY <3>4 DEF Fine, Apart
  <2>5. PICK u \in T : TRUE
        BY <2>4
  <2> DEFINE R == T \ {u}
             mine == {x \in A : own[x] = u}
             a == Sum(g, Of(R))
             b == Sum(g, R)
             m == Sum(g, mine)
             n == Cardinality(R)
  <2>6. R \in SUBSET U /\ ~(Cardinality(T) <= Cardinality(R))
        BY <2>3, <2>5, OneLess
  <2>7. Fine(R)
        BY <2>2, <2>6
  <2>8. Of(T) = Of(R) \cup mine /\ Of(R) \cap mine = {} /\ mine \in SUBSET A
        BY <2>5
  <2>9. IsFiniteSet(mine) /\ IsFiniteSet(Of(R)) /\ IsFiniteSet(R) /\ Of(R) \in SUBSET A
        BY <1>1, <2>6, <2>8, FS_Subset
  <2>10. Sum(g, T) = g[u] + b
    <3>1. \A y \in T : g[y] \in Int
          BY <2>3
    <3> HIDE DEF R
    <3>2. Sum(g, T) = g[u] + Sum(g, T \ {u})
          BY <2>3, <2>5, <3>1, SumWithout
    <3> QED BY <3>2 DEF R
  <2>11. Sum(g, Of(T)) = a + m
    <3> HIDE DEF Of, mine
    <3> DEFINE his == Of(R)
    <3>2. IsFiniteSet(his) /\ IsFiniteSet(mine) /\ his \cap mine = {}
          BY <2>8, <2>9
    <3>1. \A x \in his \cup mine : g[x] \in Int
          BY <2>8, <2>9
    <3> HIDE DEF his
    <3>3. Sum(g, his \cup mine) = Sum(g, his) + Sum(g, mine)
          BY <3>1, <3>2, SumOfBoth
    <3> QED BY <2>8, <3>3 DEF his
  <2>12. a \in Int /\ b \in Int /\ m \in Int /\ g[u] \in Int
    <3>1. \A x \in A \cup U : g[x] \in Int
          OBVIOUS
    <3>2. Of(R) \subseteq A \cup U /\ R \subseteq A \cup U /\ mine \subseteq A \cup U /\ u \in A \cup U
          BY <2>3, <2>5, <2>6, <2>8, <2>9
    <3> DEFINE D == A \cup U
    <3> HIDE DEF D
    <3> HIDE DEF Of, R, mine
    <3>3. Sum(g, Of(R)) \in Int
          BY <2>9, <3>1, <3>2, SumInt DEF D
    <3>4. Sum(g, R) \in Int
          BY <2>9, <3>1, <3>2, SumInt DEF D
    <3>5. Sum(g, mine) \in Int
          BY <2>9, <3>1, <3>2, SumInt DEF D
    <3> QED BY <3>1, <3>2, <3>3, <3>4, <3>5
  <2>13. n \in Nat /\ Cardinality(T) = n + 1
    <3>1. Cardinality(T \ {u}) = Cardinality(T) - 1 /\ Cardinality(T) \in Nat /\ Cardinality(R) \in Nat
          BY <2>3, <2>5, <2>9, FS_RemoveElement, FS_CardinalityType
    <3> QED BY <3>1
  <2>14. ~Apart(g[u], m, tol)
        BY <2>3, <2>5
  <2>15. ~Apart(a, b, tol * n)
        BY <2>7 DEF Fine
  <2> HIDE DEF a, b, m, n
  <2>16. tol * (n + 1) = tol * n + tol /\ tol * n \in Int
         BY <2>13
  <2>17. ~Apart(a + m, g[u] + b, tol * n + tol)
    <3> DEFINE e == tol * n
    <3>1. e \in Int /\ ~Apart(a, b, e)
          BY <2>15, <2>16
    <3> HIDE DEF e
    <3>2. ~Apart(a + m, g[u] + b, e + tol)
          BY <2>12, <2>14, <3>1 DEF Apart
    <3> QED BY <3>2 DEF e
  <2>18. Fine(T)
    <3> HIDE DEF Of
    <3> QED BY <2>10, <2>11, <2>13, <2>16, <2>17 DEF Fine
  <2> QED BY <2>3, <2>18
<1>3. CASE bad = {}
  <2>1. U \in SUBSET U
        OBVIOUS
  <2>2. Fine(U)
        BY <1>3, <2>1
  <2>3. Of(U) = A
        OBVIOUS
  <2> QED BY <2>2, <2>3
<1> QED BY <1>2, <1>3
-----------------------------------------------------------------------------
\* The level sums

Cums == [o \in DOMAIN latest |-> latest[o].cum]
CumOver(S) == SumOver(S, LAMBDA o : latest[o].cum)

LEMMA CumsAreSums ==
    ASSUME NEW S, S \subseteq DOMAIN latest, IsFiniteSet(S)
    PROVE  CumOver(S) = Sum(Cums, S)
<1> DEFINE Body(h) == [s \in SUBSET S |-> IF s = {} THEN 0
                                          ELSE LET x == CHOOSE x \in s : TRUE IN latest[x].cum + h[s \ {x}]]
           iter == CHOOSE h : h = Body(h)
<1>1. CumOver(S) = iter[S]
      BY DEF CumOver, SumOver, MapThenSumSet, MapThenFoldSet
<1>2. PICK h : h = [s \in SUBSET S |-> h[s]] /\ Sums(h, Cums, S)
      BY SumsExist
<1>3. \A s \in SUBSET S : s # {} => Cums[First(s)] = latest[First(s)].cum
  <2>1. \A s \in SUBSET S : s # {} => First(s) \in DOMAIN latest
        BY DEF First
  <2> QED BY <2>1 DEF Cums
<1>4. \A k : Body(k) = [s \in SUBSET S |-> IF s = {} THEN 0 ELSE latest[First(s)].cum + k[s \ {First(s)}]]
      BY DEF First
<1>5. \A k : Body(k) = [s \in SUBSET S |-> IF s = {} THEN 0 ELSE Cums[First(s)] + k[s \ {First(s)}]]
  <2> HIDE DEF Body
  <2> QED BY <1>3, <1>4
<1> HIDE DEF Body
<1>6. h = Body(h)
  <2>1. \A s \in SUBSET S : h[s] = IF s = {} THEN 0 ELSE Cums[First(s)] + h[s \ {First(s)}]
        BY <1>2 DEF Sums
  <2>2. [s \in SUBSET S |-> h[s]] =
            [s \in SUBSET S |-> IF s = {} THEN 0 ELSE Cums[First(s)] + h[s \ {First(s)}]]
        BY <2>1
  <2> QED BY <1>2, <1>5, <2>2
<1>7. iter = Body(iter)
      BY <1>6
<1> HIDE DEF iter
<1>8. Sums(iter, Cums, S)
  <2>1. iter = [s \in SUBSET S |-> IF s = {} THEN 0 ELSE Cums[First(s)] + iter[s \ {First(s)}]]
        BY <1>5, <1>7
  <2> QED BY <2>1 DEF Sums
<1>9. PICK k : Sums(k, Cums, S) /\ Sum(Cums, S) = k[S]
      BY SumIs
<1>10. iter[S] = k[S]
       BY <1>8, <1>9, SumsAreOne
<1> QED BY <1>1, <1>9, <1>10

LEMMA CumsAreInt == HubInv => \A o \in DOMAIN latest : Cums[o] \in Int
<1> SUFFICES ASSUME HubInv, NEW o \in DOMAIN latest PROVE latest[o].cum \in Int
    BY DEF Cums
<1>1. HubTypes /\ TablesTell
      BY DEF HubInv
<1>2. /\ o[1] \in Names(config)
      /\ RowIs(latest[o], links[o[1]], tape[o[1]], read[o[1]], o[2])
      BY <1>1 DEF TablesTell
<1>3. PICK p \in 1..read[o[1]] : latest[o].cum = tape[o[1]][p].cum
      BY <1>2 DEF RowIs
<1>4. p \in DOMAIN tape[o[1]]
      BY <1>1, <1>2, TapeTyped
<1>5. tape \in Tapes /\ o[1] \in DOMAIN tape
      BY <1>1, <1>2 DEF HubTypes
<1>6. tape[o[1]][p].cum \in Int
      BY <1>4, <1>5, TapeAssumption
<1> QED BY <1>3, <1>6

\* A root is the only order of its family at its hub.
LEMMA RootAlone ==
    ASSUME HubInv, NEW v \in DOMAIN latest, NEW top, top = Walked(v).root, top[1] = v[1]
    PROVE  top = v
<1>1. SUFFICES ASSUME ParentMap(v) # Nothing PROVE FALSE
  <2>1. RootsTell
        BY RootsAreTold
  <2> QED BY <2>1 DEF RootsTell
<1> DEFINE up == ParentMap(v)
<1>2. /\ v[1] \in Names(config) /\ up[1] \in Names(config)
      /\ Depths(config, v[1]) = Depths(config, up[1]) + 1
      BY <1>1, ParentAbove
<1>3. RootsTell /\ HubTypes
      BY RootsAreTold DEF HubInv
<1>4. Walked(up).root = top
  <2>1. \A q : (q = ParentMap(v) /\ q # Nothing) => Walked(q).root = Walked(v).root
        BY <1>3 DEF RootsTell
  <2> HIDE DEF up
  <2>2. up = ParentMap(v) /\ up # Nothing
        BY <1>1 DEF up
  <2> QED BY <2>1, <2>2
<1> HIDE DEF up
<1>5. Depths(config, up[1]) \in Nat /\ Depths(config, v[1]) \in Nat
      BY <1>2, <1>3, DepthsStep
<1>6. CASE up \in DOMAIN latest
  <2> DEFINE L == Len(config)
  <2>1. PICK w : Walking(w, up) /\ Walked(up) = w[L]
        BY <1>3, WalkedIs
  <2>2. L \in 0..L
        BY <1>3, ConfigTyped
  <2>3. Climbed(w, up, L)
        BY <1>6, <2>1, <2>2, WalkClimbs
  <2>4. w[L].depth \in Nat /\ Depths(config, up[1]) = Depths(config, top[1]) + w[L].depth
        BY <1>4, <2>1, <2>3 DEF Climbed
  <2> DEFINE d == w[L].depth
  <2> HIDE DEF d
  <2>5. d \in Nat /\ Depths(config, up[1]) = Depths(config, v[1]) + d
        BY <2>4 DEF d
  <2> QED BY <1>2, <1>5, <2>5
<1>7. CASE up \notin DOMAIN latest
  <2>1. ParentMap(up) = Nothing
        BY <1>7 DEF ParentMap
  <2>2. up = top
        BY <1>3, <1>4, <2>1 DEF RootsTell
  <2> QED BY <1>2, <1>5, <2>2
<1> QED BY <1>6, <1>7

\* In a row of hubs an upstream is the upstream of one.
LEMMA OneBelow ==
    ASSUME HubTypes, Linear, NEW a \in Names(config), NEW b \in Names(config),
           Upstream(config, a) = Upstream(config, b)
    PROVE  a = b
<1> DEFINE i == CHOOSE i \in DOMAIN config : config[i].name = a
           j == CHOOSE j \in DOMAIN config : config[j].name = b
<1>1. i \in DOMAIN config /\ config[i].name = a /\ j \in DOMAIN config /\ config[j].name = b
      BY DEF Names
<1>2. Upstream(config, a) = config[i].upstream /\ Upstream(config, b) = config[j].upstream
      BY DEF Upstream, Named
<1> HIDE DEF i, j
<1>3. i = j
      BY <1>1, <1>2 DEF Linear
<1> QED BY <1>1, <1>3

Agreeing(root) ==
    /\ Linear
    /\ \A o \in DOMAIN latest : Walked(o).root = root =>
          /\ BreakKind(o) \in {"NONE", "UNROUTED"}
          /\ (\E i \in DOMAIN config : config[i].upstream = o[1]) => Children(o) # {}

\* The orders of a level are the children of those of the level above.
LEMMA LevelBelow ==
    ASSUME HubInv, NEW root, Agreeing(root), NEW hub \in Names(config), NEW up,
           up = Upstream(config, hub), up # Nothing, Level(root, up) # {}
    PROVE  /\ \A o \in Level(root, hub) : ParentOf(o) \in Level(root, up)
           /\ \A u \in Level(root, up) : /\ Children(u) # {}
                                         /\ Children(u) = {o \in Level(root, hub) : ParentOf(o) = u}
<1>1. HubTypes /\ TablesTell /\ RootsTell /\ ParentsTell
      BY RootsAreTold, ParentsAreTold DEF HubInv
<1>2. ASSUME NEW o \in Level(root, hub) PROVE ParentOf(o) \in Level(root, up)
  <2>1. o \in DOMAIN latest /\ o[1] = hub /\ Walked(o).root = root
        BY DEF Level
  <2>2. BreakKind(o) \in {"NONE", "UNROUTED"}
        BY <2>1 DEF Agreeing
  <2>3. LinkState(o) \notin {"DANGLING", "NO_LINK"}
    <3> SUFFICES ASSUME LinkState(o) \in {"DANGLING", "NO_LINK"} PROVE FALSE
        OBVIOUS
    <3>1. BreakKind(o) = LinkState(o)
          BY DEF BreakKind
    <3> QED BY <2>2, <3>1
  <2>4. ParentOf(o) # Nothing
        BY <2>1, <2>3 DEF LinkState
  <2>5. ParentMap(o) = ParentOf(o)
        BY <2>1 DEF ParentMap
  <2> DEFINE p == ParentOf(o)
  <2>6. p[1] = up
    <3>1. p = <<Upstream(config, o[1]), IdIndex[<<Upstream(config, o[1]), latest[o].ext>>]>>
          BY <1>1, <2>1, <2>4 DEF ParentsTell
    <3> HIDE DEF p
    <3> QED BY <2>1, <3>1
  <2> HIDE DEF p
  <2>7. p = ParentMap(o) /\ p # Nothing
        BY <2>4, <2>5 DEF p
  <2>8. Walked(p).root = root
        BY <1>1, <2>1, <2>7 DEF RootsTell
  <2>9. p \in DOMAIN latest
    <3> SUFFICES ASSUME p \notin DOMAIN latest PROVE FALSE
        OBVIOUS
    <3>1. ParentMap(p) = Nothing
          BY DEF ParentMap
    <3>2. p = root
          BY <1>1, <2>8, <3>1 DEF RootsTell
    <3>3. PICK v : v \in DOMAIN latest /\ v[1] = up /\ Walked(v).root = root
          BY DEF Level
    <3>4. root = v
          BY <2>6, <3>2, <3>3, RootAlone
    <3> QED BY <3>2, <3>3, <3>4
  <2>10. p \in Level(root, up)
         BY <2>6, <2>8, <2>9 DEF Level
  <2> QED BY <2>10 DEF p
<1>3. ASSUME NEW u \in Level(root, up)
      PROVE  Children(u) # {} /\ Children(u) = {o \in Level(root, hub) : ParentOf(o) = u}
  <2>1. u \in DOMAIN latest /\ u[1] = up /\ Walked(u).root = root
        BY DEF Level
  <2>2. u # Nothing
        BY <2>1, NothingIsNoKey
  <2>3. \E i \in DOMAIN config : config[i].upstream = u[1]
    <3> DEFINE i == CHOOSE i \in DOMAIN config : config[i].name = hub
    <3>1. i \in DOMAIN config
          BY DEF Names
    <3>2. Upstream(config, hub) = config[i].upstream
          BY DEF Upstream, Named
    <3> HIDE DEF i
    <3> QED BY <2>1, <3>1, <3>2
  <2>4. Children(u) # {}
        BY <2>1, <2>3 DEF Agreeing
  <2>5. ASSUME NEW c \in DOMAIN latest, ParentOf(c) = u PROVE c \in Level(root, hub)
    <3>1. u = <<Upstream(config, c[1]), IdIndex[<<Upstream(config, c[1]), latest[c].ext>>]>>
          BY <1>1, <2>2, <2>5 DEF ParentsTell
    <3>2. Upstream(config, c[1]) = up
          BY <2>1, <3>1
    <3>3. c[1] \in Names(config)
          BY <1>1 DEF TablesTell
    <3>4. c[1] = hub
          BY <1>1, <3>2, <3>3, OneBelow DEF Agreeing
    <3>5. ParentMap(c) = u
          BY <2>5 DEF ParentMap
    <3>6. Walked(c).root = root
          BY <1>1, <2>1, <2>2, <3>5 DEF RootsTell
    <3> QED BY <3>4, <3>6 DEF Level
  <2>6. Children(u) = {o \in Level(root, hub) : ParentOf(o) = u}
        BY <2>5 DEF Children, Level
  <2> QED BY <2>4, <2>6
<1> QED BY <1>2, <1>3

\* An order in no red break has the quantity of its children, up to the tolerance.
LEMMA NoQtyBreak ==
    ASSUME NEW u, BreakKind(u) \in {"NONE", "UNROUTED"}, Children(u) # {}
    PROVE  ~Apart(latest[u].cum, CumOver(Children(u)), QtyTol)
<1> SUFFICES ASSUME Apart(latest[u].cum, CumOver(Children(u)), QtyTol) PROVE FALSE
    OBVIOUS
<1>1. ChildRollup(u).cum = CumOver(Children(u))
      BY DEF ChildRollup, CumOver
<1>2. Apart(latest[u].cum, ChildRollup(u).cum, QtyTol)
      BY <1>1
<1>3. BreakKind(u) = "QTY_BREAK" \/ BreakKind(u) \in {"DANGLING", "NO_LINK"}
      BY <1>2 DEF BreakKind
<1> QED BY <1>3

\* The order by order check and the level by level one agree.
\* dag.py: _build_orders_recon, _build_chain_recon.
THEOREM LevelsAgreeHolds == HubSpec => []LevelsAgree
<1>1. ASSUME HubInv, NEW root, Agreeing(root), NEW hub \in QtyBreaks(root)
      PROVE  LET up == Upstream(config, hub) IN
             ~Apart(CumQtyAt(root, hub), CumQtyAt(root, up), QtyTol * Cardinality(Level(root, up)))
  <2> DEFINE up == Upstream(config, hub)
             A == Level(root, hub)
             U == Level(root, up)
  <2>1. hub \in Names(config) /\ up # Nothing /\ U # {}
        BY DEF QtyBreaks
  <2>2. /\ \A o \in A : ParentOf(o) \in U
        /\ \A u \in U : Children(u) # {} /\ Children(u) = {o \in A : ParentOf(o) = u}
        BY <1>1, <2>1, LevelBelow
  <2>3. A \subseteq DOMAIN latest /\ U \subseteq DOMAIN latest
        BY DEF Level
  <2>4. \A u \in U : BreakKind(u) \in {"NONE", "UNROUTED"}
        BY <1>1 DEF Agreeing, Level
  <2>5. IsFiniteSet(DOMAIN latest) /\ \A o \in DOMAIN latest : Cums[o] \in Int
        BY <1>1, LatestFinite, CumsAreInt
  <2>6. CumQtyAt(root, hub) = CumOver(A) /\ CumQtyAt(root, up) = CumOver(U)
        BY DEF CumQtyAt, CumOver
  <2> HIDE DEF up, A, U
  <2>7. IsFiniteSet(A) /\ IsFiniteSet(U)
        BY <2>3, <2>5, FS_Subset
  <2>8. CumOver(A) = Sum(Cums, A) /\ CumOver(U) = Sum(Cums, U)
        BY <2>3, <2>7, CumsAreSums
  <2> DEFINE own == [o \in A |-> ParentOf(o)]
  <2>9. \A o \in A : own[o] \in U
        BY <2>2
  <2>10. ASSUME NEW u \in U
         PROVE  ~Apart(Cums[u], Sum(Cums, {o \in A : own[o] = u}), QtyTol)
    <3> DEFINE kids == {o \in A : own[o] = u}
    <3>1. kids = Children(u) /\ Children(u) # {}
          BY <2>2
    <3>2. kids \subseteq DOMAIN latest
          BY <2>3
    <3> HIDE DEF kids
    <3>3. IsFiniteSet(kids)
          BY <2>5, <3>2, FS_Subset
    <3>4. CumOver(kids) = Sum(Cums, kids)
          BY <3>2, <3>3, CumsAreSums
    <3>5. Cums[u] = latest[u].cum
          BY <2>3 DEF Cums
    <3>6. ~Apart(latest[u].cum, CumOver(kids), QtyTol)
          BY <2>4, <3>1, NoQtyBreak
    <3>7. ~Apart(Cums[u], Sum(Cums, kids), QtyTol)
          BY <3>4, <3>5, <3>6
    <3> QED BY <3>7 DEF kids
  <2>11. \A x \in A \cup U : Cums[x] \in Int
         BY <2>3, <2>5
  <2>12. QtyTol \in Int
         BY ToleranceAssumption
  <2> HIDE DEF own
  <2>13. ~Apart(Sum(Cums, A), Sum(Cums, U), QtyTol * Cardinality(U))
         BY <2>7, <2>9, <2>10, <2>11, <2>12, SumsByOwner
  <2> QED BY <2>6, <2>8, <2>13 DEF up, U
<1>2. HubInv => LevelsAgree
  <2> SUFFICES ASSUME HubInv PROVE LevelsAgree
      OBVIOUS
  <2>1. ASSUME NEW root,
               /\ Linear
               /\ \A o \in {o \in DOMAIN latest : Walked(o).root = root} :
                     BreakKind(o) \in {"NONE", "UNROUTED"}
               /\ \A o \in {o \in DOMAIN latest : Walked(o).root = root} :
                     (\E i \in DOMAIN config : config[i].upstream = o[1]) => Children(o) # {}
        PROVE  Agreeing(root)
        BY <2>1 DEF Agreeing
  <2> QED BY <1>1, <2>1 DEF LevelsAgree
<1> QED BY <1>2, HubInvHolds, PTL
=============================================================================
