------------------------- MODULE DisplacedTableProofs -------------------------
(***************************************************************************)
(* The union-find table records each id exactly once, when it is first     *)
(* displaced, whatever rows are staged, however they are cut into groups   *)
(* and chunks, and in whatever order the chunks of a group get on.         *)
(*                                                                         *)
(* The links of the union-find are compared with the classes that the      *)
(* applied rows generate: by IsCanon, a function that gives each id a      *)
(* member of its class, the same for all, and the least.  Timestamps are   *)
(* compared along the way a row takes: applied, taken, queued, staged.     *)
(***************************************************************************)
EXTENDS DisplacedTable, FiniteSetTheorems, WellFoundedInduction, TLAPS

-----------------------------------------------------------------------------
(* The inductive invariant *)

Rows == [l : Ids, r : Ids, ts : 0..MaxTime]
Records == [child : Ids, ts : 0..MaxTime]
RowsIn(bufs) == {At(bufs, p) : p \in Places(bufs)}
Sorted(bufs) == \A p, q \in Places(bufs) : Before(p, q) => At(bufs, p).ts <= At(bufs, q).ts

IsLinks(p) == p \in [Ids -> Ids] /\ \A v \in Ids : p[v] <= v
Finds(p) == [v \in Ids |-> FindNaive(p, v)]
\* The trees of two roots joined at the lesser.
Joined(d, a, b) == [v \in Ids |-> IF d[v] \in {a, b} THEN Min({a, b}) ELSE d[v]]

\* d leads each id to one member of its class by these rows, the least.
IsCanon(d, rows) ==
  /\ d \in [Ids -> Ids] /\ \A v \in Ids : d[v] <= v /\ d[d[v]] = d[v]
  /\ \A r \in rows : r.l \in Ids /\ r.r \in Ids /\ d[r.l] = d[r.r]
  /\ \A S \in Closed(rows) : \A v \in Ids : v \in S <=> d[v] \in S

TypeInv ==
  /\ IsLinks(parents)
  /\ displaced \in Seq(Records)
  /\ lookup \in [Ids -> Nat \cup {None}]
  /\ open \in [Writers -> Seq(Rows)] /\ now \in 0..MaxTime
  /\ pending \in Seq(Seq(Rows)) /\ buffers \in Seq(Seq(Rows))
  /\ left \subseteq Places(buffers)
  /\ \A k \in kids : k = [at |-> k.at, child |-> k.child] /\ k.at \in Places(buffers)
  /\ merging \in BOOLEAN /\ (~merging => left = {} /\ kids = {})
  /\ ~Parallel => kids = {}
  /\ clears \in Nat /\ reader \in [minor : Nat, known : SUBSET Ids]
  /\ applied \subseteq Rows

\* Rows are applied in the order of their timestamps, which is that of the queue.
TimeInv ==
  /\ Sorted(buffers) /\ Sorted(pending)
  /\ \A w \in Writers : \A i \in DOMAIN open[w] : open[w][i].ts = now
  /\ \A r \in RowsIn(pending) : r.ts <= now
  /\ \A a \in applied :
       /\ \A p \in left : a.ts <= RowAt(p).ts
       /\ \A k \in kids : a.ts <= RowAt(k.at).ts
  /\ \A a \in applied \cup {RowAt(p) : p \in left} :
       a.ts <= now /\ \A r \in RowsIn(pending) : a.ts <= r.ts
  /\ \A k \in kids : RowAt(k.at) \in applied
  /\ \A i \in DOMAIN displaced : \E a \in applied : displaced[i].ts <= a.ts
  /\ \A i, j \in DOMAIN displaced : i <= j => displaced[i].ts <= displaced[j].ts

\* c is not the least of its class by the rows up to ts, and was by those before.
DisplacedAt(rows, c, ts) ==
  /\ Canonical({r \in rows : r.ts <= ts})[c] # c
  /\ ts > 0 => Canonical({r \in rows : r.ts <= ts - 1})[c] = c

\* Each id that is not canonical has one row, or one of the running group's children.
RecordInv ==
  /\ IsCanon(Finds(parents), applied)
  /\ \A i \in DOMAIN displaced :
       /\ lookup[displaced[i].child] = i
       /\ Finds(parents)[displaced[i].child] # displaced[i].child
       /\ DisplacedAt(applied, displaced[i].child, displaced[i].ts)
  /\ \A k \in kids :
       /\ k.child \in Ids /\ Finds(parents)[k.child] # k.child
       /\ DisplacedAt(applied, k.child, RowAt(k.at).ts)
       /\ \A i \in DOMAIN displaced : displaced[i].child # k.child
       /\ \A j \in kids : j.child = k.child => j = k
  /\ \A v \in Ids : Finds(parents)[v] # v =>
       (\E i \in DOMAIN displaced : displaced[i].child = v) \/ (\E k \in kids : k.child = v)

ReaderInv ==
  clears = 0 =>
    /\ reader.minor <= Len(displaced)
    /\ \A i \in 1..reader.minor : displaced[i].child \in reader.known

\* The roots that the row at p joins, and the greater of them.
EndL(p) == FindNaive(parents, RowAt(p).l)
EndR(p) == FindNaive(parents, RowAt(p).r)
Hi(p) == Max({EndL(p), EndR(p)})

IInv == TypeInv /\ TimeInv /\ RecordInv /\ ReaderInv

-----------------------------------------------------------------------------
(* Numbers *)

\* A nonempty set of naturals has a least member.
LEMMA MinIsLeast ==
  ASSUME NEW S \in SUBSET Nat, S # {}
  PROVE  Min(S) \in S /\ \A y \in S : Min(S) <= y
<1>1. IsWellFoundedOn(OpToRel(<, Nat), Nat)
  BY NatLessThanWellFounded
<1>2. PICK x \in S : \A y \in S : ~ (<<y, x>> \in OpToRel(<, Nat))
  BY <1>1, WFMin
<1> HIDE <1>1
<1>3. \A y \in S : ~ (y < x)
  BY <1>2 DEF OpToRel
<1>4. \A y \in S : x <= y
  BY <1>3
<1> QED
  BY <1>4 DEF Min

\* Of two numbers: the lesser and the greater.
LEMMA OfTwo ==
  ASSUME NEW a \in Nat, NEW b \in Nat, a # b
  PROVE  \/ a < b /\ Min({a, b}) = a /\ Max({a, b}) = b
         \/ b < a /\ Min({a, b}) = b /\ Max({a, b}) = a
  BY DEF Min, Max

-----------------------------------------------------------------------------
(* The union-find.  Links lead down, so that following them is defined by       *)
(* recursion; what it yields is shown of the least id for which it would fail. *)

\* The recursion of find_naive has a solution.
LEMMA FindExists ==
  ASSUME TableAssumption, NEW p, IsLinks(p)
  PROVE  \E g : g = [v \in Ids |-> IF p[v] = v THEN v ELSE g[p[v]]]
<1> DEFINE Solves(g, n) == g = [v \in 0..n |-> IF p[v] = v THEN v ELSE g[p[v]]]
           Bad == {n \in Ids : ~ \E g : Solves(g, n)}
<1>1. SUFFICES ASSUME Bad # {} PROVE FALSE
  <2>1. MaxId \in Ids
    BY DEF TableAssumption, Ids
  <2>2. \E g : Solves(g, MaxId)
    BY <1>1, <2>1
  <2> QED
    BY <2>2 DEF Ids
<1>2. Bad \subseteq Nat
  BY DEF TableAssumption, Ids
<1>3. PICK n : n = Min(Bad)
  OBVIOUS
<1>4. n \in Bad /\ \A m \in Bad : n <= m
  BY <1>1, <1>2, <1>3, MinIsLeast
<1>5. n \in Nat /\ n <= MaxId /\ MaxId \in Nat
  BY <1>4 DEF Ids, TableAssumption
<1>6. CASE n = 0
  <2>1. p[0] = 0
    BY <1>5 DEF IsLinks, Ids
  <2>2. Solves([v \in 0..0 |-> 0], 0)
    BY <2>1
  <2> QED
    BY <2>2, <1>4, <1>6
<1>7. CASE n # 0
  <2>1. n - 1 \in Ids /\ n - 1 \notin Bad
    BY <1>4, <1>5, <1>7 DEF Ids
  <2>2. PICK g : Solves(g, n - 1)
    BY <2>1
  <2>3. \A v \in 0..n : p[v] \in 0..v
    BY <1>5 DEF IsLinks, Ids
  <2> DEFINE h == [v \in 0..n |-> IF v \in 0..(n - 1) THEN g[v]
                                  ELSE IF p[v] = v THEN v ELSE g[p[v]]]
  <2>4. ASSUME NEW v \in 0..n PROVE h[v] = IF p[v] = v THEN v ELSE h[p[v]]
    <3>1. CASE v \in 0..(n - 1)
      <4>1. p[v] \in 0..(n - 1)
        BY <2>3, <3>1, <1>5
      <4>2. h[v] = g[v] /\ h[p[v]] = g[p[v]]
        BY <3>1, <4>1, <1>5
      <4>3. g[v] = IF p[v] = v THEN v ELSE g[p[v]]
        BY <2>2, <3>1
      <4> QED
        BY <4>2, <4>3
    <3>2. CASE v = n
      <4>1. p[v] = v \/ p[v] \in 0..(n - 1)
        BY <2>3, <3>2, <1>5
      <4>2. v \notin 0..(n - 1)
        BY <3>2, <1>5
      <4>3. h[v] = IF p[v] = v THEN v ELSE g[p[v]]
        BY <4>2
      <4>4. p[v] \in 0..(n - 1) => h[p[v]] = g[p[v]]
        BY <1>5
      <4> QED
        BY <4>1, <4>3, <4>4
    <3> QED
      BY <3>1, <3>2, <1>5
  <2> HIDE DEF h
  <2>5. h = [v \in 0..n |-> h[v]]
    BY DEF h
  <2>6. Solves(h, n)
    BY <2>4, <2>5
  <2> QED
    BY <2>6, <1>4
<1> QED
  BY <1>6, <1>7

\* find_naive follows one link and goes on from there.
LEMMA FindStep ==
  ASSUME TableAssumption, NEW p, IsLinks(p), NEW id \in Ids
  PROVE  FindNaive(p, id) = IF p[id] = id THEN id ELSE FindNaive(p, p[id])
<1> DEFINE root == CHOOSE root : root = [v \in Ids |-> IF p[v] = v THEN v ELSE root[p[v]]]
<1>1. root = [v \in Ids |-> IF p[v] = v THEN v ELSE root[p[v]]]
  BY FindExists
<1>2. \A v \in Ids : FindNaive(p, v) = root[v]
  BY Zenon DEF FindNaive
<1> HIDE DEF root
<1>3. p[id] \in Ids
  BY DEF IsLinks
<1> QED
  BY <1>1, <1>2, <1>3

\* It ends at a root, at or below where it started.
LEMMA FindIsRoot ==
  ASSUME TableAssumption, NEW p, IsLinks(p)
  PROVE  \A v \in Ids : /\ Finds(p)[v] = FindNaive(p, v)
                        /\ Finds(p)[v] \in Ids /\ Finds(p)[v] <= v
                        /\ p[Finds(p)[v]] = Finds(p)[v]
                        /\ p[v] = v => Finds(p)[v] = v
                        /\ Finds(p)[p[v]] = Finds(p)[v]
<1> DEFINE f == Finds(p)
<1>1. \A v \in Ids : f[v] = FindNaive(p, v) /\ p[v] \in Ids /\ p[v] <= v /\ v \in Nat
  BY DEF Finds, IsLinks, Ids, TableAssumption
<1>2. \A v \in Ids : f[v] = IF p[v] = v THEN v ELSE f[p[v]]
  BY <1>1, FindStep
<1> HIDE DEF f
<1> DEFINE Bad == {v \in Ids : ~(f[v] \in Ids /\ f[v] <= v /\ p[f[v]] = f[v])}
<1>3. ASSUME Bad # {} PROVE FALSE
  <2>1. PICK n : n = Min(Bad)
    OBVIOUS
  <2>2. n \in Bad /\ \A m \in Bad : n <= m
    BY <1>1, <1>3, <2>1, MinIsLeast
  <2>3. p[n] # n
    BY <1>2, <2>2, <1>1
  <2>4. p[n] \in Ids /\ p[n] < n /\ n \in Nat /\ p[n] \in Nat
    BY <1>1, <2>2, <2>3
  <2>5. p[n] \notin Bad
    BY <2>2, <2>4
  <2>6. f[p[n]] \in Ids /\ f[p[n]] <= p[n] /\ p[f[p[n]]] = f[p[n]] /\ f[p[n]] \in Nat
    BY <2>4, <2>5, <1>1
  <2>7. f[n] = f[p[n]]
    BY <1>2, <2>2, <2>3
  <2>8. f[n] \in Ids /\ f[n] <= n /\ p[f[n]] = f[n]
    BY <2>4, <2>6, <2>7
  <2> QED
    BY <2>2, <2>8
<1>4. \A v \in Ids : f[v] \in Ids /\ f[v] <= v /\ p[f[v]] = f[v]
  BY <1>3
<1> QED
  BY <1>1, <1>2, <1>4 DEF f

\* Links that lead to the parent or the grandparent lead to the same roots.
LEMMA SameRoots ==
  ASSUME TableAssumption, NEW p, IsLinks(p), NEW h, h \in [Ids -> Ids],
         \A v \in Ids : h[v] \in {p[v], p[p[v]]}
  PROVE  IsLinks(h) /\ Finds(h) = Finds(p)
<1>1. \A v \in Ids : v \in Nat /\ p[v] \in Ids /\ p[v] <= v
  <2>1. Ids \subseteq Nat
    BY DEF Ids, TableAssumption
  <2> QED
    BY <2>1 DEF IsLinks
<1>2. \A v \in Ids : h[v] \in Ids /\ h[v] <= v /\ (p[v] = v <=> h[v] = v)
  BY <1>1
<1>3. IsLinks(h)
  BY <1>2 DEF IsLinks
<1>4. PICK f : f = Finds(p)
  OBVIOUS
<1>5. PICK g : g = Finds(h)
  OBVIOUS
<1>6. \A v \in Ids : f[p[v]] = f[v] /\ (p[v] = v => f[v] = v)
  BY <1>4, FindIsRoot
<1>7. \A v \in Ids : g[h[v]] = g[v] /\ (h[v] = v => g[v] = v)
  BY <1>3, <1>5, FindIsRoot
<1>8. \A v \in Ids : f[h[v]] = f[v]
  BY <1>1, <1>6
<1> DEFINE Bad == {v \in Ids : g[v] # f[v]}
<1>9. ASSUME Bad # {} PROVE FALSE
  <2>1. PICK n : n = Min(Bad)
    OBVIOUS
  <2>2. n \in Bad /\ \A m \in Bad : n <= m
    BY <1>1, <1>9, <2>1, MinIsLeast
  <2>3. h[n] # n
    BY <1>2, <1>6, <1>7, <2>2
  <2>4. h[n] \in Ids /\ h[n] < n /\ n \in Nat /\ h[n] \in Nat
    BY <1>1, <1>2, <2>2, <2>3
  <2>5. h[n] \notin Bad
    BY <2>2, <2>4
  <2> QED
    BY <1>7, <1>8, <2>2, <2>4, <2>5
<1>10. \A v \in Ids : g[v] = f[v]
  BY <1>9
<1>11. f = [v \in Ids |-> f[v]] /\ g = [v \in Ids |-> g[v]]
  BY <1>4, <1>5 DEF Finds
<1> QED
  BY <1>3, <1>4, <1>5, <1>10, <1>11

\* Path halving changes no root.
LEMMA HalveKeeps ==
  ASSUME TableAssumption, NEW p, IsLinks(p), NEW id
  PROVE  IsLinks(Halve(p, id)) /\ Finds(Halve(p, id)) = Finds(p)
<1>1. PICK h : h = Halve(p, id)
  OBVIOUS
<1>2. PICK path : h = [v \in Ids |-> IF v \in path THEN p[p[v]] ELSE p[v]]
  BY <1>1 DEF Halve
<1>3. \A v \in Ids : h[v] \in {p[v], p[p[v]]} /\ h[v] \in Ids
  BY <1>2 DEF IsLinks
<1>4. h \in [Ids -> Ids]
  BY <1>2, <1>3
<1> QED
  BY <1>1, <1>3, <1>4, SameRoots

\* Linking the greater of two roots to the lesser joins their trees.
LEMMA LinkJoins ==
  ASSUME TableAssumption, NEW p, IsLinks(p), NEW a \in Ids, NEW b \in Ids, a # b,
         p[a] = a, p[b] = b
  PROVE  /\ IsLinks(Link(p, a, b))
         /\ Finds(Link(p, a, b)) = Joined(Finds(p), a, b)
<1>1. PICK q : q = Link(p, a, b)
  OBVIOUS
<1>2. PICK lo : lo = Min({a, b})
  OBVIOUS
<1>3. PICK hi : hi = Max({a, b})
  OBVIOUS
<1>4. {a, b} = {lo, hi} /\ lo < hi /\ lo \in Ids /\ hi \in Ids /\ p[lo] = lo /\ p[hi] = hi
  BY <1>2, <1>3, OfTwo DEF Ids, TableAssumption
<1>5. q = [p EXCEPT ![hi] = lo]
  BY <1>1, <1>2, <1>3 DEF Link
<1>6. \A v \in Ids : v \in Nat /\ p[v] \in Ids /\ p[v] <= v
  BY DEF IsLinks, Ids, TableAssumption
<1>7. q[hi] = lo /\ \A v \in Ids : v # hi => q[v] = p[v]
  BY <1>4, <1>5 DEF IsLinks
<1>8. q \in [Ids -> Ids]
  BY <1>4, <1>5 DEF IsLinks
<1>9. IsLinks(q)
  BY <1>4, <1>6, <1>7, <1>8 DEF IsLinks
<1>10. PICK f : f = Finds(p)
  OBVIOUS
<1>11. PICK g : g = Finds(q)
  OBVIOUS
<1>12. \A v \in Ids : f[v] \in Ids /\ f[p[v]] = f[v] /\ (p[v] = v => f[v] = v)
  BY <1>10, FindIsRoot
<1>13. \A v \in Ids : g[q[v]] = g[v] /\ (q[v] = v => g[v] = v)
  BY <1>9, <1>11, FindIsRoot
<1> DEFINE j == [v \in Ids |-> IF f[v] \in {a, b} THEN lo ELSE f[v]]
<1>14. j = [v \in Ids |-> j[v]] /\ \A v \in Ids : j[v] = IF f[v] \in {lo, hi} THEN lo ELSE f[v]
  BY <1>4
<1> HIDE DEF j
<1>15. \A v \in Ids : j[q[v]] = j[v]
  BY <1>4, <1>6, <1>7, <1>12, <1>14
<1>16. \A v \in Ids : q[v] = v => j[v] = v
  BY <1>4, <1>7, <1>12, <1>14
<1> DEFINE Bad == {v \in Ids : g[v] # j[v]}
<1>17. ASSUME Bad # {} PROVE FALSE
  <2>1. PICK n : n = Min(Bad)
    OBVIOUS
  <2>2. n \in Bad /\ \A m \in Bad : n <= m
    BY <1>6, <1>17, <2>1, MinIsLeast
  <2>3. q[n] # n
    BY <1>13, <1>16, <2>2
  <2>4. q[n] \in Ids /\ q[n] < n /\ n \in Nat /\ q[n] \in Nat
    BY <1>6, <1>9, <2>2, <2>3 DEF IsLinks
  <2>5. q[n] \notin Bad
    BY <2>2, <2>4
  <2> QED
    BY <1>13, <1>15, <2>2, <2>4, <2>5
<1>18. \A v \in Ids : g[v] = j[v]
  BY <1>17
<1>19. g = [v \in Ids |-> g[v]]
  BY <1>11 DEF Finds
<1>20. g = j
  BY <1>14, <1>18, <1>19
<1> QED
  BY <1>1, <1>2, <1>9, <1>10, <1>11, <1>20 DEF j, Joined

-----------------------------------------------------------------------------
(* The classes that rows generate *)

\* A row more: who joins its two classes keeps IsCanon, and an id ceases to be canonical just
\* if it is the greater of the two canonical ones.
LEMMA JoinOne ==
  ASSUME TableAssumption, NEW d, NEW rows, IsCanon(d, rows), NEW row, row.l \in Ids, row.r \in Ids,
         NEW a, a = d[row.l], NEW b, b = d[row.r]
  PROVE  /\ IsCanon(Joined(d, a, b), rows \cup {row})
         /\ a = b => Joined(d, a, b) = d
         /\ a # b => \A v \in Ids : Joined(d, a, b)[v] # v <=> (d[v] # v \/ v = Max({a, b}))
<1>0. PICK j : j = [v \in Ids |-> IF d[v] \in {a, b} THEN Min({a, b}) ELSE d[v]]
  OBVIOUS
<1>1. Ids \subseteq Nat
  BY DEF Ids, TableAssumption
<1>2. \A v \in Ids : d[v] \in Ids /\ d[v] <= v /\ d[d[v]] = d[v]
  BY DEF IsCanon
<1>3. a \in Ids /\ b \in Ids /\ d[a] = a /\ d[b] = b
  BY <1>2
<1>4. PICK lo : lo = Min({a, b})
  OBVIOUS
<1>5. PICK hi : hi = Max({a, b})
  OBVIOUS
<1>6. {a, b} = {lo, hi} /\ lo <= hi /\ (a # b => lo < hi) /\ lo \in Nat /\ hi \in Nat
  <2>1. CASE a = b
    <3>1. {a, b} = {a} /\ a \in Nat
      BY <1>1, <1>3, <2>1
    <3>2. Min({a}) = a /\ Max({a}) = a
      BY <3>1 DEF Min, Max
    <3> QED
      BY <1>4, <1>5, <2>1, <3>1, <3>2
  <2>2. CASE a # b
    BY <1>1, <1>3, <1>4, <1>5, <2>2, OfTwo
  <2> QED
    BY <2>1, <2>2
<1>7. /\ j = [v \in Ids |-> j[v]]
      /\ \A v \in Ids : j[v] = IF d[v] \in {lo, hi} THEN lo ELSE d[v]
  BY <1>0, <1>4, <1>6
<1>8. lo \in Ids /\ hi \in Ids /\ d[lo] = lo /\ d[hi] = hi
  BY <1>3, <1>6
<1>9. j \in [Ids -> Ids] /\ \A v \in Ids : j[v] <= v /\ j[j[v]] = j[v]
  <2>1. \A v \in Ids : j[v] \in Ids
    BY <1>2, <1>7, <1>8
  <2>2. ASSUME NEW v \in Ids PROVE j[v] <= v /\ j[j[v]] = j[v]
    <3>1. CASE d[v] \in {lo, hi}
      <4>1. j[v] = lo /\ lo <= d[v] /\ d[v] <= v /\ d[v] \in Nat /\ v \in Nat
        BY <1>1, <1>2, <1>6, <1>7, <3>1
      <4>2. j[lo] = lo
        BY <1>7, <1>8
      <4> QED
        BY <1>6, <4>1, <4>2
    <3>2. CASE d[v] \notin {lo, hi}
      <4>1. j[v] = d[v] /\ d[v] \in Ids /\ d[d[v]] = d[v]
        BY <1>2, <1>7, <3>2
      <4> QED
        BY <1>2, <1>7, <3>2, <4>1
    <3> QED
      BY <3>1, <3>2
  <2> QED
    BY <1>7, <2>1, <2>2
<1>10. \A r \in rows \cup {row} : j[r.l] = j[r.r]
  <2>1. row.l \in Ids /\ row.r \in Ids /\ j[row.l] = lo /\ j[row.r] = lo
    BY <1>6, <1>7
  <2>2. ASSUME NEW r \in rows PROVE j[r.l] = j[r.r]
    <3>1. r.l \in Ids /\ r.r \in Ids /\ d[r.l] = d[r.r]
      BY DEF IsCanon
    <3> QED
      BY <1>7, <3>1
  <2> QED
    BY <2>1, <2>2
<1>11. ASSUME NEW S \in Closed(rows \cup {row}), NEW v \in Ids PROVE v \in S <=> j[v] \in S
  <2>1. S \in Closed(rows) /\ (row.l \in S <=> row.r \in S)
    BY DEF Closed
  <2>2. \A u \in Ids : u \in S <=> d[u] \in S
    BY <2>1 DEF IsCanon
  <2>3. lo \in S <=> hi \in S
    BY <1>6, <2>1, <2>2
  <2> QED
    BY <1>7, <2>2, <2>3
<1>12. IsCanon(j, rows \cup {row})
  BY <1>9, <1>10, <1>11 DEF IsCanon
<1>13. ASSUME a = b PROVE j = d
  <2>1. lo = a /\ hi = a
    BY <1>6, <1>13
  <2>2. \A v \in Ids : j[v] = d[v]
    BY <1>7, <2>1
  <2>3. d = [v \in Ids |-> d[v]]
    BY DEF IsCanon
  <2> QED
    BY <1>7, <2>2, <2>3
<1>14. ASSUME a # b, NEW v \in Ids PROVE j[v] # v <=> (d[v] # v \/ v = hi)
  <2>1. lo # hi
    BY <1>6, <1>14
  <2>2. CASE v = hi
    BY <1>7, <1>8, <2>1, <2>2
  <2>3. CASE v # hi /\ d[v] = v
    BY <1>7, <1>8, <2>1, <2>3
  <2>4. CASE v # hi /\ d[v] # v
    BY <1>1, <1>2, <1>6, <1>7, <1>8, <2>4
  <2> QED
    BY <2>2, <2>3, <2>4
<1> QED
  BY <1>0, <1>5, <1>12, <1>13, <1>14 DEF Joined

\* Each id is of its class, and Canonical is the least of it.
LEMMA CanonicalIs ==
  ASSUME TableAssumption, NEW rows, NEW v \in Ids
  PROVE  /\ v \in Class(rows, v) /\ Class(rows, v) \subseteq Ids
         /\ Canonical(rows)[v] \in Class(rows, v)
         /\ \A w \in Class(rows, v) : Canonical(rows)[v] <= w
<1>1. v \in Class(rows, v) /\ Class(rows, v) \subseteq Ids
  BY DEF Class
<1>2. Class(rows, v) \in SUBSET Nat /\ Class(rows, v) # {}
  BY <1>1 DEF Ids, TableAssumption
<1>3. Canonical(rows)[v] = Min(Class(rows, v))
  BY DEF Canonical
<1> QED
  BY <1>1, <1>2, <1>3, MinIsLeast

\* What is canonical by some rows is so by fewer.
LEMMA FewerRows ==
  ASSUME TableAssumption, NEW rows, NEW fewer, fewer \subseteq rows, NEW v \in Ids,
         Canonical(rows)[v] = v
  PROVE  Canonical(fewer)[v] = v
<1>1. Closed(rows) \subseteq Closed(fewer)
  BY DEF Closed
<1>2. Class(fewer, v) \subseteq Class(rows, v)
  BY <1>1 DEF Class
<1>3. Ids \subseteq Nat
  BY DEF Ids, TableAssumption
<1>4. PICK w : w = Canonical(fewer)[v]
  OBVIOUS
<1>5. w \in Class(fewer, v) /\ w <= v /\ w \in Ids
  BY <1>4, CanonicalIs
<1>6. v <= w
  BY <1>2, <1>5, CanonicalIs
<1> QED
  BY <1>3, <1>4, <1>5, <1>6

\* There is one way only to lead ids to the least of their classes.
LEMMA CanonIsOne ==
  ASSUME TableAssumption, NEW d, NEW rows, IsCanon(d, rows)
  PROVE  \A v \in Ids : Canonical(rows)[v] = d[v]
<1> SUFFICES ASSUME NEW v \in Ids PROVE Canonical(rows)[v] = d[v]
  OBVIOUS
<1>1. \A u \in Ids : d[u] \in Ids /\ d[u] <= u /\ d[d[u]] = d[u]
  BY DEF IsCanon
<1>2. d[v] \in Class(rows, v)
  BY <1>1 DEF Class, IsCanon
<1> DEFINE S == {u \in Ids : d[u] = d[v]}
<1>3. S \in Closed(rows)
  <2>1. ASSUME NEW r \in rows PROVE r.l \in S <=> r.r \in S
    BY DEF IsCanon
  <2> QED
    BY <2>1 DEF Closed
<1>4. \A w \in Class(rows, v) : d[w] = d[v]
  BY <1>3 DEF Class
<1>5. Ids \subseteq Nat
  BY DEF Ids, TableAssumption
<1>6. PICK c : c = Canonical(rows)[v]
  OBVIOUS
<1>7. c \in Class(rows, v) /\ c <= d[v] /\ c \in Ids
  BY <1>2, <1>6, CanonicalIs
<1>8. d[c] = d[v] /\ d[c] <= c
  BY <1>1, <1>4, <1>7
<1>9. c \in Nat /\ d[v] \in Nat
  BY <1>1, <1>5, <1>7
<1>10. c = d[v]
  BY <1>7, <1>8, <1>9
<1> QED
  BY <1>6, <1>10

-----------------------------------------------------------------------------
(* When an id is displaced *)

\* A later row does not change when an id was displaced.
LEMMA StaysDisplaced ==
  ASSUME TableAssumption, NEW rows, NEW row, NEW c \in Ids, NEW ts \in Nat, row.ts \in Nat,
         ts <= row.ts, DisplacedAt(rows, c, ts)
  PROVE  DisplacedAt(rows \cup {row}, c, ts)
<1> DEFINE old(t) == {r \in rows : r.ts <= t}
           new(t) == {r \in rows \cup {row} : r.ts <= t}
<1>1. Canonical(old(ts))[c] # c /\ (ts > 0 => Canonical(old(ts - 1))[c] = c)
  BY DEF DisplacedAt
<1>2. old(ts) \subseteq new(ts)
  OBVIOUS
<1>3. ts > 0 => old(ts - 1) = new(ts - 1)
  <2>1. ~(row.ts <= ts - 1)
    OBVIOUS
  <2> QED
    BY <2>1
<1> HIDE DEF old, new
<1>4. Canonical(new(ts))[c] # c
  BY <1>1, <1>2, FewerRows
<1>5. ts > 0 => Canonical(new(ts - 1))[c] = c
  BY <1>1, <1>3
<1> QED
  BY <1>4, <1>5 DEF DisplacedAt, new

\* A row no earlier than those before it displaces an id at its own time.
LEMMA NowDisplaced ==
  ASSUME TableAssumption, NEW d, NEW j, NEW rows, NEW row, NEW c \in Ids,
         IsCanon(d, rows), IsCanon(j, rows \cup {row}), d[c] = c, j[c] # c, row.ts \in Nat,
         \A r \in rows : r.ts \in Nat /\ r.ts <= row.ts
  PROVE  DisplacedAt(rows \cup {row}, c, row.ts)
<1>1. {r \in rows \cup {row} : r.ts <= row.ts} = rows \cup {row}
  OBVIOUS
<1>2. Canonical(rows \cup {row})[c] # c /\ Canonical(rows)[c] = c
  BY CanonIsOne
<1> DEFINE before == {r \in rows \cup {row} : r.ts <= row.ts - 1}
<1>3. before \subseteq rows
  OBVIOUS
<1>4. Canonical(before)[c] = c
  BY <1>2, <1>3, FewerRows
<1> QED
  BY <1>1, <1>2, <1>4 DEF DisplacedAt

-----------------------------------------------------------------------------
(* Places *)

\* What is in a sequence.
LEMMA ElementOf == ASSUME NEW S, NEW s \in Seq(S), NEW i \in DOMAIN s PROVE s[i] \in S
  OBVIOUS

\* A place is of a row in a buffer.
LEMMA PlaceIs ==
  ASSUME NEW bufs \in Seq(Seq(Rows)), NEW p \in Places(bufs)
  PROVE  /\ p = <<p[1], p[2]>> /\ p[1] \in DOMAIN bufs /\ p[2] \in DOMAIN bufs[p[1]]
         /\ p[1] \in Nat /\ p[2] \in Nat /\ At(bufs, p) \in Rows
<1>1. PICK i \in DOMAIN bufs : p \in {i} \X DOMAIN bufs[i]
  BY DEF Places
<1>2. p[1] = i /\ p[2] \in DOMAIN bufs[i] /\ p = <<p[1], p[2]>>
  BY <1>1
<1>3. bufs[i] \in Seq(Rows) /\ i \in Nat
  OBVIOUS
<1>4. bufs[i][p[2]] \in Rows /\ p[2] \in Nat
  BY <1>2, <1>3
<1> QED
  BY <1>2, <1>3, <1>4 DEF At

\* Places are ordered.
LEMMA PlacesOrdered ==
  ASSUME NEW bufs \in Seq(Seq(Rows)), NEW p \in Places(bufs), NEW q \in Places(bufs)
  PROVE  /\ p = q \/ Before(p, q) \/ Before(q, p)
         /\ ~(Before(p, q) /\ Before(q, p)) /\ ~Before(p, p)
<1>1. /\ p = <<p[1], p[2]>> /\ p[1] \in Nat /\ p[2] \in Nat
      /\ q = <<q[1], q[2]>> /\ q[1] \in Nat /\ q[2] \in Nat
  BY PlaceIs
<1>2. p[1] = q[1] /\ p[2] = q[2] => p = q
  BY <1>1
<1> QED
  BY <1>1, <1>2 DEF Before

\* The rows of a group have one timestamp.
LEMMA GroupHasOneTime ==
  ASSUME buffers \in Seq(Seq(Rows)), NEW p \in Places(buffers), NEW q \in GroupOf(p)
  PROVE  q \in Places(buffers) /\ RowAt(q).ts = RowAt(p).ts
<1>1. q \in Places(buffers)
  BY DEF GroupOf
<1>2. Between(p, q, q) \/ Between(q, q, p)
  BY <1>1, PlacesOrdered DEF Between
<1> QED
  BY <1>1, <1>2 DEF GroupOf

\* A buffer more on the queue.
LEMMA OneBufferMore ==
  ASSUME NEW bufs \in Seq(Seq(Rows)), NEW buf \in Seq(Rows), NEW time,
         \A i \in DOMAIN buf : buf[i].ts = time, \A r \in RowsIn(bufs) : r.ts <= time, Sorted(bufs),
         time \in Nat
  PROVE  /\ Append(bufs, buf) \in Seq(Seq(Rows)) /\ Sorted(Append(bufs, buf))
         /\ \A r \in RowsIn(Append(bufs, buf)) : r \in RowsIn(bufs) \/ r.ts = time
<1> DEFINE more == Append(bufs, buf)
<1>1. more \in Seq(Seq(Rows)) /\ Len(more) = Len(bufs) + 1
  OBVIOUS
<1>2. /\ more[Len(bufs) + 1] = buf
      /\ \A i \in DOMAIN bufs : more[i] = bufs[i]
      /\ DOMAIN more = DOMAIN bufs \cup {Len(bufs) + 1}
  OBVIOUS
<1>3. ASSUME NEW p \in Places(more)
      PROVE  \/ p \in Places(bufs) /\ At(more, p) = At(bufs, p) /\ p[1] \in DOMAIN bufs
             \/ p[1] = Len(bufs) + 1 /\ At(more, p).ts = time
  <2>1. p = <<p[1], p[2]>> /\ p[1] \in DOMAIN more /\ p[2] \in DOMAIN more[p[1]]
    BY <1>1, <1>3, PlaceIs
  <2>2. CASE p[1] = Len(bufs) + 1
    <3>1. p[2] \in DOMAIN buf
      BY <1>2, <2>1, <2>2
    <3> QED
      BY <1>2, <2>2, <3>1 DEF At
  <2>3. CASE p[1] \in DOMAIN bufs
    <3>1. p[2] \in DOMAIN bufs[p[1]] /\ At(more, p) = At(bufs, p)
      BY <1>2, <2>1, <2>3 DEF At
    <3>2. p \in {p[1]} \X DOMAIN bufs[p[1]]
      BY <2>1, <3>1
    <3> QED
      BY <2>3, <3>1, <3>2 DEF Places
  <2> QED
    BY <1>2, <2>1, <2>2, <2>3
<1> HIDE DEF more
<1>4. ASSUME NEW p \in Places(more), NEW q \in Places(more), Before(p, q)
      PROVE  At(more, p).ts <= At(more, q).ts
  <2>1. CASE q \in Places(bufs) /\ At(more, q) = At(bufs, q) /\ q[1] \in DOMAIN bufs
    <3>1. p[1] <= q[1] /\ q[1] <= Len(bufs) /\ p[1] \in Nat /\ q[1] \in Nat
      <4>1. p[1] \in Nat /\ q[1] \in Nat
        BY <1>1, PlaceIs
      <4>2. q[1] <= Len(bufs)
        BY <2>1
      <4> QED
        BY <1>4, <4>1, <4>2 DEF Before
    <3>2. p \in Places(bufs) /\ At(more, p) = At(bufs, p)
      BY <1>3, <3>1
    <3> QED
      BY <1>4, <2>1, <3>2 DEF Sorted
  <2>2. CASE At(more, q).ts = time
    <3>1. CASE p \in Places(bufs) /\ At(more, p) = At(bufs, p)
      BY <2>2, <3>1 DEF RowsIn
    <3>2. CASE At(more, p).ts = time
      BY <2>2, <3>2
    <3> QED
      BY <1>3, <3>1, <3>2
  <2> QED
    BY <1>3, <2>1, <2>2
<1>5. Sorted(more)
  BY <1>4 DEF Sorted
<1>6. \A r \in RowsIn(more) : r \in RowsIn(bufs) \/ r.ts = time
  BY <1>3 DEF RowsIn
<1> QED
  BY <1>1, <1>5, <1>6 DEF more

-----------------------------------------------------------------------------
(* Applying a row *)

\* The union-find after a row is applied, by either path, and when ids were displaced.
LEMMA RowApplied ==
  ASSUME TableAssumption, IInv, NEW p \in left,
         NEW f, f = Joined(Finds(parents), EndL(p), EndR(p)),
         \A k \in kids : RowAt(k.at).ts = RowAt(p).ts
  PROVE  /\ RowAt(p) \in Rows /\ IsCanon(f, applied \cup {RowAt(p)})
         /\ \A i \in DOMAIN displaced :
              DisplacedAt(applied \cup {RowAt(p)}, displaced[i].child, displaced[i].ts)
         /\ \A k \in kids : DisplacedAt(applied \cup {RowAt(p)}, k.child, RowAt(p).ts)
         /\ EndL(p) = EndR(p) => f = Finds(parents)
         /\ EndL(p) # EndR(p) =>
              /\ Hi(p) \in Ids /\ Finds(parents)[Hi(p)] = Hi(p)
              /\ DisplacedAt(applied \cup {RowAt(p)}, Hi(p), RowAt(p).ts)
              /\ \A v \in Ids : f[v] # v <=> (Finds(parents)[v] # v \/ v = Hi(p))
<1> DEFINE row == RowAt(p)
           a == EndL(p)
           b == EndR(p)
           hi == Hi(p)
<1>1. /\ IsLinks(parents) /\ left \subseteq Places(buffers) /\ buffers \in Seq(Seq(Rows))
      /\ applied \subseteq Rows /\ displaced \in Seq(Records)
  BY DEF IInv, TypeInv
<1>2. row \in Rows
  BY <1>1, PlaceIs DEF RowAt
<1> HIDE DEF row
<1>3. row.l \in Ids /\ row.r \in Ids /\ row.ts \in Nat
  BY <1>2 DEF Rows, TableAssumption
<1>4. PICK d : d = Finds(parents)
  OBVIOUS
<1>5. IsCanon(d, applied)
  BY <1>4 DEF IInv, RecordInv
<1>6. /\ \A v \in Ids : d[v] \in Ids /\ d[v] = FindNaive(parents, v) /\ d[d[v]] = d[v]
      /\ d = [v \in Ids |-> d[v]]
  BY <1>1, <1>4, <1>5, FindIsRoot DEF IsCanon
<1>7. a = d[row.l] /\ b = d[row.r]
  BY <1>3, <1>6 DEF EndL, EndR, row
<1> HIDE DEF a, b
<1>15. hi = Max({a, b})
  BY DEF Hi, a, b
<1> HIDE DEF hi
<1>16. a \in Ids /\ b \in Ids /\ d[a] = a /\ d[b] = b
  BY <1>3, <1>6, <1>7
<1>9. /\ IsCanon(f, applied \cup {row})
      /\ a = b => f = d
      /\ a # b => \A v \in Ids : f[v] # v <=> (d[v] # v \/ v = hi)
  BY <1>3, <1>4, <1>5, <1>7, <1>15, JoinOne DEF a, b
<1>11. \A r \in applied : r.ts \in Nat /\ r.ts <= row.ts
  <2>1. \A r \in applied : r.ts <= row.ts
    BY DEF IInv, TimeInv, row
  <2>2. \A r \in applied : r.ts \in 0..MaxTime
    BY <1>1 DEF Rows
  <2> QED
    BY <2>1, <2>2 DEF TableAssumption
<1>12. ASSUME NEW i \in DOMAIN displaced
       PROVE  DisplacedAt(applied \cup {row}, displaced[i].child, displaced[i].ts)
  <2>1. displaced[i].child \in Ids /\ displaced[i].ts \in Nat
    <3>1. displaced[i] \in Records /\ MaxTime \in Nat
      BY <1>1, ElementOf DEF TableAssumption
    <3> QED
      BY <3>1 DEF Records
  <2>2. DisplacedAt(applied, displaced[i].child, displaced[i].ts)
    BY DEF IInv, RecordInv
  <2>3. displaced[i].ts <= row.ts
    <3>1. PICK r \in applied : displaced[i].ts <= r.ts
      BY DEF IInv, TimeInv
    <3> QED
      BY <1>3, <1>11, <2>1, <3>1
  <2> QED
    BY <1>3, <2>1, <2>2, <2>3, StaysDisplaced
<1>13. ASSUME NEW k \in kids PROVE DisplacedAt(applied \cup {row}, k.child, row.ts)
  <2>1. k.child \in Ids /\ DisplacedAt(applied, k.child, row.ts)
    BY <1>13 DEF IInv, RecordInv, row
  <2>2. row.ts <= row.ts
    BY <1>3
  <2> QED
    BY <1>3, <2>1, <2>2, StaysDisplaced
<1>14. ASSUME a # b PROVE hi \in Ids /\ d[hi] = hi /\ DisplacedAt(applied \cup {row}, hi, row.ts)
  <2>1. a \in Nat /\ b \in Nat
    BY <1>16 DEF Ids, TableAssumption
  <2>2. hi \in {a, b}
    BY <1>14, <1>15, <2>1, OfTwo
  <2>3. hi \in Ids /\ d[hi] = hi /\ f[hi] # hi
    BY <1>9, <1>14, <1>16, <2>2
  <2> QED
    BY <1>3, <1>5, <1>9, <1>11, <2>3, NowDisplaced
<1> QED
  BY <1>2, <1>4, <1>9, <1>12, <1>13, <1>14 DEF row, a, b, hi

\* A row is applied before all that are left in the queue, and after all that were applied, if
\* those before it in the queue are of its time.
LEMMA TimesKept ==
  ASSUME TableAssumption, IInv, NEW p \in left,
         left' = left \ {p}, applied' = applied \cup {RowAt(p)},
         UNCHANGED <<open, pending, now, buffers, merging, clears, reader>>,
         \A q \in left : Before(q, p) => RowAt(q).ts = RowAt(p).ts
  PROVE  /\ Sorted(buffers') /\ Sorted(pending')
         /\ \A w \in Writers : \A i \in DOMAIN open[w]' : open[w][i]'.ts = now'
         /\ \A r \in RowsIn(pending') : r.ts <= now'
         /\ \A r \in applied' : \A q \in left' : r.ts <= RowAt(q)'.ts
         /\ \A r \in applied' \cup {RowAt(q)' : q \in left'} :
              r.ts <= now' /\ \A s \in RowsIn(pending') : r.ts <= s.ts
<1>1. left \subseteq Places(buffers) /\ buffers \in Seq(Seq(Rows))
  BY DEF IInv, TypeInv
<1>2. \A q : RowAt(q)' = RowAt(q)
  BY DEF RowAt, At
<1>3. ASSUME NEW q \in left' PROVE RowAt(p).ts <= RowAt(q).ts
  <2>1. RowAt(p).ts \in Nat
    <3>1. RowAt(p) \in Rows /\ MaxTime \in Nat
      BY <1>1, PlaceIs DEF RowAt, TableAssumption
    <3> QED
      BY <3>1 DEF Rows
  <2>2. q \in left /\ (Before(p, q) \/ Before(q, p))
    BY <1>1, PlacesOrdered
  <2>3. CASE Before(p, q)
    BY <1>1, <2>2, <2>3 DEF IInv, TimeInv, Sorted, RowAt
  <2>4. CASE Before(q, p)
    BY <2>1, <2>2, <2>4
  <2> QED
    BY <2>2, <2>3, <2>4
<1>4. \A r \in applied' : \A q \in left' : r.ts <= RowAt(q).ts
  BY <1>3 DEF IInv, TimeInv
<1>5. \A r \in applied' \cup {RowAt(q) : q \in left'} : r \in applied \cup {RowAt(q) : q \in left}
  OBVIOUS
<1>6. \A r \in applied' \cup {RowAt(q) : q \in left'} :
        r.ts <= now /\ \A s \in RowsIn(pending) : r.ts <= s.ts
  BY <1>5 DEF IInv, TimeInv
<1> QED
  BY <1>2, <1>4, <1>6 DEF IInv, TimeInv

\* A row of a serial group is inserted.
LEMMA InsertRowIInv ==
  ASSUME TableAssumption, IInv, NEW p \in left, InsertRow(p)
  PROVE  IInv'
<1>1. PICK row : row = RowAt(p)
  OBVIOUS
<1>2. PICK a : a = EndL(p)
  OBVIOUS
<1>3. PICK b : b = EndR(p)
  OBVIOUS
<1>4. PICK hi : hi = Hi(p)
  OBVIOUS
<1>5. /\ IsLinks(parents) /\ left \subseteq Places(buffers) /\ buffers \in Seq(Seq(Rows))
      /\ applied \subseteq Rows /\ displaced \in Seq(Records)
      /\ lookup \in [Ids -> Nat \cup {None}]
  BY DEF IInv, TypeInv
<1>6. /\ kids = {} /\ left' = left \ {p} /\ applied' = applied \cup {row}
      /\ UNCHANGED <<open, pending, now, buffers, kids, merging, clears, reader>>
      /\ \A q \in left : ~Before(q, p)
  BY <1>1 DEF InsertRow
<1>7. row \in Rows /\ row.l \in Ids /\ row.r \in Ids /\ row.ts \in 0..MaxTime
  BY <1>1, <1>5, PlaceIs DEF RowAt, Rows
<1>8. PICK once : once = Halve(Halve(parents, row.l), row.r)
  OBVIOUS
<1>9. PICK twice : twice = Halve(Halve(once, row.l), row.r)
  OBVIOUS
<1>10. IsLinks(once) /\ Finds(once) = Finds(parents)
  BY <1>5, <1>8, HalveKeeps
<1>11. IsLinks(twice) /\ Finds(twice) = Finds(parents)
  BY <1>9, <1>10, HalveKeeps
<1>12. \/ a = b /\ parents' = once /\ UNCHANGED <<displaced, lookup>>
       \/ a # b /\ parents' = Link(twice, a, b) /\ PublishDisplaced(hi, row.ts)
  BY <1>1, <1>2, <1>3, <1>4, <1>8, <1>9 DEF InsertRow, Insert, EndL, EndR, Hi
<1>13. a \in Ids /\ b \in Ids /\ twice[a] = a /\ twice[b] = b
  <2>1. a = Finds(twice)[row.l] /\ b = Finds(twice)[row.r]
    BY <1>1, <1>2, <1>3, <1>5, <1>7, <1>11, FindIsRoot DEF EndL, EndR
  <2> QED
    BY <1>7, <1>11, <2>1, FindIsRoot
<1>14. \A k \in kids : RowAt(k.at).ts = RowAt(p).ts
  BY <1>6
<1>15. PICK f : f = Joined(Finds(parents), a, b)
  OBVIOUS
<1>18. /\ IsCanon(f, applied')
       /\ \A i \in DOMAIN displaced : DisplacedAt(applied', displaced[i].child, displaced[i].ts)
       /\ a = b => f = Finds(parents)
       /\ a # b => /\ hi \in Ids /\ Finds(parents)[hi] = hi
                   /\ DisplacedAt(applied', hi, row.ts)
                   /\ \A v \in Ids : f[v] # v <=> (Finds(parents)[v] # v \/ v = hi)
  BY <1>1, <1>2, <1>3, <1>4, <1>6, <1>14, <1>15, RowApplied
<1>19. IsLinks(parents') /\ Finds(parents') = f
  BY <1>10, <1>11, <1>12, <1>13, <1>15, <1>18, LinkJoins
<1> DEFINE n == Len(displaced) + 1
<1>16. CASE a = b
  <2>1. UNCHANGED <<displaced, lookup>> /\ Finds(parents') = Finds(parents)
    BY <1>12, <1>16, <1>18, <1>19
  <2>2. TypeInv'
    BY <1>6, <1>7, <1>19, <2>1 DEF IInv, TypeInv
  <2>3. \A i \in DOMAIN displaced : \E r \in applied' : displaced[i].ts <= r.ts
    BY <1>6 DEF IInv, TimeInv
  <2>4. TimeInv'
    <3>1. /\ Sorted(buffers') /\ Sorted(pending')
          /\ \A w \in Writers : \A i \in DOMAIN open[w]' : open[w][i]'.ts = now'
          /\ \A r \in RowsIn(pending') : r.ts <= now'
          /\ \A r \in applied' : \A q \in left' : r.ts <= RowAt(q)'.ts
          /\ \A r \in applied' \cup {RowAt(q)' : q \in left'} :
               r.ts <= now' /\ \A s \in RowsIn(pending') : r.ts <= s.ts
      BY <1>1, <1>6, TimesKept
    <3> QED
      BY <1>6, <2>1, <2>3, <3>1 DEF IInv, TimeInv, Sorted, RowsIn, Places
  <2>5. RecordInv'
    BY <1>6, <1>18, <1>19, <2>1 DEF IInv, RecordInv
  <2>6. ReaderInv'
    BY <1>6, <2>1 DEF IInv, ReaderInv
  <2> QED
    BY <2>2, <2>4, <2>5, <2>6 DEF IInv
<1>17. CASE a # b
  <2>1. /\ displaced' = Append(displaced, [child |-> hi, ts |-> row.ts])
        /\ lookup' = [lookup EXCEPT ![hi] = n]
    BY <1>12, <1>17 DEF PublishDisplaced
  <2>2. /\ hi \in Ids /\ Finds(parents)[hi] = hi /\ DisplacedAt(applied', hi, row.ts)
        /\ \A v \in Ids : Finds(parents')[v] # v <=> (Finds(parents)[v] # v \/ v = hi)
    BY <1>17, <1>18, <1>19
  <2>3. /\ displaced' \in Seq(Records) /\ n \in Nat
        /\ DOMAIN displaced' = DOMAIN displaced \cup {n} /\ n \notin DOMAIN displaced
        /\ \A i \in DOMAIN displaced : displaced'[i] = displaced[i] /\ i < n
        /\ displaced'[n] = [child |-> hi, ts |-> row.ts] /\ Len(displaced') = n
    <3>1. [child |-> hi, ts |-> row.ts] \in Records
      BY <1>7, <2>2 DEF Records
    <3> QED
      BY <1>5, <2>1, <3>1
  <2>4. lookup' \in [Ids -> Nat \cup {None}] /\ lookup'[hi] = n
        /\ \A v \in Ids : v # hi => lookup'[v] = lookup[v]
    BY <1>5, <2>1, <2>2, <2>3
  <2>5. TypeInv'
    BY <1>6, <1>7, <1>19, <2>3, <2>4 DEF IInv, TypeInv
  <2>6. ASSUME NEW i \in DOMAIN displaced
        PROVE  \E r \in applied : displaced[i].ts <= r.ts /\ r.ts <= row.ts
    BY <1>1 DEF IInv, TimeInv
  <2>7. \A i \in DOMAIN displaced : displaced[i].ts <= row.ts
    <3> SUFFICES ASSUME NEW i \in DOMAIN displaced PROVE displaced[i].ts <= row.ts
      OBVIOUS
    <3>1. PICK r \in applied : displaced[i].ts <= r.ts /\ r.ts <= row.ts
      BY <2>6
    <3>2. displaced[i].ts \in Nat /\ r.ts \in Nat /\ row.ts \in Nat
      <4>1. /\ displaced[i] \in Records /\ r \in Rows
            /\ MaxTime \in Nat
        BY <1>5, ElementOf DEF TableAssumption
      <4> QED
        BY <1>7, <4>1 DEF Rows, Records
    <3> QED
      BY <3>1, <3>2
  <2>8. \A i \in DOMAIN displaced' : \E r \in applied' : displaced'[i].ts <= r.ts
    BY <1>6, <1>7, <2>3, <2>6
  <2>9. \A i, k \in DOMAIN displaced' : i <= k => displaced'[i].ts <= displaced'[k].ts
    BY <1>7, <2>3, <2>7 DEF IInv, TimeInv
  <2>10. TimeInv'
    <3>1. /\ Sorted(buffers') /\ Sorted(pending')
          /\ \A w \in Writers : \A i \in DOMAIN open[w]' : open[w][i]'.ts = now'
          /\ \A r \in RowsIn(pending') : r.ts <= now'
          /\ \A r \in applied' : \A q \in left' : r.ts <= RowAt(q)'.ts
          /\ \A r \in applied' \cup {RowAt(q)' : q \in left'} :
               r.ts <= now' /\ \A s \in RowsIn(pending') : r.ts <= s.ts
      BY <1>1, <1>6, TimesKept
    <3> QED
      BY <1>6, <2>8, <2>9, <3>1 DEF TimeInv, Sorted, RowsIn, Places
  <2>11. RecordInv'
    <3>1. ASSUME NEW i \in DOMAIN displaced'
          PROVE  /\ lookup'[displaced'[i].child] = i
                 /\ Finds(parents')[displaced'[i].child] # displaced'[i].child
                 /\ DisplacedAt(applied', displaced'[i].child, displaced'[i].ts)
      <4>1. CASE i = n
        BY <2>2, <2>3, <2>4, <4>1
      <4>2. CASE i \in DOMAIN displaced
        <5>1. /\ displaced'[i] = displaced[i] /\ displaced[i].child \in Ids
              /\ lookup[displaced[i].child] = i
              /\ Finds(parents)[displaced[i].child] # displaced[i].child
          <6>1. displaced[i] \in Records
            BY <1>5, <4>2, ElementOf
          <6> QED
            BY <2>3, <4>2, <6>1 DEF Records, IInv, RecordInv
        <5> QED
          BY <1>18, <2>2, <2>4, <4>2, <5>1
      <4> QED
        BY <2>3, <4>1, <4>2
    <3>2. ASSUME NEW v \in Ids, Finds(parents')[v] # v
          PROVE  \E i \in DOMAIN displaced' : displaced'[i].child = v
      <4>1. CASE v = hi
        BY <2>3, <4>1
      <4>2. CASE v # hi
        <5>1. PICK i \in DOMAIN displaced : displaced[i].child = v
          BY <1>6, <2>2, <3>2, <4>2 DEF IInv, RecordInv
        <5> QED
          BY <2>3, <5>1
      <4> QED
        BY <4>1, <4>2
    <3> QED
      BY <1>6, <1>18, <1>19, <3>1, <3>2 DEF RecordInv
  <2>12. ReaderInv'
    BY <1>5, <1>6, <2>3 DEF IInv, ReaderInv, TypeInv
  <2> QED
    BY <2>5, <2>10, <2>11, <2>12 DEF IInv
<1> QED
  BY <1>16, <1>17

\* A row of a parallel group is united.
LEMMA UnionRowIInv ==
  ASSUME TableAssumption, IInv, NEW p \in left, UnionRow(p)
  PROVE  IInv'
<1>1. PICK row : row = RowAt(p)
  OBVIOUS
<1>2. PICK a : a = EndL(p)
  OBVIOUS
<1>3. PICK b : b = EndR(p)
  OBVIOUS
<1>4. PICK hi : hi = Hi(p)
  OBVIOUS
<1>5. /\ IsLinks(parents) /\ left \subseteq Places(buffers) /\ buffers \in Seq(Seq(Rows))
      /\ applied \subseteq Rows /\ Parallel
      /\ \A k \in kids : k = [at |-> k.at, child |-> k.child] /\ k.at \in Places(buffers)
      /\ merging
  BY DEF IInv, TypeInv, UnionRow, Serial
<1> DEFINE kid == [at |-> p, child |-> hi]
<1>6. /\ left' = left \ {p} /\ applied' = applied \cup {row}
      /\ UNCHANGED <<displaced, lookup, open, pending, now, buffers, merging, clears, reader>>
      /\ \A k \in kids : k.at \in GroupOf(p)
      /\ \A q \in left : Before(q, p) => q \in GroupOf(p)
  BY <1>1 DEF UnionRow
<1>7. row \in Rows /\ row.l \in Ids /\ row.r \in Ids /\ row.ts \in 0..MaxTime
  BY <1>1, <1>5, PlaceIs DEF RowAt, Rows
<1>8. \/ a = b /\ UNCHANGED <<parents, kids>>
      \/ a # b /\ parents' = Link(parents, a, b) /\ kids' = kids \cup {kid}
  BY <1>1, <1>2, <1>3, <1>4 DEF UnionRow, EndL, EndR, Hi
<1>9. \A k \in kids : RowAt(k.at).ts = row.ts
  BY <1>1, <1>5, <1>6, GroupHasOneTime
<1>10. \A q \in left : Before(q, p) => RowAt(q).ts = row.ts
  BY <1>1, <1>5, <1>6, GroupHasOneTime
<1>11. a \in Ids /\ b \in Ids /\ parents[a] = a /\ parents[b] = b
  <2>1. a = Finds(parents)[row.l] /\ b = Finds(parents)[row.r]
    BY <1>1, <1>2, <1>3, <1>5, <1>7, FindIsRoot DEF EndL, EndR
  <2> QED
    BY <1>5, <1>7, <2>1, FindIsRoot
<1>12. PICK f : f = Joined(Finds(parents), a, b)
  OBVIOUS
<1>13. /\ IsCanon(f, applied')
       /\ \A i \in DOMAIN displaced : DisplacedAt(applied', displaced[i].child, displaced[i].ts)
       /\ \A k \in kids : DisplacedAt(applied', k.child, row.ts)
       /\ a = b => f = Finds(parents)
       /\ a # b => /\ hi \in Ids /\ Finds(parents)[hi] = hi
                   /\ DisplacedAt(applied', hi, row.ts)
                   /\ \A v \in Ids : f[v] # v <=> (Finds(parents)[v] # v \/ v = hi)
  BY <1>1, <1>2, <1>3, <1>4, <1>6, <1>9, <1>12, RowApplied
<1>14. IsLinks(parents') /\ Finds(parents') = f
  BY <1>5, <1>8, <1>11, <1>12, <1>13, LinkJoins
<1>15. \A q : RowAt(q)' = RowAt(q)
  BY <1>6 DEF RowAt, At
<1>16. ASSUME NEW k \in kids'
       PROVE  /\ k \in kids \/ (a # b /\ k = kid)
              /\ k = [at |-> k.at, child |-> k.child] /\ k.at \in Places(buffers)
              /\ RowAt(k.at).ts = row.ts /\ RowAt(k.at) \in applied'
  <2>1. CASE k \in kids
    BY <1>5, <1>6, <1>9, <2>1 DEF IInv, TimeInv
  <2>2. CASE a # b /\ k = kid
    BY <1>1, <1>5, <1>6, <2>2
  <2> QED
    BY <1>8, <1>16, <2>1, <2>2
<1>17. TypeInv'
  BY <1>5, <1>6, <1>7, <1>14, <1>16 DEF IInv, TypeInv
<1>18. TimeInv'
  <2>1. /\ Sorted(buffers') /\ Sorted(pending')
        /\ \A w \in Writers : \A i \in DOMAIN open[w]' : open[w][i]'.ts = now'
        /\ \A r \in RowsIn(pending') : r.ts <= now'
        /\ \A r \in applied' : \A q \in left' : r.ts <= RowAt(q)'.ts
        /\ \A r \in applied' \cup {RowAt(q)' : q \in left'} :
             r.ts <= now' /\ \A s \in RowsIn(pending') : r.ts <= s.ts
    BY <1>1, <1>6, <1>10, TimesKept
  <2>2. \A r \in applied' : r.ts <= row.ts
    BY <1>1, <1>6, <1>7 DEF IInv, TimeInv
  <2>3. \A r \in applied' : \A k \in kids' : r.ts <= RowAt(k.at)'.ts
    BY <1>15, <1>16, <2>2
  <2>4. \A k \in kids' : RowAt(k.at)' \in applied'
    BY <1>15, <1>16
  <2>5. \A i \in DOMAIN displaced : \E r \in applied' : displaced[i].ts <= r.ts
    BY <1>6 DEF IInv, TimeInv
  <2>6. \A i, k \in DOMAIN displaced : i <= k => displaced[i].ts <= displaced[k].ts
    BY DEF IInv, TimeInv
  <2> QED
    BY <1>6, <2>1, <2>3, <2>4, <2>5, <2>6 DEF TimeInv, Sorted, RowsIn, Places
<1>19. RecordInv'
  <2>1. ASSUME NEW i \in DOMAIN displaced
        PROVE  lookup[displaced[i].child] = i /\ f[displaced[i].child] # displaced[i].child
    <3>1. displaced[i].child \in Ids
      <4>1. displaced[i] \in Records
        BY ElementOf DEF IInv, TypeInv
      <4> QED
        BY <4>1 DEF Records
    <3> QED
      BY <1>13, <3>1 DEF IInv, RecordInv
  <2>2. ASSUME NEW k \in kids'
        PROVE  /\ k.child \in Ids /\ f[k.child] # k.child
               /\ DisplacedAt(applied', k.child, RowAt(k.at).ts)
               /\ \A i \in DOMAIN displaced : displaced[i].child # k.child
               /\ \A j \in kids' : j.child = k.child => j = k
    <3>1. \A j \in kids : j.child \in Ids /\ Finds(parents)[j.child] # j.child
      BY DEF IInv, RecordInv
    <3>2. \A i \in DOMAIN displaced : Finds(parents)[displaced[i].child] # displaced[i].child
      BY DEF IInv, RecordInv
    <3>3. CASE k \in kids
      <4>1. /\ k.child \in Ids /\ \A i \in DOMAIN displaced : displaced[i].child # k.child
            /\ \A j \in kids : j.child = k.child => j = k
        BY <3>3 DEF IInv, RecordInv
      <4>2. f[k.child] # k.child
        BY <1>13, <3>1, <3>3
      <4>3. ASSUME NEW j \in kids', j.child = k.child PROVE j = k
        BY <1>13, <1>16, <3>1, <3>3, <4>1, <4>3
      <4> QED
        BY <1>13, <1>16, <3>3, <4>1, <4>2, <4>3
    <3>4. CASE a # b /\ k = kid
      <4>1. k.child = hi /\ k.child \in Ids /\ f[k.child] # k.child
        BY <1>13, <3>4
      <4>2. \A i \in DOMAIN displaced : displaced[i].child # k.child
        BY <1>13, <3>2, <3>4
      <4>3. ASSUME NEW j \in kids', j.child = k.child PROVE j = k
        BY <1>13, <1>16, <3>1, <3>4, <4>1, <4>3
      <4> QED
        BY <1>13, <1>16, <3>4, <4>1, <4>2, <4>3
    <3> QED
      BY <1>16, <3>3, <3>4
  <2>3. ASSUME NEW v \in Ids, f[v] # v
        PROVE  (\E i \in DOMAIN displaced : displaced[i].child = v) \/ (\E k \in kids' : k.child = v)
    <3>1. CASE Finds(parents)[v] # v
      BY <1>8, <3>1 DEF IInv, RecordInv
    <3>2. CASE Finds(parents)[v] = v
      <4>1. a # b /\ v = hi
        BY <1>13, <2>3, <3>2
      <4>2. kid \in kids' /\ kid.child = v
        BY <1>8, <4>1
      <4> QED
        BY <4>2
    <3> QED
      BY <3>1, <3>2
  <2> QED
    BY <1>6, <1>13, <1>14, <1>15, <2>1, <2>2, <2>3 DEF RecordInv
<1>20. ReaderInv'
  BY <1>6 DEF IInv, ReaderInv
<1> QED
  BY <1>17, <1>18, <1>19, <1>20 DEF IInv

\* A child of a parallel group is published.
LEMMA PublishKidIInv ==
  ASSUME TableAssumption, IInv, NEW k \in kids, PublishKid(k)
  PROVE  IInv'
<1>1. PICK ts : ts = RowAt(k.at).ts
  OBVIOUS
<1>2. PICK hi : hi = k.child
  OBVIOUS
<1>3. /\ buffers \in Seq(Seq(Rows)) /\ applied \subseteq Rows /\ displaced \in Seq(Records)
      /\ lookup \in [Ids -> Nat \cup {None}] /\ left \subseteq Places(buffers)
      /\ k.at \in Places(buffers)
  BY DEF IInv, TypeInv
<1> DEFINE n == Len(displaced) + 1
<1>4. /\ kids' = kids \ {k} /\ displaced' = Append(displaced, [child |-> hi, ts |-> ts])
      /\ lookup' = [lookup EXCEPT ![hi] = n]
      /\ UNCHANGED <<parents, open, pending, now, buffers, left, merging, clears, staged, reader,
                     applied>>
  BY <1>1, <1>2 DEF PublishKid, PublishDisplaced
<1>5. hi \in Ids /\ ts \in 0..MaxTime
  <2>1. RowAt(k.at) \in Rows
    BY <1>3, PlaceIs DEF RowAt
  <2> QED
    BY <1>1, <1>2, <2>1 DEF IInv, RecordInv, Rows
<1>6. /\ displaced' \in Seq(Records) /\ n \in Nat
      /\ DOMAIN displaced' = DOMAIN displaced \cup {n} /\ n \notin DOMAIN displaced
      /\ \A i \in DOMAIN displaced : displaced'[i] = displaced[i] /\ i < n
      /\ displaced'[n] = [child |-> hi, ts |-> ts] /\ Len(displaced') = n
  <2>1. [child |-> hi, ts |-> ts] \in Records
    BY <1>5 DEF Records
  <2> QED
    BY <1>3, <1>4, <2>1
<1>7. lookup' \in [Ids -> Nat \cup {None}] /\ lookup'[hi] = n
      /\ \A v \in Ids : v # hi => lookup'[v] = lookup[v]
  BY <1>3, <1>4, <1>5, <1>6
<1>8. \A q : RowAt(q)' = RowAt(q)
  BY <1>4 DEF RowAt, At
<1>9. TypeInv'
  BY <1>4, <1>6, <1>7 DEF IInv, TypeInv
<1>10. TimeInv'
  <2>1. \A i \in DOMAIN displaced : displaced[i].ts <= ts
    <3> SUFFICES ASSUME NEW i \in DOMAIN displaced PROVE displaced[i].ts <= ts
      OBVIOUS
    <3>1. PICK r \in applied : displaced[i].ts <= r.ts /\ r.ts <= ts
      BY <1>1 DEF IInv, TimeInv
    <3>2. displaced[i] \in Records /\ r \in Rows /\ MaxTime \in Nat
      BY <1>3, ElementOf DEF TableAssumption
    <3> QED
      BY <1>5, <3>1, <3>2 DEF Records, Rows
  <2>2. RowAt(k.at) \in applied
    BY DEF IInv, TimeInv
  <2>3. \A i \in DOMAIN displaced' : \E r \in applied' : displaced'[i].ts <= r.ts
    <3>1. RowAt(k.at) \in applied' /\ ts <= RowAt(k.at).ts
      BY <1>1, <1>4, <1>5, <2>2 DEF TableAssumption
    <3>2. \A i \in DOMAIN displaced : \E r \in applied' : displaced[i].ts <= r.ts
      BY <1>4 DEF IInv, TimeInv
    <3> QED
      BY <1>6, <3>1, <3>2
  <2>4. \A i, j \in DOMAIN displaced' : i <= j => displaced'[i].ts <= displaced'[j].ts
    BY <1>5, <1>6, <2>1 DEF IInv, TimeInv, TableAssumption
  <2>5. \A r \in applied' : \A j \in kids' : r.ts <= RowAt(j.at)'.ts
    BY <1>4, <1>8 DEF IInv, TimeInv
  <2>6. \A j \in kids' : RowAt(j.at)' \in applied'
    BY <1>4, <1>8 DEF IInv, TimeInv
  <2> QED
    BY <1>4, <1>8, <2>3, <2>4, <2>5, <2>6 DEF IInv, TimeInv, Sorted, RowsIn, Places
<1>11. RecordInv'
  <2>1. /\ hi \in Ids /\ Finds(parents)[hi] # hi /\ DisplacedAt(applied, hi, ts)
        /\ \A i \in DOMAIN displaced : displaced[i].child # hi
        /\ \A j \in kids : j.child = hi => j = k
    BY <1>1, <1>2 DEF IInv, RecordInv
  <2>2. ASSUME NEW i \in DOMAIN displaced'
        PROVE  /\ lookup'[displaced'[i].child] = i
               /\ Finds(parents)[displaced'[i].child] # displaced'[i].child
               /\ DisplacedAt(applied, displaced'[i].child, displaced'[i].ts)
    <3>1. CASE i = n
      BY <1>6, <1>7, <2>1, <3>1
    <3>2. CASE i \in DOMAIN displaced
      <4>1. displaced[i].child \in Ids
        <5>1. displaced[i] \in Records
          BY <1>3, <3>2, ElementOf
        <5> QED
          BY <5>1 DEF Records
      <4> QED
        BY <1>6, <1>7, <2>1, <3>2, <4>1 DEF IInv, RecordInv
    <3> QED
      BY <1>6, <3>1, <3>2
  <2>3. ASSUME NEW j \in kids'
        PROVE  /\ j.child \in Ids /\ Finds(parents)[j.child] # j.child
               /\ DisplacedAt(applied, j.child, RowAt(j.at).ts)
               /\ \A i \in DOMAIN displaced' : displaced'[i].child # j.child
               /\ \A m \in kids' : m.child = j.child => m = j
    <3>1. j \in kids /\ j # k
      BY <1>4
    <3>2. j.child # hi
      BY <2>1, <3>1
    <3> QED
      BY <1>4, <1>6, <3>1, <3>2 DEF IInv, RecordInv
  <2>4. ASSUME NEW v \in Ids, Finds(parents)[v] # v
        PROVE  (\E i \in DOMAIN displaced' : displaced'[i].child = v) \/ (\E j \in kids' : j.child = v)
    <3>1. CASE v = hi
      BY <1>6, <3>1
    <3>2. CASE v # hi
      <4>1. (\E i \in DOMAIN displaced : displaced[i].child = v) \/ (\E j \in kids : j.child = v)
        BY <2>4 DEF IInv, RecordInv
      <4> QED
        BY <1>2, <1>4, <1>6, <3>2, <4>1
    <3> QED
      BY <3>1, <3>2
  <2>5. IsCanon(Finds(parents), applied)
    BY DEF IInv, RecordInv
  <2> QED
    BY <1>4, <1>8, <2>2, <2>3, <2>4, <2>5 DEF RecordInv
<1>12. ReaderInv'
  BY <1>3, <1>4, <1>6 DEF IInv, ReaderInv, TypeInv
<1> QED
  BY <1>9, <1>10, <1>11, <1>12 DEF IInv

-----------------------------------------------------------------------------
(* The other steps *)

\* The empty queue has no places.
LEMMA NoPlaces == Places(<<>>) = {}
BY DEF Places

\* At first each id is canonical and nothing is staged.
LEMMA InitIInv == ASSUME TableAssumption, Init PROVE IInv
<1>1. IsLinks(parents) /\ \A v \in Ids : parents[v] = v
  BY DEF Init, IsLinks, Ids, TableAssumption
<1>2. IsCanon(Finds(parents), {}) /\ \A v \in Ids : Finds(parents)[v] = v
  <2>1. \A v \in Ids : Finds(parents)[v] = v
    BY <1>1, FindIsRoot
  <2>2. Finds(parents) \in [Ids -> Ids] /\ \A v \in Ids : v <= v
    BY <2>1 DEF Finds, Ids, TableAssumption
  <2> QED
    BY <2>1, <2>2 DEF IsCanon
<1>3. TypeInv
  <2>1. /\ displaced \in Seq(Records) /\ pending \in Seq(Seq(Rows)) /\ buffers \in Seq(Seq(Rows))
        /\ open \in [Writers -> Seq(Rows)]
    BY DEF Init
  <2>2. lookup \in [Ids -> Nat \cup {None}]
    BY DEF Init
  <2>3. left = {} /\ kids = {} /\ merging = FALSE /\ applied = {} /\ clears \in Nat
    BY DEF Init
  <2>4. now \in 0..MaxTime /\ reader \in [minor : Nat, known : SUBSET Ids]
    BY DEF Init, TableAssumption
  <2> QED
    BY <1>1, <2>1, <2>2, <2>3, <2>4 DEF TypeInv
<1>4. TimeInv
  BY NoPlaces DEF Init, TimeInv, Sorted, RowsIn
<1>5. RecordInv
  BY <1>2 DEF Init, RecordInv
<1>6. ReaderInv
  BY DEF Init, ReaderInv
<1> QED
  BY <1>3, <1>4, <1>5, <1>6 DEF IInv

\* Staging adds a row of the present time to a buffer.
LEMMA StageIInv == ASSUME TableAssumption, IInv, NEW w \in Writers, Stage(w) PROVE IInv'
<1>1. PICK row \in Rows : row.ts = now /\ open' = [open EXCEPT ![w] = Append(@, row)]
  <2>1. PICK l \in Ids, r \in Ids : open' = [open EXCEPT ![w] = Append(@, Row(l, r, now))]
    BY DEF Stage
  <2>2. Row(l, r, now) \in Rows /\ Row(l, r, now).ts = now
    BY DEF Row, Rows, IInv, TypeInv
  <2> QED
    BY <2>1, <2>2
<1>2. UNCHANGED <<table, pending, now, merge, clears, reader, applied>>
  BY DEF Stage
<1>3. open \in [Writers -> Seq(Rows)] /\ open[w] \in Seq(Rows)
  BY DEF IInv, TypeInv
<1>4. PICK s : s = Append(open[w], row)
  OBVIOUS
<1>5. s \in Seq(Rows) /\ \A i \in DOMAIN s : s[i] = row \/ (i \in DOMAIN open[w] /\ s[i] = open[w][i])
  BY <1>3, <1>4
<1>6. open' = [open EXCEPT ![w] = s]
  BY <1>1, <1>3, <1>4
<1>7. open' \in [Writers -> Seq(Rows)] /\ open'[w] = s /\ \A x \in Writers : x # w => open'[x] = open[x]
  BY <1>3, <1>5, <1>6
<1>8. TypeInv'
  BY <1>2, <1>7 DEF IInv, TypeInv, table, merge
<1>9. \A x \in Writers : \A i \in DOMAIN open'[x] : open'[x][i].ts = now
  <2> SUFFICES ASSUME NEW x \in Writers, NEW i \in DOMAIN open'[x] PROVE open'[x][i].ts = now
    OBVIOUS
  <2>1. CASE x = w
    BY <1>1, <1>5, <1>7, <2>1 DEF IInv, TimeInv
  <2>2. CASE x # w
    BY <1>7, <2>2 DEF IInv, TimeInv
  <2> QED
    BY <2>1, <2>2
<1>10. TimeInv'
  BY <1>2, <1>9 DEF IInv, TimeInv, table, merge, Sorted, RowsIn, Places, RowAt, At
<1>11. RecordInv' /\ ReaderInv'
  BY <1>2 DEF IInv, RecordInv, ReaderInv, table, merge, RowAt, At
<1> QED
  BY <1>8, <1>10, <1>11 DEF IInv

\* A buffer joins the queue, behind rows no later than its own.
LEMMA DropBufferIInv == ASSUME TableAssumption, IInv, NEW w \in Writers, DropBuffer(w) PROVE IInv'
<1>1. /\ pending' = Append(pending, open[w]) /\ open' = [open EXCEPT ![w] = <<>>]
      /\ UNCHANGED <<table, now, merge, clears, staged, reader, applied>>
  BY DEF DropBuffer
<1>2. /\ open \in [Writers -> Seq(Rows)] /\ open[w] \in Seq(Rows) /\ pending \in Seq(Seq(Rows))
      /\ now \in Nat
  BY DEF IInv, TypeInv, TableAssumption
<1>3. /\ Sorted(pending) /\ \A i \in DOMAIN open[w] : open[w][i].ts = now
      /\ \A r \in RowsIn(pending) : r.ts <= now
  BY DEF IInv, TimeInv
<1>4. /\ pending' \in Seq(Seq(Rows)) /\ Sorted(pending')
      /\ \A r \in RowsIn(pending') : r \in RowsIn(pending) \/ r.ts = now
  BY <1>1, <1>2, <1>3, OneBufferMore
<1>5. /\ open' \in [Writers -> Seq(Rows)] /\ open'[w] = <<>>
      /\ \A x \in Writers : x # w => open'[x] = open[x]
  BY <1>1, <1>2
<1>6. TypeInv'
  BY <1>1, <1>4, <1>5 DEF IInv, TypeInv, table, merge
<1>7. \A x \in Writers : \A i \in DOMAIN open'[x] : open'[x][i].ts = now
  <2> SUFFICES ASSUME NEW x \in Writers, NEW i \in DOMAIN open'[x] PROVE open'[x][i].ts = now
    OBVIOUS
  <2> QED
    BY <1>5 DEF IInv, TimeInv
<1>8. \A r \in RowsIn(pending') : r.ts <= now
  BY <1>2, <1>3, <1>4
<1>9. \A a \in applied \cup {RowAt(p) : p \in left} :
        a.ts <= now /\ \A r \in RowsIn(pending') : a.ts <= r.ts
  BY <1>4 DEF IInv, TimeInv
<1>10. TimeInv'
  <2>1. \A p : RowAt(p)' = RowAt(p)
    BY <1>1 DEF merge, RowAt, At
  <2> QED
    BY <1>1, <1>4, <1>7, <1>8, <1>9, <2>1 DEF IInv, TimeInv, table, merge, Sorted, Places, At
<1>11. RecordInv' /\ ReaderInv'
  BY <1>1 DEF IInv, RecordInv, ReaderInv, table, merge, RowAt, At
<1> QED
  BY <1>6, <1>10, <1>11 DEF IInv

\* Time goes on when no buffer is open.
LEMMA TickIInv == ASSUME TableAssumption, IInv, Tick PROVE IInv'
<1>1. /\ now' = now + 1 /\ now < MaxTime /\ \A w \in Writers : open[w] = <<>>
      /\ UNCHANGED <<table, open, pending, merge, clears, staged, reader, applied>>
  BY DEF Tick
<1>2. now \in 0..MaxTime /\ MaxTime \in Nat /\ now' \in 0..MaxTime
  BY <1>1 DEF IInv, TypeInv, TableAssumption
<1>3. TypeInv'
  BY <1>1, <1>2 DEF IInv, TypeInv, table, merge
<1>4. \A p : RowAt(p)' = RowAt(p)
  BY <1>1 DEF merge, RowAt, At
<1>5. /\ pending \in Seq(Seq(Rows)) /\ buffers \in Seq(Seq(Rows)) /\ applied \subseteq Rows
      /\ left \subseteq Places(buffers)
  BY DEF IInv, TypeInv
<1>6. \A r \in RowsIn(pending) : r.ts \in Nat
  <2>1. \A r \in RowsIn(pending) : r \in Rows
    BY <1>5, PlaceIs DEF RowsIn
  <2> QED
    BY <1>2, <2>1 DEF Rows
<1>7. \A a \in applied \cup {RowAt(p) : p \in left} : a.ts \in Nat
  <2>1. \A a \in applied \cup {RowAt(p) : p \in left} : a \in Rows
    BY <1>5, PlaceIs DEF RowAt
  <2> QED
    BY <1>2, <2>1 DEF Rows
<1>8. /\ \A r \in RowsIn(pending) : r.ts <= now'
      /\ \A a \in applied \cup {RowAt(p) : p \in left} : a.ts <= now'
  <2>1. ASSUME NEW r \in RowsIn(pending) PROVE r.ts <= now'
    <3>1. r.ts \in Nat /\ r.ts <= now
      BY <1>6 DEF IInv, TimeInv
    <3> QED
      BY <1>1, <1>2, <3>1
  <2>2. ASSUME NEW a \in applied \cup {RowAt(p) : p \in left} PROVE a.ts <= now'
    <3>1. a.ts \in Nat /\ a.ts <= now
      BY <1>7 DEF IInv, TimeInv
    <3> QED
      BY <1>1, <1>2, <3>1
  <2> QED
    BY <2>1, <2>2
<1>9. TimeInv'
  BY <1>1, <1>4, <1>8 DEF IInv, TimeInv, table, merge, Sorted, RowsIn, Places, At
<1>10. RecordInv' /\ ReaderInv'
  BY <1>1 DEF IInv, RecordInv, ReaderInv, table, merge, RowAt, At
<1> QED
  BY <1>3, <1>9, <1>10 DEF IInv

\* A merge takes the queue.
LEMMA MergeBeginIInv == ASSUME TableAssumption, IInv, MergeBegin PROVE IInv'
<1>1. /\ merging' = TRUE /\ buffers' = pending /\ left' = Places(pending) /\ pending' = <<>>
      /\ UNCHANGED <<table, open, now, kids, clears, staged, reader, applied>>
  BY DEF MergeBegin
<1>2. kids = {}
  BY DEF MergeBegin, IInv, TypeInv
<1>3. TypeInv'
  <2>1. IsLinks(parents)' /\ pending' \in Seq(Seq(Rows)) /\ buffers' \in Seq(Seq(Rows))
    BY <1>1 DEF IInv, TypeInv, table, IsLinks
  <2>2. left' \subseteq Places(buffers)' /\ merging' \in BOOLEAN /\ merging' /\ kids' = {}
    BY <1>1, <1>2 DEF Places
  <2> QED
    BY <1>1, <2>1, <2>2 DEF IInv, TypeInv, table
<1>4. \A p \in Places(pending) : RowAt(p)' \in RowsIn(pending)
  BY <1>1 DEF RowAt, RowsIn
<1>5. Sorted(buffers') /\ Sorted(pending') /\ RowsIn(pending') = {}
  BY <1>1, NoPlaces DEF IInv, TimeInv, Sorted, RowsIn
<1>6. TimeInv'
  <2>1. \A a \in applied' : \A p \in left' : a.ts <= RowAt(p)'.ts
    BY <1>1, <1>4 DEF IInv, TimeInv
  <2>2. \A a \in applied' \cup {RowAt(p)' : p \in left'} : a.ts <= now'
    BY <1>1, <1>4 DEF IInv, TimeInv
  <2> QED
    BY <1>1, <1>2, <1>5, <2>1, <2>2 DEF IInv, TimeInv, table
<1>7. RecordInv' /\ ReaderInv'
  BY <1>1, <1>2 DEF IInv, RecordInv, ReaderInv, table
<1> QED
  BY <1>3, <1>6, <1>7 DEF IInv

\* A merge ends when all rows have been applied and published.
LEMMA MergeEndIInv == ASSUME TableAssumption, IInv, MergeEnd PROVE IInv'
<1>1. /\ left = {} /\ kids = {} /\ merging' = FALSE /\ buffers' = <<>>
      /\ UNCHANGED <<table, open, pending, now, left, kids, clears, staged, reader, applied>>
  BY DEF MergeEnd
<1>2. TypeInv'
  <2>1. IsLinks(parents)' /\ pending' \in Seq(Seq(Rows)) /\ buffers' \in Seq(Seq(Rows))
    BY <1>1 DEF IInv, TypeInv, table, IsLinks
  <2>2. left' = {} /\ kids' = {} /\ merging' = FALSE
    BY <1>1
  <2> QED
    BY <1>1, <2>1, <2>2 DEF IInv, TypeInv, table
<1>3. TimeInv'
  <2>1. Sorted(buffers')
    BY <1>1, NoPlaces DEF Sorted
  <2> QED
    BY <1>1, <2>1 DEF IInv, TimeInv, table, Sorted, RowsIn, Places, At
<1>4. RecordInv' /\ ReaderInv'
  BY <1>1 DEF IInv, RecordInv, ReaderInv, table
<1> QED
  BY <1>2, <1>3, <1>4 DEF IInv

\* A clear makes all ids canonical again.
LEMMA ClearIInv == ASSUME TableAssumption, IInv, Clear PROVE IInv'
<1>1. /\ ~merging /\ parents' = [v \in Ids |-> v] /\ displaced' = <<>>
      /\ clears' = clears + 1 /\ applied' = {}
      /\ UNCHANGED <<lookup, open, pending, now, merge, staged, reader>>
  BY DEF Clear
<1>2. left = {} /\ kids = {} /\ clears' \in Nat /\ clears' # 0
  BY <1>1 DEF IInv, TypeInv
<1>3. IsLinks(parents') /\ \A v \in Ids : parents'[v] = v
  BY <1>1 DEF IsLinks, Ids, TableAssumption
<1>4. IsCanon(Finds(parents'), {}) /\ \A v \in Ids : Finds(parents')[v] = v
  <2>1. \A v \in Ids : Finds(parents')[v] = v
    BY <1>3, FindIsRoot
  <2>2. Finds(parents') \in [Ids -> Ids] /\ \A v \in Ids : v <= v
    BY <2>1 DEF Finds, Ids, TableAssumption
  <2> QED
    BY <2>1, <2>2 DEF IsCanon
<1>5. TypeInv'
  BY <1>1, <1>2, <1>3 DEF IInv, TypeInv, merge
<1>6. TimeInv'
  BY <1>1, <1>2 DEF IInv, TimeInv, merge, Sorted, RowsIn, Places, At
<1>7. RecordInv' /\ ReaderInv'
  BY <1>1, <1>2, <1>4 DEF RecordInv, ReaderInv, merge
<1> QED
  BY <1>5, <1>6, <1>7 DEF IInv

\* A reader adds the rows since its version, and takes the version they are of.
LEMMA ReadIInv == ASSUME TableAssumption, IInv, Read PROVE IInv'
<1>1. /\ reader' = [minor |-> Len(displaced),
                    known |-> reader.known \cup UpdatesSince(reader.minor)]
      /\ UNCHANGED <<table, open, pending, now, merge, clears, staged, applied>>
  BY DEF Read, Version
<1>2. displaced \in Seq(Records) /\ reader.known \subseteq Ids /\ reader.minor \in Nat
  BY DEF IInv, TypeInv
<1> DEFINE s == SubSeq(displaced, reader.minor + 1, Len(displaced))
<1>3. s \in Seq(Records)
  BY <1>2
<1>4. UpdatesSince(reader.minor) = {s[i].child : i \in DOMAIN s}
  BY DEF UpdatesSince, Children, Range
<1>5. \A i \in DOMAIN s : s[i] \in Records
  BY <1>3, ElementOf
<1>6. UpdatesSince(reader.minor) \subseteq Ids
  BY <1>4, <1>5 DEF Records
<1>7. TypeInv'
  BY <1>1, <1>2, <1>6 DEF IInv, TypeInv, table, merge
<1>8. ASSUME clears = 0, NEW i \in 1..Len(displaced)
      PROVE  displaced[i].child \in reader'.known
  <2>1. reader.minor <= Len(displaced)
    BY <1>8 DEF IInv, ReaderInv
  <2>2. CASE i <= reader.minor
    BY <1>1, <1>2, <1>8, <2>2 DEF IInv, ReaderInv
  <2>3. CASE ~(i <= reader.minor)
    <3>1. i - reader.minor \in DOMAIN s /\ s[i - reader.minor] = displaced[i]
      BY <1>2, <2>1, <2>3
    <3> HIDE DEF s
    <3> QED
      BY <1>1, <1>4, <3>1
  <2> QED
    BY <2>2, <2>3
<1>9. ReaderInv'
  <2>1. reader'.minor = Len(displaced)
    BY <1>1
  <2> QED
    BY <1>1, <1>2, <1>8, <2>1 DEF ReaderInv, table
<1>10. TimeInv' /\ RecordInv'
  BY <1>1 DEF IInv, TimeInv, RecordInv, table, merge, Sorted, RowsIn, Places, RowAt, At
<1> QED
  BY <1>7, <1>9, <1>10 DEF IInv

\* Every step keeps the invariant.
LEMMA NextIInv == ASSUME TableAssumption, IInv, [Next]_vars PROVE IInv'
<1>1. CASE UNCHANGED vars
  BY <1>1 DEF IInv, TypeInv, TimeInv, RecordInv, ReaderInv, vars, table, merge, Sorted, RowsIn,
              Places, RowAt, At
<1>2. CASE \E w \in Writers : Stage(w) \/ DropBuffer(w)
  BY <1>2, StageIInv, DropBufferIInv
<1>3. CASE Tick \/ MergeBegin \/ MergeEnd \/ Clear \/ Read
  BY <1>3, TickIInv, MergeBeginIInv, MergeEndIInv, ClearIInv, ReadIInv
<1>4. CASE \E p \in left : InsertRow(p) \/ UnionRow(p)
  BY <1>4, InsertRowIInv, UnionRowIInv
<1>5. CASE \E k \in kids : PublishKid(k)
  BY <1>5, PublishKidIInv
<1> QED
  BY <1>1, <1>2, <1>3, <1>4, <1>5 DEF Next

-----------------------------------------------------------------------------
(* What the invariant says *)

\* A set of row ids that has, with each, those before it, is a range from the first.
LEMMA FirstRows ==
  ASSUME NEW n \in Nat, NEW S \in SUBSET (1..n), \A i \in S : \A j \in 1..i : j \in S
  PROVE  S = 1..Cardinality(S) /\ Cardinality(S) \in 0..n
<1> DEFINE Out == {i \in 1..(n + 1) : i \notin S}
<1>1. Out \in SUBSET Nat /\ n + 1 \in Out
  OBVIOUS
<1>2. PICK k : k \in Out /\ \A y \in Out : k <= y
  BY <1>1, MinIsLeast
<1>3. k \in 1..(n + 1) /\ k \notin S
  BY <1>2
<1>4. S = 1..(k - 1)
  <2>1. ASSUME NEW i \in S PROVE i \in 1..(k - 1)
    <3>1. i \in 1..n /\ ~(k <= i)
      BY <1>3, <2>1
    <3> QED
      BY <1>3, <3>1
  <2>2. ASSUME NEW i \in 1..(k - 1) PROVE i \in S
    <3>1. i \in 1..(n + 1) /\ ~(k <= i)
      BY <1>3
    <3> QED
      BY <1>2, <3>1
  <2> QED
    BY <2>1, <2>2
<1>5. Cardinality(1..(k - 1)) = k - 1
  BY <1>3, FS_Interval
<1> QED
  BY <1>3, <1>4, <1>5

\* The ranges that fast_subset cuts out are the rows that a constraint accepts.
LEMMA SubsetsExact == ASSUME TableAssumption, IInv PROVE FastSubsetsExact
<1>1. PICK n : n = Len(displaced)
  OBVIOUS
<1>2. displaced \in Seq(Records) /\ n \in Nat /\ DOMAIN displaced = 1..n
  BY <1>1 DEF IInv, TypeInv
<1>3. \A i \in 1..n : displaced[i].ts \in Nat
  <2>1. \A i \in 1..n : displaced[i] \in Records
    BY <1>2, ElementOf
  <2> QED
    BY <2>1 DEF Records, TableAssumption
<1>4. \A i, j \in 1..n : i <= j => displaced[i].ts <= displaced[j].ts
  BY <1>2 DEF IInv, TimeInv
<1> SUFFICES ASSUME NEW val \in 0..MaxTime
             PROVE  /\ FastLt(val) = {i \in DOMAIN displaced : displaced[i].ts < val}
                    /\ FastLe(val) = {i \in DOMAIN displaced : displaced[i].ts <= val}
                    /\ FastEq(val) = {i \in DOMAIN displaced : displaced[i].ts = val}
                    /\ FastGe(val) = {i \in DOMAIN displaced : displaced[i].ts >= val}
                    /\ FastGt(val) = {i \in DOMAIN displaced : displaced[i].ts > val}
  BY DEF FastSubsetsExact
<1>5. val \in Nat
  BY DEF TableAssumption
<1>6. PICK lt : lt = {i \in 1..n : displaced[i].ts < val}
  OBVIOUS
<1>7. PICK le : le = {i \in 1..n : displaced[i].ts <= val}
  OBVIOUS
<1>8. PICK eq : eq = {i \in 1..n : displaced[i].ts = val}
  OBVIOUS
<1>9. PICK a : a = Cardinality(lt)
  OBVIOUS
<1>10. PICK b : b = Cardinality(le)
  OBVIOUS
<1>11. lt = 1..a /\ a \in 0..n
  <2>1. ASSUME NEW i \in lt, NEW j \in 1..i PROVE j \in lt
    <3>1. i \in 1..n /\ displaced[i].ts < val /\ j \in 1..n /\ j <= i
      BY <1>2, <1>6
    <3>2. displaced[j].ts <= displaced[i].ts
      BY <1>4, <3>1
    <3> QED
      BY <1>3, <1>5, <1>6, <3>1, <3>2
  <2> QED
    BY <1>2, <1>6, <1>9, <2>1, FirstRows
<1>12. le = 1..b /\ b \in 0..n
  <2>1. ASSUME NEW i \in le, NEW j \in 1..i PROVE j \in le
    <3>1. i \in 1..n /\ displaced[i].ts <= val /\ j \in 1..n /\ j <= i
      BY <1>2, <1>7
    <3>2. displaced[j].ts <= displaced[i].ts
      BY <1>4, <3>1
    <3> QED
      BY <1>3, <1>5, <1>7, <3>1, <3>2
  <2> QED
    BY <1>2, <1>7, <1>10, <2>1, FirstRows
<1>13. \A i \in 1..n : (displaced[i].ts < val <=> i <= a) /\ (displaced[i].ts <= val <=> i <= b)
  BY <1>6, <1>7, <1>11, <1>12
<1>14. a <= b
  <2>1. lt \subseteq le
    BY <1>3, <1>5, <1>6, <1>7
  <2>2. CASE a = 0
    BY <1>12, <2>2
  <2>3. CASE a # 0
    BY <1>11, <1>12, <2>1, <2>3
  <2> QED
    BY <2>2, <2>3
<1>15. eq = (a + 1)..b
  <2>1. \A i \in 1..n : displaced[i].ts = val <=> a < i /\ i <= b
    BY <1>3, <1>5, <1>11, <1>12, <1>13
  <2>2. \A i : i \in (a + 1)..b <=> i \in 1..n /\ a < i /\ i <= b
    BY <1>2, <1>11, <1>12
  <2> QED
    BY <1>8, <2>1, <2>2
<1>16. Cardinality(eq) = b - a
  <2>1. a \in Nat /\ b \in Nat /\ a + 1 \in Int /\ b \in Int
    BY <1>2, <1>11, <1>12
  <2>2. Cardinality((a + 1)..b) = IF a + 1 > b THEN 0 ELSE b - (a + 1) + 1
    BY <2>1, FS_Interval
  <2> QED
    BY <1>14, <1>15, <2>1, <2>2
<1>17. FirstAt(val) = 1 + a /\ FirstAfter(val) = 1 + b
  <2>1. FirstAt(val) = 1 + a
    BY <1>2, <1>6, <1>9 DEF FirstAt
  <2>2. FirstAfter(val) = 1 + a + Cardinality(eq)
    BY <1>2, <1>8, <2>1 DEF FirstAfter
  <2> QED
    BY <1>11, <1>12, <1>16, <2>1, <2>2
<1>18. FastLt(val) = 1..a /\ FastLe(val) = 1..b /\ FastEq(val) = (a + 1)..b
  BY <1>11, <1>12, <1>17 DEF FastLt, FastLe, FastEq
<1>19. FastGe(val) = (a + 1)..n /\ FastGt(val) = (b + 1)..n
  BY <1>1, <1>11, <1>12, <1>17 DEF FastGe, FastGt
<1>20. {i \in 1..n : displaced[i].ts >= val} = (a + 1)..n
  <2>1. \A i \in 1..n : displaced[i].ts >= val <=> a + 1 <= i
    BY <1>3, <1>5, <1>11, <1>13
  <2> QED
    BY <1>11, <2>1
<1>21. {i \in 1..n : displaced[i].ts > val} = (b + 1)..n
  <2>1. \A i \in 1..n : displaced[i].ts > val <=> b + 1 <= i
    BY <1>3, <1>5, <1>12, <1>13
  <2> QED
    BY <1>12, <2>1
<1> QED
  BY <1>2, <1>6, <1>7, <1>8, <1>11, <1>12, <1>15, <1>18, <1>19, <1>20, <1>21

\* Between merges no child waits to be published, and each id has its row.
LEMMA RecordsExact == ASSUME TableAssumption, IInv PROVE RecordedWhenDisplaced
<1> SUFFICES ASSUME ~merging PROVE RecordedWhenDisplaced
  BY DEF RecordedWhenDisplaced
<1>1. kids = {} /\ displaced \in Seq(Records) /\ IsLinks(parents)
  BY DEF IInv, TypeInv
<1>2. \A v \in Ids : /\ FindNaive(parents, v) = Finds(parents)[v]
                     /\ Canonical(applied)[v] = Finds(parents)[v]
  BY <1>1, FindIsRoot, CanonIsOne DEF IInv, RecordInv
<1>3. \A i \in DOMAIN displaced : displaced[i].child \in Ids
  <2>1. \A i \in DOMAIN displaced : displaced[i] \in Records
    BY <1>1, ElementOf
  <2> QED
    BY <2>1 DEF Records
<1>4. Children(displaced) = {displaced[i].child : i \in DOMAIN displaced}
  BY DEF Children, Range
<1>5. \A i \in DOMAIN displaced : /\ lookup[displaced[i].child] = i
                                  /\ Finds(parents)[displaced[i].child] # displaced[i].child
  BY DEF IInv, RecordInv
<1>6. Children(displaced) = {v \in Ids : Canonical(applied)[v] # v}
  <2>1. \A v \in Ids : Finds(parents)[v] # v => \E i \in DOMAIN displaced : displaced[i].child = v
    BY <1>1 DEF IInv, RecordInv
  <2> QED
    BY <1>2, <1>3, <1>4, <1>5, <2>1
<1>7. Len(displaced) = Cardinality(Children(displaced))
  <2>1. PICK n : n = Len(displaced)
    OBVIOUS
  <2>2. n \in Nat /\ DOMAIN displaced = 1..n
    BY <1>1, <2>1
  <2>3. PICK f : f = [i \in 1..n |-> displaced[i].child]
    OBVIOUS
  <2>4. f \in Bijection(1..n, Children(displaced))
    BY <1>4, <1>5, <2>2, <2>3 DEF Bijection, Injection, IsInjective, Surjection
  <2>5. IsFiniteSet(1..n) /\ Cardinality(1..n) = n
    BY <2>2, FS_Interval
  <2>6. Cardinality(Children(displaced)) = Cardinality(1..n)
    <3>1. ExistsBijection(1..n, Children(displaced))
      BY <2>4 DEF ExistsBijection
    <3> QED
      BY <2>5, <3>1, FS_Bijection
  <2> QED
    BY <2>1, <2>5, <2>6
<1>8. \A i \in DOMAIN displaced :
        LET c == displaced[i].child
            ts == displaced[i].ts
        IN  /\ Canonical(UpTo(ts))[c] # c
            /\ ts > 0 => Canonical(UpTo(ts - 1))[c] = c
  BY DEF IInv, RecordInv, DisplacedAt, UpTo
<1> QED
  BY <1>2, <1>6, <1>7, <1>8 DEF RecordedWhenDisplaced

\* The table is exact, and a reader up to date.
LEMMA IInvExact == ASSUME TableAssumption, IInv PROVE DisplacedExact /\ ReaderUpToDate
<1>1. displaced \in Seq(Records)
  BY DEF IInv, TypeInv
<1>2. Children(displaced) = {displaced[i].child : i \in DOMAIN displaced}
  BY DEF Children, Range
<1>3. LookupFinds
  BY <1>2 DEF IInv, RecordInv, LookupFinds
<1>4. ReaderUpToDate
  <2> SUFFICES ASSUME clears = 0, reader.minor = Len(displaced)
               PROVE  Children(displaced) \subseteq reader.known
    BY DEF ReaderUpToDate, Version
  <2>1. DOMAIN displaced = 1..reader.minor
    BY <1>1
  <2> QED
    BY <1>2, <2>1 DEF IInv, ReaderInv
<1> QED
  BY <1>3, <1>4, SubsetsExact, RecordsExact DEF DisplacedExact

\* The table is right in every behaviour: TypeInv and the rest of the invariant hold.
THEOREM DisplacedTableInvariant == ASSUME TableAssumption PROVE Spec => []IInv
<1>1. Init => IInv
  BY InitIInv
<1>2. IInv /\ [Next]_vars => IInv'
  BY NextIInv
<1> QED
  BY <1>1, <1>2, PTL DEF Spec

\* publish_displaced: between merges each id that is not the least of its class has one row,
\* stamped when it ceased to be; fast_subset and get_row find it.
THEOREM DisplacedTableIsExact == ASSUME TableAssumption PROVE Spec => []DisplacedExact
<1>1. IInv => DisplacedExact
  BY IInvExact
<1> QED
  BY <1>1, DisplacedTableInvariant, PTL

\* SubsetTracker: a reader at the present version, before any clear, has seen every row.
THEOREM ReadersAreUpToDate == ASSUME TableAssumption PROVE Spec => []ReaderUpToDate
<1>1. IInv => ReaderUpToDate
  BY IInvExact
<1> QED
  BY <1>1, DisplacedTableInvariant, PTL
=============================================================================
