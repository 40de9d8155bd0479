--------------------------- MODULE ContainersProofs ---------------------------
(***************************************************************************)
(* Containers keep one id each and rows keep their meaning, for any number *)
(* of threads, ids, keys, unions and rows.                                 *)
(*                                                                         *)
(* Rep is what the union-find will be when the staged unions have been     *)
(* merged.  An id is alive if a container has it, or a container that was  *)
(* taken out and is to be put back; Rep leaves ids that are alive alone,   *)
(* and whatever mentions the id of a container leads to one that is alive. *)
(*                                                                         *)
(* Between rebuilds no container mentions a displaced id.  A scan by the   *)
(* index finds what the full scan finds, since the index covers every      *)
(* container and the ids before the cursor are in none.                    *)
(*                                                                         *)
(* A row that is not new means what it was matched as, unless something    *)
(* under it is about to be united, has been taken out, or was marked as    *)
(* dirty.  Putting containers back keeps this in any order, because what   *)
(* is left waiting remains marked; the closure around the dirty ids then   *)
(* reaches every row that it is about.                                     *)
(***************************************************************************)
EXTENDS Containers, FiniteSetTheorems, WellFoundedInduction, TLAPS

-----------------------------------------------------------------------------
(* The inductive invariant *)

\* Each id stands for itself or for a lesser one that stands for itself.
CanonOK(c) == c \in [Ids -> Ids] /\ \A v \in Ids : c[v] <= v /\ c[c[v]] = c[v]

Phases == {"rules", "merge", "containers", "reinsert", "tables", "merge tables"}
Places == {"idle", "find", "enter", "lost", "index", "set"}

TypeInv ==
  /\ CanonOK(canon)
  /\ cursor \subseteq Displaced
  /\ unions \subseteq Ids \X Ids
  /\ next \in 0..(MaxId + 1) /\ Cardinality(Elems) <= next
  /\ toId \in [DOMAIN toId -> Ids] /\ DOMAIN toId \subseteq SUBSET Ids
  /\ toContainer = [i \in DOMAIN toContainer |-> toContainer[i]]
  /\ valIndex \in [Ids -> SUBSET Ids]
  /\ rows \in [DOMAIN rows -> [val : Ids, new : BOOLEAN]] /\ DOMAIN rows \subseteq Ids
  /\ staged \subseteq [key : Ids, val : Ids]
  /\ pc \in [Threads -> Places]
  /\ mine \in [Threads -> [key : Ids, set : SUBSET Ids, id : Ids \cup {None}]]
  /\ phase \in Phases
  /\ queue \subseteq [set : SUBSET Ids, old : Ids, id : Ids]
  /\ summary \in [changed : BOOLEAN, dirty : SUBSET Ids, rows : BOOLEAN]

\* The union-find when the staged unions have been merged.
Rep == Join(canon, unions)

\* The ids of the containers taken out, and of all there are.
Out == {e.old : e \in {e \in queue : e.set # {}}}
Named == {toId[c] : c \in DOMAIN toId}
Alive == Named \cup Out

\* Containers and rows mention ids that a container has, or will have.
Known(v) == v \in Elems \/ Rep[v] \in Alive

IdsInv ==
  /\ \A x \in Alive : x \notin Elems /\ x < next /\ Rep[x] = x
  /\ \A v \in Ids : next <= v => Rep[v] = v
  /\ \A p \in unions : p[1] < next /\ p[2] < next
  /\ \A c \in DOMAIN toId : c # {} /\ \A v \in c : Known(v)
  /\ \A e \in queue : \A v \in e.set : Known(v)
  /\ \A t \in Threads : \A v \in mine[t].set : Known(v)
  /\ \A k \in DOMAIN rows : Rep[rows[k].val] \in Alive
  /\ \A r \in staged : Rep[r.val] \in Alive
  /\ \A t \in Threads : pc[t] = "set" => mine[t].id \in Named

MapsInv ==
  /\ \A c \in DOMAIN toId : toId[c] \in DOMAIN toContainer /\ toContainer[toId[c]] = c
  /\ IndexCovers
  /\ \A e \in queue :
       /\ e.id = e.old
       /\ e.set # {} => Canonical(e.set) = e.set /\ e.old \notin Named
       /\ \A d \in queue : d.set # {} /\ e.set # {} /\ d.old = e.old => d = e

ThreadsInv ==
  /\ \A t \in Threads :
       /\ phase # "rules" => pc[t] = "idle"
       /\ pc[t] # "idle" => mine[t].key \notin Displaced /\ mine[t].set \cap Displaced = {}
                            /\ mine[t].set # {}
       /\ pc[t] \in {"enter", "lost"} =>
            /\ mine[t].id \in Ids \ (Named \cup Elems) /\ mine[t].id < next
            /\ Rep[mine[t].id] = mine[t].id
            /\ \A u \in Threads : u # t /\ pc[u] \in {"enter", "lost"} => mine[u].id # mine[t].id
       /\ pc[t] = "enter" => mine[t].id \in DOMAIN toContainer /\ toContainer[mine[t].id] = mine[t].set
       /\ pc[t] \in {"lost", "index", "set"} => mine[t].set \in DOMAIN toId
       /\ pc[t] \in {"index", "set"} => toId[mine[t].set] = mine[t].id

CursorInv ==
  /\ phase \in {"rules", "reinsert", "tables"} => cursor = Displaced
  /\ phase = "merge tables" /\ ~summary.rows => cursor = Displaced
  /\ phase # "reinsert" => queue = {} /\ \A c \in DOMAIN toId : c \cap cursor = {}
  /\ phase = "reinsert" => \A c \in DOMAIN toId : Canonical(c) # c =>
                              \E e \in queue : e.set = {} /\ e.old = toId[c]
  /\ phase \in {"rules", "containers"} => unions = {}
  /\ phase \in {"rules", "merge", "containers"} => summary.dirty = {}
  /\ phase \notin {"reinsert", "tables"} =>
       /\ \A k \in DOMAIN rows : k \notin cursor /\ rows[k].val \notin cursor
       /\ \A r \in staged : r.key \notin cursor /\ r.val \notin cursor

Hot == Out \cup summary.dirty

RowsInv ==
  \A k \in DOMAIN rows : ~rows[k].new =>
    /\ k \in DOMAIN matched
    /\ LET w == rows[k].val
       IN  \/ Rep[w] # w
           \/ w \in Hot
           \/ \E v \in Contents(w) : Rep[v] # v \/ (phase = "reinsert" /\ v \in Hot)
           \/ matched[k] = Meaning(w)

IInv == TypeInv /\ IdsInv /\ MapsInv /\ ThreadsInv /\ CursorInv /\ RowsInv

-----------------------------------------------------------------------------
(* Union-finds and least values *)

\* A set of naturals has a least element, and Min is it.
LEMMA MinIsLeast ==
  ASSUME NEW S \in SUBSET Nat, S # {}
  PROVE  Min(S) \in S /\ \A y \in S : Min(S) <= y
<1>1. IsWellFoundedOn(OpToRel(<, Nat), Nat)
  BY NatLessThanWellFounded
<1>2. PICK x \in S : \A y \in S : ~ (<<y, x>> \in OpToRel(<, Nat))
  BY <1>1, WFMin
<1> HIDE <1>1
<1>3. \A y \in S : ~ (y < x)
  BY <1>2 DEF OpToRel
<1>4. \A y \in S : x <= y
  BY <1>3
<1> HIDE <1>2
<1> QED
  BY <1>4 DEF Min

\* The ends of the pairs, and the ids that are together with one of them.
Ends(c, pairs) == UNION {{c[p[1]], c[p[2]]} : p \in pairs}
Closes(c, pairs, S) == /\ S \in SUBSET Ends(c, pairs)
                       /\ \A p \in pairs : c[p[1]] \in S <=> c[p[2]] \in S
Together(c, pairs, u, v) ==
  \A S \in SUBSET Ends(c, pairs) : Closes(c, pairs, S) => (u \in S <=> v \in S)

\* Ids are naturals.
LEMMA IdsAreNats == Ids \in SUBSET Nat
BY DEF Ids

\* The pairs are of ids.
LEMMA EndsAreIds ==
  ASSUME NEW c, CanonOK(c), NEW pairs, pairs \subseteq Ids \X Ids
  PROVE  /\ Ends(c, pairs) \subseteq Ids
         /\ \A u \in Ends(c, pairs) : c[u] = u
         /\ \A p \in pairs : /\ p[1] \in Ids /\ p[2] \in Ids
                             /\ c[p[1]] \in Ends(c, pairs) /\ c[p[2]] \in Ends(c, pairs)
<1>1. \A p \in pairs : p[1] \in Ids /\ p[2] \in Ids
  OBVIOUS
<1>2. \A v \in Ids : c[v] \in Ids /\ c[c[v]] = c[v]
  BY DEF CanonOK
<1> QED
  BY <1>1, <1>2 DEF Ends

\* Each id stands for the least of the ends together with its own.
LEMMA JoinIs ==
  ASSUME NEW c, CanonOK(c), NEW pairs, pairs \subseteq Ids \X Ids, NEW v \in Ids
  PROVE  LET j == Join(c, pairs)
         IN  /\ DOMAIN j = Ids
             /\ j[v] \in Ids
             /\ j[v] \in Ends(c, pairs) \/ j[v] = c[v]
             /\ Together(c, pairs, j[v], c[v])
             /\ j[v] <= c[v]
             /\ \A u \in Ends(c, pairs) : Together(c, pairs, u, c[v]) => j[v] <= u
<1> DEFINE j == Join(c, pairs)
           class == {u \in Ends(c, pairs) \cup {c[v]} : Together(c, pairs, u, c[v])}
<1>1. j = [w \in Ids |-> Min({u \in Ends(c, pairs) \cup {c[w]} : Together(c, pairs, u, c[w])})]
  BY DEF Join, Together, Closes, Ends
<1>2. j[v] = Min(class)
  BY <1>1
<1>3. c[v] \in Ids /\ Together(c, pairs, c[v], c[v])
  BY DEF Together, CanonOK
<1>4. class \in SUBSET Nat /\ class # {} /\ class \subseteq Ids /\ c[v] \in class
  BY <1>3, IdsAreNats, EndsAreIds
<1>5. Min(class) \in class /\ \A y \in class : Min(class) <= y
  BY <1>4, MinIsLeast
<1>6. DOMAIN j = Ids
  BY <1>1
<1>7. /\ Min(class) \in Ids
      /\ Min(class) \in Ends(c, pairs) \/ Min(class) = c[v]
      /\ Together(c, pairs, Min(class), c[v])
      /\ Min(class) <= c[v]
  BY <1>4, <1>5
<1>8. \A u \in Ends(c, pairs) : Together(c, pairs, u, c[v]) => Min(class) <= u
  BY <1>5
<1> HIDE DEF j, class
<1> QED
  BY <1>2, <1>6, <1>7, <1>8 DEF j

\* Who is at no end stands for the same as before.
LEMMA JoinAway ==
  ASSUME NEW c, CanonOK(c), NEW pairs, pairs \subseteq Ids \X Ids,
         NEW v \in Ids, c[v] \notin Ends(c, pairs)
  PROVE  Join(c, pairs)[v] = c[v]
<1> DEFINE j == Join(c, pairs)
<1>1. (j[v] \in Ends(c, pairs) \/ j[v] = c[v]) /\ Together(c, pairs, j[v], c[v])
  BY JoinIs
<1>2. Closes(c, pairs, Ends(c, pairs))
  BY EndsAreIds DEF Closes
<1> HIDE DEF j
<1>3. j[v] \in Ends(c, pairs) => c[v] \in Ends(c, pairs)
  BY <1>1, <1>2 DEF Together
<1> QED
  BY <1>1, <1>3 DEF j

\* What has the properties of the joined union-find is it.
LEMMA JoinChar ==
  ASSUME NEW c, CanonOK(c), NEW pairs, pairs \subseteq Ids \X Ids,
         NEW g, CanonOK(g), \A v \in Ids : g[c[v]] = g[v],
         \A p \in pairs : g[p[1]] = g[p[2]],
         \A v \in Ids : g[v] = c[v] \/ (g[v] \in Ends(c, pairs) /\ Together(c, pairs, g[v], c[v]))
  PROVE  Join(c, pairs) = g
<1> DEFINE j == Join(c, pairs)
<1>1. ASSUME NEW v \in Ids PROVE j[v] = g[v]
  <2> DEFINE S == {u \in Ends(c, pairs) : g[u] = g[v]}
  <2>0. c[v] \in Ids /\ g[v] \in Ids /\ g[v] <= v /\ j[v] \in Ids /\ g[c[v]] = g[v]
    BY JoinIs DEF CanonOK
  <2>1. ASSUME NEW p \in pairs PROVE c[p[1]] \in S <=> c[p[2]] \in S
    <3>1. p[1] \in Ids /\ p[2] \in Ids /\ c[p[1]] \in Ends(c, pairs) /\ c[p[2]] \in Ends(c, pairs)
      BY EndsAreIds
    <3>2. g[c[p[1]]] = g[p[1]] /\ g[c[p[2]]] = g[p[2]] /\ g[p[1]] = g[p[2]]
      BY <3>1
    <3> QED
      BY <3>1, <3>2
  <2>2. Closes(c, pairs, S)
    BY <2>1 DEF Closes
  <2>3. (j[v] \in Ends(c, pairs) \/ j[v] = c[v]) /\ Together(c, pairs, j[v], c[v]) /\ j[v] <= c[v]
        /\ \A u \in Ends(c, pairs) : Together(c, pairs, u, c[v]) => j[v] <= u
    BY JoinIs
  <2> HIDE DEF j
  <2>4. g[j[v]] = g[v]
    <3>1. CASE c[v] \in Ends(c, pairs)
      <4>1. c[v] \in S
        BY <3>1, <2>0
      <4>2. S \in SUBSET Ends(c, pairs)
        OBVIOUS
      <4>3. j[v] \in S
        BY <4>1, <4>2, <2>2, <2>3 DEF Together
      <4> QED
        BY <4>3
    <3>2. CASE c[v] \notin Ends(c, pairs)
      BY <3>2, <2>0, JoinAway DEF j
    <3> QED
      BY <3>1, <3>2
  <2>5. g[v] <= j[v]
    BY <2>0, <2>4 DEF CanonOK
  <2>6. j[v] <= g[v]
    BY <2>3
  <2> QED
    <3>1. g[v] \in Nat /\ j[v] \in Nat
      BY <2>0, IdsAreNats
    <3> QED
      BY <3>1, <2>5, <2>6
<1>2. DOMAIN j = Ids /\ j = [v \in DOMAIN j |-> j[v]]
  BY DEF Join
<1>3. g = [v \in Ids |-> g[v]]
  BY DEF CanonOK
<1> QED
  BY <1>1, <1>2, <1>3

\* Joining gives a union-find again, in which what was displaced stays so.
LEMMA JoinIsCanon ==
  ASSUME NEW c, CanonOK(c), NEW pairs, pairs \subseteq Ids \X Ids
  PROVE  LET j == Join(c, pairs)
         IN  /\ CanonOK(j)
             /\ \A v \in Ids : c[v] # v => j[v] # v
             /\ \A v \in Ids : j[c[v]] = j[v]
             /\ \A p \in pairs : j[p[1]] = j[p[2]]
<1> DEFINE j == Join(c, pairs)
<1>1. j \in [Ids -> Ids]
  <2>1. j = [v \in Ids |-> j[v]]
    BY DEF Join
  <2>2. \A v \in Ids : j[v] \in Ids
    BY JoinIs
  <2> QED
    BY <2>1, <2>2
<1>2. \A v \in Ids : j[v] <= c[v] /\ c[v] <= v /\ c[v] \in Nat /\ j[v] \in Nat /\ v \in Nat
  BY <1>1, JoinIs, IdsAreNats DEF CanonOK
<1>3. \A u, v \in Ids : c[u] = c[v] => j[u] = j[v]
  BY DEF Join
<1>4. \A v \in Ids : j[c[v]] = j[v]
  BY <1>3 DEF CanonOK
<1>5. ASSUME NEW v \in Ids PROVE j[j[v]] = j[v]
  <2>1. CASE c[v] \notin Ends(c, pairs)
    BY <2>1, <1>4, JoinAway
  <2>2. CASE c[v] \in Ends(c, pairs)
    <3>1. j[v] \in Ends(c, pairs) /\ Together(c, pairs, j[v], c[v])
      BY <2>2, JoinIs
    <3>2. c[j[v]] = j[v] /\ j[v] \in Ids
      BY <3>1, EndsAreIds
    <3>3. Together(c, pairs, j[j[v]], j[v]) /\ j[j[v]] \in Ends(c, pairs) /\ j[j[v]] <= j[v]
      BY <3>1, <3>2, JoinIs
    <3>4. Together(c, pairs, j[j[v]], c[v])
      BY <3>1, <3>3 DEF Together
    <3>5. j[v] <= j[j[v]]
      BY <3>3, <3>4, JoinIs
    <3>6. j[j[v]] \in Ids
      BY <1>1, <3>2
    <3>7. j[v] \in Nat /\ j[j[v]] \in Nat
      BY <3>2, <3>6, IdsAreNats
    <3> HIDE DEF j
    <3> QED
      BY <3>3, <3>5, <3>7
  <2> QED
    BY <2>1, <2>2
<1>8. ASSUME NEW p \in pairs PROVE j[p[1]] = j[p[2]]
  <2>1. /\ p[1] \in Ids /\ p[2] \in Ids
        /\ c[p[1]] \in Ends(c, pairs) /\ c[p[2]] \in Ends(c, pairs)
    BY EndsAreIds
  <2>2. Together(c, pairs, c[p[1]], c[p[2]])
    BY DEF Together, Closes
  <2>3. /\ j[p[1]] \in Ends(c, pairs) /\ Together(c, pairs, j[p[1]], c[p[1]])
        /\ j[p[2]] \in Ends(c, pairs) /\ Together(c, pairs, j[p[2]], c[p[2]])
    BY <2>1, JoinIs
  <2>4. Together(c, pairs, j[p[1]], c[p[2]]) /\ Together(c, pairs, j[p[2]], c[p[1]])
    BY <2>2, <2>3 DEF Together
  <2>5. j[p[1]] <= j[p[2]] /\ j[p[2]] <= j[p[1]]
    BY <2>1, <2>3, <2>4, JoinIs
  <2> QED
    BY <1>2, <2>1, <2>5
<1> HIDE DEF j
<1>6. CanonOK(j)
  BY <1>1, <1>2, <1>5 DEF CanonOK
<1>7. \A v \in Ids : c[v] # v => j[v] # v
  BY <1>2
<1> QED
  BY <1>4, <1>6, <1>7, <1>8 DEF j

\* Joining no pairs changes nothing.
LEMMA JoinNone ==
  ASSUME NEW c, CanonOK(c)
  PROVE  Join(c, {}) = c
<1>1. \A v \in Ids : Join(c, {})[v] = c[v]
  BY JoinAway DEF Ends
<1>2. c \in [Ids -> Ids] /\ DOMAIN Join(c, {}) = Ids /\ Join(c, {}) = [v \in Ids |-> Join(c, {})[v]]
  BY DEF CanonOK, Join
<1> QED
  BY <1>1, <1>2

\* The union-find c with the class of hi put under lo.
Under(c, lo, hi) == [v \in Ids |-> IF c[v] = hi THEN lo ELSE c[v]]

\* A pair of ids that stand for themselves.
Joinable(c, pairs, lo, hi, pair) ==
  /\ CanonOK(c) /\ pairs \subseteq Ids \X Ids
  /\ lo \in Ids /\ hi \in Ids /\ lo <= hi
  /\ Join(c, pairs)[lo] = lo /\ Join(c, pairs)[hi] = hi
  /\ pair \in {<<lo, hi>>, <<hi, lo>>}

\* One more such pair puts one class under the other.
LEMMA JoinOne ==
  ASSUME NEW c, NEW pairs, NEW lo, NEW hi, NEW pair, Joinable(c, pairs, lo, hi, pair)
  PROVE  Join(c, pairs \cup {pair}) = Under(Join(c, pairs), lo, hi)
<1> USE DEF Joinable
<1> DEFINE R == Join(c, pairs)
           more == pairs \cup {pair}
           g == Under(R, lo, hi)
<1>1. /\ CanonOK(R)
      /\ \A v \in Ids : c[v] # v => R[v] # v
      /\ \A v \in Ids : R[c[v]] = R[v]
      /\ \A p \in pairs : R[p[1]] = R[p[2]]
  BY JoinIsCanon
<1>2. c[lo] = lo /\ c[hi] = hi
  BY <1>1
<1>3. more \subseteq Ids \X Ids
  OBVIOUS
<1>4. /\ Ends(c, more) = Ends(c, pairs) \cup {lo, hi}
  <2>1. pair[1] \in {lo, hi} /\ pair[2] \in {lo, hi} /\ {pair[1], pair[2]} = {lo, hi}
    OBVIOUS
  <2>2. {c[pair[1]], c[pair[2]]} = {lo, hi}
    BY <2>1, <1>2
  <2> QED
    BY <2>2 DEF Ends
<1>5. ASSUME NEW u \in Ends(c, pairs), NEW v \in Ends(c, pairs), Together(c, pairs, u, v)
      PROVE  Together(c, more, u, v)
  <2> SUFFICES ASSUME NEW S \in SUBSET Ends(c, more), Closes(c, more, S) PROVE u \in S <=> v \in S
    BY DEF Together
  <2>1. \A p \in pairs : c[p[1]] \in Ends(c, pairs) /\ c[p[2]] \in Ends(c, pairs)
    BY EndsAreIds
  <2>2. Closes(c, pairs, S \cap Ends(c, pairs))
    BY <2>1 DEF Closes
  <2>3. u \in S \cap Ends(c, pairs) <=> v \in S \cap Ends(c, pairs)
    BY <1>5, <2>2 DEF Together
  <2> QED
    BY <2>3
<1>6. Together(c, more, lo, hi)
  <2>1. \A S : Closes(c, more, S) => (c[pair[1]] \in S <=> c[pair[2]] \in S)
    BY DEF Closes
  <2>2. (pair[1] = lo /\ pair[2] = hi) \/ (pair[1] = hi /\ pair[2] = lo)
    OBVIOUS
  <2> QED
    BY <1>2, <2>1, <2>2 DEF Together
<1>7. CanonOK(g)
  <2>1. \A v \in Ids : R[v] \in Ids /\ R[v] <= v /\ R[R[v]] = R[v]
    BY <1>1 DEF CanonOK
  <2>2. \A v \in Ids : g[v] \in Ids /\ g[v] <= R[v]
    BY <2>1, IdsAreNats DEF Under
  <2>3. \A v \in Ids : g[v] <= v
    <3> TAKE v \in Ids
    <3>1. g[v] \in Nat /\ R[v] \in Nat /\ v \in Nat
      BY <2>1, <2>2, IdsAreNats
    <3> HIDE DEF g, R
    <3> QED
      BY <2>1, <2>2, <3>1
  <2>4. \A v \in Ids : g[g[v]] = g[v]
    <3> TAKE v \in Ids
    <3>1. CASE R[v] = hi
      <4>1. g[v] = lo
        BY <3>1 DEF Under
      <4>2. g[lo] = lo
        BY DEF Under
      <4> QED
        BY <4>1, <4>2
    <3>2. CASE R[v] # hi
      <4>1. g[v] = R[v]
        BY <3>2 DEF Under
      <4>2. g[R[v]] = R[v]
        BY <2>1, <3>2 DEF Under
      <4> QED
        BY <4>1, <4>2
    <3> QED
      BY <3>1, <3>2
  <2>5. g \in [Ids -> Ids]
    BY <2>1 DEF Under
  <2> HIDE DEF g
  <2> QED
    BY <2>3, <2>4, <2>5 DEF CanonOK
<1>8. \A v \in Ids : g[c[v]] = g[v]
  <2>1. \A v \in Ids : c[v] \in Ids
    BY DEF CanonOK
  <2> QED
    BY <1>1, <2>1 DEF Under
<1>9. \A p \in more : g[p[1]] = g[p[2]]
  <2>1. ASSUME NEW p \in pairs PROVE g[p[1]] = g[p[2]]
    <3>1. p[1] \in Ids /\ p[2] \in Ids /\ R[p[1]] = R[p[2]]
      BY <1>1
    <3> QED
      BY <3>1 DEF Under
  <2>2. g[lo] = lo /\ g[hi] = lo
    BY DEF Under
  <2>3. g[pair[1]] = g[pair[2]]
    BY <2>2
  <2> QED
    BY <2>1, <2>3
<1>10. ASSUME NEW v \in Ids
       PROVE  g[v] = c[v] \/ (g[v] \in Ends(c, more) /\ Together(c, more, g[v], c[v]))
  <2>1. R[v] = c[v] \/ (R[v] \in Ends(c, more) /\ Together(c, more, R[v], c[v]))
    <3>1. CASE c[v] \in Ends(c, pairs)
      <4>1. R[v] \in Ends(c, pairs) /\ Together(c, pairs, R[v], c[v])
        BY <3>1, JoinIs
      <4> HIDE DEF R, more
      <4> QED
        BY <3>1, <4>1, <1>4, <1>5
    <3>2. CASE c[v] \notin Ends(c, pairs)
      BY <3>2, JoinAway
    <3> QED
      BY <3>1, <3>2
  <2>2. CASE R[v] = hi
    <3>1. g[v] = lo /\ lo \in Ends(c, more)
      BY <2>2, <1>4 DEF Under
    <3>2. Together(c, more, lo, c[v])
      <4> HIDE DEF R, more
      <4> QED
        BY <2>1, <2>2, <1>6 DEF Together
    <3> QED
      BY <3>1, <3>2
  <2>3. CASE R[v] # hi
    BY <2>1, <2>3 DEF Under
  <2> QED
    BY <2>2, <2>3
<1> HIDE DEF g, more
<1>11. Join(c, more) = g
  BY <1>3, <1>7, <1>8, <1>9, <1>10, JoinChar
<1> QED
  BY <1>11 DEF g, more

-----------------------------------------------------------------------------
(* The maps *)

\* The container under an id, and its meaning, in maps that are not the present ones.
In(ids, conts, i) == IF i \in DOMAIN conts /\ conts[i] \in DOMAIN ids /\ ids[conts[i]] = i
                     THEN conts[i] ELSE {}
Mean(ids, conts, i) ==
  {IF v \in Elems THEN <<v, {}>> ELSE <<None, In(ids, conts, v)>> : v \in In(ids, conts, i)}

TwoWay(ids, conts) == \A c \in DOMAIN ids : ids[c] \in DOMAIN conts /\ conts[ids[c]] = c

\* In the maps there are.
LEMMA InNow ==
  /\ \A i : Contents(i) = In(toId, toContainer, i)
  /\ \A i : Meaning(i) = Mean(toId, toContainer, i)
BY DEF Contents, Meaning, Resolves, Holds, In, Mean

\* The same of the next state.
LEMMA InNext ==
  /\ \A i : Contents(i)' = In(toId', toContainer', i)
  /\ \A i : Meaning(i)' = Mean(toId', toContainer', i)
BY DEF Contents, Meaning, Resolves, Holds, In, Mean

\* A container is under its own id only, and nothing is under any other id.
LEMMA InIs ==
  ASSUME NEW ids, NEW conts, TwoWay(ids, conts)
  PROVE  /\ \A c \in DOMAIN ids : In(ids, conts, ids[c]) = c
         /\ \A c, d \in DOMAIN ids : ids[c] = ids[d] => c = d
         /\ \A i : In(ids, conts, i) # {} =>
              In(ids, conts, i) \in DOMAIN ids /\ ids[In(ids, conts, i)] = i
         /\ \A i : (\A c \in DOMAIN ids : ids[c] # i) => In(ids, conts, i) = {}
BY DEF TwoWay, In

\* What an id is the id of decides what is under it.
LEMMA InSame ==
  ASSUME NEW ids, NEW conts, TwoWay(ids, conts), NEW jds, NEW donts, TwoWay(jds, donts), NEW i,
         \A c : (c \in DOMAIN ids /\ ids[c] = i) <=> (c \in DOMAIN jds /\ jds[c] = i)
  PROVE  In(jds, donts, i) = In(ids, conts, i)
<1>1. CASE \E c \in DOMAIN ids : ids[c] = i
  <2>1. PICK c \in DOMAIN ids : ids[c] = i
    BY <1>1
  <2>2. c \in DOMAIN jds /\ jds[c] = i
    BY <2>1
  <2>3. In(ids, conts, ids[c]) = c
    BY InIs
  <2>4. In(jds, donts, jds[c]) = c
    BY <2>2, InIs
  <2> QED
    BY <2>1, <2>2, <2>3, <2>4
<1>2. CASE \A c \in DOMAIN ids : ids[c] # i
  <2>1. \A c \in DOMAIN jds : jds[c] # i
    BY <1>2
  <2>2. In(ids, conts, i) = {} /\ In(jds, donts, i) = {}
    BY <1>2, <2>1, InIs
  <2> QED
    BY <2>2
<1> QED
  BY <1>1, <1>2

\* An id means the same when it has the same content, and so have the ids in that.
LEMMA MeanSame ==
  ASSUME NEW ids, NEW conts, NEW jds, NEW donts, NEW i,
         In(jds, donts, i) = In(ids, conts, i),
         \A v \in In(ids, conts, i) : v \in Elems \/ In(jds, donts, v) = In(ids, conts, v)
  PROVE  Mean(jds, donts, i) = Mean(ids, conts, i)
<1> DEFINE old(v) == IF v \in Elems THEN <<v, {}>> ELSE <<None, In(ids, conts, v)>>
           new(v) == IF v \in Elems THEN <<v, {}>> ELSE <<None, In(jds, donts, v)>>
<1>1. \A v \in In(ids, conts, i) : old(v) = new(v)
  OBVIOUS
<1>2. /\ Mean(ids, conts, i) = {old(v) : v \in In(ids, conts, i)}
      /\ Mean(jds, donts, i) = {new(v) : v \in In(ids, conts, i)}
  BY DEF Mean
<1> HIDE DEF old, new
<1> QED
  BY <1>1, <1>2

\* A row with this value means what it was matched as, or its value or something in it will be
\* given another id, or they are marked.
Fits(w, m, R, hot, ids, conts) ==
  \/ R[w] # w
  \/ w \in hot
  \/ \E v \in In(ids, conts, w) : R[v] # v \/ v \in hot
  \/ m = Mean(ids, conts, w)

\* The ids X, whose contents change, are given other ids or marked, and so is what was.
Carries(X, R, hot, ids, conts, R2, hot2, jds, donts) ==
  /\ \A v \in Ids : R[v] # v => R2[v] # v
  /\ \A v \in hot \cup X : v \in hot2 \/ R2[v] # v
  /\ \A i : i \notin X => In(jds, donts, i) = In(ids, conts, i)

\* Then a row stays fit.
LEMMA FitsStays ==
  ASSUME NEW X, NEW R, NEW hot, NEW ids, NEW conts, NEW R2, NEW hot2, NEW jds, NEW donts,
         Carries(X, R, hot, ids, conts, R2, hot2, jds, donts),
         NEW w \in Ids, In(ids, conts, w) \subseteq Ids, NEW m,
         Fits(w, m, R, hot, ids, conts)
  PROVE  Fits(w, m, R2, hot2, jds, donts)
<1> USE DEF Carries
<1>1. CASE R[w] # w \/ w \in hot \/ w \in X
  BY <1>1 DEF Fits
<1>2. CASE w \notin X /\ \E v \in In(ids, conts, w) : R[v] # v \/ v \in hot \/ v \in X
  <2>1. PICK v \in In(ids, conts, w) : R[v] # v \/ v \in hot \/ v \in X
    BY <1>2
  <2>2. v \in Ids /\ v \in In(jds, donts, w)
    BY <1>2, <2>1
  <2>3. v \in hot2 \/ R2[v] # v
    BY <2>1, <2>2
  <2> QED
    BY <2>2, <2>3 DEF Fits
<1>3. CASE /\ w \notin X /\ m = Mean(ids, conts, w)
           /\ \A v \in In(ids, conts, w) : v \notin X
  <2>1. Mean(jds, donts, w) = Mean(ids, conts, w)
    BY <1>3, MeanSame
  <2> QED
    BY <1>3, <2>1 DEF Fits
<1> QED
  BY <1>1, <1>2, <1>3 DEF Fits

-----------------------------------------------------------------------------
(* What the invariant says *)

\* The ids of the ordinary sort come first.
LEMMA ElemsFirst ==
  /\ Cardinality(Elems) \in Nat /\ Elems \subseteq Ids /\ None \notin Ids /\ MaxId \in Nat
  /\ \A v \in Elems : v < Cardinality(Elems)
  /\ \A v \in Elems : \A u \in Ids : u <= v => u \in Elems
<1>1. IsFiniteSet(0..MaxId)
  BY ContainersAssumption, FS_Interval
<1>2. IsFiniteSet(Elems)
  BY <1>1, ContainersAssumption, FS_Subset
<1>3. Cardinality(Elems) \in Nat
  BY <1>2, FS_CardinalityType
<1>4. PICK n \in Nat : n = Cardinality(Elems)
  BY <1>3
<1>5. Elems = 0..(n - 1) /\ MaxId \in Nat /\ Elems \subseteq 0..MaxId /\ None \notin 0..MaxId
  BY <1>4, ContainersAssumption
<1>6. \A v \in Elems : v < n
  BY <1>5
<1>7. \A v \in Elems : \A u \in Ids : u <= v => u \in Elems
  BY <1>5 DEF Ids
<1> QED
  BY <1>4, <1>5, <1>6, <1>7 DEF Ids

\* The union-find with the staged unions.
LEMMA RepIs ==
  ASSUME TypeInv
  PROVE  /\ CanonOK(canon) /\ CanonOK(Rep)
         /\ \A v \in Ids : canon[v] # v => Rep[v] # v
         /\ \A v \in Ids : Rep[canon[v]] = Rep[v]
         /\ unions = {} => Rep = canon
<1>1. CanonOK(canon) /\ unions \subseteq Ids \X Ids
  BY DEF TypeInv
<1>2. LET j == Join(canon, unions)
      IN  /\ CanonOK(j)
          /\ \A v \in Ids : canon[v] # v => j[v] # v
          /\ \A v \in Ids : j[canon[v]] = j[v]
  BY <1>1, JoinIsCanon
<1>3. unions = {} => Join(canon, unions) = canon
  BY <1>1, JoinNone
<1> QED
  BY <1>1, <1>2, <1>3 DEF Rep

\* While rules run, what is staged for the union-find is nothing, and what is known is canonical.
LEMMA RulesFacts ==
  ASSUME IInv, phase = "rules"
  PROVE  /\ Rep = canon /\ cursor = Displaced /\ queue = {} /\ Out = {} /\ Alive = Named
         /\ summary.dirty = {} /\ Hot = {}
         /\ \A c \in DOMAIN toId : /\ toId[c] \in Ids \ (Elems \cup Displaced) /\ toId[c] < next
                                   /\ c \cap Displaced = {} /\ c # {} /\ c \subseteq Ids
         /\ \A c, d \in DOMAIN toId : toId[c] = toId[d] => c = d
<1>1. Rep = canon
  BY RepIs DEF IInv, CursorInv
<1>2. /\ cursor = Displaced /\ queue = {} /\ summary.dirty = {}
      /\ \A c \in DOMAIN toId : c \cap cursor = {}
  BY DEF IInv, CursorInv
<1>3. Out = {} /\ Alive = Named /\ Hot = {}
  BY <1>2 DEF Out, Alive, Hot
<1>4. ASSUME NEW c \in DOMAIN toId
      PROVE  /\ toId[c] \in Ids /\ toId[c] \in Alive /\ c \subseteq Ids /\ c # {}
  BY <1>3 DEF IInv, TypeInv, Named, IdsInv
<1>5. \A x \in Alive : x \notin Elems /\ x < next /\ Rep[x] = x
  BY DEF IInv, IdsInv
<1>6. \A c, d \in DOMAIN toId : toId[c] = toId[d] => c = d
  BY DEF IInv, MapsInv
<1> QED
  BY <1>1, <1>2, <1>3, <1>4, <1>5, <1>6 DEF Displaced

-----------------------------------------------------------------------------
(* The first state *)

\* The invariant holds of it.
LEMMA InitIInv == Init => IInv
<1> SUFFICES ASSUME Init PROVE IInv
  OBVIOUS
<1> USE DEF Init
<1>1. CanonOK(canon)
  BY IdsAreNats DEF CanonOK
<1>2. toId = <<>> /\ DOMAIN toId = {} /\ DOMAIN toContainer = {} /\ DOMAIN rows = {}
  OBVIOUS
<1>3. 0 \in Ids
  BY ElemsFirst DEF Ids
<1>4. Cardinality(Elems) \in 0..(MaxId + 1)
  <2>1. IsFiniteSet(0..MaxId) /\ Cardinality(0..MaxId) = MaxId + 1
    BY FS_Interval, ElemsFirst
  <2>2. Cardinality(Elems) <= Cardinality(0..MaxId)
    BY <2>1, FS_Subset, ContainersAssumption
  <2> QED
    BY <2>1, <2>2, ElemsFirst
<1>5. TypeInv
  <2>1. toId \in [DOMAIN toId -> Ids] /\ DOMAIN toId \subseteq SUBSET Ids
    BY <1>2
  <2>2. rows \in [DOMAIN rows -> [val : Ids, new : BOOLEAN]] /\ DOMAIN rows \subseteq Ids
    BY <1>2
  <2>3. toContainer = [i \in DOMAIN toContainer |-> toContainer[i]]
    OBVIOUS
  <2>4. Idle \in [key : Ids, set : SUBSET Ids, id : Ids \cup {None}]
    BY <1>3 DEF Idle
  <2>5. summary \in [changed : BOOLEAN, dirty : SUBSET Ids, rows : BOOLEAN]
    BY DEF NoSummary
  <2>6. cursor \subseteq Displaced /\ unions \subseteq Ids \X Ids /\ staged = {} /\ queue = {}
    OBVIOUS
  <2>7. pc \in [Threads -> Places] /\ phase \in Phases
    BY DEF Places, Phases
  <2>8. next \in 0..(MaxId + 1) /\ Cardinality(Elems) <= next
    BY <1>4, ElemsFirst
  <2> QED
    BY <1>1, <2>1, <2>2, <2>3, <2>4, <2>5, <2>6, <2>7, <2>8 DEF TypeInv
<1>6. Rep = canon /\ Alive = {} /\ \A v \in Ids : Rep[v] = v
  <2>1. Rep = canon
    BY <1>1, JoinNone DEF Rep
  <2> QED
    BY <1>2, <2>1 DEF Alive, Named, Out
<1>7. IdsInv
  BY <1>2, <1>6 DEF IdsInv, Idle
<1>8. MapsInv
  BY <1>2 DEF MapsInv, IndexCovers
<1>9. ThreadsInv
  BY DEF ThreadsInv, Idle
<1>10. CursorInv
  <2>1. Displaced = {}
    BY DEF Displaced
  <2> QED
    BY <1>2, <2>1 DEF CursorInv, NoSummary
<1>11. RowsInv
  BY <1>2 DEF RowsInv
<1> QED
  BY <1>5, <1>7, <1>8, <1>9, <1>10, <1>11 DEF IInv

-----------------------------------------------------------------------------
(* Interning *)

\* What most steps leave alone.
LEMMA Kept ==
  ASSUME UNCHANGED <<canon, unions, queue, summary>>
  PROVE  /\ Rep' = Rep /\ Displaced' = Displaced /\ Out' = Out /\ Hot' = Hot
         /\ toId' = toId => Named' = Named /\ Alive' = Alive
BY DEF Rep, Displaced, Out, Hot, Named, Alive

\* The cursor, for steps that change neither the union-find nor what refers to ids.
LEMMA CursorKept ==
  ASSUME CursorInv, UNCHANGED <<canon, cursor, unions, queue, summary, rows, staged, phase, toId>>
  PROVE  CursorInv'
<1>1. Displaced' = Displaced
  BY Kept
<1>2. \A c : Canonical(c)' = Canonical(c)
  BY DEF Canonical
<1> QED
  BY <1>1, <1>2 DEF CursorInv

\* The rows, for steps that change nothing rows are matched by.
LEMMA RowsKept ==
  ASSUME RowsInv, TwoWay(toId, toContainer), TwoWay(toId', toContainer'),
         UNCHANGED <<canon, unions, queue, summary, rows, phase, toId, matched>>
  PROVE  RowsInv'
<1>1. Rep' = Rep /\ Hot' = Hot
  BY Kept
<1>2. \A i : In(toId', toContainer', i) = In(toId, toContainer, i)
  BY InSame
<1>3. \A i : Mean(toId', toContainer', i) = Mean(toId, toContainer, i)
  BY <1>2, MeanSame
<1>4. \A i : Contents(i)' = Contents(i) /\ Meaning(i)' = Meaning(i)
  BY <1>2, <1>3, InNow, InNext
<1> QED
  BY <1>1, <1>4 DEF RowsInv

\* The maps lead there and back.
LEMMA MapsTwoWay ==
  /\ MapsInv => TwoWay(toId, toContainer)
  /\ MapsInv' => TwoWay(toId', toContainer')
BY DEF MapsInv, TwoWay

\* A thread goes on.
LEMMA GotoIs ==
  ASSUME TypeInv, NEW t \in Threads, NEW place \in Places, Goto(t, place)
  PROVE  /\ pc' \in [Threads -> Places]
         /\ \A u \in Threads : pc'[u] = IF u = t THEN place ELSE pc[u]
BY DEF TypeInv, Goto

\* A thread has an id.
LEMMA GotIs ==
  ASSUME TypeInv, NEW t \in Threads, NEW id \in Ids, Got(t, id)
  PROVE  /\ mine' \in [Threads -> [key : Ids, set : SUBSET Ids, id : Ids \cup {None}]]
         /\ \A u \in Threads : /\ mine'[u].key = mine[u].key /\ mine'[u].set = mine[u].set
                               /\ mine'[u].id = IF u = t THEN id ELSE mine[u].id
<1>1. mine \in [Threads -> [key : Ids, set : SUBSET Ids, id : Ids \cup {None}]]
  BY DEF TypeInv
<1>2. mine' = [mine EXCEPT ![t].id = id]
  BY DEF Got
<1> QED
  BY <1>1, <1>2

\* A rule asks for a container.
LEMMA CallInternIInv == ASSUME IInv, NEW t \in Threads, CallIntern(t) PROVE IInv'
<1> USE DEF CallIntern, env, loop
<1>1. Rep' = Rep /\ Displaced' = Displaced /\ Out' = Out /\ Hot' = Hot /\ Named' = Named /\ Alive' = Alive
  BY Kept
<1>2. /\ Rep = canon /\ Alive = Named /\ cursor = Displaced
      /\ \A c \in DOMAIN toId : toId[c] \in Ids \ (Elems \cup Displaced)
  BY RulesFacts
<1>3. PICK key \in Keys \ Displaced, set \in SUBSET ((Elems \ Displaced) \cup Flat) :
        /\ Cardinality(set) \in 1..2
        /\ mine' = [mine EXCEPT ![t] = [key |-> key, set |-> set, id |-> None]]
  OBVIOUS
<1>4. key \in Ids /\ set \subseteq Ids /\ set # {} /\ set \cap Displaced = {}
  <2>1. Flat \subseteq Ids \ Displaced
    BY <1>2 DEF Flat
  <2>2. Keys \subseteq Ids /\ Elems \subseteq Ids
    BY ElemsFirst, ContainersAssumption
  <2>3. set # {}
    BY <1>3, FS_EmptySet
  <2> QED
    BY <2>1, <2>2, <2>3
<1>5. \A v \in set : Known(v)
  <2>1. ASSUME NEW v \in Flat PROVE canon[v] = v /\ v \in Named
    BY <1>2 DEF Flat, Named, Displaced
  <2> QED
    BY <1>2, <2>1 DEF Known
<1>6. PICK call : call = [key |-> key, set |-> set, id |-> None]
  OBVIOUS
<1>7. /\ call \in [key : Ids, set : SUBSET Ids, id : Ids \cup {None}]
      /\ call.key = key /\ call.set = set
  BY <1>4, <1>6
<1>8. /\ mine \in [Threads -> [key : Ids, set : SUBSET Ids, id : Ids \cup {None}]]
      /\ pc \in [Threads -> Places] /\ phase = "rules" /\ pc[t] = "idle"
      /\ mine' = [mine EXCEPT ![t] = call] /\ pc' = [pc EXCEPT ![t] = "find"]
  BY <1>3, <1>6 DEF IInv, TypeInv
<1>9. \A u \in Threads : IF u = t THEN mine'[u] = call /\ pc'[u] = "find"
                         ELSE mine'[u] = mine[u] /\ pc'[u] = pc[u]
  BY <1>8
<1>10. TypeInv'
  <2>1. mine' \in [Threads -> [key : Ids, set : SUBSET Ids, id : Ids \cup {None}]]
    BY <1>7, <1>8
  <2>2. pc' \in [Threads -> Places]
    BY <1>8 DEF Places
  <2> QED
    BY <2>1, <2>2, <1>1 DEF IInv, TypeInv
<1>11. IdsInv'
  <2>1. \A v : Known(v)' = Known(v)
    BY <1>1 DEF Known
  <2>2. \A u \in Threads : \A v \in mine'[u].set : Known(v)
    BY <1>5, <1>7, <1>9 DEF IInv, IdsInv
  <2>3. \A u \in Threads : pc'[u] = "set" => mine'[u].id \in Named
    BY <1>9 DEF IInv, IdsInv
  <2> QED
    BY <1>1, <2>1, <2>2, <2>3 DEF IInv, IdsInv
<1>12. IndexCovers'
  BY <1>8, <1>9 DEF IInv, MapsInv, IndexCovers
<1>13. MapsInv'
  BY <1>1, <1>12 DEF IInv, MapsInv, Canonical
<1>14. ThreadsInv'
  BY <1>1, <1>4, <1>7, <1>8, <1>9 DEF IInv, ThreadsInv
<1>15. CursorInv' /\ RowsInv'
  BY <1>13, CursorKept, RowsKept, MapsTwoWay DEF IInv
<1> QED
  BY <1>10, <1>11, <1>13, <1>14, <1>15 DEF IInv

\* A thread finds the container.
LEMMA FindKnownIInv ==
  ASSUME IInv, NEW t \in Threads, FindContainer(t), mine[t].set \in DOMAIN toId
  PROVE  IInv'
<1> USE DEF FindContainer, loop
<1>1. Rep' = Rep /\ Displaced' = Displaced /\ Out' = Out /\ Hot' = Hot /\ Named' = Named /\ Alive' = Alive
  BY Kept
<1>2. toId[mine[t].set] \in Named /\ toId[mine[t].set] \in Ids
  BY DEF Named, IInv, TypeInv
<1>3. Got(t, toId[mine[t].set]) /\ Goto(t, "set") /\ UNCHANGED <<next, toContainer>>
  OBVIOUS
<1>4. /\ mine' \in [Threads -> [key : Ids, set : SUBSET Ids, id : Ids \cup {None}]]
      /\ \A u \in Threads : /\ mine'[u].key = mine[u].key /\ mine'[u].set = mine[u].set
                            /\ mine'[u].id = IF u = t THEN toId[mine[t].set] ELSE mine[u].id
  BY <1>2, <1>3, GotIs DEF IInv
<1>5. /\ pc' \in [Threads -> Places]
      /\ \A u \in Threads : pc'[u] = IF u = t THEN "set" ELSE pc[u]
  BY <1>3, GotoIs DEF IInv, Places
<1>6. TypeInv'
  BY <1>1, <1>3, <1>4, <1>5 DEF IInv, TypeInv
<1>7. IdsInv'
  <2>1. \A v : Known(v)' = Known(v)
    BY <1>1 DEF Known
  <2>2. \A u \in Threads : \A v \in mine'[u].set : Known(v)
    BY <1>4 DEF IInv, IdsInv
  <2>3. \A u \in Threads : pc'[u] = "set" => mine'[u].id \in Named
    BY <1>2, <1>4, <1>5 DEF IInv, IdsInv
  <2> QED
    BY <1>1, <1>3, <2>1, <2>2, <2>3 DEF IInv, IdsInv
<1>8. IndexCovers'
  BY <1>4, <1>5 DEF IInv, MapsInv, IndexCovers
<1>9. MapsInv'
  BY <1>1, <1>3, <1>8 DEF IInv, MapsInv, Canonical
<1>10. ThreadsInv'
  BY <1>1, <1>3, <1>4, <1>5 DEF IInv, ThreadsInv
<1>11. CursorInv' /\ RowsInv'
  BY <1>9, CursorKept, RowsKept, MapsTwoWay DEF IInv
<1> QED
  BY <1>6, <1>7, <1>9, <1>10, <1>11 DEF IInv

\* A thread takes a fresh id for it.
LEMMA FindFreshIInv ==
  ASSUME IInv, NEW t \in Threads, FindContainer(t), mine[t].set \notin DOMAIN toId
  PROVE  IInv'
<1> USE DEF FindContainer, loop
<1>1. Rep' = Rep /\ Displaced' = Displaced /\ Out' = Out /\ Hot' = Hot /\ Named' = Named /\ Alive' = Alive
  BY Kept
<1>2. /\ next <= MaxId /\ next' = next + 1 /\ Got(t, next) /\ Goto(t, "enter")
      /\ toContainer' = With(toContainer, next, mine[t].set)
      /\ pc[t] = "find"
  OBVIOUS
<1>3. next \in Ids /\ next \in Nat /\ Cardinality(Elems) <= next
  BY <1>2, ElemsFirst DEF IInv, TypeInv, Ids
<1>4. next \notin Elems /\ next \notin Named
  BY <1>3, ElemsFirst DEF IInv, IdsInv, Alive
<1>5. /\ mine' \in [Threads -> [key : Ids, set : SUBSET Ids, id : Ids \cup {None}]]
      /\ \A u \in Threads : /\ mine'[u].key = mine[u].key /\ mine'[u].set = mine[u].set
                            /\ mine'[u].id = IF u = t THEN next ELSE mine[u].id
  BY <1>2, <1>3, GotIs DEF IInv
<1>6. /\ pc' \in [Threads -> Places]
      /\ \A u \in Threads : pc'[u] = IF u = t THEN "enter" ELSE pc[u]
  BY <1>2, GotoIs DEF IInv, Places
<1>7. /\ DOMAIN toContainer' = DOMAIN toContainer \cup {next}
      /\ toContainer'[next] = mine[t].set
      /\ \A i \in DOMAIN toContainer : i # next => toContainer'[i] = toContainer[i]
      /\ toContainer' = [i \in DOMAIN toContainer' |-> toContainer'[i]]
  BY <1>2 DEF With
<1>8. TypeInv'
  <2>1. next' \in 0..(MaxId + 1) /\ Cardinality(Elems) <= next'
    BY <1>2, <1>3, ElemsFirst
  <2> QED
    BY <1>1, <1>5, <1>6, <1>7, <2>1 DEF IInv, TypeInv
<1>9. IdsInv'
  <2>1. \A v : Known(v)' = Known(v)
    BY <1>1 DEF Known
  <2>2. \A u \in Threads : \A v \in mine'[u].set : Known(v)
    BY <1>5 DEF IInv, IdsInv
  <2>3. \A u \in Threads : pc'[u] = "set" => mine'[u].id \in Named
    BY <1>5, <1>6 DEF IInv, IdsInv
  <2>4. \A x \in Alive : x \notin Elems /\ x < next /\ Rep[x] = x /\ x \in Ids
    BY DEF IInv, IdsInv, Alive, Named, Out, TypeInv
  <2>5. \A x \in Alive : x < next'
    <3>1. \A x \in Alive : x \in Nat
      BY <2>4, IdsAreNats
    <3> QED
      BY <1>2, <1>3, <2>4, <3>1
  <2>6. \A v \in Ids : next' <= v => Rep[v] = v
    <3>1. \A v \in Ids : next' <= v => next <= v
      BY <1>2, <1>3, IdsAreNats
    <3> QED
      BY <3>1 DEF IInv, IdsInv
  <2>7. \A p \in unions : p[1] < next' /\ p[2] < next'
    <3>1. \A p \in unions : p[1] \in Nat /\ p[2] \in Nat /\ p[1] < next /\ p[2] < next
      BY IdsAreNats DEF IInv, IdsInv, TypeInv
    <3> QED
      BY <1>2, <1>3, <3>1
  <2> QED
    BY <1>1, <2>1, <2>2, <2>3, <2>4, <2>5, <2>6, <2>7 DEF IInv, IdsInv
<1>10. IndexCovers'
  BY <1>2, <1>5, <1>6 DEF IInv, MapsInv, IndexCovers
<1>11. MapsInv'
  <2>1. \A c \in DOMAIN toId : toId[c] \in DOMAIN toContainer' /\ toContainer'[toId[c]] = c
    BY <1>4, <1>7 DEF IInv, MapsInv, Named
  <2> QED
    BY <1>1, <1>10, <2>1 DEF IInv, MapsInv, Canonical
<1>12. ThreadsInv'
  <2>1. \A u \in Threads : pc[u] \in {"enter", "lost"} => mine[u].id < next /\ mine[u].id \in Ids
    BY DEF IInv, ThreadsInv
  <2>2. \A u \in Threads : pc[u] \in {"enter", "lost"} => mine[u].id # next /\ mine[u].id < next'
    <3>1. \A u \in Threads : pc[u] \in {"enter", "lost"} => mine[u].id \in Nat
      BY <2>1, IdsAreNats
    <3> QED
      BY <1>2, <1>3, <2>1, <3>1
  <2>3. next < next'
    BY <1>2, <1>3
  <2> HIDE DEF FindContainer
  <2>4. UNCHANGED <<phase, toId>>
    BY DEF FindContainer
  <2>5. ASSUME NEW u \in Threads
        PROVE  /\ phase # "rules" => pc'[u] = "idle"
               /\ pc'[u] # "idle" => /\ mine'[u].key \notin Displaced
                                     /\ mine'[u].set \cap Displaced = {}
                                     /\ mine'[u].set # {}
    BY <1>2, <1>5, <1>6 DEF IInv, ThreadsInv
  <2>6. ASSUME NEW u \in Threads
        PROVE  pc'[u] \in {"enter", "lost"} =>
                 /\ mine'[u].id \in Ids \ (Named \cup Elems) /\ mine'[u].id < next'
                 /\ Rep[mine'[u].id] = mine'[u].id
                 /\ \A s \in Threads : s # u /\ pc'[s] \in {"enter", "lost"} => mine'[s].id # mine'[u].id
    <3>1. Rep[next] = next
      <4>1. next <= next
        BY <1>3
      <4> QED
        BY <1>3, <4>1 DEF IInv, IdsInv
    <3> QED
      BY <1>3, <1>4, <1>5, <1>6, <2>2, <2>3, <3>1 DEF IInv, ThreadsInv
  <2>7. ASSUME NEW u \in Threads
        PROVE  pc'[u] = "enter" =>
                 mine'[u].id \in DOMAIN toContainer' /\ toContainer'[mine'[u].id] = mine'[u].set
    BY <1>5, <1>6, <1>7, <2>2 DEF IInv, ThreadsInv
  <2>8. ASSUME NEW u \in Threads
        PROVE  /\ pc'[u] \in {"lost", "index", "set"} => mine'[u].set \in DOMAIN toId
               /\ pc'[u] \in {"index", "set"} => toId[mine'[u].set] = mine'[u].id
    BY <1>5, <1>6 DEF IInv, ThreadsInv
  <2> QED
    BY <1>1, <2>4, <2>5, <2>6, <2>7, <2>8 DEF ThreadsInv
<1>13. CursorInv' /\ RowsInv'
  BY <1>11, CursorKept, RowsKept, MapsTwoWay DEF IInv
<1> QED
  BY <1>8, <1>9, <1>11, <1>12, <1>13 DEF IInv

\* The container enters the map, unless it is there.
LEMMA EnterIInv == ASSUME IInv, NEW t \in Threads, Enter(t) PROVE IInv'
<1> USE DEF Enter, loop
<1> DEFINE set == mine[t].set
           id == mine[t].id
<1>1. pc[t] = "enter" /\ phase = "rules"
  BY DEF IInv, ThreadsInv
<1>2. /\ id \in Ids \ (Named \cup Elems) /\ id < next /\ set # {} /\ set \subseteq Ids
      /\ set \cap Displaced = {} /\ mine[t].key \notin Displaced
      /\ id \in DOMAIN toContainer /\ toContainer[id] = set
  BY <1>1 DEF IInv, ThreadsInv, TypeInv
<1>3. Rep' = Rep /\ Displaced' = Displaced /\ Out' = Out /\ Hot' = Hot
      /\ (toId' = toId => Named' = Named /\ Alive' = Alive)
  BY Kept
<1>4. /\ Rep = canon /\ Alive = Named /\ cursor = Displaced /\ queue = {} /\ Out = {} /\ Hot = {}
      /\ \A c \in DOMAIN toId : /\ toId[c] \in Ids \ (Elems \cup Displaced) /\ toId[c] < next
                                /\ c \cap Displaced = {} /\ c # {} /\ c \subseteq Ids
  BY <1>1, RulesFacts
<1>5. CASE set \in DOMAIN toId
  <2>1. toId' = toId /\ Goto(t, "lost")
    BY <1>5
  <2>2. /\ pc' \in [Threads -> Places]
        /\ \A u \in Threads : pc'[u] = IF u = t THEN "lost" ELSE pc[u]
    BY <2>1, GotoIs DEF IInv, Places
  <2>3. Named' = Named /\ Alive' = Alive
    BY <1>3, <2>1
  <2>4. TypeInv'
    BY <1>3, <2>1, <2>2 DEF IInv, TypeInv
  <2>5. IdsInv'
    <3>1. \A v : Known(v)' = Known(v)
      BY <1>3, <2>3 DEF Known
    <3>2. \A u \in Threads : pc'[u] = "set" => mine'[u].id \in Named
      BY <2>2 DEF IInv, IdsInv
    <3> QED
      BY <1>3, <2>1, <2>3, <3>1, <3>2 DEF IInv, IdsInv
  <2>6. IndexCovers'
    BY <1>1, <2>1, <2>2 DEF IInv, MapsInv, IndexCovers
  <2>7. MapsInv'
    BY <1>4, <2>1, <2>3, <2>6 DEF IInv, MapsInv
  <2>8. ThreadsInv'
    BY <1>1, <1>3, <1>5, <2>1, <2>2, <2>3 DEF IInv, ThreadsInv
  <2>9. CursorInv' /\ RowsInv'
    BY <2>1, <2>7, CursorKept, RowsKept, MapsTwoWay DEF IInv
  <2> QED
    BY <2>4, <2>5, <2>7, <2>8, <2>9 DEF IInv
<1>6. CASE set \notin DOMAIN toId
  <2>1. toId' = With(toId, set, id) /\ Goto(t, "index")
    BY <1>6
  <2>2. /\ pc' \in [Threads -> Places]
        /\ \A u \in Threads : pc'[u] = IF u = t THEN "index" ELSE pc[u]
    BY <2>1, GotoIs DEF IInv, Places
  <2>3. /\ DOMAIN toId' = DOMAIN toId \cup {set}
        /\ toId'[set] = id
        /\ \A c \in DOMAIN toId : toId'[c] = toId[c]
        /\ toId' = [c \in DOMAIN toId' |-> toId'[c]]
    BY <1>6, <2>1 DEF With
  <2>4. Named' = Named \cup {id} /\ Alive' = Alive \cup {id}
    <3>1. Named' = {toId'[c] : c \in DOMAIN toId'}
      BY DEF Named
    <3>2. Named' = Named \cup {id}
      BY <2>3, <3>1 DEF Named
    <3> QED
      BY <1>3, <1>4, <3>2 DEF Alive
  <2>5. TypeInv'
    <3>1. toId' \in [DOMAIN toId' -> Ids] /\ DOMAIN toId' \subseteq SUBSET Ids
      <4>1. \A c \in DOMAIN toId' : toId'[c] \in Ids /\ c \subseteq Ids
        BY <1>2, <1>4, <2>3
      <4> QED
        BY <2>3, <4>1
    <3> QED
      BY <1>3, <2>2, <3>1 DEF IInv, TypeInv
  <2>6. IdsInv'
    <3>1. \A v : Known(v) => Known(v)'
      BY <1>3, <2>4 DEF Known
    <3>2. \A x \in Alive' : x \notin Elems /\ x < next /\ Rep[x] = x
      <4>1. Rep[id] = id
        BY <1>1 DEF IInv, ThreadsInv
      <4> QED
        BY <1>2, <2>4, <4>1 DEF IInv, IdsInv
    <3>3. \A c \in DOMAIN toId' : c # {} /\ \A v \in c : Known(v)
      BY <1>2, <2>3 DEF IInv, IdsInv
    <3>4. \A u \in Threads : pc'[u] = "set" => mine'[u].id \in Named
      BY <2>2 DEF IInv, IdsInv
    <3> QED
      BY <1>3, <1>4, <2>4, <3>1, <3>2, <3>3, <3>4 DEF IInv, IdsInv
  <2>7. \A c \in DOMAIN toId : toId[c] # id
    BY <1>2 DEF Named
  <2>8. IndexCovers'
    <3>1. \A c \in DOMAIN toId : \A v \in c :
            toId[c] \in valIndex[v] \/ \E u \in Threads : pc'[u] = "index" /\ mine[u].set = c
      BY <1>1, <2>2 DEF IInv, MapsInv, IndexCovers
    <3>2. pc'[t] = "index" /\ mine[t].set = set
      BY <2>2
    <3> QED
      BY <2>3, <3>1, <3>2 DEF IndexCovers
  <2>9. MapsInv'
    <3>1. \A c \in DOMAIN toId' : toId'[c] \in DOMAIN toContainer /\ toContainer[toId'[c]] = c
      BY <1>2, <2>3 DEF IInv, MapsInv
    <3> QED
      BY <1>4, <2>8, <3>1 DEF MapsInv
  <2>10. ThreadsInv'
    <3>1. \A u \in Threads : u # t /\ pc[u] \in {"enter", "lost"} => mine[u].id # id
      BY <1>1 DEF IInv, ThreadsInv
    <3>2. ASSUME NEW u \in Threads
          PROVE  /\ pc'[u] # "idle" => /\ mine[u].key \notin Displaced /\ mine[u].set # {}
                                       /\ mine[u].set \cap Displaced = {}
                 /\ pc'[u] \in {"enter", "lost"} =>
                      /\ mine[u].id \in Ids \ (Named' \cup Elems) /\ mine[u].id < next
                      /\ Rep[mine[u].id] = mine[u].id
                      /\ \A s \in Threads : s # u /\ pc'[s] \in {"enter", "lost"} => mine[s].id # mine[u].id
                 /\ pc'[u] = "enter" => /\ mine[u].id \in DOMAIN toContainer
                                        /\ toContainer[mine[u].id] = mine[u].set
      BY <1>2, <2>2, <2>4, <3>1 DEF IInv, ThreadsInv
    <3>3. ASSUME NEW u \in Threads
          PROVE  /\ pc'[u] \in {"lost", "index", "set"} => mine[u].set \in DOMAIN toId'
                 /\ pc'[u] \in {"index", "set"} => toId'[mine[u].set] = mine[u].id
      BY <2>2, <2>3 DEF IInv, ThreadsInv
    <3> QED
      BY <1>1, <1>3, <3>2, <3>3 DEF ThreadsInv
  <2>11. CursorInv'
    <3>1. \A c \in DOMAIN toId' : c \cap cursor = {}
      BY <1>2, <1>4, <2>3
    <3> QED
      BY <1>1, <1>3, <1>4, <3>1 DEF IInv, CursorInv
  <2>12. RowsInv'
    <3>1. TwoWay(toId, toContainer) /\ TwoWay(toId', toContainer')
      BY <2>9, MapsTwoWay DEF IInv
    <3>2. \A i : i # id => In(toId', toContainer', i) = In(toId, toContainer, i)
      <4> TAKE i
      <4> HAVE i # id
      <4>1. \A c : (c \in DOMAIN toId /\ toId[c] = i) <=> (c \in DOMAIN toId' /\ toId'[c] = i)
        BY <1>6, <2>3
      <4> QED
        BY <3>1, <4>1, InSame
    <3>3. ASSUME NEW k \in DOMAIN rows, ~rows[k].new
          PROVE  /\ k \in DOMAIN matched
                 /\ Rep[rows[k].val] # rows[k].val \/ matched[k] = Mean(toId', toContainer', rows[k].val)
      <4> DEFINE w == rows[k].val
      <4>1. Rep[w] \in Named
        BY <1>4 DEF IInv, IdsInv
      <4>2. CASE Rep[w] = w
        <5>1. PICK c \in DOMAIN toId : toId[c] = w
          BY <4>1, <4>2 DEF Named
        <5>2. w # id /\ In(toId, toContainer, w) = c
          BY <2>7, <3>1, <5>1, InIs
        <5>3. \A v \in c : v \in Elems \/ v \in Named
          BY <1>4, RepIs DEF IInv, IdsInv, Known, Displaced
        <5>4. \A v \in c : Rep[v] = v /\ (v \in Elems \/ v # id)
          BY <1>2, <1>4, <5>3 DEF Displaced
        <5>5. Mean(toId', toContainer', w) = Mean(toId, toContainer, w)
          BY <3>2, <5>2, <5>4, MeanSame
        <5>6. k \in DOMAIN matched /\ matched[k] = Meaning(w)
          BY <1>3, <1>4, <3>3, <4>2, <5>2, <5>4, InNow, <1>1 DEF IInv, RowsInv
        <5> QED
          BY <5>5, <5>6, InNow
      <4>3. CASE Rep[w] # w
        BY <3>3, <4>3 DEF IInv, RowsInv
      <4> QED
        BY <4>2, <4>3
    <3> QED
      BY <1>3, <3>3, InNext DEF RowsInv
  <2> QED
    BY <2>5, <2>6, <2>9, <2>10, <2>11, <2>12 DEF IInv
<1> QED
  BY <1>5, <1>6

\* The container enters the index.
LEMMA AddToIndexIInv == ASSUME IInv, NEW t \in Threads, AddToIndex(t) PROVE IInv'
<1> USE DEF AddToIndex, loop
<1>1. Rep' = Rep /\ Displaced' = Displaced /\ Out' = Out /\ Hot' = Hot /\ Named' = Named /\ Alive' = Alive
  BY Kept
<1>2. /\ pc' \in [Threads -> Places]
      /\ \A u \in Threads : pc'[u] = IF u = t THEN "set" ELSE pc[u]
  BY GotoIs DEF IInv, Places
<1>3. /\ mine[t].set \in DOMAIN toId /\ toId[mine[t].set] = mine[t].id
      /\ phase = "rules"
  BY DEF IInv, ThreadsInv
<1>4. /\ valIndex' \in [Ids -> SUBSET Ids]
      /\ \A v \in Ids : valIndex[v] \subseteq valIndex'[v]
      /\ \A v \in Ids : v \in mine[t].set => mine[t].id \in valIndex'[v]
  <2>1. mine[t].id \in Ids /\ valIndex \in [Ids -> SUBSET Ids]
    BY <1>3 DEF IInv, TypeInv
  <2>2. valIndex' = [v \in Ids |-> IF v \in mine[t].set THEN valIndex[v] \cup {mine[t].id}
                                                        ELSE valIndex[v]]
    BY DEF Index
  <2> HIDE DEF AddToIndex
  <2> QED
    BY <2>1, <2>2
<1>5. TypeInv'
  BY <1>1, <1>2, <1>4 DEF IInv, TypeInv
<1>6. IdsInv'
  <2>1. \A v : Known(v)' = Known(v)
    BY <1>1 DEF Known
  <2>2. \A u \in Threads : pc'[u] = "set" => mine[u].id \in Named
    BY <1>2, <1>3 DEF IInv, IdsInv, Named
  <2> QED
    BY <1>1, <2>1, <2>2 DEF IInv, IdsInv
<1>7. IndexCovers'
  <2> SUFFICES ASSUME NEW c \in DOMAIN toId, NEW v \in c
               PROVE  toId[c] \in valIndex'[v] \/ \E u \in Threads : pc'[u] = "index" /\ mine[u].set = c
    BY DEF IndexCovers
  <2>1. v \in Ids
    BY DEF IInv, TypeInv
  <2>2. toId[c] \in valIndex[v] \/ \E u \in Threads : pc[u] = "index" /\ mine[u].set = c
    BY DEF IInv, MapsInv, IndexCovers
  <2>3. CASE toId[c] \in valIndex[v]
    BY <1>4, <2>1, <2>3
  <2>4. ASSUME NEW u \in Threads, pc[u] = "index" /\ mine[u].set = c
        PROVE  toId[c] \in valIndex'[v] \/ \E s \in Threads : pc'[s] = "index" /\ mine[s].set = c
    BY <1>2, <1>3, <1>4, <2>1, <2>4
  <2> QED
    BY <2>2, <2>3, <2>4
<1>8. MapsInv'
  BY <1>1, <1>7 DEF IInv, MapsInv, Canonical
<1>9. ThreadsInv'
  BY <1>1, <1>2 DEF IInv, ThreadsInv
<1>10. CursorInv' /\ RowsInv'
  BY <1>8, CursorKept, RowsKept, MapsTwoWay DEF IInv
<1> QED
  BY <1>5, <1>6, <1>8, <1>9, <1>10 DEF IInv

\* A thread that came second takes the id of the first.
LEMMA LostIInv == ASSUME IInv, NEW t \in Threads, Lost(t) PROVE IInv'
<1> USE DEF Lost, loop
<1> DEFINE id == mine[t].id
<1>1. Rep' = Rep /\ Displaced' = Displaced /\ Out' = Out /\ Hot' = Hot /\ Named' = Named /\ Alive' = Alive
  BY Kept
<1>2. /\ pc[t] = "lost" /\ mine[t].set \in DOMAIN toId /\ id \notin Named
  BY DEF IInv, ThreadsInv
<1>3. toId[mine[t].set] \in Named /\ toId[mine[t].set] \in Ids
  BY <1>2 DEF Named, IInv, TypeInv
<1>4. /\ mine' \in [Threads -> [key : Ids, set : SUBSET Ids, id : Ids \cup {None}]]
      /\ \A u \in Threads : /\ mine'[u].key = mine[u].key /\ mine'[u].set = mine[u].set
                            /\ mine'[u].id = IF u = t THEN toId[mine[t].set] ELSE mine[u].id
  BY <1>3, GotIs DEF IInv
<1>5. /\ pc' \in [Threads -> Places]
      /\ \A u \in Threads : pc'[u] = IF u = t THEN "set" ELSE pc[u]
  BY GotoIs DEF IInv, Places
<1>6. /\ DOMAIN toContainer' = DOMAIN toContainer \ {id}
      /\ \A i \in DOMAIN toContainer' : toContainer'[i] = toContainer[i]
      /\ toContainer' = [i \in DOMAIN toContainer' |-> toContainer'[i]]
  BY DEF Restrict
<1>7. TypeInv'
  BY <1>1, <1>4, <1>5, <1>6 DEF IInv, TypeInv
<1>8. IdsInv'
  <2>1. \A v : Known(v)' = Known(v)
    BY <1>1 DEF Known
  <2>2. \A u \in Threads : \A v \in mine'[u].set : Known(v)
    BY <1>4 DEF IInv, IdsInv
  <2>3. \A u \in Threads : pc'[u] = "set" => mine'[u].id \in Named
    BY <1>3, <1>4, <1>5 DEF IInv, IdsInv
  <2> QED
    BY <1>1, <2>1, <2>2, <2>3 DEF IInv, IdsInv
<1>9. IndexCovers'
  BY <1>2, <1>4, <1>5 DEF IInv, MapsInv, IndexCovers
<1>10. MapsInv'
  <2>1. \A c \in DOMAIN toId : toId[c] \in DOMAIN toContainer' /\ toContainer'[toId[c]] = c
    BY <1>2, <1>6 DEF IInv, MapsInv, Named
  <2>2. phase = "rules"
    BY <1>2 DEF IInv, ThreadsInv
  <2>3. queue' = {}
    BY <2>2 DEF IInv, CursorInv
  <2> HIDE DEF Lost, loop
  <2>4. toId' = toId
    BY DEF Lost
  <2> QED
    BY <1>9, <2>1, <2>3, <2>4 DEF MapsInv
<1>11. ThreadsInv'
  <2>1. \A u \in Threads : u # t /\ pc[u] \in {"enter", "lost"} => mine[u].id # id
    BY <1>2 DEF IInv, ThreadsInv
  <2>2. ASSUME NEW u \in Threads
        PROVE  /\ phase # "rules" => pc'[u] = "idle"
               /\ pc'[u] # "idle" => /\ mine'[u].key \notin Displaced
                                     /\ mine'[u].set \cap Displaced = {}
                                     /\ mine'[u].set # {}
    BY <1>2, <1>4, <1>5 DEF IInv, ThreadsInv
  <2>3. ASSUME NEW u \in Threads
        PROVE  pc'[u] \in {"enter", "lost"} =>
                 /\ mine'[u].id \in Ids \ (Named \cup Elems) /\ mine'[u].id < next
                 /\ Rep[mine'[u].id] = mine'[u].id
                 /\ \A s \in Threads : s # u /\ pc'[s] \in {"enter", "lost"} => mine'[s].id # mine'[u].id
    BY <1>4, <1>5 DEF IInv, ThreadsInv
  <2>4. ASSUME NEW u \in Threads
        PROVE  pc'[u] = "enter" =>
                 mine'[u].id \in DOMAIN toContainer' /\ toContainer'[mine'[u].id] = mine'[u].set
    <3>1. pc'[u] = "enter" => u # t /\ pc[u] = "enter"
      BY <1>5
    <3>2. pc[u] = "enter" => /\ mine[u].id \in DOMAIN toContainer
                             /\ toContainer[mine[u].id] = mine[u].set
      BY DEF IInv, ThreadsInv
    <3>3. u # t => mine'[u].id = mine[u].id /\ mine'[u].set = mine[u].set
      BY <1>4
    <3> HIDE DEF Lost, loop
    <3> QED
      BY <1>6, <2>1, <3>1, <3>2, <3>3
  <2>5. ASSUME NEW u \in Threads
        PROVE  /\ pc'[u] \in {"lost", "index", "set"} => mine'[u].set \in DOMAIN toId
               /\ pc'[u] \in {"index", "set"} => toId[mine'[u].set] = mine'[u].id
    BY <1>2, <1>4, <1>5 DEF IInv, ThreadsInv
  <2> HIDE DEF Lost, loop
  <2>6. UNCHANGED <<phase, toId, next>>
    BY DEF Lost, loop
  <2> QED
    BY <1>1, <2>2, <2>3, <2>4, <2>5, <2>6 DEF ThreadsInv
<1>12. CursorInv' /\ RowsInv'
  BY <1>10, CursorKept, RowsKept, MapsTwoWay DEF IInv
<1> QED
  BY <1>7, <1>8, <1>10, <1>11, <1>12 DEF IInv

\* The row with the container is staged.
LEMMA SetRowIInv == ASSUME IInv, NEW t \in Threads, SetRow(t) PROVE IInv'
<1> USE DEF SetRow, loop, env
<1>1. Rep' = Rep /\ Displaced' = Displaced /\ Out' = Out /\ Hot' = Hot /\ Named' = Named /\ Alive' = Alive
  BY Kept
<1>2. /\ pc[t] = "set" /\ phase = "rules" /\ mine[t].id \in Named
      /\ mine[t].key \notin Displaced /\ mine[t].key \in Ids
  BY DEF IInv, ThreadsInv, IdsInv, TypeInv
<1>3. /\ Rep = canon /\ Alive = Named /\ cursor = Displaced
      /\ \A x \in Named : x \in Ids /\ x \notin Displaced
  BY <1>2, RulesFacts DEF Named
<1>4. Rep[mine[t].id] = mine[t].id
  BY <1>2, <1>3 DEF Displaced
<1>5. PICK row : row = [key |-> mine[t].key, val |-> mine[t].id]
  OBVIOUS
<1>6. /\ staged' = staged \cup {row}
      /\ row \in [key : Ids, val : Ids] /\ row.key = mine[t].key /\ row.val = mine[t].id
  BY <1>2, <1>3, <1>5
<1>7. /\ pc' \in [Threads -> Places]
      /\ \A u \in Threads : pc'[u] = IF u = t THEN "idle" ELSE pc[u]
  BY GotoIs DEF IInv, Places
<1>8. PICK none : none = Idle
  OBVIOUS
<1>9. none \in [key : Ids, set : SUBSET Ids, id : Ids \cup {None}] /\ none.set = {}
  BY <1>8, ElemsFirst DEF Idle, Ids
<1>10. /\ mine' \in [Threads -> [key : Ids, set : SUBSET Ids, id : Ids \cup {None}]]
       /\ \A u \in Threads : IF u = t THEN mine'[u] = none ELSE mine'[u] = mine[u]
  <2>1. /\ mine \in [Threads -> [key : Ids, set : SUBSET Ids, id : Ids \cup {None}]]
        /\ mine' = [mine EXCEPT ![t] = none]
    BY <1>8 DEF IInv, TypeInv
  <2> QED
    BY <1>9, <2>1
<1>11. TypeInv'
  BY <1>1, <1>6, <1>7, <1>10 DEF IInv, TypeInv
<1>12. IdsInv'
  <2>1. \A v : Known(v)' = Known(v)
    BY <1>1 DEF Known
  <2>2. \A u \in Threads : \A v \in mine'[u].set : Known(v)
    BY <1>9, <1>10 DEF IInv, IdsInv
  <2>3. \A u \in Threads : pc'[u] = "set" => mine'[u].id \in Named
    BY <1>7, <1>10 DEF IInv, IdsInv
  <2>4. \A r \in staged' : Rep[r.val] \in Alive
    BY <1>2, <1>3, <1>4, <1>6 DEF IInv, IdsInv
  <2> QED
    BY <1>1, <2>1, <2>2, <2>3, <2>4 DEF IInv, IdsInv
<1>13. IndexCovers'
  BY <1>2, <1>7, <1>10 DEF IInv, MapsInv, IndexCovers
<1>14. MapsInv'
  BY <1>1, <1>13 DEF IInv, MapsInv, Canonical
<1>15. ThreadsInv'
  BY <1>1, <1>2, <1>7, <1>10 DEF IInv, ThreadsInv
<1>16. CursorInv'
  <2>1. \A r \in staged' : r.key \notin cursor /\ r.val \notin cursor
    BY <1>2, <1>3, <1>6 DEF IInv, CursorInv
  <2> QED
    BY <1>1, <1>2, <2>1 DEF IInv, CursorInv
<1>17. RowsInv'
  BY <1>14, RowsKept, MapsTwoWay DEF IInv
<1> QED
  BY <1>11, <1>12, <1>14, <1>15, <1>16, <1>17 DEF IInv

\* A step of a thread.
LEMMA InternIInv == ASSUME IInv, NEW t \in Threads, Intern(t) PROVE IInv'
BY CallInternIInv, FindKnownIInv, FindFreshIInv, EnterIInv, AddToIndexIInv, LostIInv, SetRowIInv
   DEF Intern

\* An iteration ends.
LEMMA EndRulesIInv == ASSUME IInv, EndRules PROVE IInv'
<1> USE DEF EndRules, env
<1>1. /\ Rep = canon /\ Alive = Named /\ cursor = Displaced /\ queue = {} /\ Out = {} /\ Hot = {}
      /\ summary.dirty = {}
  BY RulesFacts
<1>2. Displaced' = Displaced /\ Named' = Named /\ Alive' = Alive
  BY DEF Displaced, Named, Alive, Out
<1>3. \A p \in unions' : /\ p \in Ids \X Ids /\ p[1] \in Elems /\ p[2] \in Elems
                         /\ canon[p[1]] = p[1] /\ canon[p[2]] = p[2]
  <2>1. unions' \subseteq (Elems \ Displaced) \X (Elems \ Displaced)
    BY DEF NewUnions
  <2>2. \A v \in Elems \ Displaced : v \in Ids /\ canon[v] = v
    BY ElemsFirst DEF Displaced
  <2> QED
    BY <2>1, <2>2
<1>4. CanonOK(canon) /\ canon' = canon /\ unions' \subseteq Ids \X Ids
  BY <1>3 DEF IInv, TypeInv
<1>5. \A v \in Ids : canon[v] \notin Elems => Rep'[v] = Rep[v]
  <2>1. Ends(canon, unions') \subseteq Elems
    BY <1>3 DEF Ends
  <2>2. \A v \in Ids : canon[v] \notin Elems => Join(canon, unions')[v] = canon[v]
    BY <1>4, <2>1, JoinAway
  <2> QED
    BY <1>1, <1>4, <2>2 DEF Rep
<1>6. /\ rows' = [k \in DOMAIN rows |-> rows'[k]] /\ DOMAIN rows' = DOMAIN rows
      /\ \A k \in DOMAIN rows : rows'[k] \in [val : Ids, new : BOOLEAN] /\ rows'[k].val = rows[k].val
  <2>1. ASSUME NEW k \in DOMAIN rows
        PROVE  /\ [rows[k] EXCEPT !.new = FALSE] \in [val : Ids, new : BOOLEAN]
               /\ [rows[k] EXCEPT !.new = FALSE].val = rows[k].val
    <3>1. rows[k] \in [val : Ids, new : BOOLEAN]
      BY DEF IInv, TypeInv
    <3> QED
      BY <3>1
  <2> QED
    BY <2>1
<1>7. \A x \in Alive : /\ x \in Ids /\ x \notin Elems /\ x < next /\ Rep[x] = x
  BY DEF IInv, IdsInv, Alive, Named, Out, TypeInv
<1>8. \A v \in Ids : Rep[v] \in Alive => Rep'[v] = Rep[v]
  BY <1>1, <1>5, <1>7
<1>9. TypeInv'
  BY <1>2, <1>4, <1>6 DEF IInv, TypeInv, Phases
<1>10. IdsInv'
  <2>1. \A v \in Ids : Known(v) => Known(v)'
    BY <1>2, <1>8 DEF Known
  <2>2. \A x \in Alive : Rep'[x] = x
    BY <1>7, <1>8
  <2>3. \A v \in Ids : next <= v => Rep'[v] = v
    <3> SUFFICES ASSUME NEW v \in Ids, next <= v PROVE Rep'[v] = v
      OBVIOUS
    <3>1. Rep[v] = v
      BY DEF IInv, IdsInv
    <3>2. next \in Nat /\ Cardinality(Elems) <= next /\ v \in Nat
      BY ElemsFirst, IdsAreNats DEF IInv, TypeInv
    <3>3. v \notin Elems
      BY <3>2, ElemsFirst
    <3> QED
      BY <1>1, <1>5, <3>1, <3>3
  <2>4. \A p \in unions' : p[1] < next /\ p[2] < next
    <3> SUFFICES ASSUME NEW v \in Elems PROVE v < next
      BY <1>3
    <3>1. next \in Nat /\ Cardinality(Elems) <= next /\ v \in Nat
      BY ElemsFirst, IdsAreNats DEF IInv, TypeInv
    <3> QED
      BY <3>1, ElemsFirst
  <2>5. /\ \A c \in DOMAIN toId : c # {} /\ \A v \in c : v \in Ids /\ Known(v)
        /\ \A u \in Threads : \A v \in mine[u].set : v \in Ids /\ Known(v)
        /\ \A u \in Threads : pc[u] = "set" => mine[u].id \in Named
    BY DEF IInv, IdsInv, TypeInv
  <2>6. \A k \in DOMAIN rows' : Rep'[rows'[k].val] \in Alive
    BY <1>6, <1>8 DEF IInv, IdsInv, TypeInv
  <2>7. \A r \in staged : r.val \in Ids /\ Rep'[r.val] \in Alive
    BY <1>8 DEF IInv, IdsInv, TypeInv
  <2> HIDE DEF EndRules, env
  <2>8. UNCHANGED <<toId, queue, mine, next, staged, pc>>
    BY DEF EndRules, env
  <2> QED
    BY <1>1, <1>2, <1>7, <2>1, <2>2, <2>3, <2>4, <2>5, <2>6, <2>7, <2>8 DEF IdsInv
<1>11. MapsInv'
  BY <1>1 DEF IInv, MapsInv, IndexCovers
<1>12. ThreadsInv'
  BY DEF ThreadsInv
<1>13. CursorInv'
  BY <1>1, <1>2, <1>6 DEF IInv, CursorInv
<1>14. RowsInv'
  <2>1. \A i : Meaning(i)' = Meaning(i)
    BY InNow, InNext
  <2>2. \A k \in DOMAIN rows : k \in DOMAIN matched' /\ matched'[k] = Meaning(rows[k].val)
    OBVIOUS
  <2> HIDE DEF EndRules, env
  <2> QED
    BY <1>6, <2>1, <2>2 DEF RowsInv
<1> QED
  BY <1>9, <1>10, <1>11, <1>12, <1>13, <1>14 DEF IInv

-----------------------------------------------------------------------------
(* Merging *)

\* No thread is busy when rules do not run.
LEMMA ThreadsIdle ==
  ASSUME ThreadsInv, phase # "rules", UNCHANGED <<pc, mine>>
  PROVE  ThreadsInv'
<1>1. \A t \in Threads : pc[t] = "idle"
  BY DEF ThreadsInv
<1> QED
  BY <1>1 DEF ThreadsInv

\* The staged unions are merged.
LEMMA MergeUnionsIInv == ASSUME IInv, MergeUnions PROVE IInv'
<1> USE DEF MergeUnions, env
<1>1. CanonOK(canon') /\ CanonOK(Rep) /\ canon' = Rep
  BY RepIs DEF Rep, IInv
<1>2. Rep' = Rep
  <2>1. Join(canon', {}) = canon'
    BY <1>1, JoinNone
  <2> QED
    BY <1>1, <2>1 DEF Rep
<1>3. Displaced \subseteq Displaced'
  BY <1>1, RepIs DEF Displaced, IInv
<1>4. /\ summary' \in [changed : BOOLEAN, dirty : SUBSET Ids, rows : BOOLEAN]
      /\ summary'.dirty = summary.dirty /\ summary'.rows = (summary.rows \/ canon' # canon)
  <2>1. summary \in [changed : BOOLEAN, dirty : SUBSET Ids, rows : BOOLEAN]
    BY DEF IInv, TypeInv
  <2>2. PICK b \in BOOLEAN : b = (summary.rows \/ canon' # canon)
    BY <2>1
  <2>3. summary' = [summary EXCEPT !.rows = b]
    BY <2>2
  <2> QED
    BY <2>1, <2>2, <2>3
<1>5. Named' = Named /\ Out' = Out /\ Alive' = Alive /\ Hot' = Hot
  BY <1>4 DEF Named, Out, Alive, Hot
<1>6. queue = {} /\ queue' = {} /\ phase' = phase
  BY DEF IInv, CursorInv
<1>7. TypeInv'
  BY <1>1, <1>3, <1>4 DEF IInv, TypeInv
<1>8. IdsInv'
  <2>1. \A v : Known(v)' = Known(v)
    BY <1>2, <1>5 DEF Known
  <2> QED
    BY <1>2, <1>5, <1>6, <2>1 DEF IInv, IdsInv
<1>9. MapsInv'
  BY <1>6 DEF IInv, MapsInv, IndexCovers
<1>10. ThreadsInv'
  BY ThreadsIdle DEF IInv
<1>11. CursorInv'
  <2>1. canon' = canon => Displaced' = Displaced
    BY DEF Displaced
  <2> QED
    BY <1>4, <1>6, <2>1 DEF IInv, CursorInv
<1>12. RowsInv'
  <2>1. \A i : Contents(i)' = Contents(i) /\ Meaning(i)' = Meaning(i)
    BY InNow, InNext
  <2> QED
    BY <1>2, <1>5, <2>1 DEF IInv, RowsInv
<1> QED
  BY <1>7, <1>8, <1>9, <1>10, <1>11, <1>12 DEF IInv

\* A staged row is merged.
LEMMA MergeRowIInv == ASSUME IInv, MergeRow PROVE IInv'
<1> USE DEF MergeRow, env
<1>1. PICK row \in staged :
        /\ staged' = staged \ {row}
        /\ \/ /\ row.key \in DOMAIN rows
              /\ UNCHANGED <<rows, summary>>
           \/ /\ row.key \notin DOMAIN rows
              /\ rows' = With(rows, row.key, [val |-> row.val, new |-> TRUE])
              /\ summary' = [summary EXCEPT !.rows = TRUE]
  OBVIOUS
<1>2. /\ summary' \in [changed : BOOLEAN, dirty : SUBSET Ids, rows : BOOLEAN]
      /\ summary'.dirty = summary.dirty /\ (~summary'.rows => ~summary.rows)
  <2>1. summary \in [changed : BOOLEAN, dirty : SUBSET Ids, rows : BOOLEAN]
    BY DEF IInv, TypeInv
  <2> HIDE DEF MergeRow, env
  <2>2. summary' = summary \/ summary' = [summary EXCEPT !.rows = TRUE]
    BY <1>1
  <2> QED
    BY <2>1, <2>2
<1>3. /\ rows' \in [DOMAIN rows' -> [val : Ids, new : BOOLEAN]] /\ DOMAIN rows' \subseteq Ids
      /\ \A k \in DOMAIN rows' : \/ k \in DOMAIN rows /\ rows'[k] = rows[k]
                                 \/ k = row.key /\ rows'[k].val = row.val /\ rows'[k].new
  <2>1. row.key \in Ids /\ row.val \in Ids
    BY DEF IInv, TypeInv
  <2>2. rows \in [DOMAIN rows -> [val : Ids, new : BOOLEAN]] /\ DOMAIN rows \subseteq Ids
    BY DEF IInv, TypeInv
  <2>3. CASE UNCHANGED rows
    BY <2>2, <2>3
  <2>4. CASE rows' = With(rows, row.key, [val |-> row.val, new |-> TRUE])
    <3>1. PICK new : new = [val |-> row.val, new |-> TRUE]
      OBVIOUS
    <3>2. new \in [val : Ids, new : BOOLEAN] /\ new.val = row.val /\ new.new
      BY <2>1, <3>1
    <3>3. rows' = [z \in DOMAIN rows \cup {row.key} |-> IF z = row.key THEN new ELSE rows[z]]
      BY <2>4, <3>1 DEF With
    <3> HIDE DEF MergeRow, env
    <3> QED
      BY <2>1, <2>2, <3>2, <3>3
  <2> QED
    BY <1>1, <2>3, <2>4
<1>4. Rep' = Rep /\ Displaced' = Displaced /\ Named' = Named /\ Out' = Out /\ Alive' = Alive /\ Hot' = Hot
  BY <1>2 DEF Rep, Displaced, Named, Out, Alive, Hot
<1>5. queue = {} /\ queue' = {} /\ phase' = phase
  BY DEF IInv, CursorInv
<1>6. TypeInv'
  <2>1. staged' \subseteq staged
    BY <1>1
  <2>2. UNCHANGED <<canon, cursor, unions, next, toId, toContainer, valIndex, pc, mine, phase, queue>>
    OBVIOUS
  <2> HIDE DEF MergeRow, env
  <2> QED
    BY <1>2, <1>3, <1>4, <2>1, <2>2 DEF IInv, TypeInv
<1>7. IdsInv'
  <2>1. \A v : Known(v)' = Known(v)
    BY <1>4 DEF Known
  <2>2. \A k \in DOMAIN rows' : Rep[rows'[k].val] \in Alive
    BY <1>3 DEF IInv, IdsInv
  <2> QED
    BY <1>1, <1>4, <1>5, <2>1, <2>2 DEF IInv, IdsInv
<1>8. MapsInv'
  BY <1>5 DEF IInv, MapsInv, IndexCovers
<1>9. ThreadsInv'
  BY ThreadsIdle DEF IInv
<1>10. CursorInv'
  <2>1. \A k \in DOMAIN rows' : k \notin cursor /\ rows'[k].val \notin cursor
    <3>1. /\ \A k \in DOMAIN rows : k \notin cursor /\ rows[k].val \notin cursor
          /\ row.key \notin cursor /\ row.val \notin cursor
      BY DEF IInv, CursorInv
    <3> QED
      BY <1>3, <3>1
  <2> QED
    BY <1>1, <1>2, <1>4, <1>5, <2>1 DEF IInv, CursorInv
<1>11. RowsInv'
  <2>1. \A i : Contents(i)' = Contents(i) /\ Meaning(i)' = Meaning(i)
    BY InNow, InNext
  <2>2. \A k \in DOMAIN rows' : ~rows'[k].new => k \in DOMAIN rows /\ rows'[k] = rows[k]
    BY <1>3
  <2> QED
    BY <1>4, <1>5, <2>1, <2>2 DEF IInv, RowsInv
<1> QED
  BY <1>6, <1>7, <1>8, <1>9, <1>10, <1>11 DEF IInv

\* All is merged, and the rebuild begins if ids have been displaced.
LEMMA MergeDoneIInv == ASSUME IInv, MergeDone PROVE IInv'
<1> USE DEF MergeDone, env
<1>1. Rep' = Rep /\ Displaced' = Displaced /\ Named' = Named /\ Out' = Out /\ Alive' = Alive
  BY DEF Rep, Displaced, Named, Out, Alive
<1>2. queue = {} /\ unions = {} /\ summary.dirty = {} /\ summary'.dirty = {} /\ Hot' = {} /\ Hot = {}
  <2>1. queue = {} /\ unions = {} /\ summary.dirty = {} /\ summary'.dirty = {}
    BY DEF IInv, CursorInv, Merged, NoSummary
  <2> QED
    BY <2>1 DEF Hot, Out
<1>3. phase' \in {"rules", "containers"} /\ (phase' = "rules" => cursor = Displaced)
  BY DEF IInv, TypeInv, Displaced
<1>4. TypeInv'
  BY <1>1, <1>3 DEF IInv, TypeInv, NoSummary, Phases
<1>5. IdsInv'
  <2>1. \A v : Known(v)' = Known(v)
    BY <1>1 DEF Known
  <2> QED
    BY <1>1, <2>1 DEF IInv, IdsInv
<1>6. MapsInv'
  BY <1>2 DEF IInv, MapsInv, IndexCovers
<1>7. ThreadsInv'
  BY ThreadsIdle DEF IInv
<1>8. CursorInv'
  BY <1>1, <1>2, <1>3 DEF IInv, CursorInv
<1>9. RowsInv'
  <2>1. \A i : Contents(i)' = Contents(i) /\ Meaning(i)' = Meaning(i)
    BY InNow, InNext
  <2> QED
    BY <1>1, <1>2, <2>1 DEF IInv, RowsInv
<1> QED
  BY <1>4, <1>5, <1>6, <1>7, <1>8, <1>9 DEF IInv

-----------------------------------------------------------------------------
(* Rebuilding containers *)

\* The rows, as the steps of the rebuild see them.
LEMMA RowsFit ==
  ASSUME TypeInv, RowsInv, NEW k \in DOMAIN rows, ~rows[k].new
  PROVE  /\ k \in DOMAIN matched /\ rows[k].val \in Ids
         /\ Fits(rows[k].val, matched[k], Rep, Hot, toId, toContainer)
BY InNow DEF TypeInv, RowsInv, Fits

\* And as they leave them.
LEMMA RowsStay ==
  ASSUME TypeInv, TwoWay(toId, toContainer), TwoWay(toId', toContainer'), RowsInv,
         UNCHANGED <<rows, matched>>, phase' = "reinsert",
         \A v \in Ids : Rep[v] # v => Rep'[v] # v,
         \A v \in Hot : v \in Hot' \/ Rep'[v] # v,
         NEW X, \A v \in X : v \in Hot' \/ Rep'[v] # v,
         \A i : i \notin X =>
           \A c : (c \in DOMAIN toId /\ toId[c] = i) <=> (c \in DOMAIN toId' /\ toId'[c] = i)
  PROVE  RowsInv'
<1> SUFFICES ASSUME NEW k \in DOMAIN rows, ~rows[k].new
             PROVE  /\ k \in DOMAIN matched
                    /\ Fits(rows[k].val, matched[k], Rep', Hot', toId', toContainer')
  BY InNext DEF RowsInv, Fits
<1>1. /\ k \in DOMAIN matched /\ rows[k].val \in Ids
      /\ Fits(rows[k].val, matched[k], Rep, Hot, toId, toContainer)
  BY RowsFit
<1>2. \A i : i \notin X => In(toId', toContainer', i) = In(toId, toContainer, i)
  BY InSame
<1>3. In(toId, toContainer, rows[k].val) \subseteq Ids
  BY InIs DEF TypeInv
<1>4. Carries(X, Rep, Hot, toId, toContainer, Rep', Hot', toId', toContainer')
  BY <1>2 DEF Carries
<1> QED
  BY <1>1, <1>3, <1>4, FitsStays

\* What becomes of a known id is known.
LEMMA KnownCanonical ==
  ASSUME TypeInv, NEW v \in Ids, Known(v)
  PROVE  canon[v] \in Ids /\ Known(canon[v])
<1>1. canon[v] \in Ids /\ canon[v] <= v /\ Rep[canon[v]] = Rep[v]
  BY RepIs DEF CanonOK
<1>2. v \in Elems => canon[v] \in Elems
  BY <1>1, ElemsFirst
<1> QED
  BY <1>1, <1>2 DEF Known

\* A container is canonical if it has no displaced ids in it.
LEMMA CanonicalIs ==
  ASSUME CanonOK(canon), NEW c \in SUBSET Ids
  PROVE  /\ Canonical(c) = c <=> c \cap Displaced = {}
         /\ Canonical(c) \in SUBSET Ids
         /\ Canonical(Canonical(c)) = Canonical(c)
         /\ c # {} => Canonical(c) # {}
<1>1. \A v \in Ids : canon[v] \in Ids /\ canon[canon[v]] = canon[v]
  BY DEF CanonOK
<1>2. ASSUME Canonical(c) = c PROVE c \cap Displaced = {}
  <2>1. \A v \in c : \E u \in c : v = canon[u]
    BY <1>2 DEF Canonical
  <2> QED
    BY <1>1, <2>1 DEF Displaced
<1>3. ASSUME c \cap Displaced = {} PROVE Canonical(c) = c
  <2>1. \A v \in c : canon[v] = v
    BY <1>3 DEF Displaced
  <2> QED
    BY <2>1 DEF Canonical
<1>4. Canonical(c) \in SUBSET Ids /\ \A v \in Canonical(c) : canon[v] = v
  BY <1>1 DEF Canonical
<1>5. Canonical(Canonical(c)) = Canonical(c)
  <2>1. Canonical(Canonical(c)) = {canon[v] : v \in Canonical(c)}
    BY DEF Canonical
  <2> QED
    BY <1>4, <2>1
<1>6. c # {} => Canonical(c) # {}
  BY DEF Canonical
<1> QED
  BY <1>2, <1>3, <1>4, <1>5, <1>6

\* Before the rebuild, the ids of containers are their own, and nothing is staged.
LEMMA BeforeScan ==
  ASSUME IInv, phase = "containers"
  PROVE  /\ Rep = canon /\ unions = {} /\ queue = {} /\ Out = {} /\ Hot = {} /\ Alive = Named
         /\ summary.dirty = {}
         /\ \A c \in DOMAIN toId : /\ toId[c] \in Ids \ Elems /\ canon[toId[c]] = toId[c]
                                   /\ c \in SUBSET Ids /\ c # {}
         /\ \A c, d \in DOMAIN toId : toId[c] = toId[d] => c = d
<1>1. unions = {} /\ queue = {} /\ summary.dirty = {}
  BY DEF IInv, CursorInv
<1>2. Rep = canon /\ Out = {} /\ Hot = {} /\ Alive = Named
  BY <1>1, RepIs DEF IInv, Out, Hot, Alive
<1>3. \A c \in DOMAIN toId : toId[c] \in Ids /\ toId[c] \in Alive /\ c \in SUBSET Ids /\ c # {}
  BY <1>2 DEF IInv, TypeInv, IdsInv, Named
<1>4. \A c, d \in DOMAIN toId : toId[c] = toId[d] => c = d
  BY DEF IInv, MapsInv
<1> QED
  BY <1>1, <1>2, <1>3, <1>4 DEF IInv, IdsInv

\* The nonincremental scan takes out the containers that change.
LEMMA ScanAllIInv == ASSUME IInv, ScanAll PROVE IInv'
<1> USE DEF ScanAll
<1> DEFINE moved == {c \in DOMAIN toId : Canonical(c) # c}
           renamed == {c \in DOMAIN toId \ moved : canon[toId[c]] # toId[c]}
           entry(c) == [set |-> Canonical(c), old |-> toId[c], id |-> canon[toId[c]]]
<1>1. /\ Rep = canon /\ unions = {} /\ queue = {} /\ Out = {} /\ Hot = {} /\ Alive = Named
      /\ summary.dirty = {}
      /\ \A c \in DOMAIN toId : /\ toId[c] \in Ids \ Elems /\ canon[toId[c]] = toId[c]
                                /\ c \in SUBSET Ids /\ c # {}
      /\ \A c, d \in DOMAIN toId : toId[c] = toId[d] => c = d
  BY BeforeScan
<1>2. renamed = {}
  BY <1>1
<1>3. /\ toId' = [c \in DOMAIN toId \ moved |-> canon[toId[c]]]
      /\ queue' = {entry(c) : c \in moved}
  OBVIOUS
<1>4. /\ DOMAIN toId' = DOMAIN toId \ moved
      /\ \A c \in DOMAIN toId' : toId'[c] = toId[c]
      /\ toId' \in [DOMAIN toId' -> Ids]
  BY <1>1, <1>3
<1>5. /\ DOMAIN toContainer' = DOMAIN toContainer \ {toId[c] : c \in moved}
      /\ \A i \in DOMAIN toContainer' : toContainer'[i] = toContainer[i]
      /\ toContainer' = [i \in DOMAIN toContainer' |-> toContainer'[i]]
  <2> DEFINE kept == Drop(toContainer, {toId[c] : c \in moved \cup renamed})
  <2>1. toContainer' = [i \in {canon[toId[c]] : c \in renamed} \cup DOMAIN kept |->
                          IF \E c \in renamed : canon[toId[c]] = i
                          THEN CHOOSE c \in renamed : canon[toId[c]] = i ELSE kept[i]]
    OBVIOUS
  <2>2. DOMAIN kept = DOMAIN toContainer \ {toId[c] : c \in moved}
        /\ \A i \in DOMAIN kept : kept[i] = toContainer[i]
    BY <1>2 DEF Drop, Restrict
  <2> HIDE DEF kept, renamed, moved, ScanAll
  <2>3. toContainer' = [i \in DOMAIN kept |-> kept[i]]
    BY <1>2, <2>1
  <2> QED
    BY <2>2, <2>3
<1>6. Rep' = Rep /\ Displaced' = Displaced /\ phase' = "reinsert" /\ cursor' = Displaced
      /\ UNCHANGED <<canon, unions, next, valIndex, rows, staged, pc, mine, matched>>
  BY DEF Rep, Displaced
<1>7. /\ summary' \in [changed : BOOLEAN, dirty : SUBSET Ids, rows : BOOLEAN]
      /\ summary'.dirty = {}
  <2>1. summary \in [changed : BOOLEAN, dirty : SUBSET Ids, rows : BOOLEAN]
    BY DEF IInv, TypeInv
  <2>2. PICK b \in BOOLEAN : b = (moved \cup renamed # {})
    OBVIOUS
  <2>3. summary' = [summary EXCEPT !.changed = b]
    BY <2>2
  <2> QED
    BY <1>1, <2>1, <2>3
<1> HIDE DEF ScanAll
<1>8. CanonOK(canon)
  BY DEF IInv, TypeInv
<1>9. \A c \in moved : /\ entry(c) \in [set : SUBSET Ids, old : Ids, id : Ids]
                       /\ entry(c).set = Canonical(c) /\ entry(c).old = toId[c]
                       /\ entry(c).id = toId[c] /\ entry(c).set # {}
                       /\ Canonical(entry(c).set) = entry(c).set
  <2> TAKE c \in moved
  <2>1. Canonical(c) \in SUBSET Ids /\ Canonical(c) # {} /\ Canonical(Canonical(c)) = Canonical(c)
    BY <1>1, <1>8, CanonicalIs
  <2> QED
    BY <1>1, <2>1
<1> HIDE DEF entry
<1>10. Out' = {toId[c] : c \in moved} /\ Named' = {toId[c] : c \in DOMAIN toId \ moved}
  <2>1. Out' = {e.old : e \in {e \in queue' : e.set # {}}}
    BY DEF Out
  <2>2. Named' = {toId'[c] : c \in DOMAIN toId'}
    BY DEF Named
  <2> QED
    BY <1>3, <1>4, <1>9, <2>1, <2>2
<1>11. Alive' = Alive
  <2>1. Alive' = Named' \cup Out'
    BY DEF Alive
  <2> QED
    BY <1>1, <1>10, <2>1 DEF Named
<1>12. TypeInv'
  <2>1. queue' \subseteq [set : SUBSET Ids, old : Ids, id : Ids]
    BY <1>3, <1>9
  <2>2. DOMAIN toId' \subseteq SUBSET Ids
    BY <1>1, <1>4
  <2> QED
    BY <1>4, <1>5, <1>6, <1>7, <2>1, <2>2 DEF IInv, TypeInv, Phases
<1>13. IdsInv'
  <2>1. \A v : Known(v)' = Known(v)
    BY <1>6, <1>11 DEF Known
  <2>2. \A e \in queue' : \A v \in e.set : Known(v)
    <3> SUFFICES ASSUME NEW c \in moved, NEW v \in Canonical(c) PROVE Known(v)
      BY <1>3, <1>9
    <3>1. PICK u \in c : v = canon[u]
      BY DEF Canonical
    <3>2. u \in Ids /\ Known(u)
      BY <1>1 DEF IInv, IdsInv
    <3> QED
      BY <3>1, <3>2, KnownCanonical DEF IInv
  <2>3. \A t \in Threads : pc[t] = "idle"
    BY DEF IInv, ThreadsInv, ScanAll
  <2>4. \A c \in DOMAIN toId' : c # {} /\ \A v \in c : Known(v)
    BY <1>4 DEF IInv, IdsInv
  <2> QED
    BY <1>6, <1>11, <2>1, <2>2, <2>3, <2>4 DEF IInv, IdsInv
<1>14. MapsInv'
  <2>1. \A c \in DOMAIN toId' : toId'[c] \in DOMAIN toContainer' /\ toContainer'[toId'[c]] = c
    BY <1>1, <1>4, <1>5 DEF IInv, MapsInv
  <2>2. IndexCovers'
    BY <1>4, <1>6 DEF IInv, MapsInv, IndexCovers
  <2>3. \A c : Canonical(c)' = Canonical(c)
    BY <1>6 DEF Canonical
  <2>4. \A e \in queue' : e.id = e.old /\ Canonical(e.set) = e.set /\ e.old \notin Named'
    BY <1>1, <1>3, <1>9, <1>10
  <2>5. \A d, e \in queue' : d.old = e.old => d = e
    BY <1>1, <1>3, <1>9
  <2> QED
    BY <2>1, <2>2, <2>3, <2>4, <2>5 DEF MapsInv
<1>15. ThreadsInv'
  <2>1. phase # "rules"
    BY DEF ScanAll
  <2>2. \A t \in Threads : pc[t] = "idle"
    BY <2>1 DEF IInv, ThreadsInv
  <2> QED
    BY <1>6, <2>2 DEF ThreadsInv
<1>16. CursorInv'
  <2>1. \A c \in DOMAIN toId' : Canonical(c)' = c
    BY <1>4, <1>6 DEF Canonical
  <2> QED
    BY <1>6, <2>1 DEF CursorInv
<1>17. RowsInv'
  <2>1. TwoWay(toId, toContainer) /\ TwoWay(toId', toContainer')
    BY <1>14, MapsTwoWay DEF IInv
  <2>2. Hot' = Out'
    BY <1>7 DEF Hot
  <2>3. \A i : i \notin Out' =>
          \A c : (c \in DOMAIN toId /\ toId[c] = i) <=> (c \in DOMAIN toId' /\ toId'[c] = i)
    BY <1>4, <1>10
  <2> QED
    BY <1>1, <1>6, <2>1, <2>2, <2>3, RowsStay DEF IInv
<1> QED
  BY <1>12, <1>13, <1>14, <1>15, <1>16, <1>17 DEF IInv

\* The incremental scan lists the ids of those that mention an id displaced since the last.
LEMMA ScanRecentIInv == ASSUME IInv, ScanRecent PROVE IInv'
<1> USE DEF ScanRecent, env
<1> DEFINE found == {i \in UNION {Found(v) : v \in Displaced \ cursor} : Resolves(i)}
           entry(i) == [set |-> {}, old |-> i, id |-> canon[i]]
<1>1. /\ Rep = canon /\ unions = {} /\ queue = {} /\ Out = {} /\ Hot = {} /\ Alive = Named
      /\ \A c \in DOMAIN toId : /\ toId[c] \in Ids \ Elems /\ canon[toId[c]] = toId[c]
                                /\ c \in SUBSET Ids /\ c # {}
  BY BeforeScan
<1>2. \A i \in found : i \in Ids /\ canon[i] = i
  BY <1>1 DEF Resolves, Holds
<1>3. queue' = {entry(i) : i \in found}
  OBVIOUS
<1>4. \A i \in found : /\ entry(i) \in [set : SUBSET Ids, old : Ids, id : Ids]
                       /\ entry(i).set = {} /\ entry(i).old = i /\ entry(i).id = i
  BY <1>2
<1>5. Rep' = Rep /\ Displaced' = Displaced /\ Named' = Named
  BY DEF Rep, Displaced, Named
<1>6. \A e \in queue' : e \in [set : SUBSET Ids, old : Ids, id : Ids] /\ e.set = {} /\ e.id = e.old
  BY <1>3, <1>4
<1>7. Out' = {} /\ Alive' = Alive /\ Hot' = Hot
  <2>1. Out' = {}
    BY <1>6 DEF Out
  <2> QED
    BY <1>1, <1>5, <2>1 DEF Alive, Hot
<1>8. TypeInv'
  BY <1>5, <1>6 DEF IInv, TypeInv, Phases
<1>9. IdsInv'
  <2>1. \A v : Known(v)' = Known(v)
    BY <1>5, <1>7 DEF Known
  <2> QED
    BY <1>5, <1>6, <1>7, <2>1 DEF IInv, IdsInv
<1>10. MapsInv'
  BY <1>6 DEF IInv, MapsInv, IndexCovers
<1>11. ThreadsInv'
  BY ThreadsIdle DEF IInv
<1>12. CursorInv'
  <2>1. \A c : Canonical(c)' = Canonical(c)
    BY DEF Canonical
  <2>2. ASSUME NEW c \in DOMAIN toId, Canonical(c) # c
        PROVE  \E e \in queue' : e.set = {} /\ e.old = toId[c]
    <3>1. c \cap Displaced # {} /\ c \cap cursor = {}
      BY <1>1, <2>2, CanonicalIs DEF IInv, TypeInv, CursorInv
    <3>2. PICK v \in c : v \in Displaced \ cursor
      BY <3>1
    <3>3. toId[c] \in valIndex[v]
      BY DEF IInv, MapsInv, IndexCovers, ThreadsInv
    <3>4. Resolves(toId[c])
      BY DEF IInv, MapsInv, Resolves, Holds
    <3>5. toId[c] \in found
      BY <3>2, <3>3, <3>4 DEF Found
    <3> HIDE DEF found, entry
    <3> QED
      BY <1>3, <1>4, <3>5
  <2> HIDE DEF found, entry
  <2> QED
    BY <1>5, <2>1, <2>2 DEF CursorInv
<1>13. RowsInv'
  <2>1. \A i : Contents(i)' = Contents(i) /\ Meaning(i)' = Meaning(i)
    BY InNow, InNext
  <2> QED
    BY <1>5, <1>7, <2>1 DEF IInv, RowsInv
<1> QED
  BY <1>8, <1>9, <1>10, <1>11, <1>12, <1>13 DEF IInv

\* A container goes back: its id, what it is now, the other containers, and whether it changed.
Taken(x, set, ids, changed) ==
  /\ phase = "reinsert" /\ x \in Ids /\ x \in Alive /\ changed \in BOOLEAN
  /\ set \in SUBSET Ids /\ set # {} /\ Canonical(set) = set /\ \A v \in set : Known(v)
  /\ ids \in [DOMAIN ids -> Ids] /\ DOMAIN ids \subseteq DOMAIN toId
  /\ \A c \in DOMAIN ids : ids[c] = toId[c] /\ toId[c] # x
  /\ \A c \in DOMAIN toId \ DOMAIN ids : toId[c] = x
  /\ ~changed => set \in DOMAIN toId \ DOMAIN ids
  /\ queue' \subseteq queue /\ \A e \in queue \ queue' : e.old = x
  /\ x \notin Out' /\ Out' \subseteq Out /\ Out \subseteq Out' \cup (IF changed THEN {x} ELSE {})
  /\ Alive = {ids[c] : c \in DOMAIN ids} \cup {x} \cup Out'
  /\ UNCHANGED <<canon, cursor, next, rows, staged, pc, mine, phase, matched>>

\* The step, when there is a container to put back.
Returns(x, set, ids, changed) ==
  LET res == InsertOwned(set, x, ids, toContainer, valIndex)
  IN  /\ toId' = res.ids /\ toContainer' = res.containers /\ valIndex' = res.index
      /\ unions' = unions \cup res.unions
      /\ summary' = [summary EXCEPT !.changed = @ \/ changed,
                                    !.dirty = @ \cup (IF changed /\ res.id = x THEN {x} ELSE {})]

\* An entry that finds nothing under its id is dropped.
LEMMA SkipIInv ==
  ASSUME IInv, NEW entry \in queue, phase = "reinsert", entry.set = {}, ~Resolves(entry.old),
         queue' = queue \ {entry},
         UNCHANGED <<env, unions, summary, canon, cursor, next, rows, staged, pc, mine, phase, matched>>
  PROVE  IInv'
<1> USE DEF env
<1>1. Out' = Out
  BY DEF Out
<1>2. Rep' = Rep /\ Displaced' = Displaced /\ Named' = Named /\ Alive' = Alive /\ Hot' = Hot
  BY <1>1 DEF Rep, Displaced, Named, Alive, Hot
<1>3. TypeInv'
  BY <1>2 DEF IInv, TypeInv
<1>4. IdsInv'
  <2>1. \A v : Known(v)' = Known(v)
    BY <1>2 DEF Known
  <2> QED
    BY <1>2, <2>1 DEF IInv, IdsInv
<1>5. \A c : Canonical(c)' = Canonical(c)
  BY DEF Canonical
<1>6. MapsInv'
  BY <1>2, <1>5 DEF IInv, MapsInv, IndexCovers
<1>7. ThreadsInv'
  BY ThreadsIdle DEF IInv
<1>8. CursorInv'
  <2>1. \A c \in DOMAIN toId : toId[c] # entry.old
    BY DEF IInv, MapsInv, Resolves, Holds
  <2>2. \A c \in DOMAIN toId : Canonical(c) # c => \E e \in queue' : e.set = {} /\ e.old = toId[c]
    BY <2>1 DEF IInv, CursorInv
  <2> QED
    BY <1>2, <1>5, <2>2 DEF IInv, CursorInv
<1>9. RowsInv'
  <2>1. TwoWay(toId, toContainer) /\ TwoWay(toId', toContainer')
    BY <1>6, MapsTwoWay DEF IInv
  <2>2. \A v \in {} : v \in Hot' \/ Rep'[v] # v
    OBVIOUS
  <2> QED
    BY <1>2, <2>1, <2>2, RowsStay DEF IInv
<1> QED
  BY <1>3, <1>4, <1>6, <1>7, <1>8, <1>9 DEF IInv

\* What Reinsert does with an entry.
LEMMA ReinsertIs ==
  ASSUME IInv, Reinsert
  PROVE  \/ IInv'
         \/ \E x, set, ids, changed : Taken(x, set, ids, changed) /\ Returns(x, set, ids, changed)
<1>1. phase = "reinsert" /\ UNCHANGED <<canon, cursor, next, rows, staged, pc, mine, phase, matched>>
  BY DEF Reinsert
<1>2. PICK entry \in queue :
       LET inPlace == entry.set = {}
           before == IF inPlace THEN Contents(entry.old) ELSE {}
           set == IF inPlace THEN Canonical(before) ELSE entry.set
           changed == ~inPlace \/ set # before
           ids == IF inPlace THEN Drop(toId, {before}) ELSE toId
           containers == IF inPlace /\ entry.id # entry.old
                         THEN Drop(toContainer, {entry.old}) ELSE toContainer
           res == InsertOwned(set, entry.id, ids, containers, valIndex)
       IN  /\ queue' = queue \ {entry}
           /\ IF inPlace /\ ~Resolves(entry.old)
              THEN UNCHANGED <<env, unions, summary>>
              ELSE /\ toId' = res.ids /\ toContainer' = res.containers /\ valIndex' = res.index
                   /\ unions' = unions \cup res.unions
                   /\ summary' = [summary EXCEPT
                        !.changed = @ \/ changed \/ entry.id # entry.old,
                        !.dirty = @ \cup Dirty(entry, res.id, changed)]
  BY DEF Reinsert
<1>3. CASE entry.set = {} /\ ~Resolves(entry.old)
  <2>1. queue' = queue \ {entry} /\ UNCHANGED <<env, unions, summary>>
    BY <1>2, <1>3
  <2> QED
    BY <1>1, <1>3, <2>1, SkipIInv
<1>4. PICK x : x = entry.old
  OBVIOUS
<1>5. x \in Ids /\ entry.id = x
  BY <1>4 DEF IInv, TypeInv, MapsInv
<1>6. CanonOK(canon) /\ toId \in [DOMAIN toId -> Ids] /\ DOMAIN toId \subseteq SUBSET Ids
  BY DEF IInv, TypeInv
<1>7. /\ queue' = queue \ {entry}
      /\ Out' = {e.old : e \in {e \in queue \ {entry} : e.set # {}}}
      /\ Out \cap Named = {}
  BY <1>2 DEF Out, IInv, MapsInv
<1>8. CASE entry.set # {}
  <2>1. PICK set : set = entry.set
    OBVIOUS
  <2>2. Returns(x, set, toId, TRUE)
    <3>1. \A actual : Dirty(entry, actual, TRUE) = IF actual = x THEN {x} ELSE {}
      BY <1>4, <1>5 DEF Dirty
    <3>2. ~(entry.id # entry.old)
      BY <1>4, <1>5
    <3> QED
      BY <1>2, <1>4, <1>5, <1>8, <2>1, <3>1, <3>2 DEF Returns
  <2>3. x \in Out /\ x \notin Named /\ x \notin Out' /\ Out = Out' \cup {x}
    <3>1. \A e \in queue \ {entry} : e.set # {} => e.old # x
      BY <1>4, <1>8 DEF IInv, MapsInv
    <3> QED
      BY <1>4, <1>7, <1>8, <3>1 DEF Out
  <2>4. Alive = {toId[c] : c \in DOMAIN toId} \cup {x} \cup Out'
    BY <2>3 DEF Alive, Named
  <2>5. \A c \in DOMAIN toId : toId[c] # x
    BY <2>3 DEF Named
  <2>6. set \in SUBSET Ids /\ set # {} /\ Canonical(set) = set /\ \A v \in set : Known(v)
    BY <1>8, <2>1 DEF IInv, TypeInv, MapsInv, IdsInv
  <2>7. Taken(x, set, toId, TRUE)
    BY <1>1, <1>4, <1>5, <1>6, <1>7, <2>3, <2>4, <2>5, <2>6 DEF Taken
  <2> QED
    BY <2>2, <2>7
<1>9. CASE entry.set = {} /\ Resolves(entry.old)
  <2>1. PICK b : b = Contents(x)
    OBVIOUS
  <2>2. b \in DOMAIN toId /\ toId[b] = x
    BY <1>4, <1>9, <2>1 DEF Contents, Resolves, Holds
  <2>3. PICK set : set = Canonical(b)
    OBVIOUS
  <2>4. PICK ids : ids = Drop(toId, {b})
    OBVIOUS
  <2>5. PICK changed \in BOOLEAN : changed = (set # b)
    OBVIOUS
  <2>6. Returns(x, set, ids, changed)
    <3>1. \A actual : Dirty(entry, actual, changed) = IF changed /\ actual = x THEN {x} ELSE {}
      BY <1>4, <1>5 DEF Dirty
    <3>2. ~(entry.id # entry.old)
      BY <1>4, <1>5
    <3>3. /\ toId' = InsertOwned(set, x, ids, toContainer, valIndex).ids
          /\ toContainer' = InsertOwned(set, x, ids, toContainer, valIndex).containers
          /\ valIndex' = InsertOwned(set, x, ids, toContainer, valIndex).index
          /\ unions' = unions \cup InsertOwned(set, x, ids, toContainer, valIndex).unions
      BY <1>2, <1>4, <1>5, <1>9, <2>1, <2>3, <2>4
    <3>4. summary' = [summary EXCEPT
            !.changed = @ \/ changed,
            !.dirty = @ \cup Dirty(entry, InsertOwned(set, x, ids, toContainer, valIndex).id, changed)]
      BY <1>2, <1>4, <1>5, <1>9, <2>1, <2>3, <2>4, <2>5
    <3> QED
      BY <3>1, <3>3, <3>4 DEF Returns
  <2>7. Out' = Out /\ x \notin Out'
    BY <1>7, <1>9, <2>2 DEF Out, Named
  <2>8. /\ DOMAIN ids = DOMAIN toId \ {b} /\ ids \in [DOMAIN ids -> Ids]
        /\ \A c \in DOMAIN ids : ids[c] = toId[c] /\ toId[c] # x
    <3>1. \A c \in DOMAIN toId : toId[c] = x => c = b
      BY <2>2 DEF IInv, MapsInv
    <3> QED
      BY <1>6, <2>4, <3>1 DEF Drop, Restrict
  <2>9. x \in Alive /\ Alive = {ids[c] : c \in DOMAIN ids} \cup {x} \cup Out'
    <3>1. Named = {ids[c] : c \in DOMAIN ids} \cup {x}
      BY <2>2, <2>8 DEF Named
    <3> QED
      BY <2>7, <3>1 DEF Alive
  <2>10. set \in SUBSET Ids /\ set # {} /\ Canonical(set) = set
    <3>1. b \in SUBSET Ids /\ b # {}
      BY <1>6, <2>2 DEF IInv, IdsInv
    <3> QED
      BY <1>6, <2>3, <3>1, CanonicalIs
  <2>11. \A v \in set : Known(v)
    <3>1. \A v \in b : v \in Ids /\ Known(v)
      BY <1>6, <2>2 DEF IInv, IdsInv
    <3> QED
      BY <2>3, <3>1, KnownCanonical DEF IInv, Canonical
  <2>12. ~changed => set \in DOMAIN toId \ DOMAIN ids
    BY <2>2, <2>5, <2>8
  <2>13. Taken(x, set, ids, changed)
    <3>1. \A c \in DOMAIN toId \ DOMAIN ids : toId[c] = x
      BY <2>2, <2>8
    <3>2. /\ queue' \subseteq queue /\ \A e \in queue \ queue' : e.old = x
          /\ DOMAIN ids \subseteq DOMAIN toId
      BY <1>4, <1>7, <2>8
    <3>3. Out \subseteq Out' \cup (IF changed THEN {x} ELSE {})
      BY <2>7
    <3> QED
      BY <1>1, <1>5, <2>5, <2>7, <2>8, <2>9, <2>10, <2>11, <2>12, <3>1, <3>2, <3>3 DEF Taken
  <2> QED
    BY <2>6, <2>13
<1> QED
  BY <1>3, <1>8, <1>9

\* The container is back under the id lo, and hi is under lo from now on.
Inserted(x, set, ids, changed, lo, hi) ==
  /\ lo \in Alive /\ hi \in Alive /\ lo \in Ids /\ hi \in Ids /\ lo <= hi
  /\ IF set \in DOMAIN ids THEN lo # hi /\ {lo, hi} = {toId[set], x} ELSE lo = x /\ hi = x
  /\ DOMAIN toId' = DOMAIN ids \cup {set} /\ toId' = [c \in DOMAIN toId' |-> toId'[c]]
  /\ toId'[set] = lo
  /\ \A c \in DOMAIN ids : c # set => toId'[c] = toId[c] /\ toId[c] # lo /\ toId[c] # hi
  /\ toContainer' = [i \in DOMAIN toContainer' |-> toContainer'[i]]
  /\ TwoWay(toId', toContainer')
  /\ valIndex' \in [Ids -> SUBSET Ids] /\ IndexCovers'
  /\ unions' = unions \/ unions' = unions \cup {<<lo, hi>>} \/ unions' = unions \cup {<<hi, lo>>}
  /\ Rep' = Under(Rep, lo, hi)
  /\ summary' \in [changed : BOOLEAN, dirty : SUBSET Ids, rows : BOOLEAN]
  /\ summary.dirty \subseteq summary'.dirty /\ (changed /\ lo = x => x \in summary'.dirty)

\* Nothing is put under anything.
LEMMA UnderItself ==
  ASSUME NEW c, CanonOK(c), NEW x
  PROVE  Under(c, x, x) = c
<1>1. c = [v \in Ids |-> c[v]]
  BY DEF CanonOK
<1>2. Under(c, x, x) = [v \in Ids |-> c[v]]
  BY DEF Under
<1> QED
  BY <1>1, <1>2

\* What is marked.
LEMMA MarkedIs ==
  ASSUME IInv, NEW x \in Ids, NEW changed \in BOOLEAN, NEW lo,
         summary' = [summary EXCEPT !.changed = @ \/ changed,
                                    !.dirty = @ \cup (IF changed /\ lo = x THEN {x} ELSE {})]
  PROVE  /\ summary' \in [changed : BOOLEAN, dirty : SUBSET Ids, rows : BOOLEAN]
         /\ summary.dirty \subseteq summary'.dirty /\ (changed /\ lo = x => x \in summary'.dirty)
<1>1. summary \in [changed : BOOLEAN, dirty : SUBSET Ids, rows : BOOLEAN]
  BY DEF IInv, TypeInv
<1>2. PICK b \in BOOLEAN : b = (summary.changed \/ changed)
  BY <1>1
<1>3. PICK dirty : dirty = summary.dirty \cup (IF changed /\ lo = x THEN {x} ELSE {})
  OBVIOUS
<1>4. summary' = [summary EXCEPT !.changed = b, !.dirty = dirty]
  BY <1>2, <1>3
<1>6. dirty \in SUBSET Ids
  BY <1>1, <1>3
<1>5. summary'.dirty = dirty /\ summary' \in [changed : BOOLEAN, dirty : SUBSET Ids, rows : BOOLEAN]
  BY <1>1, <1>2, <1>4, <1>6
<1> QED
  BY <1>3, <1>5

\* The container is new to the map.
LEMMA InsertNew ==
  ASSUME IInv, NEW x, NEW set, NEW ids, NEW changed,
         Taken(x, set, ids, changed), Returns(x, set, ids, changed), set \notin DOMAIN ids
  PROVE  Inserted(x, set, ids, changed, x, x)
<1>1. InsertOwned(set, x, ids, toContainer, valIndex) =
        [ids |-> With(ids, set, x), containers |-> With(toContainer, x, set),
         index |-> Index(x, set, valIndex), id |-> x, unions |-> {}]
  BY DEF InsertOwned
<1>2. /\ toId' = With(ids, set, x) /\ toContainer' = With(toContainer, x, set)
      /\ valIndex' = Index(x, set, valIndex) /\ unions' = unions
      /\ summary' = [summary EXCEPT !.changed = @ \/ changed,
                                    !.dirty = @ \cup (IF changed /\ x = x THEN {x} ELSE {})]
  BY <1>1 DEF Returns
<1>3. /\ x \in Ids /\ x \in Alive /\ changed \in BOOLEAN /\ DOMAIN ids \subseteq DOMAIN toId
      /\ \A c \in DOMAIN ids : ids[c] = toId[c] /\ toId[c] # x
      /\ canon' = canon /\ phase = "reinsert"
  BY DEF Taken
<1>4. /\ summary' \in [changed : BOOLEAN, dirty : SUBSET Ids, rows : BOOLEAN]
      /\ summary.dirty \subseteq summary'.dirty /\ (changed => x \in summary'.dirty)
  BY <1>2, <1>3, MarkedIs
<1>5. /\ DOMAIN toId' = DOMAIN ids \cup {set} /\ toId' = [c \in DOMAIN toId' |-> toId'[c]]
      /\ toId'[set] = x /\ \A c \in DOMAIN ids : c # set => toId'[c] = toId[c]
  BY <1>2, <1>3 DEF With
<1>6. /\ DOMAIN toContainer' = DOMAIN toContainer \cup {x}
      /\ toContainer' = [i \in DOMAIN toContainer' |-> toContainer'[i]]
      /\ toContainer'[x] = set /\ \A i \in DOMAIN toContainer : i # x => toContainer'[i] = toContainer[i]
  BY <1>2 DEF With
<1>7. TwoWay(toId', toContainer')
  BY <1>3, <1>5, <1>6 DEF IInv, MapsInv, TwoWay
<1>8. valIndex' \in [Ids -> SUBSET Ids] /\ IndexCovers'
  <2>1. /\ \A v \in Ids : valIndex[v] \subseteq valIndex'[v] /\ (v \in set => x \in valIndex'[v])
        /\ valIndex' \in [Ids -> SUBSET Ids]
    <3>1. valIndex \in [Ids -> SUBSET Ids]
      BY DEF IInv, TypeInv
    <3> QED
      BY <1>2, <1>3, <3>1 DEF Index
  <2>2. \A c \in DOMAIN toId : \A v \in c : v \in Ids /\ toId[c] \in valIndex[v]
    BY <1>3 DEF IInv, TypeInv, MapsInv, IndexCovers, ThreadsInv
  <2>3. set \subseteq Ids
    BY DEF Taken
  <2>4. \A c \in DOMAIN toId' : \A v \in c : toId'[c] \in valIndex'[v]
    BY <1>3, <1>5, <2>1, <2>2, <2>3
  <2> QED
    BY <2>1, <2>4 DEF IndexCovers
<1>9. Rep' = Under(Rep, x, x)
  BY <1>2, <1>3, RepIs, UnderItself DEF Rep, IInv
<1>10. x <= x
  BY <1>3, IdsAreNats
<1> QED
  BY <1>2, <1>3, <1>4, <1>5, <1>6, <1>7, <1>8, <1>9, <1>10 DEF Inserted

\* The map has the container, with a smaller id.
LEMMA InsertOld ==
  ASSUME IInv, NEW x, NEW set, NEW ids, NEW changed,
         Taken(x, set, ids, changed), Returns(x, set, ids, changed), set \in DOMAIN ids,
         toId[set] < x
  PROVE  Inserted(x, set, ids, changed, toId[set], x)
<1>1. /\ x \in Ids /\ x \in Alive /\ changed \in BOOLEAN /\ DOMAIN ids \subseteq DOMAIN toId
      /\ \A c \in DOMAIN ids : ids[c] = toId[c] /\ toId[c] # x
      /\ ids = [c \in DOMAIN ids |-> ids[c]]
      /\ canon' = canon /\ phase = "reinsert"
  BY DEF Taken
<1>2. PICK o : o = toId[set]
  OBVIOUS
<1>3. ids[set] = o /\ o \in Ids /\ o \in Alive /\ o < x
  BY <1>1, <1>2 DEF IInv, TypeInv, Alive, Named
<1>4. o \in Nat /\ x \in Nat
  BY <1>1, <1>3, IdsAreNats
<1>5. Min({o, x}) = o /\ o <= x /\ o # x
  <2>1. Min({o, x}) \in {o, x} /\ \A y \in {o, x} : Min({o, x}) <= y
    BY <1>4, MinIsLeast
  <2>2. o <= x /\ o # x /\ ~(x <= o)
    BY <1>3, <1>4
  <2> QED
    BY <2>1, <2>2
<1>6. InsertOwned(set, x, ids, toContainer, valIndex) =
        [ids |-> With(ids, set, o), containers |-> toContainer, index |-> valIndex, id |-> o,
         unions |-> {<<o, x>>}]
  BY <1>3, <1>5, SMT DEF InsertOwned
<1>7. /\ toId' = With(ids, set, o) /\ toContainer' = toContainer
      /\ valIndex' = valIndex /\ unions' = unions \cup {<<o, x>>}
      /\ summary' = [summary EXCEPT !.changed = @ \/ changed,
                                    !.dirty = @ \cup (IF changed /\ o = x THEN {x} ELSE {})]
  BY <1>6 DEF Returns
<1>8. /\ summary' \in [changed : BOOLEAN, dirty : SUBSET Ids, rows : BOOLEAN]
      /\ summary.dirty \subseteq summary'.dirty
  BY <1>1, <1>7, MarkedIs
<1>9. /\ DOMAIN toId' = DOMAIN ids \cup {set} /\ toId' = [c \in DOMAIN toId' |-> toId'[c]]
      /\ toId'[set] = o /\ \A c \in DOMAIN ids : c # set => toId'[c] = toId[c]
  BY <1>1, <1>7 DEF With
<1>10. \A c \in DOMAIN ids : c # set => toId[c] # o /\ toId[c] # x
  BY <1>1, <1>2 DEF IInv, MapsInv
<1>11. TwoWay(toId', toContainer')
  BY <1>1, <1>2, <1>7, <1>9 DEF IInv, MapsInv, TwoWay
<1>12. valIndex' \in [Ids -> SUBSET Ids] /\ IndexCovers'
  <2>1. \A c \in DOMAIN toId : \A v \in c : toId[c] \in valIndex[v]
    BY <1>1 DEF IInv, MapsInv, IndexCovers, ThreadsInv
  <2>2. \A c \in DOMAIN toId' : c \in DOMAIN toId /\ toId'[c] = toId[c]
    BY <1>1, <1>2, <1>9
  <2> QED
    BY <1>7, <2>1, <2>2 DEF IndexCovers, IInv, TypeInv
<1>13. Rep' = Under(Rep, o, x)
  <2>1. Rep[o] = o /\ Rep[x] = x
    BY <1>1, <1>3 DEF IInv, IdsInv
  <2>2. CanonOK(canon) /\ unions \subseteq Ids \X Ids
    BY DEF IInv, TypeInv
  <2>3. PICK pair : pair = <<o, x>>
    OBVIOUS
  <2>4. pair \in {<<o, x>>, <<x, o>>}
    BY <2>3
  <2>5. Join(canon, unions)[o] = o /\ Join(canon, unions)[x] = x
    BY <2>1 DEF Rep
  <2>6. Joinable(canon, unions, o, x, pair)
    BY <1>1, <1>3, <1>5, <2>2, <2>4, <2>5 DEF Joinable
  <2>7. Join(canon, unions \cup {pair}) = Under(Join(canon, unions), o, x)
    BY <2>6, JoinOne
  <2> QED
    BY <1>1, <1>7, <2>3, <2>7 DEF Rep
<1>14. toContainer' = [i \in DOMAIN toContainer' |-> toContainer'[i]]
  BY <1>7 DEF IInv, TypeInv
<1>15. Inserted(x, set, ids, changed, o, x)
  BY <1>1, <1>2, <1>3, <1>5, <1>7, <1>8, <1>9, <1>10, <1>11, <1>12, <1>13, <1>14 DEF Inserted
<1> QED
  BY <1>2, <1>15

\* The map has the container, with a greater id, which gives way.
LEMMA InsertLower ==
  ASSUME IInv, NEW x, NEW set, NEW ids, NEW changed,
         Taken(x, set, ids, changed), Returns(x, set, ids, changed), set \in DOMAIN ids,
         x < toId[set]
  PROVE  Inserted(x, set, ids, changed, x, toId[set])
<1>1. /\ x \in Ids /\ x \in Alive /\ changed \in BOOLEAN /\ DOMAIN ids \subseteq DOMAIN toId
      /\ \A c \in DOMAIN ids : ids[c] = toId[c] /\ toId[c] # x
      /\ canon' = canon /\ phase = "reinsert" /\ set \subseteq Ids
  BY DEF Taken
<1>2. PICK o : o = toId[set]
  OBVIOUS
<1>3. ids[set] = o /\ o \in Ids /\ o \in Alive /\ x < o
  BY <1>1, <1>2 DEF IInv, TypeInv, Alive, Named
<1>4. o \in Nat /\ x \in Nat
  BY <1>1, <1>3, IdsAreNats
<1>5. Min({o, x}) = x /\ x <= o /\ o # x
  <2>1. Min({o, x}) \in {o, x} /\ \A y \in {o, x} : Min({o, x}) <= y
    BY <1>4, MinIsLeast
  <2>2. x <= o /\ o # x /\ ~(o <= x)
    BY <1>3, <1>4
  <2> QED
    BY <2>1, <2>2
<1>6. InsertOwned(set, x, ids, toContainer, valIndex) =
        [ids |-> With(ids, set, x), containers |-> With(Drop(toContainer, {o}), x, set),
         index |-> [v \in Ids |-> IF v \in set THEN (valIndex[v] \ {o}) \cup {x} ELSE valIndex[v]],
         id |-> x, unions |-> {<<o, x>>}]
  <2> DEFINE index == [v \in Ids |-> IF v \in set THEN (valIndex[v] \ {o}) \cup {x} ELSE valIndex[v]]
             low == Min({o, x})
  <2>1. InsertOwned(set, x, ids, toContainer, valIndex) =
          [ids |-> With(ids, set, low),
           containers |-> IF low = o THEN toContainer ELSE With(Drop(toContainer, {o}), low, set),
           index |-> IF low = o THEN valIndex
                     ELSE [v \in Ids |-> IF v \in set THEN (valIndex[v] \ {o}) \cup {low} ELSE valIndex[v]],
           id |-> low, unions |-> IF o = x THEN {} ELSE {<<o, x>>}]
    BY <1>3, Zenon DEF InsertOwned
  <2>2. low = x /\ low # o /\ o # x
    BY <1>5
  <2> HIDE DEF low
  <2> QED
    BY <2>1, <2>2
<1>7. /\ toId' = With(ids, set, x) /\ toContainer' = With(Drop(toContainer, {o}), x, set)
      /\ valIndex' = [v \in Ids |-> IF v \in set THEN (valIndex[v] \ {o}) \cup {x} ELSE valIndex[v]]
      /\ unions' = unions \cup {<<o, x>>}
      /\ summary' = [summary EXCEPT !.changed = @ \/ changed,
                                    !.dirty = @ \cup (IF changed /\ x = x THEN {x} ELSE {})]
  BY <1>6 DEF Returns
<1>8. /\ summary' \in [changed : BOOLEAN, dirty : SUBSET Ids, rows : BOOLEAN]
      /\ summary.dirty \subseteq summary'.dirty /\ (changed => x \in summary'.dirty)
  BY <1>1, <1>7, MarkedIs
<1>9. /\ DOMAIN toId' = DOMAIN ids \cup {set} /\ toId' = [c \in DOMAIN toId' |-> toId'[c]]
      /\ toId'[set] = x /\ \A c \in DOMAIN ids : c # set => toId'[c] = toId[c]
  BY <1>1, <1>7 DEF With
<1>10. \A c \in DOMAIN ids : c # set => toId[c] # o /\ toId[c] # x
  BY <1>1, <1>2 DEF IInv, MapsInv
<1>11. /\ DOMAIN toContainer' = (DOMAIN toContainer \ {o}) \cup {x}
       /\ toContainer' = [i \in DOMAIN toContainer' |-> toContainer'[i]]
       /\ toContainer'[x] = set
       /\ \A i \in DOMAIN toContainer \ {o} : i # x => toContainer'[i] = toContainer[i]
  BY <1>7 DEF With, Drop, Restrict
<1>12. TwoWay(toId', toContainer')
  <2>1. \A c \in DOMAIN toId : toId[c] \in DOMAIN toContainer /\ toContainer[toId[c]] = c
    BY DEF IInv, MapsInv
  <2>2. \A c \in DOMAIN toId' : toId'[c] \in DOMAIN toContainer' /\ toContainer'[toId'[c]] = c
    BY <1>1, <1>9, <1>10, <1>11, <2>1
  <2> QED
    BY <2>2 DEF TwoWay
<1>13. valIndex' \in [Ids -> SUBSET Ids] /\ IndexCovers'
  <2>1. \A c \in DOMAIN toId : \A v \in c : v \in Ids /\ toId[c] \in valIndex[v]
    BY <1>1 DEF IInv, TypeInv, MapsInv, IndexCovers, ThreadsInv
  <2>2. /\ valIndex' \in [Ids -> SUBSET Ids]
        /\ \A v \in Ids : valIndex[v] \ {o} \subseteq valIndex'[v] /\ (v \in set => x \in valIndex'[v])
    <3>1. valIndex \in [Ids -> SUBSET Ids]
      BY DEF IInv, TypeInv
    <3> QED
      BY <1>1, <1>7, <3>1
  <2>3. \A c \in DOMAIN toId' : \A v \in c : toId'[c] \in valIndex'[v]
    BY <1>1, <1>9, <1>10, <2>1, <2>2
  <2> QED
    BY <2>2, <2>3 DEF IndexCovers
<1>14. Rep' = Under(Rep, x, o)
  <2>1. Rep[o] = o /\ Rep[x] = x
    BY <1>1, <1>3 DEF IInv, IdsInv
  <2>2. CanonOK(canon) /\ unions \subseteq Ids \X Ids
    BY DEF IInv, TypeInv
  <2>3. PICK pair : pair = <<o, x>>
    OBVIOUS
  <2>4. pair \in {<<x, o>>, <<o, x>>}
    BY <2>3
  <2>5. Join(canon, unions)[o] = o /\ Join(canon, unions)[x] = x
    BY <2>1 DEF Rep
  <2>6. Joinable(canon, unions, x, o, pair)
    BY <1>1, <1>3, <1>5, <2>2, <2>4, <2>5 DEF Joinable
  <2>7. Join(canon, unions \cup {pair}) = Under(Join(canon, unions), x, o)
    BY <2>6, JoinOne
  <2> QED
    BY <1>1, <1>7, <2>3, <2>7 DEF Rep
<1>15. Inserted(x, set, ids, changed, x, o)
  BY <1>1, <1>2, <1>3, <1>5, <1>7, <1>8, <1>9, <1>10, <1>11, <1>12, <1>13, <1>14 DEF Inserted
<1> QED
  BY <1>2, <1>15

\* The ids there are when a container is back: hi has given way to lo.
LEMMA InsertedAlive ==
  ASSUME IInv, NEW x, NEW set, NEW ids, NEW changed, NEW lo, NEW hi,
         Taken(x, set, ids, changed), Inserted(x, set, ids, changed, lo, hi)
  PROVE  /\ Alive' = (Alive \ {hi}) \cup {lo}
         /\ \A e \in queue' : e.set # {} => e.old \notin Named'
<1>1. /\ DOMAIN ids \subseteq DOMAIN toId
      /\ \A c \in DOMAIN ids : ids[c] = toId[c] /\ toId[c] # x
      /\ queue' \subseteq queue /\ x \notin Out' /\ Out' \subseteq Out
      /\ Alive = {ids[c] : c \in DOMAIN ids} \cup {x} \cup Out'
  BY DEF Taken
<1>2. /\ DOMAIN toId' = DOMAIN ids \cup {set} /\ toId'[set] = lo
      /\ \A c \in DOMAIN ids : c # set => toId'[c] = toId[c] /\ toId[c] # lo /\ toId[c] # hi
      /\ IF set \in DOMAIN ids THEN lo # hi /\ {lo, hi} = {toId[set], x} ELSE lo = x /\ hi = x
  BY DEF Inserted
<1>3. \A c \in DOMAIN toId : toId[c] \notin Out
  BY DEF IInv, MapsInv, Out, Named
<1>4. lo \notin Out' /\ hi \notin Out'
  BY <1>1, <1>2, <1>3
<1>5. Named' = {toId'[c] : c \in DOMAIN toId'} /\ Alive' = Named' \cup Out'
  BY DEF Named, Alive
<1>6. Named' = {ids[c] : c \in DOMAIN ids \ {set}} \cup {lo}
  BY <1>1, <1>2, <1>5
<1>7. \A i \in Out' : i \notin Named'
  BY <1>1, <1>3, <1>4, <1>6
<1>8. \A i : i \in Alive' <=> i \in (Alive \ {hi}) \cup {lo}
  <2> TAKE i
  <2>1. i \in Alive' <=> i = lo \/ i \in Out' \/ \E c \in DOMAIN ids \ {set} : ids[c] = i
    BY <1>5, <1>6
  <2>2. i \in Alive <=> i = x \/ i \in Out' \/ \E c \in DOMAIN ids : ids[c] = i
    BY <1>1
  <2>3. CASE i \in Out'
    BY <1>4, <2>1, <2>2, <2>3
  <2>4. CASE i = lo
    BY <2>1, <2>4
  <2>5. CASE i \notin Out' /\ i # lo /\ i = hi
    BY <1>1, <1>2, <2>1, <2>5
  <2>6. CASE i \notin Out' /\ i # lo /\ i # hi
    BY <1>1, <1>2, <2>1, <2>2, <2>6
  <2> QED
    BY <2>3, <2>4, <2>5, <2>6
<1>9. \A e \in queue' : e.set # {} => e.old \in Out'
  BY DEF Out
<1> QED
  BY <1>7, <1>8, <1>9

\* Putting a container back keeps the invariant.
LEMMA InsertedIInv ==
  ASSUME IInv, NEW x, NEW set, NEW ids, NEW changed, NEW lo, NEW hi,
         Taken(x, set, ids, changed), Inserted(x, set, ids, changed, lo, hi)
  PROVE  IInv'
<1>1. /\ phase = "reinsert" /\ phase' = "reinsert" /\ x \in Ids /\ changed \in BOOLEAN
      /\ set \in SUBSET Ids /\ set # {} /\ Canonical(set) = set /\ \A v \in set : Known(v)
      /\ DOMAIN ids \subseteq DOMAIN toId
      /\ \A c \in DOMAIN ids : ids[c] = toId[c] /\ toId[c] # x
      /\ \A c \in DOMAIN toId \ DOMAIN ids : toId[c] = x
      /\ ~changed => set \in DOMAIN toId \ DOMAIN ids
      /\ queue' \subseteq queue /\ \A e \in queue \ queue' : e.old = x
      /\ Out \subseteq Out' \cup (IF changed THEN {x} ELSE {})
      /\ UNCHANGED <<canon, cursor, next, rows, staged, pc, mine, phase, matched>>
  BY DEF Taken
<1>2. /\ lo \in Alive /\ hi \in Alive /\ lo \in Ids /\ hi \in Ids /\ lo <= hi
      /\ IF set \in DOMAIN ids THEN lo # hi /\ {lo, hi} = {toId[set], x} ELSE lo = x /\ hi = x
      /\ DOMAIN toId' = DOMAIN ids \cup {set} /\ toId' = [c \in DOMAIN toId' |-> toId'[c]]
      /\ toId'[set] = lo
      /\ \A c \in DOMAIN ids : c # set => toId'[c] = toId[c] /\ toId[c] # lo /\ toId[c] # hi
      /\ toContainer' = [i \in DOMAIN toContainer' |-> toContainer'[i]]
      /\ TwoWay(toId', toContainer')
      /\ valIndex' \in [Ids -> SUBSET Ids] /\ IndexCovers'
      /\ unions' = unions \/ unions' = unions \cup {<<lo, hi>>} \/ unions' = unions \cup {<<hi, lo>>}
      /\ summary' \in [changed : BOOLEAN, dirty : SUBSET Ids, rows : BOOLEAN]
      /\ summary.dirty \subseteq summary'.dirty /\ (changed /\ lo = x => x \in summary'.dirty)
  BY DEF Inserted
<1>3. Alive' = (Alive \ {hi}) \cup {lo} /\ \A e \in queue' : e.set # {} => e.old \notin Named'
  BY InsertedAlive
<1>4. Rep' = Under(Rep, lo, hi) /\ Displaced' = Displaced
  BY <1>1 DEF Inserted, Displaced
<1>5. \A v \in Ids : Rep'[v] = IF Rep[v] = hi THEN lo ELSE Rep[v]
  BY <1>4 DEF Under
<1>6. \A v \in Ids : Rep[v] \in Alive => Rep'[v] \in Alive'
  BY <1>3, <1>5
<1>7. \A v \in Ids : Known(v) => Known(v)'
  BY <1>6 DEF Known
<1>8. \A y \in Alive : y \in Ids /\ y \notin Elems /\ y < next /\ Rep[y] = y
  BY DEF IInv, IdsInv, Alive, Named, Out, TypeInv
<1>9. TypeInv'
  <2>1. /\ toId' \in [DOMAIN toId' -> Ids] /\ DOMAIN toId' \subseteq SUBSET Ids
    <3>1. \A c \in DOMAIN toId : toId[c] \in Ids /\ c \in SUBSET Ids
      BY DEF IInv, TypeInv
    <3>2. \A c \in DOMAIN toId' : toId'[c] \in Ids /\ c \in SUBSET Ids
      BY <1>1, <1>2, <3>1
    <3> QED
      BY <1>2, <3>2
  <2>2. unions' \subseteq Ids \X Ids
    BY <1>2 DEF IInv, TypeInv
  <2>3. /\ toContainer' = [i \in DOMAIN toContainer' |-> toContainer'[i]] /\ valIndex' \in [Ids -> SUBSET Ids]
        /\ summary' \in [changed : BOOLEAN, dirty : SUBSET Ids, rows : BOOLEAN]
    BY <1>2
  <2>4. /\ queue' \subseteq queue /\ UNCHANGED <<canon, cursor, next, rows, staged, pc, mine, phase>>
    BY <1>1
  <2> QED
    BY <1>4, <2>1, <2>2, <2>3, <2>4 DEF IInv, TypeInv
<1>10. IdsInv'
  <2>1. \A y \in Alive' : y \notin Elems /\ y < next /\ Rep'[y] = y
    <3> SUFFICES ASSUME NEW y \in Alive' PROVE y \notin Elems /\ y < next /\ Rep'[y] = y
      OBVIOUS
    <3>1. y \in Alive /\ (y # hi \/ y = lo)
      BY <1>2, <1>3
    <3> QED
      BY <1>5, <1>8, <3>1
  <2>2. \A v \in Ids : next <= v => Rep'[v] = v
    <3> SUFFICES ASSUME NEW v \in Ids, next <= v PROVE Rep'[v] = v
      OBVIOUS
    <3>1. Rep[v] = v
      BY DEF IInv, IdsInv
    <3>2. hi < next /\ hi \in Nat /\ v \in Nat /\ next \in Nat
      BY <1>2, <1>8, IdsAreNats DEF IInv, TypeInv
    <3>3. v # hi
      BY <3>2
    <3> QED
      BY <1>5, <3>1, <3>3
  <2>3. \A p \in unions' : p[1] < next /\ p[2] < next
    BY <1>2, <1>8 DEF IInv, IdsInv
  <2>4. \A c \in DOMAIN toId' : c # {} /\ \A v \in c : Known(v)'
    <3>1. \A c \in DOMAIN toId : c # {} /\ \A v \in c : v \in Ids /\ Known(v)
      BY DEF IInv, IdsInv, TypeInv
    <3>2. \A v \in set : v \in Ids /\ Known(v)
      BY <1>1
    <3> QED
      BY <1>1, <1>2, <1>7, <3>1, <3>2
  <2>5. \A e \in queue' : \A v \in e.set : Known(v)'
    <3>1. \A e \in queue : \A v \in e.set : v \in Ids /\ Known(v)
      BY DEF IInv, IdsInv, TypeInv
    <3> QED
      BY <1>1, <1>7, <3>1
  <2>6. \A t \in Threads : pc[t] = "idle" /\ \A v \in mine[t].set : Known(v)'
    <3>1. \A t \in Threads : pc[t] = "idle" /\ \A v \in mine[t].set : v \in Ids /\ Known(v)
      BY <1>1 DEF IInv, IdsInv, TypeInv, ThreadsInv
    <3> QED
      BY <1>7, <3>1
  <2>7. /\ \A k \in DOMAIN rows : Rep'[rows[k].val] \in Alive'
        /\ \A r \in staged : Rep'[r.val] \in Alive'
    BY <1>6 DEF IInv, IdsInv, TypeInv
  <2>8. UNCHANGED <<next, rows, staged, pc, mine>>
    BY <1>1
  <2> QED
    BY <2>1, <2>2, <2>3, <2>4, <2>5, <2>6, <2>7, <2>8 DEF IdsInv
<1>11. \A c : Canonical(c)' = Canonical(c)
  BY <1>1 DEF Canonical
<1>12. MapsInv'
  <2>1. \A c \in DOMAIN toId' : toId'[c] \in DOMAIN toContainer' /\ toContainer'[toId'[c]] = c
    BY <1>2 DEF TwoWay
  <2>2. \A e \in queue' : /\ e.id = e.old
                          /\ e.set # {} => Canonical(e.set) = e.set /\ e.old \notin Named'
                          /\ \A d \in queue' : d.set # {} /\ e.set # {} /\ d.old = e.old => d = e
    BY <1>1, <1>3 DEF IInv, MapsInv
  <2> QED
    BY <1>2, <1>11, <2>1, <2>2 DEF MapsInv
<1>13. ThreadsInv'
  BY <1>1, ThreadsIdle DEF IInv
<1>14. CursorInv'
  <2>1. ASSUME NEW c \in DOMAIN toId', Canonical(c) # c
        PROVE  \E e \in queue' : e.set = {} /\ e.old = toId'[c]
    <3>1. c # set /\ c \in DOMAIN ids /\ toId'[c] = toId[c] /\ toId[c] # x /\ c \in DOMAIN toId
      BY <1>1, <1>2, <2>1
    <3>2. PICK e \in queue : e.set = {} /\ e.old = toId[c]
      BY <1>1, <2>1, <3>1 DEF IInv, CursorInv
    <3> QED
      BY <1>1, <3>1, <3>2
  <2>2. cursor = Displaced
    BY <1>1 DEF IInv, CursorInv
  <2> QED
    BY <1>1, <1>4, <1>11, <2>1, <2>2 DEF CursorInv
<1>15. RowsInv'
  <2>1. TwoWay(toId, toContainer)
    BY MapsTwoWay DEF IInv
  <2>2. \A v \in Ids : Rep[v] # v => Rep'[v] # v
    <3>1. Rep[lo] = lo
      BY <1>2, <1>8
    <3> QED
      BY <1>5, <3>1
  <2>3. changed => (x \in Hot' \/ Rep'[x] # x) /\ (hi \in Hot' \/ Rep'[hi] # hi)
    <3>1. lo # hi => Rep'[hi] # hi
      BY <1>2, <1>5, <1>8
    <3>2. x = lo \/ x = hi
      BY <1>2
    <3>3. changed /\ lo = x => x \in Hot'
      BY <1>2 DEF Hot
    <3> QED
      BY <3>1, <3>2, <3>3
  <2>4. \A v \in Hot : v \in Hot' \/ Rep'[v] # v
    <3>1. Hot \subseteq Hot' \cup (IF changed THEN {x} ELSE {})
      BY <1>1, <1>2 DEF Hot
    <3> QED
      BY <2>3, <3>1
  <2>5. CASE changed
    <3>0. PICK X : X = {x, hi}
      OBVIOUS
    <3>1. \A v \in X : v \in Hot' \/ Rep'[v] # v
      BY <2>3, <2>5, <3>0
    <3>2. \A i : i \notin X =>
            \A c : (c \in DOMAIN toId /\ toId[c] = i) <=> (c \in DOMAIN toId' /\ toId'[c] = i)
      BY <1>1, <1>2, <3>0
    <3> QED
      BY <1>1, <1>2, <2>1, <2>2, <2>4, <3>1, <3>2, RowsStay DEF IInv
  <2>6. CASE ~changed
    <3>1. \A v \in {} : v \in Hot' \/ Rep'[v] # v
      OBVIOUS
    <3>2. \A c \in DOMAIN toId : c \in DOMAIN toId' /\ toId'[c] = toId[c]
      <4>1. set \in DOMAIN toId \ DOMAIN ids /\ lo = x
        BY <1>1, <1>2, <2>6
      <4>2. \A c \in DOMAIN toId \ DOMAIN ids : c = set
        BY <1>1, <4>1 DEF IInv, MapsInv
      <4> QED
        BY <1>1, <1>2, <4>1, <4>2
    <3>3. DOMAIN toId' = DOMAIN toId
      BY <1>1, <1>2, <2>6, <3>2
    <3>4. \A i : \A c : (c \in DOMAIN toId /\ toId[c] = i) <=> (c \in DOMAIN toId' /\ toId'[c] = i)
      BY <3>2, <3>3
    <3> QED
      BY <1>1, <1>2, <2>1, <2>2, <2>4, <3>1, <3>4, RowsStay DEF IInv
  <2> QED
    BY <1>1, <2>5, <2>6
<1> QED
  BY <1>9, <1>10, <1>12, <1>13, <1>14, <1>15 DEF IInv

\* An entry of the queue is put back, or dropped.
LEMMA ReinsertIInv == ASSUME IInv, Reinsert PROVE IInv'
<1> SUFFICES ASSUME NEW x, NEW set, NEW ids, NEW changed,
                    Taken(x, set, ids, changed), Returns(x, set, ids, changed)
             PROVE  IInv'
  BY ReinsertIs
<1>1. CASE set \notin DOMAIN ids
  BY <1>1, InsertNew, InsertedIInv
<1>2. CASE set \in DOMAIN ids
  <2>1. /\ toId[set] \in Ids /\ x \in Ids /\ toId[set] # x
    BY <1>2 DEF Taken, IInv, TypeInv
  <2>2. toId[set] < x \/ x < toId[set]
    <3>1. toId[set] \in Nat /\ x \in Nat
      BY <2>1, IdsAreNats
    <3> QED
      BY <2>1, <3>1
  <2> QED
    BY <1>2, <2>2, InsertOld, InsertLower, InsertedIInv
<1> QED
  BY <1>1, <1>2

-----------------------------------------------------------------------------
(* The rest of the round *)

\* The containers are rebuilt, and what changed in place is marked, with those around it.
LEMMA ContainersDoneIInv == ASSUME IInv, ContainersDone PROVE IInv'
<1> USE DEF ContainersDone, env
<1>1. Rep' = Rep /\ Displaced' = Displaced /\ Named' = Named /\ Out' = Out /\ Alive' = Alive
  BY DEF Rep, Displaced, Named, Out, Alive
<1>2. queue = {} /\ queue' = {} /\ Out = {} /\ phase' = "tables" /\ Hot = summary.dirty
  BY DEF Out, Hot
<1>3. Around(summary.dirty) \subseteq Ids /\ summary.dirty \subseteq Around(summary.dirty)
  BY DEF Around, IInv, TypeInv
<1>4. /\ summary' \in [changed : BOOLEAN, dirty : SUBSET Ids, rows : BOOLEAN]
      /\ summary'.dirty = Around(summary.dirty) /\ Hot' = Around(summary.dirty)
  <2>1. summary \in [changed : BOOLEAN, dirty : SUBSET Ids, rows : BOOLEAN]
    BY DEF IInv, TypeInv
  <2>2. PICK dirty \in SUBSET Ids : dirty = Around(summary.dirty)
    BY <1>3
  <2>3. summary' = [summary EXCEPT !.dirty = dirty]
    BY <2>2
  <2>4. summary' \in [changed : BOOLEAN, dirty : SUBSET Ids, rows : BOOLEAN] /\ summary'.dirty = dirty
    BY <2>1, <2>3
  <2> QED
    BY <1>1, <1>2, <2>2, <2>4 DEF Hot
<1>5. TypeInv'
  BY <1>1, <1>4 DEF IInv, TypeInv, Phases
<1>6. IdsInv'
  <2>1. \A v : Known(v)' = Known(v)
    BY <1>1 DEF Known
  <2> QED
    BY <1>1, <1>2, <2>1 DEF IInv, IdsInv
<1>7. MapsInv'
  BY <1>2 DEF IInv, MapsInv, IndexCovers
<1>8. ThreadsInv'
  BY ThreadsIdle DEF IInv
<1>9. CursorInv'
  <2>1. \A c \in DOMAIN toId : c \cap cursor = {}
    <3>1. \A c \in DOMAIN toId : c \in SUBSET Ids /\ Canonical(c) = c
      BY <1>2 DEF IInv, TypeInv, CursorInv
    <3>2. CanonOK(canon) /\ cursor = Displaced
      BY DEF IInv, TypeInv, CursorInv
    <3> QED
      BY <3>1, <3>2, CanonicalIs
  <2> QED
    BY <1>1, <1>2, <2>1 DEF IInv, CursorInv
<1>10. RowsInv'
  <2>1. \A i : Contents(i)' = Contents(i) /\ Meaning(i)' = Meaning(i)
    BY InNow, InNext
  <2>2. \A i : i \in Hot => i \in Hot'
    BY <1>2, <1>3, <1>4
  <2>3. \A i : \A v \in Contents(i) : v \in Hot => i \in Hot'
    <3> SUFFICES ASSUME NEW i, NEW v \in Contents(i), v \in Hot PROVE i \in Hot'
      OBVIOUS
    <3>1. Contents(i) \in DOMAIN toId /\ toId[Contents(i)] = i
      BY DEF Contents, Resolves, Holds
    <3>2. i \in valIndex[v]
      BY <3>1 DEF IInv, MapsInv, IndexCovers, ThreadsInv
    <3> QED
      BY <1>2, <1>4, <3>2 DEF Around
  <2> HIDE DEF ContainersDone, env
  <2>4. UNCHANGED <<rows, matched>>
    BY DEF ContainersDone
  <2> QED
    BY <1>1, <2>1, <2>2, <2>3, <2>4 DEF IInv, RowsInv
<1> QED
  BY <1>5, <1>6, <1>7, <1>8, <1>9, <1>10 DEF IInv

\* Rows that are not canonical are staged again.
LEMMA RebuildRowsIInv == ASSUME IInv, RebuildRows PROVE IInv'
<1> USE DEF RebuildRows, env
<1> DEFINE moved == {k \in DOMAIN rows : canon[k] # k \/ canon[rows[k].val] # rows[k].val}
           again(k) == [key |-> canon[k], val |-> canon[rows[k].val]]
<1>1. Rep' = Rep /\ Displaced' = Displaced /\ Named' = Named /\ Out' = Out /\ Alive' = Alive /\ Hot' = Hot
  BY Kept
<1>2. queue = {} /\ queue' = {} /\ cursor = Displaced /\ phase' = "merge tables"
  BY DEF IInv, CursorInv
<1>3. staged' = {again(k) : k \in moved} /\ rows' = Drop(rows, moved)
  OBVIOUS
<1>4. /\ rows \in [DOMAIN rows -> [val : Ids, new : BOOLEAN]] /\ DOMAIN rows \subseteq Ids
      /\ \A v \in Ids : canon[v] \in Ids /\ canon[canon[v]] = canon[v] /\ Rep[canon[v]] = Rep[v]
  BY RepIs DEF IInv, TypeInv, CanonOK
<1>5. /\ DOMAIN rows' = DOMAIN rows \ moved
      /\ \A k \in DOMAIN rows' : rows'[k] = rows[k]
      /\ rows' \in [DOMAIN rows' -> [val : Ids, new : BOOLEAN]]
  BY <1>3, <1>4 DEF Drop, Restrict
<1>6. \A k \in moved : /\ again(k) \in [key : Ids, val : Ids]
                       /\ again(k).key = canon[k] /\ again(k).val = canon[rows[k].val]
                       /\ k \in Ids /\ rows[k].val \in Ids
  BY <1>4
<1> HIDE DEF again
<1>7. TypeInv'
  <2>1. staged' \subseteq [key : Ids, val : Ids]
    BY <1>3, <1>6
  <2> QED
    BY <1>1, <1>4, <1>5, <2>1 DEF IInv, TypeInv, Phases
<1>8. IdsInv'
  <2>1. \A v : Known(v)' = Known(v)
    BY <1>1 DEF Known
  <2>2. \A r \in staged' : Rep[r.val] \in Alive
    <3> SUFFICES ASSUME NEW k \in moved PROVE Rep[again(k).val] \in Alive
      BY <1>3
    <3>1. Rep[rows[k].val] \in Alive
      BY DEF IInv, IdsInv
    <3>2. again(k).val = canon[rows[k].val] /\ rows[k].val \in Ids
      BY <1>6
    <3> HIDE DEF RebuildRows
    <3> QED
      BY <1>4, <3>1, <3>2
  <2>3. \A k \in DOMAIN rows' : Rep[rows'[k].val] \in Alive
    BY <1>5 DEF IInv, IdsInv
  <2> QED
    BY <1>1, <1>2, <2>1, <2>2, <2>3 DEF IInv, IdsInv
<1>9. MapsInv'
  BY <1>2 DEF IInv, MapsInv, IndexCovers
<1>10. ThreadsInv'
  BY ThreadsIdle DEF IInv
<1>11. CursorInv'
  <2>1. \A k \in DOMAIN rows' : k \notin cursor /\ rows'[k].val \notin cursor
    BY <1>2, <1>5 DEF Displaced
  <2>2. \A r \in staged' : r.key \notin cursor /\ r.val \notin cursor
    <3> SUFFICES ASSUME NEW k \in moved PROVE again(k).key \notin cursor /\ again(k).val \notin cursor
      BY <1>3
    <3>1. /\ again(k).key = canon[k] /\ again(k).val = canon[rows[k].val]
          /\ k \in Ids /\ rows[k].val \in Ids
      BY <1>6
    <3> HIDE DEF RebuildRows
    <3> QED
      BY <1>2, <1>4, <3>1 DEF Displaced
  <2> QED
    BY <1>1, <1>2, <2>1, <2>2 DEF IInv, CursorInv
<1>12. RowsInv'
  <2>1. \A i : Contents(i)' = Contents(i) /\ Meaning(i)' = Meaning(i)
    BY InNow, InNext
  <2>2. \A k \in DOMAIN rows' : k \in DOMAIN rows /\ rows'[k] = rows[k]
    BY <1>5
  <2> QED
    BY <1>1, <1>2, <2>1, <2>2 DEF IInv, RowsInv
<1> QED
  BY <1>7, <1>8, <1>9, <1>10, <1>11, <1>12 DEF IInv

\* The round ends, and rows whose value is marked are new.
LEMMA EndRoundIInv == ASSUME IInv, EndRound PROVE IInv'
<1> USE DEF EndRound, env
<1> DEFINE dirty == {k \in DOMAIN rows : rows[k].val \in summary.dirty}
<1>1. Rep' = Rep /\ Displaced' = Displaced /\ Named' = Named /\ Out' = Out /\ Alive' = Alive
  BY DEF Rep, Displaced, Named, Out, Alive
<1>2. /\ queue = {} /\ queue' = {} /\ unions = {} /\ unions' = {} /\ staged = {}
      /\ summary'.dirty = {} /\ Hot' = {} /\ Hot = summary.dirty
  <2>1. /\ queue = {} /\ queue' = {} /\ unions = {} /\ unions' = {} /\ staged = {}
        /\ summary'.dirty = {}
    BY DEF IInv, CursorInv, Merged, NoSummary
  <2> QED
    BY <2>1 DEF Hot, Out
<1>3. phase' \in {"rules", "containers"} /\ (phase' = "rules" => cursor = Displaced)
  BY DEF IInv, CursorInv
<1>4. /\ rows' = [k \in DOMAIN rows |-> rows'[k]] /\ DOMAIN rows' = DOMAIN rows
      /\ \A k \in DOMAIN rows : /\ rows'[k] \in [val : Ids, new : BOOLEAN] /\ rows'[k].val = rows[k].val
                                /\ ~rows'[k].new => ~rows[k].new /\ rows[k].val \notin summary.dirty
  <2>1. ASSUME NEW k \in DOMAIN rows
        PROVE  /\ [rows[k] EXCEPT !.new = @ \/ k \in dirty] \in [val : Ids, new : BOOLEAN]
               /\ [rows[k] EXCEPT !.new = @ \/ k \in dirty].val = rows[k].val
               /\ ~[rows[k] EXCEPT !.new = @ \/ k \in dirty].new =>
                     ~rows[k].new /\ rows[k].val \notin summary.dirty
    <3>1. rows[k] \in [val : Ids, new : BOOLEAN]
      BY DEF IInv, TypeInv
    <3>2. PICK b \in BOOLEAN : b = (rows[k].new \/ k \in dirty)
      BY <3>1
    <3>3. [rows[k] EXCEPT !.new = @ \/ k \in dirty] = [rows[k] EXCEPT !.new = b]
      BY <3>2
    <3>4. /\ [rows[k] EXCEPT !.new = b] \in [val : Ids, new : BOOLEAN]
          /\ [rows[k] EXCEPT !.new = b].val = rows[k].val /\ [rows[k] EXCEPT !.new = b].new = b
      BY <3>1
    <3> QED
      BY <3>2, <3>3, <3>4
  <2>2. rows' = [k \in DOMAIN rows |-> [rows[k] EXCEPT !.new = @ \/ k \in dirty]]
    OBVIOUS
  <2> QED
    BY <2>1, <2>2
<1>5. TypeInv'
  <2>1. summary' \in [changed : BOOLEAN, dirty : SUBSET Ids, rows : BOOLEAN]
    BY DEF NoSummary
  <2>2. rows' \in [DOMAIN rows' -> [val : Ids, new : BOOLEAN]] /\ DOMAIN rows' \subseteq Ids
    BY <1>4 DEF IInv, TypeInv
  <2>3. /\ UNCHANGED <<canon, cursor, unions, next, toId, toContainer, valIndex, staged, pc, mine, queue>>
        /\ phase' \in Phases
    BY <1>3 DEF Phases
  <2> HIDE DEF EndRound, env
  <2> QED
    BY <1>1, <2>1, <2>2, <2>3 DEF IInv, TypeInv
<1>6. IdsInv'
  <2>1. \A v : Known(v)' = Known(v)
    BY <1>1 DEF Known
  <2>2. \A k \in DOMAIN rows' : Rep[rows'[k].val] \in Alive
    BY <1>4 DEF IInv, IdsInv
  <2> QED
    BY <1>1, <1>2, <2>1, <2>2 DEF IInv, IdsInv
<1>7. MapsInv'
  BY <1>2 DEF IInv, MapsInv, IndexCovers
<1>8. ThreadsInv'
  BY ThreadsIdle DEF IInv
<1>9. CursorInv'
  <2>1. \A k \in DOMAIN rows' : k \notin cursor /\ rows'[k].val \notin cursor
    BY <1>4 DEF IInv, CursorInv
  <2> QED
    BY <1>1, <1>2, <1>3, <2>1 DEF IInv, CursorInv
<1>10. RowsInv'
  <2>1. \A i : Contents(i)' = Contents(i) /\ Meaning(i)' = Meaning(i)
    BY InNow, InNext
  <2>2. phase # "reinsert" /\ matched' = matched
    OBVIOUS
  <2> HIDE DEF EndRound, env
  <2> QED
    BY <1>1, <1>2, <1>4, <2>1, <2>2 DEF IInv, RowsInv
<1> QED
  BY <1>5, <1>6, <1>7, <1>8, <1>9, <1>10 DEF IInv

-----------------------------------------------------------------------------
(* The invariant, and what it implies *)

\* Every step keeps it.
LEMMA NextIInv == ASSUME IInv, [Next]_vars PROVE IInv'
<1>1. CASE Next
  BY <1>1, EndRulesIInv, InternIInv, MergeUnionsIInv, MergeRowIInv, MergeDoneIInv, ScanAllIInv,
     ScanRecentIInv, ReinsertIInv, ContainersDoneIInv, RebuildRowsIInv, EndRoundIInv DEF Next
<1>2. CASE UNCHANGED vars
  <2>1. UNCHANGED <<canon, cursor, unions, next, toId, toContainer, valIndex, rows, staged, pc, mine,
                    phase, queue, summary, matched>>
    BY <1>2 DEF vars, env, loop
  <2>2. /\ Rep' = Rep /\ Displaced' = Displaced /\ Out' = Out /\ Hot' = Hot /\ Named' = Named
        /\ Alive' = Alive
    BY <2>1, Kept
  <2>3. \A i : Contents(i)' = Contents(i) /\ Meaning(i)' = Meaning(i)
    BY <2>1, InNow, InNext
  <2>4. \A v : Known(v)' = Known(v) /\ Canonical(v)' = Canonical(v)
    BY <2>1, <2>2 DEF Known, Canonical
  <2>5. TypeInv' /\ ThreadsInv'
    BY <2>1, <2>2 DEF IInv, TypeInv, ThreadsInv
  <2>6. IdsInv'
    BY <2>1, <2>2, <2>4 DEF IInv, IdsInv
  <2>7. MapsInv'
    BY <2>1, <2>2, <2>4 DEF IInv, MapsInv, IndexCovers
  <2>8. CursorInv'
    BY <2>1, <2>2, <2>4 DEF IInv, CursorInv
  <2>9. RowsInv'
    BY <2>1, <2>2, <2>3 DEF IInv, RowsInv
  <2> QED
    BY <2>5, <2>6, <2>7, <2>8, <2>9 DEF IInv
<1> QED
  BY <1>1, <1>2

\* The inductive invariant, of get_or_insert, rebuild_all and the loop that calls it: ids lead to
\* containers and back, ids that are known have a container or will have one, and a row that is
\* not new means what it meant unless something under it has been united or marked.
THEOREM ContainersInvariant == Spec => []IInv
BY InitIInv, NextIInv, PTL DEF Spec

\* get_or_insert from several threads: they agree on one id for a container, no two containers
\* share one, and val_index misses no container that holds an id.
THEOREM ContainersAreKnown == Spec => []ContainersKnown
<1>1. IInv => ContainersKnown
  <2> SUFFICES ASSUME IInv PROVE InternedRight /\ IndexCovers
    BY DEF ContainersKnown
  <2>1. IndexCovers /\ \A c \in DOMAIN toId : toId[c] \in DOMAIN toContainer /\ toContainer[toId[c]] = c
    BY DEF IInv, MapsInv
  <2>2. \A t \in Threads : pc[t] = "set" => mine[t].set \in DOMAIN toId /\ toId[mine[t].set] = mine[t].id
    BY DEF IInv, ThreadsInv
  <2> QED
    BY <2>1, <2>2 DEF InternedRight, Holds, Resolves
<1> QED
  BY <1>1, ContainersInvariant, PTL

\* rebuild_all, by either scan, and the tables after it: when rules run again, no container and no
\* row mentions an id that has been displaced, and every row's container can be read.
THEOREM AllIsCanonical == Spec => []AllCanonical
<1>1. IInv => AllCanonical
  <2> SUFFICES ASSUME IInv, phase = "rules"
               PROVE  /\ \A c \in DOMAIN toId : Canonical(c) = c /\ canon[toId[c]] = toId[c]
                      /\ \A k \in DOMAIN rows : canon[k] = k /\ Resolves(rows[k].val)
    BY DEF AllCanonical
  <2>1. /\ Rep = canon /\ cursor = Displaced /\ Alive = Named /\ CanonOK(canon)
        /\ \A c \in DOMAIN toId : /\ toId[c] \in Ids \ (Elems \cup Displaced)
                                  /\ c \cap Displaced = {} /\ c \subseteq Ids
    BY RulesFacts DEF IInv, TypeInv
  <2>2. \A c \in DOMAIN toId : Canonical(c) = c /\ canon[toId[c]] = toId[c]
    BY <2>1, CanonicalIs DEF Displaced
  <2>3. ASSUME NEW k \in DOMAIN rows
        PROVE  canon[k] = k /\ Resolves(rows[k].val)
    <3>1. k \in Ids /\ rows[k].val \in Ids /\ k \notin Displaced /\ rows[k].val \notin Displaced
      BY <2>1 DEF IInv, TypeInv, CursorInv
    <3>2. rows[k].val \in Named
      BY <2>1, <3>1 DEF IInv, IdsInv, Displaced
    <3>3. \A c \in DOMAIN toId : toId[c] \in DOMAIN toContainer /\ toContainer[toId[c]] = c
      BY DEF IInv, MapsInv
    <3> QED
      BY <3>1, <3>2, <3>3 DEF Named, Displaced, Resolves, Holds
  <2> QED
    BY <2>2, <2>3
<1> QED
  BY <1>1, ContainersInvariant, PTL

\* expand_dirty_id_closure and refresh_rows_for_values: what seminaive evaluation will not match
\* again still means what it was matched as, though containers change under their ids.
THEOREM OldRowsKeepTheirMeaning == Spec => []OldRowsMeanTheSame
<1>1. IInv => OldRowsMeanTheSame
  <2> SUFFICES ASSUME IInv, phase = "rules", NEW k \in DOMAIN rows, ~rows[k].new
               PROVE  k \in DOMAIN matched /\ matched[k] = Meaning(rows[k].val)
    BY DEF OldRowsMeanTheSame
  <2>1. /\ Rep = canon /\ cursor = Displaced /\ Hot = {}
        /\ \A c \in DOMAIN toId : c \cap Displaced = {} /\ c \subseteq Ids
    BY RulesFacts
  <2>2. Rep[rows[k].val] = rows[k].val
    BY <2>1 DEF IInv, TypeInv, CursorInv, Displaced
  <2>3. \A v \in Contents(rows[k].val) : Rep[v] = v
    <3>1. Contents(rows[k].val) = {} \/ Contents(rows[k].val) \in DOMAIN toId
      BY DEF Contents, Resolves, Holds
    <3> QED
      BY <2>1, <3>1 DEF Displaced
  <2> QED
    BY <2>1, <2>2, <2>3 DEF IInv, RowsInv
<1> QED
  BY <1>1, ContainersInvariant, PTL
=============================================================================
