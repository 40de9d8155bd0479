----------------------------- MODULE RebuildProofs -----------------------------
(***************************************************************************)
(* Rebuilding computes the congruence closure, whichever tables it visits  *)
(* by a scan or by a lookup and in whatever order they are merged, for any *)
(* number of ids, functions, unions and rows.                              *)
(*                                                                         *)
(* The argument has two halves, both about equivalences of ids.  Complete: *)
(* one that contains the union-find and the staged unions contains all     *)
(* unions that rules made, and relates every row that was set to one that  *)
(* is in its table or staged for it.  Sound: one that satisfies what rules *)
(* have written contains the union-find and the staged unions, and relates *)
(* every row to one that was set.  When the loop ends nothing is staged    *)
(* and each table's cursor is at the end, so that its rows are canonical,  *)
(* and both halves can be applied to the union-find itself.                *)
(*                                                                         *)
(* The loop ends because a round that changes something joins classes, or  *)
(* leaves no row that is not canonical where there was one.                *)
(***************************************************************************)
EXTENDS MCTables, FiniteSetTheorems, WellFoundedInduction, TLAPS

-----------------------------------------------------------------------------
(* The inductive invariant *)

Ctors == Ctors1 \cup Ctors2

\* The rows staged for a function's table, and the rows that rules have set.
Inserted(f) == BagToSet(pend[f].ins)
Terms(f) == BagToSet(terms[f])

RowOK(f, r) == r = Row(r.key, r.val) /\ r.key \in Keys(f) /\ (IsCtor(f) => r.val \in Ids)

UnionsOK ==
  /\ canon \in Equivalences
  /\ displaced = {v \in Ids : canon[v] # v}
  /\ seen \in [Funcs -> SUBSET Ids] /\ \A f \in Funcs : seen[f] \subseteq displaced
  /\ unions \subseteq Ids \X Ids /\ asserted \subseteq Ids \X Ids

RowsOK ==
  /\ rows = [f \in Funcs |-> rows[f]]
  /\ terms = [f \in Funcs |-> terms[f]]
  /\ pend = [f \in Funcs |-> [del |-> pend[f].del, ins |-> pend[f].ins]]
  /\ \A f \in Funcs : \A r \in rows[f] \cup Inserted(f) \cup Terms(f) : RowOK(f, r)
  /\ \A f \in Funcs : \A q, r \in rows[f] : q.key = r.key => q = r

ControlOK ==
  /\ phase \in {"rules", "scan", "merge"} /\ mode \in {"run", "defer", "round"}
  /\ todo \subseteq Funcs /\ changed \in BOOLEAN /\ grew \in BOOLEAN /\ owed \in BOOLEAN

TypeInv == UnionsOK /\ RowsOK /\ ControlOK

\* Where the cursors are, and what may be staged.
UpToDate == \A f \in Funcs : seen[f] = displaced

LoopInv ==
  /\ phase = "rules" => \A f \in Funcs : pend[f].del = {}
  /\ phase = "scan" => /\ unions = {}
                       /\ \A f \in todo : pend[f] = NoChange
                       /\ \A f \in Funcs \ todo : seen[f] = displaced
  /\ phase = "rules" /\ ~owed => UpToDate
  /\ phase = "merge" /\ mode # "round" /\ ~grew /\ ~owed => UpToDate
  /\ phase = "merge" /\ mode = "round" /\ ~changed => UpToDate

\* The rows of a table as they will be; what rules have staged counts when they are done.
Here(f) == IF phase = "rules" THEN rows[f] ELSE (rows[f] \ pend[f].del) \cup Inserted(f)

\* Two rows say the same up to an equivalence.
Image(e, key) == [i \in DOMAIN key |-> e[key[i]]]
Same(e, q, r) == Image(e, q.key) = Image(e, r.key) /\ e[q.val] = e[r.val]

\* Equivalences that contain the union-find, and what is staged for it.
Contains(e) ==
  /\ Finer(canon, e)
  /\ phase # "rules" => \A p \in unions : e[p[1]] = e[p[2]]

Complete ==
  \A e \in Equivalences : Contains(e) =>
    /\ \A p \in asserted : e[p[1]] = e[p[2]]
    /\ \A f \in Ctors : \A t \in Terms(f) : \E r \in Here(f) : Same(e, t, r)

Sound ==
  \A d \in Equivalences : Satisfies(d) =>
    /\ Contains(d)
    /\ \A f \in Ctors : \A r \in Here(f) : \E t \in Terms(f) : Same(d, t, r)

IInv == TypeInv /\ LoopInv /\ NoneLeftBehind /\ Complete /\ Sound


-----------------------------------------------------------------------------
(* Union-finds and least values *)

\* A set of naturals has a least element, and Min is it.
LEMMA MinIsLeast ==
  ASSUME NEW S \in SUBSET Nat, S # {}
  PROVE  Min(S) \in S /\ \A y \in S : Min(S) <= y
<1>1. IsWellFoundedOn(OpToRel(<, Nat), Nat)
  BY NatLessThanWellFounded
<1>2. PICK x \in S : \A y \in S : ~ (<<y, x>> \in OpToRel(<, Nat))
  BY <1>1, WFMin
<1> HIDE <1>1
<1>3. \A y \in S : ~ (y < x)
  BY <1>2 DEF OpToRel
<1>4. \A y \in S : x <= y
  BY <1>3
<1> HIDE <1>2
<1> QED
  BY <1>4 DEF Min

\* The ends of the pairs, and the ids that are together with one of them.
Ends(c, pairs) == UNION {{c[p[1]], c[p[2]]} : p \in pairs}
Closes(c, pairs, S) == /\ S \in SUBSET Ends(c, pairs)
                       /\ \A p \in pairs : c[p[1]] \in S <=> c[p[2]] \in S
Together(c, pairs, u, v) ==
  \A S \in SUBSET Ends(c, pairs) : Closes(c, pairs, S) => (u \in S <=> v \in S)

\* Ids are naturals.
LEMMA IdsAreNats == Ids \in SUBSET Nat
BY DEF Ids

\* And finitely many.
LEMMA IdsAreFinite == IsFiniteSet(Ids)
BY RebuildAssumption, FS_Interval DEF Ids

\* The pairs are of ids.
LEMMA EndsAreIds ==
  ASSUME NEW c, c \in Equivalences, NEW pairs, pairs \subseteq Ids \X Ids
  PROVE  /\ Ends(c, pairs) \subseteq Ids
         /\ \A u \in Ends(c, pairs) : c[u] = u
         /\ \A p \in pairs : /\ p[1] \in Ids /\ p[2] \in Ids
                             /\ c[p[1]] \in Ends(c, pairs) /\ c[p[2]] \in Ends(c, pairs)
<1>1. \A p \in pairs : p[1] \in Ids /\ p[2] \in Ids
  OBVIOUS
<1>2. \A v \in Ids : c[v] \in Ids /\ c[c[v]] = c[v]
  BY DEF Equivalences
<1> QED
  BY <1>1, <1>2 DEF Ends

\* Each id stands for the least of the ends together with its own.
LEMMA JoinIs ==
  ASSUME NEW c, c \in Equivalences, NEW pairs, pairs \subseteq Ids \X Ids, NEW v \in Ids
  PROVE  LET j == Join(c, pairs)
         IN  /\ DOMAIN j = Ids
             /\ j[v] \in Ids
             /\ j[v] \in Ends(c, pairs) \/ j[v] = c[v]
             /\ Together(c, pairs, j[v], c[v])
             /\ j[v] <= c[v]
             /\ \A u \in Ends(c, pairs) : Together(c, pairs, u, c[v]) => j[v] <= u
<1> DEFINE j == Join(c, pairs)
           class == {u \in Ends(c, pairs) \cup {c[v]} : Together(c, pairs, u, c[v])}
<1>1. j = [w \in Ids |-> Min({u \in Ends(c, pairs) \cup {c[w]} : Together(c, pairs, u, c[w])})]
  BY DEF Join, Together, Closes, Ends
<1>2. j[v] = Min(class)
  BY <1>1
<1>3. c[v] \in Ids /\ Together(c, pairs, c[v], c[v])
  BY DEF Together, Equivalences
<1>4. class \in SUBSET Nat /\ class # {} /\ class \subseteq Ids /\ c[v] \in class
  BY <1>3, IdsAreNats, EndsAreIds
<1>5. Min(class) \in class /\ \A y \in class : Min(class) <= y
  BY <1>4, MinIsLeast
<1>6. DOMAIN j = Ids
  BY <1>1
<1>7. /\ Min(class) \in Ids
      /\ Min(class) \in Ends(c, pairs) \/ Min(class) = c[v]
      /\ Together(c, pairs, Min(class), c[v])
      /\ Min(class) <= c[v]
  BY <1>4, <1>5
<1>8. \A u \in Ends(c, pairs) : Together(c, pairs, u, c[v]) => Min(class) <= u
  BY <1>5
<1> HIDE DEF j, class
<1> QED
  BY <1>2, <1>6, <1>7, <1>8 DEF j

\* Who is at no end stands for the same as before.
LEMMA JoinAway ==
  ASSUME NEW c, c \in Equivalences, NEW pairs, pairs \subseteq Ids \X Ids,
         NEW v \in Ids, c[v] \notin Ends(c, pairs)
  PROVE  Join(c, pairs)[v] = c[v]
<1> DEFINE j == Join(c, pairs)
<1>1. (j[v] \in Ends(c, pairs) \/ j[v] = c[v]) /\ Together(c, pairs, j[v], c[v])
  BY JoinIs
<1>2. Closes(c, pairs, Ends(c, pairs))
  BY EndsAreIds DEF Closes
<1> HIDE DEF j
<1>3. j[v] \in Ends(c, pairs) => c[v] \in Ends(c, pairs)
  BY <1>1, <1>2 DEF Together
<1> QED
  BY <1>1, <1>3 DEF j

\* Joining gives a union-find again, in which what was displaced stays so.
LEMMA JoinIsCanon ==
  ASSUME NEW c, c \in Equivalences, NEW pairs, pairs \subseteq Ids \X Ids
  PROVE  LET j == Join(c, pairs)
         IN  /\ j \in Equivalences
             /\ \A v \in Ids : c[v] # v => j[v] # v
             /\ \A v \in Ids : j[c[v]] = j[v]
             /\ \A p \in pairs : j[p[1]] = j[p[2]]
<1> DEFINE j == Join(c, pairs)
<1>1. j \in [Ids -> Ids]
  <2>1. j = [v \in Ids |-> j[v]]
    BY DEF Join
  <2>2. \A v \in Ids : j[v] \in Ids
    BY JoinIs
  <2> QED
    BY <2>1, <2>2
<1>2. \A v \in Ids : j[v] <= c[v] /\ c[v] <= v /\ c[v] \in Nat /\ j[v] \in Nat /\ v \in Nat
  BY <1>1, JoinIs, IdsAreNats DEF Equivalences
<1>3. \A u, v \in Ids : c[u] = c[v] => j[u] = j[v]
  BY DEF Join
<1>4. \A v \in Ids : j[c[v]] = j[v]
  BY <1>3 DEF Equivalences
<1>5. ASSUME NEW v \in Ids PROVE j[j[v]] = j[v]
  <2>1. CASE c[v] \notin Ends(c, pairs)
    BY <2>1, <1>4, JoinAway
  <2>2. CASE c[v] \in Ends(c, pairs)
    <3>1. j[v] \in Ends(c, pairs) /\ Together(c, pairs, j[v], c[v])
      BY <2>2, JoinIs
    <3>2. c[j[v]] = j[v] /\ j[v] \in Ids
      BY <3>1, EndsAreIds
    <3>3. Together(c, pairs, j[j[v]], j[v]) /\ j[j[v]] \in Ends(c, pairs) /\ j[j[v]] <= j[v]
      BY <3>1, <3>2, JoinIs
    <3>4. Together(c, pairs, j[j[v]], c[v])
      BY <3>1, <3>3 DEF Together
    <3>5. j[v] <= j[j[v]]
      BY <3>3, <3>4, JoinIs
    <3>6. j[j[v]] \in Ids
      BY <1>1, <3>2
    <3>7. j[v] \in Nat /\ j[j[v]] \in Nat
      BY <3>2, <3>6, IdsAreNats
    <3> HIDE DEF j
    <3> QED
      BY <3>3, <3>5, <3>7
  <2> QED
    BY <2>1, <2>2
<1>8. ASSUME NEW p \in pairs PROVE j[p[1]] = j[p[2]]
  <2>1. /\ p[1] \in Ids /\ p[2] \in Ids
        /\ c[p[1]] \in Ends(c, pairs) /\ c[p[2]] \in Ends(c, pairs)
    BY EndsAreIds
  <2>2. Together(c, pairs, c[p[1]], c[p[2]])
    BY DEF Together, Closes
  <2>3. /\ j[p[1]] \in Ends(c, pairs) /\ Together(c, pairs, j[p[1]], c[p[1]])
        /\ j[p[2]] \in Ends(c, pairs) /\ Together(c, pairs, j[p[2]], c[p[2]])
    BY <2>1, JoinIs
  <2>4. Together(c, pairs, j[p[1]], c[p[2]]) /\ Together(c, pairs, j[p[2]], c[p[1]])
    BY <2>2, <2>3 DEF Together
  <2>5. j[p[1]] <= j[p[2]] /\ j[p[2]] <= j[p[1]]
    BY <2>1, <2>3, <2>4, JoinIs
  <2> QED
    BY <1>2, <2>1, <2>5
<1> HIDE DEF j
<1>6. j \in Equivalences
  BY <1>1, <1>2, <1>5 DEF Equivalences
<1>7. \A v \in Ids : c[v] # v => j[v] # v
  BY <1>2
<1> QED
  BY <1>4, <1>6, <1>7, <1>8 DEF j

\* And no more than that.
LEMMA JoinIsLeast ==
  ASSUME NEW c \in Equivalences, NEW pairs, pairs \subseteq Ids \X Ids,
         NEW d \in Equivalences, Finer(c, d), \A p \in pairs : d[p[1]] = d[p[2]]
  PROVE  Finer(Join(c, pairs), d)
<1> DEFINE j == Join(c, pairs)
<1>0. \A v \in Ids : c[v] \in Ids /\ d[c[v]] = d[v]
  BY DEF Equivalences, Finer
<1>1. ASSUME NEW v \in Ids PROVE d[j[v]] = d[v]
  <2> DEFINE S == {u \in Ends(c, pairs) : d[u] = d[v]}
  <2>1. ASSUME NEW p \in pairs PROVE c[p[1]] \in S <=> c[p[2]] \in S
    <3>1. p[1] \in Ids /\ p[2] \in Ids /\ c[p[1]] \in Ends(c, pairs) /\ c[p[2]] \in Ends(c, pairs)
      BY EndsAreIds
    <3>2. d[c[p[1]]] = d[p[1]] /\ d[c[p[2]]] = d[p[2]] /\ d[p[1]] = d[p[2]]
      BY <1>0, <3>1
    <3> QED
      BY <3>1, <3>2
  <2>2. Closes(c, pairs, S)
    BY <2>1 DEF Closes
  <2>3. (j[v] \in Ends(c, pairs) \/ j[v] = c[v]) /\ Together(c, pairs, j[v], c[v])
    BY JoinIs
  <2> HIDE DEF j
  <2>4. CASE c[v] \in Ends(c, pairs)
    <3>1. c[v] \in S /\ S \in SUBSET Ends(c, pairs)
      BY <2>4, <1>0
    <3>2. j[v] \in S
      BY <3>1, <2>2, <2>3 DEF Together
    <3> QED
      BY <3>2
  <2>5. CASE c[v] \notin Ends(c, pairs)
    BY <2>5, <1>0, JoinAway DEF j
  <2> QED
    BY <2>4, <2>5
<1> HIDE DEF j
<1> QED
  BY <1>1 DEF Finer, j


-----------------------------------------------------------------------------
(* What steps do to the two halves of the argument *)

\* Saying the same is an equivalence.
LEMMA SameIsTransitive ==
  ASSUME NEW e, NEW q, NEW r, NEW s, Same(e, q, r), Same(e, r, s)
  PROVE  Same(e, q, s)
BY DEF Same

\* A step that writes nothing new for the rules keeps both halves, if the equivalences that contain
\* what is there after it are those from before, and each row has its equal on the other side.
LEMMA HalvesKept ==
  ASSUME Complete, Sound, UNCHANGED history,
         \A e \in Equivalences : Contains(e)' => Contains(e),
         \A e \in Equivalences : Contains(e)' =>
           \A f \in Ctors : \A q \in Here(f) : \E r \in Here(f)' : Same(e, q, r),
         \A d \in Equivalences : Satisfies(d) => Contains(d)',
         \A d \in Equivalences : Satisfies(d) =>
           \A f \in Ctors : \A r \in Here(f)' : \E q \in Here(f) : Same(d, r, q)
  PROVE  Complete' /\ Sound'
<1>1. Complete'
  <2> SUFFICES ASSUME NEW e \in Equivalences, Contains(e)'
               PROVE  /\ \A p \in asserted : e[p[1]] = e[p[2]]
                      /\ \A f \in Ctors : \A t \in Terms(f) : \E r \in Here(f)' : Same(e, t, r)
    BY DEF Complete, history, Terms
  <2>1. /\ \A p \in asserted : e[p[1]] = e[p[2]]
        /\ \A f \in Ctors : \A t \in Terms(f) : \E r \in Here(f) : Same(e, t, r)
    BY DEF Complete
  <2> QED
    BY <2>1, SameIsTransitive
<1>2. Sound'
  <2> SUFFICES ASSUME NEW d \in Equivalences, Satisfies(d)
               PROVE  /\ Contains(d)'
                      /\ \A f \in Ctors : \A r \in Here(f)' : \E t \in Terms(f) : Same(d, t, r)
    BY DEF Sound, history, Terms, Satisfies
  <2>1. \A f \in Ctors : \A q \in Here(f) : \E t \in Terms(f) : Same(d, t, q)
    BY DEF Sound
  <2>2. ASSUME NEW f \in Ctors, NEW r \in Here(f)' PROVE \E t \in Terms(f) : Same(d, t, r)
    <3>1. PICK q \in Here(f) : Same(d, r, q)
      OBVIOUS
    <3>2. PICK t \in Terms(f) : Same(d, t, q)
      BY <2>1
    <3> QED
      BY <3>1, <3>2 DEF Same
  <2> QED
    BY <2>2
<1> QED
  BY <1>1, <1>2

\* So does one that leaves the tables and the unions as they are.
LEMMA HalvesUntouched ==
  ASSUME Complete, Sound, UNCHANGED history,
         \A e \in Equivalences : Contains(e)' <=> Contains(e),
         \A f \in Ctors : Here(f)' = Here(f)
  PROVE  Complete' /\ Sound'
<1>1. \A e \in Equivalences : \A f \in Ctors : \A q \in Here(f) : Same(e, q, q)
  BY DEF Same
<1>2. \A d \in Equivalences : Satisfies(d) => Contains(d)
  BY DEF Sound
<1> QED
  BY <1>1, <1>2, HalvesKept

-----------------------------------------------------------------------------
(* What rules stage *)

\* Nothing is displaced when the first rules run.
LEMMA InitHolds == Init => IInv
<1> SUFFICES ASSUME Init PROVE IInv
  OBVIOUS
<1>1. BagToSet(EmptyBag) = {}
  BY DEF EmptyBag, SetToBag, BagToSet
<1>2. \A f \in Funcs : rows[f] = {} /\ pend[f] = NoChange /\ Inserted(f) = {} /\ Terms(f) = {}
  BY <1>1 DEF Init, NoChange, Inserted, Terms
<1>3. canon \in Equivalences
  BY IdsAreNats DEF Init, Equivalences
<1>4. UnionsOK
  BY <1>3 DEF Init, UnionsOK
<1>5. RowsOK /\ ControlOK
  BY <1>2 DEF Init, RowsOK, ControlOK, NoChange
<1>6. LoopInv
  BY <1>2 DEF Init, LoopInv, UpToDate, NoChange
<1>7. NoneLeftBehind
  BY <1>2 DEF NoneLeftBehind, Inserted
<1>8. Ctors \subseteq Funcs
  BY DEF Ctors, Funcs
<1>9. Complete
  BY <1>2, <1>8 DEF Init, Complete
<1>10. ASSUME NEW d \in Equivalences PROVE Contains(d)
  BY DEF Init, Contains, Finer
<1>11. Sound
  BY <1>2, <1>8, <1>10 DEF Init, Sound, Here
<1> QED
  BY <1>4, <1>5, <1>6, <1>7, <1>9, <1>11 DEF IInv, TypeInv

\* A union that a rule stages does not count before the rules are done.
LEMMA StageUnionKeeps == ASSUME IInv, StageUnion PROVE IInv'
<1> USE DEF IInv, TypeInv
<1>1. UNCHANGED <<uf, seen, rows, pend, loop, history>> /\ phase = "rules"
  BY DEF StageUnion
<1>2. unions' \subseteq Ids \X Ids
  BY DEF StageUnion, Visible, UnionsOK
<1>3. UnionsOK'
  BY <1>1, <1>2 DEF UnionsOK, uf, history
<1>4. RowsOK' /\ ControlOK'
  BY <1>1 DEF RowsOK, ControlOK, loop, history, Inserted, Terms
<1>5. LoopInv'
  BY <1>1 DEF LoopInv, UpToDate, loop, uf
<1>6. NoneLeftBehind'
  BY <1>1 DEF NoneLeftBehind
<1>7. Complete' /\ Sound'
  <2>1. \A e \in Equivalences : Contains(e)' <=> Contains(e)
    BY <1>1 DEF Contains, loop, uf
  <2>2. \A f \in Ctors : Here(f)' = Here(f)
    BY <1>1 DEF Here, loop
  <2> QED
    BY <1>1, <2>1, <2>2, HalvesUntouched
<1> QED
  BY <1>3, <1>4, <1>5, <1>6, <1>7

\* A row that a rule stages mentions nothing that was displaced before the last rebuild.
LEMMA StageTermKeeps == ASSUME IInv, NEW f \in Funcs, StageTerm(f) PROVE IInv'
<1> USE DEF IInv, TypeInv
<1>1. UNCHANGED <<uf, seen, rows, unions, loop, history>> /\ phase = "rules"
  BY DEF StageTerm
<1>2. PICK key \in Keys(f), val \in IF IsCtor(f) THEN Visible ELSE {1} :
        /\ Range(key) \subseteq Visible
        /\ pend' = [pend EXCEPT ![f].ins = @ (+) SetToBag({Row(key, val)})]
  BY DEF StageTerm
<1> DEFINE new == Row(key, val)
<1>3. new.key = key /\ new.val = val
  BY DEF Row
<1>4. /\ pend' = [g \in Funcs |-> [del |-> pend'[g].del, ins |-> pend'[g].ins]]
      /\ \A g \in Funcs : /\ pend'[g].del = pend[g].del
                          /\ g # f => pend'[g] = pend[g]
                          /\ g = f => pend'[g].ins = pend[g].ins (+) SetToBag({new})
  <2> DEFINE ins == pend[f].ins (+) SetToBag({new})
  <2>1. pend = [g \in Funcs |-> pend[g]] /\ pend[f] = [del |-> pend[f].del, ins |-> pend[f].ins]
    BY DEF RowsOK
  <2>2. [pend[f] EXCEPT !.ins = ins] = [del |-> pend[f].del, ins |-> ins]
    BY <2>1
  <2>3. pend' = [pend EXCEPT ![f] = [pend[f] EXCEPT !.ins = ins]]
    BY <1>2
  <2> HIDE DEF ins
  <2>4. pend' = [g \in Funcs |-> IF g = f THEN [del |-> pend[f].del, ins |-> ins] ELSE pend[g]]
    BY <2>1, <2>2, <2>3
  <2>5. \A g \in Funcs : pend[g] = [del |-> pend[g].del, ins |-> pend[g].ins]
    BY DEF RowsOK
  <2> QED
    BY <2>4, <2>5 DEF ins
<1>5. \A g \in Funcs : Inserted(g)' = Inserted(g) \cup (IF g = f THEN {new} ELSE {})
  <2>1. BagToSet(pend[f].ins (+) SetToBag({new})) = BagToSet(pend[f].ins) \cup {new}
    BY DEF BagToSet, SetToBag, (+)
  <2> QED
    BY <1>4, <2>1 DEF Inserted
<1>6. Visible \subseteq Ids /\ \A g \in Funcs : Visible \cap seen[g] = {}
  BY DEF Visible
<1>7. RowOK(f, new)
  BY <1>2, <1>3, <1>6 DEF RowOK
<1> HIDE DEF new
<1>8. UnionsOK'
  BY <1>1 DEF UnionsOK, uf, history
<1>9. RowsOK'
  <2>1. /\ rows' = [g \in Funcs |-> rows'[g]] /\ terms' = [g \in Funcs |-> terms'[g]]
        /\ \A g \in Funcs : Terms(g)' = Terms(g)
        /\ \A g \in Funcs : \A q, r \in rows'[g] : q.key = r.key => q = r
    BY <1>1 DEF RowsOK, history, Terms
  <2>2. \A g \in Funcs : \A r \in rows'[g] \cup Inserted(g)' \cup Terms(g)' : RowOK(g, r)
    BY <1>1, <1>5, <1>7, <2>1 DEF RowsOK
  <2> QED
    BY <1>4, <2>1, <2>2 DEF RowsOK
<1>10. ControlOK'
  BY <1>1 DEF ControlOK, loop
<1>11. LoopInv'
  BY <1>1, <1>4 DEF LoopInv, UpToDate, loop, uf
<1>12. NoneLeftBehind'
  <2>1. Mentions(f, new) \subseteq Visible
    BY <1>2, <1>3 DEF Mentions
  <2>2. SUFFICES ASSUME NEW g \in Funcs,
                        NEW r \in (rows'[g] \ pend'[g].del) \cup Inserted(g)'
                 PROVE  Mentions(g, r) \cap seen'[g] = {}
    BY DEF NoneLeftBehind, Inserted
  <2>3. CASE r \in (rows[g] \ pend[g].del) \cup Inserted(g)
    BY <1>1, <2>3 DEF NoneLeftBehind, Inserted
  <2>4. CASE g = f /\ r = new
    BY <1>1, <1>6, <2>1, <2>4
  <2> QED
    BY <1>1, <1>4, <1>5, <2>3, <2>4
<1>13. Complete' /\ Sound'
  <2>1. \A e \in Equivalences : Contains(e)' <=> Contains(e)
    BY <1>1 DEF Contains, loop, uf
  <2>2. \A g \in Ctors : Here(g)' = Here(g)
    BY <1>1 DEF Here, loop
  <2> QED
    BY <1>1, <2>1, <2>2, HalvesUntouched
<1> QED
  BY <1>8, <1>9, <1>10, <1>11, <1>12, <1>13

\* When rules are done what they have staged is theirs to see: it is in neither half alone.
LEMMA EndRulesKeeps == ASSUME IInv, NEW how \in {"run", "defer"}, EndRules(how) PROVE IInv'
<1> USE DEF IInv, TypeInv
<1>1. /\ UNCHANGED <<uf, seen, rows, unions, pend, todo, changed, owed>>
      /\ phase = "rules" /\ phase' = "merge" /\ mode' = how /\ grew' = FALSE
      /\ asserted' = asserted \cup unions
      /\ terms' = [f \in Funcs |-> terms[f] (+) pend[f].ins]
  BY DEF EndRules
<1>2. \A f \in Funcs : Terms(f)' = Terms(f) \cup Inserted(f) /\ Inserted(f)' = Inserted(f)
  BY <1>1 DEF Terms, Inserted, BagToSet, (+)
<1>3. \A f \in Funcs : Here(f)' = Here(f) \cup Inserted(f)
  BY <1>1 DEF Here, Inserted, LoopInv
<1>4. Ctors \subseteq Funcs
  BY DEF Ctors, Funcs
<1>5. UnionsOK'
  BY <1>1 DEF UnionsOK, uf
<1>6. RowsOK'
  <2>1. /\ rows' = [g \in Funcs |-> rows'[g]] /\ terms' = [g \in Funcs |-> terms'[g]]
        /\ pend' = [f \in Funcs |-> [del |-> pend'[f].del, ins |-> pend'[f].ins]]
        /\ \A g \in Funcs : \A q, r \in rows'[g] : q.key = r.key => q = r
    BY <1>1 DEF RowsOK
  <2>2. \A g \in Funcs : \A r \in rows'[g] \cup Inserted(g)' \cup Terms(g)' : RowOK(g, r)
    BY <1>1, <1>2 DEF RowsOK
  <2> QED
    BY <2>1, <2>2 DEF RowsOK
<1>7. ControlOK'
  BY <1>1 DEF ControlOK
<1>8. LoopInv'
  BY <1>1 DEF LoopInv, UpToDate, uf
<1>9. NoneLeftBehind'
  BY <1>1 DEF NoneLeftBehind
<1>10. Complete'
  <2> SUFFICES ASSUME NEW e \in Equivalences, Contains(e)'
               PROVE  /\ \A p \in asserted' : e[p[1]] = e[p[2]]
                      /\ \A f \in Ctors : \A t \in Terms(f)' : \E r \in Here(f)' : Same(e, t, r)
    BY DEF Complete
  <2>1. Contains(e) /\ \A p \in unions : e[p[1]] = e[p[2]]
    BY <1>1 DEF Contains, uf
  <2>2. /\ \A p \in asserted : e[p[1]] = e[p[2]]
        /\ \A f \in Ctors : \A t \in Terms(f) : \E r \in Here(f) : Same(e, t, r)
    BY <2>1 DEF Complete
  <2>3. \A t : Same(e, t, t)
    BY DEF Same
  <2> QED
    BY <1>1, <1>2, <1>3, <1>4, <2>1, <2>2, <2>3
<1>11. Sound'
  <2> SUFFICES ASSUME NEW d \in Equivalences, Satisfies(d)'
               PROVE  /\ Contains(d)'
                      /\ \A f \in Ctors : \A r \in Here(f)' : \E t \in Terms(f)' : Same(d, t, r)
    BY DEF Sound
  <2>1. Satisfies(d) /\ \A p \in unions : d[p[1]] = d[p[2]]
    BY <1>1, <1>2, <1>4 DEF Satisfies, Terms, Ctors
  <2>2. /\ Contains(d)
        /\ \A f \in Ctors : \A r \in Here(f) : \E t \in Terms(f) : Same(d, t, r)
    BY <2>1 DEF Sound
  <2>3. Contains(d)'
    BY <1>1, <2>1, <2>2 DEF Contains, uf
  <2>4. \A t : Same(d, t, t)
    BY DEF Same
  <2> QED
    BY <1>2, <1>3, <1>4, <2>2, <2>3, <2>4
<1> QED
  BY <1>5, <1>6, <1>7, <1>8, <1>9, <1>10, <1>11

-----------------------------------------------------------------------------
(* Merging *)

\* Joining the classes at the ends of the staged unions is what they ask for, and no more.
LEMMA MergeUnionsKeeps == ASSUME IInv, MergeUnions PROVE IInv'
<1> USE DEF IInv, TypeInv
<1>1. /\ UNCHANGED <<seen, rows, pend, phase, mode, todo, owed, history>>
      /\ phase = "merge" /\ canon' = Join(canon, unions) /\ unions' = {}
      /\ displaced' = {v \in Ids : canon'[v] # v}
      /\ changed' = (changed \/ canon' # canon) /\ grew' = (grew \/ canon' # canon)
  BY DEF MergeUnions
<1>2. /\ canon \in Equivalences /\ unions \subseteq Ids \X Ids
      /\ displaced = {v \in Ids : canon[v] # v}
  BY DEF UnionsOK
<1>3. /\ canon' \in Equivalences
      /\ \A v \in Ids : canon[v] # v => canon'[v] # v
      /\ \A v \in Ids : canon'[canon[v]] = canon'[v]
      /\ \A p \in unions : canon'[p[1]] = canon'[p[2]]
  BY <1>1, <1>2, JoinIsCanon
<1>4. displaced \subseteq displaced' /\ (canon' = canon => displaced' = displaced)
  BY <1>1, <1>2, <1>3
<1>5. UnionsOK'
  BY <1>1, <1>3, <1>4 DEF UnionsOK, history
<1>6. RowsOK'
  BY <1>1 DEF RowsOK, history, Inserted, Terms
<1>7. ControlOK'
  BY <1>1 DEF ControlOK
<1>8. LoopInv'
  BY <1>1, <1>4 DEF LoopInv, UpToDate, ControlOK
<1>9. NoneLeftBehind'
  BY <1>1 DEF NoneLeftBehind
<1>10. Complete' /\ Sound'
  <2>1. ASSUME NEW e \in Equivalences, Contains(e)' PROVE Contains(e)
    <3>1. \A v, w \in Ids : canon'[v] = canon'[w] => e[v] = e[w]
      BY <2>1 DEF Contains, Finer
    <3>2. \A v \in Ids : canon[v] \in Ids
      BY <1>2 DEF Equivalences
    <3>3. \A v, w \in Ids : canon[v] = canon[w] => e[v] = e[w]
      BY <1>3, <3>1, <3>2
    <3>4. \A p \in unions : p[1] \in Ids /\ p[2] \in Ids
      BY <1>2
    <3> QED
      BY <1>3, <3>1, <3>3, <3>4 DEF Contains, Finer
  <2>2. ASSUME NEW d \in Equivalences, Satisfies(d) PROVE Contains(d)'
    <3>1. Finer(canon, d) /\ \A p \in unions : d[p[1]] = d[p[2]]
      BY <1>1, <2>2 DEF Sound, Contains
    <3>2. Finer(canon', d)
      BY <1>1, <1>2, <3>1, JoinIsLeast
    <3> QED
      BY <1>1, <3>2 DEF Contains
  <2>3. \A f \in Ctors : Here(f)' = Here(f)
    BY <1>1 DEF Here, Inserted
  <2>4. \A e, q : Same(e, q, q)
    BY DEF Same
  <2> QED
    BY <1>1, <2>1, <2>2, <2>3, <2>4, HalvesKept
<1> QED
  BY <1>5, <1>6, <1>7, <1>8, <1>9, <1>10

\* Merging leaves one row at each key there was; a constructor's is one of those at the key.
LEMMA MergedIs ==
  ASSUME NEW f \in Funcs, NEW kept, NEW ins, \A r \in kept \cup BagToSet(ins) : RowOK(f, r)
  PROVE  LET all == kept \cup BagToSet(ins)
             merged == MergedRows(f, kept, ins)
         IN  /\ \A r \in all : \E m \in merged : m.key = r.key
             /\ \A m \in merged : /\ RowOK(f, m)
                                  /\ \E r \in all : r.key = m.key /\ (IsCtor(f) => m = r)
             /\ \A m, n \in merged : m.key = n.key => m = n
<1> DEFINE all == kept \cup BagToSet(ins)
           merged == MergedRows(f, kept, ins)
           Value(key) == MergedValue(f, key, kept, ins)
<1>1. merged = {Row(key, Value(key)) : key \in {r.key : r \in all}}
  BY DEF MergedRows
<1>2. ASSUME IsCtor(f), NEW q \in all PROVE \E r \in all : r.key = q.key /\ r.val = Value(q.key)
  <2> DEFINE values == ValuesAt(q.key, all)
  <2>1. Value(q.key) = Min(values)
    BY <1>2 DEF MergedValue
  <2>2. values \in SUBSET Nat /\ values # {}
    <3>1. values = {r.val : r \in {r \in all : r.key = q.key}}
      BY DEF ValuesAt, AtKey
    <3>2. \A r \in all : r.val \in Nat
      BY <1>2, IdsAreNats DEF RowOK
    <3>3. q \in {r \in all : r.key = q.key}
      OBVIOUS
    <3> QED
      BY <3>1, <3>2, <3>3
  <2>3. Min(values) \in values
    BY <2>2, MinIsLeast
  <2> QED
    BY <2>1, <2>3 DEF ValuesAt, AtKey
<1> HIDE DEF Value
<1>3. \A key : Row(key, Value(key)).key = key /\ Row(key, Value(key)).val = Value(key)
  BY DEF Row
<1>4. \A r \in all : \E m \in merged : m.key = r.key
  BY <1>1, <1>3
<1>5. \A m, n \in merged : m.key = n.key => m = n
  BY <1>1, <1>3
<1>6. ASSUME NEW m \in merged
      PROVE  RowOK(f, m) /\ \E r \in all : r.key = m.key /\ (IsCtor(f) => m = r)
  <2>1. PICK q \in all : m = Row(q.key, Value(q.key))
    BY <1>1
  <2>2. CASE IsCtor(f)
    <3>1. PICK r \in all : r.key = q.key /\ r.val = Value(q.key)
      BY <1>2, <2>2
    <3>2. RowOK(f, r) /\ m = Row(r.key, r.val)
      BY <2>1, <3>1
    <3>3. m = r
      BY <3>2 DEF RowOK
    <3> QED
      BY <3>2, <3>3
  <2>3. CASE ~IsCtor(f)
    BY <1>3, <2>1, <2>3 DEF RowOK
  <2> QED
    BY <2>2, <2>3
<1> HIDE DEF all, merged
<1> QED
  BY <1>4, <1>5, <1>6 DEF all, merged

\* The unions that a merge stages are of values at one key, and all of them.
LEMMA StagedAre ==
  ASSUME NEW f \in Funcs, IsCtor(f), NEW all, \A r \in all : RowOK(f, r)
  PROVE  /\ \A p \in StagedUnions(f, all) :
              \E q, r \in all : q.key = r.key /\ p = <<q.val, r.val>>
         /\ StagedUnions(f, all) \subseteq Ids \X Ids
         /\ \A q, r \in all : q.key = r.key =>
              \/ q.val = r.val
              \/ <<q.val, r.val>> \in StagedUnions(f, all)
              \/ <<r.val, q.val>> \in StagedUnions(f, all)
<1>1. \A p : p \in StagedUnions(f, all) <=>
               \E q, r \in all : q.key = r.key /\ q.val < r.val /\ p = <<q.val, r.val>>
  BY DEF StagedUnions, AtKey
<1>2. \A r \in all : r.val \in Ids /\ r.val \in Nat
  BY IdsAreNats DEF RowOK
<1>3. \A q, r \in all : q.val = r.val \/ q.val < r.val \/ r.val < q.val
  BY <1>2
<1> QED
  BY <1>1, <1>2, <1>3

\* Rows that meet at a key become one of them, and the union of their values is staged.
LEMMA MergeTableKeeps == ASSUME IInv, NEW f \in Funcs, MergeTable(f) PROVE IInv'
<1> USE DEF IInv, TypeInv
<1> DEFINE kept == rows[f] \ pend[f].del
           all == kept \cup Inserted(f)
           merged == MergedRows(f, kept, pend[f].ins)
           new == StagedUnions(f, all)
<1>1. /\ UNCHANGED <<uf, seen, phase, mode, todo, grew, owed, history>>
      /\ phase = "merge" /\ pend' = [pend EXCEPT ![f] = NoChange]
      /\ rows' = [rows EXCEPT ![f] = merged] /\ unions' = unions \cup new
      /\ changed' = (changed \/ merged # kept \/ new # {})
  BY DEF MergeTable, Inserted
<1>2. \A r \in all : RowOK(f, r)
  BY DEF RowsOK
<1>3. /\ \A r \in all : \E m \in merged : m.key = r.key
      /\ \A m \in merged : /\ RowOK(f, m)
                           /\ \E r \in all : r.key = m.key /\ (IsCtor(f) => m = r)
      /\ \A m, n \in merged : m.key = n.key => m = n
  BY <1>2, MergedIs DEF Inserted
<1>4. IsCtor(f) => /\ \A p \in new : \E q, r \in all : q.key = r.key /\ p = <<q.val, r.val>>
                   /\ \A q, r \in all : q.key = r.key =>
                        q.val = r.val \/ <<q.val, r.val>> \in new \/ <<r.val, q.val>> \in new
  BY <1>2, StagedAre
<1>5. new \subseteq Ids \X Ids /\ (~IsCtor(f) => new = {})
  BY <1>2, StagedAre DEF StagedUnions
<1>6. Ctors \subseteq Funcs /\ \A g \in Ctors : IsCtor(g)
  BY RebuildAssumption DEF Ctors, Funcs, IsCtor
<1> HIDE DEF merged, new
<1>7. /\ rows' = [g \in Funcs |-> IF g = f THEN merged ELSE rows[g]]
      /\ pend' = [g \in Funcs |-> IF g = f THEN NoChange ELSE pend[g]]
  BY <1>1 DEF RowsOK
<1>8. BagToSet(EmptyBag) = {}
  BY DEF EmptyBag, SetToBag, BagToSet
<1>9. \A g \in Funcs : /\ rows'[g] = (IF g = f THEN merged ELSE rows[g])
                       /\ pend'[g].del = (IF g = f THEN {} ELSE pend[g].del)
                       /\ Inserted(g)' = (IF g = f THEN {} ELSE Inserted(g))
                       /\ Terms(g)' = Terms(g)
  BY <1>1, <1>7, <1>8 DEF Inserted, NoChange, Terms, history
<1>10. UnionsOK'
  BY <1>1, <1>5 DEF UnionsOK, uf, history
<1>11. RowsOK'
  <2>1. /\ rows' = [g \in Funcs |-> rows'[g]] /\ terms' = [g \in Funcs |-> terms'[g]]
    BY <1>1, <1>7 DEF RowsOK, history
  <2>2. pend' = [g \in Funcs |-> [del |-> pend'[g].del, ins |-> pend'[g].ins]]
    <3>1. \A g \in Funcs : pend[g] = [del |-> pend[g].del, ins |-> pend[g].ins]
      BY DEF RowsOK
    <3>2. NoChange = [del |-> NoChange.del, ins |-> NoChange.ins]
      BY DEF NoChange
    <3> QED
      BY <1>7, <3>1, <3>2
  <2>3. \A g \in Funcs : \A r \in rows'[g] \cup Inserted(g)' \cup Terms(g)' : RowOK(g, r)
    <3>1. ASSUME NEW g \in Funcs, NEW r \in rows[g] \cup Inserted(g) \cup Terms(g)
          PROVE  RowOK(g, r)
      BY DEF RowsOK
    <3>2. \A g \in Funcs : g # f => rows'[g] \cup Inserted(g)' \cup Terms(g)'
                                   = rows[g] \cup Inserted(g) \cup Terms(g)
      BY <1>9
    <3>3. rows'[f] \cup Inserted(f)' \cup Terms(f)' = merged \cup Terms(f)
      BY <1>9
    <3>4. \A m \in merged : RowOK(f, m)
      BY <1>3
    <3> QED
      BY <3>1, <3>2, <3>3, <3>4
  <2>4. \A g \in Funcs : \A q, r \in rows'[g] : q.key = r.key => q = r
    BY <1>3, <1>9 DEF RowsOK
  <2> QED
    BY <2>1, <2>2, <2>3, <2>4 DEF RowsOK
<1>12. ControlOK'
  BY <1>1 DEF ControlOK
<1>13. LoopInv'
  BY <1>1 DEF LoopInv, UpToDate, uf, ControlOK
<1>14. NoneLeftBehind'
  <2>1. SUFFICES ASSUME NEW g \in Funcs,
                        NEW m \in (rows'[g] \ pend'[g].del) \cup Inserted(g)'
                 PROVE  Mentions(g, m) \cap seen[g] = {}
    BY <1>1 DEF NoneLeftBehind, Inserted
  <2>2. CASE g # f
    BY <1>9, <2>2 DEF NoneLeftBehind, Inserted
  <2>3. CASE g = f
    <3>1. m \in merged
      BY <1>9, <2>3
    <3>2. PICK r \in all : r.key = m.key /\ (IsCtor(f) => m = r)
      BY <1>3, <3>1
    <3>3. Mentions(f, r) \cap seen[f] = {}
      BY DEF NoneLeftBehind, Inserted
    <3>4. Mentions(f, m) = Mentions(f, r)
      BY <3>2 DEF Mentions
    <3> QED
      BY <2>3, <3>3, <3>4
  <2> QED
    BY <2>2, <2>3
<1>15. \A g \in Ctors : /\ Here(g) = (IF g = f THEN all ELSE Here(g))
                        /\ Here(g)' = (IF g = f THEN merged ELSE Here(g))
  BY <1>1, <1>6, <1>9 DEF Here
<1>16. \A e \in Equivalences :
         Contains(e)' <=> Contains(e) /\ \A p \in new : e[p[1]] = e[p[2]]
  BY <1>1 DEF Contains, uf
<1>17. ASSUME NEW e \in Equivalences, Contains(e)', NEW g \in Ctors, NEW q \in Here(g)
       PROVE  \E r \in Here(g)' : Same(e, q, r)
  <2>1. CASE g # f
    BY <1>15, <2>1 DEF Same
  <2>2. CASE g = f
    <3>1. q \in all /\ IsCtor(f)
      BY <1>6, <1>15, <2>2
    <3>2. PICK m \in merged : m.key = q.key
      BY <1>3, <3>1
    <3>3. m \in all
      BY <1>3, <3>1
    <3>4. q.val = m.val \/ <<q.val, m.val>> \in new \/ <<m.val, q.val>> \in new
      BY <1>4, <3>1, <3>2, <3>3
    <3>5. e[q.val] = e[m.val]
      BY <1>16, <1>17, <3>4
    <3> QED
      BY <1>15, <2>2, <3>2, <3>5 DEF Same
  <2> QED
    BY <2>1, <2>2
<1>18. ASSUME NEW d \in Equivalences, Satisfies(d) PROVE Contains(d)'
  <2>1. /\ Contains(d)
        /\ \A g \in Ctors : \A r \in Here(g) : \E t \in Terms(g) : Same(d, t, r)
    BY <1>18 DEF Sound
  <2>2. SUFFICES ASSUME NEW p \in new PROVE d[p[1]] = d[p[2]]
    BY <1>16, <2>1
  <2>3. IsCtor(f) /\ f \in Ctors
    BY <1>5 DEF IsCtor, Funcs, Ctors
  <2>4. PICK q \in all, r \in all : q.key = r.key /\ p = <<q.val, r.val>>
    BY <1>4, <2>3
  <2>5. PICK t \in Terms(f) : Same(d, t, q)
    BY <1>15, <2>1, <2>3
  <2>6. PICK u \in Terms(f) : Same(d, u, r)
    BY <1>15, <2>1, <2>3
  <2>7. Image(d, t.key) = Image(d, u.key)
    BY <2>4, <2>5, <2>6 DEF Same
  <2>8. \A i \in DOMAIN t.key : d[t.key[i]] = d[u.key[i]]
    BY <2>7 DEF Image
  <2>9. d[t.val] = d[u.val]
    BY <1>18, <2>3, <2>8 DEF Satisfies, Terms, Ctors
  <2> QED
    BY <2>4, <2>5, <2>6, <2>9 DEF Same
<1>19. ASSUME NEW d \in Equivalences, NEW g \in Ctors, NEW r \in Here(g)'
       PROVE  \E q \in Here(g) : Same(d, r, q)
  BY <1>3, <1>6, <1>15 DEF Same
<1>20. Complete' /\ Sound'
  BY <1>1, <1>16, <1>17, <1>18, <1>19, HalvesKept
<1> QED
  BY <1>10, <1>11, <1>12, <1>13, <1>14, <1>20

\* A step that goes on when nothing is staged keeps what is there.
LEMMA NothingStaged ==
  ASSUME IInv, ~Pending, UNCHANGED <<uf, seen, rows, unions, pend, history>>
  PROVE  UnionsOK' /\ RowsOK' /\ NoneLeftBehind' /\ Complete' /\ Sound'
<1> USE DEF IInv, TypeInv
<1>1. unions = {} /\ \A f \in Funcs : pend[f] = NoChange
  BY DEF Pending
<1>2. BagToSet(EmptyBag) = {}
  BY DEF EmptyBag, SetToBag, BagToSet
<1>3. Ctors \subseteq Funcs
  BY DEF Ctors, Funcs
<1>4. UnionsOK'
  BY DEF UnionsOK, uf, history
<1>5. RowsOK'
  BY DEF RowsOK, history, Inserted, Terms
<1>6. NoneLeftBehind'
  BY DEF NoneLeftBehind
<1>7. \A e \in Equivalences : Contains(e)' <=> Contains(e)
  BY <1>1 DEF Contains, uf
<1>8. \A f \in Ctors : Here(f)' = rows[f] /\ Here(f) = rows[f]
  <2>1. \A f \in Funcs : pend[f].del = {} /\ Inserted(f) = {}
    BY <1>1, <1>2 DEF Inserted, NoChange
  <2>2. \A f \in Funcs : rows'[f] = rows[f] /\ pend'[f].del = {} /\ Inserted(f)' = {}
    BY <2>1 DEF Inserted
  <2> QED
    BY <1>3, <2>1, <2>2 DEF Here
<1>9. Complete' /\ Sound'
  BY <1>7, <1>8, HalvesUntouched
<1> QED
  BY <1>4, <1>5, <1>6, <1>9

\* The round that changes nothing leaves every table's cursor at the end.
LEMMA MergeDoneKeeps == ASSUME IInv, MergeDone PROVE IInv'
<1> USE DEF IInv, TypeInv
<1>1. /\ UNCHANGED <<uf, seen, rows, unions, pend, mode, grew, history>>
      /\ ~Pending /\ phase = "merge"
  BY DEF MergeDone
<1>2. UnionsOK' /\ RowsOK' /\ NoneLeftBehind' /\ Complete' /\ Sound'
  BY <1>1, NothingStaged
<1>3. unions = {} /\ \A f \in Funcs : pend[f] = NoChange
  BY <1>1 DEF Pending
<1>4. CASE (mode = "run" /\ grew) \/ (mode = "round" /\ More)
  <2>1. phase' = "scan" /\ todo' = Funcs /\ changed' = FALSE /\ owed' = owed
    BY <1>4 DEF MergeDone, StartRound
  <2>2. ControlOK'
    BY <1>1, <2>1 DEF ControlOK
  <2>3. LoopInv'
    BY <1>1, <1>3, <2>1 DEF LoopInv
  <2> QED
    BY <1>2, <2>2, <2>3
<1>5. CASE ~((mode = "run" /\ grew) \/ (mode = "round" /\ More))
  <2>1. /\ phase' = "rules" /\ todo' = todo /\ changed' = changed
        /\ owed' = IF mode = "round" THEN FALSE ELSE owed \/ (mode = "defer" /\ grew)
    BY <1>5 DEF MergeDone
  <2>2. ControlOK'
    BY <1>1, <2>1 DEF ControlOK
  <2>3. ~owed' => UpToDate
    BY <1>1, <1>5, <2>1 DEF LoopInv, ControlOK, More
  <2>4. LoopInv'
    BY <1>1, <1>3, <2>1, <2>3 DEF LoopInv, UpToDate, uf, NoChange
  <2> QED
    BY <1>2, <2>2, <2>4
<1> QED
  BY <1>4, <1>5

\* A deferred rebuild starts with a round.
LEMMA RebuildNowKeeps == ASSUME IInv, RebuildNow PROVE IInv'
<1> USE DEF IInv, TypeInv
<1>1. /\ UNCHANGED <<uf, seen, rows, unions, pend, mode, grew, owed, history>> /\ ~Pending
      /\ phase' = "scan" /\ todo' = Funcs /\ changed' = FALSE
  BY DEF RebuildNow, StartRound
<1>2. UnionsOK' /\ RowsOK' /\ NoneLeftBehind' /\ Complete' /\ Sound'
  BY <1>1, NothingStaged
<1>3. ControlOK'
  BY <1>1 DEF ControlOK
<1>4. LoopInv'
  BY <1>1 DEF LoopInv, Pending
<1> QED
  BY <1>2, <1>3, <1>4

-----------------------------------------------------------------------------
(* A round *)

\* A row and its canonical form say the same to an equivalence that contains the union-find.
LEMMA CanonicalSaysTheSame ==
  ASSUME UnionsOK, NEW f \in Funcs, IsCtor(f), NEW r, RowOK(f, r),
         NEW e \in Equivalences, Finer(canon, e)
  PROVE  Same(e, r, Canonical(f, r))
<1>1. \A v \in Ids : canon[v] \in Ids /\ canon[canon[v]] = canon[v]
  BY DEF UnionsOK, Equivalences
<1>2. \A v \in Ids : e[canon[v]] = e[v]
  BY <1>1 DEF Finer
<1>3. /\ Canonical(f, r).key = [i \in DOMAIN r.key |-> canon[r.key[i]]]
      /\ Canonical(f, r).val = canon[r.val]
  BY DEF Canonical, Row
<1>4. r.val \in Ids /\ \A i \in DOMAIN r.key : r.key[i] \in Ids
  BY DEF RowOK, Keys
<1> QED
  BY <1>2, <1>3, <1>4 DEF Same, Image

\* The canonical form is a row of the function, and mentions nothing displaced.
LEMMA CanonicalIs ==
  ASSUME UnionsOK, NEW f \in Funcs, NEW r, RowOK(f, r)
  PROVE  /\ RowOK(f, Canonical(f, r))
         /\ Mentions(f, Canonical(f, r)) \cap displaced = {}
         /\ Mentions(f, r) \cap displaced = {} <=> Canonical(f, r) = r
<1>1. \A v \in Ids : canon[v] \in Ids /\ canon[canon[v]] = canon[v]
  BY DEF UnionsOK, Equivalences
<1>2. displaced = {v \in Ids : canon[v] # v}
  BY DEF UnionsOK
<1> DEFINE c == Canonical(f, r)
           key == [i \in DOMAIN r.key |-> canon[r.key[i]]]
           val == IF IsCtor(f) THEN canon[r.val] ELSE r.val
<1>3. c = Row(key, val)
  BY DEF Canonical
<1>4. c.key = key /\ c.val = val /\ c = Row(c.key, c.val)
  BY <1>3 DEF Row
<1>5. /\ r = Row(r.key, r.val) /\ r.key \in Keys(f) /\ (IsCtor(f) => r.val \in Ids)
      /\ \A i \in DOMAIN r.key : r.key[i] \in Ids
      /\ r.key = [i \in DOMAIN r.key |-> r.key[i]]
  BY DEF RowOK, Keys
<1>6. key \in Keys(f)
  BY <1>1, <1>5 DEF Keys
<1>7. RowOK(f, c)
  BY <1>1, <1>4, <1>5, <1>6 DEF RowOK
<1>8. Range(key) = {canon[r.key[i]] : i \in DOMAIN r.key}
  BY DEF Range
<1>9. Mentions(f, c) \cap displaced = {}
  BY <1>1, <1>2, <1>4, <1>5, <1>8 DEF Mentions
<1>10. ASSUME Mentions(f, r) \cap displaced = {} PROVE c = r
  <2>1. \A i \in DOMAIN r.key : canon[r.key[i]] = r.key[i]
    BY <1>2, <1>5, <1>10 DEF Mentions, Range
  <2>2. key = r.key
    BY <1>5, <2>1
  <2>3. val = r.val
    BY <1>2, <1>5, <1>10 DEF Mentions
  <2> QED
    BY <1>3, <1>5, <2>2, <2>3
<1> QED
  BY <1>7, <1>9, <1>10

\* Rows that are not canonical make room for their canonical forms.
StagesCanonical(f) ==
  LET outdated == {r \in rows[f] : Canonical(f, r) # r}
  IN  /\ pend' = [g \in Funcs |-> IF g = f THEN pend'[f] ELSE pend[g]]
      /\ pend'[f] = [del |-> pend'[f].del, ins |-> pend'[f].ins]
      /\ pend'[f].del = outdated
      /\ BagToSet(pend'[f].ins) = {Canonical(f, r) : r \in outdated}
      /\ outdated = {} => pend'[f] = NoChange

\* So it is whether a table is scanned or looked up.
LEMMA VisitStages == ASSUME IInv, NEW f \in Funcs, Visit(f) PROVE StagesCanonical(f)
<1> USE DEF IInv, TypeInv
<1> DEFINE outdated == {r \in rows[f] : Canonical(f, r) # r}
<1>1. /\ UNCHANGED <<uf, rows, unions, phase, mode, changed, grew, owed, history>>
      /\ phase = "scan" /\ f \in todo /\ todo' = todo \ {f}
      /\ seen' = [seen EXCEPT ![f] = displaced]
  BY DEF Visit
<1>2. unions = {} /\ pend[f] = NoChange
  BY <1>1 DEF LoopInv
<1>3. BagToSet(EmptyBag) = {}
  BY DEF EmptyBag, SetToBag, BagToSet
<1>4. \A r \in rows[f] : RowOK(f, r) /\ Mentions(f, r) \cap seen[f] = {}
  BY <1>2 DEF RowsOK, NoneLeftBehind, NoChange
<1>5. Dirty(f) = displaced \ seen[f] /\ seen[f] \subseteq displaced
  BY DEF Dirty, UnionsOK
<1>6. \A r \in rows[f] : Mentions(f, r) \cap Dirty(f) = {} <=> Canonical(f, r) = r
  <2>1. \A r \in rows[f] : Mentions(f, r) \cap Dirty(f) = Mentions(f, r) \cap displaced
    BY <1>4, <1>5
  <2> QED
    BY <1>4, <2>1, CanonicalIs
<1>10. pend = [g \in Funcs |-> pend[g]]
  BY DEF RowsOK
<1>11. ASSUME NEW found, pend' = [pend EXCEPT ![f] = Rewritten(f, found)], BagToSet(found) = outdated
      PROVE  StagesCanonical(f)
  <2>1. /\ pend' = [g \in Funcs |-> IF g = f THEN Rewritten(f, found) ELSE pend[g]]
        /\ pend'[f] = Rewritten(f, found)
    BY <1>10, <1>11
  <2>2. BagToSet(BagOfAll(LAMBDA r : Canonical(f, r), found))
          = {Canonical(f, r) : r \in BagToSet(found)}
    BY DEF BagOfAll, BagToSet
  <2>3. PICK ins : ins = BagOfAll(LAMBDA r : Canonical(f, r), found)
    OBVIOUS
  <2>4. Rewritten(f, found) = [del |-> BagToSet(found), ins |-> ins]
    BY <2>3 DEF Rewritten
  <2>5. BagToSet(ins) = {Canonical(f, r) : r \in outdated}
    BY <1>11, <2>2, <2>3
  <2>9. outdated = {} => ins = EmptyBag
    <3>1. outdated = {} => DOMAIN ins = {}
      BY <2>5 DEF BagToSet
    <3>2. ins = [r \in DOMAIN ins |-> ins[r]]
      BY <2>3 DEF BagOfAll
    <3>3. EmptyBag = [r \in {} |-> 1]
      BY DEF EmptyBag, SetToBag
    <3> HIDE DEF outdated
    <3> QED
      BY <3>1, <3>2, <3>3
  <2> HIDE DEF outdated
  <2>6. pend'[f] = [del |-> outdated, ins |-> ins]
    BY <1>11, <2>1, <2>4
  <2>7. pend' = [g \in Funcs |-> IF g = f THEN pend'[f] ELSE pend[g]]
    BY <2>1
  <2>8. pend'[f].del = outdated /\ pend'[f].ins = ins
    BY <2>6
  <2> QED
    BY <2>5, <2>6, <2>7, <2>8, <2>9 DEF StagesCanonical, NoChange, outdated
<1>12. CASE pend' = [pend EXCEPT ![f] = FullScan(f)]
  <2>1. BagToSet(SetToBag(outdated)) = outdated
    BY DEF BagToSet, SetToBag
  <2> QED
    BY <1>11, <1>12, <2>1 DEF FullScan
<1>13. CASE Dirty(f) # {} /\ pend' = [pend EXCEPT ![f] = Lookup(f)]
  <2> DEFINE found == Counted(rows[f], LAMBDA r : Cardinality(Mentions(f, r) \cap Dirty(f)))
  <2>1. BagToSet(found) = {r \in rows[f] : Cardinality(Mentions(f, r) \cap Dirty(f)) > 0}
    BY DEF Counted, BagToSet
  <2>2. ASSUME NEW r \in rows[f]
        PROVE  Cardinality(Mentions(f, r) \cap Dirty(f)) > 0 <=> Mentions(f, r) \cap Dirty(f) # {}
    <3>1. Mentions(f, r) \cap Dirty(f) \subseteq Ids
      BY <1>4 DEF Dirty, UnionsOK
    <3>2. IsFiniteSet(Mentions(f, r) \cap Dirty(f))
      BY <3>1, IdsAreFinite, FS_Subset
    <3> QED
      BY <3>2, FS_EmptySet, FS_CardinalityType
  <2>3. BagToSet(found) = outdated
    BY <1>6, <2>1, <2>2
  <2>4. pend' = [pend EXCEPT ![f] = Rewritten(f, found)]
    BY <1>13 DEF Lookup
  <2> HIDE DEF found
  <2> QED
    BY <1>11, <2>3, <2>4
<1>14. CASE Dirty(f) = {} /\ pend' = pend
  <2>1. outdated = {}
    BY <1>6, <1>14
  <2> QED
    BY <1>2, <1>3, <1>10, <1>14, <2>1 DEF NoChange, StagesCanonical
<1> QED
  BY <1>12, <1>13, <1>14 DEF Visit

\* A table that is visited gets its rows in canonical form, and its cursor at the end.
LEMMA VisitKeeps == ASSUME IInv, NEW f \in Funcs, Visit(f) PROVE IInv'
<1> USE DEF IInv, TypeInv
<1> DEFINE outdated == {r \in rows[f] : Canonical(f, r) # r}
<1>1. /\ UNCHANGED <<uf, rows, unions, phase, mode, changed, grew, owed, history>>
      /\ phase = "scan" /\ f \in todo /\ todo' = todo \ {f}
      /\ seen' = [seen EXCEPT ![f] = displaced]
  BY DEF Visit
<1>2. unions = {} /\ pend[f] = NoChange
  BY <1>1 DEF LoopInv
<1>3. BagToSet(EmptyBag) = {}
  BY DEF EmptyBag, SetToBag, BagToSet
<1>4. \A r \in rows[f] : RowOK(f, r) /\ Mentions(f, r) \cap seen[f] = {}
  BY <1>2 DEF RowsOK, NoneLeftBehind, NoChange
<1>7. /\ pend' = [g \in Funcs |-> IF g = f THEN pend'[f] ELSE pend[g]]
      /\ pend'[f] = [del |-> pend'[f].del, ins |-> pend'[f].ins]
      /\ pend'[f].del = outdated
      /\ BagToSet(pend'[f].ins) = {Canonical(f, r) : r \in outdated}
  BY VisitStages DEF StagesCanonical
<1>8. \A r \in outdated : RowOK(f, r) /\ RowOK(f, Canonical(f, r))
  BY <1>4, CanonicalIs
<1>9. \A g \in Funcs : /\ rows'[g] = rows[g] /\ Terms(g)' = Terms(g)
                       /\ g # f => /\ pend'[g] = pend[g] /\ seen'[g] = seen[g]
                                   /\ Inserted(g)' = Inserted(g)
  BY <1>1, <1>7 DEF Inserted, Terms, history, UnionsOK
<1>10. Inserted(f)' = {Canonical(f, r) : r \in outdated} /\ seen'[f] = displaced
  BY <1>1, <1>7 DEF Inserted, UnionsOK
<1>11. UnionsOK'
  BY <1>1, <1>9, <1>10 DEF UnionsOK, uf, history
<1>12. RowsOK'
  <2>1. /\ rows' = [g \in Funcs |-> rows'[g]] /\ terms' = [g \in Funcs |-> terms'[g]]
        /\ \A g \in Funcs : \A q, r \in rows'[g] : q.key = r.key => q = r
    BY <1>1 DEF RowsOK, history
  <2>2. pend' = [g \in Funcs |-> [del |-> pend'[g].del, ins |-> pend'[g].ins]]
    <3>1. \A g \in Funcs : pend[g] = [del |-> pend[g].del, ins |-> pend[g].ins]
      BY DEF RowsOK
    <3>2. \A g \in Funcs : pend'[g] = [del |-> pend'[g].del, ins |-> pend'[g].ins]
      BY <1>7, <1>9, <3>1
    <3> QED
      BY <1>7, <3>2
  <2>3. \A g \in Funcs : \A r \in rows'[g] \cup Inserted(g)' \cup Terms(g)' : RowOK(g, r)
    <3>1. \A g \in Funcs : \A r \in rows[g] \cup Inserted(g) \cup Terms(g) : RowOK(g, r)
      BY DEF RowsOK
    <3>2. \A r \in Inserted(f)' : RowOK(f, r)
      BY <1>8, <1>10
    <3> QED
      BY <1>9, <3>1, <3>2
  <2> QED
    BY <2>1, <2>2, <2>3 DEF RowsOK
<1>13. ControlOK'
  BY <1>1 DEF ControlOK
<1>14. LoopInv'
  <2>1. \A g \in todo' : pend'[g] = NoChange
    BY <1>1, <1>9 DEF LoopInv, ControlOK
  <2>2. \A g \in Funcs \ todo' : seen'[g] = displaced'
    BY <1>1, <1>9, <1>10 DEF LoopInv, uf
  <2> QED
    BY <1>1, <2>1, <2>2 DEF LoopInv
<1>15. NoneLeftBehind'
  <2>1. SUFFICES ASSUME NEW g \in Funcs,
                        NEW m \in (rows'[g] \ pend'[g].del) \cup Inserted(g)'
                 PROVE  Mentions(g, m) \cap seen'[g] = {}
    BY DEF NoneLeftBehind, Inserted
  <2>2. CASE g # f
    BY <1>9, <2>2 DEF NoneLeftBehind, Inserted
  <2>3. CASE g = f /\ m \in Inserted(f)'
    BY <1>4, <1>10, <2>3, CanonicalIs
  <2>4. CASE g = f /\ m \in rows[f] /\ Canonical(f, m) = m
    BY <1>4, <1>10, <2>4, CanonicalIs
  <2> QED
    BY <1>7, <1>9, <2>2, <2>3, <2>4
<1>16. \A e \in Equivalences : Contains(e)' <=> Contains(e)
  BY <1>1 DEF Contains, uf
<1>17. /\ Here(f) = rows[f]
       /\ Here(f)' = (rows[f] \ outdated) \cup {Canonical(f, r) : r \in outdated}
       /\ \A g \in Funcs : g # f => Here(g)' = Here(g)
  <2>1. Inserted(f) = {} /\ pend[f].del = {}
    BY <1>2, <1>3 DEF Inserted, NoChange
  <2>2. Here(f) = rows[f]
    BY <2>1 DEF Here
  <2>3. Here(f)' = (rows[f] \ outdated) \cup {Canonical(f, r) : r \in outdated}
    BY <1>1, <1>7, <1>9, <1>10 DEF Here
  <2>4. \A g \in Funcs : g # f => Here(g)' = Here(g)
    BY <1>1, <1>9 DEF Here
  <2> QED
    BY <2>2, <2>3, <2>4
<1>18. Ctors \subseteq Funcs /\ \A g \in Ctors : IsCtor(g)
  BY RebuildAssumption DEF Ctors, Funcs, IsCtor
<1>19. ASSUME NEW e \in Equivalences, Contains(e), IsCtor(f), NEW r \in rows[f]
       PROVE  Same(e, r, Canonical(f, r)) /\ Same(e, Canonical(f, r), r) /\ Same(e, r, r)
  <2>1. Same(e, r, Canonical(f, r))
    BY <1>4, <1>19, CanonicalSaysTheSame DEF Contains
  <2> QED
    BY <2>1 DEF Same
<1> HIDE DEF outdated
<1>20. ASSUME NEW e \in Equivalences, Contains(e), NEW g \in Ctors, NEW q \in Here(g)
       PROVE  \E r \in Here(g)' : Same(e, q, r)
  <2>1. CASE g # f
    BY <1>17, <1>18, <2>1 DEF Same
  <2>2. CASE g = f
    BY <1>17, <1>18, <1>19, <1>20, <2>2
  <2> QED
    BY <2>1, <2>2
<1>21. ASSUME NEW d \in Equivalences, Contains(d), NEW g \in Ctors, NEW r \in Here(g)'
       PROVE  \E q \in Here(g) : Same(d, r, q)
  <2>1. CASE g # f
    BY <1>17, <1>18, <2>1 DEF Same
  <2>2. CASE g = f
    BY <1>17, <1>18, <1>19, <1>21, <2>2 DEF outdated
  <2> QED
    BY <2>1, <2>2
<1>22. \A d \in Equivalences : Satisfies(d) => Contains(d)
  BY DEF Sound
<1>23. Complete' /\ Sound'
  BY <1>1, <1>16, <1>20, <1>21, <1>22, HalvesKept
<1> QED
  BY <1>11, <1>12, <1>13, <1>14, <1>15, <1>23

\* When every table has been visited, the cursors are at the end.
LEMMA ScanDoneKeeps == ASSUME IInv, ScanDone PROVE IInv'
<1> USE DEF IInv, TypeInv
<1>1. /\ UNCHANGED <<uf, seen, rows, unions, pend, todo, changed, grew, owed, history>>
      /\ phase = "scan" /\ todo = {} /\ phase' = "merge" /\ mode' = "round"
  BY DEF ScanDone
<1>2. UnionsOK'
  BY <1>1 DEF UnionsOK, uf, history
<1>3. RowsOK'
  BY <1>1 DEF RowsOK, history, Inserted, Terms
<1>4. ControlOK'
  BY <1>1 DEF ControlOK
<1>5. LoopInv'
  BY <1>1 DEF LoopInv, UpToDate, uf
<1>6. NoneLeftBehind'
  BY <1>1 DEF NoneLeftBehind
<1>7. \A e \in Equivalences : Contains(e)' <=> Contains(e)
  BY <1>1 DEF Contains, LoopInv, uf
<1>8. \A f \in Ctors : Here(f)' = Here(f)
  BY <1>1 DEF Here, Inserted
<1>9. Complete' /\ Sound'
  BY <1>1, <1>7, <1>8, HalvesUntouched
<1> QED
  BY <1>2, <1>3, <1>4, <1>5, <1>6, <1>9

-----------------------------------------------------------------------------
(* The invariant and what it says *)

\* Every step keeps the invariant.
LEMMA StepKeeps == ASSUME IInv, [Next]_vars PROVE IInv'
<1>1. CASE Next
  BY <1>1, StageUnionKeeps, StageTermKeeps, EndRulesKeeps, MergeUnionsKeeps, MergeTableKeeps,
     MergeDoneKeeps, RebuildNowKeeps, VisitKeeps, ScanDoneKeeps DEF Next, Step
<1>2. CASE UNCHANGED vars
  <2>1. UNCHANGED <<canon, displaced, seen, rows, unions, pend, phase, mode, todo, changed, grew,
                    owed, work, asserted, terms>>
    BY <1>2 DEF vars, uf, loop, history
  <2>2. TypeInv'
    BY <2>1 DEF IInv, TypeInv, UnionsOK, RowsOK, ControlOK, Inserted, Terms
  <2>3. LoopInv' /\ NoneLeftBehind'
    BY <2>1 DEF IInv, LoopInv, UpToDate, NoneLeftBehind
  <2>4. \A e \in Equivalences : Contains(e)' <=> Contains(e)
    BY <2>1 DEF Contains
  <2>5. \A f \in Ctors : Here(f)' = Here(f)
    BY <2>1 DEF Here, Inserted
  <2>6. Complete' /\ Sound'
    BY <2>1, <2>4, <2>5, HalvesUntouched DEF IInv, history
  <2> QED
    BY <2>2, <2>3, <2>6 DEF IInv
<1> QED
  BY <1>1, <1>2

\* With every cursor at the end, both halves speak of the union-find.
LEMMA ClosedAtTheEnd == ASSUME IInv PROVE CongruenceClosed
<1> USE DEF IInv, TypeInv
<1> SUFFICES ASSUME phase = "rules", ~owed PROVE CongruenceClosed
  BY DEF CongruenceClosed
<1>1. \A f \in Funcs : seen[f] = displaced /\ pend[f].del = {} /\ Here(f) = rows[f]
  BY DEF LoopInv, UpToDate, Here
<1>2. Ctors \subseteq Funcs /\ \A g \in Ctors : IsCtor(g)
  BY RebuildAssumption DEF Ctors, Funcs, IsCtor
<1>3. \A f \in Funcs : \A r \in rows[f] : RowOK(f, r) /\ Canonical(f, r) = r
  <2>1. \A f \in Funcs : \A r \in rows[f] : RowOK(f, r) /\ Mentions(f, r) \cap displaced = {}
    BY <1>1 DEF RowsOK, NoneLeftBehind
  <2> QED
    BY <2>1, CanonicalIs
<1>4. canon \in Equivalences /\ Contains(canon)
  BY DEF UnionsOK, Contains, Finer
<1>5. /\ \A p \in asserted : canon[p[1]] = canon[p[2]]
      /\ \A f \in Ctors : \A t \in Terms(f) : \E r \in rows[f] : Same(canon, t, r)
  BY <1>1, <1>2, <1>4 DEF Complete
\* Rows that say the same have one canonical form.
<1>6. ASSUME NEW f \in Ctors, NEW q, NEW r, Same(canon, q, r)
      PROVE  Canonical(f, q) = Canonical(f, r)
  BY <1>2, <1>6 DEF Same, Image, Canonical
<1>7. Satisfies(canon)
  <2>1. ASSUME NEW f \in Ctors, NEW t \in Terms(f), NEW u \in Terms(f),
               \A i \in DOMAIN t.key : canon[t.key[i]] = canon[u.key[i]]
        PROVE  canon[t.val] = canon[u.val]
    <3>1. PICK q \in rows[f] : Same(canon, t, q)
      BY <1>5
    <3>2. PICK r \in rows[f] : Same(canon, u, r)
      BY <1>5
    <3>3. DOMAIN t.key = DOMAIN u.key
      BY <1>2 DEF RowsOK, RowOK, Keys
    <3>4. Image(canon, t.key) = Image(canon, u.key)
      BY <2>1, <3>3 DEF Image
    <3>5. Image(canon, q.key) = Image(canon, r.key)
      BY <3>1, <3>2, <3>4 DEF Same
    <3>6. Canonical(f, q).key = Image(canon, q.key) /\ Canonical(f, r).key = Image(canon, r.key)
      BY DEF Canonical, Row, Image
    <3>7. q.key = r.key
      BY <1>2, <1>3, <3>5, <3>6
    <3>8. q = r
      BY <1>2, <3>7 DEF RowsOK
    <3> QED
      BY <3>1, <3>2, <3>8 DEF Same
  <2> QED
    BY <1>5, <2>1 DEF Satisfies, Ctors, Terms
<1>8. \A d \in Equivalences : Satisfies(d) => Finer(canon, d)
  BY DEF Sound, Contains
<1>9. ASSUME NEW f \in Ctors PROVE rows[f] = {Canonical(f, t) : t \in Terms(f)}
  <2>1. ASSUME NEW r \in rows[f] PROVE \E t \in Terms(f) : r = Canonical(f, t)
    <3>1. PICK t \in Terms(f) : Same(canon, t, r)
      BY <1>1, <1>2, <1>4, <1>7 DEF Sound
    <3> QED
      BY <1>2, <1>3, <1>6, <3>1
  <2>2. ASSUME NEW t \in Terms(f) PROVE Canonical(f, t) \in rows[f]
    <3>1. PICK r \in rows[f] : Same(canon, t, r)
      BY <1>5
    <3> QED
      BY <1>2, <1>3, <1>6, <3>1
  <2> QED
    BY <2>1, <2>2
<1> QED
  BY <1>7, <1>8, <1>9 DEF CongruenceClosed, Ctors, Terms

\* The invariant holds throughout: the tables and the union-find have rows and ids of the right
\* kind, and both halves of the argument hold.
THEOREM RebuildInvariant == Spec => []IInv
<1> QED
  BY InitHolds, StepKeeps, PTL DEF Spec

\* Rebuilding is complete: no cursor passes a displaced id that its table still mentions, and when
\* no rebuild is owed rules meet the congruence closure of what they have written, no more and no
\* less, and tables that hold exactly the canonical forms of the rows that were set.
THEOREM RebuildIsComplete == Spec => []RebuildComplete
<1>1. IInv => RebuildComplete
  BY ClosedAtTheEnd DEF IInv, RebuildComplete
<1> QED
  BY <1>1, RebuildInvariant, PTL

-----------------------------------------------------------------------------
(* The rounds come to an end *)

\* A round that is over has joined classes, or found all cursors at the end when it began to merge;
\* then what it changed is due to a row that was not canonical when it began.
ShrinkInv ==
  /\ \A f \in Funcs : IsFiniteSet(rows[f]) /\ IsFiniteSet(Inserted(f))
  /\ phase = "scan" =>
       /\ work = WorkLeft /\ ~changed
       /\ \A f \in Funcs : pend[f] # NoChange => \E r \in rows[f] : Canonical(f, r) # r
  /\ phase = "merge" /\ mode = "round" =>
       /\ work \in Nat \X Nat
       /\ \/ Classes < work[1]
          \/ Classes = work[1] /\ UpToDate /\ (Pending \/ changed => work[2] > 0)

\* The image of a finite set is finite.
LEMMA ImageIsFinite ==
  ASSUME NEW S, IsFiniteSet(S), NEW g, DOMAIN g = S, NEW V, V = {g[x] : x \in S}
  PROVE  IsFiniteSet(V)
<1> DEFINE h == [x \in S |-> g[x]]
<1>1. h \in Surjection(S, V)
  BY DEF Surjection
<1> HIDE DEF h
<1> QED
  BY <1>1, FS_Surjection

\* What is left to do is counted by numbers, the second is 0 when all rows are canonical.
LEMMA WorkLeftIs ==
  ASSUME \A f \in Funcs : IsFiniteSet(rows[f])
  PROVE  /\ WorkLeft \in Nat \X Nat /\ Classes \in Nat
         /\ WorkLeft[2] = 0 <=> \A f \in Funcs : \A r \in rows[f] : Canonical(f, r) = r
<1> DEFINE Left(f) == {f} \X {r \in rows[f] : Canonical(f, r) # r}
<1>1. Classes \in Nat
  <2>1. IsFiniteSet(Ids \ displaced)
    BY IdsAreFinite, FS_Subset
  <2> QED
    BY <2>1, FS_CardinalityType DEF Classes
<1>2. IsFiniteSet(RowsLeft)
  <2>1. ASSUME NEW f \in Funcs PROVE IsFiniteSet(Left(f))
    <3>1. IsFiniteSet({r \in rows[f] : Canonical(f, r) # r})
      BY FS_Subset
    <3>2. IsFiniteSet({f})
      BY FS_Singleton
    <3> QED
      BY <3>1, <3>2, FS_Product
  <2>2. IsFiniteSet({Left(f) : f \in Funcs})
    <3> DEFINE g == [f \in Funcs |-> Left(f)]
    <3>1. DOMAIN g = Funcs /\ {Left(f) : f \in Funcs} = {g[f] : f \in Funcs}
      OBVIOUS
    <3> HIDE DEF g
    <3> QED
      BY <3>1, RebuildAssumption, ImageIsFinite DEF Funcs
  <2> QED
    BY <2>1, <2>2, FS_UNION DEF RowsLeft
<1>3. Cardinality(RowsLeft) \in Nat /\ (Cardinality(RowsLeft) = 0 <=> RowsLeft = {})
  BY <1>2, FS_CardinalityType, FS_EmptySet
<1>4. RowsLeft = {} <=> \A f \in Funcs : \A r \in rows[f] : Canonical(f, r) = r
  <2>1. ASSUME NEW f \in Funcs, NEW r \in rows[f], Canonical(f, r) # r PROVE RowsLeft # {}
    <3>1. <<f, r>> \in Left(f)
      BY <2>1
    <3> QED
      BY <3>1 DEF RowsLeft
  <2>2. ASSUME NEW x \in RowsLeft PROVE \E f \in Funcs : \E r \in rows[f] : Canonical(f, r) # r
    <3>1. PICK f \in Funcs : x \in Left(f)
      BY DEF RowsLeft
    <3> QED
      BY <3>1
  <2> QED
    BY <2>1, <2>2
<1> QED
  BY <1>1, <1>3, <1>4 DEF WorkLeft

\* With every cursor at the end and nothing staged, all rows are canonical.
LEMMA UpToDateIsCanonical ==
  ASSUME IInv, UpToDate, ~Pending, NEW f \in Funcs, NEW r \in rows[f]
  PROVE  Canonical(f, r) = r
<1>1. RowOK(f, r) /\ seen[f] = displaced /\ pend[f].del = {} /\ UnionsOK
  BY DEF IInv, TypeInv, RowsOK, UpToDate, Pending, NoChange
<1>2. Mentions(f, r) \cap displaced = {}
  BY <1>1 DEF IInv, NoneLeftBehind
<1> QED
  BY <1>1, <1>2, CanonicalIs

\* Rules stage finitely many rows, and rounds come after them.
LEMMA ShrinkRules ==
  ASSUME IInv, ShrinkInv,
         StageUnion \/ (\E f \in Funcs : StageTerm(f)) \/ EndRules("run") \/ EndRules("defer")
  PROVE  ShrinkInv'
<1>1. CASE StageUnion
  BY <1>1 DEF StageUnion, loop, ShrinkInv, Inserted
<1>2. ASSUME NEW f \in Funcs, StageTerm(f) PROVE ShrinkInv'
  <2>1. PICK new : pend' = [pend EXCEPT ![f].ins = @ (+) SetToBag({new})]
    BY <1>2 DEF StageTerm
  <2>2. phase' = "rules" /\ rows' = rows
    BY <1>2 DEF StageTerm, loop
  <2>3. BagToSet(pend[f].ins (+) SetToBag({new})) = BagToSet(pend[f].ins) \cup {new}
    BY DEF BagToSet, SetToBag, (+)
  <2>4. pend = [g \in Funcs |-> pend[g]] /\ pend[f] = [del |-> pend[f].del, ins |-> pend[f].ins]
    BY DEF IInv, TypeInv, RowsOK
  <2>5. PICK ins : ins = pend[f].ins (+) SetToBag({new})
    OBVIOUS
  <2>6. pend' = [pend EXCEPT ![f] = [pend[f] EXCEPT !.ins = ins]]
    BY <2>1, <2>5
  <2>7. [pend[f] EXCEPT !.ins = ins] = [del |-> pend[f].del, ins |-> ins]
    BY <2>4
  <2>8. pend'[f].ins = ins /\ \A g \in Funcs : g # f => pend'[g] = pend[g]
    BY <2>4, <2>6, <2>7
  <2>9. IsFiniteSet(Inserted(f)')
    <3>1. IsFiniteSet(BagToSet(pend[f].ins))
      BY DEF ShrinkInv, Inserted
    <3>2. IsFiniteSet(BagToSet(pend[f].ins) \cup {new})
      BY <3>1, FS_AddElement
    <3>3. Inserted(f)' = BagToSet(pend[f].ins) \cup {new}
      BY <2>3, <2>5, <2>8 DEF Inserted
    <3> QED
      BY <3>2, <3>3
  <2> QED
    BY <2>2, <2>8, <2>9 DEF ShrinkInv, Inserted
<1>3. CASE EndRules("run") \/ EndRules("defer")
  <2>1. phase' = "merge" /\ mode' \in {"run", "defer"} /\ rows' = rows /\ pend' = pend
    BY <1>3 DEF EndRules
  <2> QED
    BY <2>1 DEF ShrinkInv, Inserted
<1> QED
  BY <1>1, <1>2, <1>3

\* A merge of unions leaves the union-find as it is or fewer classes.
LEMMA ShrinkUnions == ASSUME IInv, ShrinkInv, MergeUnions PROVE ShrinkInv'
<1>1. /\ UNCHANGED <<seen, rows, pend, phase, mode, work>> /\ phase = "merge"
      /\ canon' = Join(canon, unions) /\ displaced' = {v \in Ids : canon'[v] # v}
      /\ changed' = (changed \/ canon' # canon) /\ unions # {} /\ unions' = {}
  BY DEF MergeUnions
<1>2. /\ canon \in Equivalences /\ unions \subseteq Ids \X Ids
      /\ displaced = {v \in Ids : canon[v] # v}
  BY DEF IInv, TypeInv, UnionsOK
<1>3. /\ canon' \in Equivalences
      /\ \A v \in Ids : canon[v] # v => canon'[v] # v
      /\ \A v \in Ids : canon'[canon[v]] = canon'[v]
  BY <1>1, <1>2, JoinIsCanon
<1>4. Classes \in Nat /\ Classes' \in Nat
  BY <1>1, WorkLeftIs, IdsAreFinite, FS_Subset, FS_CardinalityType DEF ShrinkInv, Classes
<1>5. CASE canon' = canon
  <2>1. displaced' = displaced
    BY <1>1, <1>2, <1>5
  <2>2. Classes' = Classes /\ (UpToDate' <=> UpToDate) /\ changed' = changed /\ Pending
    BY <1>1, <1>5, <2>1 DEF Classes, UpToDate, IInv, TypeInv, ControlOK, Pending
  <2> QED
    BY <1>1, <2>2 DEF ShrinkInv, Inserted
<1>6. CASE canon' # canon
  <2>1. PICK v \in Ids : canon'[v] # canon[v]
    BY <1>2, <1>3, <1>6 DEF Equivalences
  <2>2. canon[v] \in Ids /\ canon[canon[v]] = canon[v]
    BY <1>2 DEF Equivalences
  <2>3. canon[v] \notin displaced /\ canon[v] \in displaced'
    BY <1>1, <1>2, <1>3, <2>1, <2>2
  <2>4. Ids \ displaced' \subseteq Ids \ displaced /\ Ids \ displaced' # Ids \ displaced
    BY <1>1, <1>2, <1>3, <2>2, <2>3
  <2>5. Classes' < Classes
    <3>1. IsFiniteSet(Ids \ displaced)
      BY IdsAreFinite, FS_Subset
    <3>2. Cardinality(Ids \ displaced') <= Cardinality(Ids \ displaced)
      BY <2>4, <3>1, FS_Subset
    <3>3. Cardinality(Ids \ displaced') # Cardinality(Ids \ displaced)
      BY <2>4, <3>1, FS_Subset
    <3> QED
      BY <1>4, <3>2, <3>3 DEF Classes
  <2>6. phase = "merge" /\ mode = "round" => work[1] \in Nat /\ Classes <= work[1]
    BY <1>4 DEF ShrinkInv
  <2>7. phase = "merge" /\ mode = "round" => Classes' < work[1]
    BY <1>4, <2>5, <2>6
  <2> QED
    BY <1>1, <2>7 DEF ShrinkInv, Inserted
<1> QED
  BY <1>5, <1>6

\* A merge of rows changes something for a reason there was before.
LEMMA ShrinkTable == ASSUME IInv, ShrinkInv, NEW f \in Funcs, MergeTable(f) PROVE ShrinkInv'
<1> DEFINE kept == rows[f] \ pend[f].del
           all == kept \cup Inserted(f)
           merged == MergedRows(f, kept, pend[f].ins)
<1>1. /\ UNCHANGED <<uf, seen, phase, mode, work>> /\ phase = "merge" /\ Pending
      /\ pend' = [pend EXCEPT ![f] = NoChange] /\ rows' = [rows EXCEPT ![f] = merged]
  BY DEF MergeTable, Pending, Inserted
<1>2. IsFiniteSet(merged)
  <2>1. IsFiniteSet(all)
    BY FS_Subset, FS_Union DEF ShrinkInv
  <2> DEFINE key == [r \in all |-> r.key]
             row == [k \in {r.key : r \in all} |-> Row(k, MergedValue(f, k, kept, pend[f].ins))]
  <2>2. DOMAIN key = all /\ {r.key : r \in all} = {key[r] : r \in all}
    OBVIOUS
  <2>3. IsFiniteSet({r.key : r \in all})
    <3> HIDE DEF key, all
    <3> QED
      BY <2>1, <2>2, ImageIsFinite
  <2>4. /\ DOMAIN row = {r.key : r \in all}
        /\ merged = {row[k] : k \in {r.key : r \in all}}
    BY DEF MergedRows, Inserted
  <2> HIDE DEF row, all, merged
  <2> QED
    BY <2>3, <2>4, ImageIsFinite
<1> HIDE DEF merged
<1>3. BagToSet(EmptyBag) = {} /\ IsFiniteSet({})
  BY FS_EmptySet DEF EmptyBag, SetToBag, BagToSet
<1>4. \A g \in Funcs : IsFiniteSet(rows'[g]) /\ IsFiniteSet(Inserted(g)')
  BY <1>1, <1>2, <1>3 DEF ShrinkInv, Inserted, NoChange, IInv, TypeInv, RowsOK
<1>5. Classes' = Classes /\ (UpToDate' <=> UpToDate)
  BY <1>1 DEF Classes, UpToDate, uf
<1> QED
  BY <1>1, <1>4, <1>5 DEF ShrinkInv

\* A round that begins notes what there is to do.
LEMMA ShrinkRound == ASSUME IInv, ShrinkInv, MergeDone \/ RebuildNow PROVE ShrinkInv'
<1>1. UNCHANGED <<uf, rows, unions, pend>> /\ ~Pending
  BY DEF MergeDone, RebuildNow
<1>2. WorkLeft' = WorkLeft /\ \A f \in Funcs : Inserted(f)' = Inserted(f)
  BY <1>1 DEF WorkLeft, Classes, RowsLeft, Canonical, uf, Inserted
<1>3. phase' = "rules" \/ (phase' = "scan" /\ work' = WorkLeft /\ changed' = FALSE)
  BY DEF MergeDone, RebuildNow, StartRound
<1> QED
  BY <1>1, <1>2, <1>3 DEF ShrinkInv, Pending

\* What a visit stages is due to a row that is not canonical.
LEMMA ShrinkVisit == ASSUME IInv, ShrinkInv, NEW f \in Funcs, Visit(f) PROVE ShrinkInv'
<1> DEFINE outdated == {r \in rows[f] : Canonical(f, r) # r}
<1>1. UNCHANGED <<uf, rows, phase, changed, work>> /\ phase = "scan"
  BY DEF Visit
<1>2. /\ pend' = [g \in Funcs |-> IF g = f THEN pend'[f] ELSE pend[g]]
      /\ BagToSet(pend'[f].ins) = {Canonical(f, r) : r \in outdated}
      /\ outdated = {} => pend'[f] = NoChange
  BY VisitStages DEF StagesCanonical
<1>3. IsFiniteSet(BagToSet(pend'[f].ins))
  <2>1. IsFiniteSet(outdated)
    BY FS_Subset DEF ShrinkInv
  <2> DEFINE form == [r \in outdated |-> Canonical(f, r)]
  <2>2. DOMAIN form = outdated /\ {Canonical(f, r) : r \in outdated} = {form[r] : r \in outdated}
    OBVIOUS
  <2>3. BagToSet(pend'[f].ins) = {form[r] : r \in outdated}
    BY <1>2, <2>2
  <2> HIDE DEF form, outdated
  <2> QED
    BY <2>1, <2>2, <2>3, ImageIsFinite
<1>4. \A g \in Funcs : IsFiniteSet(rows'[g]) /\ IsFiniteSet(Inserted(g)')
  BY <1>1, <1>2, <1>3 DEF ShrinkInv, Inserted
<1>5. WorkLeft' = WorkLeft /\ \A g \in Funcs : \A r : Canonical(g, r)' = Canonical(g, r)
  BY <1>1 DEF WorkLeft, Classes, RowsLeft, Canonical, uf
<1>6. \A g \in Funcs : pend'[g] # NoChange => \E r \in rows[g] : Canonical(g, r) # r
  BY <1>1, <1>2 DEF ShrinkInv
<1> QED
  BY <1>1, <1>4, <1>5, <1>6 DEF ShrinkInv

\* When all tables have been visited the cursors are at the end.
LEMMA ShrinkScan == ASSUME IInv, ShrinkInv, ScanDone PROVE ShrinkInv'
<1>1. /\ UNCHANGED <<uf, seen, rows, unions, pend, changed, work>>
      /\ phase = "scan" /\ todo = {} /\ phase' = "merge"
  BY DEF ScanDone
<1>2. /\ work = WorkLeft /\ ~changed /\ unions = {} /\ UpToDate
      /\ \A f \in Funcs : IsFiniteSet(rows[f])
  BY <1>1 DEF ShrinkInv, IInv, LoopInv, UpToDate
<1>3. work \in Nat \X Nat /\ work[1] = Classes
  BY <1>2, WorkLeftIs DEF WorkLeft
<1>4. Pending => work[2] # 0
  <2> SUFFICES ASSUME Pending PROVE work[2] # 0
    OBVIOUS
  <2>1. PICK f \in Funcs : pend[f] # NoChange
    BY <1>2 DEF Pending
  <2>2. \E r \in rows[f] : Canonical(f, r) # r
    BY <1>1, <2>1 DEF ShrinkInv
  <2> QED
    BY <1>2, <2>2, WorkLeftIs
<1>5. Classes' = Classes /\ (UpToDate' <=> UpToDate) /\ (Pending' <=> Pending)
  BY <1>1 DEF Classes, UpToDate, Pending, uf
<1>6. Classes' = work[1] /\ UpToDate' /\ (Pending' \/ changed' => work[2] > 0)
  BY <1>1, <1>2, <1>3, <1>4, <1>5
<1> QED
  BY <1>1, <1>3, <1>6 DEF ShrinkInv, Inserted

\* The rebuild loop ends: a round that asks for another has fewer classes or, with the same, fewer
\* rows that are not canonical than there were when it began.
THEOREM RebuildEnds == Spec => []RoundsShrink
<1>1. Init => ShrinkInv
  <2> SUFFICES ASSUME Init PROVE ShrinkInv
    OBVIOUS
  <2>1. BagToSet(EmptyBag) = {} /\ IsFiniteSet({})
    BY FS_EmptySet DEF EmptyBag, SetToBag, BagToSet
  <2> QED
    BY <2>1 DEF Init, ShrinkInv, Inserted, NoChange
<1>2. IInv /\ ShrinkInv /\ [Next]_vars => ShrinkInv'
  <2> SUFFICES ASSUME IInv, ShrinkInv, [Next]_vars PROVE ShrinkInv'
    OBVIOUS
  <2>1. CASE Next
    BY <2>1, ShrinkRules, ShrinkUnions, ShrinkTable, ShrinkRound, ShrinkVisit, ShrinkScan
       DEF Next, Step
  <2>2. CASE UNCHANGED vars
    <3>1. UNCHANGED <<canon, displaced, seen, rows, unions, pend, phase, mode, changed, work>>
      BY <2>2 DEF vars, uf, loop
    <3>2. WorkLeft' = WorkLeft /\ Classes' = Classes /\ (Pending' <=> Pending)
      BY <3>1 DEF WorkLeft, Classes, RowsLeft, Canonical, Pending
    <3>3. UpToDate' <=> UpToDate
      BY <3>1 DEF UpToDate
    <3> QED
      BY <3>1, <3>2, <3>3 DEF ShrinkInv, Inserted, Canonical
  <2> QED
    BY <2>1, <2>2
<1>3. IInv /\ ShrinkInv => RoundsShrink
  <2> SUFFICES ASSUME IInv, ShrinkInv, phase = "merge", mode = "round", ~Pending, More
               PROVE  WorkLeft[1] < work[1] \/ (WorkLeft[1] = work[1] /\ WorkLeft[2] < work[2])
    BY DEF RoundsShrink
  <2>1. WorkLeft[1] = Classes
    BY DEF WorkLeft
  <2>2. CASE UpToDate
    <3>1. WorkLeft[2] = 0
      BY <2>2, UpToDateIsCanonical, WorkLeftIs DEF ShrinkInv
    <3> QED
      BY <2>1, <3>1 DEF ShrinkInv, More
  <2>3. CASE ~UpToDate
    BY <2>1, <2>3 DEF ShrinkInv
  <2> QED
    BY <2>2, <2>3
<1> QED
  BY <1>1, <1>2, <1>3, RebuildInvariant, PTL DEF Spec

-----------------------------------------------------------------------------
(* The tables that rebuilding rests on, as the run over all of them has them *)

\* What keeps the tables exact, in the behaviours that exercise them.
TablesInv ==
  /\ part = "uf" => D!IInv
  /\ part = "sorted" => T!IInv

\* A table that a behaviour does not exercise stays as it is, and the others' steps leave it alone.
LEMMA TablesHold == MCSpec => []TablesInv
<1>1. MCInit => TablesInv
  BY TablesAssumption, D!InitIInv, T!InitIInv DEF MCInit, TablesInv
<1>2. TablesInv /\ [MCNext]_allVars => TablesInv'
  <2> SUFFICES ASSUME TablesInv, [MCNext]_allVars PROVE TablesInv'
    OBVIOUS
  <2>1. part' = part
    BY DEF MCNext, allVars
  <2>2. ASSUME part = "uf" PROVE D!IInv'
    <3>1. [D!Next]_(D!vars)
      BY <2>2 DEF MCNext, allVars, ufTableVars, D!vars, D!table, D!merge
    <3> QED
      BY <2>2, <3>1, TablesAssumption, D!NextIInv DEF TablesInv
  <2>3. ASSUME part = "sorted" PROVE T!IInv'
    <3>1. [T!Next]_(T!vars)
      BY <2>3 DEF MCNext, allVars, sortedVars, T!vars, T!table, T!queues, T!merge
    <3> QED
      BY <2>3, <3>1, TablesAssumption, T!NextIInv DEF TablesInv
  <2> QED
    BY <2>1, <2>2, <2>3 DEF TablesInv
<1> QED
  BY <1>1, <1>2, PTL DEF MCSpec

\* The union-find table: each id has one row, stamped when it ceased to be the least of its
\* class, and every query finds it, for any values, timestamps, buffers and chunks.
THEOREM UnionFindTableIsExact == MCSpec => []DisplacedExact
<1>1. TablesInv => DisplacedExact
  BY TablesAssumption, D!IInvExact DEF TablesInv, DisplacedExact
<1> QED
  BY <1>1, TablesHold, PTL

\* The sorted-writes table: between merges the hash table has the live rows, the contents are what
\* the staged changes ask for, the offsets name the first row of each timestamp, and no assertion
\* of the insertion has failed, for any keys, values, shards, buffers, batches and merges, serial
\* or parallel, with or without a rehash.
THEOREM SortedTableStaysExact == MCSpec => []SortedExact
<1>1. TablesInv => SortedExact
  BY TablesAssumption, T!PropertiesFromIInv DEF TablesInv, SortedExact
<1> QED
  BY <1>1, TablesHold, PTL

\* A SubsetTracker (common.rs) that holds the present version of either table has seen all of its
\* rows, rehashes and parallel merges in between included; of the union-find table as long as that
\* is not cleared, which leaves its generation as it is.
THEOREM TrackersSeeEverything == MCSpec => []ReadersUpToDate
<1>1. TablesInv => ReadersUpToDate
  BY TablesAssumption, D!IInvExact, T!PropertiesFromIInv DEF TablesInv, ReadersUpToDate
<1> QED
  BY <1>1, TablesHold, PTL
=============================================================================
