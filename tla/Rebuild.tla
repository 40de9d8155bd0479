------------------------------- MODULE Rebuild -------------------------------
(***************************************************************************)
(* Rebuilding: how egglog-bridge/src/lib.rs restores congruence after      *)
(* unions, with Database::merge_all (core-relations/src/free_join/mod.rs)  *)
(* and do_rebuild (core-relations/src/table/rebuild.rs).  The union-find   *)
(* table and the function tables appear by what DisplacedTable and         *)
(* SortedWritesTable promise of them.  A round of the loop lets each table *)
(* rewrite the rows that mention displaced values, by a full scan or by    *)
(* looking up the values displaced since its cursor, then merges, which    *)
(* can make new unions; the loop ends with a round that changes nothing.   *)
(***************************************************************************)
EXTENDS Integers, Sequences, FiniteSets, FiniteSetsExt, Functions, Bags

CONSTANTS
  Ctors1,       \* constructors of one argument (their merge is UnionId)
  Ctors2,       \* constructors of two arguments
  Sums2,        \* functions of two arguments to numbers, merged by (+ old new)
  MaxId,        \* the ids are 0..MaxId
  MaxUnions,    \* bound: unions that rules make
  MaxTerms,     \* bound: rows that rules set
  Large         \* the functions whose tables have the rows it takes to be rebuilt by lookup

ASSUME RebuildAssumption ==
  /\ MaxId \in Nat /\ MaxUnions \in Nat /\ MaxTerms \in Nat
  /\ IsFiniteSet(Ctors1 \cup Ctors2 \cup Sums2) /\ Large \subseteq Ctors1 \cup Ctors2 \cup Sums2
  /\ Ctors1 \cap Ctors2 = {} /\ Ctors1 \cap Sums2 = {} /\ Ctors2 \cap Sums2 = {}

Ids == 0..MaxId
Funcs == Ctors1 \cup Ctors2 \cup Sums2
IsCtor(f) == f \notin Sums2
Keys(f) == [1..(IF f \in Ctors1 THEN 1 ELSE 2) -> Ids]
Row(key, val) == [key |-> key, val |-> val]

VARIABLES
  canon,      \* the union-find: the least member of each id's class
  displaced,  \* the ids that have a row in the union-find table
  seen,       \* seen[f]: those before f's cursor (its SubsetTracker)
  rows,       \* rows[f]: the live rows of f's table, one per key
  unions,     \* the unions staged in the union-find table's queue
  pend,       \* pend[f]: what is staged for f, rows to remove and a bag of rows to insert
  phase,      \* "rules", "scan" or "merge"
  mode,       \* what the merge belongs to: "run", "defer" or "round"
  todo,       \* the tables this round has yet to visit
  changed,    \* the result of this round's merge_all
  grew,       \* whether the union-find table grew in this iteration
  owed,       \* unions were merged with no rebuild since
  work,       \* history: what was left to do when the round began
  asserted,   \* history: the unions rules made
  terms       \* history: terms[f], the bag of the rows that rules set

uf == <<canon, displaced>>
loop == <<phase, mode, todo, changed, grew, owed>>
history == <<asserted, terms>>
vars == <<uf, seen, rows, unions, pend, loop, work, history>>

NoChange == [del |-> {}, ins |-> EmptyBag]

Init ==
  /\ canon = [v \in Ids |-> v]
  /\ displaced = {}
  /\ seen = [f \in Funcs |-> {}]
  /\ rows = [f \in Funcs |-> {}]
  /\ unions = {}
  /\ pend = [f \in Funcs |-> NoChange]
  /\ phase = "rules" /\ mode = "run" /\ todo = {}
  /\ changed = FALSE /\ grew = FALSE /\ owed = FALSE /\ work = <<0, 0>>
  /\ asserted = {} /\ terms = [f \in Funcs |-> EmptyBag]

-----------------------------------------------------------------------------
(* Rules: they match the rows there are, and see the ids in them and fresh ones; no    *)
(* row mentions an id that was displaced before the last rebuild.                      *)

Visible == Ids \ UNION {seen[f] : f \in Funcs}

StageUnion ==
  /\ phase = "rules"
  /\ Cardinality(unions) + Cardinality(asserted) < MaxUnions
  /\ \E a, b \in Visible : a < b /\ unions' = unions \cup {<<a, b>>}
  /\ UNCHANGED <<uf, seen, rows, pend, loop, work, history>>

Size(bags) == SumFunction([f \in Funcs |-> BagCardinality(bags[f])])
Staged == [f \in Funcs |-> pend[f].ins]

StageTerm(f) ==
  /\ phase = "rules"
  /\ Size(terms) + Size(Staged) < MaxTerms
  /\ \E key \in Keys(f), val \in IF IsCtor(f) THEN Visible ELSE {1} :
       /\ Range(key) \subseteq Visible
       /\ pend' = [pend EXCEPT ![f].ins = @ (+) SetToBag({Row(key, val)})]
  /\ UNCHANGED <<uf, seen, rows, unions, loop, work, history>>

Pending == unions # {} \/ \E f \in Funcs : pend[f] # NoChange

\* The end of an iteration: run_iteration, or its deferred form, which will not rebuild.
EndRules(how) ==
  /\ phase = "rules"
  /\ Pending
  /\ phase' = "merge"
  /\ mode' = how
  /\ grew' = FALSE
  /\ asserted' = asserted \cup unions
  /\ terms' = [f \in Funcs |-> terms[f] (+) pend[f].ins]
  /\ UNCHANGED <<uf, seen, rows, unions, pend, todo, changed, owed, work>>

-----------------------------------------------------------------------------
(* merge_all: tables with something staged are merged, in any order, until none is *)

\* Union-finds by their promise: the classes grow together along the pairs, and each id stands for
\* itself or a lesser one.  The sets of ends are those that no pair leads out of.
Join(c, pairs) ==
  LET ends == UNION {{c[p[1]], c[p[2]]} : p \in pairs}
      whole == {S \in SUBSET ends : \A p \in pairs : c[p[1]] \in S <=> c[p[2]] \in S}
  IN  [v \in Ids |-> Min({u \in ends \cup {c[v]} : \A S \in whole : u \in S <=> c[v] \in S})]

MergeUnions ==
  /\ phase = "merge"
  /\ unions # {}
  /\ canon' = Join(canon, unions)
  /\ displaced' = {v \in Ids : canon'[v] # v}
  /\ unions' = {}
  /\ changed' = (changed \/ canon' # canon)
  /\ grew' = (grew \/ canon' # canon)
  /\ UNCHANGED <<seen, rows, pend, phase, mode, todo, owed, work, history>>

\* Rows that are inserted, a bag, meet the rows that are kept.
AtKey(key, rs) == {r \in rs : r.key = key}
ValuesAt(key, rs) == {r.val : r \in AtKey(key, rs)}

\* Mutant: a function's value is overwritten, the merge function is not run.
OverwrittenValue(f, key, kept, ins) ==
  IF IsCtor(f) \/ AtKey(key, BagToSet(ins)) = {} THEN Min(ValuesAt(key, kept \cup BagToSet(ins)))
  ELSE Max(ValuesAt(key, BagToSet(ins)))

\* The merge function runs for every row that comes to a key after the first: UnionId keeps the
\* minimum, (+ old new) adds up.
MergedValue(f, key, kept, ins) ==
  IF IsCtor(f) THEN Min(ValuesAt(key, kept \cup BagToSet(ins)))
  ELSE MapThenSumSet(LAMBDA r : r.val, AtKey(key, kept))
       + MapThenSumSet(LAMBDA r : r.val * ins[r], AtKey(key, BagToSet(ins)))

MergedRows(f, kept, ins) ==
  {Row(key, MergedValue(f, key, kept, ins)) : key \in {r.key : r \in kept \cup BagToSet(ins)}}

\* UnionId stages a union of two different values.  Which of them meet depends on the order; all
\* values at a key are joined.
StagedUnions(f, all) ==
  IF ~IsCtor(f) THEN {}
  ELSE UNION {{<<q.val, r.val>> : r \in {s \in AtKey(q.key, all) : q.val < s.val}} : q \in all}

MergeTable(f) ==
  /\ phase = "merge"
  /\ pend[f] # NoChange
  /\ LET kept == rows[f] \ pend[f].del
         merged == MergedRows(f, kept, pend[f].ins)
         new == StagedUnions(f, kept \cup BagToSet(pend[f].ins))
     IN  /\ rows' = [rows EXCEPT ![f] = merged]
         /\ unions' = unions \cup new
         /\ changed' = (changed \/ merged # kept \/ new # {})
  /\ pend' = [pend EXCEPT ![f] = NoChange]
  /\ UNCHANGED <<uf, seen, phase, mode, todo, grew, owed, work, history>>

\* Mutant: a round is followed by another whatever it changed.
MoreAlways == TRUE

\* The loop goes on while a round changes something.
More == changed

Canonical(f, r) ==
  Row([i \in DOMAIN r.key |-> canon[r.key[i]]], IF IsCtor(f) THEN canon[r.val] ELSE r.val)

\* What rounds have left to do: classes that may yet be joined, and rows that are not canonical.
Classes == Cardinality(Ids \ displaced)
RowsLeft == UNION {{f} \X {r \in rows[f] : Canonical(f, r) # r} : f \in Funcs}
WorkLeft == <<Classes, Cardinality(RowsLeft)>>

StartRound == phase' = "scan" /\ todo' = Funcs /\ changed' = FALSE /\ work' = WorkLeft

MergeDone ==
  /\ phase = "merge"
  /\ ~Pending
  /\ IF (mode = "run" /\ grew) \/ (mode = "round" /\ More)
     THEN StartRound /\ UNCHANGED owed
     ELSE /\ phase' = "rules"
          /\ owed' = IF mode = "round" THEN FALSE ELSE owed \/ (mode = "defer" /\ grew)
          /\ UNCHANGED <<todo, changed, work>>
  /\ UNCHANGED <<uf, seen, rows, unions, pend, mode, grew, history>>

\* rebuild_now, after deferred iterations.
RebuildNow ==
  /\ phase = "rules"
  /\ owed
  /\ ~Pending
  /\ StartRound
  /\ UNCHANGED <<uf, seen, rows, unions, pend, mode, grew, owed, history>>

-----------------------------------------------------------------------------
(* A round: every table looks at the union-find, which no one changes meanwhile *)

Mentions(f, r) == Range(r.key) \cup (IF IsCtor(f) THEN {r.val} ELSE {})
Rewritten(f, found) ==
  [del |-> BagToSet(found), ins |-> BagOfAll(LAMBDA r : Canonical(f, r), found)]

\* recent_updates: the cursor moves to the end of the table, whatever is done.
Dirty(f) == displaced \ seen[f]

\* A bag with each row as often as Count says.
Counted(rs, Count(_)) == [r \in {q \in rs : Count(q) > 0} |-> Count(r)]

\* rebuild_nonincremental: every row that is not canonical, once.
FullScan(f) == Rewritten(f, SetToBag({r \in rows[f] : Canonical(f, r) # r}))

\* Mutant: the rebuild index covers the keys only.
LookupKeys(f) ==
  Rewritten(f, Counted(rows[f], LAMBDA r : Cardinality(Range(r.key) \cap Dirty(f))))

\* rebuild_incremental: for every displaced id, the rows that mention it; a row comes
\* once for each displaced id in it.
Lookup(f) ==
  Rewritten(f, Counted(rows[f], LAMBDA r : Cardinality(Mentions(f, r) \cap Dirty(f))))

\* do_rebuild.  Which path a larger table takes is a matter of costs, left open here.
Visit(f) ==
  /\ phase = "scan"
  /\ f \in todo
  /\ \/ pend' = [pend EXCEPT ![f] = FullScan(f)]
     \/ f \in Large /\ Dirty(f) # {} /\ pend' = [pend EXCEPT ![f] = Lookup(f)]
     \/ f \in Large /\ Dirty(f) = {} /\ UNCHANGED pend
  /\ seen' = [seen EXCEPT ![f] = displaced]
  /\ todo' = todo \ {f}
  /\ UNCHANGED <<uf, rows, unions, phase, mode, changed, grew, owed, work, history>>

ScanDone ==
  /\ phase = "scan"
  /\ todo = {}
  /\ phase' = "merge"
  /\ mode' = "round"
  /\ UNCHANGED <<uf, seen, rows, unions, pend, todo, changed, grew, owed, work, history>>

Step ==
  \/ MergeUnions \/ MergeDone \/ ScanDone
  \/ \E f \in Funcs : MergeTable(f) \/ Visit(f)

Next ==
  \/ StageUnion
  \/ \E f \in Funcs : StageTerm(f)
  \/ EndRules("run") \/ EndRules("defer")
  \/ RebuildNow
  \/ Step

Spec == Init /\ [][Next]_vars

-----------------------------------------------------------------------------
(* Properties *)

\* The equivalences, by least members, and those that satisfy what rules have written:
\* its unions, and equal values of a constructor at equal arguments.
Equivalences == {c \in [Ids -> Ids] : \A v \in Ids : c[v] <= v /\ c[c[v]] = c[v]}
Satisfies(c) ==
  /\ \A p \in asserted : c[p[1]] = c[p[2]]
  /\ \A f \in Ctors1 \cup Ctors2 : \A t, u \in BagToSet(terms[f]) :
       (\A i \in DOMAIN t.key : c[t.key[i]] = c[u.key[i]]) => c[t.val] = c[u.val]
Finer(c, d) == \A v, w \in Ids : c[v] = c[w] => d[v] = d[w]

\* When no rebuild is owed, rules meet the congruence closure of what they have written,
\* no more and no less, and each constructor's table holds exactly the canonical forms of
\* the rows set, whichever paths the rounds took.
CongruenceClosed ==
  phase = "rules" /\ ~owed =>
    /\ Satisfies(canon)
    /\ \A d \in Equivalences : Satisfies(d) => Finer(canon, d)
    /\ \A f \in Ctors1 \cup Ctors2 : rows[f] = {Canonical(f, t) : t \in BagToSet(terms[f])}

\* A table's cursor passes no displaced id that a row of it still mentions, unless the
\* row is about to be removed; the lookups of later rounds would never find that row.
NoneLeftBehind ==
  \A f \in Funcs : \A r \in (rows[f] \ pend[f].del) \cup BagToSet(pend[f].ins) :
    Mentions(f, r) \cap seen[f] = {}

\* The rebuild loop ends: a round that asks for another has joined classes, or left fewer
\* rows to rewrite, and neither can go on for ever.
RoundsShrink ==
  phase = "merge" /\ mode = "round" /\ ~Pending /\ More =>
    \/ WorkLeft[1] < work[1]
    \/ WorkLeft[1] = work[1] /\ WorkLeft[2] < work[2]

\* A merge function runs when a row is set to a key that has one, or when two rows come
\* to have one key: a function merged by (+ old new) has the sum of the numbers set at
\* each key.
SumsExact ==
  phase = "rules" /\ ~owed =>
    \A f \in Sums2 : \A r \in rows[f] :
      r.val = SumFunction([t \in {t \in BagToSet(terms[f]) : Canonical(f, t).key = r.key}
                             |-> t.val * terms[f][t]])

\* Rebuilding is complete, at its end and for each table's cursor on the way.
RebuildComplete == NoneLeftBehind /\ CongruenceClosed
=============================================================================
