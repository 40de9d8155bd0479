------------------------------ MODULE SemiNaive ------------------------------
(***************************************************************************)
(* Rules and timestamps: egglog-bridge/src/lib.rs and rule.rs.  A rule is  *)
(* run for the matches that are new to it: each row carries the time of    *)
(* its last change, each rule the time of its last run, and a query of n   *)
(* atoms becomes n queries, each with one atom among the new rows and the  *)
(* atoms before it among the old.  The database is one function f, merged  *)
(* by min, whose rows rules, commands and rebuilding write; its table and  *)
(* the union-find appear by what SortedWritesTable, DisplacedTable and     *)
(* Rebuild promise of them.                                                *)
(***************************************************************************)
EXTENDS Naturals, Sequences, FiniteSets, FiniteSetsExt, Functions, TLC

CONSTANTS
  MaxId,        \* the ids are 0..MaxId
  MaxTs,        \* bound: the largest timestamp
  MaxEvents,    \* bound: the commands and pushes between the runs and the panics within
  Large         \* whether the table has the rows it takes to be rebuilt by lookup

ASSUME SemiNaiveAssumption ==
  /\ MaxId \in Nat /\ MaxTs \in Nat /\ MaxEvents \in Nat
  /\ Large \in BOOLEAN

Ids == 0..MaxId

(* (rule ((= y (f x)) (= z (f y))) ((set (f x) z)))
   (rule ((= y (f x)) (= x (f y))) ((union x y)))
   (rule () ((set (f a) b))), where a and b are terms.  An atom is the variables of a key and a value. *)
Atoms == [compress |-> << <<"x", "y">>, <<"y", "z">> >>,
          knot     |-> << <<"x", "y">>, <<"y", "x">> >>,
          seed     |-> << >>]
Rules == DOMAIN Atoms
Vars(r) == UNION {Range(Atoms[r][i]) : i \in DOMAIN Atoms[r]}

VARIABLES
  ts,         \* the timestamp counter
  rows,       \* the rows of f: from keys to values and timestamps
  canon,      \* the union-find: the least member of each id's class
  cursor,     \* the displaced ids the table has been rebuilt for
  last,       \* last_run_at of each rule
  owed,       \* rows were written or unions merged with no rebuild since
  calm,       \* the rules run since the last change, all to no effect
  done,       \* history: done[r], the matches r was run for since they last came to be
  lost,       \* history: lost[r], the matches a panic kept r from
  events      \* history: how many commands, pushes and panics there were

vars == <<ts, rows, canon, cursor, last, owed, calm, done, lost, events>>

\* Earlier commands have filled the table.
Init ==
  /\ ts = 2
  /\ \E keys \in SUBSET Ids : \E f \in [keys -> Ids] :
       rows = [k \in keys |-> [val |-> f[k], ts |-> 1]]
  /\ canon = [i \in Ids |-> i]
  /\ cursor = {}
  /\ last = [r \in Rules |-> 0]
  /\ owed = FALSE
  /\ calm = {}
  /\ done = [r \in Rules |-> {}] /\ lost = [r \in Rules |-> {}]
  /\ events = 0

Displaced == {i \in Ids : canon[i] # i}

-----------------------------------------------------------------------------
(* Queries *)

\* Whether the row that an atom becomes is there, and when it last changed.
Present(env, atom) == env[atom[1]] \in DOMAIN rows /\ rows[env[atom[1]]].val = env[atom[2]]
Stamp(env, atom) == rows[env[atom[1]]].ts

Matches(r) == {env \in [Vars(r) -> Ids] : \A i \in DOMAIN Atoms[r] : Present(env, Atoms[r][i])}

\* One of the n queries: the focus is new and the atoms before it are old.
Variant(r, focus, mid) ==
  {env \in Matches(r) :
     /\ Stamp(env, Atoms[r][focus]) >= mid
     /\ \A i \in 1..focus - 1 : Stamp(env, Atoms[r][i]) < mid}

\* The queries of a run: a first run needs one, and a rule without atoms runs once.
Foci(r, mid) == IF mid = 0 THEN {i \in DOMAIN Atoms[r] : i = 1} ELSE DOMAIN Atoms[r]
Found(r, mid) ==
  IF Atoms[r] = <<>> THEN IF mid = 0 THEN {<<>>} ELSE {}
  ELSE UNION {Variant(r, focus, mid) : focus \in Foci(r, mid)}

-----------------------------------------------------------------------------
(* Writing *)

Sets(r, envs) ==
  CASE r = "compress" -> {<<env.x, env.z>> : env \in envs}
    [] r = "knot" -> {}
    [] r = "seed" -> {<<canon[0], canon[MaxId]>> : env \in envs}
Unions(r, envs) == IF r = "knot" THEN {<<env.x, env.y>> : env \in envs} ELSE {}

\* Union-finds by their promise: the classes grow together along the pairs, and each id stands for
\* itself or a lesser one.  The sets are those that no class and no pair leads out of.
Join(c, pairs) ==
  LET whole == {S \in SUBSET Ids : /\ \A v \in Ids : v \in S <=> c[v] \in S
                                   /\ \A p \in pairs : p[1] \in S <=> p[2] \in S}
  IN  [v \in Ids |-> Min({u \in Ids : \A S \in whole : u \in S <=> v \in S})]

\* Merging rows: a row that changes takes the time of the write.
Put(table, pairs, time) ==
  [k \in DOMAIN table \cup {p[1] : p \in pairs} |->
     LET new == {p[2] : p \in {p \in pairs : p[1] = k}}
         val == Min(new \cup (IF k \in DOMAIN table THEN {table[k].val} ELSE {}))
     IN  IF k \in DOMAIN table /\ table[k].val = val THEN table[k]
         ELSE [val |-> val, ts |-> time]]

Mentions(table, k, ids) == k \in ids \/ table[k].val \in ids

\* What a rebuild leaves of a table that starts it with these rows.
Rebuilt(table, c, ids, time) ==
  LET moved == {k \in DOMAIN table : Mentions(table, k, ids)}
  IN  Put(Restrict(table, DOMAIN table \ moved), {<<c[k], c[table[k].val]>> : k \in moved}, time)

\* do_rebuild: a small table is scanned for all displaced ids; a large one is scanned, or the
\* ids displaced since its cursor are looked up, unless there are none.
Sought(gone) ==
  IF ~Large THEN {gone}
  ELSE IF gone \subseteq cursor THEN {{}} ELSE {gone, gone \ cursor}

\* rebuild: each round takes a timestamp, and the last one finds nothing to change.
Rebuild(table, c, time) ==
  LET gone == {i \in Ids : c[i] # i}
  IN  \E ids \in Sought(gone) :
        LET result == Rebuilt(table, c, ids, time)
        IN  /\ rows' = result
            /\ ts' = IF result = table THEN time + 1 ELSE time + 2
            /\ cursor' = gone
            /\ canon' = c
            /\ owed' = FALSE

-----------------------------------------------------------------------------
(* Running rules *)

\* Mutant: the time of the run is taken after it.
RanAtEnd(rs) == [r \in Rules |-> IF r \in rs THEN ts + 1 ELSE last[r]]

\* run_rules_impl: the rules' times move to the time of this run before they are run.
RanAt(rs) == [r \in Rules |-> IF r \in rs THEN ts ELSE last[r]]

\* A run that panics stops early: what it had not come to of its matches is not tried again.
Tried(matches, tried) ==
  LET of(f, r) == IF r \in DOMAIN f THEN f[r] ELSE {}
  IN  /\ done' = [r \in Rules |-> (done[r] \cup of(tried, r)) \cap Matches(r)']
      /\ lost' = [r \in Rules |-> ((lost[r] \cup of(matches, r)) \ of(tried, r)) \cap Matches(r)']
      /\ events' = IF tried = matches THEN events ELSE events + 1

Written(tried, time) == Put(rows, UNION {Sets(r, tried[r]) : r \in DOMAIN tried}, time)
United(tried) == Join(canon, UNION {Unions(r, tried[r]) : r \in DOMAIN tried})

\* What the actions of a run are run for: all its matches, unless one panics.
Attempts(matches) ==
  {matches} \cup
  (IF events < MaxEvents
   THEN UNION {{[r \in DOMAIN matches |-> IF r = s THEN tried ELSE {}] :
                  tried \in {{}} \cup {{env} : env \in matches[s]}} : s \in DOMAIN matches}
   ELSE {})

FoundBy(rs) == [r \in rs |-> Found(r, last[r])]

Room == ts + 2 <= MaxTs

\* Mutant: a row that takes another value is no change.
SameRows(table, c) == DOMAIN table = DOMAIN rows /\ c = canon

\* merge_all: whether a merge added nothing.
Same(table, c) == table = rows /\ c = canon

\* run_schedule: (saturate ...) goes on until an iteration has no effect.
Saturate(rs, same) == calm' = IF same THEN calm \cup rs ELSE {}

\* run_rules: a rebuild follows if the union-find grew, and always after a panic.
RunRules(rs) ==
  /\ Room /\ ~owed
  /\ \E tried \in Attempts(FoundBy(rs)) :
       LET table == Written(tried, ts)
           c == United(tried)
           failed == tried # FoundBy(rs)
       IN  /\ \/ /\ c # canon \/ failed
                 /\ Rebuild(table, c, ts)
              \/ /\ c = canon /\ ~failed
                 /\ rows' = table /\ ts' = ts + 1
                 /\ UNCHANGED <<canon, cursor, owed>>
           /\ Saturate(rs, Same(table, c) /\ ~failed)
           /\ Tried(FoundBy(rs), tried)
  /\ last' = RanAt(rs)

\* run_rules_no_rebuild: after a panic the time stays what it is.
RunRulesNoRebuild(rs) ==
  /\ Room
  /\ \E tried \in Attempts(FoundBy(rs)) :
       /\ rows' = Written(tried, ts)
       /\ canon' = United(tried)
       /\ owed' = (owed \/ canon' # canon)
       /\ ts' = IF tried = FoundBy(rs) THEN ts + 1 ELSE ts
       /\ calm' = {}
       /\ Tried(FoundBy(rs), tried)
  /\ last' = RanAt(rs)
  /\ UNCHANGED cursor

RebuildNow ==
  /\ Room
  /\ Rebuild(rows, canon, ts)
  /\ calm' = {}
  /\ Tried(<<>>, <<>>)
  /\ UNCHANGED last

-----------------------------------------------------------------------------
(* Commands: an action batch (run_actions), or writes from outside (flush_updates), which
   moves the time before it rebuilds *)

Command(pairs, unions, gone) ==
  /\ ~owed
  /\ events < MaxEvents
  /\ events' = events + 1
  /\ calm' = {}
  /\ LET table == Put(Restrict(rows, DOMAIN rows \ gone), pairs, ts)
         c == Join(canon, unions)
     IN  \/ /\ c # canon
            /\ \E time \in {ts, ts + 1} : Rebuild(table, c, time)
         \/ /\ c = canon
            /\ rows' = table /\ ts' = ts + 1
            /\ UNCHANGED <<canon, cursor, owed>>
  /\ done' = [r \in Rules |-> done[r] \cap Matches(r)']
  /\ lost' = [r \in Rules |-> lost[r] \cap Matches(r)']
  /\ UNCHANGED last

Set(k, v) == Command({<<k, v>>}, {}, {})
Union(a, b) == Command({}, {<<a, b>>}, {})
Delete(k) == Command({}, {}, {k})

RunCommand ==
  \/ \E a, b \in Ids \ Displaced : Set(a, b) \/ (a < b /\ Union(a, b))
  \/ \E k \in DOMAIN rows : Delete(k)

Next ==
  \/ \E rs \in {Rules} \cup {{r} : r \in Rules} : RunRules(rs)
  \/ \E r \in Rules : RunRulesNoRebuild({r})
  \/ RebuildNow
  \/ RunCommand

Spec == Init /\ [][Next]_vars

-----------------------------------------------------------------------------
(* What the properties are about *)

\* Each match whose rows are all older than its rule's last run is one the rule was run for,
\* with these very values, or a panic kept it from it, or it waits.
SeenBut(waiting) ==
  \A r \in Rules : \A env \in Matches(r) :
    last[r] > 0 /\ (\A i \in DOMAIN Atoms[r] : Stamp(env, Atoms[r][i]) < last[r])
      => env \in done[r] \cup lost[r] \cup waiting[r]

\* Every rule holds of the database, as if each had been run for all its matches.  (A rule
\* without atoms runs once, and is not run again for what a command deletes.)
Closed ==
  \A r \in {r \in Rules : Atoms[r] # <<>>} : LET envs == Matches(r) \ lost[r] IN
    /\ Put(rows, Sets(r, envs), ts) = rows
    /\ Join(canon, Unions(r, envs)) = canon

Canonical == \A k \in DOMAIN rows : ~Mentions(rows, k, Displaced)
=============================================================================
