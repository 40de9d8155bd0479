------------------------------ MODULE RulesProofs ------------------------------
(***************************************************************************)
(* Semi-naive evaluation looks at every match, and a schedule that stops   *)
(* leaves a database every rule holds of, with and without a scheduler,    *)
(* for any number of ids, rows, rounds and panics.                         *)
(*                                                                         *)
(* What a run no longer looks at is a match over rows older than the       *)
(* rule's last run.  Everything that writes, a rebuild of any number of    *)
(* rows included, leaves a row as it was or stamps it no earlier than now: *)
(* an old match is one that was there before.                              *)
(*                                                                         *)
(* What a rule was run for holds from then on: values decrease under min,  *)
(* classes only grow, and a rebuild puts in the place of an id one that is *)
(* no greater.  An iteration to no effect leaves the matches as they were, *)
(* so that it has been run for all of them.                                *)
(*                                                                         *)
(* Then the driver: a command goes through up to four passes over what it  *)
(* is desugared into, each of which may refuse and leaves behind what was  *)
(* done.  The two are put together at the end.                             *)
(***************************************************************************)
EXTENDS MCRules, FiniteSetTheorems, WellFoundedInduction, TLAPS

-----------------------------------------------------------------------------
(* Matches of a table that is not the present one *)

MatchesIn(table, r) ==
  {env \in [Vars(r) -> Ids] :
     \A i \in DOMAIN Atoms[r] : /\ env[Atoms[r][i][1]] \in DOMAIN table
                                /\ table[env[Atoms[r][i][1]]].val = env[Atoms[r][i][2]]}

StampIn(table, env, atom) == table[env[atom[1]]].ts

\* A match all of whose rows are older than time.
OldIn(table, env, r, time) == \A i \in DOMAIN Atoms[r] : StampIn(table, env, Atoms[r][i]) < time

\* What SeenBut says, of a table, the rules' times, and what they were run for or kept from.
SeenIn(table, times_, ran, kept, waiting) ==
  \A r \in Rules : \A env \in MatchesIn(table, r) :
    times_[r] > 0 /\ OldIn(table, env, r, times_[r]) => env \in ran[r] \cup kept[r] \cup waiting[r]

\* What was written into a table from time on left a row alone or stamped it with time or later.
Later(table, result, time) ==
  \A k \in DOMAIN result :
    \/ k \in DOMAIN table /\ result[k] = table[k]
    \/ result[k].ts \in Nat /\ result[k].ts >= time

Stamped(table) == \A k \in DOMAIN table : table[k].ts \in Nat

\* The operators here are those of SemiNaive for the present rows.
LEMMA MatchesNow == \A r \in Rules : Matches(r) = MatchesIn(rows, r)
BY DEF Matches, MatchesIn, Present

\* The same in the next state.
LEMMA MatchesNext == \A r \in Rules : Matches(r)' = MatchesIn(rows', r)
BY DEF Matches, MatchesIn, Present

\* SeenBut is SeenIn of the present state.
LEMMA SeenNow == ASSUME NEW w PROVE SeenBut(w) <=> SeenIn(rows, last, done, lost, w)
BY MatchesNow DEF SeenBut, SeenIn, OldIn, StampIn, Stamp

\* Rules have one or two atoms, or none.
LEMMA AtomsOf ==
  /\ Rules = {"compress", "knot", "seed"}
  /\ \A r \in Rules : /\ DOMAIN Atoms[r] \subseteq {1, 2}
                      /\ 2 \in DOMAIN Atoms[r] => 1 \in DOMAIN Atoms[r]
                      /\ Atoms[r] # <<>> <=> 1 \in DOMAIN Atoms[r]
BY DEF Rules, Atoms

-----------------------------------------------------------------------------
(* Writing *)

\* A table that a write leaves alone.
LEMMA LaterSame == ASSUME NEW table, NEW time PROVE Later(table, table, time)
BY DEF Later

\* Writes one after the other.
LEMMA LaterTwice ==
  ASSUME NEW t1, NEW t2, NEW t3, NEW time, Later(t1, t2, time), Later(t2, t3, time)
  PROVE  Later(t1, t3, time)
BY DEF Later

\* A later write is also one since before.
LEMMA LaterSince ==
  ASSUME NEW table, NEW result, NEW a \in Nat, NEW b \in Nat, a <= b, Later(table, result, b)
  PROVE  Later(table, result, a)
BY DEF Later

\* merge: a row that keeps its value keeps its stamp, another takes the time of the write.
LEMMA PutIsLater ==
  ASSUME NEW table, NEW pairs, NEW time \in Nat
  PROVE  Later(table, Put(table, pairs, time), time)
BY DEF Put, Later

\* Removing rows.
LEMMA RestrictIsLater ==
  ASSUME NEW table, NEW keys, keys \subseteq DOMAIN table, NEW time
  PROVE  Later(table, Restrict(table, keys), time)
BY DEF Restrict, Later

\* do_rebuild takes the rows it changes out and inserts what they become.
LEMMA RebuiltIsLater ==
  ASSUME NEW table, NEW c, NEW ids, NEW time \in Nat
  PROVE  Later(table, Rebuilt(table, c, ids, time), time)
<1> DEFINE moved == {k \in DOMAIN table : Mentions(table, k, ids)}
           rest == Restrict(table, DOMAIN table \ moved)
           pairs == {<<c[k], c[table[k].val]>> : k \in moved}
<1>1. Later(table, rest, time)
  BY RestrictIsLater
<1>2. Later(rest, Put(rest, pairs, time), time)
  BY PutIsLater
<1>3. Rebuilt(table, c, ids, time) = Put(rest, pairs, time)
  BY DEF Rebuilt
<1> QED
  BY <1>1, <1>2, <1>3, LaterTwice

\* A rebuild, and the time after it.
LEMMA RebuildIsLater ==
  ASSUME NEW table, NEW c, NEW time \in Nat, Rebuild(table, c, time)
  PROVE  Later(table, rows', time) /\ ts' \in Nat /\ ts' >= time
BY RebuiltIsLater DEF Rebuild

\* Rows stay stamped.
LEMMA LaterStamped ==
  ASSUME NEW table, NEW result, NEW time, Stamped(table), Later(table, result, time)
  PROVE  Stamped(result)
BY DEF Stamped, Later

\* An old match was there before the write, over the same rows.
LEMMA OldMatchWasThere ==
  ASSUME NEW table, NEW result, NEW time \in Nat, NEW since \in Nat, since <= time,
         Stamped(table), Later(table, result, time),
         NEW r \in Rules, NEW env \in MatchesIn(result, r), OldIn(result, env, r, since)
  PROVE  env \in MatchesIn(table, r) /\ OldIn(table, env, r, since)
<1>1. ASSUME NEW i \in DOMAIN Atoms[r]
      PROVE  /\ env[Atoms[r][i][1]] \in DOMAIN table
             /\ table[env[Atoms[r][i][1]]] = result[env[Atoms[r][i][1]]]
  <2> DEFINE k == env[Atoms[r][i][1]]
  <2>1. k \in DOMAIN result
    BY DEF MatchesIn
  <2>2. result[k].ts < since
    BY DEF OldIn, StampIn
  <2>3. ~ (result[k].ts \in Nat /\ result[k].ts >= time)
    BY <2>2
  <2> QED
    BY <2>1, <2>3 DEF Later
<1> QED
  BY <1>1 DEF MatchesIn, OldIn, StampIn

-----------------------------------------------------------------------------
(* Queries *)

TimesOK ==
  /\ ts \in Nat
  /\ last \in [Rules -> Nat]
  /\ \A r \in Rules : last[r] <= ts
  /\ Stamped(rows)

\* The stamps of a match are numbers.
LEMMA StampsAreNats ==
  ASSUME Stamped(rows), NEW r \in Rules, NEW env \in Matches(r), NEW i \in DOMAIN Atoms[r]
  PROVE  Stamp(env, Atoms[r][i]) \in Nat
BY DEF Stamped, Matches, Present, Stamp

\* A query with the focus on atom i asks for a new row there and old ones before it.
LEMMA VariantIs ==
  ASSUME NEW r \in Rules, NEW mid \in Nat, NEW env
  PROVE  /\ env \in Variant(r, 1, mid) <=> env \in Matches(r) /\ Stamp(env, Atoms[r][1]) >= mid
         /\ env \in Variant(r, 2, mid) <=> /\ env \in Matches(r)
                                           /\ Stamp(env, Atoms[r][2]) >= mid
                                           /\ Stamp(env, Atoms[r][1]) < mid
<1>1. 1..(1 - 1) = {} /\ 1..(2 - 1) = {1}
  OBVIOUS
<1> QED
  BY <1>1 DEF Variant

\* The queries of a rule with atoms find the matches with a new row.
LEMMA FoundIsNew ==
  ASSUME Stamped(rows), NEW r \in Rules, NEW mid \in Nat, Atoms[r] # <<>>
  PROVE  Found(r, mid) =
           {env \in Matches(r) : \E i \in DOMAIN Atoms[r] : Stamp(env, Atoms[r][i]) >= mid}
<1>1. 1 \in DOMAIN Atoms[r] /\ DOMAIN Atoms[r] \subseteq {1, 2}
  BY AtomsOf
<1>2. ASSUME NEW env
      PROVE  env \in Found(r, mid) <=> \E i \in Foci(r, mid) : env \in Variant(r, i, mid)
  BY DEF Found
<1>3. CASE mid = 0
  <2>1. Foci(r, mid) = {1}
    BY <1>1, <1>3 DEF Foci
  <2>2. ASSUME NEW env \in Matches(r) PROVE Stamp(env, Atoms[r][1]) >= mid
    BY <1>1, <1>3, StampsAreNats
  <2> QED
    BY <1>1, <1>2, <2>1, <2>2, VariantIs
<1>4. CASE mid # 0
  <2>1. Foci(r, mid) = DOMAIN Atoms[r]
    BY <1>4 DEF Foci
  <2>2. ASSUME NEW env \in Matches(r), NEW i \in DOMAIN Atoms[r], Stamp(env, Atoms[r][i]) >= mid
        PROVE  \E j \in DOMAIN Atoms[r] : env \in Variant(r, j, mid)
    <3>1. CASE Stamp(env, Atoms[r][1]) >= mid
      BY <1>1, <3>1, VariantIs
    <3>2. CASE ~(Stamp(env, Atoms[r][1]) >= mid)
      <4>1. i = 2 /\ Stamp(env, Atoms[r][1]) < mid
        BY <1>1, <2>2, <3>2, StampsAreNats
      <4> QED
        BY <2>2, <4>1, VariantIs
    <3> QED
      BY <3>1, <3>2
  <2>3. ASSUME NEW j \in DOMAIN Atoms[r], NEW env \in Variant(r, j, mid)
        PROVE  env \in Matches(r) /\ Stamp(env, Atoms[r][j]) >= mid
    BY DEF Variant
  <2> QED
    BY <1>2, <2>1, <2>2, <2>3
<1> QED
  BY <1>3, <1>4

\* No match is found by two of them.
LEMMA FociShareNothing ==
  ASSUME Stamped(rows), NEW r \in Rules, NEW mid \in Nat,
         NEW i \in Foci(r, mid), NEW j \in Foci(r, mid), i # j
  PROVE  Variant(r, i, mid) \cap Variant(r, j, mid) = {}
<1>1. {i, j} = {1, 2} /\ 1 \in DOMAIN Atoms[r]
  BY AtomsOf DEF Foci
<1>2. ASSUME NEW env \in Matches(r) PROVE Stamp(env, Atoms[r][1]) \in Nat
  BY <1>1, StampsAreNats
<1>3. Variant(r, 1, mid) \cap Variant(r, 2, mid) = {}
  BY <1>2, VariantIs
<1> QED
  BY <1>1, <1>3

\* A run of the queries finds what is not old.
LEMMA FoundOrOld ==
  ASSUME TimesOK, NEW r \in Rules, NEW env \in MatchesIn(rows, r)
  PROVE  \/ env \in Found(r, last[r])
         \/ last[r] > 0 /\ OldIn(rows, env, r, last[r])
<1>1. env \in Matches(r) /\ last[r] \in Nat /\ Stamped(rows)
  BY MatchesNow DEF TimesOK
<1>2. CASE Atoms[r] = <<>>
  <2>1. Vars(r) = {}
    BY <1>2 DEF Vars
  <2>2. env = <<>>
    BY <2>1 DEF MatchesIn
  <2>3. OldIn(rows, env, r, last[r])
    BY <1>2 DEF OldIn
  <2> QED
    BY <1>1, <1>2, <2>2, <2>3 DEF Found
<1>3. CASE Atoms[r] # <<>>
  <2>1. CASE \E i \in DOMAIN Atoms[r] : Stamp(env, Atoms[r][i]) >= last[r]
    BY <1>1, <1>3, <2>1, FoundIsNew
  <2>2. CASE ~ \E i \in DOMAIN Atoms[r] : Stamp(env, Atoms[r][i]) >= last[r]
    <3>1. \A i \in DOMAIN Atoms[r] : Stamp(env, Atoms[r][i]) < last[r]
      BY <1>1, <2>2, StampsAreNats
    <3>2. OldIn(rows, env, r, last[r])
      BY <3>1 DEF OldIn, StampIn, Stamp
    <3>3. 1 \in DOMAIN Atoms[r]
      BY <1>3, AtomsOf
    <3>4. last[r] > 0
      BY <1>1, <3>1, <3>3, StampsAreNats
    <3> QED
      BY <3>2, <3>4
  <2> QED
    BY <2>1, <2>2
<1> QED
  BY <1>2, <1>3

\* The queries divide the new matches among them.
LEMMA TimesGivePartition == ASSUME TimesOK PROVE VariantsPartition
<1>1. ASSUME NEW r \in Rules PROVE last[r] \in Nat /\ Stamped(rows)
  BY DEF TimesOK
<1> QED
  BY <1>1, FoundIsNew, FociShareNothing DEF VariantsPartition

-----------------------------------------------------------------------------
(* Seen matches stay seen *)

\* Matches of the table that is left are still in the histories, or wait.
Keeps(table, result, ran, kept, waiting, ran2, kept2, waiting2) ==
  \A r \in Rules : \A env \in MatchesIn(result, r) :
    env \in MatchesIn(table, r) /\ env \in ran[r] \cup kept[r] \cup waiting[r]
      => env \in ran2[r] \cup kept2[r] \cup waiting2[r]

\* A rule is run for what is not old, or its time stays.
Covers(table, result, l, l2, ran2, kept2, waiting2) ==
  \A r \in Rules :
    \/ l2[r] = l[r]
    \/ \A env \in MatchesIn(result, r) :
         env \in MatchesIn(table, r) => \/ l[r] > 0 /\ OldIn(table, env, r, l[r])
                                        \/ env \in ran2[r] \cup kept2[r] \cup waiting2[r]

\* One step of rules, commands or rebuilding.
LEMMA SeenStays ==
  ASSUME NEW table, NEW result, NEW time \in Nat, Stamped(table), Later(table, result, time),
         NEW l, NEW l2, \A r \in Rules : l[r] \in Nat /\ l2[r] \in Nat /\ l2[r] <= time,
         NEW ran, NEW kept, NEW waiting, NEW ran2, NEW kept2, NEW waiting2,
         SeenIn(table, l, ran, kept, waiting),
         Keeps(table, result, ran, kept, waiting, ran2, kept2, waiting2),
         Covers(table, result, l, l2, ran2, kept2, waiting2)
  PROVE  SeenIn(result, l2, ran2, kept2, waiting2)
<1>1. SUFFICES ASSUME NEW r \in Rules, NEW env \in MatchesIn(result, r),
                      l2[r] > 0, OldIn(result, env, r, l2[r])
               PROVE  env \in ran2[r] \cup kept2[r] \cup waiting2[r]
  BY DEF SeenIn
<1>2. env \in MatchesIn(table, r) /\ OldIn(table, env, r, l2[r])
  <2>1. l2[r] \in Nat /\ l2[r] <= time
    OBVIOUS
  <2> QED
    BY <1>1, <2>1, OldMatchWasThere
<1>3. CASE l[r] > 0 /\ OldIn(table, env, r, l[r])
  <2>1. env \in ran[r] \cup kept[r] \cup waiting[r]
    BY <1>2, <1>3 DEF SeenIn
  <2> QED
    BY <1>2, <2>1 DEF Keeps
<1>4. CASE ~(l[r] > 0 /\ OldIn(table, env, r, l[r]))
  BY <1>1, <1>2, <1>4 DEF Covers
<1> QED
  BY <1>3, <1>4

\* What a run was made for it was run for, or a panic kept it from; nothing else is forgotten.
LEMMA TriedKeeps ==
  ASSUME NEW matches, NEW tried, Tried(matches, tried)
  PROVE  \A r \in Rules : \A env \in MatchesIn(rows', r) :
           env \in done[r] \cup lost[r] \/ (r \in DOMAIN matches /\ env \in matches[r])
             => env \in done'[r] \cup lost'[r]
<1>1. SUFFICES ASSUME NEW r \in Rules, NEW env \in MatchesIn(rows', r),
                      env \in done[r] \cup lost[r] \/ (r \in DOMAIN matches /\ env \in matches[r])
               PROVE  env \in done'[r] \cup lost'[r]
  OBVIOUS
<1>2. env \in Matches(r)'
  BY MatchesNext
<1> DEFINE of(f) == IF r \in DOMAIN f THEN f[r] ELSE {}
<1>3. done'[r] = (done[r] \cup of(tried)) \cap Matches(r)'
  BY DEF Tried
<1>4. lost'[r] = ((lost[r] \cup of(matches)) \ of(tried)) \cap Matches(r)'
  BY DEF Tried
<1> QED
  BY <1>1, <1>2, <1>3, <1>4

-----------------------------------------------------------------------------
(* The steps of SemiNaive *)

\* The times at the start.
LEMMA TimesStart == Init => TimesOK
BY DEF Init, TimesOK, Stamped

\* No rule has run yet, so nothing is old.
LEMMA NothingIsOld == ASSUME Init, NEW w PROVE SeenIn(rows, last, done, lost, w)
BY DEF Init, SeenIn

\* What a step does to rows and times: it writes at ts or later, and moves the time of rules
\* to ts at most.
Moves == /\ Later(rows, rows', ts)
         /\ ts' \in Nat /\ ts <= ts'
         /\ \E rs \in SUBSET Rules : last' = RanAt(rs)

\* Such steps keep the times in order.
LEMMA TimesStay == ASSUME TimesOK, Moves PROVE TimesOK'
<1>1. PICK rs \in SUBSET Rules : last' = RanAt(rs)
  BY DEF Moves
<1>2. Stamped(rows')
  BY LaterStamped DEF Moves, TimesOK
<1>3. last' \in [Rules -> Nat] /\ \A r \in Rules : last'[r] <= ts
  BY <1>1 DEF RanAt, TimesOK
<1>4. \A r \in Rules : last'[r] <= ts'
  BY <1>3 DEF Moves, TimesOK
<1> QED
  BY <1>2, <1>3, <1>4 DEF TimesOK, Moves, Stamped

\* No rule's time moves.
LEMMA NoneRan == ASSUME TimesOK, last' = last PROVE \E rs \in SUBSET Rules : last' = RanAt(rs)
<1>1. last' = RanAt({})
  BY DEF RanAt, TimesOK
<1> QED
  BY <1>1

\* Running the rules writes at ts, and a rebuild after it at ts or later.
LEMMA RunMoves ==
  ASSUME TimesOK, NEW rs \in SUBSET Rules, RunRules(rs) \/ RunRulesNoRebuild(rs)
  PROVE  Moves /\ last' = RanAt(rs) /\ \E tried : Tried(FoundBy(rs), tried)
<1>1. ts \in Nat
  BY DEF TimesOK
<1>2. CASE RunRules(rs)
  <2>1. PICK tried \in Attempts(FoundBy(rs)) :
          /\ \/ Rebuild(Written(tried, ts), United(tried), ts)
             \/ rows' = Written(tried, ts) /\ ts' = ts + 1
          /\ Tried(FoundBy(rs), tried)
    BY <1>2 DEF RunRules
  <2>2. Later(rows, Written(tried, ts), ts)
    BY <1>1, PutIsLater DEF Written
  <2>3. Later(rows, rows', ts) /\ ts' \in Nat /\ ts <= ts'
    <3>1. CASE Rebuild(Written(tried, ts), United(tried), ts)
      <4>1. Later(Written(tried, ts), rows', ts) /\ ts' \in Nat /\ ts' >= ts
        BY <1>1, <3>1, RebuildIsLater
      <4> QED
        BY <1>1, <2>2, <4>1, LaterTwice
    <3>2. CASE rows' = Written(tried, ts) /\ ts' = ts + 1
      BY <1>1, <2>2, <3>2
    <3> QED
      BY <2>1, <3>1, <3>2
  <2>4. last' = RanAt(rs)
    BY <1>2 DEF RunRules
  <2> QED
    BY <2>1, <2>3, <2>4 DEF Moves
<1>3. CASE RunRulesNoRebuild(rs)
  <2>1. PICK tried \in Attempts(FoundBy(rs)) :
          /\ rows' = Written(tried, ts)
          /\ ts' = ts + 1 \/ ts' = ts
          /\ Tried(FoundBy(rs), tried)
    BY <1>3 DEF RunRulesNoRebuild
  <2>2. Later(rows, rows', ts)
    BY <1>1, <2>1, PutIsLater DEF Written
  <2>3. ts' \in Nat /\ ts <= ts'
    BY <1>1, <2>1
  <2>4. last' = RanAt(rs)
    BY <1>3 DEF RunRulesNoRebuild
  <2> QED
    BY <2>1, <2>2, <2>3, <2>4 DEF Moves
<1> QED
  BY <1>2, <1>3

\* A rebuild on its own.
LEMMA RebuildMoves == ASSUME TimesOK, RebuildNow PROVE Moves /\ last' = last
<1>1. Rebuild(rows, canon, ts) /\ last' = last /\ ts \in Nat
  BY DEF RebuildNow, TimesOK
<1> QED
  BY <1>1, RebuildIsLater, NoneRan DEF Moves

\* A command takes rows away, writes at ts, and rebuilds at ts or the time after it.
LEMMA CommandMoves ==
  ASSUME TimesOK, NEW pairs, NEW unions, NEW gone, Command(pairs, unions, gone)
  PROVE  Moves /\ last' = last
<1> DEFINE rest == Restrict(rows, DOMAIN rows \ gone)
           table == Put(rest, pairs, ts)
           c == Join(canon, unions)
<1>1. ts \in Nat /\ last' = last
  BY DEF TimesOK, Command
<1>2. Later(rows, table, ts)
  <2>1. Later(rows, rest, ts)
    BY RestrictIsLater
  <2>2. Later(rest, table, ts)
    BY <1>1, PutIsLater
  <2> QED
    BY <2>1, <2>2, LaterTwice
<1>3. \/ \E time \in {ts, ts + 1} : Rebuild(table, c, time)
      \/ rows' = table /\ ts' = ts + 1
  BY DEF Command
<1> HIDE DEF table, c
<1>4. CASE \E time \in {ts, ts + 1} : Rebuild(table, c, time)
  <2>1. PICK time \in {ts, ts + 1} : Rebuild(table, c, time)
    BY <1>4
  <2>2. time \in Nat /\ ts <= time
    BY <1>1
  <2>3. Later(table, rows', time) /\ ts' \in Nat /\ ts' >= time
    BY <2>1, <2>2, RebuildIsLater
  <2>4. Later(table, rows', ts)
    BY <1>1, <2>2, <2>3, LaterSince
  <2>5. Later(rows, rows', ts)
    BY <1>2, <2>4, LaterTwice
  <2>6. ts <= ts'
    BY <1>1, <2>2, <2>3
  <2> QED
    BY <1>1, <2>3, <2>5, <2>6, NoneRan DEF Moves
<1>5. CASE rows' = table /\ ts' = ts + 1
  BY <1>1, <1>2, <1>5, NoneRan DEF Moves
<1> QED
  BY <1>3, <1>4, <1>5

\* The history of a command.
Forgets == \A r \in Rules : /\ done'[r] = done[r] \cap Matches(r)'
                            /\ lost'[r] = lost[r] \cap Matches(r)'

\* Every command is one of Command, and forgets only what is no match any more.
LEMMA RunCommandMoves == ASSUME TimesOK, RunCommand PROVE Moves /\ last' = last /\ Forgets
<1>1. PICK pairs, unions, gone : Command(pairs, unions, gone)
  BY DEF RunCommand, Set, Union, Delete
<1>2. Forgets
  BY <1>1 DEF Command, Forgets
<1> QED
  BY <1>1, <1>2, CommandMoves

-----------------------------------------------------------------------------
(* The invariant, with and without a scheduler *)

Nothing == [r \in Rules |-> {}]
Envs == UNION {[Vars(r) -> Ids] : r \in Rules}

HeapOK == /\ heap \in [Addresses -> [Rules -> SUBSET Envs]]
          /\ reader \in Addresses /\ writer \in Addresses

\* The clone that push leaves: its times are in order, and if it shares its match list with nobody,
\* the list waits in the heap where the scheduler at work does not write.
CloneOK ==
  pushed # <<>> =>
    LET e == pushed[1]
    IN  /\ e.ts \in Nat /\ e.last \in [Rules -> Nat] /\ Stamped(e.rows)
        /\ \A r \in Rules : e.last[r] <= e.ts
        /\ reader = writer
        /\ e.reader \in Addresses /\ e.writer \in Addresses /\ e.writer # writer
        /\ e.reader = e.writer => SeenIn(e.rows, e.last, e.done, e.lost, heap[e.reader])

SeenInv ==
  /\ TimesOK
  /\ ~scheduled => SeenIn(rows, last, done, lost, Nothing)
  /\ HeapOK
  /\ scheduled /\ reader = writer => SeenIn(rows, last, done, lost, heap[reader])
  /\ CloneOK

\* The queries of a run find matches.
LEMMA FoundAreMatches == ASSUME NEW r \in Rules, NEW mid PROVE Found(r, mid) \in SUBSET Envs
<1>1. Matches(r) \subseteq [Vars(r) -> Ids] /\ [Vars(r) -> Ids] \subseteq Envs
  BY DEF Matches, Envs
<1>2. CASE Atoms[r] = <<>>
  <2>1. Vars(r) = {}
    BY <1>2 DEF Vars
  <2>2. <<>> \in [Vars(r) -> Ids]
    BY <2>1
  <2> QED
    BY <1>1, <1>2, <2>2 DEF Found
<1>3. CASE Atoms[r] # <<>>
  BY <1>1, <1>3 DEF Found, Variant
<1> QED
  BY <1>2, <1>3

\* Nothing is old at first.
LEMMA SeenStart == SchedInit => SeenInv
<1> SUFFICES ASSUME SchedInit PROVE SeenInv
  OBVIOUS
<1>1. Init
  BY DEF SchedInit
<1>2. HeapOK
  BY DEF SchedInit, HeapOK, Addresses
<1>3. CloneOK
  BY DEF SchedInit, CloneOK
<1> QED
  BY <1>1, <1>2, <1>3, TimesStart, NothingIsOld DEF SeenInv

-----------------------------------------------------------------------------
(* Without a scheduler *)

\* What forgetting keeps.
LEMMA ForgetsKeeps ==
  ASSUME Forgets, NEW w
  PROVE  Keeps(rows, rows', done, lost, w, done', lost', w)
BY MatchesNext DEF Forgets, Keeps

\* A step that moves no rule's time keeps what was seen.
LEMMA SeenSameTimes ==
  ASSUME TimesOK, Moves, last' = last, NEW w, NEW w2, SeenIn(rows, last, done, lost, w),
         Keeps(rows, rows', done, lost, w, done', lost', w2)
  PROVE  SeenIn(rows', last', done', lost', w2)
<1>1. ts \in Nat /\ Stamped(rows) /\ Later(rows, rows', ts)
  BY DEF TimesOK, Moves
<1>2. \A r \in Rules : last[r] \in Nat /\ last'[r] \in Nat /\ last'[r] <= ts
  BY DEF TimesOK
<1>3. Covers(rows, rows', last, last', done', lost', w2)
  BY DEF Covers
<1> QED
  BY <1>1, <1>2, <1>3, SeenStays

\* A run of rules.
LEMMA SeenAfterRun ==
  ASSUME TimesOK, NEW rs \in SUBSET Rules, RunRules(rs) \/ RunRulesNoRebuild(rs),
         SeenIn(rows, last, done, lost, Nothing)
  PROVE  SeenIn(rows', last', done', lost', Nothing)
<1>1. PICK tried : Tried(FoundBy(rs), tried)
  BY RunMoves
<1>2. Moves /\ last' = RanAt(rs)
  BY RunMoves
<1>3. ts \in Nat /\ Stamped(rows) /\ Later(rows, rows', ts)
  BY <1>2 DEF TimesOK, Moves
<1>4. \A r \in Rules : last[r] \in Nat /\ last'[r] \in Nat /\ last'[r] <= ts
  BY <1>2 DEF TimesOK, RanAt
<1>5. Keeps(rows, rows', done, lost, Nothing, done', lost', Nothing)
  BY <1>1, TriedKeeps DEF Keeps, Nothing
<1>6. ASSUME NEW r \in rs, NEW env \in MatchesIn(rows', r), env \in MatchesIn(rows, r)
      PROVE  \/ last[r] > 0 /\ OldIn(rows, env, r, last[r])
             \/ env \in done'[r] \cup lost'[r] \cup Nothing[r]
  <2>1. CASE env \in Found(r, last[r])
    <3>1. r \in DOMAIN FoundBy(rs) /\ env \in FoundBy(rs)[r]
      BY <2>1 DEF FoundBy
    <3> QED
      BY <1>1, <3>1, TriedKeeps
  <2> QED
    BY <1>6, <2>1, FoundOrOld
<1>7. Covers(rows, rows', last, last', done', lost', Nothing)
  <2>1. \A r \in Rules : r \notin rs => last'[r] = last[r]
    BY <1>2 DEF RanAt
  <2> QED
    BY <1>6, <2>1 DEF Covers
<1> QED
  BY <1>3, <1>4, <1>5, <1>7, SeenStays

\* Every step without a scheduler.
LEMMA PlainSees ==
  ASSUME TimesOK, SeenIn(rows, last, done, lost, Nothing), Next
  PROVE  TimesOK' /\ SeenIn(rows', last', done', lost', Nothing)
<1>1. CASE \E rs \in SUBSET Rules : RunRules(rs) \/ RunRulesNoRebuild(rs)
  BY <1>1, RunMoves, TimesStay, SeenAfterRun
<1>2. CASE RebuildNow
  <2>1. Moves /\ last' = last
    BY <1>2, RebuildMoves
  <2>2. Tried(<<>>, <<>>)
    BY <1>2 DEF RebuildNow
  <2>3. Keeps(rows, rows', done, lost, Nothing, done', lost', Nothing)
    BY <2>2, TriedKeeps DEF Keeps, Nothing
  <2> QED
    BY <2>1, <2>3, TimesStay, SeenSameTimes
<1>3. CASE RunCommand
  BY <1>3, RunCommandMoves, TimesStay, ForgetsKeeps, SeenSameTimes
<1> QED
  BY <1>1, <1>2, <1>3 DEF Next

-----------------------------------------------------------------------------
(* With a scheduler *)

\* A step that writes only to the lists in use, and keeps what waits there until it is seen.
LEMMA SchedulerSees ==
  ASSUME SeenInv, scheduled, Moves, scheduled' = scheduled, pushed' = pushed,
         reader' = reader, writer' = writer, HeapOK',
         \A a \in Addresses : a \notin {reader, writer} => heap'[a] = heap[a],
         reader = writer =>
           /\ Keeps(rows, rows', done, lost, heap[reader], done', lost', heap'[reader])
           /\ Covers(rows, rows', last, last', done', lost', heap'[reader])
  PROVE  SeenInv'
<1>1. ts \in Nat /\ Stamped(rows) /\ Later(rows, rows', ts) /\ TimesOK'
  BY TimesStay DEF SeenInv, TimesOK, Moves
<1>2. \A r \in Rules : last[r] \in Nat /\ last'[r] \in Nat /\ last'[r] <= ts
  <2>1. PICK rs \in SUBSET Rules : last' = RanAt(rs)
    BY DEF Moves
  <2> QED
    BY <2>1 DEF SeenInv, TimesOK, RanAt
<1>3. reader = writer => SeenIn(rows', last', done', lost', heap'[reader])
  BY <1>1, <1>2, SeenStays DEF SeenInv
<1>4. CloneOK'
  BY DEF SeenInv, CloneOK
<1> QED
  BY <1>1, <1>3, <1>4 DEF SeenInv

\* collect_matches keeps what the queries find, and what it had.
LEMMA QuerySees == ASSUME SeenInv, scheduled, Query, UNCHANGED <<pushed, scheduled>> PROVE SeenInv'
<1> DEFINE rs == {r \in Rules : seek[r]}
           More(r) == heap[writer][r] \cup (IF r \in rs THEN Found(r, last[r]) ELSE {})
<1>1. /\ heap' = [heap EXCEPT ![writer] = [r \in Rules |-> More(r)]]
      /\ last' = RanAt(rs) /\ ts' = ts + 1
      /\ UNCHANGED <<rows, done, lost, reader, writer>>
  BY DEF Query, SeenInv, HeapOK
<1>2. TimesOK /\ HeapOK
  BY DEF SeenInv
<1>3. ts \in Nat
  BY <1>2 DEF TimesOK
<1>4. Moves
  <2>1. \E q \in SUBSET Rules : last' = RanAt(q)
    BY <1>1
  <2>2. Later(rows, rows', ts)
    BY <1>1, LaterSame
  <2>3. ts' \in Nat /\ ts <= ts'
    BY <1>1, <1>3
  <2> QED
    BY <2>1, <2>2, <2>3 DEF Moves
<1>5. \A r \in Rules : More(r) \in SUBSET Envs
  BY <1>2, FoundAreMatches DEF HeapOK
<1>6. HeapOK' /\ heap'[writer] = [r \in Rules |-> More(r)]
  BY <1>1, <1>2, <1>5 DEF HeapOK
<1>7. \A a \in Addresses : a \notin {reader, writer} => heap'[a] = heap[a]
  BY <1>1, <1>2 DEF HeapOK
<1>8. ASSUME reader = writer
      PROVE  /\ Keeps(rows, rows', done, lost, heap[reader], done', lost', heap'[reader])
             /\ Covers(rows, rows', last, last', done', lost', heap'[reader])
  <2>1. Keeps(rows, rows', done, lost, heap[reader], done', lost', heap'[reader])
    BY <1>1, <1>6, <1>8 DEF Keeps
  <2>2. ASSUME NEW r \in Rules, r \in rs, NEW env \in MatchesIn(rows, r)
        PROVE  \/ last[r] > 0 /\ OldIn(rows, env, r, last[r])
               \/ env \in done'[r] \cup lost'[r] \cup heap'[reader][r]
    BY <1>2, <1>6, <1>8, <2>2, FoundOrOld
  <2>3. \A r \in Rules : r \notin rs => last'[r] = last[r]
    BY <1>1 DEF RanAt
  <2>4. Covers(rows, rows', last, last', done', lost', heap'[reader])
    BY <1>1, <2>2, <2>3 DEF Covers
  <2> QED
    BY <2>1, <2>4
<1> QED
  BY <1>1, <1>4, <1>6, <1>7, <1>8, SchedulerSees

\* An action runs for all that waits, and writes at ts + 1.
LEMMA ApplyMoves ==
  ASSUME TimesOK, NEW r, Apply(r)
  PROVE  /\ Moves /\ last' = last
         /\ \E tried : Tried([s \in {r} |-> heap[reader][r]], tried)
<1> DEFINE chosen == [s \in {r} |-> heap[reader][r]]
<1>1. ts \in Nat /\ last' = last
  BY DEF TimesOK, Apply
<1>2. PICK tried :
        /\ \/ rows' = Written(tried, ts + 1) /\ ts' = ts + 2
           \/ Rebuild(Written(tried, ts + 1), United(tried), ts + 1)
        /\ Tried(chosen, tried)
  <2>1. PICK tried \in Attempts(chosen) :
          /\ \/ rows' = Written(tried, ts + 1) /\ ts' = ts + 2
             \/ Abort(Written(tried, ts + 1), United(tried))
          /\ Tried(chosen, tried)
    BY DEF Apply
  <2> QED
    BY <2>1 DEF Abort
<1> HIDE DEF chosen
<1>3. Later(rows, Written(tried, ts + 1), ts + 1) /\ ts + 1 \in Nat
  BY <1>1, PutIsLater DEF Written
<1>4. Later(rows, rows', ts + 1) /\ ts' \in Nat /\ ts <= ts'
  <2>1. CASE rows' = Written(tried, ts + 1) /\ ts' = ts + 2
    BY <1>1, <1>3, <2>1
  <2>2. CASE Rebuild(Written(tried, ts + 1), United(tried), ts + 1)
    <3>1. Later(Written(tried, ts + 1), rows', ts + 1) /\ ts' \in Nat /\ ts' >= ts + 1
      BY <1>3, <2>2, RebuildIsLater
    <3> QED
      BY <1>1, <1>3, <3>1, LaterTwice
  <2> QED
    BY <1>2, <2>1, <2>2
<1>5. Later(rows, rows', ts)
  BY <1>1, <1>3, <1>4, LaterSince
<1>6. Moves
  BY <1>1, <1>4, <1>5, NoneRan DEF Moves
<1> QED
  BY <1>1, <1>2, <1>6 DEF chosen

\* The matches a verdict leaves wait; those it takes are tried.
LEMMA FilterSees == ASSUME SeenInv, scheduled, Filter, UNCHANGED <<pushed, scheduled>> PROVE SeenInv'
<1> DEFINE r == Head(todo)
<1>1. /\ heap' = [heap EXCEPT ![reader][r] = Kept(r)]
      /\ Skip(r) \/ Apply(r)
      /\ UNCHANGED <<reader, writer>>
  BY DEF Filter
<1>2. TimesOK /\ HeapOK /\ ts \in Nat
  BY DEF SeenInv, TimesOK
<1> HIDE DEF r
<1>3. /\ Kept(r) = heap[reader][r] \/ Kept(r) = {}
      /\ \A a \in Addresses : a # reader => heap'[a] = heap[a]
      /\ \A s \in Rules : s # r => heap'[reader][s] = heap[reader][s]
      /\ r \in Rules => heap'[reader][r] = Kept(r)
  BY <1>1, <1>2 DEF HeapOK, Kept
<1>4. HeapOK'
  <2>1. heap'[reader] = [heap[reader] EXCEPT ![r] = Kept(r)]
    BY <1>1, <1>2 DEF HeapOK
  <2>2. heap'[reader] \in [Rules -> SUBSET Envs]
    <3>1. heap[reader] \in [Rules -> SUBSET Envs]
      BY <1>2 DEF HeapOK
    <3>2. r \in Rules => Kept(r) \in SUBSET Envs
      BY <1>3, <3>1
    <3> QED
      BY <2>1, <3>1, <3>2
  <2> QED
    BY <1>1, <1>2, <2>1, <2>2 DEF HeapOK
<1>5. CASE Skip(r)
  <2>1. UNCHANGED <<rows, ts, last, done, lost>>
    BY <1>5 DEF Skip, vars
  <2>2. Moves
    BY <1>2, <2>1, LaterSame, NoneRan DEF Moves
  <2>3. Kept(r) = heap[reader][r]
    BY <1>5 DEF Skip, Kept
  <2>4. Keeps(rows, rows', done, lost, heap[reader], done', lost', heap'[reader])
    BY <1>3, <2>1, <2>3 DEF Keeps
  <2>5. Covers(rows, rows', last, last', done', lost', heap'[reader])
    BY <2>1 DEF Covers
  <2> QED
    BY <1>1, <1>3, <1>4, <2>2, <2>4, <2>5, SchedulerSees
<1>6. CASE Apply(r)
  <2>1. Moves /\ last' = last
    BY <1>2, <1>6, ApplyMoves
  <2>2. PICK tried : Tried([s \in {r} |-> heap[reader][r]], tried)
    BY <1>2, <1>6, ApplyMoves
  <2>3. Keeps(rows, rows', done, lost, heap[reader], done', lost', heap'[reader])
    BY <1>3, <2>2, TriedKeeps DEF Keeps
  <2>4. Covers(rows, rows', last, last', done', lost', heap'[reader])
    BY <2>1 DEF Covers
  <2> QED
    BY <1>1, <1>3, <1>4, <2>1, <2>3, <2>4, SchedulerSees
<1> QED
  BY <1>1, <1>5, <1>6

\* The rebuild at the end of a step, and commands between steps, leave the lists alone.
LEMMA OtherSees ==
  ASSUME SeenInv, scheduled, EndStep \/ (RunCommand /\ UNCHANGED infoVars),
         UNCHANGED <<pushed, scheduled>>
  PROVE  SeenInv'
<1>1. TimesOK /\ HeapOK /\ ts \in Nat
  BY DEF SeenInv, TimesOK
<1>2. UNCHANGED <<heap, reader, writer>>
  BY DEF EndStep, infoVars
<1>3. Moves /\ last' = last /\ Forgets
  <2>1. CASE RunCommand
    BY <1>1, <2>1, RunCommandMoves
  <2>2. CASE EndStep
    <3>1. last' = last /\ Forgets
      BY <2>2 DEF EndStep, Forgets
    <3>2. CASE Rebuild(rows, canon, ts)
      BY <1>1, <3>1, <3>2, RebuildIsLater, NoneRan DEF Moves
    <3>3. CASE UNCHANGED <<rows, ts>>
      BY <1>1, <3>1, <3>3, LaterSame, NoneRan DEF Moves
    <3> QED
      BY <2>2, <3>1, <3>2, <3>3 DEF EndStep
  <2> QED
    BY <2>1, <2>2
<1>4. HeapOK'
  BY <1>1, <1>2 DEF HeapOK
<1>5. Keeps(rows, rows', done, lost, heap[reader], done', lost', heap'[reader])
  BY <1>2, <1>3, ForgetsKeeps
<1>6. Covers(rows, rows', last, last', done', lost', heap'[reader])
  BY <1>3 DEF Covers
<1> QED
  BY <1>2, <1>3, <1>4, <1>5, <1>6, SchedulerSees

\* push: the clone is the present e-graph, its list a copy, or the one in use.
LEMMA PushSees == ASSUME SeenInv, scheduled, Push, UNCHANGED scheduled PROVE SeenInv'
<1> DEFINE copy == 3 - writer
           e == pushed'[1]
<1>1. /\ reader = writer
      /\ heap' = [heap EXCEPT ![copy] = heap[writer]]
      /\ UNCHANGED <<ts, rows, last, done, lost, reader, writer>>
  BY DEF Push
<1>2. /\ e.ts = ts /\ e.rows = rows /\ e.last = last /\ e.done = done /\ e.lost = lost
      /\ e.reader = (IF built THEN reader ELSE copy) /\ e.writer = copy
  BY DEF Push
<1>3. TimesOK /\ HeapOK /\ SeenIn(rows, last, done, lost, heap[reader])
  BY <1>1 DEF SeenInv
<1>4. copy \in Addresses /\ copy # writer
  BY <1>3 DEF HeapOK, Addresses
<1>5. TimesOK'
  BY <1>1, <1>3 DEF TimesOK, Stamped
<1> HIDE DEF copy, e
<1>6. HeapOK' /\ heap'[copy] = heap[writer] /\ heap'[reader] = heap[reader]
  BY <1>1, <1>3, <1>4 DEF HeapOK
<1>7. CloneOK'
  <2>1. e.ts \in Nat /\ e.last \in [Rules -> Nat] /\ Stamped(e.rows) /\ \A r \in Rules : e.last[r] <= e.ts
    BY <1>2, <1>3 DEF TimesOK
  <2>2. e.reader \in Addresses /\ e.writer \in Addresses /\ e.writer # writer'
    BY <1>1, <1>2, <1>3, <1>4 DEF HeapOK
  <2>3. e.reader = e.writer => SeenIn(e.rows, e.last, e.done, e.lost, heap'[e.reader])
    BY <1>1, <1>2, <1>3, <1>4, <1>6
  <2> QED
    BY <1>1, <2>1, <2>2, <2>3 DEF CloneOK, e
<1> QED
  BY <1>1, <1>3, <1>5, <1>6, <1>7 DEF SeenInv

\* pop: the clone comes back, and what it had seen holds of it still.
LEMMA PopSees == ASSUME SeenInv, scheduled, Pop, UNCHANGED scheduled PROVE SeenInv'
<1> DEFINE e == pushed[1]
<1>1. /\ ts' = e.ts /\ rows' = e.rows /\ last' = e.last /\ done' = e.done /\ lost' = e.lost
      /\ reader' = e.reader /\ writer' = e.writer /\ heap' = heap /\ pushed' = <<>>
  BY DEF Pop
<1>2. /\ e.ts \in Nat /\ e.last \in [Rules -> Nat] /\ Stamped(e.rows)
      /\ \A r \in Rules : e.last[r] <= e.ts
      /\ e.reader \in Addresses /\ e.writer \in Addresses
      /\ e.reader = e.writer => SeenIn(e.rows, e.last, e.done, e.lost, heap[e.reader])
  BY DEF Pop, SeenInv, CloneOK
<1>3. HeapOK
  BY DEF SeenInv
<1> HIDE DEF e
<1>4. TimesOK'
  BY <1>1, <1>2 DEF TimesOK, Stamped
<1>5. HeapOK'
  BY <1>1, <1>2, <1>3 DEF HeapOK
<1>6. CloneOK'
  BY <1>1 DEF CloneOK
<1>7. scheduled' /\ (reader' = writer' => SeenIn(rows', last', done', lost', heap'[reader']))
  BY <1>1, <1>2
<1> QED
  BY <1>4, <1>5, <1>6, <1>7 DEF SeenInv

-----------------------------------------------------------------------------
(* The theorems *)

\* Every step keeps the invariant.
LEMMA SeenNext == SeenInv /\ [SchedNext]_<<vars, schedVars>> => SeenInv'
<1> SUFFICES ASSUME SeenInv, [SchedNext]_<<vars, schedVars>> PROVE SeenInv'
  OBVIOUS
<1>1. CASE ~scheduled /\ Next /\ UNCHANGED schedVars
  <2>1. UNCHANGED <<scheduled, heap, reader, writer, pushed>>
    BY <1>1 DEF schedVars, infoVars
  <2>2. TimesOK' /\ SeenIn(rows', last', done', lost', Nothing)
    BY <1>1, PlainSees DEF SeenInv
  <2>3. HeapOK' /\ CloneOK'
    BY <2>1 DEF SeenInv, HeapOK, CloneOK
  <2> QED
    BY <1>1, <2>1, <2>2, <2>3 DEF SeenInv, Nothing
<1>2. CASE scheduled /\ Query /\ UNCHANGED <<pushed, scheduled>>
  BY <1>2, QuerySees
<1>3. CASE scheduled /\ Filter /\ UNCHANGED <<pushed, scheduled>>
  BY <1>3, FilterSees
<1>4. CASE scheduled /\ EndStep /\ UNCHANGED <<pushed, scheduled>>
  BY <1>4, OtherSees
<1>5. CASE scheduled /\ RunCommand /\ UNCHANGED infoVars /\ UNCHANGED <<pushed, scheduled>>
  BY <1>5, OtherSees
<1>6. CASE scheduled /\ (Push \/ Pop) /\ UNCHANGED scheduled
  BY <1>6, PushSees, PopSees
<1>7. CASE UNCHANGED <<vars, schedVars>>
  <2>1. UNCHANGED <<ts, rows, last, done, lost, scheduled, heap, reader, writer, pushed>>
    BY <1>7 DEF vars, schedVars, infoVars
  <2>2. TimesOK' /\ HeapOK' /\ CloneOK'
    BY <2>1 DEF SeenInv, TimesOK, Stamped, HeapOK, CloneOK
  <2> QED
    BY <2>1, <2>2 DEF SeenInv, Nothing
<1> QED
  BY <1>1, <1>2, <1>3, <1>4, <1>5, <1>6, <1>7 DEF SchedNext

\* What a rule no longer looks at it was run for, or a panic kept it from it, or it waits in the list
\* of matches held back; for a clone that was pushed too.
THEOREM OldIsSeen == SchedSpec => []SeenInv
BY SeenStart, SeenNext, PTL DEF SchedSpec

\* Semi-naive evaluation (run_rules) is complete and looks at no match twice in one run: whatever is
\* merged, deleted, rebuilt and restamped in between, and whichever runs panic.
THEOREM SeminaiveMissesNothing == SchedSpec => []SeminaiveComplete
<1>1. SeenInv => SeminaiveComplete
  BY SeenNow, TimesGivePartition DEF SeenInv, SeminaiveComplete, OldMatchesWereSeen, Nothing
<1> QED
  BY <1>1, OldIsSeen, PTL

-----------------------------------------------------------------------------
(* Union-finds and least values *)

\* A set of naturals has a least element, and Min is it.
LEMMA MinIsLeast ==
  ASSUME NEW S \in SUBSET Nat, S # {}
  PROVE  Min(S) \in S /\ \A y \in S : Min(S) <= y
<1>1. IsWellFoundedOn(OpToRel(<, Nat), Nat)
  BY NatLessThanWellFounded
<1>2. PICK x \in S : \A y \in S : ~ (<<y, x>> \in OpToRel(<, Nat))
  BY <1>1, WFMin
<1> HIDE <1>1
<1>3. \A y \in S : ~ (y < x)
  BY <1>2 DEF OpToRel
<1>4. \A y \in S : x <= y
  BY <1>3
<1> HIDE <1>2
<1> QED
  BY <1>4 DEF Min

\* Each id stands for itself or for a lesser one that stands for itself.
CanonOK(c) == c \in [Ids -> Ids] /\ \A v \in Ids : c[v] <= v /\ c[c[v]] = c[v]

Gone(c) == {v \in Ids : c[v] # v}

\* No class and no pair leads out of S.
Closes(c, pairs, S) == /\ S \in SUBSET Ids
                       /\ \A v \in Ids : v \in S <=> c[v] \in S
                       /\ \A p \in pairs : p[1] \in S <=> p[2] \in S
Together(c, pairs, u, v) == \A S \in SUBSET Ids : Closes(c, pairs, S) => (u \in S <=> v \in S)

\* Ids are naturals.
LEMMA IdsAreNats == Ids \in SUBSET Nat
BY DEF Ids

\* Each id stands for the least of those with it.
LEMMA JoinIs ==
  ASSUME NEW c, NEW pairs, NEW v \in Ids
  PROVE  /\ DOMAIN Join(c, pairs) = Ids
         /\ Join(c, pairs)[v] \in Ids
         /\ Together(c, pairs, Join(c, pairs)[v], v)
         /\ \A u \in Ids : Together(c, pairs, u, v) => Join(c, pairs)[v] <= u
<1> DEFINE class == {u \in Ids : Together(c, pairs, u, v)}
<1>1. Join(c, pairs) = [w \in Ids |-> Min({u \in Ids : Together(c, pairs, u, w)})]
  BY DEF Join, Together, Closes
<1>2. Join(c, pairs)[v] = Min(class)
  BY <1>1
<1>3. class \in SUBSET Nat /\ class # {}
  <2>1. Together(c, pairs, v, v)
    BY DEF Together
  <2> QED
    BY <2>1, IdsAreNats
<1>4. Min(class) \in class /\ \A y \in class : Min(class) <= y
  BY <1>3, MinIsLeast
<1> QED
  BY <1>1, <1>2, <1>4

\* Being together is an equivalence that contains the classes and the pairs.
LEMMA TogetherIs ==
  ASSUME NEW c \in [Ids -> Ids], NEW pairs
  PROVE  /\ \A v \in Ids : Together(c, pairs, v, v) /\ Together(c, pairs, c[v], v)
         /\ \A u, v : Together(c, pairs, u, v) => Together(c, pairs, v, u)
         /\ \A u, v, w : Together(c, pairs, u, v) /\ Together(c, pairs, v, w) => Together(c, pairs, u, w)
         /\ \A p \in pairs : Together(c, pairs, p[1], p[2])
BY DEF Together, Closes

\* Two ids that are together stand for the same one.
LEMMA JoinSame ==
  ASSUME NEW c \in [Ids -> Ids], NEW pairs, NEW u \in Ids, NEW v \in Ids, Together(c, pairs, u, v)
  PROVE  Join(c, pairs)[u] = Join(c, pairs)[v]
<1> DEFINE a == Join(c, pairs)[u]
           b == Join(c, pairs)[v]
<1>1. a \in Ids /\ b \in Ids /\ Together(c, pairs, a, u) /\ Together(c, pairs, b, v)
  BY JoinIs
<1>2. Together(c, pairs, a, v) /\ Together(c, pairs, b, u)
  BY <1>1, TogetherIs
<1>3. a <= b /\ b <= a
  BY <1>1, <1>2, JoinIs
<1>4. a \in Nat /\ b \in Nat
  BY <1>1, IdsAreNats
<1> QED
  BY <1>3, <1>4

\* Joining gives a union-find again, coarser by the pairs, in which what was displaced stays so.
LEMMA JoinIsCanon ==
  ASSUME NEW c, CanonOK(c), NEW pairs
  PROVE  /\ CanonOK(Join(c, pairs))
         /\ Gone(c) \subseteq Gone(Join(c, pairs))
         /\ \A u, v \in Ids : c[u] = c[v] => Join(c, pairs)[u] = Join(c, pairs)[v]
         /\ \A p \in pairs : p[1] \in Ids /\ p[2] \in Ids => Join(c, pairs)[p[1]] = Join(c, pairs)[p[2]]
<1> DEFINE j == Join(c, pairs)
<1>1. c \in [Ids -> Ids] /\ \A v \in Ids : c[v] <= v
  BY DEF CanonOK
<1>2. j \in [Ids -> Ids]
  <2>1. j = [v \in Ids |-> j[v]]
    BY DEF Join
  <2>2. \A v \in Ids : j[v] \in Ids
    BY JoinIs
  <2> QED
    BY <2>1, <2>2
<1>3. ASSUME NEW v \in Ids PROVE j[v] <= v /\ j[v] <= c[v] /\ j[j[v]] = j[v]
  <2>1. Together(c, pairs, v, v) /\ Together(c, pairs, c[v], v) /\ c[v] \in Ids
    BY <1>1, TogetherIs
  <2>2. Together(c, pairs, j[v], v) /\ j[v] \in Ids
    BY JoinIs
  <2> QED
    BY <1>1, <2>1, <2>2, JoinIs, JoinSame
<1>4. ASSUME NEW u \in Ids, NEW v \in Ids, c[u] = c[v] PROVE j[u] = j[v]
  <2>1. Together(c, pairs, c[u], u) /\ Together(c, pairs, c[u], v)
    BY <1>1, <1>4, TogetherIs
  <2>2. Together(c, pairs, u, v)
    BY <1>1, <2>1, TogetherIs
  <2> QED
    BY <1>1, <2>2, JoinSame
<1>5. ASSUME NEW p \in pairs, p[1] \in Ids, p[2] \in Ids PROVE j[p[1]] = j[p[2]]
  BY <1>1, <1>5, TogetherIs, JoinSame
<1>6. Gone(c) \subseteq Gone(j)
  <2> SUFFICES ASSUME NEW v \in Ids, c[v] # v PROVE j[v] # v
    BY DEF Gone
  <2>1. c[v] \in Nat /\ v \in Nat /\ c[v] <= v /\ j[v] \in Nat
    BY <1>1, <1>2, IdsAreNats
  <2> QED
    BY <1>3, <2>1
<1>7. CanonOK(j)
  BY <1>2, <1>3 DEF CanonOK
<1> QED
  BY <1>4, <1>5, <1>6, <1>7

\* Joining what is joined already changes nothing.
LEMMA JoinNothing ==
  ASSUME NEW c, CanonOK(c), NEW pairs,
         \A p \in pairs : p[1] \in Ids /\ p[2] \in Ids /\ c[p[1]] = c[p[2]]
  PROVE  Join(c, pairs) = c
<1> DEFINE j == Join(c, pairs)
<1>1. c \in [Ids -> Ids] /\ \A v \in Ids : c[v] <= v /\ c[c[v]] = c[v]
  BY DEF CanonOK
<1>2. ASSUME NEW u \in Ids, NEW v \in Ids, Together(c, pairs, u, v) PROVE c[u] = c[v]
  <2> DEFINE S == {w \in Ids : c[w] = c[v]}
  <2>1. Closes(c, pairs, S)
    BY <1>1 DEF Closes
  <2> QED
    BY <1>2, <2>1 DEF Together
<1>3. ASSUME NEW v \in Ids PROVE j[v] = c[v]
  <2>1. j[v] \in Ids /\ Together(c, pairs, j[v], v)
    BY JoinIs
  <2>2. c[j[v]] = c[v] /\ c[j[v]] <= j[v]
    BY <1>1, <1>2, <2>1
  <2>3. j[v] <= c[v]
    BY <1>1, TogetherIs, JoinIs
  <2>4. j[v] \in Nat /\ c[v] \in Nat
    BY <1>1, <2>1, IdsAreNats
  <2> QED
    BY <2>2, <2>3, <2>4
<1>4. DOMAIN j = Ids /\ j = [v \in Ids |-> j[v]]
  BY DEF Join
<1> QED
  BY <1>1, <1>3, <1>4

-----------------------------------------------------------------------------
(* Rows and what they mention *)

RowsOK(table) == /\ table = [k \in DOMAIN table |-> table[k]]
                 /\ DOMAIN table \subseteq Ids
                 /\ \A k \in DOMAIN table : table[k].val \in Ids

Tidy(table, ids) == \A k \in DOMAIN table : ~Mentions(table, k, ids)

\* Values that both tables give a key only decreased.
Lower(table, result) ==
  \A k \in DOMAIN result : k \in DOMAIN table => result[k].val <= table[k].val

\* Every value was there for its key, or is written.
Comes(table, pairs, result) ==
  \A k \in DOMAIN result : \/ k \in DOMAIN table /\ result[k].val = table[k].val
                           \/ \E p \in pairs : p[1] = k /\ result[k].val = p[2]

\* The row that merging writes has the least of the values.
LEMMA PutIs ==
  ASSUME NEW table, RowsOK(table), NEW pairs \in SUBSET (Ids \X Ids), NEW time
  PROVE  /\ DOMAIN Put(table, pairs, time) = DOMAIN table \cup {p[1] : p \in pairs}
         /\ RowsOK(Put(table, pairs, time))
         /\ Comes(table, pairs, Put(table, pairs, time))
         /\ Lower(table, Put(table, pairs, time))
         /\ \A p \in pairs : Put(table, pairs, time)[p[1]].val <= p[2]
<1> DEFINE u == Put(table, pairs, time)
           New(k) == {p[2] : p \in {p \in pairs : p[1] = k}}
           Vals(k) == New(k) \cup (IF k \in DOMAIN table THEN {table[k].val} ELSE {})
<1>1. DOMAIN u = DOMAIN table \cup {p[1] : p \in pairs}
  BY DEF Put
<1>2. u = [k \in DOMAIN u |-> u[k]]
  BY DEF Put
<1>3. ASSUME NEW k \in DOMAIN u
      PROVE  u[k] = IF k \in DOMAIN table /\ table[k].val = Min(Vals(k)) THEN table[k]
                    ELSE [val |-> Min(Vals(k)), ts |-> time]
  BY DEF Put
<1>4. ASSUME NEW k \in DOMAIN u PROVE u[k].val = Min(Vals(k))
  BY <1>3
<1>5. ASSUME NEW k \in DOMAIN u PROVE Vals(k) \in SUBSET Ids /\ Vals(k) # {}
  <2>1. Vals(k) \in SUBSET Ids
    BY DEF RowsOK
  <2>2. k \notin DOMAIN table => \E p \in pairs : p[1] = k
    BY <1>1
  <2> QED
    BY <2>1, <2>2
<1>6. ASSUME NEW k \in DOMAIN u PROVE u[k].val \in Vals(k) /\ \A y \in Vals(k) : u[k].val <= y
  <2>1. Vals(k) \in SUBSET Nat /\ Vals(k) # {}
    BY <1>5, IdsAreNats
  <2> HIDE DEF Vals, u
  <2> QED
    BY <1>4, <2>1, MinIsLeast
<1> HIDE DEF u
<1>7. RowsOK(u)
  <2>1. DOMAIN u \subseteq Ids
    BY <1>1 DEF RowsOK
  <2>2. \A k \in DOMAIN u : u[k].val \in Ids
    BY <1>5, <1>6
  <2> QED
    BY <1>2, <2>1, <2>2 DEF RowsOK
<1>8. Comes(table, pairs, u)
  BY <1>6 DEF Comes
<1>9. Lower(table, u)
  BY <1>6 DEF Lower
<1>10. \A p \in pairs : u[p[1]].val <= p[2]
  BY <1>1, <1>6
<1> QED
  BY <1>1, <1>7, <1>8, <1>9, <1>10 DEF u

\* Merging rows that mention nothing new.
LEMMA PutIsTidy ==
  ASSUME NEW table, RowsOK(table), NEW pairs \in SUBSET (Ids \X Ids), NEW time, NEW ids,
         Tidy(table, ids), \A p \in pairs : p[1] \notin ids /\ p[2] \notin ids
  PROVE  Tidy(Put(table, pairs, time), ids)
<1> DEFINE u == Put(table, pairs, time)
<1>1. Comes(table, pairs, u)
  BY PutIs
<1> HIDE DEF u
<1>2. Tidy(u, ids)
  BY <1>1 DEF Comes, Tidy, Mentions
<1> QED
  BY <1>2 DEF u

\* Merging rows that are there, or whose values are not less.
LEMMA PutNothing ==
  ASSUME NEW table, RowsOK(table), NEW pairs \in SUBSET (Ids \X Ids), NEW time,
         \A p \in pairs : p[1] \in DOMAIN table /\ table[p[1]].val <= p[2]
  PROVE  Put(table, pairs, time) = table
<1> DEFINE New(k) == {p[2] : p \in {p \in pairs : p[1] = k}}
           Vals(k) == New(k) \cup (IF k \in DOMAIN table THEN {table[k].val} ELSE {})
           u == Put(table, pairs, time)
<1>1. DOMAIN u = DOMAIN table
  <2>1. DOMAIN u = DOMAIN table \cup {p[1] : p \in pairs}
    BY PutIs
  <2> HIDE DEF u
  <2> QED
    BY <2>1
<1>2. ASSUME NEW k \in DOMAIN table PROVE u[k] = table[k]
  <2>1. Vals(k) \in SUBSET Nat /\ Vals(k) # {}
    BY IdsAreNats DEF RowsOK
  <2>2. Min(Vals(k)) \in Vals(k) /\ Min(Vals(k)) <= table[k].val
    <3> HIDE DEF Vals
    <3>1. table[k].val \in Vals(k)
      BY DEF Vals
    <3> QED
      BY <2>1, <3>1, MinIsLeast
  <2>3. \A y \in Vals(k) : table[k].val <= y
    BY IdsAreNats DEF RowsOK
  <2>4. Min(Vals(k)) = table[k].val
    <3> HIDE DEF Vals
    <3>1. Min(Vals(k)) \in Nat /\ table[k].val \in Nat
      BY <2>1, <2>2, IdsAreNats DEF RowsOK
    <3> QED
      BY <2>2, <2>3, <3>1
  <2>5. u[k] = IF k \in DOMAIN table /\ table[k].val = Min(Vals(k)) THEN table[k]
               ELSE [val |-> Min(Vals(k)), ts |-> time]
    BY DEF Put
  <2> HIDE DEF Vals, u
  <2> QED
    BY <2>4, <2>5
<1>3. u = [k \in DOMAIN u |-> u[k]]
  BY DEF Put
<1> HIDE DEF u
<1>4. u = table
  BY <1>1, <1>2, <1>3 DEF RowsOK
<1> QED
  BY <1>4 DEF u

\* Taking rows out.
LEMMA RestrictIs ==
  ASSUME NEW table, RowsOK(table), NEW keys, keys \subseteq DOMAIN table
  PROVE  /\ RowsOK(Restrict(table, keys)) /\ DOMAIN Restrict(table, keys) = keys
         /\ \A k \in keys : Restrict(table, keys)[k] = table[k]
BY DEF Restrict, RowsOK

\* What a rebuild for some displaced ids leaves: no value increases for its key, and if the others are
\* mentioned nowhere, no displaced id is mentioned any more.
LEMMA RebuiltIs ==
  ASSUME NEW table, RowsOK(table), NEW c, CanonOK(c), NEW ids, ids \subseteq Gone(c), NEW time
  PROVE  /\ RowsOK(Rebuilt(table, c, ids, time))
         /\ Lower(table, Rebuilt(table, c, ids, time))
         /\ \A cur : Tidy(table, cur) /\ Gone(c) \subseteq ids \cup cur
                       => Tidy(Rebuilt(table, c, ids, time), Gone(c))
         /\ Tidy(table, ids) => Rebuilt(table, c, ids, time) = table
<1> DEFINE moved == {k \in DOMAIN table : Mentions(table, k, ids)}
           rest == Restrict(table, DOMAIN table \ moved)
           pairs == {<<c[k], c[table[k].val]>> : k \in moved}
           u == Rebuilt(table, c, ids, time)
<1>1. u = Put(rest, pairs, time)
  BY DEF Rebuilt
<1>2. /\ RowsOK(rest) /\ DOMAIN rest = DOMAIN table \ moved
      /\ \A k \in DOMAIN rest : rest[k] = table[k]
  BY RestrictIs
<1>3. /\ c \in [Ids -> Ids]
      /\ \A v \in Ids : c[v] <= v /\ c[c[v]] = c[v]
  BY DEF CanonOK
<1>4. \A k \in moved : k \in Ids /\ table[k].val \in Ids
  BY DEF RowsOK
<1>5. pairs \in SUBSET (Ids \X Ids)
  BY <1>3, <1>4
<1>6. \A p \in pairs : p[1] \notin Gone(c) /\ p[2] \notin Gone(c)
  BY <1>3, <1>4 DEF Gone
<1> HIDE DEF u, rest, pairs
<1>7. /\ RowsOK(u) /\ Lower(rest, u) /\ Comes(rest, pairs, u)
      /\ \A p \in pairs : u[p[1]].val <= p[2]
  BY <1>1, <1>2, <1>5, PutIs
<1>8. ASSUME NEW k \in DOMAIN u, k \in DOMAIN table PROVE u[k].val <= table[k].val
  <2>1. CASE k \notin moved
    BY <1>2, <1>7, <1>8, <2>1 DEF Lower
  <2>2. CASE k \in moved
    <3>1. k \notin DOMAIN rest
      BY <1>2, <2>2
    <3>2. PICK p \in pairs : p[1] = k
      BY <1>7, <3>1 DEF Comes
    <3>3. c[k] = k
      BY <1>3, <1>4, <3>2 DEF pairs
    <3>4. <<k, c[table[k].val]>> \in pairs
      BY <2>2, <3>3 DEF pairs
    <3>5. u[k].val <= c[table[k].val] /\ c[table[k].val] <= table[k].val
      BY <1>3, <1>4, <1>7, <2>2, <3>4
    <3>6. u[k].val \in Nat /\ c[table[k].val] \in Nat /\ table[k].val \in Nat
      BY <1>3, <1>4, <1>7, <2>2, IdsAreNats DEF RowsOK
    <3> QED
      BY <3>5, <3>6
  <2> QED
    BY <2>1, <2>2
<1>9. Lower(table, u)
  BY <1>8 DEF Lower
<1>10. ASSUME NEW cur, Tidy(table, cur), Gone(c) \subseteq ids \cup cur PROVE Tidy(u, Gone(c))
  <2>1. Tidy(rest, Gone(c))
    BY <1>2, <1>10 DEF Tidy, Mentions
  <2> QED
    BY <1>1, <1>2, <1>5, <1>6, <2>1, PutIsTidy
<1>11. ASSUME Tidy(table, ids) PROVE u = table
  <2>1. moved = {}
    BY <1>11 DEF Tidy
  <2>2. pairs = {}
    BY <2>1 DEF pairs
  <2>3. rest = table
    BY <2>1 DEF rest, Restrict, RowsOK
  <2> QED
    BY <1>1, <1>5, <2>2, <2>3, PutNothing
<1>12. RowsOK(u)
  BY <1>7
<1> QED
  BY <1>9, <1>10, <1>11, <1>12 DEF u

\* do_rebuild seeks displaced ids.  It may leave out those in the cursor.
LEMMA SoughtIs ==
  ASSUME NEW gone, NEW ids \in Sought(gone)
  PROVE  ids \subseteq gone /\ gone \subseteq ids \cup cursor
BY DEF Sought

\* A rebuild of a table that mentions no id it may leave out leaves one that mentions none.
LEMMA RebuildIs ==
  ASSUME NEW table, RowsOK(table), NEW c, CanonOK(c), NEW time, Rebuild(table, c, time)
  PROVE  /\ RowsOK(rows') /\ Lower(table, rows')
         /\ canon' = c /\ cursor' = Gone(c)
         /\ Tidy(table, cursor) => Tidy(rows', Gone(c))
         /\ Tidy(table, Gone(c)) => rows' = table
<1> DEFINE gone == {i \in Ids : c[i] # i}
<1>1. gone = Gone(c)
  BY DEF Gone
<1>2. PICK ids \in Sought(gone) :
        rows' = Rebuilt(table, c, ids, time) /\ cursor' = gone /\ canon' = c
  BY DEF Rebuild
<1> HIDE DEF gone
<1>3. ids \subseteq Gone(c) /\ Gone(c) \subseteq ids \cup cursor
  BY <1>1, SoughtIs
<1>4. Tidy(table, Gone(c)) => Tidy(table, ids)
  BY <1>3 DEF Tidy, Mentions
<1> QED
  BY <1>1, <1>2, <1>3, <1>4, RebuiltIs

-----------------------------------------------------------------------------
(* What was run for holds *)

\* A set of f to z holds while the value y of the match is no greater, a union while both ids are one.
HoldFor(c, ran) ==
  /\ \A r \in Rules : ran[r] \subseteq [Vars(r) -> Ids]
  /\ \A env \in ran["compress"] : env["y"] <= env["z"]
  /\ \A env \in ran["knot"] : c[env["x"]] = c[env["y"]]

DatabaseOK == CanonOK(canon) /\ RowsOK(rows) /\ cursor \subseteq Gone(canon) /\ HoldFor(canon, done)

\* The variables of the rules.
LEMMA VarsAre ==
  /\ Vars("compress") = {"x", "y", "z"} /\ Vars("knot") = {"x", "y"} /\ Vars("seed") = {}
  /\ Atoms["compress"] # <<>> /\ Atoms["knot"] # <<>> /\ Atoms["seed"] = <<>>
BY SMTT(30) DEF Vars, Atoms, Range

\* What the atoms of the rules ask for.
LEMMA MatchesAre ==
  ASSUME NEW table
  PROVE  /\ \A env \in MatchesIn(table, "compress") :
              /\ env \in [{"x", "y", "z"} -> Ids]
              /\ env["x"] \in DOMAIN table /\ table[env["x"]].val = env["y"]
              /\ env["y"] \in DOMAIN table /\ table[env["y"]].val = env["z"]
         /\ \A env \in MatchesIn(table, "knot") :
              /\ env \in [{"x", "y"} -> Ids]
              /\ env["x"] \in DOMAIN table /\ table[env["x"]].val = env["y"]
              /\ env["y"] \in DOMAIN table /\ table[env["y"]].val = env["x"]
<1>1. /\ Atoms["compress"] = << <<"x", "y">>, <<"y", "z">> >>
      /\ Atoms["knot"] = << <<"x", "y">>, <<"y", "x">> >>
  BY DEF Atoms
<1>2. 1 \in DOMAIN Atoms["compress"] /\ 2 \in DOMAIN Atoms["compress"]
  BY <1>1
<1>3. 1 \in DOMAIN Atoms["knot"] /\ 2 \in DOMAIN Atoms["knot"]
  BY <1>1
<1>4. ASSUME NEW env \in MatchesIn(table, "compress")
      PROVE  /\ env \in [{"x", "y", "z"} -> Ids]
             /\ env["x"] \in DOMAIN table /\ table[env["x"]].val = env["y"]
             /\ env["y"] \in DOMAIN table /\ table[env["y"]].val = env["z"]
  BY <1>1, <1>2, VarsAre DEF MatchesIn
<1>5. ASSUME NEW env \in MatchesIn(table, "knot")
      PROVE  /\ env \in [{"x", "y"} -> Ids]
             /\ env["x"] \in DOMAIN table /\ table[env["x"]].val = env["y"]
             /\ env["y"] \in DOMAIN table /\ table[env["y"]].val = env["x"]
  BY <1>1, <1>3, VarsAre DEF MatchesIn
<1> QED
  BY <1>4, <1>5

\* A database where every match was run for, or is one a panic kept a rule from, is closed.
LEMMA RunForAllIsClosed ==
  ASSUME DatabaseOK, \A r \in Rules : MatchesIn(rows, r) \subseteq done[r] \cup lost[r]
  PROVE  Closed
<1> SUFFICES ASSUME NEW r \in Rules, Atoms[r] # <<>>
             PROVE  /\ Put(rows, Sets(r, Matches(r) \ lost[r]), ts) = rows
                    /\ Join(canon, Unions(r, Matches(r) \ lost[r])) = canon
  BY DEF Closed
<1> DEFINE envs == Matches(r) \ lost[r]
<1>1. envs \subseteq MatchesIn(rows, r) /\ envs \subseteq done[r]
  BY MatchesNow
<1>2. RowsOK(rows) /\ CanonOK(canon) /\ HoldFor(canon, done)
  BY DEF DatabaseOK
<1>3. r \in {"compress", "knot"}
  BY AtomsOf, VarsAre
<1> HIDE DEF envs
<1>4. CASE r = "compress"
  <2>1. Sets(r, envs) = {<<env["x"], env["z"]>> : env \in envs} /\ Unions(r, envs) = {}
    BY <1>4 DEF Sets, Unions
  <2>2. ASSUME NEW env \in envs
        PROVE  /\ env["x"] \in Ids /\ env["z"] \in Ids
               /\ env["x"] \in DOMAIN rows /\ rows[env["x"]].val <= env["z"]
    <3>1. env \in [{"x", "y", "z"} -> Ids] /\ env["x"] \in DOMAIN rows /\ rows[env["x"]].val = env["y"]
      BY <1>1, <1>4, MatchesAre
    <3>2. env["y"] <= env["z"]
      BY <1>1, <1>2, <1>4 DEF HoldFor
    <3> QED
      BY <3>1, <3>2
  <2>3. Sets(r, envs) \in SUBSET (Ids \X Ids)
    BY <2>1, <2>2
  <2>4. \A p \in Sets(r, envs) : p[1] \in DOMAIN rows /\ rows[p[1]].val <= p[2]
    BY <2>1, <2>2
  <2>5. Put(rows, Sets(r, envs), ts) = rows
    BY <1>2, <2>3, <2>4, PutNothing
  <2>6. Join(canon, Unions(r, envs)) = canon
    BY <1>2, <2>1, JoinNothing
  <2> QED
    BY <2>5, <2>6 DEF envs
<1>5. CASE r = "knot"
  <2>1. Sets(r, envs) = {} /\ Unions(r, envs) = {<<env["x"], env["y"]>> : env \in envs}
    BY <1>5 DEF Sets, Unions
  <2>2. ASSUME NEW env \in envs
        PROVE  env["x"] \in Ids /\ env["y"] \in Ids /\ canon[env["x"]] = canon[env["y"]]
    <3>1. env \in [{"x", "y"} -> Ids]
      BY <1>1, <1>5, MatchesAre
    <3>2. canon[env["x"]] = canon[env["y"]]
      BY <1>1, <1>2, <1>5 DEF HoldFor
    <3> QED
      BY <3>1, <3>2
  <2>3. \A p \in Unions(r, envs) : p[1] \in Ids /\ p[2] \in Ids /\ canon[p[1]] = canon[p[2]]
    BY <2>1, <2>2
  <2>4. Put(rows, Sets(r, envs), ts) = rows
    BY <1>2, <2>1, PutNothing
  <2>5. Join(canon, Unions(r, envs)) = canon
    BY <1>2, <2>3, JoinNothing
  <2> QED
    BY <2>4, <2>5 DEF envs
<1> QED
  BY <1>3, <1>4, <1>5

\* A run is for matches among those it was asked for.
LEMMA AttemptsAre ==
  ASSUME NEW matches, NEW tried \in Attempts(matches)
  PROVE  /\ DOMAIN tried = DOMAIN matches
         /\ \A r \in DOMAIN tried : tried[r] \subseteq matches[r]
<1>1. CASE tried = matches
  BY <1>1
<1>2. CASE tried # matches
  <2>1. PICK s \in DOMAIN matches :
          \E t \in {{}} \cup {{env} : env \in matches[s]} :
            tried = [r \in DOMAIN matches |-> IF r = s THEN t ELSE {}]
    BY <1>2 DEF Attempts
  <2>2. PICK t \in {{}} \cup {{env} : env \in matches[s]} :
            tried = [r \in DOMAIN matches |-> IF r = s THEN t ELSE {}]
    BY <2>1
  <2>3. t \subseteq matches[s]
    BY <2>2
  <2> QED
    BY <2>2, <2>3
<1> QED
  BY <1>1, <1>2

-----------------------------------------------------------------------------
(* What a run writes *)

MatchSets(matches) == \A r \in DOMAIN matches : r \in Rules /\ matches[r] \subseteq [Vars(r) -> Ids]

SetPairs(tried) == UNION {Sets(r, tried[r]) : r \in DOMAIN tried}
UnionPairs(tried) == UNION {Unions(r, tried[r]) : r \in DOMAIN tried}

\* The actions of matches write ids.
LEMMA SetsAre ==
  ASSUME CanonOK(canon), NEW r \in Rules, NEW envs \in SUBSET [Vars(r) -> Ids]
  PROVE  /\ Sets(r, envs) \in SUBSET (Ids \X Ids)
         /\ \A p \in Unions(r, envs) : p[1] \in Ids /\ p[2] \in Ids
<1>1. r = "compress" \/ r = "knot" \/ r = "seed"
  BY AtomsOf
<1>2. CASE r = "compress"
  <2>1. Sets(r, envs) = {<<env["x"], env["z"]>> : env \in envs} /\ Unions(r, envs) = {}
    BY <1>2 DEF Sets, Unions
  <2>2. \A env \in envs : env \in [{"x", "y", "z"} -> Ids]
    BY <1>2, VarsAre
  <2> QED
    BY <2>1, <2>2
<1>3. CASE r = "knot"
  <2>1. Sets(r, envs) = {} /\ Unions(r, envs) = {<<env["x"], env["y"]>> : env \in envs}
    BY <1>3 DEF Sets, Unions
  <2>2. \A env \in envs : env \in [{"x", "y"} -> Ids]
    BY <1>3, VarsAre
  <2> QED
    BY <2>1, <2>2
<1>4. CASE r = "seed"
  <2>1. Sets(r, envs) = {<<canon[0], canon[MaxId]>> : env \in envs} /\ Unions(r, envs) = {}
    BY <1>4 DEF Sets, Unions
  <2>2. canon[0] \in Ids /\ canon[MaxId] \in Ids
    <3>1. 0 \in Ids /\ MaxId \in Ids
      BY SemiNaiveAssumption DEF Ids
    <3> QED
      BY <3>1 DEF CanonOK
  <2> QED
    BY <2>1, <2>2
<1> QED
  BY <1>1, <1>2, <1>3, <1>4

\* Nothing that a run writes increases a value, and what is set is there.
LEMMA WrittenIs ==
  ASSUME CanonOK(canon), RowsOK(rows), NEW tried, MatchSets(tried), NEW time
  PROVE  /\ SetPairs(tried) \in SUBSET (Ids \X Ids)
         /\ RowsOK(Written(tried, time)) /\ Lower(rows, Written(tried, time))
         /\ \A r \in DOMAIN tried : r = "compress" =>
              \A env \in tried[r] : /\ env["x"] \in DOMAIN Written(tried, time)
                                    /\ Written(tried, time)[env["x"]].val <= env["z"]
<1>1. SetPairs(tried) \in SUBSET (Ids \X Ids)
  BY SetsAre DEF MatchSets, SetPairs
<1>2. Written(tried, time) = Put(rows, SetPairs(tried), time)
  BY DEF Written, SetPairs
<1>3. /\ DOMAIN Written(tried, time) = DOMAIN rows \cup {p[1] : p \in SetPairs(tried)}
      /\ RowsOK(Written(tried, time)) /\ Lower(rows, Written(tried, time))
      /\ \A p \in SetPairs(tried) : Written(tried, time)[p[1]].val <= p[2]
  BY <1>1, <1>2, PutIs
<1>4. ASSUME NEW r \in DOMAIN tried, r = "compress", NEW env \in tried[r]
      PROVE  <<env["x"], env["z"]>> \in SetPairs(tried)
  BY <1>4 DEF SetPairs, Sets
<1>5. ASSUME NEW r \in DOMAIN tried, r = "compress", NEW env \in tried[r]
      PROVE  /\ env["x"] \in DOMAIN Written(tried, time)
             /\ Written(tried, time)[env["x"]].val <= env["z"]
  <2> DEFINE p == <<env["x"], env["z"]>>
  <2>1. p \in SetPairs(tried) /\ p[1] = env["x"] /\ p[2] = env["z"]
    BY <1>4, <1>5
  <2> HIDE DEF p
  <2> QED
    BY <1>3, <2>1
<1> QED
  BY <1>1, <1>3, <1>5

\* A run unites the ids of its matches.
LEMMA UnitedIs ==
  ASSUME CanonOK(canon), NEW tried, MatchSets(tried)
  PROVE  /\ CanonOK(United(tried)) /\ Gone(canon) \subseteq Gone(United(tried))
         /\ \A u, v \in Ids : canon[u] = canon[v] => United(tried)[u] = United(tried)[v]
         /\ \A r \in DOMAIN tried : r = "knot" =>
              \A env \in tried[r] : United(tried)[env["x"]] = United(tried)[env["y"]]
<1>1. United(tried) = Join(canon, UnionPairs(tried))
  BY DEF United, UnionPairs
<1>2. /\ CanonOK(United(tried)) /\ Gone(canon) \subseteq Gone(United(tried))
      /\ \A u, v \in Ids : canon[u] = canon[v] => United(tried)[u] = United(tried)[v]
      /\ \A p \in UnionPairs(tried) :
           p[1] \in Ids /\ p[2] \in Ids => United(tried)[p[1]] = United(tried)[p[2]]
  BY <1>1, JoinIsCanon
<1>3. ASSUME NEW r \in DOMAIN tried, r = "knot", NEW env \in tried[r]
      PROVE  United(tried)[env["x"]] = United(tried)[env["y"]]
  <2> DEFINE p == <<env["x"], env["y"]>>
  <2>1. p \in UnionPairs(tried)
    BY <1>3 DEF UnionPairs, Unions
  <2>2. env \in [{"x", "y"} -> Ids]
    BY <1>3, VarsAre DEF MatchSets
  <2>3. p[1] = env["x"] /\ p[2] = env["y"] /\ p[1] \in Ids /\ p[2] \in Ids
    BY <2>2
  <2> HIDE DEF p
  <2> QED
    BY <1>2, <2>1, <2>3
<1> QED
  BY <1>2, <1>3

\* After a run and a rebuild, what was run for holds, as far as it is a match still.
LEMMA HoldAfterRun ==
  ASSUME DatabaseOK, NEW matches, MatchSets(matches), NEW tried \in Attempts(matches), NEW time,
         Tried(matches, tried), canon' = United(tried), RowsOK(rows'),
         Lower(Written(tried, time), rows')
  PROVE  HoldFor(canon', done')
<1>1. CanonOK(canon) /\ RowsOK(rows) /\ HoldFor(canon, done)
  BY DEF DatabaseOK
<1>2. MatchSets(tried)
  BY AttemptsAre DEF MatchSets
<1>3. \A r \in Rules : /\ done'[r] \subseteq MatchesIn(rows', r)
                       /\ \A env \in done'[r] : env \in done[r] \/ (r \in DOMAIN tried /\ env \in tried[r])
  BY MatchesNext DEF Tried
<1>4. "compress" \in Rules /\ "knot" \in Rules
  BY AtomsOf
<1>5. ASSUME NEW env \in done'["compress"] PROVE env["y"] <= env["z"]
  <2>1. CASE env \in done["compress"]
    BY <1>1, <2>1 DEF HoldFor
  <2>2. CASE "compress" \in DOMAIN tried /\ env \in tried["compress"]
    <3> DEFINE table == Written(tried, time)
               k == env["x"]
    <3>1. k \in DOMAIN table /\ table[k].val <= env["z"] /\ RowsOK(table)
      BY <1>1, <1>2, <2>2, WrittenIs
    <3>2. k \in DOMAIN rows' /\ rows'[k].val = env["y"] /\ env \in [{"x", "y", "z"} -> Ids]
      BY <1>3, <1>4, MatchesAre
    <3> HIDE DEF table, k
    <3>3. rows'[k].val <= table[k].val
      BY <3>1, <3>2 DEF Lower, table
    <3>4. table[k].val \in Nat /\ env["y"] \in Nat /\ env["z"] \in Nat
      BY <3>1, <3>2, IdsAreNats DEF RowsOK
    <3> QED
      BY <3>1, <3>2, <3>3, <3>4
  <2> QED
    BY <1>3, <1>4, <2>1, <2>2
<1>6. ASSUME NEW env \in done'["knot"] PROVE canon'[env["x"]] = canon'[env["y"]]
  <2>1. CASE env \in done["knot"]
    <3>1. env["x"] \in Ids /\ env["y"] \in Ids
      BY <1>1, <1>4, <2>1, VarsAre DEF HoldFor
    <3>2. canon[env["x"]] = canon[env["y"]]
      BY <1>1, <2>1 DEF HoldFor
    <3> QED
      BY <1>1, <1>2, <3>1, <3>2, UnitedIs
  <2>2. CASE "knot" \in DOMAIN tried /\ env \in tried["knot"]
    BY <1>1, <1>2, <2>2, UnitedIs
  <2> QED
    BY <1>3, <1>4, <2>1, <2>2
<1>7. \A r \in Rules : done'[r] \subseteq [Vars(r) -> Ids]
  BY <1>3 DEF MatchesIn
<1> QED
  BY <1>5, <1>6, <1>7 DEF HoldFor

\* Unions and forgetting keep what holds.
LEMMA HoldAfterUnions ==
  ASSUME HoldFor(canon, done), \A r \in Rules : done'[r] \subseteq done[r],
         \A u, v \in Ids : canon[u] = canon[v] => canon'[u] = canon'[v]
  PROVE  HoldFor(canon', done')
<1>1. "compress" \in Rules /\ "knot" \in Rules
  BY AtomsOf
<1>2. \A env \in done'["compress"] : env["y"] <= env["z"]
  BY <1>1 DEF HoldFor
<1>3. ASSUME NEW env \in done'["knot"] PROVE canon'[env["x"]] = canon'[env["y"]]
  <2>1. env \in done["knot"]
    BY <1>1
  <2>2. env["x"] \in Ids /\ env["y"] \in Ids
    BY <1>1, <2>1, VarsAre DEF HoldFor
  <2> QED
    BY <2>1, <2>2 DEF HoldFor
<1>4. \A r \in Rules : done'[r] \subseteq [Vars(r) -> Ids]
  BY DEF HoldFor
<1> QED
  BY <1>2, <1>3, <1>4 DEF HoldFor

-----------------------------------------------------------------------------
(* Saturation without a scheduler *)

\* The rules of calm were run for all there is.
RanForAll(rs) == \A r \in rs : r \in Rules /\ MatchesIn(rows, r) \subseteq done[r] \cup lost[r]

\* The table mentions no displaced id it has been rebuilt for, and none at all if no rebuild is owed.
RowsTidy == /\ Tidy(rows, cursor)
            /\ ~owed => Tidy(rows, Gone(canon))

PlainOK == DatabaseOK /\ RowsTidy /\ RanForAll(calm)

\* Queries find matches over ids.
LEMMA FoundAre ==
  ASSUME NEW rs \in SUBSET Rules
  PROVE  /\ MatchSets(FoundBy(rs)) /\ DOMAIN FoundBy(rs) = rs
         /\ \A r \in rs : FoundBy(rs)[r] = Found(r, last[r]) /\ Found(r, last[r]) \subseteq MatchesIn(rows, r)
<1>1. ASSUME NEW r \in rs PROVE Found(r, last[r]) \subseteq MatchesIn(rows, r)
  <2>1. CASE Atoms[r] = <<>>
    <3>1. Vars(r) = {}
      BY <2>1 DEF Vars
    <3>2. <<>> \in [Vars(r) -> Ids]
      BY <3>1
    <3>3. <<>> \in MatchesIn(rows, r)
      BY <2>1, <3>2 DEF MatchesIn
    <3> QED
      BY <2>1, <3>3 DEF Found
  <2>2. CASE Atoms[r] # <<>>
    <3>1. Found(r, last[r]) \subseteq Matches(r)
      BY <2>2 DEF Found, Variant
    <3> QED
      BY <3>1, MatchesNow
  <2> QED
    BY <2>1, <2>2
<1>2. DOMAIN FoundBy(rs) = rs /\ \A r \in rs : FoundBy(rs)[r] = Found(r, last[r])
  BY DEF FoundBy
<1>3. \A r \in rs : MatchesIn(rows, r) \subseteq [Vars(r) -> Ids]
  BY DEF MatchesIn
<1> QED
  BY <1>1, <1>2, <1>3 DEF MatchSets

\* A run for present matches writes no id that the rows do not mention.
LEMMA WrittenIsTidy ==
  ASSUME CanonOK(canon), RowsOK(rows), NEW ids, ids \subseteq Gone(canon), Tidy(rows, ids), NEW time,
         NEW tried, \A r \in DOMAIN tried : r \in Rules /\ tried[r] \subseteq MatchesIn(rows, r)
  PROVE  Tidy(Written(tried, time), ids)
<1>1. MatchSets(tried)
  BY DEF MatchSets, MatchesIn
<1>2. Written(tried, time) = Put(rows, SetPairs(tried), time)
  BY DEF Written, SetPairs
<1>3. ASSUME NEW r \in DOMAIN tried, NEW p \in Sets(r, tried[r]) PROVE p[1] \notin ids /\ p[2] \notin ids
  <2>1. r = "compress" \/ r = "knot" \/ r = "seed"
    BY AtomsOf
  <2>2. CASE r = "compress"
    <3>1. PICK env \in tried[r] : p = <<env["x"], env["z"]>>
      BY <1>3, <2>2 DEF Sets
    <3>2. /\ env["x"] \in DOMAIN rows
          /\ env["y"] \in DOMAIN rows /\ rows[env["y"]].val = env["z"]
      BY <2>2, MatchesAre
    <3> QED
      BY <3>1, <3>2 DEF Tidy, Mentions
  <2>3. CASE r = "knot"
    BY <1>3, <2>3 DEF Sets
  <2>4. CASE r = "seed"
    <3>1. p = <<canon[0], canon[MaxId]>>
      BY <1>3, <2>4 DEF Sets
    <3>2. 0 \in Ids /\ MaxId \in Ids
      BY SemiNaiveAssumption DEF Ids
    <3>3. canon[0] \notin Gone(canon) /\ canon[MaxId] \notin Gone(canon)
      BY <3>2 DEF CanonOK, Gone
    <3> QED
      BY <3>1, <3>3
  <2> QED
    BY <2>1, <2>2, <2>3, <2>4
<1>4. \A p \in SetPairs(tried) : p[1] \notin ids /\ p[2] \notin ids
  BY <1>3 DEF SetPairs
<1>5. SetPairs(tried) \in SUBSET (Ids \X Ids)
  BY <1>1, WrittenIs
<1> QED
  BY <1>2, <1>4, <1>5, PutIsTidy

\* A rebuild leaves a database that mentions no displaced id.
LEMMA RebuildTidies ==
  ASSUME NEW table, RowsOK(table), NEW c, CanonOK(c), NEW time, Rebuild(table, c, time),
         Tidy(table, cursor)
  PROVE  /\ CanonOK(canon') /\ RowsOK(rows') /\ cursor' \subseteq Gone(canon') /\ RowsTidy'
         /\ canon' = c /\ Lower(table, rows')
BY RebuildIs DEF RowsTidy

\* run_rules and run_rules_no_rebuild.
LEMMA RunPlain ==
  ASSUME TimesOK, SeenIn(rows, last, done, lost, Nothing), PlainOK,
         NEW rs \in SUBSET Rules, RunRules(rs) \/ RunRulesNoRebuild(rs)
  PROVE  PlainOK'
<1> DEFINE found == FoundBy(rs)
<1>1. /\ CanonOK(canon) /\ RowsOK(rows) /\ cursor \subseteq Gone(canon) /\ HoldFor(canon, done)
      /\ Tidy(rows, cursor) /\ (~owed => Tidy(rows, Gone(canon))) /\ RanForAll(calm)
  BY DEF PlainOK, DatabaseOK, RowsTidy
<1>2. /\ MatchSets(found) /\ DOMAIN found = rs
      /\ \A r \in rs : found[r] = Found(r, last[r]) /\ found[r] \subseteq MatchesIn(rows, r)
  BY FoundAre
<1>3. PICK tried \in Attempts(found) :
        /\ Tried(found, tried)
        /\ \/ RunRules(rs) /\ ~owed /\ Rebuild(Written(tried, ts), United(tried), ts)
           \/ /\ RunRules(rs) /\ ~owed /\ United(tried) = canon
              /\ rows' = Written(tried, ts) /\ UNCHANGED <<canon, cursor, owed>>
           \/ /\ RunRulesNoRebuild(rs) /\ rows' = Written(tried, ts) /\ canon' = United(tried)
              /\ owed' = (owed \/ canon' # canon) /\ cursor' = cursor
        /\ \/ calm' = {}
           \/ Same(Written(tried, ts), United(tried)) /\ tried = found /\ calm' = calm \cup rs /\ rows' = rows
  <2>1. CASE RunRules(rs)
    <3>1. PICK tried \in Attempts(found) :
            LET table == Written(tried, ts)
                c == United(tried)
                failed == tried # found
            IN  /\ \/ /\ c # canon \/ failed
                      /\ Rebuild(table, c, ts)
                   \/ /\ c = canon /\ ~failed
                      /\ rows' = table /\ ts' = ts + 1
                      /\ UNCHANGED <<canon, cursor, owed>>
                /\ Saturate(rs, Same(table, c) /\ ~failed)
                /\ Tried(found, tried)
      BY <2>1 DEF RunRules
    <3>2. ~owed
      BY <2>1 DEF RunRules
    <3>3. \/ calm' = {}
          \/ Same(Written(tried, ts), United(tried)) /\ tried = found /\ calm' = calm \cup rs /\ rows' = rows
      BY <3>1 DEF Saturate, Same
    <3> HIDE DEF found
    <3> QED
      BY <2>1, <3>1, <3>2, <3>3
  <2>2. CASE RunRulesNoRebuild(rs)
    BY <2>2 DEF RunRulesNoRebuild
  <2> QED
    BY <2>1, <2>2
<1> DEFINE table == Written(tried, ts)
           c == United(tried)
<1> HIDE DEF found
<1>4. MatchSets(tried) /\ \A r \in DOMAIN tried : r \in Rules /\ tried[r] \subseteq MatchesIn(rows, r)
  BY <1>2, AttemptsAre DEF MatchSets
<1>5. RowsOK(table)
  BY <1>1, <1>4, WrittenIs
<1>6. CanonOK(c) /\ Gone(canon) \subseteq Gone(c)
  BY <1>1, <1>4, UnitedIs
<1>7. Tidy(table, cursor) /\ (~owed => Tidy(table, Gone(canon)))
  BY <1>1, <1>4, WrittenIsTidy
<1>8. /\ CanonOK(canon') /\ RowsOK(rows') /\ cursor' \subseteq Gone(canon') /\ RowsTidy'
      /\ canon' = c /\ Lower(table, rows')
  <2>0. Lower(table, table)
    BY <1>5, IdsAreNats DEF Lower, RowsOK
  <2> HIDE DEF table, c
  <2>1. CASE Rebuild(table, c, ts)
    BY <1>5, <1>6, <1>7, <2>1, RebuildTidies
  <2>2. CASE ~owed /\ c = canon /\ rows' = table /\ UNCHANGED <<canon, cursor, owed>>
    BY <1>1, <1>5, <1>7, <2>0, <2>2 DEF RowsTidy
  <2>3. CASE rows' = table /\ canon' = c /\ owed' = (owed \/ canon' # canon) /\ cursor' = cursor
    <3>1. cursor' \subseteq Gone(canon')
      BY <1>1, <1>6, <2>3
    <3>2. RowsTidy'
      BY <1>7, <2>3 DEF RowsTidy
    <3> QED
      BY <1>5, <1>6, <2>0, <2>3, <3>1, <3>2
  <2> QED
    BY <1>3, <2>1, <2>2, <2>3 DEF table, c
<1>9. HoldFor(canon', done')
  <2>1. DatabaseOK
    BY DEF PlainOK
  <2> QED
    BY <1>2, <1>3, <1>8, <2>1, HoldAfterRun
<1>10. RanForAll(calm)'
  <2>1. CASE calm' = {}
    BY <2>1 DEF RanForAll
  <2>2. CASE calm' = calm \cup rs /\ rows' = rows
    <3> SUFFICES ASSUME NEW r \in calm \cup rs
                 PROVE  r \in Rules /\ MatchesIn(rows', r) \subseteq done'[r] \cup lost'[r]
      BY <2>2 DEF RanForAll
    <3>1. r \in Rules
      BY <1>1 DEF RanForAll
    <3>2. ASSUME NEW env \in MatchesIn(rows', r)
          PROVE  env \in done[r] \cup lost[r] \/ (r \in DOMAIN found /\ env \in found[r])
      <4>1. env \in MatchesIn(rows, r)
        BY <2>2
      <4>2. CASE r \in calm
        BY <1>1, <4>1, <4>2 DEF RanForAll
      <4>3. CASE r \in rs
        <5>1. CASE last[r] > 0 /\ OldIn(rows, env, r, last[r])
          BY <3>1, <4>1, <5>1 DEF SeenIn, Nothing
        <5>2. CASE env \in Found(r, last[r])
          BY <1>2, <4>3, <5>2
        <5> QED
          BY <3>1, <4>1, <5>1, <5>2, FoundOrOld
      <4> QED
        BY <4>2, <4>3
    <3> QED
      BY <1>3, <3>1, <3>2, TriedKeeps
  <2> QED
    BY <1>3, <2>1, <2>2
<1> QED
  BY <1>8, <1>9, <1>10 DEF PlainOK, DatabaseOK

\* rebuild on its own.
LEMMA RebuildPlain == ASSUME PlainOK, RebuildNow PROVE PlainOK'
<1>1. DatabaseOK /\ Tidy(rows, cursor) /\ HoldFor(canon, done) /\ RowsOK(rows) /\ CanonOK(canon)
  BY DEF PlainOK, DatabaseOK, RowsTidy
<1>2. Rebuild(rows, canon, ts) /\ calm' = {} /\ Tried(<<>>, <<>>)
  BY DEF RebuildNow
<1>3. /\ CanonOK(canon') /\ RowsOK(rows') /\ cursor' \subseteq Gone(canon') /\ RowsTidy'
      /\ canon' = canon
  BY <1>1, <1>2, RebuildTidies
<1>4. \A r \in Rules : done'[r] \subseteq done[r]
  BY <1>2 DEF Tried
<1>5. HoldFor(canon', done')
  BY <1>1, <1>3, <1>4, HoldAfterUnions
<1>6. RanForAll(calm)'
  BY <1>2 DEF RanForAll
<1> QED
  BY <1>3, <1>5, <1>6 DEF PlainOK, DatabaseOK

\* The union-find and the rows after a command, with pairs and unions of ids that are not displaced.
LEMMA CommandDatabase ==
  ASSUME DatabaseOK, NEW pairs \in SUBSET (Ids \X Ids), NEW unions, NEW gone,
         Command(pairs, unions, gone)
  PROVE  /\ DatabaseOK' /\ calm' = {}
         /\ /\ Tidy(rows, cursor) /\ Tidy(rows, Gone(canon))
            /\ \A p \in pairs : p[1] \notin Gone(canon) /\ p[2] \notin Gone(canon)
            => RowsTidy'
<1> DEFINE rest == Restrict(rows, DOMAIN rows \ gone)
           table == Put(rest, pairs, ts)
           c == Join(canon, unions)
           Clean == /\ Tidy(rows, cursor) /\ Tidy(rows, Gone(canon))
                    /\ \A p \in pairs : p[1] \notin Gone(canon) /\ p[2] \notin Gone(canon)
<1>1. CanonOK(canon) /\ RowsOK(rows) /\ cursor \subseteq Gone(canon) /\ HoldFor(canon, done)
  BY DEF DatabaseOK
<1>2. RowsOK(rest) /\ DOMAIN rest = DOMAIN rows \ gone /\ \A k \in DOMAIN rest : rest[k] = rows[k]
  BY <1>1, RestrictIs
<1>3. RowsOK(table)
  BY <1>2, PutIs
<1>4. CanonOK(c) /\ Gone(canon) \subseteq Gone(c) /\ \A u, v \in Ids : canon[u] = canon[v] => c[u] = c[v]
  BY <1>1, JoinIsCanon
<1>5. Clean => Tidy(table, Gone(canon)) /\ Tidy(table, cursor)
  <2> SUFFICES ASSUME Clean PROVE Tidy(table, Gone(canon)) /\ Tidy(table, cursor)
    OBVIOUS
  <2>1. Tidy(rest, Gone(canon))
    BY <1>2 DEF Tidy, Mentions
  <2>2. Tidy(table, Gone(canon))
    BY <1>2, <2>1, PutIsTidy
  <2> HIDE DEF table
  <2> QED
    BY <1>1, <2>2 DEF Tidy, Mentions
<1>6. /\ \/ \E time \in {ts, ts + 1} : Rebuild(table, c, time)
         \/ c = canon /\ rows' = table /\ UNCHANGED <<canon, cursor, owed>>
      /\ calm' = {}
      /\ \A r \in Rules : done'[r] \subseteq done[r]
  BY DEF Command
<1> HIDE DEF table, c, Clean
<1>7. /\ CanonOK(canon') /\ RowsOK(rows') /\ cursor' \subseteq Gone(canon') /\ canon' = c
      /\ Clean => RowsTidy'
  <2>1. CASE \E time \in {ts, ts + 1} : Rebuild(table, c, time)
    <3>1. PICK time \in {ts, ts + 1} : Rebuild(table, c, time)
      BY <2>1
    <3>2. RowsOK(rows') /\ canon' = c /\ cursor' = Gone(c)
      BY <1>3, <1>4, <3>1, RebuildIs
    <3>3. Clean => RowsTidy'
      BY <1>3, <1>4, <1>5, <3>1, RebuildTidies
    <3> QED
      BY <1>4, <3>2, <3>3
  <2>2. CASE c = canon /\ rows' = table /\ UNCHANGED <<canon, cursor, owed>>
    BY <1>1, <1>3, <1>5, <2>2 DEF RowsTidy
  <2> QED
    BY <1>6, <2>1, <2>2
<1>8. HoldFor(canon', done')
  BY <1>1, <1>4, <1>6, <1>7, HoldAfterUnions
<1> QED
  BY <1>6, <1>7, <1>8 DEF DatabaseOK, Clean

\* A command writes rows and unions of ids that are not displaced, or deletes.
LEMMA CommandIs ==
  ASSUME RunCommand
  PROVE  \E pairs, unions, gone :
           /\ pairs \in SUBSET (Ids \X Ids)
           /\ Command(pairs, unions, gone)
           /\ \A p \in pairs : p[1] \notin Gone(canon) /\ p[2] \notin Gone(canon)
<1>1. CASE \E a, b \in Ids \ Displaced : Set(a, b)
  <2>1. PICK a \in Ids \ Displaced, b \in Ids \ Displaced : Command({<<a, b>>}, {}, {})
    BY <1>1 DEF Set
  <2>2. {<<a, b>>} \in SUBSET (Ids \X Ids) /\ \A p \in {<<a, b>>} : p[1] \notin Gone(canon) /\ p[2] \notin Gone(canon)
    BY DEF Displaced, Gone
  <2> QED
    BY <2>1, <2>2
<1>2. CASE \E a, b \in Ids : Union(a, b)
  <2>1. PICK a \in Ids, b \in Ids : Command({}, {<<a, b>>}, {})
    BY <1>2 DEF Union
  <2> QED
    BY <2>1
<1>3. CASE \E k \in DOMAIN rows : Delete(k)
  <2>1. PICK k \in DOMAIN rows : Command({}, {}, {k})
    BY <1>3 DEF Delete
  <2> QED
    BY <2>1
<1> QED
    BY <1>1, <1>2, <1>3 DEF RunCommand

\* The commands.
LEMMA CommandPlain ==
  ASSUME DatabaseOK, RunCommand
  PROVE  DatabaseOK' /\ calm' = {} /\ (RowsTidy /\ ~owed => RowsTidy')
BY CommandIs, CommandDatabase DEF RowsTidy

\* Commands wait for a rebuild that is owed.
LEMMA CommandsWait == RunCommand => ~owed
BY DEF RunCommand, Set, Union, Delete, Command

\* Every step without a scheduler.
LEMMA PlainStays ==
  ASSUME TimesOK, SeenIn(rows, last, done, lost, Nothing), PlainOK, Next
  PROVE  PlainOK'
<1>1. CASE \E rs \in SUBSET Rules : RunRules(rs) \/ RunRulesNoRebuild(rs)
  BY <1>1, RunPlain
<1>2. CASE RebuildNow
  BY <1>2, RebuildPlain
<1>3. CASE RunCommand
  <2>1. DatabaseOK' /\ calm' = {} /\ RowsTidy'
    BY <1>3, CommandPlain, CommandsWait DEF PlainOK
  <2> QED
    BY <2>1 DEF PlainOK, RanForAll
<1> QED
  BY <1>1, <1>2, <1>3 DEF Next

\* The database at first: no union, nothing run.
LEMMA PlainStarts == Init => PlainOK
<1> SUFFICES ASSUME Init PROVE PlainOK
  OBVIOUS
<1>1. CanonOK(canon) /\ Gone(canon) = {}
  BY IdsAreNats DEF Init, CanonOK, Gone
<1>2. RowsOK(rows)
  BY DEF Init, RowsOK
<1>3. HoldFor(canon, done)
  BY AtomsOf DEF Init, HoldFor
<1>4. RanForAll(calm)
  BY DEF Init, RanForAll
<1>5. Tidy(rows, {}) /\ cursor = {}
  BY DEF Init, Tidy, Mentions
<1> QED
  BY <1>1, <1>2, <1>3, <1>4, <1>5 DEF PlainOK, DatabaseOK, RowsTidy

-----------------------------------------------------------------------------
(* Stopping with a scheduler *)

Todos == {Order, <<"knot", "seed">>, <<"seed">>, <<>>}

CountsOK == ban \in [Rules -> Nat] /\ factor \in [Rules -> Nat \ {0}]

ListsOK == \A a \in Addresses : \A r \in Rules : heap[a][r] \subseteq [Vars(r) -> Ids]

\* A rebuild would change nothing.
Settled == /\ Gone(canon) \subseteq cursor
           /\ ~Large => Tidy(rows, Gone(canon))

\* Only actions unsettle the database, and a step with an action ends with a rebuild.
PhaseOK ==
  /\ phase \in {"idle", "step"} /\ changed \in BOOLEAN /\ applied \in BOOLEAN /\ todo \in Todos
  /\ phase = "step" => calm = {} /\ (changed => applied)
  /\ phase = "idle" \/ ~changed => Settled

\* In a step that ran every query and has changed nothing, each match was run for or waits, and of the
\* rules the step has come to, only those that are banned or delayed have matches that wait.
StepOK ==
  phase = "step" /\ sought = Rules /\ ~changed /\ reader = writer =>
    \A r \in Rules :
      /\ MatchesIn(rows, r) \subseteq done[r] \cup lost[r] \cup heap[reader][r]
      /\ r \notin Range(todo) => heap[reader][r] = {} \/ ban[r] # 0 \/ ~(Nodes < NodeLimit)

CalmOK == calm = Rules /\ sought = Rules /\ reader = writer /\ Nodes < NodeLimit => RanForAll(Rules)

\* The clone is settled.
CloneSettled ==
  pushed # <<>> =>
    LET e == pushed[1]
    IN  /\ CanonOK(e.canon) /\ RowsOK(e.rows) /\ HoldFor(e.canon, e.done)
        /\ e.cursor \subseteq Gone(e.canon) /\ Gone(e.canon) \subseteq e.cursor
        /\ ~Large => Tidy(e.rows, Gone(e.canon))
        /\ e.ban \in [Rules -> Nat] /\ e.factor \in [Rules -> Nat \ {0}]

StopOK ==
  DatabaseOK /\ ListsOK /\ CountsOK /\ PhaseOK /\ StepOK /\ CalmOK /\ CloneSettled

\* What is left to do in a step.
LEMMA TodosAre ==
  /\ Order \in Todos /\ <<>> \in Todos /\ Range(Order) = Rules
  /\ \A q \in Todos : q # <<>> => /\ Tail(q) \in Todos /\ Head(q) \in Rules
                                  /\ Range(q) = Range(Tail(q)) \cup {Head(q)}
  /\ Range(<<>>) = {}
<1>1. Rules = {"compress", "knot", "seed"}
  BY AtomsOf
<1>2. Range(<<"compress", "knot", "seed">>) = {"compress", "knot", "seed"}
  BY DEF Range
<1>3. Range(<<"knot", "seed">>) = {"knot", "seed"}
  BY DEF Range
<1>4. Range(<<"seed">>) = {"seed"} /\ Range(<<>>) = {}
  BY DEF Range
<1>5. /\ Tail(<<"compress", "knot", "seed">>) = <<"knot", "seed">>
      /\ Tail(<<"knot", "seed">>) = <<"seed">> /\ Tail(<<"seed">>) = <<>>
  OBVIOUS
<1>6. /\ Head(<<"compress", "knot", "seed">>) = "compress"
      /\ Head(<<"knot", "seed">>) = "knot" /\ Head(<<"seed">>) = "seed"
  OBVIOUS
<1> QED
  BY <1>1, <1>2, <1>3, <1>4, <1>5, <1>6 DEF Todos, Order

\* A rebuild settles the database.
LEMMA RebuildSettles ==
  ASSUME NEW table, RowsOK(table), NEW c, CanonOK(c), NEW time, Rebuild(table, c, time)
  PROVE  /\ RowsOK(rows') /\ CanonOK(canon') /\ canon' = c /\ cursor' \subseteq Gone(canon')
         /\ Lower(table, rows') /\ Settled'
<1> DEFINE gone == {i \in Ids : c[i] # i}
<1>1. gone = Gone(c)
  BY DEF Gone
<1>2. PICK ids \in Sought(gone) : rows' = Rebuilt(table, c, ids, time)
  BY DEF Rebuild
<1>3. ASSUME ~Large PROVE Tidy(rows', Gone(c))
  <2>1. ids = gone
    BY <1>3 DEF Sought
  <2>2. Tidy(table, {})
    BY DEF Tidy, Mentions
  <2> QED
    BY <1>1, <1>2, <2>1, <2>2, RebuiltIs
<1>4. /\ RowsOK(rows') /\ Lower(table, rows') /\ canon' = c /\ cursor' = Gone(c)
  BY RebuildIs
<1> QED
  BY <1>3, <1>4 DEF Settled

\* What is settled stays as it is.
LEMMA RebuildOfSettled ==
  ASSUME RowsOK(rows), CanonOK(canon), Settled, NEW time, Rebuild(rows, canon, time)
  PROVE  rows' = rows /\ canon' = canon
<1> DEFINE gone == {i \in Ids : canon[i] # i}
<1>1. gone = Gone(canon)
  BY DEF Gone
<1>2. PICK ids \in Sought(gone) : rows' = Rebuilt(rows, canon, ids, time) /\ canon' = canon
  BY DEF Rebuild
<1>3. Tidy(rows, ids) /\ ids \subseteq Gone(canon)
  <2>1. CASE Large
    <3>1. ids = {}
      BY <1>1, <1>2, <2>1 DEF Sought, Settled
    <3> QED
      BY <3>1 DEF Tidy, Mentions
  <2>2. CASE ~Large
    BY <1>1, <1>2, <2>2 DEF Sought, Settled
  <2> QED
    BY <2>1, <2>2
<1> QED
  BY <1>2, <1>3, RebuiltIs

\* The number of rows is a number.
LEMMA NodesAreNat == ASSUME RowsOK(rows) PROVE Nodes \in Nat
<1>1. IsFiniteSet(0..MaxId)
  BY SemiNaiveAssumption, FS_Interval
<1>2. IsFiniteSet(DOMAIN rows)
  BY <1>1, FS_Subset DEF RowsOK, Ids
<1> QED
  BY <1>2, FS_CardinalityType DEF Nodes

\* The scheduler at first.
LEMMA StopStarts == SchedInit => StopOK
<1> SUFFICES ASSUME SchedInit PROVE StopOK
  OBVIOUS
<1>1. PlainOK /\ Init
  BY PlainStarts DEF SchedInit
<1>2. ListsOK /\ CountsOK /\ CloneSettled
  BY DEF SchedInit, ListsOK, CountsOK, CloneSettled, Addresses
<1>3. Settled
  <2>1. Gone(canon) = {} /\ Tidy(rows, {})
    BY <1>1 DEF Init, Gone, Tidy, Mentions
  <2> QED
    BY <2>1 DEF Settled
<1>4. PhaseOK /\ StepOK
  BY <1>3, TodosAre DEF SchedInit, PhaseOK, StepOK
<1>5. CalmOK
  BY <1>1, AtomsOf DEF Init, CalmOK
<1> QED
  BY <1>1, <1>2, <1>4, <1>5 DEF StopOK, PlainOK

\* A step asks first: every match was run for, or waits now.
LEMMA QueryStops ==
  ASSUME SeenInv, StopOK, scheduled, Query, UNCHANGED <<pushed, scheduled>>
  PROVE  StopOK'
<1> DEFINE rs == {r \in Rules : seek[r]}
           More(r) == heap[writer][r] \cup (IF r \in rs THEN Found(r, last[r]) ELSE {})
<1>1. /\ heap' = [heap EXCEPT ![writer] = [r \in Rules |-> More(r)]]
      /\ sought' = rs /\ todo' = Order /\ phase' = "step" /\ changed' = FALSE /\ applied' = FALSE
      /\ calm' = {} /\ phase = "idle"
      /\ UNCHANGED <<rows, canon, cursor, done, lost, reader, writer, ban, factor, pushed>>
  BY DEF Query, SeenInv, HeapOK
<1>2. TimesOK /\ heap \in [Addresses -> [Rules -> SUBSET Envs]] /\ reader \in Addresses /\ writer \in Addresses
  BY DEF SeenInv, HeapOK
<1>3. heap'[writer] = [r \in Rules |-> More(r)] /\ \A a \in Addresses : a # writer => heap'[a] = heap[a]
  BY <1>1, <1>2
<1>4. DatabaseOK' /\ CountsOK' /\ CloneSettled'
  BY <1>1 DEF StopOK, DatabaseOK, CountsOK, CloneSettled
<1>5. ListsOK'
  <2>1. \A r \in Rules : Found(r, last[r]) \subseteq MatchesIn(rows, r)
    BY FoundAre
  <2>2. \A r \in Rules : More(r) \subseteq [Vars(r) -> Ids]
    BY <1>2, <2>1 DEF StopOK, ListsOK, MatchesIn
  <2> HIDE DEF More
  <2> QED
    BY <1>3, <2>2 DEF StopOK, ListsOK
<1>6. Settled'
  BY <1>1 DEF StopOK, PhaseOK, Settled
<1>7. PhaseOK'
  BY <1>1, <1>6, TodosAre DEF PhaseOK
<1>8. StepOK'
  <2> SUFFICES ASSUME sought' = Rules, reader = writer, NEW r \in Rules
               PROVE  /\ MatchesIn(rows, r) \subseteq done[r] \cup lost[r] \cup heap'[reader][r]
                      /\ r \in Range(todo')
    BY <1>1 DEF StepOK
  <2>1. r \in Range(todo')
    BY <1>1, TodosAre
  <2>2. ASSUME NEW env \in MatchesIn(rows, r) PROVE env \in done[r] \cup lost[r] \cup heap'[reader][r]
    <3>1. heap'[reader][r] = More(r) /\ r \in rs
      BY <1>1, <1>3
    <3>2. CASE env \in Found(r, last[r])
      BY <3>1, <3>2
    <3>3. CASE last[r] > 0 /\ OldIn(rows, env, r, last[r])
      <4>1. SeenIn(rows, last, done, lost, heap[reader])
        BY DEF SeenInv
      <4>2. env \in done[r] \cup lost[r] \cup heap[reader][r]
        BY <3>3, <4>1 DEF SeenIn
      <4> QED
        BY <3>1, <4>2
    <3> QED
      BY <1>2, <3>2, <3>3, FoundOrOld
  <2> QED
    BY <2>1, <2>2
<1>9. CalmOK'
  <2>1. Rules # {}
    BY AtomsOf
  <2> QED
    BY <1>1, <2>1 DEF CalmOK
<1> QED
  BY <1>4, <1>5, <1>7, <1>8, <1>9 DEF StopOK

\* The verdict on a rule, its counts and its list.
LEMMA FilterIs ==
  ASSUME SeenInv, StopOK, Filter
  PROVE  \E r \in Rules :
           /\ todo # <<>> /\ r = Head(todo) /\ phase = "step"
           /\ Skip(r) \/ Apply(r)
           /\ heap'[reader][r] = Kept(r)
           /\ \A s \in Rules : s # r => heap'[reader][s] = heap[reader][s] /\ ban'[s] = ban[s]
           /\ \A a \in Addresses : a # reader => heap'[a] = heap[a]
           /\ CountsOK'
           /\ heap'[reader][r] = {} \/ ban'[r] # 0 \/ ~(Nodes < NodeLimit)
           /\ UNCHANGED <<sought, reader, writer>>
<1> DEFINE r == Head(todo)
<1>1. /\ phase = "step" /\ todo # <<>>
      /\ heap' = [heap EXCEPT ![reader][r] = Kept(r)]
      /\ Count(r) /\ (Skip(r) \/ Apply(r))
      /\ UNCHANGED <<sought, reader, writer>>
  BY DEF Filter
<1>2. r \in Rules
  BY <1>1, TodosAre DEF StopOK, PhaseOK
<1>3. ban \in [Rules -> Nat] /\ factor \in [Rules -> Nat \ {0}]
  BY DEF StopOK, CountsOK
<1>4. heap \in [Addresses -> [Rules -> SUBSET Envs]] /\ reader \in Addresses
  BY DEF SeenInv, HeapOK
<1> HIDE DEF r
<1>5. /\ heap'[reader][r] = Kept(r)
      /\ \A s \in Rules : s # r => heap'[reader][s] = heap[reader][s]
      /\ \A a \in Addresses : a # reader => heap'[a] = heap[a]
  BY <1>1, <1>2, <1>4
<1>6. /\ ban' = [ban EXCEPT ![r] = IF Verdict(r) = "ban" THEN BanLength * factor[r]
                                   ELSE IF ban[r] > 0 THEN ban[r] - 1 ELSE 0]
      /\ factor' = [factor EXCEPT ![r] = IF Verdict(r) = "ban" THEN 2 * factor[r] ELSE factor[r]]
  BY <1>1, <1>2, <1>3 DEF Count
<1>7. BanLength * factor[r] \in Nat \ {0} /\ 2 * factor[r] \in Nat \ {0}
  <2>1. PICK b \in Nat \ {0} : b = BanLength
    BY SchedulerAssumption
  <2>2. PICK f \in Nat \ {0} : f = factor[r]
    BY <1>2, <1>3
  <2>3. b * f \in Nat \ {0} /\ 2 * f \in Nat \ {0}
    OBVIOUS
  <2> QED
    BY <2>1, <2>2, <2>3
<1>8. CountsOK' /\ \A s \in Rules : s # r => ban'[s] = ban[s]
  BY <1>2, <1>3, <1>6, <1>7 DEF CountsOK
<1>9. heap'[reader][r] = {} \/ ban'[r] # 0 \/ ~(Nodes < NodeLimit)
  <2>1. CASE Verdict(r) = "all"
    BY <1>5, <2>1 DEF Kept
  <2>2. CASE Verdict(r) = "ban"
    BY <1>2, <1>3, <1>6, <1>7, <2>2
  <2>3. CASE ban[r] > 1
    <3>1. ban[r] \in Nat /\ Verdict(r) # "ban"
      BY <1>2, <1>3, <2>3 DEF Verdict
    <3> QED
      BY <1>2, <1>3, <1>6, <2>3, <3>1
  <2>4. CASE ~(ban[r] > 1) /\ Verdict(r) # "all" /\ Verdict(r) # "ban"
    <3>1. ban[r] <= 1
      BY <1>2, <1>3, <2>4
    <3>2. ~TooMany(r) /\ (~(Nodes >= NodeLimit) => Verdict(r) = "all")
      BY <1>2, <1>3, <2>4, <3>1 DEF Verdict
    <3>3. Nodes \in Nat /\ NodeLimit \in Nat
      BY NodesAreNat, SchedulerAssumption DEF StopOK, DatabaseOK
    <3> QED
      BY <2>4, <3>2, <3>3
  <2> QED
    BY <2>1, <2>2, <2>3, <2>4
<1> QED
  BY <1>1, <1>2, <1>5, <1>8, <1>9 DEF r

\* What an action writes, and how the step goes on or ends.
LEMMA ApplyIs ==
  ASSUME DatabaseOK, NEW r \in Rules, Apply(r), heap[reader][r] \subseteq [Vars(r) -> Ids], changed \in BOOLEAN
  PROVE  /\ DatabaseOK'
         /\ \E tried : Tried([s \in {r} |-> heap[reader][r]], tried)
         /\ \/ /\ todo' = Tail(todo) /\ applied' = TRUE /\ changed' \in BOOLEAN
               /\ ~changed' => ~changed /\ rows' = rows /\ canon' = canon
               /\ UNCHANGED <<cursor, phase, calm>>
            \/ Settled' /\ phase' = "idle" /\ todo' = <<>> /\ UNCHANGED <<calm, applied, changed>>
<1> DEFINE chosen == [s \in {r} |-> heap[reader][r]]
<1>1. CanonOK(canon) /\ RowsOK(rows) /\ cursor \subseteq Gone(canon)
  BY DEF DatabaseOK
<1>2. MatchSets(chosen)
  BY DEF MatchSets
<1>3. PICK tried \in Attempts(chosen) :
        /\ \/ /\ rows' = Written(tried, ts + 1) /\ canon' = United(tried)
              /\ todo' = Tail(todo) /\ applied' = TRUE
              /\ changed' = (changed \/ ~Same(Written(tried, ts + 1), United(tried)))
              /\ UNCHANGED <<cursor, phase, calm>>
           \/ Abort(Written(tried, ts + 1), United(tried))
        /\ Tried(chosen, tried)
  BY DEF Apply
<1> HIDE DEF chosen
<1>4. MatchSets(tried)
  BY <1>2, AttemptsAre DEF MatchSets
<1> DEFINE table == Written(tried, ts + 1)
           c == United(tried)
<1>5. RowsOK(table) /\ CanonOK(c) /\ Gone(canon) \subseteq Gone(c)
  BY <1>1, <1>4, WrittenIs, UnitedIs
<1>6. Lower(table, table)
  BY <1>5, IdsAreNats DEF Lower, RowsOK
<1> HIDE DEF table, c
<1>7. CASE /\ rows' = table /\ canon' = c
           /\ todo' = Tail(todo) /\ applied' = TRUE
           /\ changed' = (changed \/ ~Same(table, c))
           /\ UNCHANGED <<cursor, phase, calm>>
  <2>1. HoldFor(canon', done')
    BY <1>2, <1>3, <1>5, <1>6, <1>7, HoldAfterRun DEF table, c
  <2>2. DatabaseOK'
    BY <1>1, <1>5, <1>7, <2>1 DEF DatabaseOK
  <2>3. changed' \in BOOLEAN /\ (~changed' => ~changed /\ rows' = rows /\ canon' = canon)
    BY <1>7 DEF Same
  <2> QED
    BY <1>3, <1>7, <2>2, <2>3 DEF chosen
<1>8. CASE Abort(table, c)
  <2>1. Rebuild(table, c, ts + 1) /\ phase' = "idle" /\ todo' = <<>> /\ UNCHANGED <<calm, applied, changed>>
    BY <1>8 DEF Abort
  <2>2. /\ RowsOK(rows') /\ CanonOK(canon') /\ canon' = c /\ cursor' \subseteq Gone(canon')
        /\ Lower(table, rows') /\ Settled'
    BY <1>5, <2>1, RebuildSettles
  <2>3. HoldFor(canon', done')
    BY <1>2, <1>3, <2>2, HoldAfterRun DEF table, c
  <2>4. DatabaseOK'
    BY <2>2, <2>3 DEF DatabaseOK
  <2> QED
    BY <1>3, <2>1, <2>2, <2>4 DEF chosen
<1> QED
  BY <1>3, <1>7, <1>8 DEF table, c

\* A rule that is passed over has no match to run for, or keeps them all.
LEMMA SkipIs ==
  ASSUME NEW r, Skip(r)
  PROVE  /\ Kept(r) = heap[reader][r] /\ todo' = Tail(todo)
         /\ UNCHANGED <<rows, canon, cursor, done, lost, calm, phase, applied, changed>>
BY DEF Skip, Kept, vars

\* A step comes to a rule: its matches are run for or stay, and the rules before it keep theirs.
LEMMA FilterStops ==
  ASSUME SeenInv, StopOK, scheduled, Filter, UNCHANGED <<pushed, scheduled>>
  PROVE  StopOK'
<1>1. PICK r \in Rules :
        /\ todo # <<>> /\ r = Head(todo) /\ phase = "step"
        /\ Skip(r) \/ Apply(r)
        /\ heap'[reader][r] = Kept(r)
        /\ \A s \in Rules : s # r => heap'[reader][s] = heap[reader][s] /\ ban'[s] = ban[s]
        /\ \A a \in Addresses : a # reader => heap'[a] = heap[a]
        /\ CountsOK'
        /\ heap'[reader][r] = {} \/ ban'[r] # 0 \/ ~(Nodes < NodeLimit)
        /\ UNCHANGED <<sought, reader, writer>>
  BY FilterIs
<1>2. /\ DatabaseOK /\ ListsOK /\ PhaseOK /\ StepOK /\ CalmOK /\ CloneSettled
      /\ calm = {} /\ todo \in Todos /\ changed \in BOOLEAN /\ applied \in BOOLEAN /\ (changed => applied)
      /\ reader \in Addresses
  BY <1>1 DEF StopOK, PhaseOK, SeenInv, HeapOK
<1>3. Tail(todo) \in Todos /\ Range(todo) = Range(Tail(todo)) \cup {r} /\ <<>> \in Todos
  BY <1>1, <1>2, TodosAre
<1>4. CloneSettled'
  BY <1>2 DEF CloneSettled
<1>5. ListsOK'
  <2>1. Kept(r) \subseteq heap[reader][r]
    BY DEF Kept
  <2>2. \A s \in Rules : heap'[reader][s] \subseteq [Vars(s) -> Ids]
    BY <1>1, <1>2, <2>1 DEF ListsOK
  <2> QED
    BY <1>1, <1>2, <2>2 DEF ListsOK
<1>6. CASE Skip(r)
  <2>1. /\ Kept(r) = heap[reader][r] /\ todo' = Tail(todo)
        /\ UNCHANGED <<rows, canon, cursor, done, lost, calm, phase, applied, changed>>
    BY <1>6, SkipIs
  <2>2. DatabaseOK'
    BY <1>2, <2>1 DEF DatabaseOK
  <2>3. Settled' <=> Settled
    BY <2>1 DEF Settled
  <2>4. PhaseOK'
    BY <1>2, <1>3, <2>1, <2>3 DEF PhaseOK
  <2>5. StepOK'
    <3> SUFFICES ASSUME sought = Rules, ~changed, reader = writer, NEW s \in Rules
                 PROVE  /\ MatchesIn(rows, s) \subseteq done[s] \cup lost[s] \cup heap'[reader][s]
                        /\ s \notin Range(todo') => heap'[reader][s] = {} \/ ban'[s] # 0 \/ ~(Nodes < NodeLimit)
      BY <1>1, <2>1 DEF StepOK, Nodes
    <3>1. heap'[reader][s] = heap[reader][s]
      BY <1>1, <2>1
    <3>2. MatchesIn(rows, s) \subseteq done[s] \cup lost[s] \cup heap[reader][s]
      BY <1>1, <1>2 DEF StepOK
    <3>3. CASE s = r
      BY <1>1, <3>1, <3>2, <3>3
    <3>4. CASE s # r
      <4>1. s \notin Range(todo') => s \notin Range(todo)
        BY <1>3, <2>1, <3>4
      <4> QED
        BY <1>1, <1>2, <3>1, <3>2, <3>4, <4>1 DEF StepOK
    <3> QED
      BY <3>3, <3>4
  <2>6. CalmOK'
    BY <1>2, <2>1, AtomsOf DEF CalmOK
  <2> QED
    BY <1>1, <1>4, <1>5, <2>2, <2>4, <2>5, <2>6 DEF StopOK
<1>7. CASE Apply(r)
  <2>1. heap[reader][r] \subseteq [Vars(r) -> Ids]
    BY <1>2 DEF ListsOK
  <2>2. /\ DatabaseOK'
        /\ \E tried : Tried([s \in {r} |-> heap[reader][r]], tried)
        /\ \/ /\ todo' = Tail(todo) /\ applied' = TRUE /\ changed' \in BOOLEAN
              /\ ~changed' => ~changed /\ rows' = rows /\ canon' = canon
              /\ UNCHANGED <<cursor, phase, calm>>
           \/ Settled' /\ phase' = "idle" /\ todo' = <<>> /\ UNCHANGED <<calm, applied, changed>>
    BY <1>2, <1>7, <2>1, ApplyIs
  <2>3. PICK tried : Tried([s \in {r} |-> heap[reader][r]], tried)
    BY <2>2
  <2>4. CASE Settled' /\ phase' = "idle" /\ todo' = <<>> /\ UNCHANGED <<calm, applied, changed>>
    <3>1. PhaseOK'
      BY <1>2, <1>3, <2>4 DEF PhaseOK
    <3>2. StepOK' /\ CalmOK'
      BY <1>2, <2>4, AtomsOf DEF StepOK, CalmOK
    <3> QED
      BY <1>1, <1>4, <1>5, <2>2, <3>1, <3>2 DEF StopOK
  <2>5. CASE /\ todo' = Tail(todo) /\ applied' = TRUE /\ changed' \in BOOLEAN
             /\ ~changed' => ~changed /\ rows' = rows /\ canon' = canon
             /\ UNCHANGED <<cursor, phase, calm>>
    <3>1. ~changed' => Settled'
      BY <1>1, <1>2, <2>5 DEF PhaseOK, Settled
    <3>2. PhaseOK'
      BY <1>1, <1>2, <1>3, <2>5, <3>1 DEF PhaseOK
    <3>3. StepOK'
      <4> SUFFICES ASSUME sought = Rules, ~changed', reader = writer, NEW s \in Rules
                   PROVE  /\ MatchesIn(rows', s) \subseteq done'[s] \cup lost'[s] \cup heap'[reader][s]
                          /\ s \notin Range(todo') => heap'[reader][s] = {} \/ ban'[s] # 0 \/ ~(Nodes < NodeLimit)'
        BY <1>1 DEF StepOK
      <4>1. rows' = rows /\ ~changed /\ (Nodes' = Nodes)
        BY <2>5 DEF Nodes
      <4>2. ASSUME NEW env \in MatchesIn(rows', s) PROVE env \in done'[s] \cup lost'[s] \cup heap'[reader][s]
        <5>1. env \in done[s] \cup lost[s] \cup heap[reader][s]
          BY <1>1, <1>2, <4>1 DEF StepOK
        <5>2. CASE env \in done[s] \cup lost[s]
          BY <2>3, <5>2, TriedKeeps
        <5>3. CASE env \in heap[reader][s] /\ s = r
          BY <2>3, <5>3, TriedKeeps
        <5>4. CASE env \in heap[reader][s] /\ s # r
          BY <1>1, <5>4
        <5> QED
          BY <5>1, <5>2, <5>3, <5>4
      <4>3. ASSUME s \notin Range(todo') PROVE heap'[reader][s] = {} \/ ban'[s] # 0 \/ ~(Nodes < NodeLimit)
        <5>1. CASE s = r
          BY <1>1, <5>1
        <5>2. CASE s # r
          <6>1. s \notin Range(todo)
            BY <1>3, <2>5, <4>3, <5>2
          <6> QED
            BY <1>1, <1>2, <4>1, <5>2, <6>1 DEF StepOK
        <5> QED
          BY <5>1, <5>2
      <4> QED
        BY <4>1, <4>2, <4>3
    <3>4. CalmOK'
      BY <1>2, <2>5, AtomsOf DEF CalmOK
    <3> QED
      BY <1>1, <1>4, <1>5, <2>2, <3>2, <3>3, <3>4 DEF StopOK
  <2> QED
    BY <2>2, <2>4, <2>5
<1> QED
  BY <1>1, <1>6, <1>7

\* can_stop answers for settled rules only; the rebuild at the end of a step without effect has none.
LEMMA EndStops ==
  ASSUME SeenInv, StopOK, scheduled, EndStep, UNCHANGED <<pushed, scheduled>>
  PROVE  StopOK'
<1>1. /\ DatabaseOK /\ ListsOK /\ PhaseOK /\ StepOK /\ CountsOK /\ CloneSettled
      /\ RowsOK(rows) /\ CanonOK(canon) /\ cursor \subseteq Gone(canon) /\ HoldFor(canon, done)
  BY DEF StopOK, DatabaseOK
<1>2. /\ phase = "step" /\ todo = <<>> /\ phase' = "idle"
      /\ (applied /\ Rebuild(rows, canon, ts)) \/ (~applied /\ UNCHANGED <<rows, cursor, canon>>)
      /\ CanStop
      /\ \A r \in Rules : done'[r] = done[r] \cap Matches(r)' /\ lost'[r] = lost[r] \cap Matches(r)'
      /\ UNCHANGED <<sought, todo, applied, changed, heap, reader, writer>>
  BY DEF EndStep
<1>3. /\ RowsOK(rows') /\ CanonOK(canon') /\ canon' = canon /\ cursor' \subseteq Gone(canon') /\ Settled'
      /\ ~changed => rows' = rows
  <2>1. CASE applied /\ Rebuild(rows, canon, ts)
    <3>1. ~changed => rows' = rows
      BY <1>1, <2>1, RebuildOfSettled DEF PhaseOK
    <3> QED
      BY <1>1, <2>1, <3>1, RebuildSettles
  <2>2. CASE ~applied /\ UNCHANGED <<rows, cursor, canon>>
    <3>1. Settled
      BY <1>1, <1>2, <2>2 DEF PhaseOK
    <3> QED
      BY <1>1, <2>2, <3>1 DEF Settled
  <2> QED
    BY <1>2, <2>1, <2>2
<1>4. HoldFor(canon', done')
  BY <1>1, <1>2, <1>3, HoldAfterUnions
<1>5. DatabaseOK'
  BY <1>3, <1>4 DEF DatabaseOK
<1>6. /\ CountsOK'
      /\ \/ calm' = {}
         \/ ~changed /\ calm' = Rules /\ ~(Cardinality(DOMAIN rows') < NodeLimit)
         \/ ~changed /\ calm' = Rules /\ Banned = {}
  <2>1. ban \in [Rules -> Nat] /\ factor \in [Rules -> Nat \ {0}]
    BY <1>1 DEF CountsOK
  <2>2. CASE changed /\ calm' = {} /\ UNCHANGED <<ban, factor>>
    BY <2>1, <2>2 DEF CountsOK
  <2>3. CASE /\ ~changed /\ Cardinality(DOMAIN rows') >= NodeLimit
             /\ calm' = Rules
             /\ UNCHANGED <<ban, factor>>
    <3>1. ~(Cardinality(DOMAIN rows') < NodeLimit)
      <4>1. Cardinality(DOMAIN rows') \in Nat /\ NodeLimit \in Nat
        <5>1. rows' = rows
          BY <1>3, <2>3
        <5> QED
          BY <1>1, <5>1, NodesAreNat, SchedulerAssumption DEF Nodes
      <4> QED
        BY <2>3, <4>1
    <3> QED
      BY <2>1, <2>3, <3>1 DEF CountsOK
  <2>4. CASE /\ ~changed /\ Cardinality(DOMAIN rows') < NodeLimit
             /\ calm' = IF Banned = {} THEN Rules ELSE {}
             /\ ban' = [r \in Rules |-> IF r \in Banned THEN ban[r] - Min({ban[s] : s \in Banned}) ELSE 0]
             /\ factor' = [r \in Rules |-> IF r \in Banned THEN factor[r] ELSE 1]
    <3> DEFINE bans == {ban[s] : s \in Banned}
    <3>1. ASSUME NEW r \in Banned PROVE ban[r] - Min(bans) \in Nat
      <4>1. bans \in SUBSET Nat /\ bans # {} /\ ban[r] \in bans
        BY <2>1 DEF Banned
      <4> HIDE DEF bans
      <4>2. Min(bans) \in Nat /\ Min(bans) <= ban[r] /\ ban[r] \in Nat
        BY <4>1, MinIsLeast
      <4> QED
        BY <4>2
    <3> HIDE DEF bans
    <3>2. ban' \in [Rules -> Nat]
      BY <2>4, <3>1 DEF bans
    <3>3. factor' \in [Rules -> Nat \ {0}]
      BY <2>1, <2>4
    <3> QED
      BY <2>4, <3>2, <3>3 DEF CountsOK
  <2> QED
    BY <1>2, <2>2, <2>3, <2>4 DEF CanStop
<1>7. ListsOK' /\ CloneSettled'
  BY <1>1, <1>2 DEF ListsOK, CloneSettled
<1>8. PhaseOK'
  BY <1>1, <1>2, <1>3 DEF PhaseOK
<1>9. StepOK'
  BY <1>2 DEF StepOK
<1>10. CalmOK'
  <2> SUFFICES ASSUME calm' = Rules, sought = Rules, reader = writer, Cardinality(DOMAIN rows') < NodeLimit,
                      NEW r \in Rules, NEW env \in MatchesIn(rows', r)
               PROVE  env \in done'[r] \cup lost'[r]
    BY <1>2 DEF CalmOK, RanForAll, Nodes
  <2>1. ~changed /\ Banned = {}
    BY <1>6, AtomsOf
  <2>2. rows' = rows /\ ban[r] = 0
    BY <1>1, <1>3, <2>1 DEF Banned, CountsOK
  <2>3. heap[reader][r] = {}
    BY <1>1, <1>2, <2>1, <2>2, TodosAre DEF StepOK, Nodes
  <2>4. env \in done[r] \cup lost[r]
    BY <1>1, <1>2, <2>1, <2>2, <2>3 DEF StepOK
  <2> QED
    BY <1>2, <2>4, MatchesNext
<1> QED
  BY <1>5, <1>6, <1>7, <1>8, <1>9, <1>10 DEF StopOK

\* A command leaves a settled database settled.
LEMMA CommandSettles == ASSUME DatabaseOK, Settled, RunCommand PROVE Settled'
<1>1. PICK pairs, unions, gone :
        /\ pairs \in SUBSET (Ids \X Ids)
        /\ Command(pairs, unions, gone)
        /\ \A p \in pairs : p[1] \notin Gone(canon) /\ p[2] \notin Gone(canon)
  BY CommandIs
<1> DEFINE rest == Restrict(rows, DOMAIN rows \ gone)
           table == Put(rest, pairs, ts)
           c == Join(canon, unions)
<1>2. CanonOK(canon) /\ RowsOK(rows)
  BY DEF DatabaseOK
<1>3. RowsOK(rest) /\ DOMAIN rest = DOMAIN rows \ gone /\ \A k \in DOMAIN rest : rest[k] = rows[k]
  BY <1>2, RestrictIs
<1>4. RowsOK(table)
  BY <1>1, <1>3, PutIs
<1>5. CanonOK(c)
  BY <1>2, JoinIsCanon
<1>6. ASSUME ~Large PROVE Tidy(table, Gone(canon))
  <2>1. Tidy(rest, Gone(canon))
    BY <1>3, <1>6 DEF Settled, Tidy, Mentions
  <2> QED
    BY <1>1, <1>3, <2>1, PutIsTidy
<1>7. \/ \E time \in {ts, ts + 1} : Rebuild(table, c, time)
      \/ rows' = table /\ UNCHANGED <<canon, cursor>>
  BY <1>1 DEF Command
<1> HIDE DEF table, c
<1>8. CASE \E time \in {ts, ts + 1} : Rebuild(table, c, time)
  <2>1. PICK time \in {ts, ts + 1} : Rebuild(table, c, time)
    BY <1>8
  <2> QED
    BY <1>4, <1>5, <2>1, RebuildSettles
<1>9. CASE rows' = table /\ UNCHANGED <<canon, cursor>>
  BY <1>6, <1>9 DEF Settled
<1> QED
  BY <1>7, <1>8, <1>9

\* Commands between steps.
LEMMA CommandStops ==
  ASSUME StopOK, phase = "idle", RunCommand, UNCHANGED <<stepVars, infoVars, pushed>>
  PROVE  StopOK'
<1>1. /\ DatabaseOK /\ ListsOK /\ PhaseOK /\ CountsOK /\ CloneSettled /\ Settled /\ CanonOK(canon)
      /\ cursor \subseteq Gone(canon)
  BY DEF StopOK, PhaseOK, DatabaseOK
<1>2. /\ UNCHANGED <<sought, todo, phase, applied, changed>>
      /\ UNCHANGED <<heap, reader, writer, ban, factor, pushed>>
  BY DEF stepVars, infoVars
<1>3. DatabaseOK' /\ calm' = {}
  BY <1>1, CommandPlain
<1>4. Settled'
  BY <1>1, CommandSettles
<1>5. ListsOK' /\ CountsOK' /\ CloneSettled'
  BY <1>1, <1>2 DEF ListsOK, CountsOK, CloneSettled
<1>6. PhaseOK'
  BY <1>1, <1>2, <1>3, <1>4 DEF PhaseOK
<1>7. StepOK' /\ CalmOK'
  BY <1>2, <1>3, AtomsOf DEF StepOK, CalmOK
<1> QED
  BY <1>3, <1>5, <1>6, <1>7 DEF StopOK

\* push leaves the e-graph and its copy as they are.
LEMMA PushStops == ASSUME SeenInv, StopOK, scheduled, Push, UNCHANGED scheduled PROVE StopOK'
<1> DEFINE copy == 3 - writer
           e == pushed'[1]
<1>1. /\ phase = "idle"
      /\ heap' = [heap EXCEPT ![copy] = heap[writer]]
      /\ UNCHANGED <<rows, canon, cursor, done, lost, calm, reader, writer>>
      /\ UNCHANGED <<sought, todo, phase, applied, changed, ban, factor>>
  BY DEF Push, stepVars
<1>2. /\ e.rows = rows /\ e.canon = canon /\ e.cursor = cursor /\ e.done = done
      /\ e.ban = ban /\ e.factor = factor
  BY DEF Push
<1>3. /\ DatabaseOK /\ ListsOK /\ PhaseOK /\ CountsOK /\ CalmOK /\ Settled
      /\ heap \in [Addresses -> [Rules -> SUBSET Envs]] /\ writer \in Addresses
  BY <1>1 DEF StopOK, PhaseOK, SeenInv, HeapOK
<1> HIDE DEF copy, e
<1>4. DatabaseOK' /\ CountsOK' /\ CalmOK' /\ StepOK' /\ PhaseOK'
  <2>1. Settled' <=> Settled
    BY <1>1 DEF Settled
  <2> QED
    BY <1>1, <1>3, <2>1 DEF DatabaseOK, CountsOK, CalmOK, StepOK, PhaseOK, RanForAll, Nodes
<1>5. ListsOK'
  <2>1. \A a \in Addresses : heap'[a] = heap[a] \/ heap'[a] = heap[writer]
    BY <1>1, <1>3
  <2> QED
    BY <1>3, <2>1 DEF ListsOK
<1>6. CloneSettled'
  BY <1>2, <1>3 DEF CloneSettled, DatabaseOK, Settled, CountsOK, e
<1> QED
  BY <1>4, <1>5, <1>6 DEF StopOK

\* pop brings back a settled database, and no report.
LEMMA PopStops == ASSUME SeenInv, StopOK, scheduled, Pop, UNCHANGED scheduled PROVE StopOK'
<1> DEFINE e == pushed[1]
<1>1. /\ phase = "idle" /\ pushed # <<>>
      /\ rows' = e.rows /\ canon' = e.canon /\ cursor' = e.cursor /\ done' = e.done
      /\ ban' = e.ban /\ factor' = e.factor /\ calm' = {} /\ pushed' = <<>> /\ heap' = heap
      /\ UNCHANGED <<sought, todo, phase, applied, changed>>
  BY DEF Pop, stepVars
<1>2. /\ CanonOK(e.canon) /\ RowsOK(e.rows) /\ HoldFor(e.canon, e.done)
      /\ e.cursor \subseteq Gone(e.canon) /\ Gone(e.canon) \subseteq e.cursor
      /\ ~Large => Tidy(e.rows, Gone(e.canon))
      /\ e.ban \in [Rules -> Nat] /\ e.factor \in [Rules -> Nat \ {0}]
  BY <1>1 DEF StopOK, CloneSettled
<1> HIDE DEF e
<1>3. DatabaseOK' /\ CountsOK' /\ Settled'
  BY <1>1, <1>2 DEF DatabaseOK, CountsOK, Settled
<1>4. PhaseOK'
  BY <1>1, <1>3 DEF StopOK, PhaseOK
<1>5. ListsOK' /\ StepOK' /\ CalmOK' /\ CloneSettled'
  BY <1>1, AtomsOf DEF StopOK, ListsOK, StepOK, CalmOK, CloneSettled
<1> QED
  BY <1>3, <1>4, <1>5 DEF StopOK

-----------------------------------------------------------------------------
(* Saturation, with and without a scheduler *)

DatabaseInv == IF scheduled THEN StopOK ELSE PlainOK

\* Every step keeps the invariants.
LEMMA DatabaseNext == SeenInv /\ DatabaseInv /\ [SchedNext]_<<vars, schedVars>> => DatabaseInv'
<1> SUFFICES ASSUME SeenInv, DatabaseInv, [SchedNext]_<<vars, schedVars>> PROVE DatabaseInv'
  OBVIOUS
<1>1. CASE ~scheduled /\ Next /\ UNCHANGED schedVars
  <2>1. ~scheduled'
    BY <1>1 DEF schedVars
  <2>2. PlainOK'
    BY <1>1, PlainStays DEF SeenInv, DatabaseInv
  <2> QED
    BY <2>1, <2>2 DEF DatabaseInv
<1>2. CASE scheduled /\ Query /\ UNCHANGED <<pushed, scheduled>>
  BY <1>2, QueryStops DEF DatabaseInv
<1>3. CASE scheduled /\ Filter /\ UNCHANGED <<pushed, scheduled>>
  BY <1>3, FilterStops DEF DatabaseInv
<1>4. CASE scheduled /\ EndStep /\ UNCHANGED <<pushed, scheduled>>
  BY <1>4, EndStops DEF DatabaseInv
<1>5. CASE /\ scheduled /\ phase = "idle" /\ RunCommand
           /\ UNCHANGED <<stepVars, infoVars, pushed>> /\ UNCHANGED scheduled
  BY <1>5, CommandStops DEF DatabaseInv
<1>6. CASE scheduled /\ (Push \/ Pop) /\ UNCHANGED scheduled
  BY <1>6, PushStops, PopStops DEF DatabaseInv
<1>7. CASE UNCHANGED <<vars, schedVars>>
  <2>1. UNCHANGED <<rows, canon, cursor, owed, calm, done, lost, scheduled>>
    BY <1>7 DEF vars, schedVars
  <2>2. UNCHANGED <<sought, todo, phase, applied, changed, heap, reader, writer, ban, factor, pushed>>
    BY <1>7 DEF schedVars, stepVars, infoVars
  <2>3. DatabaseOK' <=> DatabaseOK
    BY <2>1 DEF DatabaseOK
  <2>4. CASE ~scheduled
    BY <2>1, <2>3, <2>4 DEF DatabaseInv, PlainOK, RowsTidy, RanForAll
  <2>5. CASE scheduled
    <3>1. StopOK
      BY <2>5 DEF DatabaseInv
    <3>2. Settled' <=> Settled
      BY <2>1 DEF Settled
    <3>3. ListsOK' /\ CountsOK' /\ PhaseOK'
      BY <2>1, <2>2, <3>1, <3>2 DEF StopOK, ListsOK, CountsOK, PhaseOK
    <3>4. StepOK' /\ CalmOK' /\ CloneSettled'
      BY <2>1, <2>2, <3>1 DEF StopOK, StepOK, CalmOK, CloneSettled, RanForAll, Nodes
    <3> QED
      BY <2>1, <2>3, <2>5, <3>1, <3>3, <3>4 DEF DatabaseInv, StopOK
  <2> QED
    BY <2>4, <2>5
<1> QED
  BY <1>1, <1>2, <1>3, <1>4, <1>5, <1>6, <1>7 DEF SchedNext

\* The union-find maps each id to the least of its class, the rows are those a rebuild leaves, what the
\* rules were run for holds, and what is calm was run for all there is.
THEOREM DatabaseHolds == SchedSpec => [](SeenInv /\ DatabaseInv)
<1>1. SchedInit => DatabaseInv
  BY PlainStarts, StopStarts DEF SchedInit, DatabaseInv
<1> QED
  BY <1>1, OldIsSeen, DatabaseNext, PTL DEF SchedSpec

\* (saturate ...) may stop after an iteration to no effect: every rule then holds of the database, and
\* no row mentions a displaced id unless a rebuild is owed.
THEOREM SaturationIsFixpoint == SchedSpec => []SaturatedIsRight
<1>1. ASSUME DatabaseInv, ~scheduled PROVE (calm = Rules => Closed) /\ (~owed => Canonical)
  <2>1. PlainOK
    BY <1>1 DEF DatabaseInv
  <2>2. calm = Rules => Closed
    BY <2>1, RunForAllIsClosed DEF PlainOK, RanForAll
  <2>3. ~owed => Canonical
    BY <2>1 DEF PlainOK, RowsTidy, Tidy, Canonical, Displaced, Gone
  <2> QED
    BY <2>2, <2>3
<1>2. DatabaseInv => SaturatedIsRight
  BY <1>1 DEF SaturatedIsRight, SaturatedIsFixpoint, RowsCanonical
<1> QED
  BY <1>2, DatabaseHolds, PTL

\* A scheduler drops no match it holds back, whatever it bans, and a step that ran every query and says
\* that the schedule can stop leaves a database that every rule holds of, for those matches too.
THEOREM HeldBackMatchesCount == SchedSpec => []MatchesAreKept
<1>1. SeenInv => NoMatchDropped
  BY SeenNow DEF SeenInv, NoMatchDropped
<1>2. ASSUME DatabaseInv PROVE StopAfterSeeking
  <2> SUFFICES ASSUME scheduled, calm = Rules, Nodes < NodeLimit, sought = Rules, reader = writer
               PROVE  Closed
    BY DEF StopAfterSeeking
  <2>1. DatabaseOK /\ RanForAll(Rules)
    BY <1>2 DEF DatabaseInv, StopOK, CalmOK
  <2> QED
    BY <2>1, RunForAllIsClosed DEF RanForAll
<1> QED
  BY <1>1, <1>2, DatabaseHolds, PTL DEF MatchesAreKept

-----------------------------------------------------------------------------
(* The driver: what each pass over a command keeps and adds, for its first k *)
(* steps, and from it the invariant of the e-graph and the batch.           *)

IsGraph(g) ==
  DOMAIN g = {"sorts", "sigs", "globals", "bindings", "names", "functions", "next", "globalTable",
              "rows", "globalRows", "want", "refused"}

\* Tables have numbers of their own, and only tables that exist have rows.
TablesOK(g) ==
  /\ g.next \in Nat
  /\ \A f \in DOMAIN g.functions : g.functions[f].table \in Nat /\ g.functions[f].table < g.next
  /\ \A f, h \in DOMAIN g.functions : g.functions[f].table = g.functions[h].table => f = h
  /\ \A row \in g.rows : row \in Nat /\ row < g.next

\* What has a table was typechecked and named, what is bound was named, and no name is bound twice.
NamesOK(g) ==
  /\ DOMAIN g.functions \subseteq DOMAIN g.sigs \cap g.names
  /\ g.bindings \subseteq g.names
  /\ g.sorts \cap DOMAIN g.sigs = {}
  /\ DOMAIN g.functions \cap g.bindings = {}

\* What DeclaredIsUsable says of an e-graph.
UsableOK(g) ==
  /\ \A f \in DOMAIN g.sigs \ g.refused :
       f \in DOMAIN g.functions /\ g.functions[f].arity = g.sigs[f].args
  /\ g.globals \ g.refused \subseteq g.bindings

GraphOK(g) == IsGraph(g) /\ TablesOK(g) /\ NamesOK(g) /\ UsableOK(g)

\* With rows in these tables too, the e-graph has those it should have.
WantIs(g, more) == {f \in DOMAIN g.functions : g.functions[f].table \in g.rows \cup more} = g.want

\* The snapshots.
PushedOK == \E S : snapshots \in Seq(S) /\ \A g \in S : GraphOK(g) /\ WantIs(g, {})

FEInv ==
  /\ GraphOK(egraph)
  /\ pending \in Seq(Nat) /\ WantIs(egraph, F!ToSet(pending))
  /\ F!CacheIsCurrent
  /\ panicked \in egraph.refused \cup {None}
  /\ PushedOK

-----------------------------------------------------------------------------
(* Typechecking *)

\* What a command is desugared into.
IsCommand(cs) ==
  /\ DOMAIN cs \subseteq {1, 2, 3}
  /\ \A i \in DOMAIN cs : cs[i].kind \in {"sort", "function", "let"}

Funs(cs) == {cs[i].name : i \in {i \in DOMAIN cs : cs[i].kind = "function"}}
NamesOf(cs) == {cs[i].name : i \in DOMAIN cs}

\* The fields that passes of resolving leave alone.
SameTables(g, h) ==
  /\ h.functions = g.functions /\ h.next = g.next /\ h.rows = g.rows
  /\ h.want = g.want /\ h.refused = g.refused /\ h.bindings = g.bindings

\* Typechecking changes the signatures of the functions and adds sorts and globals.
Typed(g, h, cs) ==
  /\ IsGraph(h) /\ SameTables(g, h) /\ h.names = g.names
  /\ DOMAIN g.sigs \subseteq DOMAIN h.sigs
  /\ \A f \in DOMAIN h.sigs \ Funs(cs) : f \in DOMAIN g.sigs /\ h.sigs[f] = g.sigs[f]
  /\ h.sorts \cap DOMAIN h.sigs = {}
  /\ h.globals \subseteq g.globals \cup F!Lets(cs)

\* The functions among the first k commands have the signatures they were declared with.
TypedTo(h, cs, k) ==
  \A i \in DOMAIN cs : i <= k /\ cs[i].kind = "function"
    => cs[i].name \in DOMAIN h.sigs /\ h.sigs[cs[i].name] = cs[i].sig

AfterTyping(g, o, cs, k) ==
  Typed(g, o.g, cs) /\ o.panic = None /\ (o.ok => TypedTo(o.g, cs, k))

\* An outcome by its parts.
LEMMA OutcomesAre ==
  /\ \A g : F!Done(g).ok = TRUE /\ F!Done(g).g = g /\ F!Done(g).panic = None
  /\ \A g : F!Refused(g).ok = FALSE /\ F!Refused(g).g = g /\ F!Refused(g).panic = None
  /\ \A g, n : F!Panics(g, n).ok = FALSE /\ F!Panics(g, n).g = g /\ F!Panics(g, n).panic = n
BY DEF F!Done, F!Refused, F!Panics

\* Typechecking one command.
LEMMA TypeStep ==
  ASSUME NEW g, NEW h, NEW cs, IsCommand(cs), NEW i \in DOMAIN cs, Typed(g, h, cs), TypedTo(h, cs, i - 1)
  PROVE  AfterTyping(g, F!Typecheck(h, cs[i]), cs, i)
<1> DEFINE c == cs[i]
           o == F!Typecheck(h, c)
<1>0. i \in {1, 2, 3} /\ DOMAIN cs \subseteq {1, 2, 3} /\ c.kind \in {"sort", "function", "let"}
  BY DEF IsCommand
<1>1. CASE c.kind = "sort"
  <2>1. o.panic = None /\ o.g \in {h, [h EXCEPT !.sorts = @ \cup {c.name}]}
    BY <1>1, OutcomesAre DEF F!Typecheck, F!Outcome
  <2>2. CASE c.name \in DOMAIN h.sigs
    <3>1. o.g = h /\ ~o.ok
      BY <1>1, <2>2, OutcomesAre DEF F!Typecheck, F!Outcome
    <3> QED
      BY <2>1, <3>1 DEF AfterTyping
  <2>3. CASE c.name \notin DOMAIN h.sigs
    <3>1. o.g = [h EXCEPT !.sorts = @ \cup {c.name}]
      BY <1>1, <2>3, OutcomesAre DEF F!Typecheck, F!Outcome
    <3> HIDE DEF o
    <3>2. /\ IsGraph(o.g) /\ o.g.sorts = h.sorts \cup {c.name} /\ o.g.sigs = h.sigs /\ o.g.globals = h.globals
          /\ o.g.names = h.names /\ SameTables(h, o.g)
      BY <3>1 DEF Typed, IsGraph, SameTables
    <3>3. Typed(g, o.g, cs)
      BY <2>3, <3>2 DEF Typed, SameTables
    <3>4. TypedTo(o.g, cs, i)
      BY <1>0, <1>1, <3>2 DEF TypedTo
    <3> QED
      BY <2>1, <3>3, <3>4 DEF AfterTyping, o
  <2> QED
    BY <2>2, <2>3
<1>2. CASE c.kind = "function"
  <2>1. CASE c.name \in h.sorts \/ c.sig.args = F!Undefined \/ c.sig.out \notin h.sorts
    <3>1. o.g = h /\ ~o.ok /\ o.panic = None
      BY <1>2, <2>1, OutcomesAre DEF F!Typecheck
    <3> QED
      BY <3>1 DEF AfterTyping
  <2>2. CASE ~(c.name \in h.sorts \/ c.sig.args = F!Undefined \/ c.sig.out \notin h.sorts)
    <3>1. /\ o.g = [h EXCEPT !.sigs = F!With(@, c.name, c.sig)] /\ o.panic = None
          /\ o.ok => c.name \notin DOMAIN h.sigs
      BY <1>2, <2>2, OutcomesAre DEF F!Typecheck, F!Outcome
    <3> HIDE DEF o
    <3>2. /\ IsGraph(o.g) /\ o.g.sigs = F!With(h.sigs, c.name, c.sig) /\ o.g.sorts = h.sorts
          /\ o.g.globals = h.globals /\ o.g.names = h.names /\ SameTables(h, o.g)
      BY <3>1 DEF Typed, IsGraph, SameTables
    <3>3. /\ DOMAIN o.g.sigs = DOMAIN h.sigs \cup {c.name} /\ o.g.sigs[c.name] = c.sig
          /\ \A z \in DOMAIN h.sigs : z # c.name => o.g.sigs[z] = h.sigs[z]
      BY <3>2 DEF F!With
    <3>4. c.name \in Funs(cs)
      BY <1>2 DEF Funs
    <3>5. Typed(g, o.g, cs)
      BY <2>2, <3>2, <3>3, <3>4 DEF Typed, SameTables
    <3>6. o.ok => TypedTo(o.g, cs, i)
      BY <1>0, <3>1, <3>3 DEF TypedTo
    <3> QED
      BY <3>1, <3>5, <3>6 DEF AfterTyping, o
  <2> QED
    BY <2>1, <2>2
<1>3. CASE c.kind = "let"
  <2>1. o.g = [h EXCEPT !.globals = @ \cup {c.name}] /\ o.panic = None
    BY <1>3, OutcomesAre DEF F!Typecheck
  <2> HIDE DEF o
  <2>2. /\ IsGraph(o.g) /\ o.g.globals = h.globals \cup {c.name} /\ o.g.sigs = h.sigs /\ o.g.sorts = h.sorts
        /\ o.g.names = h.names /\ SameTables(h, o.g)
    BY <2>1 DEF Typed, IsGraph, SameTables
  <2>3. c.name \in F!Lets(cs)
    BY <1>3 DEF F!Lets
  <2>4. Typed(g, o.g, cs)
    BY <2>2, <2>3 DEF Typed, SameTables
  <2>5. TypedTo(o.g, cs, i)
    BY <1>0, <1>3, <2>2 DEF TypedTo
  <2> QED
    BY <2>1, <2>4, <2>5 DEF AfterTyping, o
<1> QED
  BY <1>0, <1>1, <1>2, <1>3

\* Typechecking the k-th command, if it comes to it.
LEMMA TypeThen ==
  ASSUME NEW g, NEW o, NEW cs, IsCommand(cs), NEW k \in {1, 2, 3}, AfterTyping(g, o, cs, k - 1)
  PROVE  AfterTyping(g, F!Then(F!Typecheck, o, cs, k), cs, k)
<1>1. CASE o.ok /\ k \in DOMAIN cs
  <2>1. F!Then(F!Typecheck, o, cs, k) = F!Typecheck(o.g, cs[k])
    BY <1>1 DEF F!Then
  <2> QED
    BY <1>1, <2>1, TypeStep DEF AfterTyping
<1>2. CASE ~(o.ok /\ k \in DOMAIN cs)
  <2>1. F!Then(F!Typecheck, o, cs, k) = o
    BY <1>2 DEF F!Then
  <2>2. DOMAIN cs \subseteq {1, 2, 3}
    BY DEF IsCommand
  <2>3. o.ok => TypedTo(o.g, cs, k)
    <3> SUFFICES ASSUME o.ok, NEW i \in DOMAIN cs, i <= k, cs[i].kind = "function"
                 PROVE  cs[i].name \in DOMAIN o.g.sigs /\ o.g.sigs[cs[i].name] = cs[i].sig
      BY DEF TypedTo
    <3>1. i <= k - 1
      BY <1>2, <2>2
    <3> QED
      BY <3>1 DEF AfterTyping, TypedTo
  <2> QED
    BY <2>1, <2>3 DEF AfterTyping
<1> QED
  BY <1>1, <1>2

\* Typechecking.
LEMMA TypePass ==
  ASSUME NEW g, GraphOK(g), NEW cs, IsCommand(cs)
  PROVE  AfterTyping(g, F!Pass(F!Typecheck, F!Done(g), cs), cs, 3)
<1>1. AfterTyping(g, F!Done(g), cs, 0)
  <2>1. Typed(g, g, cs)
    BY DEF GraphOK, NamesOK, Typed, SameTables
  <2>2. TypedTo(g, cs, 0)
    BY DEF TypedTo, IsCommand
  <2> QED
    BY <2>1, <2>2, OutcomesAre DEF AfterTyping
<1>2. PICK o1 : o1 = F!Then(F!Typecheck, F!Done(g), cs, 1)
  OBVIOUS
<1>3. PICK o2 : o2 = F!Then(F!Typecheck, o1, cs, 2)
  OBVIOUS
<1>4. AfterTyping(g, o1, cs, 1)
  <2>1. AfterTyping(g, F!Done(g), cs, 1 - 1)
    BY <1>1
  <2> QED
    BY <1>2, <2>1, TypeThen
<1>5. AfterTyping(g, o2, cs, 2)
  <2>1. AfterTyping(g, o1, cs, 2 - 1)
    BY <1>4
  <2> QED
    BY <1>3, <2>1, TypeThen
<1>6. AfterTyping(g, F!Then(F!Typecheck, o2, cs, 3), cs, 3)
  <2>1. AfterTyping(g, o2, cs, 3 - 1)
    BY <1>5
  <2> QED
    BY <2>1, TypeThen
<1>7. F!Pass(F!Typecheck, F!Done(g), cs) = F!Then(F!Typecheck, o2, cs, 3)
  BY <1>2, <1>3 DEF F!Pass
<1> QED
  BY <1>6, <1>7

-----------------------------------------------------------------------------
(* Shadowing *)

Shadowed(h, n, cs) ==
  /\ IsGraph(n) /\ SameTables(h, n) /\ n.sigs = h.sigs /\ n.sorts = h.sorts /\ n.globals = h.globals
  /\ h.names \subseteq n.names

\* The first k names are new, and no two are the same.
NewTo(h, n, cs, k) ==
  \A i \in DOMAIN cs : i <= k =>
    /\ cs[i].name \notin h.names /\ cs[i].name \in n.names
    /\ \A j \in DOMAIN cs : j < i => cs[j].name # cs[i].name

AfterShadowing(h, o, cs, k) ==
  Shadowed(h, o.g, cs) /\ o.panic = None /\ (o.ok => NewTo(h, o.g, cs, k))

\* Checking one name.
LEMMA ShadowStep ==
  ASSUME NEW h, NEW n, NEW cs, IsCommand(cs), NEW i \in DOMAIN cs, Shadowed(h, n, cs), NewTo(h, n, cs, i - 1)
  PROVE  AfterShadowing(h, F!CheckShadowing(n, cs[i]), cs, i)
<1> DEFINE o == F!CheckShadowing(n, cs[i])
<1>1. /\ o.g = [n EXCEPT !.names = @ \cup {cs[i].name}] /\ o.panic = None
      /\ o.ok => cs[i].name \notin n.names
  BY OutcomesAre DEF F!CheckShadowing, F!Outcome
<1> HIDE DEF o
<1>2. /\ IsGraph(o.g) /\ o.g.names = n.names \cup {cs[i].name} /\ SameTables(n, o.g)
      /\ o.g.sigs = n.sigs /\ o.g.sorts = n.sorts /\ o.g.globals = n.globals
  BY <1>1 DEF Shadowed, IsGraph, SameTables
<1>3. Shadowed(h, o.g, cs)
  BY <1>2 DEF Shadowed, SameTables
<1>4. ASSUME o.ok PROVE NewTo(h, o.g, cs, i)
  <2>1. DOMAIN cs \subseteq {1, 2, 3}
    BY DEF IsCommand
  <2>2. ASSUME NEW j \in DOMAIN cs, j < i PROVE cs[j].name # cs[i].name /\ cs[j].name \in n.names
    <3>1. j <= i - 1
      BY <2>1, <2>2
    <3> QED
      BY <1>1, <1>4, <3>1 DEF NewTo
  <2>3. cs[i].name \notin h.names
    BY <1>1, <1>4 DEF Shadowed
  <2>4. \A j \in DOMAIN cs : j <= i => j = i \/ j <= i - 1
    BY <2>1
  <2> QED
    BY <1>2, <2>2, <2>3, <2>4 DEF NewTo
<1> QED
  BY <1>1, <1>3, <1>4 DEF AfterShadowing, o

\* Checking the k-th name, if it comes to it.
LEMMA ShadowThen ==
  ASSUME NEW h, NEW o, NEW cs, IsCommand(cs), NEW k \in {1, 2, 3}, AfterShadowing(h, o, cs, k - 1)
  PROVE  AfterShadowing(h, F!Then(F!CheckShadowing, o, cs, k), cs, k)
<1>1. CASE o.ok /\ k \in DOMAIN cs
  <2>1. F!Then(F!CheckShadowing, o, cs, k) = F!CheckShadowing(o.g, cs[k])
    BY <1>1 DEF F!Then
  <2> QED
    BY <1>1, <2>1, ShadowStep DEF AfterShadowing
<1>2. CASE ~(o.ok /\ k \in DOMAIN cs)
  <2>1. F!Then(F!CheckShadowing, o, cs, k) = o
    BY <1>2 DEF F!Then
  <2>2. ASSUME o.ok PROVE \A i \in DOMAIN cs : i <= k => i <= k - 1
    BY <1>2, <2>2 DEF IsCommand
  <2>3. o.ok => NewTo(h, o.g, cs, k)
    BY <2>2 DEF AfterShadowing, NewTo
  <2> QED
    BY <2>1, <2>3 DEF AfterShadowing
<1> QED
  BY <1>1, <1>2

\* Checking the names, after typechecking, unless that refused.
LEMMA ShadowPass ==
  ASSUME NEW t, IsGraph(t.g), t.panic = None, NEW cs, IsCommand(cs)
  PROVE  LET o == F!Pass(F!CheckShadowing, t, cs)
         IN  /\ AfterShadowing(t.g, o, cs, 3)
             /\ o.ok => t.ok
<1>1. AfterShadowing(t.g, t, cs, 0)
  <2>1. Shadowed(t.g, t.g, cs)
    BY DEF Shadowed, SameTables
  <2>2. NewTo(t.g, t.g, cs, 0)
    BY DEF NewTo, IsCommand
  <2> QED
    BY <2>1, <2>2 DEF AfterShadowing
<1>2. PICK o1 : o1 = F!Then(F!CheckShadowing, t, cs, 1)
  OBVIOUS
<1>3. PICK o2 : o2 = F!Then(F!CheckShadowing, o1, cs, 2)
  OBVIOUS
<1>4. PICK o3 : o3 = F!Then(F!CheckShadowing, o2, cs, 3)
  OBVIOUS
<1>5. AfterShadowing(t.g, o1, cs, 1)
  <2>1. AfterShadowing(t.g, t, cs, 1 - 1)
    BY <1>1
  <2> QED
    BY <1>2, <2>1, ShadowThen
<1>6. AfterShadowing(t.g, o2, cs, 2)
  <2>1. AfterShadowing(t.g, o1, cs, 2 - 1)
    BY <1>5
  <2> QED
    BY <1>3, <2>1, ShadowThen
<1>7. AfterShadowing(t.g, o3, cs, 3)
  <2>1. AfterShadowing(t.g, o2, cs, 3 - 1)
    BY <1>6
  <2> QED
    BY <1>4, <2>1, ShadowThen
<1>8. o3.ok => t.ok
  BY <1>2, <1>3, <1>4 DEF F!Then
<1>9. F!Pass(F!CheckShadowing, t, cs) = o3
  BY <1>2, <1>3, <1>4 DEF F!Pass
<1> QED
  BY <1>7, <1>8, <1>9

-----------------------------------------------------------------------------
(* Running declarations *)

\* The names of a command are of no function, and no two are the same.
FreshIn(b, cs) ==
  \A i \in DOMAIN cs :
    /\ cs[i].name \notin DOMAIN b.functions
    /\ \A j \in DOMAIN cs : j < i => cs[j].name # cs[i].name

\* The functions that are new are among the first k.
AddedTo(b, h, cs, k) ==
  \A f \in DOMAIN h.functions \ DOMAIN b.functions :
    /\ h.functions[f].table >= b.next
    /\ \E i \in DOMAIN cs : i <= k /\ cs[i].kind = "function" /\ cs[i].name = f

\* Running declarations adds tables.
Ran(b, h, cs, k) ==
  /\ IsGraph(h) /\ TablesOK(h) /\ b.next \in Nat /\ b.next <= h.next
  /\ h.sigs = b.sigs /\ h.sorts = b.sorts /\ h.globals = b.globals /\ h.bindings = b.bindings
  /\ h.names = b.names /\ h.rows = b.rows /\ h.want = b.want /\ h.refused = b.refused
  /\ DOMAIN b.functions \subseteq DOMAIN h.functions
  /\ \A f \in DOMAIN b.functions : h.functions[f] = b.functions[f]
  /\ AddedTo(b, h, cs, k)

RanTo(h, cs, k) ==
  \A i \in DOMAIN cs : i <= k /\ cs[i].kind = "function"
    => cs[i].name \in DOMAIN h.functions /\ h.functions[cs[i].name].arity = cs[i].sig.args

AfterRunning(b, o, cs, k) ==
  Ran(b, o.g, cs, k) /\ o.panic = None /\ (o.ok => RanTo(o.g, cs, k))

\* Running the declaration of a function.
LEMMA FunctionStep ==
  ASSUME NEW b, NEW h, NEW cs, IsCommand(cs), FreshIn(b, cs), NEW i \in DOMAIN cs,
         Ran(b, h, cs, i - 1), RanTo(h, cs, i - 1), cs[i].kind = "function"
  PROVE  AfterRunning(b, F!RunDeclaration(h, cs[i]), cs, i)
<1> DEFINE c == cs[i]
           o == F!RunDeclaration(h, c)
           entry == [table |-> h.next, arity |-> c.sig.args]
<1>0. i \in {1, 2, 3} /\ DOMAIN cs \subseteq {1, 2, 3}
  BY DEF IsCommand
<1>1. c.name \notin DOMAIN h.functions
  <2> SUFFICES ASSUME c.name \in DOMAIN h.functions PROVE FALSE
    OBVIOUS
  <2>1. c.name \notin DOMAIN b.functions
    BY DEF FreshIn
  <2>2. PICK j \in DOMAIN cs : j <= i - 1 /\ cs[j].name = c.name
    BY <2>1 DEF Ran, AddedTo
  <2>3. j < i
    BY <1>0, <2>2
  <2> QED
    BY <2>2, <2>3 DEF FreshIn
<1>2. /\ o.g = [h EXCEPT !.functions = F!With(@, c.name, [table |-> h.next, arity |-> c.sig.args]), !.next = @ + 1]
      /\ o.panic = None
  BY <1>1, OutcomesAre DEF F!RunDeclaration
<1> HIDE DEF o
<1>3. /\ IsGraph(o.g) /\ o.g.functions = F!With(h.functions, c.name, entry) /\ o.g.next = h.next + 1
      /\ o.g.sigs = h.sigs /\ o.g.sorts = h.sorts /\ o.g.globals = h.globals /\ o.g.bindings = h.bindings
      /\ o.g.names = h.names /\ o.g.rows = h.rows /\ o.g.want = h.want /\ o.g.refused = h.refused
  BY <1>2 DEF Ran, IsGraph
<1>4. entry.table = h.next /\ entry.arity = c.sig.args
  OBVIOUS
<1> HIDE DEF entry
<1>5. /\ DOMAIN o.g.functions = DOMAIN h.functions \cup {c.name} /\ o.g.functions[c.name] = entry
      /\ \A f \in DOMAIN h.functions : o.g.functions[f] = h.functions[f]
  BY <1>1, <1>3 DEF F!With
<1>6. h.next \in Nat /\ b.next \in Nat /\ b.next <= h.next /\ TablesOK(h)
  BY DEF Ran, TablesOK
<1>7. TablesOK(o.g)
  <2>1. \A f \in DOMAIN o.g.functions : o.g.functions[f].table \in Nat /\ o.g.functions[f].table < o.g.next
    BY <1>3, <1>4, <1>5, <1>6 DEF TablesOK
  <2>2. ASSUME NEW f \in DOMAIN o.g.functions, NEW e \in DOMAIN o.g.functions,
               o.g.functions[f].table = o.g.functions[e].table
        PROVE  f = e
    <3>1. \A d \in DOMAIN h.functions : o.g.functions[d].table < h.next
      BY <1>5, <1>6 DEF TablesOK
    <3>2. CASE f = c.name \/ e = c.name
      BY <1>4, <1>5, <1>6, <2>2, <3>1, <3>2
    <3>3. CASE f # c.name /\ e # c.name
      BY <1>5, <1>6, <2>2, <3>3 DEF TablesOK
    <3> QED
      BY <3>2, <3>3
  <2>3. \A row \in o.g.rows : row \in Nat /\ row < o.g.next
    BY <1>3, <1>6 DEF TablesOK
  <2> QED
    BY <1>3, <1>6, <2>1, <2>2, <2>3 DEF TablesOK
<1>8. AddedTo(b, o.g, cs, i)
  <2> SUFFICES ASSUME NEW f \in DOMAIN o.g.functions \ DOMAIN b.functions
               PROVE  /\ o.g.functions[f].table >= b.next
                      /\ \E j \in DOMAIN cs : j <= i /\ cs[j].kind = "function" /\ cs[j].name = f
    BY DEF AddedTo
  <2>1. CASE f = c.name
    BY <1>0, <1>4, <1>5, <1>6, <2>1
  <2>2. CASE f # c.name
    <3>1. PICK j \in DOMAIN cs : j <= i - 1 /\ cs[j].kind = "function" /\ cs[j].name = f
      BY <1>5, <2>2 DEF Ran, AddedTo
    <3>2. j <= i
      BY <1>0, <3>1
    <3>3. o.g.functions[f].table >= b.next
      BY <1>5, <2>2 DEF Ran, AddedTo
    <3> QED
      BY <3>1, <3>2, <3>3
  <2> QED
    BY <2>1, <2>2
<1>9. Ran(b, o.g, cs, i)
  <2>1. b.next <= o.g.next
    BY <1>3, <1>6
  <2> QED
    BY <1>3, <1>5, <1>6, <1>7, <1>8, <2>1 DEF Ran
<1>10. RanTo(o.g, cs, i)
  <2> SUFFICES ASSUME NEW j \in DOMAIN cs, j <= i, cs[j].kind = "function"
               PROVE  cs[j].name \in DOMAIN o.g.functions /\ o.g.functions[cs[j].name].arity = cs[j].sig.args
    BY DEF RanTo
  <2>1. CASE j = i
    BY <1>4, <1>5, <2>1
  <2>2. CASE j # i
    <3>1. j <= i - 1
      BY <1>0, <2>2
    <3> QED
      BY <1>5, <3>1 DEF RanTo
  <2> QED
    BY <2>1, <2>2
<1> QED
  BY <1>2, <1>9, <1>10 DEF AfterRunning, o

\* Running a declaration.
LEMMA RunStep ==
  ASSUME NEW b, NEW h, NEW cs, IsCommand(cs), FreshIn(b, cs), NEW i \in DOMAIN cs,
         Ran(b, h, cs, i - 1), RanTo(h, cs, i - 1)
  PROVE  AfterRunning(b, F!RunDeclaration(h, cs[i]), cs, i)
<1> DEFINE c == cs[i]
           o == F!RunDeclaration(h, c)
<1>0. i \in {1, 2, 3} /\ DOMAIN cs \subseteq {1, 2, 3} /\ c.kind \in {"sort", "function", "let"}
  BY DEF IsCommand
<1>1. CASE c.kind = "function"
  BY <1>1, FunctionStep
<1>2. CASE c.kind \in {"sort", "let"}
  <2>1. \A j \in DOMAIN cs : j <= i /\ cs[j].kind = "function" => j <= i - 1
    BY <1>0, <1>2
  <2>2. \A j \in DOMAIN cs : j <= i - 1 => j <= i
    BY <1>0
  <2>3. ASSUME NEW k, IsGraph(k), k.functions = h.functions, k.next \in {h.next, h.next + 1},
               k.sigs = h.sigs, k.sorts = h.sorts, k.globals = h.globals, k.bindings = h.bindings,
               k.names = h.names, k.rows = h.rows, k.want = h.want, k.refused = h.refused
        PROVE  Ran(b, k, cs, i) /\ RanTo(k, cs, i)
    <3>1. TablesOK(k) /\ b.next <= k.next
      BY <2>3 DEF Ran, TablesOK
    <3>2. AddedTo(b, k, cs, i)
      BY <2>2, <2>3 DEF Ran, AddedTo
    <3> QED
      BY <2>1, <2>3, <3>1, <3>2 DEF Ran, RanTo
  <2>4. CASE c.kind = "sort"
    <3>1. o.g = h /\ o.panic = None
      BY <2>4, OutcomesAre DEF F!RunDeclaration
    <3>2. Ran(b, h, cs, i) /\ RanTo(h, cs, i)
      BY <2>3 DEF Ran
    <3> QED
      BY <3>1, <3>2 DEF AfterRunning
  <2>5. CASE c.kind = "let"
    <3>1. PICK d : d = IF h.globalTable THEN h ELSE [h EXCEPT !.globalTable = TRUE, !.next = @ + 1]
      OBVIOUS
    <3>2. o.panic = None /\ o.g = IF c.fails THEN d ELSE [d EXCEPT !.globalRows = @ \cup {c.name}]
      BY <2>5, <3>1, OutcomesAre DEF F!RunDeclaration, F!Outcome
    <3> HIDE DEF o
    <3>3. /\ IsGraph(d) /\ d.functions = h.functions /\ d.next \in {h.next, h.next + 1}
          /\ d.sigs = h.sigs /\ d.sorts = h.sorts /\ d.globals = h.globals /\ d.bindings = h.bindings
          /\ d.names = h.names /\ d.rows = h.rows /\ d.want = h.want /\ d.refused = h.refused
      BY <3>1 DEF Ran, IsGraph
    <3>4. /\ IsGraph(o.g) /\ o.g.functions = d.functions /\ o.g.next = d.next
          /\ o.g.sigs = d.sigs /\ o.g.sorts = d.sorts /\ o.g.globals = d.globals /\ o.g.bindings = d.bindings
          /\ o.g.names = d.names /\ o.g.rows = d.rows /\ o.g.want = d.want /\ o.g.refused = d.refused
      BY <3>2, <3>3 DEF IsGraph
    <3>5. Ran(b, o.g, cs, i) /\ RanTo(o.g, cs, i)
      BY <2>3, <3>3, <3>4
    <3> QED
      BY <3>2, <3>5 DEF AfterRunning, o
  <2> QED
    BY <1>2, <2>4, <2>5
<1> QED
  BY <1>0, <1>1, <1>2

\* Running the k-th declaration, if it comes to it.
LEMMA RunThen ==
  ASSUME NEW b, NEW o, NEW cs, IsCommand(cs), FreshIn(b, cs), NEW k \in {1, 2, 3},
         AfterRunning(b, o, cs, k - 1)
  PROVE  AfterRunning(b, F!Then(F!RunDeclaration, o, cs, k), cs, k)
<1>1. CASE o.ok /\ k \in DOMAIN cs
  <2>1. F!Then(F!RunDeclaration, o, cs, k) = F!RunDeclaration(o.g, cs[k])
    BY <1>1 DEF F!Then
  <2>2. Ran(b, o.g, cs, k - 1) /\ RanTo(o.g, cs, k - 1)
    BY <1>1 DEF AfterRunning
  <2> QED
    BY <1>1, <2>1, <2>2, RunStep
<1>2. CASE ~(o.ok /\ k \in DOMAIN cs)
  <2>1. F!Then(F!RunDeclaration, o, cs, k) = o
    BY <1>2 DEF F!Then
  <2>2. ASSUME o.ok PROVE \A i \in DOMAIN cs : i <= k => i <= k - 1
    BY <1>2, <2>2 DEF IsCommand
  <2>3. \A i \in DOMAIN cs : i <= k - 1 => i <= k
    BY DEF IsCommand
  <2>4. o.ok => RanTo(o.g, cs, k)
    BY <2>2 DEF AfterRunning, RanTo
  <2>5. Ran(b, o.g, cs, k)
    BY <2>3 DEF AfterRunning, Ran, AddedTo
  <2> QED
    BY <2>1, <2>4, <2>5 DEF AfterRunning
<1> QED
  BY <1>1, <1>2

\* Running declarations whose names are new.
LEMMA RunPass ==
  ASSUME NEW b, IsGraph(b), TablesOK(b), NEW cs, IsCommand(cs), FreshIn(b, cs)
  PROVE  AfterRunning(b, F!Pass(F!RunDeclaration, F!Done(b), cs), cs, 3)
<1>1. AfterRunning(b, F!Done(b), cs, 1 - 1)
  <2>1. Ran(b, b, cs, 1 - 1)
    BY DEF Ran, AddedTo, TablesOK
  <2>2. RanTo(b, cs, 1 - 1)
    BY DEF RanTo, IsCommand
  <2> QED
    BY <2>1, <2>2, OutcomesAre DEF AfterRunning
<1>2. PICK o1 : o1 = F!Then(F!RunDeclaration, F!Done(b), cs, 1)
  OBVIOUS
<1>3. PICK o2 : o2 = F!Then(F!RunDeclaration, o1, cs, 2)
  OBVIOUS
<1>4. AfterRunning(b, o1, cs, 2 - 1)
  <2>1. AfterRunning(b, o1, cs, 1)
    BY <1>1, <1>2, RunThen
  <2> QED
    BY <2>1
<1>5. AfterRunning(b, o2, cs, 3 - 1)
  <2>1. AfterRunning(b, o2, cs, 2)
    BY <1>3, <1>4, RunThen
  <2> QED
    BY <2>1
<1>6. AfterRunning(b, F!Then(F!RunDeclaration, o2, cs, 3), cs, 3)
  BY <1>5, RunThen
<1>7. F!Pass(F!RunDeclaration, F!Done(b), cs) = F!Then(F!RunDeclaration, o2, cs, 3)
  BY <1>2, <1>3 DEF F!Pass
<1> QED
  BY <1>6, <1>7

-----------------------------------------------------------------------------
(* Declarations *)

\* What resolving a command leaves, whether it is refused or not.
Resolved(g, x, cs) ==
  /\ IsGraph(x) /\ SameTables(g, x) /\ g.names \subseteq x.names
  /\ DOMAIN g.sigs \subseteq DOMAIN x.sigs
  /\ \A f \in DOMAIN x.sigs \ Funs(cs) : f \in DOMAIN g.sigs /\ x.sigs[f] = g.sigs[f]
  /\ x.sorts \cap DOMAIN x.sigs = {}
  /\ x.globals \subseteq g.globals \cup F!Lets(cs)

\* More names may be refused.
LEMMA RefusedMore ==
  ASSUME NEW g, IsGraph(g), TablesOK(g), NamesOK(g), WantIs(g, {}), NEW names,
         \A f \in DOMAIN g.sigs \ (g.refused \cup names) :
           f \in DOMAIN g.functions /\ g.functions[f].arity = g.sigs[f].args,
         g.globals \ (g.refused \cup names) \subseteq g.bindings
  PROVE  LET h == [g EXCEPT !.refused = @ \cup names]
         IN  GraphOK(h) /\ WantIs(h, {}) /\ h.refused = g.refused \cup names
<1> DEFINE h == [g EXCEPT !.refused = @ \cup names]
<1>1. /\ IsGraph(h) /\ h.refused = g.refused \cup names
      /\ h.sigs = g.sigs /\ h.sorts = g.sorts /\ h.globals = g.globals /\ h.bindings = g.bindings
      /\ h.names = g.names /\ h.rows = g.rows /\ h.want = g.want /\ h.functions = g.functions
      /\ h.next = g.next
  BY DEF IsGraph
<1> HIDE DEF h
<1>2. TablesOK(h) /\ NamesOK(h) /\ WantIs(h, {})
  BY <1>1 DEF TablesOK, NamesOK, WantIs
<1>3. UsableOK(h)
  BY <1>1 DEF UsableOK
<1> QED
  BY <1>1, <1>2, <1>3 DEF GraphOK, h

\* Resolving: what it leaves, and what it knows when it does not refuse.
LEMMA ResolveIs ==
  ASSUME NEW g, GraphOK(g), NEW cs, IsCommand(cs)
  PROVE  LET n == F!Pass(F!CheckShadowing, F!Pass(F!Typecheck, F!Done(g), cs), cs)
         IN  /\ Resolved(g, n.g, cs) /\ n.panic = None
             /\ n.ok => TypedTo(n.g, cs, 3) /\ NewTo(g, n.g, cs, 3)
<1>1. PICK t : t = F!Pass(F!Typecheck, F!Done(g), cs)
  OBVIOUS
<1>2. PICK n : n = F!Pass(F!CheckShadowing, t, cs)
  OBVIOUS
<1>3. AfterTyping(g, t, cs, 3)
  BY <1>1, TypePass
<1>4. AfterShadowing(t.g, n, cs, 3) /\ (n.ok => t.ok)
  <2>1. IsGraph(t.g) /\ t.panic = None
    BY <1>3 DEF AfterTyping, Typed
  <2> QED
    BY <1>2, <2>1, ShadowPass
<1>5. Typed(g, t.g, cs) /\ Shadowed(t.g, n.g, cs) /\ n.panic = None
  BY <1>3, <1>4 DEF AfterTyping, AfterShadowing
<1>6. Resolved(g, n.g, cs)
  BY <1>5 DEF Typed, Shadowed, Resolved, SameTables
<1>7. n.ok => TypedTo(n.g, cs, 3)
  BY <1>3, <1>4, <1>5 DEF AfterTyping, TypedTo, Shadowed
<1>8. n.ok => NewTo(g, n.g, cs, 3)
  BY <1>4, <1>5 DEF AfterShadowing, NewTo, Typed
<1> QED
  BY <1>1, <1>2, <1>5, <1>6, <1>7, <1>8

\* Whatever becomes of a declaration, the e-graph that is left is sound.
LEMMA DeclareIs ==
  ASSUME NEW g, GraphOK(g), WantIs(g, {}), NEW cs, IsCommand(cs), NEW o, o = F!Declare(g, cs)
  PROVE  /\ o.panic = None
         /\ o.ok => GraphOK(o.g) /\ WantIs(o.g, {})
         /\ LET h == [o.g EXCEPT !.refused = @ \cup NamesOf(cs)] IN ~o.ok => GraphOK(h) /\ WantIs(h, {})
<1>1. PICK n : n = F!Pass(F!CheckShadowing, F!Pass(F!Typecheck, F!Done(g), cs), cs)
  OBVIOUS
<1>2. /\ Resolved(g, n.g, cs) /\ n.panic = None
      /\ n.ok => TypedTo(n.g, cs, 3) /\ NewTo(g, n.g, cs, 3)
  BY <1>1, ResolveIs
<1>3. Funs(cs) \subseteq NamesOf(cs) /\ F!Lets(cs) \subseteq NamesOf(cs)
  BY DEF Funs, F!Lets, NamesOf
<1>4. IsGraph(g) /\ TablesOK(g) /\ NamesOK(g) /\ UsableOK(g)
  BY DEF GraphOK
<1>5. CASE ~n.ok
  <2>1. o = n
    BY <1>1, <1>5 DEF F!Declare
  <2>2. TablesOK(n.g) /\ NamesOK(n.g) /\ IsGraph(n.g) /\ WantIs(n.g, {})
    BY <1>2, <1>4 DEF Resolved, SameTables, TablesOK, NamesOK, WantIs
  <2>3. \A f \in DOMAIN n.g.sigs \ (n.g.refused \cup NamesOf(cs)) :
          f \in DOMAIN n.g.functions /\ n.g.functions[f].arity = n.g.sigs[f].args
    BY <1>2, <1>3, <1>4 DEF Resolved, SameTables, UsableOK
  <2>4. n.g.globals \ (n.g.refused \cup NamesOf(cs)) \subseteq n.g.bindings
    BY <1>2, <1>3, <1>4 DEF Resolved, SameTables, UsableOK
  <2> QED
    BY <1>2, <1>5, <2>1, <2>2, <2>3, <2>4, RefusedMore
<1>6. CASE n.ok
  <2>1. PICK b : b = F!Bind(n.g, cs)
    OBVIOUS
  <2>2. o = F!Pass(F!RunDeclaration, F!Done(b), cs)
    BY <1>1, <1>6, <2>1 DEF F!Declare
  <2>3. /\ IsGraph(b) /\ b.bindings = n.g.bindings \cup F!Lets(cs)
        /\ b.sigs = n.g.sigs /\ b.sorts = n.g.sorts /\ b.globals = n.g.globals /\ b.names = n.g.names
        /\ b.rows = n.g.rows /\ b.want = n.g.want /\ b.functions = n.g.functions /\ b.next = n.g.next
        /\ b.refused = n.g.refused
    BY <1>2, <2>1 DEF F!Bind, Resolved, IsGraph
  <2>4. TablesOK(b)
    BY <1>2, <1>4, <2>3 DEF Resolved, SameTables, TablesOK
  <2>5. /\ DOMAIN cs \subseteq {1, 2, 3}
        /\ \A i \in DOMAIN cs : /\ cs[i].name \notin g.names /\ cs[i].name \in n.g.names
                                /\ \A j \in DOMAIN cs : j < i => cs[j].name # cs[i].name
        /\ \A i \in DOMAIN cs : cs[i].kind = "function"
              => cs[i].name \in DOMAIN n.g.sigs /\ n.g.sigs[cs[i].name] = cs[i].sig
    BY <1>2, <1>6 DEF IsCommand, NewTo, TypedTo
  <2>6. FreshIn(b, cs)
    BY <1>2, <1>4, <2>3, <2>5 DEF FreshIn, Resolved, SameTables, NamesOK
  <2>7. /\ Ran(b, o.g, cs, 3) /\ o.panic = None /\ (o.ok => RanTo(o.g, cs, 3))
    BY <2>2, <2>3, <2>4, <2>6, RunPass DEF AfterRunning
  <2>8. TablesOK(o.g) /\ IsGraph(o.g)
    BY <2>7 DEF Ran
  <2>9. \A f \in DOMAIN o.g.functions :
          f \in DOMAIN g.functions \/ \E i \in DOMAIN cs : cs[i].kind = "function" /\ cs[i].name = f
    BY <1>2, <2>3, <2>7 DEF Ran, AddedTo, Resolved, SameTables
  <2>10. NamesOK(o.g)
    <3>1. DOMAIN o.g.functions \subseteq DOMAIN o.g.sigs \cap o.g.names
      BY <1>2, <1>4, <2>3, <2>5, <2>7, <2>9 DEF Ran, Resolved, NamesOK
    <3>2. \A x \in F!Lets(cs) : \E i \in DOMAIN cs : cs[i].kind = "let" /\ cs[i].name = x
      BY DEF F!Lets
    <3>3. o.g.bindings \subseteq o.g.names
      BY <1>2, <1>4, <2>3, <2>5, <2>7, <3>2 DEF Ran, Resolved, SameTables, NamesOK
    <3>4. o.g.sorts \cap DOMAIN o.g.sigs = {}
      BY <1>2, <2>3, <2>7 DEF Ran, Resolved
    <3>5. ASSUME NEW f \in DOMAIN o.g.functions, f \in o.g.bindings PROVE FALSE
      <4>1. f \in g.bindings \/ f \in F!Lets(cs)
        BY <1>2, <2>3, <2>7, <3>5 DEF Ran, Resolved, SameTables
      <4>2. CASE f \in DOMAIN g.functions
        BY <1>4, <2>5, <3>2, <4>1, <4>2 DEF NamesOK
      <4>3. CASE f \notin DOMAIN g.functions
        <5>1. PICK i \in DOMAIN cs : cs[i].kind = "function" /\ cs[i].name = f
          BY <2>9, <4>3
        <5>2. f \in F!Lets(cs)
          BY <1>4, <2>5, <4>1, <5>1 DEF NamesOK
        <5>3. PICK j \in DOMAIN cs : cs[j].kind = "let" /\ cs[j].name = f
          BY <3>2, <5>2
        <5>4. i < j \/ j < i
          BY <2>5, <5>1, <5>3
        <5> QED
          BY <2>5, <5>1, <5>3, <5>4
      <4> QED
        BY <4>2, <4>3
    <3> QED
      BY <3>1, <3>3, <3>4, <3>5 DEF NamesOK
  <2>11. WantIs(o.g, {})
    <3>1. \A f \in DOMAIN o.g.functions \ DOMAIN g.functions : o.g.functions[f].table \notin o.g.rows
      <4>1. \A f \in DOMAIN o.g.functions \ DOMAIN g.functions : o.g.functions[f].table >= g.next
        BY <1>2, <2>3, <2>7 DEF Ran, AddedTo, Resolved, SameTables
      <4>2. \A row \in o.g.rows : row \in Nat /\ row < g.next
        BY <1>2, <1>4, <2>3, <2>7 DEF Ran, Resolved, SameTables, TablesOK
      <4>3. g.next \in Nat /\ \A f \in DOMAIN o.g.functions : o.g.functions[f].table \in Nat
        BY <1>4, <2>8 DEF TablesOK
      <4> QED
        BY <4>1, <4>2, <4>3
    <3>2. /\ DOMAIN g.functions \subseteq DOMAIN o.g.functions /\ o.g.rows = g.rows /\ o.g.want = g.want
          /\ \A f \in DOMAIN g.functions : o.g.functions[f] = g.functions[f]
      BY <1>2, <2>3, <2>7 DEF Ran, Resolved, SameTables
    <3> QED
      BY <3>1, <3>2 DEF WantIs
  <2>12. /\ o.g.sigs = n.g.sigs /\ o.g.globals = n.g.globals /\ o.g.refused = g.refused
         /\ o.g.bindings = g.bindings \cup F!Lets(cs)
         /\ DOMAIN g.functions \subseteq DOMAIN o.g.functions
         /\ \A f \in DOMAIN g.functions : o.g.functions[f] = g.functions[f]
    BY <1>2, <2>3, <2>7 DEF Ran, Resolved, SameTables
  <2>13. \A f \in DOMAIN o.g.sigs \ (o.g.refused \cup Funs(cs)) :
          f \in DOMAIN o.g.functions /\ o.g.functions[f].arity = o.g.sigs[f].args
    BY <1>2, <1>4, <2>12 DEF Resolved, UsableOK
  <2>14. o.g.globals \ o.g.refused \subseteq o.g.bindings
    BY <1>2, <1>4, <2>12 DEF Resolved, UsableOK
  <2>15. ASSUME o.ok PROVE UsableOK(o.g)
    <3>1. ASSUME NEW f \in Funs(cs)
          PROVE  f \in DOMAIN o.g.functions /\ o.g.functions[f].arity = o.g.sigs[f].args
      <4>1. PICK i \in DOMAIN cs : cs[i].kind = "function" /\ cs[i].name = f
        BY DEF Funs
      <4>2. i <= 3
        BY <2>5
      <4> QED
        BY <2>5, <2>7, <2>12, <2>15, <4>1, <4>2 DEF RanTo
    <3> QED
      BY <2>13, <2>14, <3>1 DEF UsableOK
  <2>16. CASE o.ok
    BY <2>7, <2>8, <2>10, <2>11, <2>15, <2>16 DEF GraphOK
  <2>17. CASE ~o.ok
    <3>1. \A f \in DOMAIN o.g.sigs \ (o.g.refused \cup NamesOf(cs)) :
            f \in DOMAIN o.g.functions /\ o.g.functions[f].arity = o.g.sigs[f].args
      BY <1>3, <2>13
    <3>2. o.g.globals \ (o.g.refused \cup NamesOf(cs)) \subseteq o.g.bindings
      BY <2>14
    <3> QED
      BY <2>7, <2>8, <2>10, <2>11, <2>17, <3>1, <3>2, RefusedMore
  <2> QED
    BY <2>16, <2>17
<1> QED
  BY <1>5, <1>6

-----------------------------------------------------------------------------
(* Commands that commit the batch *)

\* Executing the batch.
LEMMA FlushedIs ==
  ASSUME FEInv
  PROVE  /\ GraphOK(F!Flushed) /\ WantIs(F!Flushed, {})
         /\ F!Flushed.rows = egraph.rows \cup F!ToSet(pending)
         /\ F!Flushed.functions = egraph.functions /\ F!Flushed.sigs = egraph.sigs
         /\ F!Flushed.refused = egraph.refused /\ F!Flushed.want = egraph.want
<1>1. GraphOK(egraph) /\ WantIs(egraph, F!ToSet(pending)) /\ F!CacheIsCurrent
  BY DEF FEInv
<1>2. PICK stocked \in {egraph.rows \cup F!ToSet(pending)} : stocked = egraph.rows \cup F!ToSet(pending)
  OBVIOUS
<1>3. F!Flushed = [egraph EXCEPT !.rows = stocked]
  BY <1>1, <1>2 DEF F!Flushed, GraphOK, IsGraph
<1>4. PICK h \in {F!Flushed} : h = F!Flushed
  OBVIOUS
<1>5. /\ IsGraph(h) /\ h.rows = stocked
      /\ h.sigs = egraph.sigs /\ h.sorts = egraph.sorts /\ h.globals = egraph.globals
      /\ h.bindings = egraph.bindings /\ h.names = egraph.names /\ h.want = egraph.want
      /\ h.functions = egraph.functions /\ h.next = egraph.next /\ h.refused = egraph.refused
  BY <1>1, <1>3, <1>4 DEF GraphOK, IsGraph
<1>6. egraph.want \subseteq DOMAIN egraph.functions
  BY <1>1 DEF WantIs
<1>7. \A row \in stocked : row \in Nat /\ row < egraph.next
  <2>1. \A row \in F!ToSet(pending) : \E f \in DOMAIN egraph.functions : row = egraph.functions[f].table
    BY <1>1, <1>6 DEF F!CacheIsCurrent
  <2> QED
    BY <1>1, <1>2, <2>1 DEF GraphOK, TablesOK
<1>8. TablesOK(h) /\ NamesOK(h) /\ UsableOK(h)
  BY <1>1, <1>5, <1>7 DEF GraphOK, TablesOK, NamesOK, UsableOK
<1>9. WantIs(h, {})
  BY <1>1, <1>2, <1>5 DEF WantIs
<1> QED
  BY <1>2, <1>4, <1>5, <1>8, <1>9 DEF GraphOK

\* A command that commits the batch, and the e-graph it leaves.
LEMMA CommittedIs ==
  ASSUME NEW o, NEW names, F!Committed(o, names),
         GraphOK(egraph'), WantIs(egraph', {}), panicked' \in egraph'.refused \cup {None}, PushedOK'
  PROVE  FEInv'
<1>1. pending' = <<>> /\ calls' = <<>>
  BY DEF F!Committed, F!Expired
<1>2. F!ToSet(pending') = {} /\ pending' \in Seq(Nat) /\ DOMAIN calls' = {}
  BY <1>1 DEF F!ToSet
<1>3. F!CacheIsCurrent'
  BY <1>2 DEF F!CacheIsCurrent
<1> QED
  BY <1>2, <1>3 DEF FEInv

\* A command that commits the batch and changes nothing else.
LEMMA CommittedOnly ==
  ASSUME FEInv, NEW o, F!Committed(o, {}), o.g = F!Flushed, o.panic \in egraph.refused \cup {None}, PushedOK'
  PROVE  FEInv'
<1>1. PICK h \in {F!Flushed} : h = F!Flushed
  OBVIOUS
<1>2. GraphOK(h) /\ WantIs(h, {}) /\ h.refused = egraph.refused
  BY <1>1, FlushedIs
<1>3. panicked' = o.panic /\ (egraph' = h \/ egraph' = [h EXCEPT !.refused = @ \cup {}])
  BY <1>1 DEF F!Committed, F!Finish
<1>4. /\ GraphOK([h EXCEPT !.refused = @ \cup {}]) /\ WantIs([h EXCEPT !.refused = @ \cup {}], {})
      /\ [h EXCEPT !.refused = @ \cup {}].refused = h.refused
  <2>1. IsGraph(h) /\ TablesOK(h) /\ NamesOK(h) /\ UsableOK(h)
    BY <1>2 DEF GraphOK
  <2>2. h.refused \cup {} = h.refused
    OBVIOUS
  <2> QED
    BY <1>2, <2>1, <2>2, RefusedMore DEF UsableOK
<1>5. GraphOK(egraph') /\ WantIs(egraph', {}) /\ egraph'.refused = egraph.refused
  BY <1>2, <1>3, <1>4
<1> QED
  BY <1>3, <1>5, CommittedIs

\* The snapshots stay.
LEMMA PushedStays == ASSUME FEInv, UNCHANGED snapshots PROVE PushedOK'
BY DEF FEInv, PushedOK

\* Declarations.
LEMMA DeclareStep ==
  ASSUME FEInv, NEW cs, IsCommand(cs), F!DeclareCommand(cs)
  PROVE  FEInv'
<1>1. PICK g \in {F!Flushed} : g = F!Flushed
  OBVIOUS
<1>2. PICK o \in {F!Declare(g, cs)} : o = F!Declare(g, cs)
  OBVIOUS
<1>3. GraphOK(g) /\ WantIs(g, {})
  BY <1>1, FlushedIs
<1>4. /\ F!Committed(o, NamesOf(cs)) /\ UNCHANGED snapshots
  BY <1>1, <1>2 DEF F!DeclareCommand, NamesOf
<1>5. panicked' = o.panic /\ egraph' = IF o.ok THEN o.g ELSE [o.g EXCEPT !.refused = @ \cup NamesOf(cs)]
  BY <1>4 DEF F!Committed, F!Finish
<1>6. o.panic = None /\ GraphOK(egraph') /\ WantIs(egraph', {})
  BY <1>2, <1>3, <1>5, DeclareIs
<1> QED
  BY <1>4, <1>5, <1>6, CommittedIs, PushedStays

\* A well-typed call is of a constructor with its table, unless its declaration was refused.
LEMMA WellTypedIs ==
  ASSUME NEW g, GraphOK(g), NEW c, F!WellTyped(g, c)
  PROVE  c.name \in g.refused \/ (c.name \in DOMAIN g.functions /\ g.functions[c.name].arity = c.args)
BY DEF F!WellTyped, GraphOK, UsableOK

\* Checks of facts, and globals.
LEMMA CheckStep ==
  ASSUME FEInv, (\E c : F!CheckCommand(c)) \/ (\E x : F!ReadGlobal(x)) \/ F!EndProgram
  PROVE  FEInv'
<1>1. GraphOK(F!Flushed) /\ F!Flushed.refused = egraph.refused
  BY FlushedIs
<1>2. ASSUME NEW c, F!CheckCommand(c) PROVE FEInv'
  <2>1. PICK o : o = IF F!WellTyped(F!Flushed, c) THEN F!CheckFacts(F!Flushed, c) ELSE F!Refused(F!Flushed)
    OBVIOUS
  <2>2. o.g = F!Flushed
    BY <2>1, OutcomesAre DEF F!CheckFacts, F!Outcome
  <2>3. o.panic \in egraph.refused \cup {None}
    BY <1>1, <2>1, WellTypedIs, OutcomesAre DEF F!CheckFacts, F!Outcome
  <2> QED
    BY <1>2, <2>1, <2>2, <2>3, CommittedOnly, PushedStays DEF F!CheckCommand
<1>3. ASSUME NEW x, F!ReadGlobal(x) PROVE FEInv'
  <2>1. PICK o : o = IF x \notin egraph.globals THEN F!Refused(F!Flushed)
                     ELSE IF x \notin egraph.bindings THEN F!Panics(F!Flushed, x)
                     ELSE F!Outcome(x \in egraph.globalRows, F!Flushed)
    OBVIOUS
  <2>2. o.g = F!Flushed
    BY <2>1, OutcomesAre DEF F!Outcome
  <2>3. o.panic \in egraph.refused \cup {None}
    BY <2>1, OutcomesAre DEF F!Outcome, FEInv, GraphOK, UsableOK
  <2> QED
    BY <1>3, <2>1, <2>2, <2>3, CommittedOnly, PushedStays DEF F!ReadGlobal
<1>4. CASE F!EndProgram
  <2>1. F!Done(F!Flushed).g = F!Flushed /\ F!Done(F!Flushed).panic = None
    BY OutcomesAre
  <2> QED
    BY <1>4, <2>1, CommittedOnly, PushedStays DEF F!EndProgram
<1> QED
  BY <1>2, <1>3, <1>4

\* push and pop.
LEMMA PushStep == ASSUME FEInv, F!Push PROVE FEInv'
<1>1. PICK h \in {F!Flushed} : h = F!Flushed
  OBVIOUS
<1>2. GraphOK(h) /\ WantIs(h, {})
  BY <1>1, FlushedIs
<1>3. PICK S : snapshots \in Seq(S) /\ \A g \in S : GraphOK(g) /\ WantIs(g, {})
  BY DEF FEInv, PushedOK
<1>4. snapshots' = <<h>> \o snapshots /\ F!Committed(F!Done(F!Flushed), {})
  BY <1>1 DEF F!Push
<1>5. snapshots' \in Seq(S \cup {h})
  BY <1>3, <1>4
<1>6. PushedOK'
  BY <1>2, <1>3, <1>5 DEF PushedOK
<1>7. F!Done(F!Flushed).g = F!Flushed /\ F!Done(F!Flushed).panic = None
  BY OutcomesAre
<1> QED
  BY <1>4, <1>6, <1>7, CommittedOnly

\* A pop restores what was pushed, or is refused.
LEMMA PopStep == ASSUME FEInv, F!Pop PROVE FEInv'
<1>1. CASE snapshots # <<>> /\ F!Committed(F!Done(Head(snapshots)), {}) /\ snapshots' = Tail(snapshots)
  <2>1. PICK S : snapshots \in Seq(S) /\ \A g \in S : GraphOK(g) /\ WantIs(g, {})
    BY DEF FEInv, PushedOK
  <2>2. Head(snapshots) \in S /\ Tail(snapshots) \in Seq(S)
    BY <1>1, <2>1
  <2>3. egraph' = Head(snapshots) /\ panicked' = None
    BY <1>1, OutcomesAre DEF F!Committed, F!Finish
  <2>4. PushedOK'
    BY <1>1, <2>1, <2>2 DEF PushedOK
  <2> QED
    BY <1>1, <2>1, <2>2, <2>3, <2>4, CommittedIs
<1>2. CASE F!Committed(F!Refused(F!Flushed), {}) /\ UNCHANGED snapshots
  <2>1. F!Refused(F!Flushed).g = F!Flushed /\ F!Refused(F!Flushed).panic = None
    BY OutcomesAre
  <2> QED
    BY <1>2, <2>1, CommittedOnly, PushedStays
<1> QED
  BY <1>1, <1>2 DEF F!Pop

-----------------------------------------------------------------------------
(* Preparing actions *)

\* What is cached is what the e-graph says.
Current(g, known) == \A f \in DOMAIN known : known[f] = F!ConstructorCall(g, f)

\* A prepared action names the tables of its constructors, and what it caches is current.
LEMMA PrepareIs ==
  ASSUME NEW g, NEW known, Current(g, known), NEW cs, NEW n \in Nat, DOMAIN cs = 1..n
  PROVE  LET p == F!Prepare(g, known, cs)
         IN  /\ Current(g, p.calls)
             /\ p.ok => /\ p.tables = [i \in DOMAIN cs |-> g.functions[cs[i].name].table]
                        /\ \A i \in DOMAIN cs : cs[i].name \in DOMAIN g.functions
<1> DEFINE call(f) == IF f \in DOMAIN known THEN known[f] ELSE F!ConstructorCall(g, f)
           admitted(i) == call(cs[i].name) # None /\ call(cs[i].name).sig.args = cs[i].args
           walked == {i \in DOMAIN cs : \A j \in 1..(i - 1) : admitted(j)}
           seen == {cs[i].name : i \in walked}
           p == F!Prepare(g, known, cs)
<1>1. \A f : call(f) = F!ConstructorCall(g, f)
  BY DEF Current
<1>2. p.calls = [f \in DOMAIN known \cup seen |-> call(f)]
  BY DEF F!Prepare
<1>3. Current(g, p.calls)
  <2> HIDE DEF call, seen, p
  <2> QED
    BY <1>1, <1>2 DEF Current
<1>4. ASSUME p.ok
      PROVE  /\ p.tables = [i \in DOMAIN cs |-> g.functions[cs[i].name].table]
             /\ \A i \in DOMAIN cs : cs[i].name \in DOMAIN g.functions
  <2>1. \A i \in DOMAIN cs : admitted(i)
    BY <1>4 DEF F!Prepare
  <2>2. p.tables = [i \in walked |-> IF call(cs[i].name) = None THEN 0 ELSE call(cs[i].name).table]
    BY DEF F!Prepare
  <2>3. \A i \in DOMAIN cs : call(cs[i].name) # None
    BY <2>1
  <2>4. ASSUME NEW i \in DOMAIN cs
        PROVE  cs[i].name \in DOMAIN g.functions /\ call(cs[i].name).table = g.functions[cs[i].name].table
    <3>1. F!ConstructorCall(g, cs[i].name) # None /\ call(cs[i].name) = F!ConstructorCall(g, cs[i].name)
      BY <1>1, <2>3
    <3> HIDE DEF call
    <3> QED
      BY <3>1 DEF F!ConstructorCall
  <2>5. walked = DOMAIN cs
    BY <2>1
  <2> HIDE DEF call, walked
  <2>6. \A i \in DOMAIN cs : (IF call(cs[i].name) = None THEN 0 ELSE call(cs[i].name).table)
                               = g.functions[cs[i].name].table
    BY <2>3, <2>4
  <2> QED
    BY <2>2, <2>4, <2>5, <2>6
<1> QED
  BY <1>3, <1>4

\* The tables that calls name.
TablesOf(g, cs) == {g.functions[cs[i].name].table : i \in DOMAIN cs}

\* The tables that should have rows.
WantTables(g) == {g.functions[f].table : f \in g.want}

\* Rows in the tables of constructors, wanted as they are written.
LEMMA WantMore ==
  ASSUME NEW g, GraphOK(g), NEW more, WantIs(g, more), NEW cs, \A i \in DOMAIN cs : cs[i].name \in DOMAIN g.functions,
         NEW h, h.functions = g.functions, h.want = g.want \cup NamesOf(cs), NEW rest,
         h.rows \cup rest = g.rows \cup more \cup TablesOf(g, cs)
  PROVE  WantIs(h, rest)
<1>1. \A f, e \in DOMAIN g.functions : g.functions[f].table = g.functions[e].table => f = e
  BY DEF GraphOK, TablesOK
<1>2. \A f \in DOMAIN g.functions : g.functions[f].table \in TablesOf(g, cs) <=> f \in NamesOf(cs)
  <2> SUFFICES ASSUME NEW f \in DOMAIN g.functions
               PROVE  g.functions[f].table \in TablesOf(g, cs) <=> f \in NamesOf(cs)
    OBVIOUS
  <2>1. ASSUME g.functions[f].table \in TablesOf(g, cs) PROVE f \in NamesOf(cs)
    <3>1. PICK i \in DOMAIN cs : g.functions[f].table = g.functions[cs[i].name].table
      BY <2>1 DEF TablesOf
    <3>2. f = cs[i].name
      BY <1>1, <3>1
    <3> QED
      BY <3>2 DEF NamesOf
  <2>2. ASSUME f \in NamesOf(cs) PROVE g.functions[f].table \in TablesOf(g, cs)
    BY <2>2 DEF NamesOf, TablesOf
  <2> QED
    BY <2>1, <2>2
<1>3. NamesOf(cs) \subseteq DOMAIN g.functions
  BY DEF NamesOf
<1>4. \A f \in DOMAIN g.functions : f \in g.want <=> g.functions[f].table \in g.rows \cup more
  BY DEF WantIs
<1>5. g.want \subseteq DOMAIN g.functions
  BY DEF WantIs
<1>6. \A f \in DOMAIN g.functions :
        h.functions[f].table \in h.rows \cup rest <=> f \in g.want \cup NamesOf(cs)
  BY <1>2, <1>4
<1> QED
  BY <1>3, <1>5, <1>6 DEF WantIs

\* The tables of constructors are tables.
LEMMA TablesExist ==
  ASSUME NEW g, GraphOK(g), NEW cs, \A i \in DOMAIN cs : cs[i].name \in DOMAIN g.functions
  PROVE  \A row \in TablesOf(g, cs) : row \in Nat /\ row < g.next
BY DEF TablesOf, GraphOK, TablesOK

\* Other rows in tables leave an e-graph sound.
LEMMA RowsMore ==
  ASSUME NEW g, GraphOK(g), NEW stocked, \A row \in stocked : row \in Nat /\ row < g.next
  PROVE  LET h == [g EXCEPT !.rows = stocked]
         IN  /\ GraphOK(h) /\ h.rows = stocked /\ h.want = g.want
             /\ h.functions = g.functions /\ h.sigs = g.sigs /\ h.refused = g.refused
<1> DEFINE h == [g EXCEPT !.rows = stocked]
<1>1. /\ IsGraph(h) /\ h.rows = stocked /\ h.want = g.want
      /\ h.sigs = g.sigs /\ h.sorts = g.sorts /\ h.globals = g.globals /\ h.bindings = g.bindings
      /\ h.names = g.names /\ h.functions = g.functions /\ h.next = g.next /\ h.refused = g.refused
  BY DEF GraphOK, IsGraph
<1> HIDE DEF h
<1>2. TablesOK(h) /\ NamesOK(h) /\ UsableOK(h)
  BY <1>1 DEF GraphOK, TablesOK, NamesOK, UsableOK
<1> QED
  BY <1>1, <1>2 DEF GraphOK, h

\* What is wanted is of the specification.
LEMMA WantOnly ==
  ASSUME NEW g, GraphOK(g), NEW cs
  PROVE  LET h == F!Want(g, cs)
         IN  /\ GraphOK(h) /\ h.rows = g.rows /\ h.want = g.want \cup NamesOf(cs)
             /\ h.functions = g.functions /\ h.sigs = g.sigs /\ h.refused = g.refused
<1> DEFINE h == F!Want(g, cs)
<1>1. /\ IsGraph(h) /\ h.rows = g.rows /\ h.want = g.want \cup NamesOf(cs)
      /\ h.sigs = g.sigs /\ h.sorts = g.sorts /\ h.globals = g.globals /\ h.bindings = g.bindings
      /\ h.names = g.names /\ h.functions = g.functions /\ h.next = g.next /\ h.refused = g.refused
  BY DEF F!Want, NamesOf, GraphOK, IsGraph
<1> HIDE DEF h
<1>2. TablesOK(h) /\ NamesOK(h) /\ UsableOK(h)
  BY <1>1 DEF GraphOK, TablesOK, NamesOK, UsableOK
<1> QED
  BY <1>1, <1>2 DEF GraphOK, h

\* The same metadata.
LEMMA SameCalls ==
  ASSUME NEW g, NEW h, h.functions = g.functions, h.sigs = g.sigs, NEW known, Current(g, known)
  PROVE  Current(h, known)
BY DEF Current, F!ConstructorCall

\* What is in two lists.
LEMMA ConcatSet ==
  ASSUME NEW s \in Seq(Nat), NEW t \in Seq(Nat)
  PROVE  s \o t \in Seq(Nat) /\ F!ToSet(s \o t) = F!ToSet(s) \cup F!ToSet(t)
<1>1. s \o t \in Seq(Nat)
  OBVIOUS
<1>2. ASSUME NEW i \in DOMAIN (s \o t) PROVE (s \o t)[i] \in F!ToSet(s) \cup F!ToSet(t)
  <2>1. i \in 1..Len(s) + Len(t)
    OBVIOUS
  <2>2. CASE i <= Len(s)
    <3>1. (s \o t)[i] = s[i] /\ i \in DOMAIN s
      BY <2>1, <2>2
    <3> QED
      BY <3>1 DEF F!ToSet
  <2>3. CASE i > Len(s)
    <3>1. (s \o t)[i] = t[i - Len(s)] /\ i - Len(s) \in DOMAIN t
      BY <2>1, <2>3
    <3> QED
      BY <3>1 DEF F!ToSet
  <2> QED
    BY <2>1, <2>2, <2>3
<1>3. ASSUME NEW i \in DOMAIN s PROVE s[i] \in F!ToSet(s \o t)
  <2>1. (s \o t)[i] = s[i] /\ i \in DOMAIN (s \o t)
    OBVIOUS
  <2> QED
    BY <2>1 DEF F!ToSet
<1>4. ASSUME NEW i \in DOMAIN t PROVE t[i] \in F!ToSet(s \o t)
  <2>1. (s \o t)[Len(s) + i] = t[i] /\ Len(s) + i \in DOMAIN (s \o t)
    OBVIOUS
  <2> QED
    BY <2>1 DEF F!ToSet
<1>5. F!ToSet(s \o t) \subseteq F!ToSet(s) \cup F!ToSet(t)
  <2>1. \A x \in F!ToSet(s \o t) : \E i \in DOMAIN (s \o t) : x = (s \o t)[i]
    BY DEF F!ToSet
  <2> QED
    BY <1>2, <2>1
<1>6. F!ToSet(s) \subseteq F!ToSet(s \o t) /\ F!ToSet(t) \subseteq F!ToSet(s \o t)
  <2>1. /\ \A x \in F!ToSet(s) : \E i \in DOMAIN s : x = s[i]
        /\ \A x \in F!ToSet(t) : \E i \in DOMAIN t : x = t[i]
    BY DEF F!ToSet
  <2> QED
    BY <1>3, <1>4, <2>1
<1> QED
  BY <1>1, <1>5, <1>6

\* The rows that wait are in tables.
LEMMA BatchTables ==
  ASSUME NEW g, GraphOK(g), NEW batch, WantIs(g, batch), batch \subseteq WantTables(g)
  PROVE  \A row \in batch : row \in Nat /\ row < g.next
<1>1. g.want \subseteq DOMAIN g.functions
  BY DEF WantIs
<1> QED
  BY <1>1 DEF GraphOK, TablesOK, WantTables

\* An e-graph and the batch that waits for it.
BatchOK(g, batch) ==
  /\ GraphOK(g) /\ batch \in Seq(Nat) /\ WantIs(g, F!ToSet(batch)) /\ F!ToSet(batch) \subseteq WantTables(g)

\* Prepared calls.
TablesFor(g, cs, tables) ==
  /\ \A i \in DOMAIN cs : cs[i].name \in DOMAIN g.functions
  /\ tables \in Seq(Nat) /\ F!ToSet(tables) = TablesOf(g, cs)

\* The same constructors.
SameMeta(g, h) == h.functions = g.functions /\ h.sigs = g.sigs /\ h.refused = g.refused

\* Queueing a prepared action, or executing it with the batch before it.
LEMMA QueuedIs ==
  ASSUME NEW g, NEW batch, BatchOK(g, batch), NEW cs, NEW tables, TablesFor(g, cs, tables)
  PROVE  LET q == F!Queued(g, batch, tables)
         IN  BatchOK(F!Want(q.g, cs), q.batch) /\ SameMeta(g, F!Want(q.g, cs))
<1>9. PICK q \in {F!Queued(g, batch, tables)}, h \in {F!Want(F!Queued(g, batch, tables).g, cs)} :
        q = F!Queued(g, batch, tables) /\ h = F!Want(q.g, cs)
  OBVIOUS
<1>10. /\ GraphOK(g) /\ batch \in Seq(Nat) /\ WantIs(g, F!ToSet(batch)) /\ F!ToSet(batch) \subseteq WantTables(g)
       /\ \A i \in DOMAIN cs : cs[i].name \in DOMAIN g.functions
       /\ tables \in Seq(Nat) /\ F!ToSet(tables) = TablesOf(g, cs)
  BY DEF BatchOK, TablesFor
<1>1. \/ /\ q.batch = <<>>
         /\ q.g = [g EXCEPT !.rows = @ \cup F!ToSet(batch \o tables)]
      \/ q.batch = batch \o tables /\ q.g = g
  BY <1>9 DEF F!Queued
<1>2. PICK all \in {F!ToSet(batch \o tables)} : all = F!ToSet(batch \o tables)
  OBVIOUS
<1>3. all = F!ToSet(batch) \cup TablesOf(g, cs) /\ batch \o tables \in Seq(Nat)
  BY <1>10, <1>2, ConcatSet
<1>4. \A row \in all : row \in Nat /\ row < g.next
  <2>1. \A row \in F!ToSet(batch) : row \in Nat /\ row < g.next
    BY <1>10, BatchTables
  <2>2. \A row \in TablesOf(g, cs) : row \in Nat /\ row < g.next
    BY <1>10, TablesExist
  <2> QED
    BY <1>3, <2>1, <2>2
<1>5. CASE q.batch = <<>> /\ q.g = [g EXCEPT !.rows = @ \cup F!ToSet(batch \o tables)]
  <2>1. PICK stocked \in {g.rows \cup all} : stocked = g.rows \cup all
    OBVIOUS
  <2>2. q.g = [g EXCEPT !.rows = stocked]
    BY <1>10, <1>2, <1>5, <2>1 DEF GraphOK, IsGraph
  <2>3. \A row \in stocked : row \in Nat /\ row < g.next
    BY <1>10, <1>4, <2>1 DEF GraphOK, TablesOK
  <2>4. /\ GraphOK(q.g) /\ q.g.rows = stocked /\ q.g.want = g.want
        /\ q.g.functions = g.functions /\ q.g.sigs = g.sigs /\ q.g.refused = g.refused
    <3> DEFINE b == [g EXCEPT !.rows = stocked]
    <3>1. /\ GraphOK(b) /\ b.rows = stocked /\ b.want = g.want
          /\ b.functions = g.functions /\ b.sigs = g.sigs /\ b.refused = g.refused
      BY <1>10, <2>3, RowsMore
    <3> HIDE DEF b
    <3> QED
      BY <2>2, <3>1 DEF b
  <2>5. /\ GraphOK(h) /\ h.rows = stocked /\ h.want = g.want \cup NamesOf(cs)
        /\ h.functions = g.functions /\ h.sigs = g.sigs /\ h.refused = g.refused
    BY <1>9, <2>4, WantOnly
  <2>6. F!ToSet(q.batch) = {} /\ q.batch \in Seq(Nat)
    BY <1>5 DEF F!ToSet
  <2>7. h.rows \cup {} = g.rows \cup F!ToSet(batch) \cup TablesOf(g, cs)
    BY <1>3, <2>1, <2>5
  <2>8. WantIs(h, {})
    BY <1>10, <2>5, <2>7, WantMore
  <2> QED
    BY <1>9, <2>5, <2>6, <2>8 DEF BatchOK, SameMeta
<1>6. CASE q.batch = batch \o tables /\ q.g = g
  <2>1. /\ GraphOK(h) /\ h.rows = g.rows /\ h.want = g.want \cup NamesOf(cs)
        /\ h.functions = g.functions /\ h.sigs = g.sigs /\ h.refused = g.refused
    BY <1>9, <1>10, <1>6, WantOnly
  <2>2. h.rows \cup all = g.rows \cup F!ToSet(batch) \cup TablesOf(g, cs)
    BY <1>3, <2>1
  <2>3. WantIs(h, all)
    BY <1>10, <2>1, <2>2, WantMore
  <2>4. \A row \in TablesOf(g, cs) : \E f \in NamesOf(cs) : row = g.functions[f].table
    BY DEF TablesOf, NamesOf
  <2>5. all \subseteq WantTables(h)
    BY <1>10, <1>3, <2>1, <2>4 DEF WantTables
  <2> QED
    BY <1>9, <1>2, <1>3, <1>6, <2>1, <2>3, <2>5 DEF BatchOK, SameMeta
<1> QED
  BY <1>1, <1>5, <1>6

\* Calls that an action is made of.
IsAction(cs) == cs \in Seq(F!ToSet(cs))

\* The tables of a prepared action.
LEMMA PreparedIs ==
  ASSUME NEW g, GraphOK(g), NEW known, Current(g, known), NEW cs, IsAction(cs),
         NEW p, p = F!Prepare(g, known, cs)
  PROVE  /\ Current(g, p.calls)
         /\ p.ok => TablesFor(g, cs, p.tables)
<1>1. Len(cs) \in Nat /\ DOMAIN cs = 1..Len(cs)
  BY DEF IsAction
<1>2. /\ Current(g, p.calls)
      /\ p.ok => /\ p.tables = [i \in DOMAIN cs |-> g.functions[cs[i].name].table]
                 /\ \A i \in DOMAIN cs : cs[i].name \in DOMAIN g.functions
  BY <1>1, PrepareIs
<1>3. ASSUME p.ok PROVE p.tables \in Seq(Nat) /\ F!ToSet(p.tables) = TablesOf(g, cs)
  <2>1. DOMAIN p.tables = 1..Len(cs) /\ \A i \in DOMAIN cs : p.tables[i] = g.functions[cs[i].name].table
    BY <1>1, <1>2, <1>3
  <2>2. F!ToSet(p.tables) = TablesOf(g, cs)
    BY <1>1, <2>1 DEF F!ToSet, TablesOf
  <2>3. p.tables \in Seq(Nat)
    <3>1. \A i \in 1..Len(cs) : g.functions[cs[i].name].table \in Nat
      BY <1>1, <1>2, <1>3 DEF GraphOK, TablesOK
    <3>2. p.tables = [i \in 1..Len(cs) |-> g.functions[cs[i].name].table]
      BY <1>1, <1>2, <1>3
    <3> QED
      BY <1>1, <3>1, <3>2
  <2> QED
    BY <2>2, <2>3
<1> QED
  BY <1>2, <1>3 DEF TablesFor

\* A prepared action.
LEMMA PreparedStep == ASSUME FEInv, NEW cs, IsAction(cs), F!ActPrepared(cs) PROVE FEInv'
<1>1. PICK p \in {F!Prepare(egraph, calls, cs)} : p = F!Prepare(egraph, calls, cs)
  OBVIOUS
<1>2. PICK q \in {F!Queued(egraph, pending, p.tables)} : q = F!Queued(egraph, pending, p.tables)
  OBVIOUS
<1>3. p.ok /\ egraph' = F!Want(q.g, cs) /\ pending' = q.batch /\ calls' = p.calls /\ UNCHANGED <<snapshots, panicked>>
  BY <1>1, <1>2 DEF F!ActPrepared
<1>4. BatchOK(egraph, pending) /\ Current(egraph, calls) /\ panicked \in egraph.refused \cup {None}
  BY DEF FEInv, BatchOK, F!CacheIsCurrent, Current, WantTables
<1>5. Current(egraph, p.calls) /\ TablesFor(egraph, cs, p.tables)
  BY <1>1, <1>3, <1>4, PreparedIs DEF BatchOK
<1>6. BatchOK(egraph', pending') /\ SameMeta(egraph, egraph')
  BY <1>2, <1>3, <1>4, <1>5, QueuedIs
<1>7. Current(egraph', calls')
  BY <1>3, <1>5, <1>6, SameCalls DEF SameMeta
<1>8. F!CacheIsCurrent'
  BY <1>6, <1>7 DEF BatchOK, F!CacheIsCurrent, Current, F!ConstructorCall, WantTables
<1> QED
  BY <1>3, <1>4, <1>6, <1>8, PushedStays DEF FEInv, BatchOK, SameMeta

-----------------------------------------------------------------------------
(* Compiling actions *)

SameButRows(g, h) ==
  /\ IsGraph(h) /\ h.sorts = g.sorts /\ h.sigs = g.sigs /\ h.globals = g.globals /\ h.bindings = g.bindings
  /\ h.names = g.names /\ h.functions = g.functions /\ h.next = g.next /\ h.want = g.want
  /\ h.refused = g.refused

\* The first k calls, compiled.
AfterCompiling(g, o, cs, k) ==
  /\ SameButRows(g, o.g)
  /\ o.panic \in g.refused \cup {None}
  /\ o.ok => /\ \A i \in DOMAIN cs : i <= k => cs[i].name \in DOMAIN g.functions
             /\ o.g.rows = g.rows \cup {g.functions[cs[i].name].table : i \in {i \in DOMAIN cs : i <= k}}

\* A call that is well typed is compiled, or panics if its declaration was refused.
LEMMA CompileIs ==
  ASSUME NEW g, GraphOK(g), NEW h, SameButRows(g, h), NEW c, F!WellTyped(g, c), NEW o, o = F!Compile(h, c)
  PROVE  /\ SameButRows(g, o.g) /\ o.panic \in g.refused \cup {None}
         /\ o.ok => c.name \in DOMAIN g.functions /\ o.g.rows = h.rows \cup {g.functions[c.name].table}
<1>1. CASE c.name \notin DOMAIN h.functions
  <2>1. o.g = h /\ o.panic = c.name /\ ~o.ok
    BY <1>1, OutcomesAre DEF F!Compile
  <2>2. c.name \in g.refused
    BY <1>1, WellTypedIs DEF SameButRows
  <2> QED
    BY <2>1, <2>2
<1>2. CASE c.name \in DOMAIN h.functions
  <2>1. o.panic = None /\ (o.ok <=> h.functions[c.name].arity = c.args)
    BY <1>2, OutcomesAre DEF F!Compile, F!Outcome
  <2>2. PICK stocked : /\ stocked = IF h.functions[c.name].arity = c.args
                              THEN h.rows \cup {h.functions[c.name].table} ELSE h.rows
    OBVIOUS
  <2>3. o.g = [h EXCEPT !.rows = stocked]
    BY <1>2, <2>2, OutcomesAre DEF F!Compile, F!Outcome, SameButRows, IsGraph
  <2>4. SameButRows(g, o.g) /\ o.g.rows = stocked
    BY <2>3 DEF SameButRows, IsGraph
  <2> QED
    BY <1>2, <2>1, <2>2, <2>4 DEF SameButRows
<1> QED
  BY <1>1, <1>2

\* Compiling the k-th call, if it comes to it.
LEMMA CompileThen ==
  ASSUME NEW g, GraphOK(g), NEW cs, DOMAIN cs \subseteq {1, 2}, \A i \in DOMAIN cs : F!WellTyped(g, cs[i]),
         NEW k \in {1, 2, 3}, NEW o, AfterCompiling(g, o, cs, k - 1)
  PROVE  AfterCompiling(g, F!Then(F!Compile, o, cs, k), cs, k)
<1>1. CASE o.ok /\ k \in DOMAIN cs
  <2>1. PICK r : r = F!Compile(o.g, cs[k])
    OBVIOUS
  <2>2. F!Then(F!Compile, o, cs, k) = r
    BY <1>1, <2>1 DEF F!Then
  <2>3. /\ SameButRows(g, r.g) /\ r.panic \in g.refused \cup {None}
        /\ r.ok => cs[k].name \in DOMAIN g.functions /\ r.g.rows = o.g.rows \cup {g.functions[cs[k].name].table}
    BY <1>1, <2>1, CompileIs DEF AfterCompiling
  <2>4. {i \in DOMAIN cs : i <= k} = {i \in DOMAIN cs : i <= k - 1} \cup {k}
    BY <1>1
  <2>5. ASSUME r.ok PROVE \A i \in DOMAIN cs : i <= k => cs[i].name \in DOMAIN g.functions
    BY <1>1, <2>3, <2>4, <2>5 DEF AfterCompiling
  <2>6. ASSUME r.ok
        PROVE  r.g.rows = g.rows \cup {g.functions[cs[i].name].table : i \in {i \in DOMAIN cs : i <= k}}
    <3> DEFINE before == {i \in DOMAIN cs : i <= k - 1}
               now == {i \in DOMAIN cs : i <= k}
    <3>1. o.g.rows = g.rows \cup {g.functions[cs[i].name].table : i \in before}
      BY <1>1 DEF AfterCompiling
    <3>2. now = before \cup {k}
      BY <2>4
    <3> HIDE DEF before, now
    <3>3. r.g.rows = g.rows \cup {g.functions[cs[i].name].table : i \in now}
      BY <2>3, <2>6, <3>1, <3>2
    <3> QED
      BY <3>3 DEF now
  <2> QED
    BY <2>2, <2>3, <2>5, <2>6 DEF AfterCompiling
<1>2. CASE ~(o.ok /\ k \in DOMAIN cs)
  <2>1. F!Then(F!Compile, o, cs, k) = o
    BY <1>2 DEF F!Then
  <2>2. ASSUME o.ok PROVE {i \in DOMAIN cs : i <= k} = {i \in DOMAIN cs : i <= k - 1}
    BY <1>2, <2>2
  <2>3. ASSUME o.ok PROVE \A i \in DOMAIN cs : i <= k => i <= k - 1
    BY <1>2, <2>3
  <2> QED
    BY <2>1, <2>2, <2>3 DEF AfterCompiling
<1> QED
  BY <1>1, <1>2

\* Compiling an action.
LEMMA CompilePass ==
  ASSUME NEW g, GraphOK(g), NEW cs, DOMAIN cs \subseteq {1, 2}, \A i \in DOMAIN cs : F!WellTyped(g, cs[i]),
         NEW o, o = F!Pass(F!Compile, F!Done(g), cs)
  PROVE  /\ SameButRows(g, o.g) /\ o.panic \in g.refused \cup {None}
         /\ o.ok => (\A i \in DOMAIN cs : cs[i].name \in DOMAIN g.functions) /\ o.g.rows = g.rows \cup TablesOf(g, cs)
<1>1. AfterCompiling(g, F!Done(g), cs, 1 - 1)
  <2>1. {i \in DOMAIN cs : i <= 1 - 1} = {}
    OBVIOUS
  <2>2. SameButRows(g, g)
    BY DEF SameButRows, GraphOK
  <2> QED
    BY <2>1, <2>2, OutcomesAre DEF AfterCompiling
<1>2. PICK o1 : o1 = F!Then(F!Compile, F!Done(g), cs, 1)
  OBVIOUS
<1>3. PICK o2 : o2 = F!Then(F!Compile, o1, cs, 2)
  OBVIOUS
<1>4. AfterCompiling(g, o1, cs, 2 - 1)
  <2>1. AfterCompiling(g, o1, cs, 1)
    BY <1>1, <1>2, CompileThen
  <2> QED
    BY <2>1
<1>5. AfterCompiling(g, o2, cs, 3 - 1)
  <2>1. AfterCompiling(g, o2, cs, 2)
    BY <1>3, <1>4, CompileThen
  <2> QED
    BY <2>1
<1>6. AfterCompiling(g, o, cs, 3)
  <2>1. o = F!Then(F!Compile, o2, cs, 3)
    BY <1>2, <1>3 DEF F!Pass
  <2> QED
    BY <1>5, <2>1, CompileThen
<1>7. {i \in DOMAIN cs : i <= 3} = DOMAIN cs
  OBVIOUS
<1> QED
  BY <1>6, <1>7 DEF AfterCompiling, TablesOf

\* Rows in the tables of constructors leave an e-graph sound.
LEMMA CompiledOK ==
  ASSUME NEW g, GraphOK(g), WantIs(g, {}), NEW cs, \A i \in DOMAIN cs : cs[i].name \in DOMAIN g.functions,
         NEW h, SameButRows(g, h), h.rows = g.rows \cup TablesOf(g, cs)
  PROVE  GraphOK(F!Want(h, cs)) /\ WantIs(F!Want(h, cs), {}) /\ F!Want(h, cs).refused = g.refused
<1>1. \A row \in h.rows : row \in Nat /\ row < g.next
  BY TablesExist DEF GraphOK, TablesOK
<1>2. GraphOK(h)
  BY <1>1 DEF SameButRows, GraphOK, TablesOK, NamesOK, UsableOK
<1>3. PICK w \in {F!Want(h, cs)} : w = F!Want(h, cs)
  OBVIOUS
<1>4. /\ GraphOK(w) /\ w.rows = h.rows /\ w.want = h.want \cup NamesOf(cs)
      /\ w.functions = h.functions /\ w.refused = h.refused
  BY <1>2, <1>3, WantOnly
<1>5. w.functions = g.functions /\ w.want = g.want \cup NamesOf(cs) /\ w.refused = g.refused
  BY <1>4 DEF SameButRows
<1>6. w.rows \cup {} = g.rows \cup {} \cup TablesOf(g, cs)
  BY <1>4
<1>7. WantIs(w, {})
  BY <1>5, <1>6, WantMore
<1> QED
  BY <1>3, <1>4, <1>5, <1>7

\* A declined action: refused, prepared after the flush, or compiled.
LEMMA ResolvedStep ==
  ASSUME FEInv, NEW cs, IsAction(cs), DOMAIN cs \subseteq {1, 2}, F!ActResolved(cs)
  PROVE  FEInv'
<1>1. PICK g \in {F!Flushed} : g = F!Flushed
  OBVIOUS
<1>2. GraphOK(g) /\ WantIs(g, {}) /\ g.refused = egraph.refused
  BY <1>1, FlushedIs
<1>3. PICK p \in {F!Prepare(g, <<>>, cs)} : p = F!Prepare(g, <<>>, cs)
  OBVIOUS
<1>4. PICK q \in {F!Queued(g, <<>>, p.tables)} : q = F!Queued(g, <<>>, p.tables)
  OBVIOUS
<1>5. PICK o : o = F!Pass(F!Compile, F!Done(g), cs)
  OBVIOUS
<1>6. /\ IF ~F!WellTypedAction(g, cs)
         THEN F!Committed(F!Refused(g), {})
         ELSE IF p.ok
         THEN egraph' = F!Want(q.g, cs) /\ pending' = q.batch /\ calls' = p.calls /\ UNCHANGED panicked
         ELSE F!Committed(IF o.ok THEN F!Done(F!Want(o.g, cs)) ELSE [o EXCEPT !.g = F!Flushed], {})
      /\ UNCHANGED snapshots
  BY <1>1, <1>3, <1>4, <1>5 DEF F!ActResolved, F!Expired
<1>7. PushedOK'
  BY <1>6, PushedStays
<1>8. CASE ~F!WellTypedAction(g, cs)
  <2>1. F!Refused(F!Flushed).g = F!Flushed /\ F!Refused(F!Flushed).panic = None
    BY OutcomesAre
  <2> QED
    BY <1>1, <1>6, <1>7, <1>8, <2>1, CommittedOnly
<1>9. CASE F!WellTypedAction(g, cs) /\ p.ok
  <2>1. Current(g, <<>>) /\ F!ToSet(<<>>) = {} /\ <<>> \in Seq(Nat)
    BY DEF Current, F!ToSet
  <2>2. BatchOK(g, <<>>)
    BY <1>2, <2>1 DEF BatchOK
  <2>3. Current(g, p.calls) /\ TablesFor(g, cs, p.tables)
    BY <1>2, <1>3, <1>9, <2>1, PreparedIs
  <2>4. BatchOK(F!Want(q.g, cs), q.batch) /\ SameMeta(g, F!Want(q.g, cs))
    BY <1>4, <2>2, <2>3, QueuedIs
  <2>5. egraph' = F!Want(q.g, cs) /\ pending' = q.batch /\ calls' = p.calls /\ panicked' = panicked
    BY <1>6, <1>9
  <2>6. BatchOK(egraph', pending') /\ SameMeta(g, egraph')
    BY <2>4, <2>5
  <2>7. Current(egraph', calls')
    BY <2>3, <2>5, <2>6, SameCalls DEF SameMeta
  <2>8. F!CacheIsCurrent'
    BY <2>6, <2>7 DEF BatchOK, F!CacheIsCurrent, Current, F!ConstructorCall, WantTables
  <2>9. panicked' \in egraph'.refused \cup {None}
    BY <1>2, <2>5, <2>6 DEF SameMeta, FEInv
  <2> QED
    BY <1>7, <2>6, <2>8, <2>9 DEF FEInv, BatchOK
<1>10. CASE F!WellTypedAction(g, cs) /\ ~p.ok
  <2>1. \A i \in DOMAIN cs : F!WellTyped(g, cs[i])
    BY <1>10 DEF F!WellTypedAction
  <2>2. /\ SameButRows(g, o.g) /\ o.panic \in g.refused \cup {None}
        /\ o.ok => (\A i \in DOMAIN cs : cs[i].name \in DOMAIN g.functions) /\ o.g.rows = g.rows \cup TablesOf(g, cs)
    BY <1>2, <1>5, <2>1, CompilePass
  <2>3. CASE o.ok
    <3>1. PICK w \in {F!Want(o.g, cs)} : w = F!Want(o.g, cs)
      OBVIOUS
    <3>2. GraphOK(w) /\ WantIs(w, {}) /\ w.refused = g.refused
      BY <1>2, <2>2, <2>3, <3>1, CompiledOK
    <3>3. F!Committed(F!Done(w), {})
      BY <1>6, <1>10, <2>3, <3>1
    <3>4. egraph' = w /\ panicked' = None
      BY <3>3, OutcomesAre DEF F!Committed, F!Finish
    <3> QED
      BY <1>7, <3>2, <3>3, <3>4, CommittedIs
  <2>4. CASE ~o.ok
    <3>1. PICK e : e = [o EXCEPT !.g = F!Flushed]
      OBVIOUS
    <3>2. F!Committed(e, {})
      BY <1>6, <1>10, <2>4, <3>1
    <3>3. DOMAIN o = {"ok", "g", "panic"}
      <4>1. DOMAIN F!Done(g) = {"ok", "g", "panic"}
        BY DEF F!Done
      <4>2. \A h, c : DOMAIN F!Compile(h, c) = {"ok", "g", "panic"}
        BY DEF F!Compile, F!Outcome, F!Done, F!Refused, F!Panics
      <4> QED
        BY <1>5, <4>1, <4>2 DEF F!Pass, F!Then
    <3>4. e.g = F!Flushed /\ e.panic = o.panic
      BY <3>1, <3>3
    <3> QED
      BY <1>2, <1>7, <2>2, <3>2, <3>4, CommittedOnly
  <2> QED
    BY <2>3, <2>4
<1> QED
  BY <1>8, <1>9, <1>10

\* A fail leaves nothing of what was run in it but a panic, which is of a refused declaration.
LEMMA FailStep ==
  ASSUME FEInv, NEW cs, IsAction(cs), DOMAIN cs \subseteq {1}, NEW c, F!FailCommand(cs, c)
  PROVE  FEInv'
<1>1. PICK g \in {F!Flushed} : g = F!Flushed
  OBVIOUS
<1>2. GraphOK(g) /\ g.refused = egraph.refused
  BY <1>1, FlushedIs
<1>3. PICK o : o = F!Pass(F!RunAlone, F!Done(g), cs)
  OBVIOUS
<1>4. PICK r : r = IF o.ok THEN F!CheckFacts(o.g, c) ELSE o
  OBVIOUS
<1>5. PICK e : e = IF \E d \in F!ToSet(cs) \cup {c} : ~F!WellTyped(g, d) THEN F!Refused(g)
                   ELSE IF r.panic # None THEN [r EXCEPT !.g = g]
                   ELSE F!Outcome(~r.ok, g)
  OBVIOUS
<1>6. F!Committed(e, {}) /\ PushedOK'
  BY <1>1, <1>3, <1>4, <1>5, PushedStays DEF F!FailCommand, F!Restored
<1>7. CASE \E d \in F!ToSet(cs) \cup {c} : ~F!WellTyped(g, d)
  <2>1. e.g = F!Flushed /\ e.panic = None
    BY <1>1, <1>5, <1>7, OutcomesAre
  <2> QED
    BY <1>6, <2>1, CommittedOnly
<1>8. CASE \A d \in F!ToSet(cs) \cup {c} : F!WellTyped(g, d)
  <2> DEFINE fields == {"ok", "g", "panic"}
  <2>1. SameButRows(g, o.g) /\ o.panic \in g.refused \cup {None} /\ DOMAIN o = fields
    <3>1. CASE 1 \notin DOMAIN cs
      <4>1. o = F!Done(g)
        BY <1>3, <3>1 DEF F!Pass, F!Then
      <4>2. DOMAIN F!Done(g) = fields
        BY DEF F!Done
      <4> QED
        BY <1>2, <4>1, <4>2, OutcomesAre DEF SameButRows, GraphOK
    <3>2. CASE 1 \in DOMAIN cs
      <4>1. o = F!RunAlone(g, cs[1])
        BY <1>3, <3>2, OutcomesAre DEF F!Pass, F!Then
      <4>2. F!WellTyped(g, cs[1])
        BY <1>8, <3>2 DEF F!ToSet
      <4>3. PICK p : p = F!Prepare(g, <<>>, <<cs[1]>>)
        OBVIOUS
      <4>4. CASE p.ok
        <5>1. o = F!Done([g EXCEPT !.rows = @ \cup F!ToSet(p.tables)])
          BY <4>1, <4>3, <4>4 DEF F!RunAlone
        <5>2. PICK h : h = [g EXCEPT !.rows = @ \cup F!ToSet(p.tables)]
          OBVIOUS
        <5>3. SameButRows(g, h)
          BY <1>2, <5>2 DEF SameButRows, GraphOK, IsGraph
        <5>4. DOMAIN F!Done(h) = fields
          BY DEF F!Done
        <5> QED
          BY <5>1, <5>2, <5>3, <5>4, OutcomesAre
      <4>5. CASE ~p.ok
        <5>1. o = F!Compile(g, cs[1])
          BY <4>1, <4>3, <4>5 DEF F!RunAlone
        <5>2. SameButRows(g, g)
          BY <1>2 DEF SameButRows, GraphOK
        <5>3. SameButRows(g, o.g) /\ o.panic \in g.refused \cup {None}
          BY <1>2, <4>2, <5>1, <5>2, CompileIs
        <5>4. DOMAIN o = fields
          BY <5>1 DEF F!Compile, F!Outcome, F!Done, F!Refused, F!Panics
        <5> QED
          BY <5>3, <5>4
      <4> QED
        BY <4>4, <4>5
    <3> QED
      BY <3>1, <3>2
  <2>2. DOMAIN r = fields
    <3>1. \A h : DOMAIN F!CheckFacts(h, c) = fields
      BY DEF F!CheckFacts, F!Outcome, F!Done, F!Refused, F!Panics
    <3> QED
      BY <1>4, <2>1, <3>1
  <2>3. r.panic \in g.refused \cup {None}
    <3>1. CASE o.ok
      <4>1. r = F!CheckFacts(o.g, c)
        BY <1>4, <3>1
      <4>2. F!WellTyped(g, c)
        BY <1>8
      <4>3. c.name \in g.refused \/ (c.name \in DOMAIN g.functions /\ g.functions[c.name].arity = c.args)
        BY <1>2, <4>2, WellTypedIs
      <4>4. CASE c.name \notin DOMAIN o.g.functions \/ o.g.functions[c.name].arity # c.args
        <5>1. r.panic = c.name
          BY <4>1, <4>4, OutcomesAre DEF F!CheckFacts
        <5> QED
          BY <2>1, <4>3, <4>4, <5>1 DEF SameButRows
      <4>5. CASE ~(c.name \notin DOMAIN o.g.functions \/ o.g.functions[c.name].arity # c.args)
        BY <4>1, <4>5, OutcomesAre DEF F!CheckFacts, F!Outcome
      <4> QED
        BY <4>4, <4>5
    <3>2. CASE ~o.ok
      BY <1>4, <2>1, <3>2
    <3> QED
      BY <3>1, <3>2
  <2>4. e.g = g /\ e.panic \in g.refused \cup {None}
    <3>1. CASE r.panic # None
      <4>1. e = [r EXCEPT !.g = g]
        BY <1>5, <1>8, <3>1
      <4> QED
        BY <2>2, <2>3, <4>1
    <3>2. CASE r.panic = None
      <4>1. e = F!Outcome(~r.ok, g)
        BY <1>5, <1>8, <3>2
      <4> QED
        BY <4>1, OutcomesAre DEF F!Outcome
    <3> QED
      BY <3>1, <3>2
  <2> QED
    BY <1>1, <1>2, <1>6, <2>4, CommittedOnly
<1> QED
  BY <1>7, <1>8

-----------------------------------------------------------------------------
(* The driver *)

\* The first e-graph.
LEMMA FEStart == ASSUME F!FEInit PROVE FEInv
<1>1. /\ egraph = F!EmptyGraph /\ snapshots = <<>> /\ pending = <<>> /\ calls = <<>> /\ panicked = None
  BY DEF F!FEInit
<1>2. PICK g \in {F!EmptyGraph} : g = F!EmptyGraph
  OBVIOUS
<1>3. /\ IsGraph(g) /\ g.sorts = {} /\ g.sigs = <<>> /\ g.globals = {} /\ g.bindings = {} /\ g.names = {}
      /\ g.functions = <<>> /\ g.next = 1 /\ g.rows = {} /\ g.want = {} /\ g.refused = {}
  BY <1>2 DEF F!EmptyGraph, IsGraph
<1>4. DOMAIN g.functions = {} /\ DOMAIN g.sigs = {} /\ DOMAIN calls = {} /\ F!ToSet(pending) = {}
  BY <1>1, <1>3 DEF F!ToSet
<1>5. TablesOK(g) /\ NamesOK(g) /\ UsableOK(g)
  BY <1>3, <1>4 DEF TablesOK, NamesOK, UsableOK
<1>6. WantIs(g, F!ToSet(pending)) /\ F!CacheIsCurrent
  BY <1>3, <1>4 DEF WantIs, F!CacheIsCurrent
<1>7. PushedOK
  BY <1>1 DEF PushedOK
<1> QED
  BY <1>1, <1>2, <1>3, <1>5, <1>6, <1>7 DEF FEInv, GraphOK

\* What commands are desugared into, and the calls of an action.
LEMMA CommandsAre ==
  /\ \A s, f, n : IsCommand(<<F!Sort(s), F!Function(f, n, s)>>)
  /\ \A s, f, h, n : IsCommand(<<F!Sort(s), F!Function(f, 0, s), F!Function(h, n, s)>>)
  /\ \A s, f, n : IsCommand(<<F!Function(f, n, s)>>)
  /\ \A x, fails : IsCommand(<<F!Let(x, fails)>>)
  /\ IsAction(<<>>) /\ DOMAIN <<>> = {}
  /\ \A c : IsAction(<<c>>) /\ DOMAIN <<c>> = {1}
  /\ \A c, d : IsAction(<<c, d>>) /\ DOMAIN <<c, d>> = {1, 2}
<1>1. /\ \A s : F!Sort(s).kind = "sort"
      /\ \A f, n, s : F!Function(f, n, s).kind = "function"
      /\ \A x, fails : F!Let(x, fails).kind = "let"
  BY DEF F!Sort, F!Function, F!Let
<1>2. \A a, b : a.kind \in {"sort", "function", "let"} /\ b.kind \in {"sort", "function", "let"} => IsCommand(<<a, b>>)
  BY DEF IsCommand
<1>3. ASSUME NEW a, NEW b, NEW c, a.kind \in {"sort", "function", "let"}, b.kind \in {"sort", "function", "let"},
             c.kind \in {"sort", "function", "let"}
      PROVE  IsCommand(<<a, b, c>>)
  <2>1. PICK cs \in {<<a, b, c>>} : cs = <<a, b, c>>
    OBVIOUS
  <2>2. DOMAIN cs = {1, 2, 3} /\ cs[1] = a /\ cs[2] = b /\ cs[3] = c
    BY <2>1
  <2> QED
    BY <1>3, <2>1, <2>2 DEF IsCommand
<1>4. \A a : a.kind \in {"sort", "function", "let"} => IsCommand(<<a>>)
  BY DEF IsCommand
<1>5. IsAction(<<>>) /\ DOMAIN <<>> = {}
  BY DEF IsAction
<1>6. \A c : IsAction(<<c>>) /\ DOMAIN <<c>> = {1}
  BY DEF IsAction, F!ToSet
<1>7. \A c, d : IsAction(<<c, d>>) /\ DOMAIN <<c, d>> = {1, 2}
  BY DEF IsAction, F!ToSet
<1> QED
  BY <1>1, <1>2, <1>3, <1>4, <1>5, <1>6, <1>7

\* Every command keeps the invariant.
LEMMA FEStep == ASSUME FEInv, F!FENext PROVE FEInv'
<1>1. ASSUME NEW cs, IsCommand(cs), F!DeclareCommand(cs) PROVE FEInv'
  BY <1>1, DeclareStep
<1>2. ASSUME NEW cs, IsAction(cs), DOMAIN cs \subseteq {1, 2}, F!ActPrepared(cs) \/ F!ActResolved(cs) PROVE FEInv'
  BY <1>2, PreparedStep, ResolvedStep
<1>3. CASE \E s \in Names \cup SortNames, f \in Names, n \in F!AnyArity :
             F!DeclareCommand(<<F!Sort(s), F!Function(f, n, s)>>)
  BY <1>1, <1>3, CommandsAre
<1>4. CASE \E s \in Names \cup SortNames, f, h \in Names, n \in {0, F!Undefined} :
             F!DeclareCommand(<<F!Sort(s), F!Function(f, 0, s), F!Function(h, n, s)>>)
  BY <1>1, <1>4, CommandsAre
<1>5. CASE \E s \in Names \cup SortNames, f \in Names, n \in F!Arities : F!DeclareCommand(<<F!Function(f, n, s)>>)
  BY <1>1, <1>5, CommandsAre
<1>6. CASE \E x \in Names, fails \in BOOLEAN : F!DeclareCommand(<<F!Let(x, fails)>>)
  BY <1>1, <1>6, CommandsAre
<1>7. CASE \E f \in Names, n \in F!Arities :
             F!ActPrepared(<<F!Call(f, n)>>) \/ F!ActResolved(<<F!Call(f, n)>>) \/ F!CheckCommand(F!Call(f, n))
  BY <1>2, <1>7, CommandsAre, CheckStep
<1>8. CASE \E f, h \in Names :
             LET cs == <<F!Call(f, 0), F!Call(h, 0)>> IN F!ActPrepared(cs) \/ F!ActResolved(cs)
  BY <1>2, <1>8, CommandsAre
<1>9. CASE \E x \in Names : F!ReadGlobal(x)
  BY <1>9, CheckStep
<1>10. CASE \E h \in Names, n \in F!Arities : F!FailCommand(<<>>, F!Call(h, n))
  BY <1>10, CommandsAre, FailStep
<1>11. CASE \E f, h \in Names : F!FailCommand(<<F!Call(f, 0)>>, F!Call(h, 0))
  BY <1>11, CommandsAre, FailStep
<1>12. CASE F!Push \/ F!Pop \/ F!EndProgram
  BY <1>12, PushStep, PopStep, CheckStep
<1> QED
  BY <1>3, <1>4, <1>5, <1>6, <1>7, <1>8, <1>9, <1>10, <1>11, <1>12 DEF F!FENext

\* The invariant says what the properties say.
LEMMA FEImplies == ASSUME FEInv PROVE F!BatchIsSequential /\ F!CacheIsCurrent /\ F!NamesAreSound
<1>1. PICK S : snapshots \in Seq(S) /\ \A g \in S : GraphOK(g) /\ WantIs(g, {})
  BY DEF FEInv, PushedOK
<1>2. F!ToSet(snapshots) \subseteq S
  BY <1>1 DEF F!ToSet
<1>3. \A g : WantIs(g, {}) => F!Present(g) = g.want
  BY DEF WantIs, F!Present
<1>4. pending = <<>> => F!ToSet(pending) = {}
  BY DEF F!ToSet
<1>5. F!BatchIsSequential
  BY <1>1, <1>2, <1>3, <1>4 DEF FEInv, F!BatchIsSequential
<1>6. F!DeclaredIsUsable
  BY DEF FEInv, GraphOK, UsableOK, F!DeclaredIsUsable
<1>7. F!OneMeaning
  BY DEF FEInv, GraphOK, NamesOK, F!OneMeaning
<1> QED
  BY <1>5, <1>6, <1>7 DEF FEInv, F!NamesAreSound

\* Commands, batches, snapshots and refusals, in any order: the driver keeps its invariant.
THEOREM DriverHolds == F!FESpec => []FEInv
<1>1. F!FEInit => FEInv
  BY FEStart
<1>2. FEInv /\ [F!FENext]_(F!feVars) => FEInv'
  <2>1. ASSUME FEInv, UNCHANGED F!feVars PROVE FEInv'
    <3>1. egraph' = egraph /\ snapshots' = snapshots /\ pending' = pending /\ calls' = calls /\ panicked' = panicked
      BY <2>1 DEF F!feVars
    <3>2. PushedOK'
      BY <2>1, <3>1, PushedStays
    <3>3. F!CacheIsCurrent'
      BY <2>1, <3>1 DEF FEInv, F!CacheIsCurrent
    <3> QED
      BY <2>1, <3>1, <3>2, <3>3 DEF FEInv
  <2> QED
    BY <2>1, FEStep
<1> QED
  BY <1>1, <1>2, PTL DEF F!FESpec

-----------------------------------------------------------------------------
(* Rules and the driver *)

\* A behaviour of both is one of each.
LEMMA Parts == MCSpec => SchedSpec /\ F!FESpec
<1>1. MCInit => SchedInit /\ F!FEInit
  BY DEF MCInit
<1>2. [MCNext]_<<part, vars, schedVars, programVars>> => [SchedNext]_<<vars, schedVars>>
  BY DEF MCNext
<1>3. [MCNext]_<<part, vars, schedVars, programVars>> => [F!FENext]_(F!feVars)
  BY DEF MCNext, programVars, F!feVars
<1> QED
  BY <1>1, <1>2, <1>3, PTL DEF MCSpec, SchedSpec, F!FESpec

\* Batching closed actions (GroundActionBatch) cannot be observed: whenever nothing waits, and in every
\* snapshot, the database is what executing each action when it was read would have made of it.
THEOREM BatchingIsInvisible == MCSpec => []BatchIsSequential
<1>1. FEInv => BatchIsSequential
  BY FEImplies DEF BatchIsSequential
<1> QED
  BY <1>1, Parts, DriverHolds, PTL

\* No cached answer of constructor_call outlives what it was read from, and no action waits for a table
\* other than its constructor's, whatever is declared, refused, pushed and popped in between.
THEOREM CacheExpires == MCSpec => []CacheIsCurrent
<1>1. FEInv => CacheIsCurrent
  BY FEImplies DEF CacheIsCurrent
<1> QED
  BY <1>1, Parts, DriverHolds, PTL

\* A name that typechecks can be used, and no command panics, unless a refused command declared the
\* name; what has a table is neither a global nor a sort.
THEOREM NamesHold == MCSpec => []NamesAreSound
<1>1. FEInv => NamesAreSound
  BY FEImplies DEF NamesAreSound
<1> QED
  BY <1>1, Parts, DriverHolds, PTL
=============================================================================
