------------------------------- MODULE Indexes -------------------------------
(***************************************************************************)
(* The cached indexes of core-relations: Index, ColumnIndex and TupleIndex *)
(* over a SubsetBuffer (hash_index/mod.rs), their catalog, the             *)
(* ResettableOnceLock around each, and what merge_all, clear_table and the *)
(* cloning of a database do to them (free_join/mod.rs).                    *)
(*                                                                         *)
(* Readers, the threads that run rules, look an index up, bring it up to   *)
(* date if it has been reset, and read it.  Everything that takes the      *)
(* database by &mut waits until no reader is left.  A table is what        *)
(* SortedWritesTable shows it to be: rows that are appended, marked stale  *)
(* and at times compacted, and a version.  A row is the values of the      *)
(* columns the index covers, row ids and buffer slots count from 1.        *)
(* Shards have their own keys and their own buffer, so there is one.       *)
(***************************************************************************)
EXTENDS Naturals, Sequences, FiniteSets, SequencesExt, FiniteSetsExt

CONSTANTS
  Readers, Tables,
  Kind,          \* of each table's index: "occurrence" (any covered column) or "tuple"
  IndexedRows,   \* the rows that may be staged: sequences of values
  FirstRows,     \* the rows each table has at first
  Nothing,       \* u32::MAX in a slot of the buffer nobody has written, and no snapshot
  ChunkSize,     \* rows per partition or batch of a parallel refresh
  Staged,        \* the tables rules write to; merge functions write to all
  MaxStages,     \* bound on the rows staged
  MaxEvents      \* bound on removals, clears and clones together

IndexesAssumption ==
  /\ Kind \in [Tables -> {"occurrence", "tuple"}]
  /\ \A row \in IndexedRows : Len(row) > 0
  /\ \A t \in Tables : ToSet(FirstRows[t]) \subseteq IndexedRows
  /\ ChunkSize \in Nat \ {0}

VARIABLES
  tables,      \* per table, its rows, which of them are live, its generation and what is staged
  catalog,     \* per table, its IndexCatalog: at most one set of columns is asked for
  user,        \* per reader, what it is doing, with which index
  notified,    \* the tables on the notification list
  merge,       \* merge_all: whether it runs, the tables it has still to merge, those touched
  snapshot,    \* the clone of the database that a pop goes back to
  budget       \* what the environment may still do

indexVars == <<tables, catalog, user, notified, merge, snapshot, budget>>

-----------------------------------------------------------------------------
(* SubsetBuffer: vectors of row ids in one array, with a free list for each *)
(* power of two.  b is the buffer, a vector is its first slot and the one   *)
(* after its last.                                                          *)

Classes == 0..3

NextPowerOfTwo(n) == CHOOSE p \in {2^k : k \in Classes} : n <= p /\ (p = 1 \/ p < 2 * n)

\* Mutant: the class of a length is rounded down.
SizeClassDown(len) == CHOOSE k \in Classes : 2^k <= len /\ len < 2 * 2^k

SizeClass(len) == CHOOSE k \in Classes : 2^k = NextPowerOfTwo(len)

\* Where a vector of len rows goes: the slots freed last in its class, or new ones.
Allocate(b, len) ==
  LET free == b.free[SizeClass(len)] IN
  IF free # <<>>
  THEN [b |-> [b EXCEPT !.free[SizeClass(len)] = Front(@)], at |-> Last(free)]
  ELSE [b |-> [b EXCEPT !.buf = @ \o [i \in 1..NextPowerOfTwo(len) |-> Nothing]],
        at |-> Len(b.buf) + 1]

\* fill_at and copy_within.
FillAt(b, at, ids) ==
  [b EXCEPT !.buf = [i \in DOMAIN @ |-> IF i - at + 1 \in DOMAIN ids THEN ids[i - at + 1] ELSE @[i]]]

Vec(at, len) == [lo |-> at, hi |-> at + len]

NewVec(b, ids) ==
  LET a == Allocate(b, Len(ids))
  IN  [b |-> FillAt(a.b, a.at, ids), vec |-> Vec(a.at, Len(ids))]

ReturnVec(b, vec) == [b EXCEPT !.free[SizeClass(vec.hi - vec.lo)] = Append(@, vec.lo)]

ExtendVec(b, vec, ids) ==
  LET len == vec.hi - vec.lo
      new == len + Len(ids)
      a == Allocate(b, new)
  IN  IF new <= NextPowerOfTwo(len)
      THEN [b |-> FillAt(b, vec.hi, ids), vec |-> Vec(vec.lo, new)]
      ELSE [b |-> ReturnVec(FillAt(a.b, a.at, SubSeq(b.buf, vec.lo, vec.hi - 1) \o ids), vec),
            vec |-> Vec(a.at, new)]

PushVec(b, vec, id) == ExtendVec(b, vec, <<id>>)

-----------------------------------------------------------------------------
(* BufferedSubset: a range of row ids, or a vector in the buffer *)

Dense(lo, hi) == [sparse |-> FALSE, lo |-> lo, hi |-> hi]
Sparse(vec) == [sparse |-> TRUE, lo |-> vec.lo, hi |-> vec.hi]

Range0(lo, hi) == [i \in 1..(hi - lo) |-> lo + i - 1]

\* The row ids of a subset, as_ref.
RowsOf(b, sub) == IF sub.sparse THEN SubSeq(b.buf, sub.lo, sub.hi - 1) ELSE Range0(sub.lo, sub.hi)

\* A subset with the buffer it is in.
With(b, sub) == [b |-> b, sub |-> sub]
Stored(v) == With(v.b, Sparse(v.vec))

AddRowSorted(b, sub, id) ==
  IF sub.sparse THEN Stored(PushVec(b, sub, id))
  ELSE IF sub.lo = sub.hi THEN With(b, Dense(id, id + 1))
  ELSE IF sub.hi = id THEN With(b, Dense(sub.lo, id + 1))
  ELSE LET v == NewVec(b, Range0(sub.lo, sub.hi)) IN Stored(PushVec(v.b, v.vec, id))

IsDense(ids) == Last(ids) - Head(ids) = Len(ids) - 1

FromSortedPairs(b, ids) ==
  IF IsDense(ids) THEN With(b, Dense(Head(ids), Last(ids) + 1)) ELSE Stored(NewVec(b, ids))

MergeSortedPairs(b, sub, ids) ==
  IF sub.sparse THEN Stored(ExtendVec(b, sub, ids))
  ELSE IF sub.hi = Head(ids) /\ IsDense(ids) THEN With(b, Dense(sub.lo, Last(ids) + 1))
  ELSE Stored(NewVec(b, Range0(sub.lo, sub.hi) \o ids))

-----------------------------------------------------------------------------
(* One index: the version it is up to date with, its entries in the order   *)
(* in which their keys came, and the buffer of their subsets               *)

NewIndex == [major |-> 0, minor |-> 0, entries |-> <<>>,
             b |-> [buf |-> <<>>, free |-> [k \in Classes |-> <<>>]], once |-> "new"]

\* The keys of a row: its values, each once, or the row itself.
KeysOf(kind, row) == IF kind = "tuple" THEN <<row>> ELSE
  FoldLeft(LAMBDA keys, v : IF Contains(keys, v) THEN keys ELSE Append(keys, v), <<>>, row)

SlotOf(index, key) == {i \in DOMAIN index.entries : index.entries[i].key = key}

\* The index with the subset of key replaced, or added at the end.
PutSubset(index, key, new) ==
  LET entry == [key |-> key, sub |-> new.sub] IN
  [index EXCEPT
     !.b = new.b,
     !.entries = IF SlotOf(index, key) = {} THEN Append(@, entry)
                 ELSE [@ EXCEPT ![CHOOSE i \in SlotOf(index, key) : TRUE] = entry]]

SubsetOf(index, key) ==
  IF SlotOf(index, key) = {} THEN Dense(0, 0)
  ELSE index.entries[CHOOSE i \in SlotOf(index, key) : TRUE].sub

AddRow(kind, index, row, id) ==
  FoldLeft(LAMBDA ix, key : PutSubset(ix, key, AddRowSorted(ix.b, SubsetOf(ix, key), id)),
           index, KeysOf(kind, row))

MergeRows(kind, rows, index, ids) ==
  FoldLeft(LAMBDA ix, id : AddRow(kind, ix, rows[id], id), index, ids)

\* The (key, row) pairs of some rows sorted and without repetition: for each key, in order, the
\* run of its rows.
SortedRuns(kind, rows, ids) ==
  LET keys == UNION {ToSet(KeysOf(kind, rows[id])) : id \in ToSet(ids)}
      sorted == SetToSortSeq(keys, LAMBDA x, y : x < y)
  IN  [i \in DOMAIN sorted |->
         [key |-> sorted[i],
          ids |-> SelectSeq(ids, LAMBDA id : Contains(KeysOf(kind, rows[id]), sorted[i]))]]

MergeSortedRuns(index, runs) ==
  LET merged(ix, run) ==
        IF SlotOf(ix, run.key) = {} THEN FromSortedPairs(ix.b, run.ids)
        ELSE MergeSortedPairs(ix.b, SubsetOf(ix, run.key), run.ids)
  IN  FoldLeft(LAMBDA ix, run : PutSubset(ix, run.key, merged(ix, run)), index, runs)

BuildSubsetsFromSorted(index, runs) ==
  FoldLeft(LAMBDA ix, run : PutSubset(ix, run.key, FromSortedPairs(ix.b, run.ids)), index, runs)

ClearIndex(index) ==
  [FoldLeft(LAMBDA ix, entry : IF entry.sub.sparse
                               THEN [ix EXCEPT !.b = ReturnVec(@, entry.sub)] ELSE ix,
            index, index.entries) EXCEPT !.entries = <<>>]

\* The live rows among the ids from..to, in order: a scan.
Scan(t, from, to) == SetToSortSeq({id \in from..to : id \in tables[t].live}, LAMBDA x, y : x < y)

\* The partitions of from..to, each scanned by a task of its own.
Chunks(from, to) ==
  [i \in 1..((to - from) \div ChunkSize + 1) |->
     LET first == from + (i - 1) * ChunkSize IN <<first, Min({first + ChunkSize - 1, to})>>]

CoarseScan(t, index, from, to) ==
  FoldLeft(LAMBDA ix, c :
             MergeSortedRuns(ix, SortedRuns(Kind[t], tables[t].rows, Scan(t, c[1], c[2]))),
           index, Chunks(from, to))

\* Batches arrive in any order and are sorted by the first row of each.
FineScan(t, index, from, to) ==
  LET batches == {Scan(t, c[1], c[2]) : c \in ToSet(Chunks(from, to))} \ {<<>>}
  IN  FoldLeft(LAMBDA ix, ids : MergeRows(Kind[t], tables[t].rows, ix, ids),
               index, SetToSortSeq(batches, LAMBDA x, y : x[1] < y[1]))

\* The index is empty; an index by whole keys takes the rows one by one.
RebuildFull(t, index, from, to) ==
  IF Kind[t] = "tuple" THEN MergeRows(Kind[t], tables[t].rows, index, Scan(t, from, to))
  ELSE BuildSubsetsFromSorted(index, SortedRuns(Kind[t], tables[t].rows, Scan(t, from, to)))

\* How rows can be folded in; which way, sizes and the number of threads decide.
Ways(t) == {"serial", "fine"} \cup (IF Kind[t] = "tuple" THEN {} ELSE {"coarse"})

UpToDate(t, index) ==
  index.major = tables[t].gen /\ index.minor = Len(tables[t].rows)

Refresh(t, index, way) ==
  LET tab == tables[t]
      full == index.major # tab.gen
      base == IF full THEN ClearIndex(index) ELSE index
      from == IF full THEN 1 ELSE index.minor + 1
      to == Len(tab.rows)
      folded == CASE from > to -> base
                  [] from <= to /\ way = "coarse" -> CoarseScan(t, base, from, to)
                  [] from <= to /\ way = "fine" -> FineScan(t, base, from, to)
                  [] from <= to /\ way = "serial" ->
                       IF full THEN RebuildFull(t, base, from, to)
                       ELSE MergeRows(Kind[t], tab.rows, base, Scan(t, from, to))
  IN  IF UpToDate(t, index) THEN index ELSE [folded EXCEPT !.major = tab.gen, !.minor = to]

-----------------------------------------------------------------------------
(* Readers *)

Idle == [pc |-> "idle", table |-> Nothing, slot |-> 0]

\* get_or_insert, as far as the read lock: at most one index is asked for of each table, and of one
\* table at a time, for indexes of two tables share nothing.
Find(r, t) ==
  /\ ~merge.on /\ user[r] = Idle
  /\ \A q \in Readers : user[q].table \in {t, Nothing}
  /\ user' = [user EXCEPT ![r] =
       [pc |-> IF catalog[t] = <<>> THEN "missing" ELSE "found", table |-> t, slot |-> 1]]
  /\ UNCHANGED <<tables, catalog, notified, merge, snapshot, budget>>

\* get_or_insert under the write lock: the catalog is looked at again.
Insert(r) ==
  /\ user[r].pc = "missing"
  /\ LET t == user[r].table IN
       catalog' = [catalog EXCEPT ![t] = IF @ = <<>> THEN <<NewIndex>> ELSE @]
  /\ user' = [user EXCEPT ![r].pc = "found"]
  /\ UNCHANGED <<tables, notified, merge, snapshot, budget>>

TheIndex(r) == catalog[user[r].table][user[r].slot]

\* get_or_update: an index that is up to date is returned, one that has been reset is updated by
\* the first who asks; the others wait until that is done.
GetOrUpdate(r) ==
  /\ user[r].pc = "found"
  /\ TheIndex(r).once # "running"
  /\ user' = [user EXCEPT ![r].pc = IF TheIndex(r).once = "new" THEN "updating" ELSE "reading"]
  /\ catalog' = [catalog EXCEPT ![user[r].table][user[r].slot].once =
                   IF @ = "new" THEN "running" ELSE @]
  /\ UNCHANGED <<tables, notified, merge, snapshot, budget>>

\* The update inside call_once_force.
Update(r) ==
  /\ user[r].pc = "updating"
  /\ \E way \in Ways(user[r].table) :
       catalog' = [catalog EXCEPT ![user[r].table][user[r].slot] =
                     [Refresh(user[r].table, @, way) EXCEPT !.once = "done"]]
  /\ user' = [user EXCEPT ![r].pc = "reading"]
  /\ UNCHANGED <<tables, notified, merge, snapshot, budget>>

\* A reader drops its reference.
Release(r) ==
  /\ user[r].pc = "reading"
  /\ user' = [user EXCEPT ![r] = Idle]
  /\ UNCHANGED <<tables, catalog, notified, merge, snapshot, budget>>

-----------------------------------------------------------------------------
(* The database *)

\* Nobody else uses the database: it is borrowed mutably.
Exclusive == ~merge.on /\ \A r \in Readers : user[r] = Idle

\* Rules stage a row, or the removal of one, and the table is put on the notification list.  They
\* do it while they read; nothing a reader does depends on it, so it is enough here that no one does.
Stage(t, row) ==
  /\ Exclusive /\ budget.stages > 0
  /\ tables' = [tables EXCEPT ![t].staged = Append(@, row)]
  /\ notified' = notified \cup {t}
  /\ budget' = [budget EXCEPT !.stages = @ - 1]
  /\ UNCHANGED <<catalog, user, merge, snapshot>>

StageRemove(t, id) ==
  /\ Exclusive /\ budget.events > 0
  /\ id \in tables[t].live
  /\ tables' = [tables EXCEPT ![t].removed = @ \cup {id}]
  /\ notified' = notified \cup {t}
  /\ budget' = [budget EXCEPT !.events = @ - 1]
  /\ UNCHANGED <<catalog, user, merge, snapshot>>

MergeAll ==
  /\ Exclusive /\ notified # {}
  /\ merge' = [on |-> TRUE, todo |-> notified, touched |-> notified]
  /\ notified' = {}
  /\ UNCHANGED <<tables, catalog, user, snapshot, budget>>

\* The table without its stale rows, under new ids and in a new generation.
Compacted(tab) ==
  LET kept == SetToSortSeq(tab.live, LAMBDA x, y : x < y) IN
  [tab EXCEPT !.rows = [i \in DOMAIN kept |-> tab.rows[kept[i]]],
              !.live = DOMAIN kept, !.gen = @ + 1]

\* One table is merged: removals, then rows, then perhaps a compaction.  Its merge function may
\* stage a row in some table, whose buffer then notifies.
MergeTable(t, out, row, compact) ==
  /\ merge.on /\ t \in merge.todo
  /\ LET tab == tables[t]
         all == tab.rows \o tab.staged
         new == [tab EXCEPT !.rows = all, !.staged = <<>>, !.removed = {},
                            !.live = (@ \ tab.removed) \cup (Len(tab.rows) + 1)..Len(all)]
     IN  /\ compact => new.live # DOMAIN all
         /\ tables' = [tables EXCEPT
              ![t] = IF compact THEN Compacted(new) ELSE new,
              ![out].staged = IF row = Nothing THEN @ ELSE Append(IF out = t THEN <<>> ELSE @, row)]
  /\ row # Nothing => budget.stages > 0
  /\ budget' = [budget EXCEPT !.stages = IF row = Nothing THEN @ ELSE @ - 1]
  /\ notified' = IF row = Nothing THEN notified ELSE notified \cup {out}
  /\ merge' = [merge EXCEPT !.todo = @ \ {t}]
  /\ UNCHANGED <<catalog, user, snapshot>>

\* Something was staged meanwhile: the list is reset and its tables are merged.
MergeAgain ==
  /\ merge.on /\ merge.todo = {} /\ notified # {}
  /\ merge' = [merge EXCEPT !.todo = notified, !.touched = @ \cup notified]
  /\ notified' = {}
  /\ UNCHANGED <<tables, catalog, user, snapshot, budget>>

\* ResettableOnceLock::reset on every index of a table.
Reset(indexes) == [i \in DOMAIN indexes |-> [indexes[i] EXCEPT !.once = "new"]]

MergeDone ==
  /\ merge.on /\ merge.todo = {} /\ notified = {}
  /\ catalog' = [t \in Tables |-> IF t \in merge.touched THEN Reset(catalog[t]) ELSE catalog[t]]
  /\ merge' = [on |-> FALSE, todo |-> {}, touched |-> {}]
  /\ UNCHANGED <<tables, user, notified, snapshot, budget>>

\* Mutant: clear_table leaves it to the new version that cached indexes are refreshed.
ClearTableByVersion(t) ==
  /\ Exclusive /\ budget.events > 0
  /\ tables' = [tables EXCEPT ![t] =
       [rows |-> <<>>, live |-> {}, staged |-> <<>>, removed |-> {}, gen |-> @.gen + 1]]
  /\ budget' = [budget EXCEPT !.events = @ - 1]
  /\ UNCHANGED <<catalog, user, notified, merge, snapshot>>

\* clear_table drops the rows and what is staged; only a table with rows changes generation.
ClearTable(t) ==
  /\ Exclusive /\ budget.events > 0
  /\ tables' = [tables EXCEPT ![t] =
       [rows |-> <<>>, live |-> {}, staged |-> <<>>, removed |-> {},
        gen |-> IF @.rows = <<>> THEN @.gen ELSE @.gen + 1]]
  /\ catalog' = [catalog EXCEPT ![t] = Reset(@)]
  /\ budget' = [budget EXCEPT !.events = @ - 1]
  /\ UNCHANGED <<user, notified, merge, snapshot>>

\* Cloning brings every index up to date and copies it into a new lock, to be updated again.
\* Databases are cloned between commands, when nothing is staged.
Clone ==
  /\ Exclusive /\ notified = {} /\ budget.events > 0
  /\ \E way \in UNION {Ways(t) : t \in Tables} :
       LET current(t) == [i \in DOMAIN catalog[t] |->
             IF catalog[t][i].once = "done" THEN catalog[t][i]
             ELSE [Refresh(t, catalog[t][i], IF way \in Ways(t) THEN way ELSE "serial")
                     EXCEPT !.once = "done"]]
       IN  /\ catalog' = [t \in Tables |-> current(t)]
           /\ snapshot' = [tables |-> tables, catalog |-> [t \in Tables |-> Reset(current(t))]]
  /\ budget' = [budget EXCEPT !.events = @ - 1]
  /\ UNCHANGED <<tables, user, notified, merge>>

\* The clone takes the database's place; a staged row goes with the database it was staged in.
Restore ==
  /\ Exclusive /\ snapshot # Nothing
  /\ tables' = snapshot.tables /\ catalog' = snapshot.catalog
  /\ notified' = {}
  /\ snapshot' = Nothing
  /\ UNCHANGED <<user, merge, budget>>

IndexInit ==
  /\ tables = [t \in Tables |->
                 [rows |-> FirstRows[t], live |-> DOMAIN FirstRows[t], gen |-> 0,
                  staged |-> <<>>, removed |-> {}]]
  /\ catalog = [t \in Tables |-> <<>>]
  /\ user = [r \in Readers |-> Idle]
  /\ notified = {}
  /\ merge = [on |-> FALSE, todo |-> {}, touched |-> {}]
  /\ snapshot = Nothing
  /\ budget = [stages |-> MaxStages, events |-> MaxEvents]

IndexNext ==
  \/ \E r \in Readers :
       (\E t \in Tables : Find(r, t)) \/ Insert(r) \/ GetOrUpdate(r) \/ Update(r) \/ Release(r)
  \/ \E t \in Tables :
       \/ \E row \in IndexedRows : t \in Staged /\ Stage(t, row)
       \/ \E id \in tables[t].live : StageRemove(t, id)
       \/ \E compact \in BOOLEAN :
            \/ MergeTable(t, t, Nothing, compact)
            \/ \E out \in Tables, row \in IndexedRows : MergeTable(t, out, row, compact)
       \/ ClearTable(t)
  \/ MergeAll \/ MergeAgain \/ MergeDone
  \/ Clone \/ Restore

-----------------------------------------------------------------------------
(* Properties *)

\* An index that a reader has been given lists, for every key and in order, the rows with that
\* key, all those that are live: consumers drop stale rows, nobody adds missing ones
\* (get_index_from_tableinfo; the comment on touched in merge_all).
AnswersExact ==
  \A r \in Readers : user[r].pc = "reading" =>
    LET t == user[r].table
        tab == tables[t]
        keys == UNION {ToSet(KeysOf(Kind[t], row)) : row \in IndexedRows}
    IN  \A key \in keys :
          LET ids == RowsOf(TheIndex(r).b, SubsetOf(TheIndex(r), key)) IN
          /\ \A i, j \in DOMAIN ids : i < j => ids[i] < ids[j]
          /\ ToSet(ids) \subseteq DOMAIN tab.rows
          /\ ToSet(ids) \cap tab.live =
               {id \in tab.live : Contains(KeysOf(Kind[t], tab.rows[id]), key)}

\* The slots of a buffer belong to one vector or one entry of the free list each, to the end of
\* their power of two: a subset can grow in place without writing into another
\* (SubsetBuffer::push_vec, extend_vec).
SlotsOwnedOnce ==
  \A t \in Tables : \A n \in DOMAIN catalog[t] :
    LET index == catalog[t][n]
        inUse == [i \in {i \in DOMAIN index.entries : index.entries[i].sub.sparse} |->
                    LET sub == index.entries[i].sub
                    IN  sub.lo..(sub.lo + NextPowerOfTwo(sub.hi - sub.lo) - 1)]
        free == [x \in UNION {{k} \X DOMAIN index.b.free[k] : k \in Classes} |->
                   LET lo == index.b.free[x[1]][x[2]] IN lo..(lo + 2^x[1] - 1)]
        disjoint(f) == \A x, y \in DOMAIN f : x # y => f[x] \cap f[y] = {}
        slots(f) == UNION {f[x] : x \in DOMAIN f}
    IN  /\ disjoint(inUse) /\ disjoint(free)
        /\ slots(inUse) \cap slots(free) = {}
        /\ slots(inUse) \cup slots(free) = DOMAIN index.b.buf
=============================================================================
