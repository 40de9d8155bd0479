---------------------------- MODULE DisplacedTable ----------------------------
(***************************************************************************)
(* The union-find table of core-relations/src/uf/mod.rs, over the serial   *)
(* union-find of union-find/src/lib.rs.  Writers stage rows <<l, r, ts>>   *)
(* in buffers and push them on a queue; a merge applies the queue, in      *)
(* order or, for large timestamp groups, by parallel chunks; each value    *)
(* that stops being canonical becomes a row, stamped with the time.  A     *)
(* reader follows the table with a SubsetTracker (common.rs).              *)
(***************************************************************************)
EXTENDS Naturals, Sequences, FiniteSets, FiniteSetsExt, Functions

CONSTANTS
  Writers,    \* the holders of mutation buffers
  MaxId,      \* the values are 0..MaxId
  MaxTime,    \* bound: the last timestamp
  MaxRows,    \* bound: rows staged in a behaviour
  MaxClears,  \* bound: calls of clear
  Threshold,  \* PARALLEL_UNION_THRESHOLD_ROWS
  ChunkRows,  \* the task size of the parallel path
  Parallel,   \* whether the pool has two threads or more
  None

TableAssumption ==
  /\ MaxId \in Nat /\ MaxTime \in Nat /\ MaxRows \in Nat /\ MaxClears \in Nat
  /\ Threshold \in Nat /\ ChunkRows \in Nat \ {0}
  /\ Parallel \in BOOLEAN
  /\ None \notin Nat

Ids == 0..MaxId
Row(l, r, ts) == [l |-> l, r |-> r, ts |-> ts]

VARIABLES
  parents,    \* the links of the union-find; an id never seen is its own parent
  displaced,  \* the rows: child and timestamp (row ids start at 1 here)
  lookup,     \* lookup_table: child -> row id, or None
  open,       \* open[w]: the rows staged in w's buffer, not yet dropped
  pending,    \* buffered_writes: the queue of dropped buffers
  now,        \* the timestamp counter of the caller
  buffers,    \* the buffers the running merge has taken from the queue
  left,       \* the places of those of their rows that it has not applied
  kids,       \* the children of parallel unions, each with its row's place, not yet published
  merging,    \* a merge is running
  clears,     \* how many times a nonempty table has been cleared
  staged,     \* how many rows have been staged
  reader,     \* a SubsetTracker's version and what it has seen
  applied     \* history: the rows applied since the last clear

table == <<parents, displaced, lookup>>
merge == <<buffers, left, kids, merging>>
vars == <<table, open, pending, now, merge, clears, staged, reader, applied>>

Init ==
  /\ parents = [v \in Ids |-> v]
  /\ displaced = <<>>
  /\ lookup = [v \in Ids |-> None]
  /\ open = [w \in Writers |-> <<>>]
  /\ pending = <<>>
  /\ now = 0
  /\ buffers = <<>> /\ left = {} /\ kids = {} /\ merging = FALSE
  /\ clears = 0 /\ staged = 0
  /\ reader = [minor |-> 0, known |-> {}]
  /\ applied = {}

-----------------------------------------------------------------------------
(* The serial union-find *)

\* find_naive: follow the links, which only ever decrease, to the root.
FindNaive(p, id) == LET root[v \in Ids] == IF p[v] = v THEN v ELSE root[p[v]] IN root[id]

\* find: the same, with path halving.
Halve(p, id) ==
  LET path[v \in Ids] == IF p[v] = v THEN {} ELSE {v} \cup path[p[p[v]]]
  IN  [v \in Ids |-> IF v \in path[id] THEN p[p[v]] ELSE p[v]]

\* union of two different roots: by minimum.
Link(p, a, b) == [p EXCEPT ![Max({a, b})] = Min({a, b})]

PublishDisplaced(child, ts) ==
  /\ displaced' = Append(displaced, [child |-> child, ts |-> ts])
  /\ lookup' = [lookup EXCEPT ![child] = Len(displaced) + 1]

\* insert_impl
Insert(row) ==
  LET a == FindNaive(parents, row.l)
      b == FindNaive(parents, row.r)
      once == Halve(Halve(parents, row.l), row.r)
      twice == Halve(Halve(once, row.l), row.r)
  IN  \/ a = b /\ parents' = once /\ UNCHANGED <<displaced, lookup>>
      \/ a # b /\ parents' = Link(twice, a, b) /\ PublishDisplaced(Max({a, b}), row.ts)

-----------------------------------------------------------------------------
(* Buffers *)

Stage(w) ==
  /\ staged < MaxRows
  /\ staged' = staged + 1
  /\ \E l, r \in Ids : open' = [open EXCEPT ![w] = Append(@, Row(l, r, now))]
  /\ UNCHANGED <<table, pending, now, merge, clears, reader, applied>>

\* UfBuffer::drop pushes the buffer, whatever the table is doing.
DropBuffer(w) ==
  /\ open[w] # <<>>
  /\ pending' = Append(pending, open[w])
  /\ open' = [open EXCEPT ![w] = <<>>]
  /\ UNCHANGED <<table, now, merge, clears, staged, reader, applied>>

\* The caller advances the time between two rounds, when no buffer is in use.
Tick ==
  /\ now < MaxTime
  /\ \A w \in Writers : open[w] = <<>>
  /\ now' = now + 1
  /\ UNCHANGED <<table, open, pending, merge, clears, staged, reader, applied>>

-----------------------------------------------------------------------------
(* Merge.  The place of a row is its buffer and its index in it. *)

Places(bufs) == UNION {{i} \X DOMAIN bufs[i] : i \in DOMAIN bufs}
At(bufs, p) == bufs[p[1]][p[2]]
RowAt(p) == At(buffers, p)

Before(p, q) == p[1] < q[1] \/ (p[1] = q[1] /\ p[2] < q[2])
Between(p, x, q) == ~Before(x, p) /\ ~Before(q, x)

\* Mutant: timestamps are no barrier, and all rows share a group.
GroupOfAll(p) == Places(buffers)

\* union_work: neighbouring rows of one timestamp, in one buffer or in several, share a group.
GroupOf(p) ==
  {q \in Places(buffers) :
     \A x \in Places(buffers) :
       Between(p, x, q) \/ Between(q, x, p) => RowAt(x).ts = RowAt(p).ts}

\* push_union_run: a run, the rows of a group in one buffer, is cut into chunks.
RunStart(p) == Min({q[2] : q \in {q \in GroupOf(p) : q[1] = p[1]}})
ChunkOf(p) == <<p[1], RunStart(p), (p[2] - RunStart(p)) \div ChunkRows>>

\* A group of few rows, and thus each when there are few rows altogether, stays serial.
Serial(p) == ~Parallel \/ Cardinality(GroupOf(p)) <= Threshold

\* The queue is emptied; a merge in one thread goes on while there are buffers in it.
MergeBegin ==
  /\ ~merging \/ (~Parallel /\ left = {})
  /\ pending # <<>>
  /\ merging' = TRUE
  /\ buffers' = pending /\ left' = Places(pending)
  /\ pending' = <<>>
  /\ UNCHANGED <<table, open, now, kids, clears, staged, reader, applied>>

\* The next row of a serial group: all rows before it have been applied and published.
InsertRow(p) ==
  /\ Serial(p) /\ kids = {}
  /\ \A q \in left : ~Before(q, p)
  /\ Insert(RowAt(p))
  /\ left' = left \ {p} /\ applied' = applied \cup {RowAt(p)}
  /\ UNCHANGED <<open, pending, now, buffers, kids, merging, clears, staged, reader>>

\* The task of a chunk unions its next row through the atomic view.  The links that
\* path splitting moves are left out: ConcurrentUnionFind shows that they change no
\* root, and only roots are read here.
UnionRow(p) ==
  /\ ~Serial(p)
  /\ \A k \in kids : k.at \in GroupOf(p)
  /\ \A q \in left : Before(q, p) => q \in GroupOf(p) /\ ChunkOf(q) # ChunkOf(p)
  /\ LET a == FindNaive(parents, RowAt(p).l)
         b == FindNaive(parents, RowAt(p).r)
     IN  \/ a = b /\ UNCHANGED <<parents, kids>>
         \/ /\ a # b
            /\ parents' = Link(parents, a, b)
            /\ kids' = kids \cup {[at |-> p, child |-> Max({a, b})]}
  /\ left' = left \ {p} /\ applied' = applied \cup {RowAt(p)}
  /\ UNCHANGED <<displaced, lookup, open, pending, now, buffers, merging, clears, staged, reader>>

\* After the join of a group, its children are published serially, chunk by chunk and thus in
\* the order of their rows.
PublishKid(k) ==
  /\ left \cap GroupOf(k.at) = {}
  /\ \A j \in kids : ~Before(j.at, k.at)
  /\ PublishDisplaced(k.child, RowAt(k.at).ts)
  /\ kids' = kids \ {k}
  /\ UNCHANGED <<parents, open, pending, now, buffers, left, merging, clears, staged, reader,
                 applied>>

MergeEnd ==
  /\ merging /\ left = {} /\ kids = {}
  /\ Parallel \/ pending = <<>>
  /\ merging' = FALSE /\ buffers' = <<>>
  /\ UNCHANGED <<table, open, pending, now, left, kids, clears, staged, reader, applied>>

-----------------------------------------------------------------------------
(* Clearing and reading *)

\* clear resets the union-find and the rows, and nothing else.
Clear ==
  /\ ~merging
  /\ clears < MaxClears
  /\ displaced # <<>>
  /\ parents' = [v \in Ids |-> v]
  /\ displaced' = <<>>
  /\ clears' = clears + 1
  /\ applied' = {}
  /\ UNCHANGED <<lookup, open, pending, now, merge, staged, reader>>

\* version: the generation never changes.
Version == [major |-> 0, minor |-> Len(displaced)]

Children(rows) == {row.child : row \in Range(rows)}

\* updates_since
UpdatesSince(minor) == Children(SubSeq(displaced, minor + 1, Len(displaced)))

\* SubsetTracker::recent_updates: the whole table for a new generation, else the rows
\* since the last look.  The reader's generation is always the table's.
Read ==
  /\ ~merging
  /\ reader' = [minor |-> Version.minor,
                known |-> reader.known \cup UpdatesSince(reader.minor)]
  /\ UNCHANGED <<table, open, pending, now, merge, clears, staged, applied>>

Next ==
  \/ \E w \in Writers : Stage(w) \/ DropBuffer(w)
  \/ Tick
  \/ MergeBegin \/ MergeEnd
  \/ \E p \in left : InsertRow(p) \/ UnionRow(p)
  \/ \E k \in kids : PublishKid(k)
  \/ Clear
  \/ Read

Spec == Init /\ [][Next]_vars

-----------------------------------------------------------------------------
(* Queries: the subsets fast_subset computes from the sorted timestamps *)

\* timestamp_bounds: the rows stamped val, or the place where they would be.
FirstAt(val) == 1 + Cardinality({i \in DOMAIN displaced : displaced[i].ts < val})
FirstAfter(val) == FirstAt(val) + Cardinality({i \in DOMAIN displaced : displaced[i].ts = val})

FastLt(val) == 1..(FirstAt(val) - 1)
FastLe(val) == 1..(FirstAfter(val) - 1)
FastEq(val) == FirstAt(val)..(FirstAfter(val) - 1)
FastGe(val) == FirstAt(val)..Len(displaced)
FastGt(val) == FirstAfter(val)..Len(displaced)

-----------------------------------------------------------------------------
(* Properties *)

\* The equivalence classes that a set of rows generates, by the sets they do not lead out of,
\* and their least members.
Closed(rows) == {S \in SUBSET Ids : \A r \in rows : r.l \in S <=> r.r \in S}
Class(rows, v) == {w \in Ids : \A S \in Closed(rows) : v \in S => w \in S}
Canonical(rows) == [v \in Ids |-> Min(Class(rows, v))]
UpTo(ts) == {r \in applied : r.ts <= ts}

\* Between merges, a value is in the table exactly when it is not the least of its
\* class, once, and stamped with the first timestamp at which it ceased to be; and
\* every lookup through the union-find answers with the least.  Neither the order of
\* parallel unions nor their chunks show.
RecordedWhenDisplaced ==
  ~merging =>
    /\ \A v \in Ids : FindNaive(parents, v) = Canonical(applied)[v]
    /\ Children(displaced) = {v \in Ids : Canonical(applied)[v] # v}
    /\ Len(displaced) = Cardinality(Children(displaced))
    /\ \A i \in DOMAIN displaced :
         LET c == displaced[i].child
             ts == displaced[i].ts
         IN  /\ Canonical(UpTo(ts))[c] # c
             /\ ts > 0 => Canonical(UpTo(ts - 1))[c] = c

\* The timestamps of the rows never decrease ("must insert rows with increasing
\* timestamps"), so that each range fast_subset cuts out is exactly the rows a
\* constraint on the timestamp accepts.
FastSubsetsExact ==
  \A val \in 0..MaxTime :
    /\ FastLt(val) = {i \in DOMAIN displaced : displaced[i].ts < val}
    /\ FastLe(val) = {i \in DOMAIN displaced : displaced[i].ts <= val}
    /\ FastEq(val) = {i \in DOMAIN displaced : displaced[i].ts = val}
    /\ FastGe(val) = {i \in DOMAIN displaced : displaced[i].ts >= val}
    /\ FastGt(val) = {i \in DOMAIN displaced : displaced[i].ts > val}

\* get_row finds the row of every displaced value, also after a clear, which leaves
\* lookup_table as it is: values that are not displaced any more may then still be in it.
LookupFinds ==
  ~merging => \A v \in Children(displaced) :
    lookup[v] \in DOMAIN displaced /\ displaced[lookup[v]].child = v

\* As long as the table is not cleared, a reader that holds its present version has seen
\* every row of it.  clear leaves the generation as it is, so a version from before it may
\* come back with other rows behind it.
ReaderUpToDate ==
  ~merging /\ clears = 0 /\ reader.minor = Version.minor
    => Children(displaced) \subseteq reader.known

\* The table is exact between merges: its rows, the subsets cut out of them, the lookup.
DisplacedExact == RecordedWhenDisplaced /\ FastSubsetsExact /\ LookupFinds
=============================================================================
