------------------------------- MODULE MCTables -------------------------------
(***************************************************************************)
(* The tables, their indexes and the rebuild for model checking.  They do  *)
(* not share state: Rebuild and Indexes have the tables by what the        *)
(* invariants of DisplacedTable and SortedWritesTable say of them.  A      *)
(* behaviour exercises one of the four, which the variable part names; the *)
(* variables of Rebuild keep their first values in the others', and those  *)
(* of the others are None.                                                 *)
(***************************************************************************)
EXTENDS Rebuild

CONSTANTS
  None, Writers, Parallel, MaxTime, MaxClears,                     \* of both tables
  UfMaxId, MaxRows, Threshold, ChunkRows,                          \* DisplacedTable
  MaxKey, Vals, NShards, MaxStaged, MaxRewrites, MaxReads,         \* SortedWritesTable
  Slack, Share, BatchSize, Cutoff, Stale,
  MaxCalls, MaxInputs,                                             \* bounds, below
  Readers, Tables, IndexedTables, ChunkSize, MaxStages, MaxEvents   \* Indexes

VARIABLES
  part,
  parents, ufDisplaced, lookup, ufOpen, ufPending, ufNow, buffers, left, kids, merging, clears,
  staged, ufReader, applied,
  data, hash, offsets, stale, gen, ok, open, pending, total, now,
  path, base, drained, incoming, batch, fresh, marked, stamps, reader, count, ref,
  tables, catalog, user, notified, merge, snapshot, budget

ufTableVars ==
  <<parents, ufDisplaced, lookup, ufOpen, ufPending, ufNow, buffers, left, kids, merging, clears,
    staged, ufReader, applied>>
sortedVars ==
  <<data, hash, offsets, stale, gen, ok, open, pending, total, now,
    path, base, drained, incoming, batch, fresh, marked, stamps, reader, count, ref>>
indexVars == <<tables, catalog, user, notified, merge, snapshot, budget>>
allVars == <<part, ufTableVars, sortedVars, vars, indexVars>>

D == INSTANCE DisplacedTableProofs WITH
       MaxId <- UfMaxId, displaced <- ufDisplaced, open <- ufOpen, pending <- ufPending,
       now <- ufNow, reader <- ufReader
T == INSTANCE SortedWritesProofs

\* One table has rows and an occurrence index over two columns, the other, which merge functions
\* write to, an index by the whole key.
MCKind == [t \in Tables |-> IF t \in IndexedTables THEN "occurrence" ELSE "tuple"]
MCRows == {<<1, 2>>, <<3, 3>>}
MCFirstRows ==
  [t \in Tables |-> IF t \in IndexedTables THEN <<<<1, 2>>, <<3, 3>>, <<1, 2>>, <<1, 2>>>> ELSE <<>>]

I == INSTANCE Indexes WITH
       Kind <- MCKind, IndexedRows <- MCRows, FirstRows <- MCFirstRows, Nothing <- None,
       Staged <- IndexedTables

ASSUME TablesAssumption ==
  D!TableAssumption /\ T!SortedWritesAssumption /\ I!IndexesAssumption

\* The variables of the parts a behaviour does not exercise.
NoUfTable ==
  /\ parents = None /\ ufDisplaced = None /\ lookup = None /\ ufOpen = None /\ ufPending = None
  /\ ufNow = None /\ buffers = None /\ left = None /\ kids = None /\ merging = None /\ clears = None
  /\ staged = None /\ ufReader = None /\ applied = None
NoSorted ==
  /\ data = None /\ hash = None /\ offsets = None /\ stale = None /\ gen = None /\ ok = None
  /\ open = None /\ pending = None /\ total = None /\ now = None /\ path = None /\ base = None
  /\ drained = None /\ incoming = None /\ batch = None /\ fresh = None /\ marked = None
  /\ stamps = None /\ reader = None /\ count = None /\ ref = None
NoIndexes ==
  /\ tables = None /\ catalog = None /\ user = None /\ notified = None /\ merge = None
  /\ snapshot = None /\ budget = None

MCInit ==
  /\ Init
  /\ \/ part = "uf" /\ D!Init /\ NoSorted /\ NoIndexes
     \/ part = "sorted" /\ T!Init /\ NoUfTable /\ NoIndexes
     \/ part = "rebuild" /\ NoUfTable /\ NoSorted /\ NoIndexes
     \/ part = "indexes" /\ I!IndexInit /\ NoUfTable /\ NoSorted

\* Bound: the calls that a behaviour of the sorted-writes table makes, of whichever kind.
CallsBound == count.staged + count.rewrites + count.clears + count.reads <= MaxCalls
\* Bound: the unions and rows that the rules of a behaviour of the rebuild make.
InputsBound ==
  Cardinality(unions) + Cardinality(asserted) + Size(terms) + Size(Staged) <= MaxInputs

MCNext ==
  /\ part' = part
  /\ \/ part = "uf" /\ D!Next /\ UNCHANGED <<vars, sortedVars, indexVars>>
     \/ part = "sorted" /\ T!Next /\ CallsBound' /\ UNCHANGED <<vars, ufTableVars, indexVars>>
     \/ part = "rebuild" /\ Next /\ InputsBound' /\ UNCHANGED <<ufTableVars, sortedVars, indexVars>>
     \/ part = "indexes" /\ I!IndexNext /\ UNCHANGED <<ufTableVars, sortedVars, vars>>

MCSpec == MCInit /\ [][MCNext]_allVars

-----------------------------------------------------------------------------
(* The properties of the parts: those of Rebuild, which hold of its first values, are its own *)

\* DisplacedTable: the rows are exactly the displaced ids, each once, in time order, with the time
\* of the displacement; the subsets fast_subset finds by binary search are those a scan finds; and
\* a displaced id is found at the row that the lookup table names.
DisplacedExact == part = "uf" => D!DisplacedExact

\* SortedWritesTable: the hash table's entries are the live rows, and stale rows are counted; after
\* a merge the contents are what the staged changes make of those before; the offsets name the
\* first row of each timestamp; and no debug assertion of the sorted insertion fails.
SortedExact == part = "sorted" => T!SortedExact

\* Both tables: a reader that follows versions or updates_since has seen every row, compactions
\* included.
ReadersUpToDate ==
  /\ part = "uf" => D!ReaderUpToDate
  /\ part = "sorted" => T!ReaderSawAll

\* Indexes: an index that a reader has been given lists, for every key and in order, the rows with
\* that key, all those that are live.
AnswersExact == part = "indexes" => I!AnswersExact

\* Indexes: the slots of a buffer belong to one vector or one entry of the free list each.
SlotsOwnedOnce == part = "indexes" => I!SlotsOwnedOnce
=============================================================================
