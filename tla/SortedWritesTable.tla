-------------------------- MODULE SortedWritesTable --------------------------
(***************************************************************************)
(* The table of core-relations/src/table/mod.rs: rows kept in the order of *)
(* their timestamps, a sharded hash table from keys to rows, and queues of *)
(* staged changes.  A merge deletes, inserts (in one thread, or shard by   *)
(* shard in parallel) and compacts.  A replaced or removed row stays       *)
(* behind, marked stale, until the compaction.  The merge function here is *)
(* the minimum.  A reader follows the table with a SubsetTracker.          *)
(***************************************************************************)
EXTENDS Naturals, Sequences, FiniteSets, FiniteSetsExt, Functions

CONSTANTS
  Writers,      \* the holders of mutation buffers
  MaxKey,       \* the keys are 0..MaxKey
  Vals,         \* the values, numbers
  NShards,      \* the shards of the hash table
  MaxTime,      \* bound: the last timestamp
  MaxStaged,    \* bound: inserts and removals staged by writers
  MaxRewrites,  \* bound: rows rewritten by a rebuild
  MaxClears,    \* bound: calls of clear
  MaxReads,     \* bound: looks of the reader
  Slack,        \* stale rows always tolerated (16 in maybe_rehash)
  Share,        \* one row in Share may be stale (2 in maybe_rehash)
  BatchSize,    \* PARALLEL_INSERT_BATCH_SIZE
  Cutoff,       \* the cutoff of parallelize_table_op
  Parallel,     \* whether the pool has two threads or more
  Stale,        \* the marker in a stale row's first column
  None

SortedWritesAssumption ==
  /\ MaxKey \in Nat /\ Vals \subseteq Nat /\ NShards \in Nat \ {0}
  /\ MaxTime \in Nat /\ MaxStaged \in Nat /\ MaxRewrites \in Nat /\ MaxClears \in Nat
  /\ MaxReads \in Nat
  /\ Slack \in Nat /\ Share \in Nat \ {0} /\ BatchSize \in Nat \ {0} /\ Cutoff \in Nat
  /\ Parallel \in BOOLEAN
  /\ Stale \notin Nat /\ None \notin Nat /\ None \notin [val : Nat, ts : Nat]

Keys == 0..MaxKey
Shards == 0..(NShards - 1)
\* shard_hash: a key always goes to the same shard.
ShardOf(key) == key % NShards
Row(key, val, ts) == [key |-> key, val |-> val, ts |-> ts]

VARIABLES
  data,      \* the rows; ids start at 1 here
  hash,      \* per shard, the ids of the rows it has an entry for
  offsets,   \* the first row of each timestamp; kept in the order of both
  stale,     \* stale_rows
  gen,       \* the generation
  ok,        \* no assertion has failed
  open,      \* open[w]: what w's buffer has staged, [ins, del] per shard
  pending,   \* the queues per shard, [ins, del, known]
  total,     \* total_rows
  now,       \* the timestamp counter of the caller
  path,      \* how the running merge inserts: "serial", "parallel", or "none" when none runs
  base,      \* its next_offset
  drained,   \* the shards whose queue of rows it has drained
  incoming,  \* the rows from there that it has not taken up yet
  batch,     \* the CoalescedInsertBatch of each shard's task
  fresh,     \* the rows it has written and not yet applied to its shard
  marked,    \* how many rows the tasks have marked stale
  stamps,    \* the timestamp of the rows that each task has published (SortChecker), or None
  reader,    \* a SubsetTracker's version and the rows it has seen
  count,     \* how many operations there were, for the bounds
  ref        \* history: what the table should hold, key -> [val, ts] or None

table == <<data, hash, offsets, stale, gen, ok>>
queues == <<open, pending, total>>
merge == <<path, base, drained, incoming, batch, fresh, marked, stamps>>
vars == <<table, queues, now, merge, reader, count, ref>>

Empty == [s \in Shards |-> <<>>]
NoQueues == [ins |-> Empty, del |-> Empty, known |-> Empty]
NoBuffer == [ins |-> Empty, del |-> Empty]

Init ==
  /\ data = <<>> /\ hash = [s \in Shards |-> {}] /\ offsets = {}
  /\ stale = 0 /\ gen = 0 /\ ok = TRUE
  /\ open = [w \in Writers |-> NoBuffer] /\ pending = NoQueues /\ total = 0
  /\ now = 0
  /\ path = "none" /\ base = 0 /\ drained = {}
  /\ incoming = Empty /\ batch = Empty /\ fresh = [s \in Shards |-> {}]
  /\ marked = 0 /\ stamps = [s \in Shards |-> None]
  /\ reader = [major |-> 0, minor |-> 0, known |-> {}]
  /\ count = [staged |-> 0, rewrites |-> 0, clears |-> 0, reads |-> 0]
  /\ ref = [k \in Keys |-> None]

Idle == path = "none"

\* get_row: the rows that are not stale.
Live == {r \in DOMAIN data : data[r].key # Stale}
LiveRows == {data[r] : r \in Live}

\* The entries of a shard whose row has this key; the key is read from the row.
Entry(key) == {r \in hash[ShardOf(key)] : data[r].key = key}

\* The merge function of a table: the minimum, stamped with the incoming time.
Merged(cur, new) == [new EXCEPT !.val = Min({cur.val, new.val})]
Changes(cur, new) == Merged(cur, new).val # cur.val

-----------------------------------------------------------------------------
(* Staging *)

Stage(w) ==
  /\ count.staged < MaxStaged
  /\ count' = [count EXCEPT !.staged = @ + 1]
  /\ \E k \in Keys :
       \/ open' = [open EXCEPT ![w].del[ShardOf(k)] = Append(@, k)]
       \/ \E v \in Vals : open' = [open EXCEPT ![w].ins[ShardOf(k)] = Append(@, Row(k, v, now))]
  /\ UNCHANGED <<table, pending, total, now, merge, reader, ref>>

\* Buffer::drop, whatever the table is doing.
DropBuffer(w) ==
  /\ open[w] # NoBuffer
  /\ pending' = [pending EXCEPT
       !.ins = [s \in Shards |-> @[s] \o open[w].ins[s]],
       !.del = [s \in Shards |-> @[s] \o open[w].del[s]]]
  /\ total' = total + MapThenSumSet(LAMBDA s : Len(open[w].ins[s]), Shards)
  /\ open' = [open EXCEPT ![w] = NoBuffer]
  /\ UNCHANGED <<table, now, merge, reader, count, ref>>

\* A rebuild replaces the row it has found by another: it stages a removal of the row
\* by its id, and the new row, in a buffer that it drops before it returns.
Rewrite ==
  /\ Idle
  /\ count.rewrites < MaxRewrites
  /\ count' = [count EXCEPT !.rewrites = @ + 1]
  /\ \E r \in Live, k \in Keys :
       LET row == data[r]
       IN  pending' = [pending EXCEPT
             !.known[ShardOf(row.key)] = Append(@, [key |-> row.key, row |-> r]),
             !.ins[ShardOf(k)] = Append(@, Row(k, row.val, now))]
  /\ total' = total + 1
  /\ UNCHANGED <<table, open, now, merge, reader, ref>>

\* The caller advances the time after it has merged, when no buffer is in use.
Tick ==
  /\ Idle
  /\ now < MaxTime
  /\ pending = NoQueues
  /\ \A w \in Writers : open[w] = NoBuffer
  /\ now' = now + 1
  /\ UNCHANGED <<table, queues, merge, reader, count, ref>>

-----------------------------------------------------------------------------
(* What the contents become: every removal first, then the least value of each key, *)
(* with the time at which it got there                                              *)

Deleted(c) ==
  LET gone == UNION {Range(pending.del[s]) \cup {q.key : q \in Range(pending.known[s])} :
                       s \in Shards}
  IN  [k \in Keys |-> IF k \in gone THEN None ELSE c[k]]

Held(row) == [val |-> row.val, ts |-> row.ts]
NotAfter(x, y) == x.val < y.val \/ (x.val = y.val /\ x.ts <= y.ts)

Inserted(c, rows) ==
  [k \in Keys |->
     LET all == {Held(row) : row \in {row \in rows : row.key = k}} \cup ({c[k]} \ {None})
     IN  IF all = {} THEN None ELSE CHOOSE x \in all : \A y \in all : NotAfter(x, y)]

-----------------------------------------------------------------------------
(* Merging *)

\* The rows of a shard that serial_delete or, with disjoint shards, parallel_delete finds:
\* by their keys, or by the ids that a rebuild knew, where a newer row of the key survives.
Removed(s) ==
  {r \in hash[s] : \/ data[r].key \in Range(pending.del[s])
                   \/ [key |-> data[r].key, row |-> r] \in Range(pending.known[s])}

\* do_delete, and the start of do_insert.
MergeBegin ==
  /\ Idle
  /\ pending # NoQueues
  /\ LET gone == UNION {Removed(s) : s \in Shards}
     IN  /\ data' = [r \in DOMAIN data |-> IF r \in gone THEN [data[r] EXCEPT !.key = Stale]
                                           ELSE data[r]]
         /\ stale' = stale + Cardinality(gone)
  /\ hash' = [s \in Shards |-> hash[s] \ Removed(s)]
  /\ ref' = Deleted(ref)
  /\ pending' = [NoQueues EXCEPT !.ins = pending.ins]
  /\ path' = IF Parallel /\ total > Cutoff THEN "parallel" ELSE "serial"
  /\ total' = 0
  /\ base' = Len(data)
  /\ UNCHANGED <<offsets, gen, ok, open, now, drained, incoming, batch, fresh, marked, stamps,
                 reader, count>>

Done(s) == s \in drained /\ incoming[s] = <<>> /\ batch[s] = <<>> /\ fresh[s] = {}

\* The queue of a shard is drained, in one thread when the shards before it are done.
Drain(s) ==
  /\ ~Idle /\ s \notin drained
  /\ path = "serial" => \A q \in Shards : q < s => Done(q)
  /\ drained' = drained \cup {s}
  /\ incoming' = [incoming EXCEPT ![s] = pending.ins[s]]
  /\ pending' = [pending EXCEPT !.ins[s] = <<>>]
  /\ ref' = Inserted(ref, Range(pending.ins[s]))
  /\ UNCHANGED <<table, open, total, now, path, base, batch, fresh, marked, stamps, reader, count>>

TakeUp(s) == incoming' = [incoming EXCEPT ![s] = Tail(@)]

\* update_sort_offsets, with its assertion.
UpdateSortOffsets(ts, row) ==
  /\ ok' = (ok /\ \A o \in offsets : o.ts <= ts)
  /\ offsets' = IF \A o \in offsets : o.ts < ts THEN offsets \cup {[ts |-> ts, row |-> row]}
                ELSE offsets

\* One row of serial_insert: its key is new, or merging it changes nothing, or it replaces the
\* row there was.
Insert(s) ==
  /\ path = "serial" /\ incoming[s] # <<>>
  /\ TakeUp(s)
  /\ LET row == Head(incoming[s])
         new == Len(data) + 1
     IN  \/ /\ Entry(row.key) = {}
            /\ data' = Append(data, row)
            /\ UpdateSortOffsets(row.ts, new)
            /\ hash' = [hash EXCEPT ![s] = @ \cup {new}]
            /\ UNCHANGED stale
         \/ \E old \in Entry(row.key) :
              /\ ~Changes(data[old], row)
              /\ UNCHANGED <<data, hash, offsets, stale, ok>>
         \/ \E old \in Entry(row.key) :
              /\ Changes(data[old], row)
              /\ data' = Append([data EXCEPT ![old].key = Stale], Merged(data[old], row))
              /\ UpdateSortOffsets(row.ts, new)
              /\ hash' = [hash EXCEPT ![s] = (@ \ {old}) \cup {new}]
              /\ stale' = stale + 1
  /\ UNCHANGED <<gen, queues, now, path, base, drained, batch, fresh, marked, stamps, reader,
                 count, ref>>

\* CoalescedInsertBatch::insert_hashed: rows of one key are merged before they are written, and
\* the rows they replace are written too, as stale ones.
Coalesce(s) ==
  /\ path = "parallel" /\ incoming[s] # <<>>
  /\ fresh[s] = {} /\ Len(batch[s]) < BatchSize
  /\ TakeUp(s)
  /\ LET row == Head(incoming[s])
         same == {i \in DOMAIN batch[s] : batch[s][i].key = row.key}
     IN  \/ same = {} /\ batch' = [batch EXCEPT ![s] = Append(@, row)]
         \/ \E i \in same : ~Changes(batch[s][i], row) /\ UNCHANGED batch
         \/ \E i \in same :
              /\ Changes(batch[s][i], row)
              /\ batch' = [batch EXCEPT ![s] =
                             Append([@ EXCEPT ![i].key = Stale], Merged(batch[s][i], row))]
  /\ UNCHANGED <<table, queues, now, path, base, drained, fresh, marked, stamps, reader, count,
                 ref>>

\* write_output: a full batch, or the last one, is appended to the rows as a whole.
WriteBatch(s) ==
  /\ batch[s] # <<>> /\ (Len(batch[s]) >= BatchSize \/ incoming[s] = <<>>)
  /\ LET old == {i \in DOMAIN batch[s] : batch[s][i].key = Stale}
     IN  /\ fresh' = [fresh EXCEPT ![s] = {Len(data) + i : i \in DOMAIN batch[s] \ old}]
         /\ marked' = marked + Cardinality(old)
  /\ data' = data \o batch[s]
  /\ batch' = [batch EXCEPT ![s] = <<>>]
  /\ UNCHANGED <<hash, offsets, stale, gen, ok, queues, now, path, base, drained, incoming, stamps,
                 reader, count, ref>>

\* SortChecker::check_local
CheckLocal(s, ts) ==
  /\ ok' = (ok /\ IF stamps[s] # None THEN stamps[s] = ts ELSE \A o \in offsets : o.ts <= ts)
  /\ stamps' = [stamps EXCEPT ![s] = ts]

\* The next row written is published in the shard, or given up.
Publish(s) ==
  /\ \E cur \in fresh[s] :
       LET row == data[cur]
       IN  /\ \A r \in fresh[s] : cur <= r
           /\ fresh' = [fresh EXCEPT ![s] = @ \ {cur}]
           /\ \/ /\ Entry(row.key) = {}
                 /\ hash' = [hash EXCEPT ![s] = @ \cup {cur}]
                 /\ CheckLocal(s, row.ts)
                 /\ UNCHANGED <<data, marked>>
              \/ \E old \in Entry(row.key) :
                   /\ Changes(data[old], row)
                   /\ data' = [data EXCEPT ![cur] = Merged(data[old], row), ![old].key = Stale]
                   /\ hash' = [hash EXCEPT ![s] = (@ \ {old}) \cup {cur}]
                   /\ CheckLocal(s, row.ts)
                   /\ marked' = marked + 1
              \/ \E old \in Entry(row.key) :
                   /\ ~Changes(data[old], row)
                   /\ data' = [data EXCEPT ![cur].key = Stale]
                   /\ marked' = marked + 1
                   /\ UNCHANGED <<hash, ok, stamps>>
  /\ UNCHANGED <<offsets, stale, gen, queues, now, path, base, drained, incoming, batch, reader,
                 count, ref>>

\* check_global: the timestamps that the tasks have published.
Stamps == {stamps[s] : s \in Shards} \ {None}
Starting == {ts \in Stamps : \A o \in offsets : o.ts < ts}

\* Mutant: a new timestamp is taken to start after what the tasks have written.
UpdateOffsetsLate ==
  offsets \cup {[ts |-> ts, row |-> Len(data) + 1] : ts \in Starting}

\* SortChecker::update_offsets: a new timestamp starts where the tasks started.
UpdateOffsets == offsets \cup {[ts |-> ts, row |-> base + 1] : ts \in Starting}

-----------------------------------------------------------------------------
(* Compaction *)

\* The places for the live rows: rehash closes them up; parallel_rehash goes by timestamp,
\* then by shard, then in the order the shard's hash table happens to be in.
InParallel == Parallel /\ Len(data) > Cutoff
Before(q, r) ==
  IF InParallel
  THEN \/ data[q].ts < data[r].ts
       \/ data[q].ts = data[r].ts /\ ShardOf(data[q].key) < ShardOf(data[r].key)
  ELSE q < r

Places ==
  {f \in [Live -> 1..Cardinality(Live)] :
     /\ \A q, r \in Live : f[q] = f[r] => q = r
     /\ \A q, r \in Live : Before(q, r) => f[q] < f[r]}

\* The first row of each timestamp, of rows in order.
OffsetsOf(rows) ==
  {[ts |-> rows[i].ts, row |-> i] :
     i \in {i \in DOMAIN rows : \A j \in 1..(i - 1) : rows[j].ts < rows[i].ts}}

Move(f) ==
  /\ data' = [i \in 1..Cardinality(Live) |-> data[CHOOSE r \in Live : f[r] = i]]
  /\ hash' = [s \in Shards |-> {f[r] : r \in hash[s]}]
  /\ offsets' = OffsetsOf(data')
  /\ stale' = 0

NeedsRehash == stale + marked > Max({Slack, Len(data) \div Share})

\* Mutant: the row ids change under the same generation.
RehashSilently ==
  /\ \E f \in Places : Move(f)
  /\ UNCHANGED gen

Rehash ==
  /\ \E f \in Places : Move(f)
  /\ gen' = gen + 1

\* What parallel_insert does after the tasks, and maybe_rehash.  A serial merge has no tasks.
MergeEnd ==
  /\ ~Idle
  /\ \A s \in Shards : Done(s)
  /\ ok' = (ok /\ Cardinality(Stamps) <= 1 /\ (NeedsRehash /\ InParallel => UpdateOffsets # {}))
  /\ \/ /\ ~NeedsRehash
        /\ stale' = stale + marked
        /\ offsets' = UpdateOffsets
        /\ UNCHANGED <<data, hash, gen>>
     \/ NeedsRehash /\ Rehash
  /\ path' = "none" /\ base' = 0 /\ drained' = {}
  /\ marked' = 0 /\ stamps' = [s \in Shards |-> None]
  /\ UNCHANGED <<queues, now, incoming, batch, fresh, reader, count, ref>>

-----------------------------------------------------------------------------
(* Clearing and reading *)

\* clear: an empty table keeps its generation.
Clear ==
  /\ Idle
  /\ count.clears < MaxClears
  /\ count' = [count EXCEPT !.clears = @ + 1]
  /\ pending' = NoQueues /\ total' = 0
  /\ IF data = <<>> THEN UNCHANGED table
     ELSE /\ data' = <<>> /\ hash' = [s \in Shards |-> {}] /\ offsets' = {}
          /\ stale' = 0 /\ gen' = gen + 1 /\ ok' = ok
  /\ ref' = [k \in Keys |-> None]
  /\ UNCHANGED <<open, now, merge, reader>>

Version == [major |-> gen, minor |-> Len(data)]

\* recent_updates, and a scan of the subset.
Read ==
  /\ Idle
  /\ count.reads < MaxReads
  /\ count' = [count EXCEPT !.reads = @ + 1]
  /\ LET from == IF reader.major = gen THEN reader.minor + 1 ELSE 1
     IN  reader' = [major |-> gen, minor |-> Version.minor,
                    known |-> reader.known \cup {data[r] : r \in {q \in Live : q >= from}}]
  /\ UNCHANGED <<table, queues, now, merge, ref>>

Next ==
  \/ \E w \in Writers : Stage(w) \/ DropBuffer(w)
  \/ Rewrite
  \/ Tick
  \/ MergeBegin \/ MergeEnd
  \/ \E s \in Shards : Drain(s) \/ Insert(s) \/ Coalesce(s) \/ WriteBatch(s) \/ Publish(s)
  \/ Clear
  \/ Read

Spec == Init /\ [][Next]_vars

-----------------------------------------------------------------------------
(* Queries: binary_search_sort_val and fast_subset *)

RowAt(places) ==
  IF places = {} THEN Len(data) + 1
  ELSE (CHOOSE o \in places : \A p \in places : o.ts <= p.ts).row
\* The first row past those stamped val or less, and the first one stamped val or more.
Bound(val) == RowAt({o \in offsets : o.ts > val})
At(val) == RowAt({o \in offsets : o.ts >= val})

FastEq(val) == IF \E o \in offsets : o.ts = val THEN At(val)..(Bound(val) - 1) ELSE {}
FastLt(val) == 1..(At(val) - 1)
FastLe(val) == 1..(Bound(val) - 1)
FastGe(val) == At(val)..Len(data)
FastGt(val) == Bound(val)..Len(data)

-----------------------------------------------------------------------------
(* Properties *)

\* Between merges, the entries of the hash table are exactly the live rows, each in the
\* shard of its key, no key has two, and stale_rows counts the others: scans skip the
\* liveness check when that count is zero.
EntriesExact ==
  Idle =>
    /\ UNION {hash[s] : s \in Shards} = Live
    /\ \A s \in Shards : \A r \in hash[s] : ShardOf(data[r].key) = s
    /\ \A q, r \in Live : data[q].key = data[r].key => q = r
    /\ stale = Len(data) - Cardinality(Live)

\* Between merges, the live rows are what the staged changes ask for, whatever path they
\* took: each merge removes first and then keeps the least value of each key, stamped
\* with the time at which it got there.
ContentsExact ==
  Idle => LiveRows = {Row(k, ref[k].val, ref[k].ts) : k \in {k \in Keys : ref[k] # None}}

\* Of the live rows, each range that fast_subset cuts out by the offsets holds exactly
\* the ones that the constraint on the timestamp accepts.
RangesExact ==
  Idle => \A val \in 0..MaxTime :
    /\ FastEq(val) \cap Live = {r \in Live : data[r].ts = val}
    /\ FastLt(val) \cap Live = {r \in Live : data[r].ts < val}
    /\ FastLe(val) \cap Live = {r \in Live : data[r].ts <= val}
    /\ FastGe(val) \cap Live = {r \in Live : data[r].ts >= val}
    /\ FastGt(val) \cap Live = {r \in Live : data[r].ts > val}

\* A reader that holds the table's present version has seen every live row, across
\* compactions and clears.
ReaderSawAll ==
  Idle /\ reader.major = Version.major /\ reader.minor = Version.minor
    => LiveRows \subseteq reader.known

\* No assertion about the order of timestamps fails: "inserting row that violates sort
\* order", "concurrently inserting rows with different sort keys" and the others.
NoAssertionFails == ok

\* The table is exact between merges: its hash table, its contents, its offsets, and no
\* assertion has failed on the way.
SortedExact == NoAssertionFails /\ EntriesExact /\ ContentsExact /\ RangesExact
=============================================================================
