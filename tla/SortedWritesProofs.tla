-------------------------- MODULE SortedWritesProofs --------------------------
(***************************************************************************)
(* The sorted-writes table is exact between merges, whatever changes are   *)
(* staged, by whichever path a merge takes, in whatever order the tasks of *)
(* a parallel merge get on, and across compactions and clears.             *)
(*                                                                         *)
(* Within a merge the contents are compared with what they should become   *)
(* by all rows of a key that are in the table, in a task's batch or still  *)
(* to come: the least of them stays the same while rows are moved along.   *)
(***************************************************************************)
EXTENDS SortedWritesTable, FiniteSetTheorems, WellFoundedInduction, TLAPS

-----------------------------------------------------------------------------
(* The inductive invariant *)

Full == [key : Keys, val : Nat, ts : Nat]
Known == [key : Keys, row : Nat]
Kept == [key : Keys \cup {Stale}, val : Nat, ts : Nat]

TypeInv ==
  /\ data \in Seq(Kept) /\ hash \in [Shards -> SUBSET Nat]
  /\ offsets \in SUBSET [ts : Nat, row : Nat] /\ stale \in Nat /\ gen \in Nat
  /\ open \in [Writers -> [ins : [Shards -> Seq(Full)], del : [Shards -> Seq(Keys)]]]
  /\ pending \in [ins : [Shards -> Seq(Full)], del : [Shards -> Seq(Keys)],
                  known : [Shards -> Seq(Known)]]
  /\ now \in Nat
  /\ path \in {"none", "serial", "parallel"} /\ base \in Nat /\ drained \in SUBSET Shards
  /\ incoming \in [Shards -> Seq(Full)] /\ batch \in [Shards -> Seq(Kept)]
  /\ fresh \in [Shards -> SUBSET Nat] /\ marked \in Nat
  /\ stamps \in [Shards -> Nat \cup {None}]
  /\ reader \in [major : Nat, minor : Nat, known : SUBSET Kept]
  /\ ref \in [Keys -> [val : Nat, ts : Nat] \cup {None}]

\* What is staged is in the queue of its shard and has the present time.  A rebuild's
\* removals are of rows that are there.
DueRows(rows, s) == \A i \in DOMAIN rows : ShardOf(rows[i].key) = s /\ rows[i].ts = now
DueKeys(keys, s) == \A i \in DOMAIN keys : ShardOf(keys[i]) = s
QueueInv ==
  \A s \in Shards :
    /\ DueRows(pending.ins[s], s) /\ DueKeys(pending.del[s], s)
    /\ \A w \in Writers : DueRows(open[w].ins[s], s) /\ DueKeys(open[w].del[s], s)
    /\ \A i \in DOMAIN pending.known[s] :
         /\ Idle
         /\ pending.known[s][i].row \in hash[s]
         /\ data[pending.known[s][i].row].key = pending.known[s][i].key

\* The tasks of a merge, and what they hold.
BatchOf(rows, s) ==
  /\ rows # <<>> => \E i \in DOMAIN rows : rows[i].key # Stale
  /\ \A i \in DOMAIN rows :
       /\ rows[i].ts = now
       /\ rows[i].key # Stale => ShardOf(rows[i].key) = s
       /\ rows[i].key # Stale => \A j \in DOMAIN rows : rows[j].key = rows[i].key => j = i
TaskInv ==
  /\ Idle => base = 0 /\ drained = {}
  /\ path # "parallel" => marked = 0
  /\ \A s \in Shards :
       /\ path # "parallel" => stamps[s] = None /\ batch[s] = <<>> /\ fresh[s] = {}
       /\ s \notin drained => incoming[s] = <<>> /\ batch[s] = <<>> /\ fresh[s] = {}
       /\ fresh[s] # {} => batch[s] = <<>>
       /\ DueRows(incoming[s], s) /\ BatchOf(batch[s], s)
       /\ stamps[s] \in {None, now} /\ (stamps[s] # None => base < Len(data))

\* Rows are in the order of time; the entries are the live rows that are not fresh.
RowsInv ==
  /\ \A i, j \in DOMAIN data : i <= j => data[i].ts <= data[j].ts
  /\ \A i \in DOMAIN data : data[i].ts <= now
  /\ path = "parallel" => base <= Len(data)
  /\ path = "parallel" => \A i \in DOMAIN data : base < i => data[i].ts = now
  /\ \A s \in Shards :
       /\ \A r \in fresh[s] : /\ r \in Live /\ base < r /\ ShardOf(data[r].key) = s
                              /\ \A q \in fresh[s] : data[q].key = data[r].key => q = r
       /\ hash[s] = {r \in Live : ShardOf(data[r].key) = s} \ fresh[s]
       /\ \A q, r \in hash[s] : data[q].key = data[r].key => q = r
  /\ stale + marked = Cardinality({r \in DOMAIN data : data[r].key = Stale})

\* The offsets cover the rows that were there when the tasks began.
Indexed == IF path = "parallel" THEN base ELSE Len(data)
OffsetInv ==
  /\ ok
  /\ \A o, p \in offsets : (o.ts < p.ts => o.row < p.row) /\ (o.ts = p.ts => o = p)
  /\ \A o \in offsets : /\ o.row \in 1..Indexed /\ o.ts <= now
                        /\ \A r \in DOMAIN data : o.row <= r => o.ts <= data[r].ts
  /\ 0 < Indexed => offsets # {}
  /\ \A s \in Shards : \A r \in hash[s] :
       /\ r <= Indexed => \E o \in offsets : o.ts = data[r].ts /\ o.row <= r
       /\ Indexed < r => stamps[s] # None
  /\ path = "parallel" /\ base = 0 /\ data # <<>> =>
       \E s \in Shards : stamps[s] # None \/ fresh[s] # {}

\* ref has the least of the rows of a key that are, or are to be, in the table.
OfKey(rows, k) == {Held(rows[i]) : i \in {i \in DOMAIN rows : rows[i].key = k}}
Sources(k) == OfKey(data, k) \cup OfKey(incoming[ShardOf(k)], k) \cup OfKey(batch[ShardOf(k)], k)
IsLeast(x, all) ==
  IF all = {} THEN x = None ELSE x \in all /\ \A y \in all : NotAfter(x, y)
ContentInv == \A k \in Keys : IsLeast(ref[k], Sources(k))

ReaderInv ==
  /\ reader.major <= gen
  /\ reader.major = gen =>
       /\ reader.minor <= Indexed
       /\ \A r \in Live : r <= reader.minor => data[r] \in reader.known

IInv == TypeInv /\ QueueInv /\ TaskInv /\ RowsInv /\ OffsetInv /\ ContentInv /\ ReaderInv

-----------------------------------------------------------------------------
(* Rows, keys and shards *)

\* An element of a sequence over S is in S.
LEMMA ElementOf == ASSUME NEW S, NEW s \in Seq(S), NEW i \in DOMAIN s PROVE s[i] \in S
  OBVIOUS

\* A nonempty set of naturals has a least member.
LEMMA HasLeast ==
  ASSUME NEW S \in SUBSET Nat, S # {}
  PROVE  \E x \in S : \A y \in S : x <= y
<1>1. IsWellFoundedOn(OpToRel(<, Nat), Nat)
  BY NatLessThanWellFounded
<1>2. PICK x \in S : \A y \in S : ~ (<<y, x>> \in OpToRel(<, Nat))
  BY <1>1, WFMin
<1> HIDE <1>1
<1>3. \A y \in S : ~ (y < x)
  BY <1>2 DEF OpToRel
<1> QED
  BY <1>3

\* The positions of a sequence are finitely many.
LEMMA FiniteUpTo == ASSUME NEW n \in Nat PROVE IsFiniteSet(1..n) /\ Cardinality(1..n) = n
  BY FS_Interval

\* How many there are in two sets with nothing in common.
LEMMA CountOfBoth ==
  ASSUME NEW S, NEW T, IsFiniteSet(S), IsFiniteSet(T), S \cap T = {}
  PROVE  /\ IsFiniteSet(S \cup T) /\ Cardinality(S) \in Nat /\ Cardinality(T) \in Nat
         /\ Cardinality(S \cup T) = Cardinality(S) + Cardinality(T)
<1>1. Cardinality({}) = 0
  BY FS_EmptySet
<1>2. IsFiniteSet(S \cup T) /\ Cardinality(S \cup T) = Cardinality(S) + Cardinality(T) - Cardinality(S \cap T)
  BY FS_Union
<1>3. Cardinality(S) \in Nat /\ Cardinality(T) \in Nat
  BY FS_CardinalityType
<1>4. PICK a, b : a = Cardinality(S) /\ b = Cardinality(T)
  OBVIOUS
<1>5. Cardinality(S \cup T) = a + b - 0
  BY <1>1, <1>2, <1>4
<1> QED
  BY <1>2, <1>3, <1>4, <1>5

\* The marker is not a key, and each key has a shard.
LEMMA KeysAre ==
  ASSUME SortedWritesAssumption
  PROVE  /\ Stale \notin Keys /\ None \notin Nat
         /\ \A k \in Keys : ShardOf(k) \in Shards
<1>1. Stale \notin Keys /\ None \notin Nat /\ NShards \in Nat \ {0} /\ MaxKey \in Nat
  BY DEF SortedWritesAssumption, Keys
<1>2. ASSUME NEW k \in Keys PROVE ShardOf(k) \in Shards
  <2>1. k \in Nat
    BY <1>1 DEF Keys
  <2>2. k % NShards \in 0..(NShards - 1)
    BY <1>1, <2>1
  <2> QED
    BY <2>2 DEF ShardOf, Shards
<1> QED
  BY <1>1, <1>2

\* A merge that changes something keeps the incoming row; else the present one is no greater.
LEMMA MergedIs ==
  ASSUME NEW cur \in Kept, NEW new \in Kept
  PROVE  /\ Changes(cur, new) => Merged(cur, new) = new /\ new.val < cur.val
         /\ ~Changes(cur, new) => cur.val <= new.val
<1>1. cur.val \in Nat /\ new.val \in Nat
  BY DEF Kept
<1>2. PICK m : m = Min({cur.val, new.val})
  OBVIOUS
<1>3. m \in {cur.val, new.val} /\ m <= cur.val /\ m <= new.val
  BY <1>1, <1>2 DEF Min
<1>4. Merged(cur, new) = [new EXCEPT !.val = m]
  BY <1>2 DEF Merged
<1>5. Merged(cur, new).val = m
  BY <1>4 DEF Kept
<1>6. m = new.val => Merged(cur, new) = new
  BY <1>4 DEF Kept
<1> QED
  BY <1>1, <1>3, <1>5, <1>6 DEF Changes

\* Fields of the rows.
LEMMA RowsAre ==
  ASSUME TypeInv
  PROVE  /\ \A r \in DOMAIN data : /\ data[r] \in Kept /\ r \in Nat
                                   /\ data[r].key \in Keys \cup {Stale}
                                   /\ data[r].val \in Nat /\ data[r].ts \in Nat
         /\ DOMAIN data = 1..Len(data) /\ Len(data) \in Nat
<1>1. data \in Seq(Kept)
  BY DEF TypeInv
<1>2. \A r \in DOMAIN data : data[r] \in Kept
  BY <1>1, ElementOf
<1> QED
  BY <1>1, <1>2 DEF Kept

-----------------------------------------------------------------------------
(* The least of a set of values with their times *)

Values == [val : Nat, ts : Nat]

\* NotAfter is an order on them.
LEMMA OrderOfValues ==
  ASSUME NEW x \in Values, NEW y \in Values
  PROVE  /\ NotAfter(x, y) \/ NotAfter(y, x)
         /\ NotAfter(x, y) /\ NotAfter(y, x) => x = y
         /\ \A z \in Values : NotAfter(x, y) /\ NotAfter(y, z) => NotAfter(x, z)
  BY DEF Values, NotAfter

\* Every set of them that is not empty has a least one.
LEMMA LeastExists ==
  ASSUME NEW all \in SUBSET Values, all # {}
  PROVE  \E x \in all : \A y \in all : NotAfter(x, y)
<1>1. PICK v \in {x.val : x \in all} : \A w \in {x.val : x \in all} : v <= w
  <2>1. {x.val : x \in all} \in SUBSET Nat /\ {x.val : x \in all} # {}
    BY DEF Values
  <2> QED
    BY <2>1, HasLeast
<1> DEFINE Tied == {x \in all : x.val = v}
<1>2. PICK t \in {x.ts : x \in Tied} : \A w \in {x.ts : x \in Tied} : t <= w
  <2>1. {x.ts : x \in Tied} \in SUBSET Nat /\ {x.ts : x \in Tied} # {}
    BY DEF Values
  <2> QED
    BY <2>1, HasLeast
<1>3. PICK x \in Tied : x.ts = t
  BY <1>2
<1>4. \A y \in all : v <= y.val /\ (y.val = v => t <= y.ts)
  BY <1>1, <1>2
<1>5. \A y \in all : v \in Nat /\ y.val \in Nat
  BY <1>1 DEF Values
<1>6. \A y \in all : v < y.val \/ (v = y.val /\ t <= y.ts)
  BY <1>4, <1>5
<1> QED
  BY <1>3, <1>6 DEF NotAfter

\* The least stays the least when no row goes but those that another one beats.
LEMMA LeastStays ==
  ASSUME NEW x, NEW all \in SUBSET Values, NEW new \in SUBSET all, IsLeast(x, all),
         \A y \in all : \E z \in new : NotAfter(z, y)
  PROVE  IsLeast(x, new)
<1>1. CASE all = {}
  BY <1>1 DEF IsLeast
<1>2. CASE all # {}
  <2>1. x \in all /\ \A y \in all : NotAfter(x, y)
    BY <1>2 DEF IsLeast
  <2>2. PICK z \in new : NotAfter(z, x)
    BY <2>1
  <2>3. z = x
    BY <2>1, <2>2, OrderOfValues
  <2> QED
    BY <2>1, <2>2, <2>3 DEF IsLeast
<1> QED
  BY <1>1, <1>2

\* The least of some, with others, is the least of all.
LEMMA LeastOfMore ==
  ASSUME NEW x, NEW y, NEW some \in SUBSET Values, NEW more \in SUBSET Values,
         None \notin Values, IsLeast(x, some), IsLeast(y, more \cup ({x} \ {None}))
  PROVE  IsLeast(y, some \cup more)
<1>1. CASE some = {}
  <2>1. x = None
    BY <1>1 DEF IsLeast
  <2> QED
    BY <1>1, <2>1 DEF IsLeast
<1>2. CASE some # {}
  <2>1. x \in some /\ x # None /\ \A z \in some : NotAfter(x, z)
    BY <1>2 DEF IsLeast
  <2>2. y \in more \cup {x} /\ NotAfter(y, x) /\ \A z \in more : NotAfter(y, z)
    BY <2>1 DEF IsLeast
  <2>3. \A z \in some : NotAfter(y, z)
    BY <2>1, <2>2, OrderOfValues
  <2> QED
    BY <2>1, <2>2, <2>3 DEF IsLeast
<1> QED
  BY <1>1, <1>2

\* The sources of a key are values with their times.
LEMMA SourcesAre ==
  ASSUME SortedWritesAssumption, TypeInv, NEW k \in Keys
  PROVE  Sources(k) \in SUBSET Values /\ None \notin Values
<1>1. data \in Seq(Kept) /\ incoming[ShardOf(k)] \in Seq(Kept) /\ batch[ShardOf(k)] \in Seq(Kept)
  <2>1. ShardOf(k) \in Shards
    BY KeysAre
  <2>2. incoming[ShardOf(k)] \in Seq(Full) /\ batch[ShardOf(k)] \in Seq(Kept) /\ data \in Seq(Kept)
    BY <2>1 DEF TypeInv
  <2>3. Full \subseteq Kept
    BY DEF Full, Kept
  <2>4. incoming[ShardOf(k)] \in Seq(Kept)
    BY <2>2, <2>3
  <2> QED
    BY <2>2, <2>4
<1>2. ASSUME NEW rows \in Seq(Kept) PROVE OfKey(rows, k) \subseteq Values
  <2>1. \A i \in DOMAIN rows : rows[i] \in Kept
    BY ElementOf
  <2> QED
    BY <2>1 DEF OfKey, Held, Kept, Values
<1>3. None \notin Values
  BY DEF SortedWritesAssumption, Values
<1> QED
  BY <1>1, <1>2, <1>3 DEF Sources

-----------------------------------------------------------------------------
(* What the steps between merges keep *)

\* What is said of the rows and of the running merge stays true while they do not change.
LEMMA Unmoved ==
  ASSUME IInv, UNCHANGED <<table, now, merge>>
  PROVE  /\ TaskInv' /\ RowsInv' /\ OffsetInv'
         /\ UNCHANGED ref => ContentInv'
         /\ UNCHANGED reader => ReaderInv'
<1>1. /\ data' = data /\ hash' = hash /\ offsets' = offsets /\ stale' = stale /\ gen' = gen
      /\ ok' = ok /\ now' = now /\ path' = path /\ base' = base /\ drained' = drained
      /\ incoming' = incoming /\ batch' = batch /\ fresh' = fresh /\ marked' = marked
      /\ stamps' = stamps
  BY DEF table, merge
<1>2. Live' = Live /\ Idle' = Idle /\ Indexed' = Indexed
  BY <1>1 DEF Live, Idle, Indexed
<1>3. TaskInv'
  BY <1>1, <1>2 DEF IInv, TaskInv, DueRows, BatchOf
<1>4. RowsInv'
  BY <1>1, <1>2 DEF IInv, RowsInv
<1>5. OffsetInv'
  BY <1>1, <1>2 DEF IInv, OffsetInv
<1>6. UNCHANGED ref => ContentInv'
  BY <1>1, <1>2 DEF IInv, ContentInv, Sources, OfKey
<1>7. UNCHANGED reader => ReaderInv'
  BY <1>1, <1>2 DEF IInv, ReaderInv
<1> QED
  BY <1>3, <1>4, <1>5, <1>6, <1>7

\* So does what is said of their types.
LEMMA TypesUnmoved ==
  ASSUME TypeInv, UNCHANGED <<table, now, merge, reader, ref>>,
         open' \in [Writers -> [ins : [Shards -> Seq(Full)], del : [Shards -> Seq(Keys)]]],
         pending' \in [ins : [Shards -> Seq(Full)], del : [Shards -> Seq(Keys)],
                       known : [Shards -> Seq(Known)]]
  PROVE  TypeInv'
  BY DEF TypeInv, table, merge

\* A new table has no rows and no offsets, and nothing is staged.
LEMMA InitIInv == ASSUME SortedWritesAssumption, Init PROVE IInv
<1>1. TypeInv
  <2>1. Empty \in [Shards -> Seq(Full)] /\ Empty \in [Shards -> Seq(Keys)]
        /\ Empty \in [Shards -> Seq(Kept)] /\ Empty \in [Shards -> Seq(Known)]
    BY DEF Empty
  <2>2. /\ open \in [Writers -> [ins : [Shards -> Seq(Full)], del : [Shards -> Seq(Keys)]]]
        /\ pending \in [ins : [Shards -> Seq(Full)], del : [Shards -> Seq(Keys)],
                        known : [Shards -> Seq(Known)]]
    BY <2>1 DEF Init, NoBuffer, NoQueues
  <2>3. incoming \in [Shards -> Seq(Full)] /\ batch \in [Shards -> Seq(Kept)]
    BY <2>1 DEF Init
  <2>4. reader \in [major : Nat, minor : Nat, known : SUBSET Kept]
    BY DEF Init
  <2>5. ref \in [Keys -> [val : Nat, ts : Nat] \cup {None}]
    BY DEF Init
  <2>6. /\ data \in Seq(Kept) /\ hash \in [Shards -> SUBSET Nat]
        /\ offsets \in SUBSET [ts : Nat, row : Nat] /\ stale \in Nat /\ gen \in Nat
        /\ now \in Nat
        /\ path \in {"none", "serial", "parallel"} /\ base \in Nat /\ drained \in SUBSET Shards
        /\ fresh \in [Shards -> SUBSET Nat] /\ marked \in Nat
        /\ stamps \in [Shards -> Nat \cup {None}]
    BY DEF Init
  <2> QED
    BY <2>2, <2>3, <2>4, <2>5, <2>6 DEF TypeInv
<1>2. \A s \in Shards : Empty[s] = <<>>
  BY DEF Empty
<1>3. QueueInv
  BY <1>2 DEF Init, QueueInv, DueRows, DueKeys, NoBuffer, NoQueues
<1>4. TaskInv
  BY <1>2 DEF Init, TaskInv, DueRows, BatchOf, Idle
<1>5. RowsInv
  <2>1. {r \in DOMAIN data : data[r].key = Stale} = {}
    BY DEF Init
  <2>2. Cardinality({}) = 0
    BY FS_EmptySet
  <2>3. stale + marked = 0
    BY DEF Init
  <2> QED
    BY <2>1, <2>2, <2>3 DEF Init, RowsInv, Live
<1>6. OffsetInv
  BY DEF Init, OffsetInv, Indexed
<1>7. ContentInv
  BY <1>2, KeysAre DEF Init, ContentInv, IsLeast, Sources, OfKey
<1>8. ReaderInv
  BY DEF Init, ReaderInv, Indexed, Live
<1> QED
  BY <1>1, <1>3, <1>4, <1>5, <1>6, <1>7, <1>8 DEF IInv

\* Queues grow at the end, and rows are taken up at the front.
LEMMA DueMore ==
  ASSUME NEW s
  PROVE  /\ \A rows \in Seq(Full) : \A row \in Full :
              DueRows(rows, s) /\ ShardOf(row.key) = s /\ row.ts = now => DueRows(Append(rows, row), s)
         /\ \A rows, more \in Seq(Full) :
              DueRows(rows, s) /\ DueRows(more, s) => DueRows(rows \o more, s)
         /\ \A keys \in Seq(Keys) : \A k \in Keys :
              DueKeys(keys, s) /\ ShardOf(k) = s => DueKeys(Append(keys, k), s)
         /\ \A keys, more \in Seq(Keys) :
              DueKeys(keys, s) /\ DueKeys(more, s) => DueKeys(keys \o more, s)
<1>1. ASSUME NEW rows \in Seq(Full), NEW row \in Full, DueRows(rows, s), ShardOf(row.key) = s,
             row.ts = now, NEW i \in DOMAIN Append(rows, row)
      PROVE  ShardOf(Append(rows, row)[i].key) = s /\ Append(rows, row)[i].ts = now
  BY <1>1 DEF DueRows
<1>2. ASSUME NEW rows \in Seq(Full), NEW more \in Seq(Full), DueRows(rows, s), DueRows(more, s),
             NEW i \in DOMAIN (rows \o more)
      PROVE  ShardOf((rows \o more)[i].key) = s /\ (rows \o more)[i].ts = now
  BY <1>2 DEF DueRows
<1>3. ASSUME NEW keys \in Seq(Keys), NEW k \in Keys, DueKeys(keys, s), ShardOf(k) = s,
             NEW i \in DOMAIN Append(keys, k)
      PROVE  ShardOf(Append(keys, k)[i]) = s
  BY <1>3 DEF DueKeys
<1>4. ASSUME NEW keys \in Seq(Keys), NEW more \in Seq(Keys), DueKeys(keys, s), DueKeys(more, s),
             NEW i \in DOMAIN (keys \o more)
      PROVE  ShardOf((keys \o more)[i]) = s
  BY <1>4 DEF DueKeys
<1> QED
  BY <1>1, <1>2, <1>3, <1>4 DEF DueRows, DueKeys

\* Staging a change.
LEMMA StageIInv ==
  ASSUME SortedWritesAssumption, IInv, NEW w \in Writers, Stage(w) PROVE IInv'
<1>1. PICK k \in Keys :
        \/ open' = [open EXCEPT ![w].del[ShardOf(k)] = Append(@, k)]
        \/ \E v \in Vals : open' = [open EXCEPT ![w].ins[ShardOf(k)] = Append(@, Row(k, v, now))]
  BY DEF Stage
<1>2. UNCHANGED <<table, pending, total, now, merge, reader, ref>>
  BY DEF Stage
<1> DEFINE s == ShardOf(k)
<1>3. s \in Shards /\ ShardOf(k) = s
  BY KeysAre
<1>4. open \in [Writers -> [ins : [Shards -> Seq(Full)], del : [Shards -> Seq(Keys)]]] /\ now \in Nat
  BY DEF IInv, TypeInv
<1>5. /\ open[w].ins \in [Shards -> Seq(Full)] /\ open[w].del \in [Shards -> Seq(Keys)]
      /\ open[w].ins[s] \in Seq(Full) /\ open[w].del[s] \in Seq(Keys)
  BY <1>3, <1>4
<1>6. \A q \in Shards : DueRows(open[w].ins[q], q) /\ DueKeys(open[w].del[q], q)
  BY DEF IInv, QueueInv
<1> HIDE DEF s
<1>7. /\ open' \in [Writers -> [ins : [Shards -> Seq(Full)], del : [Shards -> Seq(Keys)]]]
      /\ \A q \in Shards : DueRows(open'[w].ins[q], q) /\ DueKeys(open'[w].del[q], q)
      /\ \A u \in Writers \ {w} : open'[u] = open[u]
  <2>1. CASE open' = [open EXCEPT ![w].del[s] = Append(@, k)]
    <3>1. PICK d : d = [open[w].del EXCEPT ![s] = Append(@, k)]
      OBVIOUS
    <3>2. d \in [Shards -> Seq(Keys)] /\ d[s] = Append(open[w].del[s], k)
          /\ \A q \in Shards \ {s} : d[q] = open[w].del[q]
      BY <1>3, <1>5, <3>1
    <3>3. \A u \in Writers : open'[u] = IF u = w THEN [open[w] EXCEPT !.del = d] ELSE open[u]
      BY <1>4, <2>1, <3>1
    <3>4. open'[w] = [ins |-> open[w].ins, del |-> d] /\ \A u \in Writers \ {w} : open'[u] = open[u]
      BY <1>4, <3>3
    <3>5. open' = [u \in Writers |-> open'[u]]
      BY <1>4, <2>1
    <3>6. open' \in [Writers -> [ins : [Shards -> Seq(Full)], del : [Shards -> Seq(Keys)]]]
      <4>1. \A u \in Writers : open'[u] \in [ins : [Shards -> Seq(Full)], del : [Shards -> Seq(Keys)]]
        <5>1. \A u \in Writers \ {w} :
                 /\ open'[u] = open[u]
                 /\ open[u] \in [ins : [Shards -> Seq(Full)], del : [Shards -> Seq(Keys)]]
          BY <1>4, <3>4
        <5>2. open'[w] \in [ins : [Shards -> Seq(Full)], del : [Shards -> Seq(Keys)]]
          BY <1>5, <3>2, <3>4
        <5> QED
          BY <5>1, <5>2
      <4> QED
        BY <3>5, <4>1
    <3>7. \A q \in Shards : DueKeys(d[q], q)
      <4>1. DueKeys(d[s], s)
        <5>1. DueKeys(open[w].del[s], s)
          BY <1>3, <1>6
        <5>2. DueKeys(Append(open[w].del[s], k), s)
          BY <1>3, <1>5, <5>1, DueMore
        <5> QED
          BY <3>2, <5>2
      <4> QED
        BY <1>6, <3>2, <4>1
    <3>8. open'[w].ins = open[w].ins /\ open'[w].del = d
      BY <3>4
    <3> QED
      BY <1>6, <3>4, <3>6, <3>7, <3>8
  <2>2. ASSUME NEW v \in Vals, open' = [open EXCEPT ![w].ins[s] = Append(@, Row(k, v, now))]
        PROVE  <1>7!1 /\ <1>7!2 /\ <1>7!3
    <3>0. PICK row : row = Row(k, v, now)
      OBVIOUS
    <3>a. row \in Full /\ ShardOf(row.key) = s /\ row.ts = now
      BY <1>4, <3>0 DEF Row, Full, s, SortedWritesAssumption
    <3>1. PICK d : d = [open[w].ins EXCEPT ![s] = Append(@, row)]
      OBVIOUS
    <3>2. d \in [Shards -> Seq(Full)] /\ d[s] = Append(open[w].ins[s], row)
          /\ \A q \in Shards \ {s} : d[q] = open[w].ins[q]
      BY <1>3, <1>5, <3>1, <3>a
    <3>3. \A u \in Writers : open'[u] = IF u = w THEN [open[w] EXCEPT !.ins = d] ELSE open[u]
      BY <1>4, <2>2, <3>1, <3>0
    <3>4. open'[w] = [ins |-> d, del |-> open[w].del] /\ \A u \in Writers \ {w} : open'[u] = open[u]
      BY <1>4, <3>3
    <3>5. open' = [u \in Writers |-> open'[u]]
      BY <1>4, <2>2
    <3>6. open' \in [Writers -> [ins : [Shards -> Seq(Full)], del : [Shards -> Seq(Keys)]]]
      <4>1. \A u \in Writers : open'[u] \in [ins : [Shards -> Seq(Full)], del : [Shards -> Seq(Keys)]]
        <5>1. \A u \in Writers \ {w} :
                 /\ open'[u] = open[u]
                 /\ open[u] \in [ins : [Shards -> Seq(Full)], del : [Shards -> Seq(Keys)]]
          BY <1>4, <3>4
        <5>2. open'[w] \in [ins : [Shards -> Seq(Full)], del : [Shards -> Seq(Keys)]]
          BY <1>5, <3>2, <3>4
        <5> QED
          BY <5>1, <5>2
      <4> QED
        BY <3>5, <4>1
    <3>7. \A q \in Shards : DueRows(d[q], q)
      <4>1. DueRows(d[s], s)
        <5>1. DueRows(open[w].ins[s], s)
          BY <1>3, <1>6
        <5>2. DueRows(Append(open[w].ins[s], row), s)
          BY <1>3, <1>5, <3>a, <5>1, DueMore
        <5> QED
          BY <3>2, <5>2
      <4> QED
        BY <1>6, <3>2, <4>1
    <3>8. open'[w].ins = d /\ open'[w].del = open[w].del
      BY <3>4
    <3> QED
      BY <1>6, <3>4, <3>6, <3>7, <3>8
  <2> QED
    BY <1>1, <2>1, <2>2 DEF s
<1>8. TypeInv'
  BY <1>2, <1>7, TypesUnmoved DEF IInv, TypeInv
<1>9. QueueInv'
  <2>1. now' = now /\ pending' = pending /\ hash' = hash /\ data' = data /\ path' = path
    BY <1>2 DEF table, merge
  <2>2. QueueInv
    BY DEF IInv
  <2>3. ASSUME NEW q \in Shards, NEW u \in Writers
        PROVE  DueRows(open'[u].ins[q], q) /\ DueKeys(open'[u].del[q], q)
    BY <1>7, <2>2 DEF QueueInv
  <2> QED
    BY <2>1, <2>2, <2>3 DEF QueueInv, Idle, DueRows, DueKeys
<1> QED
  BY <1>2, <1>8, <1>9, Unmoved DEF IInv

\* Between merges no task holds a row.
LEMMA IdleIs ==
  ASSUME IInv, Idle
  PROVE  /\ \A s \in Shards : /\ incoming[s] = <<>> /\ batch[s] = <<>> /\ fresh[s] = {}
                              /\ stamps[s] = None
                              /\ hash[s] = {r \in Live : ShardOf(data[r].key) = s}
         /\ Indexed = Len(data) /\ marked = 0 /\ base = 0 /\ drained = {} /\ path # "parallel"
<1>1. path = "none" /\ drained = {}
  BY DEF IInv, TaskInv, Idle
<1>2. \A s \in Shards : incoming[s] = <<>> /\ batch[s] = <<>> /\ fresh[s] = {} /\ stamps[s] = None
  BY <1>1 DEF IInv, TaskInv
<1>3. marked = 0 /\ base = 0
  BY <1>1 DEF IInv, TaskInv, Idle
<1>4. \A s \in Shards : hash[s] = {r \in Live : ShardOf(data[r].key) = s}
  BY <1>2 DEF IInv, RowsInv
<1> QED
  BY <1>1, <1>2, <1>3, <1>4 DEF Indexed

\* Dropping a buffer.
LEMMA DropBufferIInv ==
  ASSUME SortedWritesAssumption, IInv, NEW w \in Writers, DropBuffer(w) PROVE IInv'
<1>1. UNCHANGED <<table, now, merge, reader, ref>>
  BY DEF DropBuffer
<1>2. /\ open \in [Writers -> [ins : [Shards -> Seq(Full)], del : [Shards -> Seq(Keys)]]]
      /\ pending \in [ins : [Shards -> Seq(Full)], del : [Shards -> Seq(Keys)],
                      known : [Shards -> Seq(Known)]]
  BY DEF IInv, TypeInv
<1>3. /\ pending'.ins = [s \in Shards |-> pending.ins[s] \o open[w].ins[s]]
      /\ pending'.del = [s \in Shards |-> pending.del[s] \o open[w].del[s]]
      /\ pending' = [ins |-> pending'.ins, del |-> pending'.del, known |-> pending.known]
  BY <1>2 DEF DropBuffer
<1>4. \A s \in Shards : /\ pending.ins[s] \in Seq(Full) /\ open[w].ins[s] \in Seq(Full)
                        /\ pending.del[s] \in Seq(Keys) /\ open[w].del[s] \in Seq(Keys)
                        /\ pending.ins[s] \o open[w].ins[s] \in Seq(Full)
                        /\ pending.del[s] \o open[w].del[s] \in Seq(Keys)
  <2>1. /\ pending.ins \in [Shards -> Seq(Full)] /\ open[w].ins \in [Shards -> Seq(Full)]
        /\ pending.del \in [Shards -> Seq(Keys)] /\ open[w].del \in [Shards -> Seq(Keys)]
    BY <1>2
  <2> QED
    BY <2>1
<1>5. pending' \in [ins : [Shards -> Seq(Full)], del : [Shards -> Seq(Keys)],
                    known : [Shards -> Seq(Known)]]
  <2>1. PICK i, d : i = pending'.ins /\ d = pending'.del
    OBVIOUS
  <2>2. i \in [Shards -> Seq(Full)] /\ d \in [Shards -> Seq(Keys)]
    BY <1>3, <1>4, <2>1
  <2>3. pending.known \in [Shards -> Seq(Known)]
    BY <1>2
  <2>4. pending' = [ins |-> i, del |-> d, known |-> pending.known]
    BY <1>3, <2>1
  <2> QED
    BY <2>2, <2>3, <2>4
<1>6. /\ NoBuffer.ins \in [Shards -> Seq(Full)] /\ NoBuffer.del \in [Shards -> Seq(Keys)]
      /\ NoBuffer = [ins |-> NoBuffer.ins, del |-> NoBuffer.del]
      /\ \A s \in Shards : NoBuffer.ins[s] = <<>> /\ NoBuffer.del[s] = <<>>
  BY DEF NoBuffer, Empty
<1>7. open' = [u \in Writers |-> IF u = w THEN NoBuffer ELSE open[u]]
  BY <1>2 DEF DropBuffer
<1>8. open' \in [Writers -> [ins : [Shards -> Seq(Full)], del : [Shards -> Seq(Keys)]]]
  BY <1>2, <1>6, <1>7
<1>9. TypeInv'
  BY <1>1, <1>5, <1>8, TypesUnmoved DEF IInv
<1>10. QueueInv'
  <2>1. now' = now /\ hash' = hash /\ data' = data /\ path' = path /\ pending'.known = pending.known
    BY <1>1, <1>3 DEF table, merge
  <2>2. QueueInv
    BY DEF IInv
  <2>3. ASSUME NEW s \in Shards
        PROVE  DueRows(pending'.ins[s], s) /\ DueKeys(pending'.del[s], s)
    <3>1. DueRows(pending.ins[s], s) /\ DueRows(open[w].ins[s], s)
          /\ DueKeys(pending.del[s], s) /\ DueKeys(open[w].del[s], s)
      BY <2>2 DEF QueueInv
    <3>2. DueRows(pending.ins[s] \o open[w].ins[s], s)
      BY <1>4, <3>1, DueMore
    <3>3. DueKeys(pending.del[s] \o open[w].del[s], s)
      BY <1>4, <3>1, DueMore
    <3> QED
      BY <1>3, <3>2, <3>3
  <2>4. ASSUME NEW s \in Shards, NEW u \in Writers
        PROVE  DueRows(open'[u].ins[s], s) /\ DueKeys(open'[u].del[s], s)
    <3>1. CASE u = w
      BY <1>6, <1>7, <3>1 DEF DueRows, DueKeys
    <3>2. CASE u # w
      BY <1>7, <2>2, <3>2 DEF QueueInv
    <3> QED
      BY <3>1, <3>2
  <2> QED
    BY <2>1, <2>2, <2>3, <2>4 DEF QueueInv, Idle, DueRows, DueKeys
<1> QED
  BY <1>1, <1>9, <1>10, Unmoved DEF IInv

\* A rebuild stages the removal of a row that is there, and another row.
LEMMA RewriteIInv == ASSUME SortedWritesAssumption, IInv, Rewrite PROVE IInv'
<1>1. UNCHANGED <<table, open, now, merge, reader, ref>> /\ Idle
  BY DEF Rewrite
<1>2. PICK r \in Live, k \in Keys :
        pending' = [pending EXCEPT
             !.known[ShardOf(data[r].key)] = Append(@, [key |-> data[r].key, row |-> r]),
             !.ins[ShardOf(k)] = Append(@, Row(k, data[r].val, now))]
  BY DEF Rewrite
<1>3. r \in DOMAIN data /\ r \in Nat /\ data[r].key \in Keys /\ data[r].val \in Nat /\ now \in Nat
  <2>1. r \in DOMAIN data /\ data[r].key # Stale
    BY DEF Live
  <2> QED
    BY <2>1, RowsAre DEF IInv, TypeInv
<1>4. PICK s, t, row, gone :
         s = ShardOf(k) /\ t = ShardOf(data[r].key) /\ row = Row(k, data[r].val, now)
         /\ gone = [key |-> data[r].key, row |-> r]
  OBVIOUS
<1>5. /\ s \in Shards /\ t \in Shards
      /\ row \in Full /\ ShardOf(row.key) = s /\ row.ts = now
      /\ gone \in Known
  BY <1>3, <1>4, KeysAre DEF Row, Full, Known
<1>6. pending \in [ins : [Shards -> Seq(Full)], del : [Shards -> Seq(Keys)],
                   known : [Shards -> Seq(Known)]]
  BY DEF IInv, TypeInv
<1>7. PICK i, n : i = [pending.ins EXCEPT ![s] = Append(@, row)]
                  /\ n = [pending.known EXCEPT ![t] = Append(@, gone)]
  OBVIOUS
<1>8. pending' = [ins |-> i, del |-> pending.del, known |-> n]
  BY <1>2, <1>4, <1>6, <1>7
<1>9. /\ i \in [Shards -> Seq(Full)] /\ n \in [Shards -> Seq(Known)]
      /\ i[s] = Append(pending.ins[s], row) /\ n[t] = Append(pending.known[t], gone)
      /\ \A q \in Shards \ {s} : i[q] = pending.ins[q]
      /\ \A q \in Shards \ {t} : n[q] = pending.known[q]
      /\ pending.ins[s] \in Seq(Full) /\ pending.known[t] \in Seq(Known)
  <2>1. pending.ins \in [Shards -> Seq(Full)] /\ pending.known \in [Shards -> Seq(Known)]
    BY <1>6
  <2>2. Append(pending.ins[s], row) \in Seq(Full) /\ pending.ins[s] \in Seq(Full)
    BY <1>5, <2>1
  <2>3. Append(pending.known[t], gone) \in Seq(Known)
        /\ pending.known[t] \in Seq(Known)
    BY <1>5, <2>1
  <2>4. i = [pending.ins EXCEPT ![s] = Append(pending.ins[s], row)]
        /\ n = [pending.known EXCEPT ![t] = Append(pending.known[t], gone)]
    BY <1>7
  <2>5. i \in [Shards -> Seq(Full)] /\ i[s] = Append(pending.ins[s], row)
        /\ \A q \in Shards \ {s} : i[q] = pending.ins[q]
    BY <1>5, <2>1, <2>2, <2>4
  <2>6. n \in [Shards -> Seq(Known)] /\ n[t] = Append(pending.known[t], gone)
        /\ \A q \in Shards \ {t} : n[q] = pending.known[q]
    BY <1>5, <2>1, <2>3, <2>4
  <2> QED
    BY <2>2, <2>3, <2>5, <2>6
<1>10. TypeInv'
  <2>1. pending' \in [ins : [Shards -> Seq(Full)], del : [Shards -> Seq(Keys)],
                      known : [Shards -> Seq(Known)]]
    BY <1>6, <1>8, <1>9
  <2> QED
    BY <1>1, <2>1, TypesUnmoved DEF IInv, TypeInv
<1>11. QueueInv'
  <2>1. now' = now /\ hash' = hash /\ data' = data /\ path' = path /\ open' = open
        /\ pending'.del = pending.del /\ pending'.ins = i /\ pending'.known = n
    BY <1>1, <1>8 DEF table, merge
  <2>2. QueueInv
    BY DEF IInv
  <2>3. ASSUME NEW q \in Shards PROVE DueRows(i[q], q)
    <3>1. DueRows(pending.ins[s], s)
      BY <1>5, <2>2 DEF QueueInv
    <3>2. DueRows(Append(pending.ins[s], row), s)
      BY <1>5, <1>9, <3>1, DueMore
    <3> QED
      BY <1>9, <2>2, <3>2 DEF QueueInv
  <2>4. r \in hash[t]
    BY <1>1, <1>4, <1>5, IdleIs
  <2>5. ASSUME NEW q \in Shards, NEW j \in DOMAIN n[q]
        PROVE  n[q][j].row \in hash[q] /\ data[n[q][j].row].key = n[q][j].key
    <3>1. CASE q = t /\ j = Len(pending.known[t]) + 1
      <4>1. n[q][j] = gone
        BY <1>9, <3>1
      <4> QED
        BY <1>4, <2>4, <3>1, <4>1
    <3>2. CASE ~(q = t /\ j = Len(pending.known[t]) + 1)
      <4>1. j \in DOMAIN pending.known[q] /\ n[q][j] = pending.known[q][j]
        <5>1. CASE q # t
          BY <1>9, <5>1
        <5>2. CASE q = t
          <6>1. j \in DOMAIN Append(pending.known[t], gone) /\ j # Len(pending.known[t]) + 1
            BY <1>9, <3>2, <5>2
          <6>2. j \in DOMAIN pending.known[t] /\ Append(pending.known[t], gone)[j] = pending.known[t][j]
            <7>1. \A S : \A seq \in Seq(S) : \A x \in S : \A m \in DOMAIN Append(seq, x) :
                    m # Len(seq) + 1 => m \in DOMAIN seq /\ Append(seq, x)[m] = seq[m]
              OBVIOUS
            <7> QED
              BY <1>5, <1>9, <6>1, <7>1
          <6> QED
            BY <1>9, <5>2, <6>2
        <5> QED
          BY <5>1, <5>2
      <4> QED
        BY <2>2, <4>1 DEF QueueInv
    <3> QED
      BY <3>1, <3>2
  <2> QED
    BY <1>1, <2>1, <2>2, <2>3, <2>5 DEF QueueInv, Idle, DueRows, DueKeys
<1> QED
  BY <1>1, <1>10, <1>11, Unmoved DEF IInv

\* Time passes when nothing is staged.
LEMMA TickIInv == ASSUME SortedWritesAssumption, IInv, Tick PROVE IInv'
<1>1. UNCHANGED <<table, queues, merge, reader, ref>> /\ Idle /\ now' = now + 1
      /\ pending = NoQueues /\ \A w \in Writers : open[w] = NoBuffer
  BY DEF Tick
<1>2. /\ data' = data /\ hash' = hash /\ offsets' = offsets /\ stale' = stale /\ gen' = gen
      /\ ok' = ok /\ path' = path /\ base' = base /\ drained' = drained
      /\ incoming' = incoming /\ batch' = batch /\ fresh' = fresh /\ marked' = marked
      /\ stamps' = stamps /\ open' = open /\ pending' = pending /\ reader' = reader /\ ref' = ref
  BY <1>1 DEF table, merge, queues
<1>3. now \in Nat /\ now <= now + 1 /\ now + 1 \in Nat
  BY DEF IInv, TypeInv
<1>4. Live' = Live /\ Idle' /\ Indexed' = Indexed
  BY <1>1, <1>2 DEF Live, Idle, Indexed
<1>5. TypeInv'
  BY <1>1, <1>2, <1>3 DEF IInv, TypeInv
<1>6. QueueInv'
  <2>1. \A s \in Shards : Empty[s] = <<>>
    BY DEF Empty
  <2>2. \A s \in Shards : pending.ins[s] = <<>> /\ pending.del[s] = <<>> /\ pending.known[s] = <<>>
    BY <1>1, <2>1 DEF NoQueues
  <2>3. \A s \in Shards, w \in Writers : open[w].ins[s] = <<>> /\ open[w].del[s] = <<>>
    BY <1>1, <2>1 DEF NoBuffer
  <2> QED
    BY <1>2, <2>2, <2>3 DEF QueueInv, DueRows, DueKeys
<1>7. TaskInv'
  BY <1>1, <1>2, <1>4, IdleIs DEF IInv, TaskInv, DueRows, BatchOf
<1>8. RowsInv'
  <2>1. \A i \in DOMAIN data : data[i].ts <= now /\ data[i].ts \in Nat
    BY RowsAre DEF IInv, RowsInv
  <2>2. \A i \in DOMAIN data : data[i].ts <= now + 1
    BY <1>3, <2>1
  <2>3. path # "parallel"
    BY <1>1, IdleIs
  <2> QED
    BY <1>1, <1>2, <1>4, <2>2, <2>3 DEF IInv, RowsInv
<1>9. OffsetInv'
  <2>1. \A o \in offsets : o.ts <= now /\ o.ts \in Nat
    BY DEF IInv, OffsetInv, TypeInv
  <2>2. \A o \in offsets : o.ts <= now + 1
    BY <1>3, <2>1
  <2> QED
    BY <1>1, <1>2, <1>4, <2>2 DEF IInv, OffsetInv
<1>10. ContentInv'
  BY <1>2 DEF IInv, ContentInv, Sources, OfKey
<1>11. ReaderInv'
  BY <1>2, <1>4 DEF IInv, ReaderInv
<1> QED
  BY <1>5, <1>6, <1>7, <1>8, <1>9, <1>10, <1>11 DEF IInv

\* clear drops what is staged and the rows.
LEMMA ClearIInv == ASSUME SortedWritesAssumption, IInv, Clear PROVE IInv'
<1>1. UNCHANGED <<open, now, merge, reader>> /\ Idle /\ pending' = NoQueues
      /\ ref' = [k \in Keys |-> None]
  BY DEF Clear
<1>2. CASE data = <<>>
  <2>1. UNCHANGED table
    BY <1>2 DEF Clear
  <2>2. \A s \in Shards : Empty[s] = <<>>
    BY DEF Empty
  <2>3. pending' \in [ins : [Shards -> Seq(Full)], del : [Shards -> Seq(Keys)],
                      known : [Shards -> Seq(Known)]]
    BY <1>1 DEF NoQueues, Empty
  <2>4. ref' \in [Keys -> [val : Nat, ts : Nat] \cup {None}]
    BY <1>1
  <2>5. TypeInv'
    BY <1>1, <2>1, <2>3, <2>4 DEF IInv, TypeInv, table, merge
  <2>6. QueueInv'
    <3>1. \A s \in Shards : pending'.ins[s] = <<>> /\ pending'.del[s] = <<>> /\ pending'.known[s] = <<>>
      BY <1>1, <2>2 DEF NoQueues
    <3> QED
      BY <1>1, <3>1 DEF IInv, QueueInv, DueRows, DueKeys
  <2>7. ContentInv'
    <3>1. \A s \in Shards : incoming'[s] = <<>> /\ batch'[s] = <<>>
      BY <1>1, IdleIs DEF merge
    <3>2. data' = <<>>
      BY <1>2, <2>1 DEF table
    <3>3. ASSUME NEW k \in Keys PROVE Sources(k)' = {}
      BY <3>1, <3>2, KeysAre DEF Sources, OfKey
    <3> QED
      BY <1>1, <3>3 DEF ContentInv, IsLeast
  <2> QED
    BY <1>1, <2>1, <2>5, <2>6, <2>7, Unmoved DEF IInv
<1>3. CASE data # <<>>
  <2>1. data' = <<>> /\ hash' = [s \in Shards |-> {}] /\ offsets' = {}
        /\ stale' = 0 /\ gen' = gen + 1 /\ ok' = ok
    BY <1>3 DEF Clear
  <2>2. \A s \in Shards : Empty[s] = <<>>
    BY DEF Empty
  <2>3. /\ path' = path /\ base' = base /\ drained' = drained /\ now' = now
        /\ incoming' = incoming /\ batch' = batch /\ fresh' = fresh /\ marked' = marked
        /\ stamps' = stamps /\ open' = open /\ reader' = reader
    BY <1>1 DEF merge
  <2>4. TypeInv'
    <3>1. pending' \in [ins : [Shards -> Seq(Full)], del : [Shards -> Seq(Keys)],
                        known : [Shards -> Seq(Known)]]
      BY <1>1 DEF NoQueues, Empty
    <3>2. ref' \in [Keys -> [val : Nat, ts : Nat] \cup {None}]
      BY <1>1
    <3>3. data' \in Seq(Kept) /\ hash' \in [Shards -> SUBSET Nat] /\ stale' \in Nat
          /\ offsets' \in SUBSET [ts : Nat, row : Nat]
      BY <2>1
    <3>4. gen' \in Nat
      BY <2>1 DEF IInv, TypeInv
    <3>5. TypeInv
      BY DEF IInv
    <3> QED
      BY <2>3, <3>1, <3>2, <3>3, <3>4, <3>5 DEF TypeInv
  <2>5. QueueInv'
    <3>1. \A s \in Shards : pending'.ins[s] = <<>> /\ pending'.del[s] = <<>> /\ pending'.known[s] = <<>>
      BY <1>1, <2>2 DEF NoQueues
    <3> QED
      BY <1>1, <3>1 DEF IInv, QueueInv, DueRows, DueKeys
  <2>6. Live' = {} /\ Idle' /\ Indexed' = 0 /\ path # "parallel"
    BY <1>1, <2>1, <2>3, IdleIs DEF Live, Idle, Indexed
  <2>7. TaskInv'
    BY <1>1, <2>3, <2>6, IdleIs DEF IInv, TaskInv, DueRows, BatchOf, Idle
  <2>8. RowsInv'
    <3>1. {r \in DOMAIN data' : data'[r].key = Stale} = {} /\ Cardinality({}) = 0
      BY <2>1, FS_EmptySet
    <3>2. stale' + marked' = 0
      BY <1>1, <2>1, <2>3, IdleIs
    <3> QED
      BY <1>1, <2>1, <2>3, <2>6, <3>1, <3>2, IdleIs DEF RowsInv
  <2>9. OffsetInv'
    BY <2>1, <2>6 DEF IInv, OffsetInv
  <2>10. ContentInv'
    <3>1. \A s \in Shards : incoming'[s] = <<>> /\ batch'[s] = <<>>
      BY <1>1, <2>3, IdleIs
    <3>2. ASSUME NEW k \in Keys PROVE Sources(k)' = {}
      BY <2>1, <3>1, KeysAre DEF Sources, OfKey
    <3> QED
      BY <1>1, <3>2 DEF ContentInv, IsLeast
  <2>11. ReaderInv'
    <3>1. reader.major <= gen /\ reader.major \in Nat /\ gen \in Nat
      BY DEF IInv, ReaderInv, TypeInv
    <3> QED
      BY <2>1, <2>3, <3>1 DEF ReaderInv
  <2> QED
    BY <2>4, <2>5, <2>7, <2>8, <2>9, <2>10, <2>11 DEF IInv
<1> QED
  BY <1>2, <1>3

\* A reader takes the present version, and has the rows since the one it had.
LEMMA ReadIInv == ASSUME SortedWritesAssumption, IInv, Read PROVE IInv'
<1>1. UNCHANGED <<table, queues, now, merge, ref>> /\ Idle
  BY DEF Read
<1>2. PICK from : /\ from = IF reader.major = gen THEN reader.minor + 1 ELSE 1
                  /\ reader' = [major |-> gen, minor |-> Len(data),
                                known |-> reader.known \cup {data[r] : r \in {q \in Live : q >= from}}]
  BY DEF Read, Version
<1>3. reader \in [major : Nat, minor : Nat, known : SUBSET Kept] /\ gen \in Nat
  BY DEF IInv, TypeInv
<1>4. \A r \in Live : r \in DOMAIN data /\ r \in Nat /\ 1 <= r /\ data[r] \in Kept
  BY RowsAre DEF IInv, Live
<1>5. TypeInv'
  <2>1. reader' \in [major : Nat, minor : Nat, known : SUBSET Kept]
    BY <1>2, <1>3, <1>4, RowsAre DEF IInv
  <2> QED
    BY <1>1, <2>1 DEF IInv, TypeInv, table, queues, merge
<1>6. QueueInv'
  BY <1>1 DEF IInv, QueueInv, DueRows, DueKeys, Idle, table, queues, merge
<1>7. ReaderInv'
  <2>1. Live' = Live /\ Indexed' = Indexed /\ gen' = gen /\ data' = data
    BY <1>1 DEF table, merge, Live, Indexed
  <2>2. Indexed = Len(data)
    BY <1>1, IdleIs
  <2>3. \A r \in Live : data[r] \in reader'.known
    <3>1. ASSUME NEW r \in Live, ~(r >= from) PROVE data[r] \in reader.known
      <4>1. reader.major = gen /\ r <= reader.minor
        BY <1>2, <1>3, <1>4, <3>1
      <4> QED
        BY <4>1 DEF IInv, ReaderInv
    <3> QED
      BY <1>2, <3>1
  <2> QED
    BY <1>2, <1>3, <2>1, <2>2, <2>3, RowsAre DEF IInv, ReaderInv
<1> QED
  BY <1>1, <1>5, <1>6, <1>7, Unmoved DEF IInv

-----------------------------------------------------------------------------
(* Deleting *)

\* The rows that a merge removes are entries of their shard.
LEMMA RemovedAre ==
  ASSUME SortedWritesAssumption, IInv, Idle, NEW g, g = UNION {Removed(s) : s \in Shards}
  PROVE  /\ g \in SUBSET Live
         /\ \A s \in Shards : \A r \in hash[s] : r \in g <=> r \in Removed(s)
         /\ \A r \in Live :
              r \in g <=> data[r].key \in UNION {Range(pending.del[s]) \cup
                                                 {q.key : q \in Range(pending.known[s])} : s \in Shards}
<1>1. \A s \in Shards : hash[s] = {r \in Live : ShardOf(data[r].key) = s} /\ Removed(s) \subseteq hash[s]
  BY IdleIs DEF Removed
<1>2. g \in SUBSET Live
  BY <1>1
<1>3. \A s \in Shards : \A r \in hash[s] : r \in g <=> r \in Removed(s)
  BY <1>1
<1>4. ASSUME NEW r \in Live PROVE data[r].key \in Keys /\ ShardOf(data[r].key) \in Shards
  BY RowsAre, KeysAre DEF Live, IInv
<1>5. ASSUME NEW r \in Live, r \in g
      PROVE  \E s \in Shards : data[r].key \in Range(pending.del[s]) \cup
                                               {q.key : q \in Range(pending.known[s])}
  <2>1. PICK s \in Shards : r \in Removed(s)
    BY <1>5
  <2>2. CASE data[r].key \in Range(pending.del[s])
    BY <2>2
  <2>3. CASE [key |-> data[r].key, row |-> r] \in Range(pending.known[s])
    <3>1. data[r].key \in {q.key : q \in Range(pending.known[s])}
      BY <2>3
    <3> QED
      BY <3>1
  <2> QED
    BY <2>1, <2>2, <2>3 DEF Removed
<1>6. ASSUME NEW r \in Live, NEW s \in Shards,
             data[r].key \in Range(pending.del[s]) \cup {q.key : q \in Range(pending.known[s])}
      PROVE  r \in g
  <2>1. QueueInv /\ RowsInv
    BY DEF IInv
  <2>2. CASE data[r].key \in Range(pending.del[s])
    <3>1. PICK i \in DOMAIN pending.del[s] : data[r].key = pending.del[s][i]
      BY <2>2 DEF Range
    <3>2. ShardOf(data[r].key) = s
      BY <2>1, <3>1 DEF QueueInv, DueKeys
    <3>3. r \in Removed(s)
      BY <1>1, <2>2, <3>2 DEF Removed
    <3> QED
      BY <3>3
  <2>3. CASE data[r].key \in {q.key : q \in Range(pending.known[s])}
    <3>1. PICK i \in DOMAIN pending.known[s] : data[r].key = pending.known[s][i].key
      BY <2>3 DEF Range
    <3>2. PICK q : q = pending.known[s][i]
      OBVIOUS
    <3>3. q.row \in hash[s] /\ data[q.row].key = q.key
      BY <2>1, <3>2 DEF QueueInv
    <3>4. data[q.row].key = data[r].key
      BY <3>1, <3>2, <3>3
    <3>5. r \in hash[s]
      BY <1>1, <3>3, <3>4
    <3>6. r = q.row
      BY <2>1, <3>3, <3>4, <3>5 DEF RowsInv
    <3>7. q = [key |-> q.key, row |-> q.row]
      <4>1. pending.known[s] \in Seq(Known)
        BY DEF IInv, TypeInv
      <4>2. q \in Known
        BY <3>2, <4>1, ElementOf
      <4> QED
        BY <4>2 DEF Known
    <3>8. [key |-> data[r].key, row |-> r] \in Range(pending.known[s])
      BY <3>1, <3>2, <3>6, <3>7 DEF Range
    <3> QED
      BY <3>5, <3>8 DEF Removed
  <2> QED
    BY <1>6, <2>2, <2>3
<1> QED
  BY <1>2, <1>3, <1>5, <1>6

\* A merge begins: it removes rows, and what their keys held is gone.
LEMMA MergeBeginIInv == ASSUME SortedWritesAssumption, IInv, MergeBegin PROVE IInv'
<1>1. /\ UNCHANGED <<offsets, gen, ok, open, now, drained, incoming, batch, fresh, marked, stamps,
                     reader>>
      /\ Idle /\ base' = Len(data) /\ ref' = Deleted(ref)
      /\ pending' = [NoQueues EXCEPT !.ins = pending.ins]
      /\ hash' = [s \in Shards |-> hash[s] \ Removed(s)]
      /\ path' \in {"serial", "parallel"}
  BY DEF MergeBegin
<1>2. PICK g : g = UNION {Removed(s) : s \in Shards}
  OBVIOUS
<1>3. /\ data' = [r \in DOMAIN data |-> IF r \in g THEN [data[r] EXCEPT !.key = Stale] ELSE data[r]]
      /\ stale' = stale + Cardinality(g)
  BY <1>2 DEF MergeBegin
<1>4. TypeInv /\ QueueInv /\ TaskInv /\ RowsInv /\ OffsetInv /\ ContentInv /\ ReaderInv
  BY DEF IInv
<1>5. /\ g \in SUBSET Live
      /\ \A s \in Shards : \A r \in hash[s] : r \in g <=> r \in Removed(s)
      /\ \A r \in Live :
           r \in g <=> data[r].key \in UNION {Range(pending.del[s]) \cup
                                              {q.key : q \in Range(pending.known[s])} : s \in Shards}
  BY <1>1, <1>2, RemovedAre
<1>6. /\ \A r \in DOMAIN data : /\ data[r] \in Kept /\ r \in Nat /\ data[r].key \in Keys \cup {Stale}
                                /\ data[r].val \in Nat /\ data[r].ts \in Nat
      /\ DOMAIN data = 1..Len(data) /\ Len(data) \in Nat
  BY <1>4, RowsAre
<1>7. /\ data' \in Seq(Kept) /\ DOMAIN data' = DOMAIN data /\ Len(data') = Len(data)
      /\ \A r \in DOMAIN data : /\ data'[r].ts = data[r].ts
                                /\ r \in g => data'[r].key = Stale
                                /\ r \notin g => data'[r] = data[r]
  <2>1. \A r \in DOMAIN data : /\ data'[r] \in Kept
                               /\ data'[r].ts = data[r].ts
                               /\ r \in g => data'[r].key = Stale
                               /\ r \notin g => data'[r] = data[r]
    BY <1>3, <1>6 DEF Kept
  <2>2. data' = [r \in 1..Len(data) |-> data'[r]]
    BY <1>3, <1>6
  <2>3. data' \in [1..Len(data) -> Kept]
    BY <1>6, <2>1, <2>2
  <2>4. data' \in Seq(Kept)
    BY <1>6, <2>3
  <2>5. Len(data') = Len(data)
    BY <1>6, <2>3, <2>4
  <2> QED
    BY <1>6, <2>1, <2>3, <2>4, <2>5
<1>8. Live' = Live \ g
  BY <1>5, <1>7 DEF Live
<1>9. \A s \in Shards : /\ incoming[s] = <<>> /\ batch[s] = <<>> /\ fresh[s] = {} /\ stamps[s] = None
                        /\ hash[s] = {r \in Live : ShardOf(data[r].key) = s}
  BY <1>1, IdleIs
<1>10. \A s \in Shards : hash'[s] = {r \in Live' : ShardOf(data'[r].key) = s} /\ hash'[s] \subseteq hash[s]
  <2>1. \A s \in Shards : hash'[s] = {r \in hash[s] : r \notin g}
    BY <1>1, <1>5
  <2> QED
    BY <1>7, <1>8, <1>9, <2>1 DEF Live
<1>11. stale \in Nat /\ IsFiniteSet(g) /\ Cardinality(g) \in Nat
       /\ stale' + marked' = Cardinality({r \in DOMAIN data' : data'[r].key = Stale})
  <2>1. PICK old : old = {r \in DOMAIN data : data[r].key = Stale}
    OBVIOUS
  <2>2. IsFiniteSet(DOMAIN data)
    BY <1>6, FiniteUpTo
  <2>3. g \subseteq DOMAIN data
    BY <1>5 DEF Live
  <2>4. IsFiniteSet(old) /\ IsFiniteSet(g)
    BY <2>1, <2>2, <2>3, FS_Subset
  <2>5. old \cap g = {}
    BY <1>5, <2>1 DEF Live
  <2>6. Cardinality(old \cup g) = Cardinality(old) + Cardinality(g)
    BY <2>4, <2>5, CountOfBoth
  <2>7. {r \in DOMAIN data' : data'[r].key = Stale} = old \cup g
    BY <1>7, <2>1, <2>3
  <2>8. stale + marked = Cardinality(old) /\ marked = 0
    BY <1>1, <1>4, <2>1, IdleIs DEF RowsInv
  <2>9. Cardinality(old) \in Nat /\ Cardinality(g) \in Nat /\ stale \in Nat
    BY <1>4, <2>4, FS_CardinalityType DEF TypeInv
  <2>10. PICK a, b : a = Cardinality(old) /\ b = Cardinality(g)
    OBVIOUS
  <2>11. a \in Nat /\ b \in Nat /\ stale = a /\ marked' = 0 /\ stale' = stale + b
    BY <1>1, <1>3, <2>8, <2>9, <2>10
  <2>12. stale' + marked' = a + b
    BY <2>11
  <2> QED
    BY <2>4, <2>6, <2>7, <2>9, <2>10, <2>12
<1>12. Indexed' = Len(data) /\ Indexed = Len(data) /\ ~Idle'
  BY <1>1, <1>7, IdleIs DEF Indexed, Idle
<1>13. TypeInv'
  <2>1. hash' \in [Shards -> SUBSET Nat]
    BY <1>1, <1>4 DEF TypeInv
  <2>2. stale' \in Nat /\ base' \in Nat
    BY <1>1, <1>3, <1>6, <1>11
  <2>3. pending' \in [ins : [Shards -> Seq(Full)], del : [Shards -> Seq(Keys)],
                      known : [Shards -> Seq(Known)]]
    <3>1. pending.ins \in [Shards -> Seq(Full)]
      BY <1>4 DEF TypeInv
    <3>2. pending' = [ins |-> pending.ins, del |-> Empty, known |-> Empty]
      BY <1>1 DEF NoQueues
    <3>3. Empty \in [Shards -> Seq(Keys)] /\ Empty \in [Shards -> Seq(Known)]
      BY DEF Empty
    <3> QED
      BY <3>1, <3>2, <3>3
  <2>4. ref' \in [Keys -> [val : Nat, ts : Nat] \cup {None}]
    <3>1. PICK gone : Deleted(ref) = [k \in Keys |-> IF k \in gone THEN None ELSE ref[k]]
      BY DEF Deleted
    <3> QED
      BY <1>1, <1>4, <3>1 DEF TypeInv
  <2> QED
    BY <1>1, <1>4, <1>7, <2>1, <2>2, <2>3, <2>4 DEF TypeInv
<1>14. QueueInv'
  <2>1. \A s \in Shards : pending'.ins[s] = pending.ins[s] /\ pending'.del[s] = <<>>
                          /\ pending'.known[s] = <<>>
    BY <1>1 DEF NoQueues, Empty
  <2> QED
    BY <1>1, <1>4, <2>1 DEF QueueInv, DueRows, DueKeys
<1>15. TaskInv'
  <2>1. marked' = 0
    BY <1>1, IdleIs
  <2> QED
    BY <1>1, <1>9, <1>12, <2>1 DEF TaskInv, DueRows, BatchOf
<1>16. RowsInv'
  <2>1. \A i, j \in DOMAIN data' : i <= j => data'[i].ts <= data'[j].ts
    BY <1>4, <1>7 DEF RowsInv
  <2>2. \A i \in DOMAIN data' : data'[i].ts <= now' /\ i <= base'
    BY <1>1, <1>4, <1>6, <1>7 DEF RowsInv
  <2>3. base' <= Len(data') /\ \A i \in DOMAIN data' : ~(base' < i)
    BY <1>1, <1>6, <1>7, <2>2
  <2>4. \A s \in Shards : \A q, r \in hash'[s] : data'[q].key = data'[r].key => q = r
    <3>1. \A s \in Shards : \A q \in hash'[s] : q \in hash[s] /\ data'[q] = data[q]
      BY <1>7, <1>8, <1>10 DEF Live
    <3> QED
      BY <1>4, <3>1 DEF RowsInv
  <2>5. \A s \in Shards : fresh'[s] = {}
    BY <1>1, <1>9
  <2> QED
    BY <1>10, <1>11, <2>1, <2>2, <2>3, <2>4, <2>5 DEF RowsInv
<1>17. OffsetInv'
  <2>1. offsets' = offsets /\ ok' = ok /\ now' = now /\ stamps' = stamps /\ fresh' = fresh
    BY <1>1
  <2>2. \A s \in Shards : \A r \in hash'[s] : /\ r \in hash[s] /\ r \in DOMAIN data /\ r <= Len(data)
                                              /\ ~(Len(data) < r) /\ data'[r].ts = data[r].ts
    BY <1>6, <1>7, <1>8, <1>10 DEF Live
  <2>3. base' = 0 => data' = <<>>
    BY <1>1, <1>7
  <2> QED
    BY <1>4, <1>7, <1>12, <2>1, <2>2, <2>3 DEF OffsetInv
<1>18. ContentInv'
  <2>1. PICK gone : /\ gone = UNION {Range(pending.del[s]) \cup {q.key : q \in Range(pending.known[s])} :
                                       s \in Shards}
                    /\ ref' = [k \in Keys |-> IF k \in gone THEN None ELSE ref[k]]
    BY <1>1 DEF Deleted
  <2>2. \A r \in Live : r \in g <=> data[r].key \in gone
    BY <1>5, <2>1
  <2>3. ASSUME NEW k \in Keys PROVE IsLeast(ref'[k], Sources(k)')
    <3>1. Sources(k) = OfKey(data, k) /\ Sources(k)' = OfKey(data', k)
      BY <1>1, <1>9, KeysAre DEF Sources, OfKey
    <3>2. k # Stale
      BY KeysAre
    <3>3. {i \in DOMAIN data' : data'[i].key = k} =
            IF k \in gone THEN {} ELSE {i \in DOMAIN data : data[i].key = k}
      BY <1>7, <2>2, <3>2 DEF Live
    <3>4. CASE k \in gone
      BY <2>1, <3>1, <3>3, <3>4 DEF OfKey, IsLeast
    <3>5. CASE k \notin gone
      <4>1. \A i \in DOMAIN data' : data'[i].key = k => data'[i] = data[i]
        BY <1>7, <3>2
      <4>2. OfKey(data', k) = OfKey(data, k)
        BY <3>3, <3>5, <4>1 DEF OfKey
      <4> QED
        BY <1>4, <2>1, <3>1, <3>5, <4>2 DEF ContentInv
    <3> QED
      BY <3>4, <3>5
  <2> QED
    BY <2>3 DEF ContentInv
<1>19. ReaderInv'
  <2>1. \A r \in Live' : r \in Live /\ data'[r] = data[r]
    BY <1>7, <1>8 DEF Live
  <2> QED
    BY <1>1, <1>4, <1>12, <2>1 DEF ReaderInv
<1> QED
  BY <1>13, <1>14, <1>15, <1>16, <1>17, <1>18, <1>19 DEF IInv

-----------------------------------------------------------------------------
(* What the steps of a merge keep *)

\* The queues stay as they are while a merge goes on.
LEMMA QueuesStay ==
  ASSUME IInv, ~Idle, UNCHANGED <<queues, now, path>> PROVE QueueInv'
<1>1. open' = open /\ pending' = pending /\ now' = now /\ path' = path
  BY DEF queues
<1>2. \A s \in Shards : \A i \in DOMAIN pending.known[s] : FALSE
  BY DEF IInv, QueueInv
<1> QED
  BY <1>1, <1>2 DEF IInv, QueueInv, DueRows, DueKeys

\* So they do when a merge ends.
LEMMA QueuesOutlast ==
  ASSUME IInv, ~Idle, UNCHANGED <<queues, now>> PROVE QueueInv'
<1>1. open' = open /\ pending' = pending /\ now' = now
  BY DEF queues
<1>2. \A s \in Shards : \A i \in DOMAIN pending.known[s] : FALSE
  BY DEF IInv, QueueInv
<1> QED
  BY <1>1, <1>2 DEF IInv, QueueInv, DueRows, DueKeys

\* The contents stay what they should be while no source is lost but to a better one.
LEMMA ContentStays ==
  ASSUME SortedWritesAssumption, IInv, UNCHANGED ref,
         \A k \in Keys : /\ Sources(k)' \subseteq Sources(k)
                         /\ \A y \in Sources(k) : \E z \in Sources(k)' : NotAfter(z, y)
  PROVE  ContentInv'
<1>1. ASSUME NEW k \in Keys PROVE IsLeast(ref[k], Sources(k)')
  <2>1. PICK all, new : all = Sources(k) /\ new = Sources(k)'
    OBVIOUS
  <2>2. all \in SUBSET Values
    BY <2>1, SourcesAre DEF IInv
  <2>3. new \in SUBSET all /\ \A y \in all : \E z \in new : NotAfter(z, y)
    BY <2>1
  <2>4. IsLeast(ref[k], all)
    BY <2>1 DEF IInv, ContentInv
  <2>5. IsLeast(ref[k], new)
    BY <2>2, <2>3, <2>4, LeastStays
  <2> QED
    BY <2>1, <2>5
<1> QED
  BY <1>1 DEF ContentInv

\* A value is no later than itself.
LEMMA NotAfterItself == ASSUME NEW x \in Values PROVE NotAfter(x, x)
  BY DEF Values, NotAfter

\* The first of the queued rows, and the others.
LEMMA TakenUp ==
  ASSUME NEW rows \in Seq(Full), rows # <<>>
  PROVE  /\ Head(rows) \in Full /\ Tail(rows) \in Seq(Full)
         /\ \A k : OfKey(rows, k) =
                     OfKey(Tail(rows), k) \cup (IF Head(rows).key = k THEN {Held(Head(rows))} ELSE {})
         /\ \A s : DueRows(rows, s) =>
              DueRows(Tail(rows), s) /\ ShardOf(Head(rows).key) = s /\ Head(rows).ts = now
<1>1. /\ Head(rows) = rows[1] /\ 1 \in DOMAIN rows /\ Len(rows) \in Nat /\ DOMAIN rows = 1..Len(rows)
      /\ Tail(rows) \in Seq(Full) /\ Len(Tail(rows)) = Len(rows) - 1
      /\ DOMAIN Tail(rows) = 1..(Len(rows) - 1)
      /\ \A i \in 1..(Len(rows) - 1) : Tail(rows)[i] = rows[i + 1]
  OBVIOUS
<1>2. \A i \in DOMAIN rows : i = 1 \/ \E j \in DOMAIN Tail(rows) : Tail(rows)[j] = rows[i]
  <2>1. ASSUME NEW i \in DOMAIN rows, i # 1 PROVE Tail(rows)[i - 1] = rows[i] /\ i - 1 \in DOMAIN Tail(rows)
    BY <1>1, <2>1
  <2> QED
    BY <2>1
<1>3. \A j \in DOMAIN Tail(rows) : \E i \in DOMAIN rows : Tail(rows)[j] = rows[i]
  <2>1. ASSUME NEW j \in DOMAIN Tail(rows) PROVE Tail(rows)[j] = rows[j + 1] /\ j + 1 \in DOMAIN rows
    BY <1>1
  <2> QED
    BY <2>1
<1>4. ASSUME NEW k PROVE OfKey(rows, k) =
        OfKey(Tail(rows), k) \cup (IF Head(rows).key = k THEN {Held(Head(rows))} ELSE {})
  <2>1. PICK rest, top : rest = Tail(rows) /\ top = Head(rows)
    OBVIOUS
  <2>2. /\ top = rows[1] /\ 1 \in DOMAIN rows
        /\ \A i \in DOMAIN rows : i = 1 \/ \E j \in DOMAIN rest : rest[j] = rows[i]
        /\ \A j \in DOMAIN rest : \E i \in DOMAIN rows : rest[j] = rows[i]
    BY <1>1, <1>2, <1>3, <2>1
  <2>3. ASSUME NEW x \in OfKey(rows, k)
        PROVE  x \in OfKey(rest, k) \cup (IF top.key = k THEN {Held(top)} ELSE {})
    BY <2>2 DEF OfKey
  <2>4. ASSUME NEW x \in OfKey(rest, k) \cup (IF top.key = k THEN {Held(top)} ELSE {})
        PROVE  x \in OfKey(rows, k)
    BY <2>2 DEF OfKey
  <2> QED
    BY <2>1, <2>3, <2>4
<1>5. ASSUME NEW s, DueRows(rows, s)
      PROVE  DueRows(Tail(rows), s) /\ ShardOf(Head(rows).key) = s /\ Head(rows).ts = now
  BY <1>1, <1>3, <1>5 DEF DueRows
<1>6. Head(rows) \in Full
  BY <1>1, ElementOf
<1> QED
  BY <1>1, <1>4, <1>5, <1>6

\* Rows added at the end.
LEMMA OfKeyMore ==
  ASSUME NEW S, NEW rows \in Seq(S), NEW more \in Seq(S), NEW k
  PROVE  OfKey(rows \o more, k) = OfKey(rows, k) \cup OfKey(more, k)
<1>1. PICK all : all = rows \o more
  OBVIOUS
<1>2. \A i \in DOMAIN rows : i \in DOMAIN all /\ all[i] = rows[i]
  BY <1>1
<1>3. \A i \in DOMAIN more : \E j \in DOMAIN all : all[j] = more[i]
  <2>1. ASSUME NEW i \in DOMAIN more PROVE Len(rows) + i \in DOMAIN all /\ all[Len(rows) + i] = more[i]
    BY <1>1
  <2> QED
    BY <2>1
<1>4. \A j \in DOMAIN all : (\E i \in DOMAIN rows : all[j] = rows[i]) \/ (\E i \in DOMAIN more : all[j] = more[i])
  <2>1. ASSUME NEW j \in DOMAIN all, j \notin DOMAIN rows
        PROVE  j - Len(rows) \in DOMAIN more /\ all[j] = more[j - Len(rows)]
    BY <1>1, <2>1
  <2>2. ASSUME NEW j \in DOMAIN all, j \in DOMAIN rows
        PROVE  all[j] = rows[j]
    BY <1>2, <2>2
  <2> QED
    BY <2>1, <2>2
<1>5. ASSUME NEW x PROVE x \in OfKey(all, k) <=> x \in OfKey(rows, k) \cup OfKey(more, k)
  BY <1>2, <1>3, <1>4 DEF OfKey
<1> QED
  BY <1>1, <1>5

\* Inserting rows leaves each key the least of what it held and of them.
LEMMA InsertedAre ==
  ASSUME NEW c \in [Keys -> Values \cup {None}], NEW rows \in Seq(Full), NEW k \in Keys
  PROVE  /\ IsLeast(Inserted(c, Range(rows))[k], OfKey(rows, k) \cup ({c[k]} \ {None}))
         /\ Inserted(c, Range(rows)) \in [Keys -> Values \cup {None}]
<1> DEFINE All(q) == {Held(row) : row \in {row \in Range(rows) : row.key = q}} \cup ({c[q]} \ {None})
<1>1. \A q \in Keys : All(q) = OfKey(rows, q) \cup ({c[q]} \ {None}) /\ All(q) \in SUBSET Values
  <2>1. \A i \in DOMAIN rows : Held(rows[i]) \in Values
    <3>1. \A i \in DOMAIN rows : rows[i] \in Full
      BY ElementOf
    <3> QED
      BY <3>1 DEF Full, Held, Values
  <2>2. ASSUME NEW q \in Keys PROVE OfKey(rows, q) \in SUBSET Values
    BY <2>1 DEF OfKey
  <2>3. ASSUME NEW q \in Keys PROVE {Held(row) : row \in {row \in Range(rows) : row.key = q}} = OfKey(rows, q)
    BY DEF OfKey, Range
  <2> QED
    BY <2>2, <2>3
<1>2. Inserted(c, Range(rows)) =
        [q \in Keys |-> IF All(q) = {} THEN None ELSE CHOOSE x \in All(q) : \A y \in All(q) : NotAfter(x, y)]
  BY DEF Inserted
<1> HIDE DEF All
<1>3. ASSUME NEW q \in Keys
      PROVE  IsLeast(Inserted(c, Range(rows))[q], All(q))
  <2>1. CASE All(q) = {}
    BY <1>2, <2>1 DEF IsLeast
  <2>2. CASE All(q) # {}
    <3>1. \E x \in All(q) : \A y \in All(q) : NotAfter(x, y)
      BY <1>1, <2>2, LeastExists
    <3> QED
      BY <1>2, <2>2, <3>1 DEF IsLeast
  <2> QED
    BY <2>1, <2>2
<1>4. \A q \in Keys : Inserted(c, Range(rows))[q] \in Values \cup {None}
  BY <1>1, <1>3 DEF IsLeast
<1>5. Inserted(c, Range(rows)) = [q \in Keys |-> Inserted(c, Range(rows))[q]]
  BY <1>2
<1>6. Inserted(c, Range(rows)) \in [Keys -> Values \cup {None}]
  BY <1>4, <1>5
<1> QED
  BY <1>1, <1>3, <1>6

\* A task takes its queue over.
LEMMA DrainIInv == ASSUME SortedWritesAssumption, IInv, NEW s \in Shards, Drain(s) PROVE IInv'
<1>1. /\ UNCHANGED <<table, open, now, path, base, batch, fresh, marked, stamps, reader>>
      /\ ~Idle /\ s \notin drained /\ drained' = drained \cup {s}
      /\ incoming' = [incoming EXCEPT ![s] = pending.ins[s]]
      /\ pending' = [pending EXCEPT !.ins[s] = <<>>]
      /\ ref' = Inserted(ref, Range(pending.ins[s]))
  BY DEF Drain
<1>2. TypeInv /\ QueueInv /\ TaskInv /\ RowsInv /\ OffsetInv /\ ContentInv /\ ReaderInv
  BY DEF IInv
<1>3. /\ data' = data /\ hash' = hash /\ offsets' = offsets /\ stale' = stale /\ gen' = gen
      /\ ok' = ok /\ now' = now /\ path' = path /\ base' = base /\ open' = open
      /\ batch' = batch /\ fresh' = fresh /\ marked' = marked /\ stamps' = stamps /\ reader' = reader
  BY <1>1 DEF table
<1>4. PICK q : q = pending.ins[s]
  OBVIOUS
<1>5. pending \in [ins : [Shards -> Seq(Full)], del : [Shards -> Seq(Keys)],
                   known : [Shards -> Seq(Known)]]
      /\ incoming \in [Shards -> Seq(Full)]
  BY <1>2 DEF TypeInv
<1>6. q \in Seq(Full) /\ DueRows(q, s)
  BY <1>2, <1>4, <1>5 DEF QueueInv
<1>7. incoming[s] = <<>> /\ batch[s] = <<>> /\ fresh[s] = {}
  BY <1>1, <1>2 DEF TaskInv
<1>8. Live' = Live /\ ~Idle' /\ Indexed' = Indexed
  BY <1>1, <1>3 DEF Live, Idle, Indexed
<1>9. ref \in [Keys -> Values \cup {None}] /\ ref' = Inserted(ref, Range(q))
  BY <1>1, <1>2, <1>4 DEF TypeInv, Values
<1>10. pending' = [ins |-> [pending.ins EXCEPT ![s] = <<>>], del |-> pending.del, known |-> pending.known]
  BY <1>1, <1>5
<1>11. TypeInv'
  <2>1. pending' \in [ins : [Shards -> Seq(Full)], del : [Shards -> Seq(Keys)],
                      known : [Shards -> Seq(Known)]]
    <3>1. PICK i : i = [pending.ins EXCEPT ![s] = <<>>]
      OBVIOUS
    <3>2. pending.ins \in [Shards -> Seq(Full)] /\ <<>> \in Seq(Full)
      BY <1>5
    <3>3. i \in [Shards -> Seq(Full)]
      BY <3>1, <3>2
    <3> QED
      BY <1>5, <1>10, <3>1, <3>3
  <2>2. incoming' \in [Shards -> Seq(Full)] /\ drained' \in SUBSET Shards
    BY <1>1, <1>2, <1>4, <1>5, <1>6 DEF TypeInv
  <2>3. ref' \in [Keys -> [val : Nat, ts : Nat] \cup {None}]
    <3>1. PICK k : k \in Keys
      BY DEF Keys, SortedWritesAssumption
    <3> QED
      BY <1>6, <1>9, <3>1, InsertedAre DEF Values
  <2> QED
    BY <1>2, <1>3, <2>1, <2>2, <2>3 DEF TypeInv
<1>12. QueueInv'
  <2>1. \A t \in Shards : /\ pending'.del[t] = pending.del[t] /\ pending'.known[t] = pending.known[t]
                          /\ pending'.ins[t] = IF t = s THEN <<>> ELSE pending.ins[t]
    BY <1>5, <1>10
  <2>2. \A t \in Shards : \A i \in DOMAIN pending.known[t] : FALSE
    BY <1>1, <1>2 DEF QueueInv
  <2> QED
    BY <1>2, <1>3, <2>1, <2>2 DEF QueueInv, DueRows, DueKeys
<1>13. TaskInv'
  <2>1. \A t \in Shards : incoming'[t] = IF t = s THEN q ELSE incoming[t]
    BY <1>1, <1>4, <1>5
  <2>2. \A t \in Shards : DueRows(incoming'[t], t)
    BY <1>2, <1>6, <2>1 DEF TaskInv
  <2>3. \A t \in Shards : t \notin drained' => t \notin drained /\ t # s
    BY <1>1
  <2> QED
    BY <1>2, <1>3, <1>8, <2>1, <2>2, <2>3 DEF TaskInv, DueRows, BatchOf
<1>14. RowsInv'
  BY <1>2, <1>3, <1>8 DEF RowsInv
<1>15. OffsetInv'
  BY <1>2, <1>3, <1>8 DEF OffsetInv
<1>16. ContentInv'
  <2>1. ASSUME NEW k \in Keys PROVE IsLeast(ref'[k], Sources(k)')
    <3>1. Sources(k)' = Sources(k) \cup OfKey(q, k)
      <4>1. CASE ShardOf(k) = s
        <5>1. Sources(k)' = OfKey(data, k) \cup OfKey(q, k) \cup OfKey(batch[s], k)
          BY <1>1, <1>3, <1>4, <1>5, <4>1 DEF Sources
        <5>2. OfKey(incoming[s], k) = {}
          BY <1>7 DEF OfKey
        <5> QED
          BY <4>1, <5>1, <5>2 DEF Sources
      <4>2. CASE ShardOf(k) # s
        <5>1. OfKey(q, k) = {}
          BY <1>6, <4>2 DEF DueRows, OfKey
        <5>2. Sources(k)' = Sources(k)
          BY <1>1, <1>3, <1>5, <4>2, KeysAre DEF Sources
        <5> QED
          BY <5>1, <5>2
      <4> QED
        BY <4>1, <4>2
    <3>2. IsLeast(ref'[k], OfKey(q, k) \cup ({ref[k]} \ {None}))
      BY <1>6, <1>9, InsertedAre
    <3>3. IsLeast(ref[k], Sources(k))
      BY <1>2 DEF ContentInv
    <3>4. Sources(k) \in SUBSET Values /\ None \notin Values
      BY <1>2, SourcesAre
    <3>5. OfKey(q, k) \in SUBSET Values
      <4>1. \A i \in DOMAIN q : q[i] \in Full
        BY <1>6, ElementOf
      <4> QED
        BY <4>1 DEF OfKey, Full, Held, Values
    <3>6. PICK all, more, x, y : /\ all = Sources(k) /\ more = OfKey(q, k)
                                 /\ x = ref[k] /\ y = ref'[k]
      OBVIOUS
    <3>7. IsLeast(y, all \cup more)
      BY <3>2, <3>3, <3>4, <3>5, <3>6, LeastOfMore
    <3> QED
      BY <3>1, <3>6, <3>7
  <2> QED
    BY <2>1 DEF ContentInv
<1>17. ReaderInv'
  BY <1>2, <1>3, <1>8 DEF ReaderInv
<1> QED
  BY <1>11, <1>12, <1>13, <1>14, <1>15, <1>16, <1>17 DEF IInv

-----------------------------------------------------------------------------
(* Inserting in one thread *)

\* What taking up a row does to a task, and what there is to know of the row.
LEMMA TakeUpIs ==
  ASSUME SortedWritesAssumption, IInv, NEW s \in Shards, incoming[s] # <<>>, TakeUp(s),
         NEW row, row = Head(incoming[s])
  PROVE  /\ row \in Full /\ ShardOf(row.key) = s /\ row.ts = now /\ row \in Kept
         /\ row.key \in Keys /\ row.key # Stale
         /\ ~Idle /\ s \in drained
         /\ incoming' \in [Shards -> Seq(Full)]
         /\ \A t \in Shards : DueRows(incoming'[t], t)
         /\ \A t \in Shards \ {s} : incoming'[t] = incoming[t]
         /\ \A k \in Keys : OfKey(incoming[ShardOf(k)], k) =
              OfKey(incoming'[ShardOf(k)], k) \cup (IF row.key = k THEN {Held(row)} ELSE {})
<1>1. incoming \in [Shards -> Seq(Full)] /\ incoming[s] \in Seq(Full) /\ DueRows(incoming[s], s)
      /\ \A t \in Shards : DueRows(incoming[t], t)
  BY DEF IInv, TypeInv, TaskInv
<1>2. /\ row \in Full /\ Tail(incoming[s]) \in Seq(Full)
      /\ \A k : OfKey(incoming[s], k) =
                  OfKey(Tail(incoming[s]), k) \cup (IF row.key = k THEN {Held(row)} ELSE {})
      /\ DueRows(Tail(incoming[s]), s) /\ ShardOf(row.key) = s /\ row.ts = now
  BY <1>1, TakenUp
<1>3. incoming' = [incoming EXCEPT ![s] = Tail(incoming[s])]
  BY DEF TakeUp
<1>4. /\ incoming' \in [Shards -> Seq(Full)] /\ incoming'[s] = Tail(incoming[s])
      /\ \A t \in Shards \ {s} : incoming'[t] = incoming[t]
  BY <1>1, <1>2, <1>3
<1>5. s \in drained /\ ~Idle
  BY DEF IInv, TaskInv
<1>6. ASSUME NEW k \in Keys
      PROVE  OfKey(incoming[ShardOf(k)], k) =
               OfKey(incoming'[ShardOf(k)], k) \cup (IF row.key = k THEN {Held(row)} ELSE {})
  <2>1. CASE ShardOf(k) = s
    BY <1>2, <1>4, <2>1
  <2>2. CASE ShardOf(k) # s
    BY <1>2, <1>4, <2>2, KeysAre
  <2> QED
    BY <2>1, <2>2
<1>7. row.key \in Keys /\ row.key # Stale /\ row \in Kept
  BY <1>2, KeysAre DEF Full, Kept
<1>8. \A t \in Shards : DueRows(incoming'[t], t)
  BY <1>1, <1>2, <1>4
<1> QED
  BY <1>2, <1>4, <1>5, <1>6, <1>7, <1>8

\* The values of the rows in the table and in the batches.
LEMMA HeldIs ==
  ASSUME NEW rows \in Seq(Kept), NEW k
  PROVE  \A i \in DOMAIN rows : rows[i].key = k => Held(rows[i]) \in Values /\ Held(rows[i]) \in OfKey(rows, k)
<1>1. \A i \in DOMAIN rows : rows[i] \in Kept
  BY ElementOf
<1> QED
  BY <1>1 DEF OfKey, Held, Kept, Values

\* A row is written at the end, and those with its key become stale.
Written(s, row, g, n) ==
  /\ n = Len(data) + 1 /\ g = Entry(row.key)
  /\ \A r \in g : row.val < data[r].val
  /\ data' \in Seq(Kept) /\ DOMAIN data' = 1..n /\ Len(data') = n /\ data'[n] = row
  /\ \A r \in DOMAIN data : data'[r] = IF r \in g THEN [data[r] EXCEPT !.key = Stale] ELSE data[r]
  /\ UpdateSortOffsets(row.ts, n)
  /\ hash' = [hash EXCEPT ![s] = (@ \ g) \cup {n}]
  /\ stale' \in Nat
  /\ stale' + marked = Cardinality({r \in DOMAIN data' : data'[r].key = Stale})

\* A row that is taken up is written.
LEMMA RowWritten ==
  ASSUME SortedWritesAssumption, IInv, NEW s \in Shards, path = "serial", incoming[s] # <<>>, TakeUp(s),
         NEW row, row = Head(incoming[s]), NEW g, NEW n, Written(s, row, g, n),
         UNCHANGED <<gen, queues, now, path, base, drained, batch, fresh, marked, stamps, reader, ref>>
  PROVE  IInv'
<1>0. /\ n = Len(data) + 1 /\ g = Entry(row.key)
      /\ \A r \in g : row.val < data[r].val
      /\ data' \in Seq(Kept) /\ DOMAIN data' = 1..n /\ Len(data') = n /\ data'[n] = row
      /\ \A r \in DOMAIN data : data'[r] = IF r \in g THEN [data[r] EXCEPT !.key = Stale] ELSE data[r]
      /\ UpdateSortOffsets(row.ts, n)
      /\ hash' = [hash EXCEPT ![s] = (@ \ g) \cup {n}]
      /\ stale' \in Nat
      /\ stale' + marked = Cardinality({r \in DOMAIN data' : data'[r].key = Stale})
  BY DEF Written
<1>1. /\ gen' = gen /\ open' = open /\ pending' = pending /\ now' = now /\ path' = path /\ base' = base
      /\ drained' = drained /\ batch' = batch /\ fresh' = fresh /\ marked' = marked /\ stamps' = stamps
      /\ reader' = reader /\ ref' = ref
  BY DEF queues
<1>2. TypeInv /\ QueueInv /\ TaskInv /\ RowsInv /\ OffsetInv /\ ContentInv /\ ReaderInv
  BY DEF IInv
<1>3. /\ row \in Full /\ ShardOf(row.key) = s /\ row.ts = now /\ row \in Kept
      /\ row.key \in Keys /\ row.key # Stale
      /\ ~Idle /\ s \in drained
      /\ incoming' \in [Shards -> Seq(Full)]
      /\ \A t \in Shards : DueRows(incoming'[t], t)
      /\ \A t \in Shards \ {s} : incoming'[t] = incoming[t]
      /\ \A k \in Keys : OfKey(incoming[ShardOf(k)], k) =
           OfKey(incoming'[ShardOf(k)], k) \cup (IF row.key = k THEN {Held(row)} ELSE {})
  BY TakeUpIs
<1>4. /\ \A r \in DOMAIN data : /\ data[r] \in Kept /\ r \in Nat
                                /\ data[r].key \in Keys \cup {Stale}
                                /\ data[r].val \in Nat /\ data[r].ts \in Nat
      /\ DOMAIN data = 1..Len(data) /\ Len(data) \in Nat
  BY <1>0, <1>2, RowsAre
<1>5. /\ DOMAIN data' = DOMAIN data \cup {n} /\ n \notin DOMAIN data /\ n \in Nat
      /\ \A r \in DOMAIN data : r < n
  BY <1>0, <1>4
<1>6. \A t \in Shards : /\ batch[t] = <<>> /\ fresh[t] = {} /\ stamps[t] = None
                        /\ hash[t] = {r \in Live : ShardOf(data[r].key) = t}
  BY <1>0, <1>2 DEF TaskInv, RowsInv
<1>7. /\ g \subseteq hash[s] /\ g \subseteq Live /\ \A r \in g : data[r].key = row.key
      /\ \A r \in Live : data[r].key = row.key => r \in g
  BY <1>0, <1>3, <1>6 DEF Entry
<1>8. /\ \A r \in DOMAIN data : data'[r].ts = data[r].ts
      /\ \A r \in g : data'[r].key = Stale
      /\ \A r \in DOMAIN data \ g : data'[r] = data[r]
  <2>1. \A r \in g : r \in DOMAIN data
    BY <1>0, <1>7 DEF Live
  <2>2. \A r \in DOMAIN data \ g : data'[r] = data[r]
    BY <1>0
  <2>3. \A r \in g : data'[r] = [data[r] EXCEPT !.key = Stale]
    BY <1>0, <2>1
  <2>4. \A r \in g : data'[r].ts = data[r].ts /\ data'[r].key = Stale
    BY <1>0, <1>4, <2>1, <2>3 DEF Kept
  <2> QED
    BY <2>1, <2>2, <2>4
<1>9. Live' = (Live \ g) \cup {n}
  <2>1. \A r \in DOMAIN data' : data'[r].key # Stale <=> r \in (Live \ g) \cup {n}
    BY <1>0, <1>3, <1>5, <1>7, <1>8 DEF Live
  <2>2. (Live \ g) \cup {n} \subseteq DOMAIN data'
    BY <1>0, <1>5 DEF Live
  <2>3. Live' = {r \in DOMAIN data' : data'[r].key # Stale}
    BY DEF Live
  <2> QED
    BY <2>1, <2>2, <2>3
<1>10. \A t \in Shards : hash'[t] = IF t = s THEN (hash[t] \ g) \cup {n} ELSE hash[t]
  BY <1>0, <1>2 DEF TypeInv
<1>11. Idle' = Idle /\ Indexed' = n /\ Indexed = Len(data)
  BY <1>0, <1>1 DEF Idle, Indexed
<1>12. /\ ok' = TRUE
       /\ offsets' = IF \A o \in offsets : o.ts < now THEN offsets \cup {[ts |-> now, row |-> n]} ELSE offsets
       /\ \A o \in offsets : o.ts \in Nat /\ o.row \in Nat /\ o.ts <= now /\ o.row \in 1..Len(data)
       /\ now \in Nat
  <2>1. \A o \in offsets : o.ts \in Nat /\ o.row \in Nat /\ o.ts <= now /\ o.row \in 1..Len(data)
    BY <1>0, <1>2, <1>11 DEF OffsetInv, TypeInv
  <2> QED
    BY <1>0, <1>2, <1>3, <2>1 DEF UpdateSortOffsets, OffsetInv, TypeInv
<1>13. TypeInv'
  <2>1. hash' \in [Shards -> SUBSET Nat]
    <3>1. hash' = [t \in Shards |-> hash'[t]]
      BY <1>0, <1>2 DEF TypeInv
    <3>2. \A t \in Shards : hash'[t] \in SUBSET Nat
      BY <1>0, <1>2, <1>5, <1>10 DEF TypeInv
    <3> QED
      BY <3>1, <3>2
  <2>2. offsets' \in SUBSET [ts : Nat, row : Nat]
    <3>1. offsets \in SUBSET [ts : Nat, row : Nat] /\ [ts |-> now, row |-> n] \in [ts : Nat, row : Nat]
      BY <1>0, <1>2, <1>5, <1>12 DEF TypeInv
    <3>2. offsets' \subseteq offsets \cup {[ts |-> now, row |-> n]}
      BY <1>0, <1>12
    <3> QED
      BY <3>1, <3>2
  <2>3. ok' \in BOOLEAN
    BY <1>0, <1>12
  <2> QED
    BY <1>0, <1>1, <1>2, <1>3, <2>1, <2>2 DEF TypeInv
<1>14. QueueInv'
  BY <1>0, <1>3, QueuesStay
<1>15. TaskInv'
  <2>1. \A t \in Shards : t \notin drained => incoming'[t] = incoming[t]
    BY <1>0, <1>3
  <2> QED
    BY <1>0, <1>1, <1>2, <1>3, <1>6, <1>11, <2>1 DEF TaskInv, BatchOf, DueRows
<1>16. RowsInv'
  <2>1. \A i, j \in DOMAIN data' : i <= j => data'[i].ts <= data'[j].ts
    <3>1. \A i \in DOMAIN data : data'[i].ts <= now
      BY <1>0, <1>2, <1>8 DEF RowsInv
    <3>2. data'[n].ts = now /\ now <= now
      BY <1>0, <1>3, <1>12
    <3>3. \A i, j \in DOMAIN data : i <= j => data'[i].ts <= data'[j].ts
      BY <1>0, <1>2, <1>8 DEF RowsInv
    <3>4. \A j \in DOMAIN data : ~(n <= j)
      BY <1>0, <1>4, <1>5
    <3> QED
      BY <1>0, <1>5, <3>1, <3>2, <3>3, <3>4
  <2>2. \A i \in DOMAIN data' : data'[i].ts <= now
    <3>1. \A i \in DOMAIN data : data'[i].ts <= now
      BY <1>0, <1>2, <1>8 DEF RowsInv
    <3>2. data'[n].ts <= now
      BY <1>0, <1>3, <1>12
    <3> QED
      BY <1>0, <1>5, <3>1, <3>2
  <2>3. ASSUME NEW t \in Shards
        PROVE  /\ hash'[t] = {r \in Live' : ShardOf(data'[r].key) = t}
               /\ \A q, r \in hash'[t] : data'[q].key = data'[r].key => q = r
    <3>1. \A r \in Live \ g : r \in DOMAIN data /\ r # n /\ data'[r] = data[r]
      BY <1>0, <1>5, <1>8 DEF Live
    <3>2. hash[t] \cap g = IF t = s THEN g ELSE {}
      <4>1. CASE t = s
        BY <1>0, <1>7, <4>1
      <4>2. CASE t # s
        <5>1. \A r \in g : ShardOf(data[r].key) = s
          BY <1>0, <1>3, <1>7
        <5> QED
          BY <1>0, <1>6, <4>2, <5>1
      <4> QED
        BY <4>1, <4>2
    <3>3. {r \in Live' : ShardOf(data'[r].key) = t} = (hash[t] \ g) \cup (IF t = s THEN {n} ELSE {})
      BY <1>0, <1>3, <1>6, <1>9, <3>1
    <3>4. hash'[t] = (hash[t] \ g) \cup (IF t = s THEN {n} ELSE {})
      BY <1>0, <1>10, <3>2
    <3>5. \A r \in hash[t] \ g : r \in Live /\ r \notin g
      BY <1>0, <1>6
    <3>6. \A q, r \in hash'[t] : data'[q].key = data'[r].key => q = r
      <4>1. \A q, r \in hash[t] \ g : data'[q].key = data'[r].key => q = r
        BY <1>0, <1>2, <3>1, <3>5 DEF RowsInv
      <4>2. \A q \in hash[t] \ g : data'[q].key # row.key
        BY <1>0, <1>7, <3>1, <3>5
      <4> QED
        BY <1>0, <3>4, <4>1, <4>2
    <3> QED
      BY <3>3, <3>4, <3>6
  <2> QED
    BY <1>0, <1>1, <1>6, <2>1, <2>2, <2>3 DEF RowsInv
<1>17. OffsetInv'
  <2>1. \A o, p \in offsets' : (o.ts < p.ts => o.row < p.row) /\ (o.ts = p.ts => o = p)
    <3>1. \A o, p \in offsets : (o.ts < p.ts => o.row < p.row) /\ (o.ts = p.ts => o = p)
      BY <1>0, <1>2 DEF OffsetInv
    <3>2. CASE \A o \in offsets : o.ts < now
      <4>1. PICK top : top = [ts |-> now, row |-> n]
        OBVIOUS
      <4>2. top.ts = now /\ top.row = n /\ offsets' = offsets \cup {top}
        BY <1>0, <1>12, <3>2, <4>1
      <4>3. \A o \in offsets : o.row < n /\ o.ts < now /\ ~(now < o.ts) /\ o.ts # now
        BY <1>0, <1>4, <1>12, <3>2
      <4>4. ~(now < now)
        BY <1>0, <1>12
      <4> QED
        BY <3>1, <4>2, <4>3, <4>4
    <3> QED
      BY <1>0, <1>12, <3>1, <3>2
  <2>2. \A o \in offsets' : /\ o.row \in 1..n /\ o.ts <= now
                            /\ \A r \in DOMAIN data' : o.row <= r => o.ts <= data'[r].ts
    <3>1. \A o \in offsets : \A r \in DOMAIN data : o.row <= r => o.ts <= data'[r].ts
      BY <1>0, <1>2, <1>8 DEF OffsetInv
    <3>2. \A o \in offsets : /\ o.row \in 1..n /\ o.ts <= now
                             /\ \A r \in DOMAIN data' : o.row <= r => o.ts <= data'[r].ts
      BY <1>0, <1>3, <1>4, <1>5, <1>12, <3>1
    <3>3. \A r \in DOMAIN data : ~(n <= r)
      BY <1>0, <1>4, <1>5
    <3>4. \A o \in offsets' \ offsets : o.ts = now /\ o.row = n
      BY <1>0, <1>12
    <3>5. now <= data'[n].ts /\ n \in 1..n
      BY <1>0, <1>3, <1>4, <1>12
    <3> QED
      BY <1>0, <1>5, <1>12, <3>2, <3>3, <3>4, <3>5
  <2>3. offsets' # {}
    BY <1>0, <1>12
  <2>4. \A t \in Shards : \A r \in hash'[t] : \E o \in offsets' : o.ts = data'[r].ts /\ o.row <= r
    <3>1. \A t \in Shards : \A r \in hash[t] : /\ r \in DOMAIN data /\ r <= Indexed
                                               /\ \E o \in offsets : o.ts = data'[r].ts /\ o.row <= r
      BY <1>0, <1>2, <1>4, <1>6, <1>8, <1>11 DEF OffsetInv, Live
    <3>2. \E o \in offsets' : o.ts = now /\ o.row <= n
      <4>1. CASE \A o \in offsets : o.ts < now
        <5>1. [ts |-> now, row |-> n] \in offsets'
          BY <1>0, <1>12, <4>1
        <5>2. n <= n
          BY <1>0, <1>5
        <5> QED
          BY <5>1, <5>2
      <4>2. CASE \E o \in offsets : ~(o.ts < now)
        <5>1. PICK o \in offsets : ~(o.ts < now)
          BY <4>2
        <5>2. o.ts = now /\ o.row <= n
          BY <1>0, <1>4, <1>12, <5>1
        <5> QED
          BY <1>0, <1>12, <4>2, <5>2
      <4> QED
        BY <4>1, <4>2
    <3>3. data'[n].ts = now
      BY <1>0, <1>3
    <3>4. \A o \in offsets : o \in offsets'
      BY <1>0, <1>12
    <3>5. \A t \in Shards : \A r \in hash'[t] : r \in hash[t] \/ r = n
      BY <1>0, <1>10
    <3> QED
      BY <3>1, <3>2, <3>3, <3>4, <3>5
  <2>5. \A t \in Shards : \A r \in hash'[t] : r <= n /\ ~(n < r)
    BY <1>0, <1>4, <1>5, <1>6, <1>10 DEF Live
  <2> QED
    <3>1. path' # "parallel" /\ now' = now
      BY <1>0, <1>1
    <3>2. Indexed' = n /\ ok'
      BY <1>0, <1>11, <1>12
    <3>3. \A o \in offsets' : /\ o.row \in 1..Indexed' /\ o.ts <= now'
                              /\ \A r \in DOMAIN data' : o.row <= r => o.ts <= data'[r].ts
      BY <2>2, <3>1, <3>2
    <3>4. \A t \in Shards : \A r \in hash'[t] :
            /\ r <= Indexed' => \E o \in offsets' : o.ts = data'[r].ts /\ o.row <= r
            /\ Indexed' < r => stamps'[t] # None
      BY <2>4, <2>5, <3>2
    <3> QED
      BY <2>1, <2>3, <3>1, <3>2, <3>3, <3>4 DEF OffsetInv
<1>18. ContentInv'
  <2>1. ASSUME NEW k \in Keys
        PROVE  /\ Sources(k)' \subseteq Sources(k)
               /\ \A y \in Sources(k) : \E z \in Sources(k)' : NotAfter(z, y)
    <3>1. k # Stale
      BY KeysAre
    <3>2. PICK old, new, inc, more, b :
             /\ old = OfKey(data, k) /\ new = OfKey(data', k)
             /\ inc = OfKey(incoming[ShardOf(k)], k) /\ more = OfKey(incoming'[ShardOf(k)], k)
             /\ b = OfKey(batch[ShardOf(k)], k)
      OBVIOUS
    <3>3. Sources(k) = old \cup inc \cup b /\ Sources(k)' = new \cup more \cup b
      BY <1>0, <1>1, <3>2 DEF Sources
    <3>4. inc = more \cup (IF row.key = k THEN {Held(row)} ELSE {})
      BY <1>0, <1>3, <3>2
    <3>5. new \subseteq old \cup (IF row.key = k THEN {Held(row)} ELSE {})
      BY <1>0, <1>5, <1>8, <3>1, <3>2 DEF OfKey
    <3>6. row.key = k => Held(row) \in new
      BY <1>0, <1>5, <3>2 DEF OfKey
    <3>7. ASSUME NEW y \in old PROVE y \in new \/ (row.key = k /\ NotAfter(Held(row), y))
      <4>1. PICK i \in DOMAIN data : data[i].key = k /\ y = Held(data[i])
        BY <3>2, <3>7 DEF OfKey
      <4>2. CASE i \notin g
        BY <1>0, <1>5, <1>8, <3>2, <4>1, <4>2 DEF OfKey
      <4>3. CASE i \in g
        <5>1. row.key = k /\ row.val < data[i].val
          BY <1>0, <1>7, <4>1, <4>3
        <5> QED
          BY <4>1, <5>1 DEF NotAfter, Held
      <4> QED
        BY <4>2, <4>3
    <3>8. \A y \in Sources(k) : y \in Values
      BY <1>0, <1>2, SourcesAre
    <3>9. \A y \in Sources(k) : NotAfter(y, y)
      BY <3>8, NotAfterItself
    <3>10. ASSUME NEW y \in Sources(k) PROVE \E z \in Sources(k)' : NotAfter(z, y)
      <4>1. CASE y \in old /\ y \notin new
        BY <3>3, <3>6, <3>7, <4>1
      <4>2. CASE y \notin old \/ y \in new
        <5>1. y \in Sources(k)'
          BY <3>3, <3>4, <3>6, <3>10, <4>2
        <5> QED
          BY <3>9, <3>10, <5>1
      <4> QED
        BY <4>1, <4>2
    <3> QED
      BY <3>3, <3>4, <3>5, <3>10
  <2> QED
    BY <1>0, <1>1, <2>1, ContentStays
<1>19. ReaderInv'
  <2>1. reader.major \in Nat /\ reader.minor \in Nat
    BY <1>0, <1>2 DEF TypeInv
  <2>2. reader.major = gen => reader.minor <= Len(data)
    BY <1>0, <1>2, <1>11 DEF ReaderInv
  <2>3. reader.major = gen => reader.minor <= n /\ ~(n <= reader.minor)
    BY <1>0, <1>4, <1>5, <2>1, <2>2
  <2>4. \A r \in Live' : r = n \/ (r \in Live /\ data'[r] = data[r])
    BY <1>0, <1>8, <1>9 DEF Live
  <2> QED
    BY <1>0, <1>1, <1>2, <1>11, <2>3, <2>4 DEF ReaderInv
<1> QED
  BY <1>0, <1>13, <1>14, <1>15, <1>16, <1>17, <1>18, <1>19 DEF IInv

\* A row is taken up, and the table stays as it is.
LEMMA RowTaken ==
  ASSUME SortedWritesAssumption, IInv, NEW s \in Shards, incoming[s] # <<>>, TakeUp(s),
         NEW row, row = Head(incoming[s]),
         UNCHANGED <<table, queues, now, path, base, drained, fresh, marked, stamps, reader, ref>>,
         batch' \in [Shards -> Seq(Kept)], \A t \in Shards \ {s} : batch'[t] = batch[t],
         UNCHANGED batch \/ (path = "parallel" /\ fresh[s] = {} /\ BatchOf(batch'[s], s)),
         \A k \in Keys :
           LET both == OfKey(batch[ShardOf(k)], k) \cup (IF row.key = k THEN {Held(row)} ELSE {})
           IN  /\ OfKey(batch'[ShardOf(k)], k) \subseteq both
               /\ \A y \in both : \E z \in OfKey(data, k) \cup OfKey(batch'[ShardOf(k)], k) : NotAfter(z, y)
  PROVE  IInv'
<1>1. /\ data' = data /\ hash' = hash /\ offsets' = offsets /\ stale' = stale /\ ok' = ok
      /\ gen' = gen /\ open' = open /\ pending' = pending /\ now' = now /\ path' = path /\ base' = base
      /\ drained' = drained /\ fresh' = fresh /\ marked' = marked /\ stamps' = stamps
      /\ reader' = reader /\ ref' = ref
  BY DEF queues, table
<1>2. TypeInv /\ QueueInv /\ TaskInv /\ RowsInv /\ OffsetInv /\ ContentInv /\ ReaderInv
  BY DEF IInv
<1>3. /\ row \in Full /\ ShardOf(row.key) = s /\ row.ts = now /\ row \in Kept
      /\ row.key \in Keys /\ row.key # Stale
      /\ ~Idle /\ s \in drained
      /\ incoming' \in [Shards -> Seq(Full)]
      /\ \A t \in Shards : DueRows(incoming'[t], t)
      /\ \A t \in Shards \ {s} : incoming'[t] = incoming[t]
      /\ \A k \in Keys : OfKey(incoming[ShardOf(k)], k) =
           OfKey(incoming'[ShardOf(k)], k) \cup (IF row.key = k THEN {Held(row)} ELSE {})
  BY TakeUpIs
<1>4. Live' = Live /\ Idle' = Idle /\ Indexed' = Indexed
  BY <1>1 DEF Live, Idle, Indexed
<1>5. TypeInv'
  BY <1>1, <1>2, <1>3 DEF TypeInv
<1>6. QueueInv'
  BY <1>3, QueuesStay
<1>7. TaskInv'
  <2>1. \A t \in Shards : t \notin drained => incoming'[t] = incoming[t] /\ batch'[t] = batch[t]
    BY <1>3
  <2>2. \A t \in Shards : BatchOf(batch'[t], t)
    BY <1>2 DEF TaskInv
  <2>3. \A t \in Shards : fresh[t] # {} => batch'[t] = <<>>
    BY <1>2 DEF TaskInv
  <2>4. \A t \in Shards : path # "parallel" => batch'[t] = <<>>
    BY <1>2 DEF TaskInv
  <2> QED
    BY <1>1, <1>2, <1>3, <1>4, <2>1, <2>2, <2>3, <2>4 DEF TaskInv, DueRows, BatchOf
<1>8. RowsInv'
  BY <1>1, <1>2, <1>4 DEF RowsInv
<1>9. OffsetInv'
  BY <1>1, <1>2, <1>4 DEF OffsetInv
<1>10. ContentInv'
  <2>1. ASSUME NEW k \in Keys
        PROVE  /\ Sources(k)' \subseteq Sources(k)
               /\ \A y \in Sources(k) : \E z \in Sources(k)' : NotAfter(z, y)
    <3>1. PICK old, inc, more, b, c, own :
             /\ old = OfKey(data, k)
             /\ inc = OfKey(incoming[ShardOf(k)], k) /\ more = OfKey(incoming'[ShardOf(k)], k)
             /\ b = OfKey(batch[ShardOf(k)], k) /\ c = OfKey(batch'[ShardOf(k)], k)
             /\ own = (IF row.key = k THEN {Held(row)} ELSE {})
      OBVIOUS
    <3>2. Sources(k) = old \cup inc \cup b /\ Sources(k)' = old \cup more \cup c
      BY <1>1, <3>1 DEF Sources
    <3>3. inc = more \cup own
      BY <1>3, <3>1
    <3>4. /\ c \subseteq b \cup own
          /\ \A y \in b \cup own : \E z \in old \cup c : NotAfter(z, y)
      BY <3>1
    <3>5. \A y \in Sources(k) : NotAfter(y, y)
      BY <1>2, SourcesAre, NotAfterItself
    <3>6. ASSUME NEW y \in Sources(k) PROVE \E z \in Sources(k)' : NotAfter(z, y)
      <4>1. CASE y \in old \cup more
        BY <3>2, <3>5, <4>1
      <4>2. CASE y \in b \cup own
        BY <3>2, <3>4, <4>2
      <4> QED
        BY <3>2, <3>3, <4>1, <4>2
    <3> QED
      BY <3>2, <3>3, <3>4, <3>6
  <2> QED
    BY <1>1, <2>1, ContentStays
<1>11. ReaderInv'
  BY <1>1, <1>2, <1>4 DEF ReaderInv
<1> QED
  BY <1>5, <1>6, <1>7, <1>8, <1>9, <1>10, <1>11 DEF IInv

\* The marker of staleness changes nothing else in a row.
LEMMA MarkedIs ==
  ASSUME NEW row \in Kept
  PROVE  /\ [row EXCEPT !.key = Stale] \in Kept /\ [row EXCEPT !.key = Stale].key = Stale
         /\ [row EXCEPT !.key = Stale].val = row.val /\ [row EXCEPT !.key = Stale].ts = row.ts
  BY DEF Kept

\* A row of serial_insert.
LEMMA InsertIInv == ASSUME SortedWritesAssumption, IInv, NEW s \in Shards, Insert(s) PROVE IInv'
<1>1. /\ path = "serial" /\ incoming[s] # <<>> /\ TakeUp(s)
      /\ UNCHANGED <<gen, queues, now, path, base, drained, batch, fresh, marked, stamps, reader, ref>>
  BY DEF Insert, queues
<1>2. PICK row, n : row = Head(incoming[s]) /\ n = Len(data) + 1
  OBVIOUS
<1>3. TypeInv /\ TaskInv /\ RowsInv
  BY DEF IInv
<1>4. row \in Full /\ row.key \in Keys /\ row \in Kept /\ row.ts = now /\ ShardOf(row.key) = s /\ row.key # Stale
  BY <1>1, <1>2, TakeUpIs
<1>5. /\ data \in Seq(Kept)
      /\ \A r \in DOMAIN data : data[r] \in Kept
      /\ DOMAIN data = 1..Len(data) /\ Len(data) \in Nat
  BY <1>3, RowsAre DEF TypeInv
<1>6. /\ marked = 0 /\ stale \in Nat
      /\ \A r \in hash[s] : r \in Live /\ r \in DOMAIN data
      /\ \A q, r \in hash[s] : data[q].key = data[r].key => q = r
  BY <1>1, <1>3 DEF TaskInv, RowsInv, TypeInv, Live
<1>7. PICK old : old = {r \in DOMAIN data : data[r].key = Stale}
  OBVIOUS
<1>8. IsFiniteSet(old) /\ Cardinality(old) \in Nat /\ stale = Cardinality(old)
  <2>1. IsFiniteSet(DOMAIN data)
    BY <1>5, FiniteUpTo
  <2>2. IsFiniteSet(old)
    BY <1>7, <2>1, FS_Subset
  <2>3. stale + marked = Cardinality(old) /\ Cardinality(old) \in Nat
    BY <1>3, <1>7, <2>2, FS_CardinalityType DEF RowsInv
  <2> QED
    BY <1>6, <2>2, <2>3
<1>9. CASE Entry(row.key) = {} /\ data' = Append(data, row) /\ UpdateSortOffsets(row.ts, n)
           /\ hash' = [hash EXCEPT ![s] = @ \cup {n}] /\ UNCHANGED stale
  <2>1. /\ data' \in Seq(Kept) /\ DOMAIN data' = 1..n /\ Len(data') = n /\ data'[n] = row
        /\ \A r \in DOMAIN data : data'[r] = data[r]
    BY <1>2, <1>4, <1>5, <1>9
  <2>2. {r \in DOMAIN data' : data'[r].key = Stale} = old
    BY <1>2, <1>4, <1>5, <1>7, <2>1
  <2>3. stale' + marked = Cardinality({r \in DOMAIN data' : data'[r].key = Stale}) /\ stale' \in Nat
    <3>1. PICK m, all : m = Cardinality(old) /\ all = {r \in DOMAIN data' : data'[r].key = Stale}
      OBVIOUS
    <3>2. Cardinality(all) = m /\ m \in Nat /\ stale' = m
      BY <1>8, <1>9, <2>2, <3>1
    <3>3. stale' + marked = Cardinality(all) /\ stale' \in Nat
      BY <1>6, <3>2
    <3> QED
      BY <3>1, <3>3
  <2>4. PICK g : g = Entry(row.key)
    OBVIOUS
  <2>5. g = {} /\ hash' = [hash EXCEPT ![s] = (@ \ g) \cup {n}]
    BY <1>9, <2>4
  <2> QED
    <3>1. \A r \in g : row.val < data[r].val
      BY <2>5
    <3>2. \A r \in DOMAIN data : data'[r] = IF r \in g THEN [data[r] EXCEPT !.key = Stale] ELSE data[r]
      BY <2>1, <2>5
    <3> QED
      <4>1. Written(s, row, g, n)
        BY <1>2, <1>9, <2>1, <2>3, <2>4, <2>5, <3>1, <3>2 DEF Written
      <4> QED
        BY <1>1, <1>2, <4>1, RowWritten
<1>10. ASSUME NEW o \in Entry(row.key), ~Changes(data[o], row),
              UNCHANGED <<data, hash, offsets, stale, ok>>
       PROVE  IInv'
  <2>1. UNCHANGED table
    BY <1>1, <1>10 DEF table
  <2>2. o \in hash[s] /\ o \in DOMAIN data /\ data[o].key = row.key /\ data[o] \in Kept
    BY <1>4, <1>5, <1>6 DEF Entry
  <2>3. data[o].val <= row.val /\ data[o].ts <= now
    BY <1>3, <1>4, <1>10, <2>2, MergedIs DEF RowsInv
  <2>4. NotAfter(Held(data[o]), Held(row)) /\ Held(data[o]) \in OfKey(data, row.key)
    <3>1. data[o].val \in Nat /\ row.val \in Nat
      BY <1>4, <2>2 DEF Kept
    <3> QED
      BY <1>4, <2>2, <2>3, <3>1 DEF NotAfter, Held, OfKey
  <2>5. ASSUME NEW k \in Keys
        PROVE  LET both == OfKey(batch[ShardOf(k)], k) \cup (IF row.key = k THEN {Held(row)} ELSE {})
               IN  /\ OfKey(batch'[ShardOf(k)], k) \subseteq both
                   /\ \A y \in both : \E z \in OfKey(data, k) \cup OfKey(batch'[ShardOf(k)], k) : NotAfter(z, y)
    <3>1. batch'[ShardOf(k)] = batch[ShardOf(k)]
      BY <1>1
    <3>2. ASSUME NEW y \in OfKey(batch[ShardOf(k)], k) PROVE NotAfter(y, y)
      <4>1. y \in Sources(k)
        BY DEF Sources
      <4> QED
        BY <1>3, <4>1, SourcesAre, NotAfterItself
    <3> QED
      BY <2>4, <3>1, <3>2
  <2>6. batch' \in [Shards -> Seq(Kept)] /\ UNCHANGED batch
    BY <1>1, <1>3 DEF TypeInv
  <2>7. UNCHANGED <<queues, now, path, base, drained, fresh, marked, stamps, reader, ref>>
    BY <1>1
  <2> QED
    BY <1>1, <1>2, <2>1, <2>5, <2>6, <2>7, RowTaken
<1>11. ASSUME NEW o \in Entry(row.key), Changes(data[o], row),
              data' = Append([data EXCEPT ![o].key = Stale], Merged(data[o], row)),
              UpdateSortOffsets(row.ts, n),
              hash' = [hash EXCEPT ![s] = (@ \ {o}) \cup {n}], stale' = stale + 1
       PROVE  IInv'
  <2>1. /\ o \in hash[s] /\ o \in DOMAIN data /\ data[o].key = row.key /\ data[o] \in Kept
        /\ o \in Live
    BY <1>4, <1>5, <1>6 DEF Entry
  <2>2. Merged(data[o], row) = row /\ row.val < data[o].val
    BY <1>4, <1>11, <2>1, MergedIs
  <2>3. PICK g : g = Entry(row.key)
    OBVIOUS
  <2>4. g = {o}
    BY <1>4, <1>6, <1>11, <2>1, <2>3 DEF Entry
  <2>5. PICK was, rest : was = [data[o] EXCEPT !.key = Stale] /\ rest = [data EXCEPT ![o] = was]
    OBVIOUS
  <2>6. was \in Kept /\ was.key = Stale
    BY <2>1, <2>5, MarkedIs
  <2>7. rest \in Seq(Kept) /\ Len(rest) = Len(data)
        /\ \A r \in DOMAIN data : rest[r] = IF r = o THEN was ELSE data[r]
    BY <1>5, <2>1, <2>5, <2>6
  <2>8. data' = Append(rest, row)
    BY <1>11, <2>2, <2>5
  <2>9. /\ data' \in Seq(Kept) /\ DOMAIN data' = 1..n /\ Len(data') = n /\ data'[n] = row
        /\ \A r \in DOMAIN data : data'[r] = rest[r]
    BY <1>2, <1>4, <1>5, <2>7, <2>8
  <2>10. \A r \in DOMAIN data : data'[r] = IF r \in g THEN [data[r] EXCEPT !.key = Stale] ELSE data[r]
    BY <2>4, <2>5, <2>7, <2>9
  <2>11. {r \in DOMAIN data' : data'[r].key = Stale} = old \cup {o}
    <3>1. DOMAIN data' = DOMAIN data \cup {n}
      BY <1>2, <1>5, <2>9
    <3> QED
      BY <1>4, <1>7, <2>1, <2>6, <2>7, <2>9, <3>1
  <2>12. o \notin old
    BY <1>7, <2>1 DEF Live
  <2>13. stale' + marked = Cardinality({r \in DOMAIN data' : data'[r].key = Stale}) /\ stale' \in Nat
    <3>1. Cardinality(old \cup {o}) = Cardinality(old) + 1
      BY <1>8, <2>12, FS_AddElement
    <3> QED
      <4>1. PICK m, all : m = Cardinality(old) /\ all = {r \in DOMAIN data' : data'[r].key = Stale}
        OBVIOUS
      <4>2. Cardinality(all) = m + 1 /\ m \in Nat /\ stale' = m + 1
        BY <1>8, <1>11, <2>11, <3>1, <4>1
      <4>3. stale' + marked = Cardinality(all) /\ stale' \in Nat
        BY <1>6, <4>2
      <4> QED
        BY <4>1, <4>3
  <2>14. hash' = [hash EXCEPT ![s] = (@ \ g) \cup {n}]
    BY <1>11, <2>4
  <2>15. \A r \in g : row.val < data[r].val
    BY <2>2, <2>4
  <2> QED
    <3>1. UpdateSortOffsets(row.ts, n)
      BY <1>11
    <3> QED
      <4>1. data' \in Seq(Kept) /\ DOMAIN data' = 1..n /\ Len(data') = n /\ data'[n] = row
        BY <2>9
      <4> QED
        <5>1. Written(s, row, g, n)
          BY <1>2, <2>3, <2>10, <2>13, <2>14, <2>15, <3>1, <4>1 DEF Written
        <5> QED
          BY <1>1, <1>2, <5>1, RowWritten
<1> QED
  BY <1>2, <1>9, <1>10, <1>11 DEF Insert

-----------------------------------------------------------------------------
(* Inserting shard by shard *)

\* A row is merged into the batch of its task.
LEMMA CoalesceIInv == ASSUME SortedWritesAssumption, IInv, NEW s \in Shards, Coalesce(s) PROVE IInv'
<1>1. /\ path = "parallel" /\ incoming[s] # <<>> /\ fresh[s] = {} /\ TakeUp(s)
      /\ UNCHANGED <<table, queues, now, path, base, drained, fresh, marked, stamps, reader, ref>>
  BY DEF Coalesce
<1>2. PICK row, b : row = Head(incoming[s]) /\ b = batch[s]
  OBVIOUS
<1>3. TypeInv /\ TaskInv /\ RowsInv
  BY DEF IInv
<1>4. row \in Full /\ row.key \in Keys /\ row \in Kept /\ row.ts = now /\ ShardOf(row.key) = s /\ row.key # Stale
  BY <1>1, <1>2, TakeUpIs
<1>5. /\ batch \in [Shards -> Seq(Kept)] /\ b \in Seq(Kept) /\ BatchOf(b, s)
      /\ \A i \in DOMAIN b : b[i] \in Kept
      /\ DOMAIN b = 1..Len(b) /\ Len(b) \in Nat
  <2>1. batch \in [Shards -> Seq(Kept)] /\ b \in Seq(Kept) /\ BatchOf(b, s)
    BY <1>2, <1>3 DEF TypeInv, TaskInv
  <2> QED
    BY <2>1, ElementOf
<1>6. Held(row) \in Values
  BY <1>4 DEF Held, Kept, Values
<1>7. \A k \in Keys : \A y \in OfKey(batch[ShardOf(k)], k) : NotAfter(y, y)
  <2>1. ASSUME NEW k \in Keys, NEW y \in OfKey(batch[ShardOf(k)], k) PROVE NotAfter(y, y)
    <3>1. y \in Sources(k)
      BY DEF Sources
    <3> QED
      BY <1>3, <3>1, SourcesAre, NotAfterItself
  <2> QED
    BY <2>1
<1>8. NotAfter(Held(row), Held(row))
  BY <1>6, NotAfterItself
<1> DEFINE same == {i \in DOMAIN b : b[i].key = row.key}
\* A new batch for the task, with what is to be shown of it.
<1>9. ASSUME NEW c \in Seq(Kept), batch' = [batch EXCEPT ![s] = c], BatchOf(c, s),
             ASSUME NEW k \in Keys, ShardOf(k) = s
             PROVE  LET both == OfKey(b, k) \cup (IF row.key = k THEN {Held(row)} ELSE {})
                    IN  /\ OfKey(c, k) \subseteq both
                        /\ \A y \in both : \E z \in OfKey(c, k) : NotAfter(z, y)
      PROVE  IInv'
  <2>1. /\ batch' \in [Shards -> Seq(Kept)] /\ batch'[s] = c
        /\ \A t \in Shards \ {s} : batch'[t] = batch[t]
    BY <1>5, <1>9
  <2>2. ASSUME NEW k \in Keys
        PROVE  LET both == OfKey(batch[ShardOf(k)], k) \cup (IF row.key = k THEN {Held(row)} ELSE {})
               IN  /\ OfKey(batch'[ShardOf(k)], k) \subseteq both
                   /\ \A y \in both : \E z \in OfKey(data, k) \cup OfKey(batch'[ShardOf(k)], k) : NotAfter(z, y)
    <3>1. CASE ShardOf(k) = s
      <4>1. batch'[ShardOf(k)] = c /\ batch[ShardOf(k)] = b
        BY <1>2, <2>1, <3>1
      <4> QED
        BY <1>9, <3>1, <4>1
    <3>2. CASE ShardOf(k) # s
      <4>1. batch'[ShardOf(k)] = batch[ShardOf(k)]
        BY <2>1, <3>2, KeysAre
      <4>2. row.key # k
        BY <1>4, <3>2
      <4> QED
        BY <1>7, <4>1, <4>2
    <3> QED
      BY <3>1, <3>2
  <2> QED
    BY <1>1, <1>2, <1>9, <2>1, <2>2, RowTaken, ZenonT(60)
<1>10. CASE same = {} /\ batch' = [batch EXCEPT ![s] = Append(@, row)]
  <2>1. PICK c : c = Append(b, row)
    OBVIOUS
  <2>2. /\ c \in Seq(Kept) /\ batch' = [batch EXCEPT ![s] = c]
        /\ DOMAIN c = DOMAIN b \cup {Len(b) + 1} /\ c[Len(b) + 1] = row
        /\ Len(b) + 1 \notin DOMAIN b
        /\ \A i \in DOMAIN b : c[i] = b[i]
    BY <1>2, <1>4, <1>5, <1>10, <2>1
  <2>3. BatchOf(c, s)
    BY <1>4, <1>5, <1>10, <2>2 DEF BatchOf
  <2>4. ASSUME NEW k \in Keys, ShardOf(k) = s
        PROVE  LET both == OfKey(b, k) \cup (IF row.key = k THEN {Held(row)} ELSE {})
               IN  /\ OfKey(c, k) \subseteq both
                   /\ \A y \in both : \E z \in OfKey(c, k) : NotAfter(z, y)
    <3>1. OfKey(c, k) = OfKey(b, k) \cup (IF row.key = k THEN {Held(row)} ELSE {})
      BY <2>2 DEF OfKey
    <3>2. \A y \in OfKey(b, k) : NotAfter(y, y)
      BY <1>2, <1>7, <2>4
    <3> QED
      BY <1>8, <3>1, <3>2
  <2> QED
    BY <1>9, <2>2, <2>3, <2>4
<1>11. ASSUME NEW i \in same, ~Changes(b[i], row), UNCHANGED batch PROVE IInv'
  <2>1. batch' = [batch EXCEPT ![s] = b]
    BY <1>2, <1>5, <1>11
  <2>2. ASSUME NEW k \in Keys, ShardOf(k) = s
        PROVE  LET both == OfKey(b, k) \cup (IF row.key = k THEN {Held(row)} ELSE {})
               IN  /\ OfKey(b, k) \subseteq both
                   /\ \A y \in both : \E z \in OfKey(b, k) : NotAfter(z, y)
    <3>1. \A y \in OfKey(b, k) : NotAfter(y, y)
      BY <1>2, <1>7, <2>2
    <3>2. Held(b[i]) \in OfKey(b, row.key)
      BY DEF OfKey
    <3>3. b[i].val <= row.val /\ b[i].ts = now /\ b[i].val \in Nat /\ row.val \in Nat /\ now \in Nat
      BY <1>3, <1>4, <1>5, <1>11, MergedIs DEF BatchOf, Kept, TypeInv
    <3>4. NotAfter(Held(b[i]), Held(row))
      BY <1>4, <3>3 DEF NotAfter, Held
    <3> QED
      BY <3>1, <3>2, <3>4
  <2> QED
    BY <1>5, <1>9, <2>1, <2>2
<1>12. ASSUME NEW i \in same, Changes(b[i], row),
              batch' = [batch EXCEPT ![s] = Append([@ EXCEPT ![i].key = Stale], Merged(b[i], row))]
       PROVE  IInv'
  <2>1. Merged(b[i], row) = row /\ row.val < b[i].val
    BY <1>4, <1>5, <1>12, MergedIs
  <2>2. PICK was, rest, c : was = [b[i] EXCEPT !.key = Stale] /\ rest = [b EXCEPT ![i] = was]
                            /\ c = Append(rest, row)
    OBVIOUS
  <2>3. was \in Kept /\ was.key = Stale /\ was.ts = b[i].ts
    BY <1>5, <2>2, MarkedIs
  <2>4. /\ rest \in Seq(Kept) /\ Len(rest) = Len(b)
        /\ \A j \in DOMAIN b : rest[j] = IF j = i THEN was ELSE b[j]
    BY <1>5, <2>2, <2>3
  <2>5. /\ c \in Seq(Kept) /\ batch' = [batch EXCEPT ![s] = c]
        /\ DOMAIN c = DOMAIN b \cup {Len(b) + 1} /\ c[Len(b) + 1] = row
        /\ Len(b) + 1 \notin DOMAIN b
        /\ \A j \in DOMAIN b : c[j] = IF j = i THEN was ELSE b[j]
    <3>1. c \in Seq(Kept) /\ Len(c) = Len(b) + 1 /\ c[Len(b) + 1] = row /\ \A j \in DOMAIN b : c[j] = rest[j]
      <4>1. PICK m : m = Len(b)
        OBVIOUS
      <4>2. c = Append(rest, row) /\ rest \in Seq(Kept) /\ row \in Kept /\ Len(rest) = m /\ m \in Nat
        BY <1>4, <1>5, <2>2, <2>4, <4>1
      <4>3. c \in Seq(Kept) /\ Len(c) = m + 1 /\ c[m + 1] = row /\ \A j \in 1..m : c[j] = rest[j]
        BY <4>2
      <4> QED
        BY <1>5, <4>1, <4>3
    <3>2. batch' = [batch EXCEPT ![s] = c]
      BY <1>2, <1>12, <2>1, <2>2
    <3>3. DOMAIN c = 1..(Len(b) + 1)
      BY <3>1
    <3> QED
      BY <1>5, <2>4, <3>1, <3>2, <3>3
  <2>6. BatchOf(c, s)
    <3>1. \A j \in DOMAIN b : j # i => b[j].key # row.key \/ b[j].key = Stale
      BY <1>4, <1>5 DEF BatchOf
    <3>2. \A j \in DOMAIN c : c[j].ts = now /\ (c[j].key # Stale => ShardOf(c[j].key) = s)
      BY <1>4, <1>5, <2>3, <2>5 DEF BatchOf
    <3>3. ASSUME NEW j \in DOMAIN c, NEW m \in DOMAIN c, c[j].key # Stale, c[m].key = c[j].key
          PROVE  m = j
      <4>1. j \in DOMAIN b => j # i
        BY <2>3, <2>5, <3>3
      <4>2. m \in DOMAIN b => m # i
        BY <2>3, <2>5, <3>3
      <4>3. CASE j \in DOMAIN b /\ m \in DOMAIN b
        <5>1. c[j] = b[j] /\ c[m] = b[m]
          BY <2>5, <4>1, <4>2, <4>3
        <5> QED
          BY <1>5, <3>3, <4>3, <5>1 DEF BatchOf
      <4>4. CASE j \in DOMAIN b /\ m = Len(b) + 1
        <5>1. c[j] = b[j] /\ c[m] = row
          BY <2>5, <4>1, <4>4
        <5> QED
          BY <3>1, <3>3, <4>1, <4>4, <5>1
      <4>5. CASE m \in DOMAIN b /\ j = Len(b) + 1
        <5>1. c[m] = b[m] /\ c[j] = row
          BY <2>5, <4>2, <4>5
        <5> QED
          BY <3>1, <3>3, <4>2, <4>5, <5>1
      <4> QED
        BY <2>5, <3>3, <4>3, <4>4, <4>5
    <3> QED
      BY <1>4, <2>5, <3>2, <3>3 DEF BatchOf
  <2>7. ASSUME NEW k \in Keys, ShardOf(k) = s
        PROVE  LET both == OfKey(b, k) \cup (IF row.key = k THEN {Held(row)} ELSE {})
               IN  /\ OfKey(c, k) \subseteq both
                   /\ \A y \in both : \E z \in OfKey(c, k) : NotAfter(z, y)
    <3>0. k # Stale
      BY KeysAre
    <3>1. OfKey(c, k) \subseteq OfKey(b, k) \cup (IF row.key = k THEN {Held(row)} ELSE {})
      BY <2>3, <2>5, <3>0 DEF OfKey
    <3>2. \A y \in OfKey(b, k) : NotAfter(y, y)
      BY <1>2, <1>7, <2>7
    <3>3. row.key = k => Held(row) \in OfKey(c, k)
      BY <2>5 DEF OfKey
    <3>4. ASSUME NEW y \in OfKey(b, k) PROVE \E z \in OfKey(c, k) : NotAfter(z, y)
      <4>1. PICK j \in DOMAIN b : b[j].key = k /\ y = Held(b[j])
        BY DEF OfKey
      <4>2. CASE j # i
        BY <2>5, <3>2, <4>1, <4>2 DEF OfKey
      <4>3. CASE j = i
        <5>1. row.key = k /\ NotAfter(Held(row), y)
          BY <2>1, <4>1, <4>3 DEF NotAfter, Held
        <5> QED
          BY <3>3, <5>1
      <4> QED
        BY <4>2, <4>3
    <3> QED
      BY <1>8, <3>1, <3>3, <3>4
  <2> QED
    BY <1>9, <2>5, <2>6, <2>7
<1> QED
  BY <1>2, <1>10, <1>11, <1>12 DEF Coalesce

\* As many places as there are rows in them.
LEMMA ShiftedCount ==
  ASSUME NEW S \in SUBSET Nat, NEW n \in Nat, IsFiniteSet(S)
  PROVE  IsFiniteSet({n + i : i \in S}) /\ Cardinality({n + i : i \in S}) = Cardinality(S)
<1>1. PICK T, f : T = {n + i : i \in S} /\ f = [i \in S |-> n + i]
  OBVIOUS
<1>2. f \in [S -> T]
  BY <1>1
<1>3. \A i, j \in S : f[i] = f[j] => i = j
  BY <1>1
<1>4. \A t \in T : \E i \in S : f[i] = t
  BY <1>1
<1>5. f \in Bijection(S, T)
  BY <1>2, <1>3, <1>4 DEF Bijection, Injection, Surjection, IsInjective
<1>6. ExistsBijection(S, T)
  BY <1>5 DEF ExistsBijection
<1> QED
  BY <1>1, <1>6, FS_Bijection

\* The task of a batch.
LEMMA BatchIs ==
  ASSUME SortedWritesAssumption, IInv, NEW s \in Shards, batch[s] # <<>>
  PROVE  /\ path = "parallel" /\ ~Idle /\ s \in drained /\ fresh[s] = {}
         /\ batch[s] \in Seq(Kept) /\ BatchOf(batch[s], s)
         /\ \A i \in DOMAIN batch[s] : batch[s][i] \in Kept /\ i \in Nat
         /\ DOMAIN batch[s] = 1..Len(batch[s]) /\ Len(batch[s]) \in Nat
<1>1. batch[s] \in Seq(Kept) /\ BatchOf(batch[s], s) /\ path = "parallel" /\ s \in drained /\ fresh[s] = {}
  BY DEF IInv, TypeInv, TaskInv
<1>2. ~Idle
  BY <1>1 DEF Idle
<1>3. \A i \in DOMAIN batch[s] : batch[s][i] \in Kept
  BY <1>1, ElementOf
<1> QED
  BY <1>1, <1>2, <1>3

\* A batch is written at the end of the rows.
LEMMA WriteBatchIInv == ASSUME SortedWritesAssumption, IInv, NEW s \in Shards, WriteBatch(s) PROVE IInv'
<1>1. PICK b, m, dead : b = batch[s] /\ m = Len(data) /\ dead = {i \in DOMAIN b : b[i].key = Stale}
  OBVIOUS
<1>2. /\ b # <<>>
      /\ fresh' = [fresh EXCEPT ![s] = {m + i : i \in DOMAIN b \ dead}]
      /\ marked' = marked + Cardinality(dead)
      /\ data' = data \o b /\ batch' = [batch EXCEPT ![s] = <<>>]
      /\ UNCHANGED <<hash, offsets, stale, gen, ok, queues, now, path, base, drained, incoming, stamps,
                     reader, ref>>
  BY <1>1 DEF WriteBatch
<1>3. /\ hash' = hash /\ offsets' = offsets /\ stale' = stale /\ ok' = ok
      /\ gen' = gen /\ open' = open /\ pending' = pending /\ now' = now /\ path' = path /\ base' = base
      /\ drained' = drained /\ incoming' = incoming /\ stamps' = stamps
      /\ reader' = reader /\ ref' = ref
  BY <1>2 DEF queues
<1>4. TypeInv /\ QueueInv /\ TaskInv /\ RowsInv /\ OffsetInv /\ ContentInv /\ ReaderInv
  BY DEF IInv
<1>5. /\ path = "parallel" /\ ~Idle /\ s \in drained /\ fresh[s] = {}
      /\ b \in Seq(Kept) /\ BatchOf(b, s)
      /\ \A i \in DOMAIN b : b[i] \in Kept /\ i \in Nat
      /\ DOMAIN b = 1..Len(b) /\ Len(b) \in Nat
  BY <1>1, <1>2, BatchIs
<1>6. /\ \A r \in DOMAIN data : data[r] \in Kept /\ r \in Nat
      /\ DOMAIN data = 1..m /\ m \in Nat /\ data \in Seq(Kept)
  BY <1>1, <1>4, RowsAre DEF TypeInv
<1>7. PICK new : new = {m + i : i \in DOMAIN b}
  OBVIOUS
<1>8. /\ data' \in Seq(Kept) /\ DOMAIN data' = DOMAIN data \cup new
      /\ Len(data') = m + Len(b) /\ 0 < Len(b)
      /\ \A r \in DOMAIN data : data'[r] = data[r] /\ r <= m
      /\ \A i \in DOMAIN b : data'[m + i] = b[i]
      /\ \A r \in new : m < r /\ r \in Nat
  <2>1. /\ data' \in Seq(Kept) /\ Len(data') = m + Len(b) /\ DOMAIN data' = 1..(m + Len(b))
        /\ \A r \in 1..m : data'[r] = data[r]
        /\ \A i \in 1..Len(b) : data'[m + i] = b[i]
    BY <1>1, <1>2, <1>5, <1>6
  <2>2. 0 < Len(b)
    BY <1>2, <1>5
  <2>3. \A r \in new : m < r /\ r \in Nat
    BY <1>5, <1>6, <1>7
  <2>4. \A r \in 1..(m + Len(b)) : r <= m \/ (r - m \in 1..Len(b) /\ r = m + (r - m))
    BY <1>5, <1>6
  <2>5. 1..(m + Len(b)) = (1..m) \cup new
    <3>1. \A r \in new : r \in 1..(m + Len(b))
      BY <1>5, <1>6, <1>7
    <3>2. \A r \in 1..(m + Len(b)) : r \in 1..m \/ r \in new
      <4>1. ASSUME NEW r \in 1..(m + Len(b)), r \notin 1..m PROVE r \in new
        <5>1. ~(r <= m)
          BY <1>5, <1>6, <4>1
        <5>2. r - m \in DOMAIN b /\ r = m + (r - m)
          BY <1>5, <2>4, <5>1
        <5> QED
          BY <1>7, <5>2
      <4> QED
        BY <4>1
    <3>3. \A r \in 1..m : r \in 1..(m + Len(b))
      BY <1>5, <1>6
    <3> QED
      BY <3>1, <3>2, <3>3
  <2> QED
    BY <1>5, <1>6, <2>1, <2>2, <2>3, <2>5
<1>9. /\ DOMAIN data \cap new = {}
      /\ \A r \in new : \E i \in DOMAIN b : r = m + i /\ data'[r] = b[i] /\ data'[r].ts = now
      /\ fresh'[s] = {r \in new : data'[r].key # Stale}
      /\ \A t \in Shards \ {s} : fresh'[t] = fresh[t]
  <2>1. DOMAIN data \cap new = {}
    BY <1>6, <1>8
  <2>2. \A r \in new : \E i \in DOMAIN b : r = m + i /\ data'[r] = b[i] /\ data'[r].ts = now
    BY <1>5, <1>7, <1>8 DEF BatchOf
  <2>3. fresh \in [Shards -> SUBSET Nat]
    BY <1>4 DEF TypeInv
  <2>4. fresh'[s] = {m + i : i \in DOMAIN b \ dead} /\ \A t \in Shards \ {s} : fresh'[t] = fresh[t]
    BY <1>2, <2>3
  <2>5. {m + i : i \in DOMAIN b \ dead} = {r \in new : data'[r].key # Stale}
    BY <1>1, <1>7, <1>8
  <2> QED
    BY <2>1, <2>2, <2>4, <2>5
<1>10. Live' = Live \cup fresh'[s] /\ Idle' = Idle /\ Indexed = base /\ Indexed' = base
  <2>1. Live' = Live \cup fresh'[s]
    BY <1>8, <1>9 DEF Live
  <2> QED
    BY <1>3, <1>5, <2>1 DEF Idle, Indexed
<1>11. \A r \in fresh'[s] : /\ r \in new /\ base < r /\ ShardOf(data'[r].key) = s
                            /\ \A q \in fresh'[s] : data'[q].key = data'[r].key => q = r
  <2>1. base <= m /\ base \in Nat
    BY <1>1, <1>4, <1>5 DEF RowsInv, TypeInv
  <2>2. ASSUME NEW r \in fresh'[s]
        PROVE  /\ r \in new /\ base < r /\ ShardOf(data'[r].key) = s
               /\ \A q \in fresh'[s] : data'[q].key = data'[r].key => q = r
    <3>1. r \in new /\ data'[r].key # Stale /\ m < r /\ r \in Nat
      BY <1>8, <1>9
    <3>2. PICK i \in DOMAIN b : r = m + i /\ data'[r] = b[i]
      BY <1>9, <3>1
    <3>3. ShardOf(data'[r].key) = s
      BY <1>5, <3>1, <3>2 DEF BatchOf
    <3>4. ASSUME NEW q \in fresh'[s], data'[q].key = data'[r].key PROVE q = r
      <4>1. PICK j \in DOMAIN b : q = m + j /\ data'[q] = b[j]
        BY <1>9
      <4>2. j = i
        BY <1>5, <3>1, <3>2, <3>4, <4>1 DEF BatchOf
      <4> QED
        BY <3>2, <4>1, <4>2
    <3> QED
      BY <1>6, <2>1, <3>1, <3>3, <3>4
  <2> QED
    BY <2>2
<1>12. marked' \in Nat /\ stale' + marked' = Cardinality({r \in DOMAIN data' : data'[r].key = Stale})
  <2>1. PICK old, more, all : /\ old = {r \in DOMAIN data : data[r].key = Stale}
                              /\ more = {m + i : i \in dead}
                              /\ all = {r \in DOMAIN data' : data'[r].key = Stale}
    OBVIOUS
  <2>2. all = old \cup more
    <3>1. more = {r \in new : data'[r].key = Stale}
      BY <1>1, <1>7, <1>8, <2>1
    <3> QED
      BY <1>8, <2>1, <3>1
  <2>3. old \cap more = {}
    <3>1. more \subseteq new
      BY <1>1, <1>7, <2>1
    <3> QED
      BY <1>9, <2>1, <3>1
  <2>4. IsFiniteSet(old) /\ IsFiniteSet(dead)
    <3>1. IsFiniteSet(DOMAIN data) /\ IsFiniteSet(DOMAIN b)
      BY <1>5, <1>6, FiniteUpTo
    <3> QED
      BY <1>1, <2>1, <3>1, FS_Subset
  <2>5. dead \in SUBSET Nat
    BY <1>1, <1>5
  <2>6. IsFiniteSet(more) /\ Cardinality(more) = Cardinality(dead)
    BY <1>6, <2>1, <2>4, <2>5, ShiftedCount
  <2>7. Cardinality(all) = Cardinality(old) + Cardinality(more)
        /\ Cardinality(old) \in Nat /\ Cardinality(more) \in Nat
    BY <2>2, <2>3, <2>4, <2>6, CountOfBoth
  <2>8. PICK x, y : x = Cardinality(old) /\ y = Cardinality(more)
    OBVIOUS
  <2>9. /\ x \in Nat /\ y \in Nat /\ Cardinality(all) = x + y
        /\ stale + marked = x /\ stale \in Nat /\ marked \in Nat /\ marked' = marked + y /\ stale' = stale
    BY <1>2, <1>3, <1>4, <2>1, <2>6, <2>7, <2>8 DEF RowsInv, TypeInv
  <2>10. stale' + marked' = Cardinality(all) /\ marked' \in Nat
    BY <2>9
  <2> QED
    BY <2>1, <2>10
<1>13. TypeInv'
  <2>1. fresh' \in [Shards -> SUBSET Nat]
    <3>1. {m + i : i \in DOMAIN b \ dead} \in SUBSET Nat
      BY <1>5, <1>6
    <3> QED
      BY <1>2, <1>4, <3>1 DEF TypeInv
  <2>2. batch' \in [Shards -> Seq(Kept)]
    <3>1. <<>> \in Seq(Kept)
      OBVIOUS
    <3> QED
      BY <1>2, <1>4, <3>1 DEF TypeInv
  <2> QED
    BY <1>3, <1>4, <1>8, <1>12, <2>1, <2>2 DEF TypeInv
<1>14. QueueInv'
  BY <1>2, <1>5, QueuesStay
<1>15. \A t \in Shards : batch'[t] = IF t = s THEN <<>> ELSE batch[t]
  BY <1>2, <1>4 DEF TypeInv
<1>16. TaskInv'
  <2>1. \A t \in Shards : /\ t \notin drained => fresh'[t] = fresh[t] /\ batch'[t] = batch[t]
                          /\ fresh'[t] # {} => batch'[t] = <<>>
    BY <1>4, <1>5, <1>9, <1>15 DEF TaskInv
  <2>2. \A t \in Shards : BatchOf(batch'[t], t)
    BY <1>4, <1>15 DEF TaskInv, BatchOf
  <2>3. base < Len(data) => base < Len(data')
    BY <1>1, <1>4, <1>5, <1>6, <1>8 DEF TypeInv
  <2>4. path' = "parallel" /\ ~Idle'
    BY <1>3, <1>5, <1>10
  <2>5. \A t \in Shards : stamps'[t] \in {None, now'} /\ (stamps'[t] # None => base' < Len(data'))
    BY <1>3, <1>4, <2>3 DEF TaskInv
  <2>6. \A t \in Shards : DueRows(incoming[t], t)' /\ BatchOf(batch[t], t)'
    BY <1>3, <1>4, <2>2 DEF TaskInv, DueRows, BatchOf
  <2> QED
    BY <1>3, <1>4, <2>1, <2>4, <2>5, <2>6 DEF TaskInv
<1>17. RowsInv'
  <2>1. \A i, j \in DOMAIN data' : i <= j => data'[i].ts <= data'[j].ts
    <3>1. \A i, j \in DOMAIN data : i <= j => data'[i].ts <= data'[j].ts
      BY <1>4, <1>8 DEF RowsInv
    <3>2. \A i \in DOMAIN data, j \in new : data'[i].ts <= data'[j].ts
      BY <1>4, <1>8, <1>9 DEF RowsInv
    <3>3. \A i, j \in new : data'[i].ts <= data'[j].ts
      BY <1>4, <1>9 DEF TypeInv
    <3>4. \A i \in new, j \in DOMAIN data : ~(i <= j)
      BY <1>6, <1>8
    <3> QED
      BY <1>8, <3>1, <3>2, <3>3, <3>4
  <2>2. \A i \in DOMAIN data' : data'[i].ts <= now /\ (base < i => data'[i].ts = now)
    BY <1>4, <1>5, <1>8, <1>9 DEF RowsInv, TypeInv
  <2>3. base <= Len(data')
    BY <1>1, <1>4, <1>5, <1>6, <1>8 DEF RowsInv, TypeInv
  <2>4. ASSUME NEW t \in Shards
        PROVE  /\ \A r \in fresh'[t] : /\ r \in Live' /\ base < r /\ ShardOf(data'[r].key) = t
                                       /\ \A q \in fresh'[t] : data'[q].key = data'[r].key => q = r
               /\ hash'[t] = {r \in Live' : ShardOf(data'[r].key) = t} \ fresh'[t]
               /\ \A q, r \in hash'[t] : data'[q].key = data'[r].key => q = r
    <3>1. \A r \in Live : r \in DOMAIN data /\ data'[r] = data[r] /\ r \notin new
      BY <1>8, <1>9 DEF Live
    <3>2. hash[t] = {r \in Live : ShardOf(data[r].key) = t} \ fresh[t] /\ hash'[t] = hash[t]
          /\ fresh[t] \subseteq Live
      BY <1>3, <1>4 DEF RowsInv
    <3>3. \A q, r \in hash'[t] : data'[q].key = data'[r].key => q = r
      BY <1>4, <3>1, <3>2 DEF RowsInv
    <3>4. CASE t = s
      <4>1. hash'[t] = {r \in Live' : ShardOf(data'[r].key) = t} \ fresh'[t]
        BY <1>5, <1>10, <1>11, <3>1, <3>2, <3>4
      <4> QED
        BY <1>10, <1>11, <3>3, <3>4, <4>1
    <3>5. CASE t # s
      <4>1. {r \in Live' : ShardOf(data'[r].key) = t} = {r \in Live : ShardOf(data[r].key) = t}
        BY <1>10, <1>11, <3>1, <3>5
      <4>2. fresh'[t] = fresh[t]
        BY <1>9, <3>5
      <4>3. \A r \in fresh[t] : /\ r \in Live /\ base < r /\ ShardOf(data[r].key) = t
                                /\ \A q \in fresh[t] : data[q].key = data[r].key => q = r
        BY <1>4 DEF RowsInv
      <4>4. \A r \in fresh[t] : /\ r \in Live' /\ base < r /\ ShardOf(data'[r].key) = t
                                /\ \A q \in fresh[t] : data'[q].key = data'[r].key => q = r
        BY <1>10, <3>1, <4>3
      <4> QED
        BY <3>2, <3>3, <4>1, <4>2, <4>4
    <3> QED
      BY <3>4, <3>5
  <2> QED
    BY <1>3, <1>12, <2>1, <2>2, <2>3, <2>4 DEF RowsInv
<1>18. OffsetInv'
  <2>1. \A o \in offsets : \A r \in DOMAIN data' : o.row <= r => o.ts <= data'[r].ts
    BY <1>4, <1>8, <1>9 DEF OffsetInv
  <2>2. \A t \in Shards : \A r \in hash[t] : data'[r] = data[r]
    BY <1>4, <1>8 DEF RowsInv, Live
  <2>3. fresh'[s] # {}
    <3>1. PICK i \in DOMAIN b : b[i].key # Stale
      BY <1>2, <1>5 DEF BatchOf
    <3>2. m + i \in fresh'[s]
      BY <1>7, <1>8, <1>9, <3>1
    <3> QED
      BY <3>2
  <2> QED
    BY <1>3, <1>4, <1>10, <2>1, <2>2, <2>3 DEF OffsetInv
<1>19. ContentInv'
  <2>1. ASSUME NEW k \in Keys PROVE Sources(k)' = Sources(k)
    <3>1. OfKey(data', k) = OfKey(data, k) \cup OfKey(b, k)
      BY <1>2, <1>5, <1>6, OfKeyMore
    <3>2. CASE ShardOf(k) = s
      <4>1. OfKey(batch'[ShardOf(k)], k) = {} /\ batch[ShardOf(k)] = b
        BY <1>1, <1>15, <3>2 DEF OfKey
      <4> QED
        BY <1>3, <3>1, <4>1 DEF Sources
    <3>3. CASE ShardOf(k) # s
      <4>1. batch'[ShardOf(k)] = batch[ShardOf(k)]
        BY <1>15, <3>3, KeysAre
      <4>2. OfKey(b, k) = {}
        BY <1>5, <3>3, KeysAre DEF OfKey, BatchOf
      <4> QED
        BY <1>3, <3>1, <4>1, <4>2 DEF Sources
    <3> QED
      BY <3>2, <3>3
  <2> QED
    BY <1>3, <1>4, <2>1 DEF ContentInv
<1>20. ReaderInv'
  <2>1. \A r \in Live' : r \in Live \/ base < r
    BY <1>10, <1>11
  <2>2. \A r \in Live : data'[r] = data[r]
    BY <1>8 DEF Live
  <2>3. reader.major = gen => reader.minor <= base /\ reader.minor \in Nat /\ base \in Nat
    BY <1>4, <1>10 DEF ReaderInv, TypeInv
  <2>4. \A r \in Live' : r \in Nat
    BY <1>6, <1>8 DEF Live
  <2>5. \A r \in Live' : reader.major = gen /\ r <= reader.minor => r \in Live
    BY <2>1, <2>3, <2>4
  <2> QED
    BY <1>3, <1>4, <1>10, <2>2, <2>3, <2>5 DEF ReaderInv
<1> QED
  BY <1>13, <1>14, <1>16, <1>17, <1>18, <1>19, <1>20 DEF IInv

\* A task publishes a row it has written, or gives it up: some rows become stale.
Published(s, cur, g) ==
  /\ cur \in fresh[s]
  /\ fresh' = [fresh EXCEPT ![s] = @ \ {cur}]
  /\ g \in SUBSET (hash[s] \cup {cur})
  /\ hash' = [hash EXCEPT ![s] = (@ \cup {cur}) \ g]
  /\ \A q, r \in (hash[s] \cup {cur}) \ g : data[q].key = data[r].key => q = r
  /\ DOMAIN data' = DOMAIN data /\ data' \in Seq(Kept)
  /\ \A r \in DOMAIN data : data'[r] = IF r \in g THEN [data[r] EXCEPT !.key = Stale] ELSE data[r]
  /\ \A x \in g : \E z \in Live \ g : data[z].key = data[x].key /\ NotAfter(Held(data[z]), Held(data[x]))
  /\ marked' \in Nat
  /\ stale + marked' = Cardinality({r \in DOMAIN data' : data'[r].key = Stale})
  /\ ok' = TRUE
  /\ \A t \in Shards : stamps'[t] \in {stamps[t], now} /\ (stamps[t] # None => stamps'[t] # None)
  /\ stamps' \in [Shards -> Nat \cup {None}]
  /\ cur \notin g => stamps'[s] # None
  /\ base = 0 => stamps'[s] # None

\* Publishing keeps the invariant.
LEMMA PublishedIInv ==
  ASSUME SortedWritesAssumption, IInv, NEW s \in Shards, NEW cur, NEW g, Published(s, cur, g),
         UNCHANGED <<offsets, stale, gen, queues, now, path, base, drained, incoming, batch, reader, ref>>
  PROVE  IInv'
<1>0. /\ cur \in fresh[s] /\ fresh' = [fresh EXCEPT ![s] = @ \ {cur}]
      /\ g \in SUBSET (hash[s] \cup {cur})
      /\ hash' = [hash EXCEPT ![s] = (@ \cup {cur}) \ g]
      /\ \A q, r \in (hash[s] \cup {cur}) \ g : data[q].key = data[r].key => q = r
      /\ DOMAIN data' = DOMAIN data /\ data' \in Seq(Kept)
      /\ \A r \in DOMAIN data : data'[r] = IF r \in g THEN [data[r] EXCEPT !.key = Stale] ELSE data[r]
      /\ \A x \in g : \E z \in Live \ g : data[z].key = data[x].key /\ NotAfter(Held(data[z]), Held(data[x]))
      /\ marked' \in Nat
      /\ stale + marked' = Cardinality({r \in DOMAIN data' : data'[r].key = Stale})
      /\ ok' = TRUE
      /\ \A t \in Shards : stamps'[t] \in {stamps[t], now} /\ (stamps[t] # None => stamps'[t] # None)
      /\ stamps' \in [Shards -> Nat \cup {None}]
      /\ cur \notin g => stamps'[s] # None
      /\ base = 0 => stamps'[s] # None
  BY DEF Published
<1>1. /\ offsets' = offsets /\ stale' = stale /\ gen' = gen /\ open' = open /\ pending' = pending
      /\ now' = now /\ path' = path /\ base' = base /\ drained' = drained /\ incoming' = incoming
      /\ batch' = batch /\ reader' = reader /\ ref' = ref
  BY DEF queues
<1>2. TypeInv /\ QueueInv /\ TaskInv /\ RowsInv /\ OffsetInv /\ ContentInv /\ ReaderInv
  BY DEF IInv
<1>3. /\ path = "parallel" /\ ~Idle /\ s \in drained /\ Indexed = base /\ Indexed' = base /\ ~Idle'
      /\ batch[s] = <<>>
  BY <1>0, <1>1, <1>2 DEF TaskInv, Indexed, Idle
<1>4. /\ \A r \in DOMAIN data : data[r] \in Kept /\ r \in Nat
      /\ DOMAIN data = 1..Len(data) /\ Len(data) \in Nat /\ Len(data') = Len(data)
      /\ base \in Nat /\ now \in Nat
  BY <1>0, <1>2, RowsAre DEF TypeInv
<1>5. /\ \A t \in Shards : /\ fresh[t] \subseteq Live
                           /\ hash[t] = {r \in Live : ShardOf(data[r].key) = t} \ fresh[t]
                           /\ \A r \in fresh[t] : ShardOf(data[r].key) = t /\ base < r
      /\ cur \in Live /\ ShardOf(data[cur].key) = s /\ base < cur
      /\ Live \subseteq DOMAIN data
  BY <1>0, <1>2 DEF RowsInv, Live
<1>6. /\ g \subseteq Live
      /\ \A r \in g : ShardOf(data[r].key) = s
  BY <1>0, <1>5
<1>7. /\ \A r \in DOMAIN data : data'[r].ts = data[r].ts
      /\ \A r \in g : data'[r].key = Stale
      /\ \A r \in DOMAIN data \ g : data'[r] = data[r]
  <2>1. \A r \in g : r \in DOMAIN data
    BY <1>5, <1>6
  <2>2. \A r \in DOMAIN data \ g : data'[r] = data[r]
    BY <1>0
  <2>3. \A r \in g : data'[r] = [data[r] EXCEPT !.key = Stale]
    BY <1>0, <2>1
  <2>4. \A r \in g : data'[r].ts = data[r].ts /\ data'[r].key = Stale
    <3>1. ASSUME NEW r \in g PROVE data'[r].ts = data[r].ts /\ data'[r].key = Stale
      <4>1. data[r] \in Kept /\ data'[r] = [data[r] EXCEPT !.key = Stale]
        BY <1>4, <2>1, <2>3
      <4> QED
        BY <4>1, MarkedIs
    <3> QED
      BY <3>1
  <2> QED
    BY <2>1, <2>2, <2>4
<1>8. Live' = Live \ g
  <2>1. \A r \in DOMAIN data : data'[r].key # Stale <=> r \in Live \ g
    BY <1>7 DEF Live
  <2> QED
    BY <1>0, <2>1 DEF Live
<1>9. /\ \A t \in Shards : fresh'[t] = IF t = s THEN fresh[s] \ {cur} ELSE fresh[t]
      /\ \A t \in Shards : hash'[t] = IF t = s THEN (hash[s] \cup {cur}) \ g ELSE hash[t]
  BY <1>0, <1>2 DEF TypeInv
<1>11. TypeInv'
  <2>1. fresh' \in [Shards -> SUBSET Nat]
    <3>1. fresh[s] \ {cur} \in SUBSET Nat
      BY <1>2 DEF TypeInv
    <3> QED
      BY <1>0, <1>2, <3>1 DEF TypeInv
  <2>2. hash' \in [Shards -> SUBSET Nat]
    <3>1. (hash[s] \cup {cur}) \ g \in SUBSET Nat
      BY <1>2, <1>4, <1>5 DEF TypeInv
    <3> QED
      BY <1>0, <1>2, <3>1 DEF TypeInv
  <2> QED
    BY <1>0, <1>1, <1>2, <2>1, <2>2 DEF TypeInv
<1>12. QueueInv'
  BY <1>1, <1>3, QueuesStay
<1>13. TaskInv'
  <2>1. \A t \in Shards : /\ t \notin drained => fresh'[t] = {}
                          /\ fresh'[t] # {} => batch[t] = <<>>
    BY <1>2, <1>9 DEF TaskInv
  <2>2. base < Len(data')
    BY <1>4, <1>5
  <2>3. \A t \in Shards : stamps'[t] \in {None, now}
    BY <1>0, <1>2 DEF TaskInv
  <2>4. \A t \in Shards : DueRows(incoming[t], t)' /\ BatchOf(batch[t], t)'
    BY <1>1, <1>2 DEF TaskInv, DueRows, BatchOf
  <2> QED
    BY <1>1, <1>2, <1>3, <2>1, <2>2, <2>3, <2>4 DEF TaskInv
<1>14. RowsInv'
  <2>1. \A i, j \in DOMAIN data' : i <= j => data'[i].ts <= data'[j].ts
    BY <1>0, <1>2, <1>7 DEF RowsInv
  <2>2. \A i \in DOMAIN data' : data'[i].ts <= now /\ (base < i => data'[i].ts = now)
    BY <1>0, <1>2, <1>3, <1>7 DEF RowsInv
  <2>3. base <= Len(data')
    BY <1>2, <1>3, <1>4 DEF RowsInv
  <2>4. \A r \in Live \ g : data'[r] = data[r]
    BY <1>5, <1>7
  <2>5. ASSUME NEW t \in Shards
        PROVE  /\ \A r \in fresh'[t] : /\ r \in Live' /\ base < r /\ ShardOf(data'[r].key) = t
                                       /\ \A q \in fresh'[t] : data'[q].key = data'[r].key => q = r
               /\ hash'[t] = {r \in Live' : ShardOf(data'[r].key) = t} \ fresh'[t]
               /\ \A q, r \in hash'[t] : data'[q].key = data'[r].key => q = r
    <3>1. \A r \in fresh'[t] : r \in fresh[t] /\ r \in Live \ g
      <4>1. CASE t = s
        <5>1. \A r \in fresh[s] : r \notin hash[s]
          BY <1>5
        <5> QED
          BY <1>0, <1>5, <1>9, <4>1, <5>1
      <4>2. CASE t # s
        BY <1>5, <1>6, <1>9, <4>2
      <4> QED
        BY <4>1, <4>2
    <3>2. \A r \in fresh[t] : \A q \in fresh[t] : data[q].key = data[r].key => q = r
      BY <1>2 DEF RowsInv
    <3>3. \A r \in fresh'[t] : /\ r \in Live' /\ base < r /\ ShardOf(data'[r].key) = t
                               /\ \A q \in fresh'[t] : data'[q].key = data'[r].key => q = r
      BY <1>5, <1>8, <2>4, <3>1, <3>2
    <3>4. {r \in Live' : ShardOf(data'[r].key) = t} = {r \in Live : ShardOf(data[r].key) = t} \ g
      BY <1>8, <2>4
    <3>5. CASE t = s
      <4>1. hash'[t] = (hash[s] \cup {cur}) \ g /\ fresh'[t] = fresh[s] \ {cur}
        BY <1>9, <3>5
      <4>2. hash'[t] = {r \in Live' : ShardOf(data'[r].key) = t} \ fresh'[t]
        <5>1. hash[s] = {r \in Live : ShardOf(data[r].key) = s} \ fresh[s]
              /\ cur \in {r \in Live : ShardOf(data[r].key) = s}
          BY <1>5
        <5>2. hash[s] \cup {cur} = {r \in Live : ShardOf(data[r].key) = s} \ (fresh[s] \ {cur})
          BY <1>0, <5>1
        <5> QED
          BY <3>4, <3>5, <4>1, <5>2
      <4>3. \A q, r \in hash'[t] : data'[q].key = data'[r].key => q = r
        <5>1. \A q \in hash'[t] : q \in Live \ g
          BY <1>5, <4>1
        <5> QED
          BY <1>0, <2>4, <4>1, <5>1
      <4> QED
        BY <3>3, <4>2, <4>3
    <3>6. CASE t # s
      <4>1. hash'[t] = hash[t] /\ fresh'[t] = fresh[t]
        BY <1>9, <3>6
      <4>2. {r \in Live : ShardOf(data[r].key) = t} \cap g = {}
        BY <1>6, <3>6
      <4>3. hash'[t] = {r \in Live' : ShardOf(data'[r].key) = t} \ fresh'[t]
        BY <1>5, <3>4, <4>1, <4>2
      <4>4. \A q \in hash'[t] : q \in Live \ g
        BY <1>5, <4>1, <4>2
      <4>5. \A q, r \in hash'[t] : data'[q].key = data'[r].key => q = r
        BY <1>2, <2>4, <4>1, <4>4 DEF RowsInv
      <4> QED
        BY <3>3, <4>3, <4>5
    <3> QED
      BY <3>5, <3>6
  <2> QED
    BY <1>0, <1>1, <2>1, <2>2, <2>3, <2>5 DEF RowsInv
<1>15. OffsetInv'
  <2>1. \A o \in offsets : \A r \in DOMAIN data' : o.row <= r => o.ts <= data'[r].ts
    BY <1>0, <1>2, <1>7 DEF OffsetInv
  <2>2. ASSUME NEW t \in Shards, NEW r \in hash'[t]
        PROVE  /\ r <= base => \E o \in offsets : o.ts = data'[r].ts /\ o.row <= r
               /\ base < r => stamps'[t] # None
    <3>1. CASE r \in hash[t]
      <4>1. data'[r].ts = data[r].ts
        BY <1>5, <1>7, <3>1
      <4> QED
        BY <1>0, <1>2, <1>3, <3>1, <4>1 DEF OffsetInv
    <3>2. CASE r \notin hash[t]
      <4>1. t = s /\ r = cur /\ cur \notin g
        BY <1>9, <2>2, <3>2
      <4>2. ~(r <= base)
        BY <1>4, <1>5, <4>1
      <4> QED
        BY <1>0, <4>1, <4>2
    <3> QED
      BY <3>1, <3>2
  <2> QED
    BY <1>0, <1>1, <1>2, <1>3, <2>1, <2>2 DEF OffsetInv
<1>16. ContentInv'
  <2>1. ASSUME NEW k \in Keys
        PROVE  /\ Sources(k)' \subseteq Sources(k)
               /\ \A y \in Sources(k) : \E z \in Sources(k)' : NotAfter(z, y)
    <3>1. k # Stale
      BY KeysAre
    <3>2. PICK old, new, rest :
             /\ old = OfKey(data, k) /\ new = OfKey(data', k)
             /\ rest = OfKey(incoming[ShardOf(k)], k) \cup OfKey(batch[ShardOf(k)], k)
      OBVIOUS
    <3>3. Sources(k) = old \cup rest /\ Sources(k)' = new \cup rest
      BY <1>1, <3>2 DEF Sources
    <3>4. new \subseteq old
      BY <1>0, <1>7, <3>1, <3>2 DEF OfKey
    <3>5. \A y \in Sources(k) : NotAfter(y, y)
      BY <1>2, SourcesAre, NotAfterItself
    <3>6. ASSUME NEW y \in old PROVE \E z \in new : NotAfter(z, y)
      <4>1. PICK i \in DOMAIN data : data[i].key = k /\ y = Held(data[i])
        BY <3>2 DEF OfKey
      <4>2. CASE i \notin g
        <5>1. y \in new
          BY <1>0, <1>7, <3>2, <4>1, <4>2 DEF OfKey
        <5> QED
          BY <3>3, <3>5, <5>1
      <4>3. CASE i \in g
        <5>1. PICK z \in Live \ g : data[z].key = data[i].key /\ NotAfter(Held(data[z]), Held(data[i]))
          BY <1>0, <4>3
        <5>2. z \in DOMAIN data' /\ data'[z] = data[z]
          BY <1>0, <1>5, <1>7
        <5>3. Held(data[z]) \in new
          BY <3>2, <4>1, <5>1, <5>2 DEF OfKey
        <5> QED
          BY <4>1, <5>1, <5>3
      <4> QED
        BY <4>2, <4>3
    <3> QED
      BY <3>3, <3>4, <3>5, <3>6
  <2> QED
    BY <1>1, <2>1, ContentStays
<1>17. ReaderInv'
  <2>1. \A r \in Live' : r \in Live /\ data'[r] = data[r]
    BY <1>5, <1>7, <1>8
  <2> QED
    BY <1>1, <1>2, <1>3, <2>1 DEF ReaderInv
<1> QED
  BY <1>11, <1>12, <1>13, <1>14, <1>15, <1>16, <1>17 DEF IInv

\* A task publishes its next row.
LEMMA PublishIInv == ASSUME SortedWritesAssumption, IInv, NEW s \in Shards, Publish(s) PROVE IInv'
<1>1. UNCHANGED <<offsets, stale, gen, queues, now, path, base, drained, incoming, batch, reader, ref>>
  BY DEF Publish, queues
<1>2. TypeInv /\ TaskInv /\ RowsInv /\ OffsetInv
  BY DEF IInv
<1>3. PICK cur \in fresh[s] :
        LET row == data[cur]
        IN  /\ fresh' = [fresh EXCEPT ![s] = @ \ {cur}]
            /\ \/ /\ Entry(row.key) = {}
                  /\ hash' = [hash EXCEPT ![s] = @ \cup {cur}]
                  /\ CheckLocal(s, row.ts)
                  /\ UNCHANGED <<data, marked>>
               \/ \E old \in Entry(row.key) :
                    /\ Changes(data[old], row)
                    /\ data' = [data EXCEPT ![cur] = Merged(data[old], row), ![old].key = Stale]
                    /\ hash' = [hash EXCEPT ![s] = (@ \ {old}) \cup {cur}]
                    /\ CheckLocal(s, row.ts)
                    /\ marked' = marked + 1
               \/ \E old \in Entry(row.key) :
                    /\ ~Changes(data[old], row)
                    /\ data' = [data EXCEPT ![cur].key = Stale]
                    /\ marked' = marked + 1
                    /\ UNCHANGED <<hash, ok, stamps>>
  BY DEF Publish
<1>4. PICK row : row = data[cur]
  OBVIOUS
<1>5. /\ data \in Seq(Kept)
      /\ \A r \in DOMAIN data : data[r] \in Kept /\ data[r].val \in Nat /\ data[r].ts \in Nat
      /\ DOMAIN data = 1..Len(data) /\ Len(data) \in Nat /\ now \in Nat /\ stale \in Nat /\ marked \in Nat
      /\ base \in Nat
  BY <1>2, RowsAre DEF TypeInv
<1>6. path = "parallel"
  BY <1>2 DEF TaskInv
<1>7. /\ cur \in DOMAIN data /\ cur \in Live /\ ShardOf(row.key) = s /\ base < cur /\ row.key # Stale
      /\ row \in Kept /\ row.ts = now /\ cur \notin hash[s] /\ cur \in Nat
      /\ \A r \in hash[s] : r \in Live /\ r \in DOMAIN data
      /\ \A q, r \in hash[s] : data[q].key = data[r].key => q = r
  <2>1. cur \in Live /\ ShardOf(row.key) = s /\ base < cur /\ cur \notin hash[s]
        /\ \A r \in hash[s] : r \in Live
    BY <1>2, <1>4 DEF RowsInv
  <2>2. cur \in DOMAIN data /\ row.key # Stale /\ row.ts = now
    BY <1>2, <1>4, <1>6, <2>1 DEF RowsInv, Live
  <2> QED
    BY <1>2, <1>4, <1>5, <2>1, <2>2 DEF RowsInv, Live
<1>8. Entry(row.key) = {r \in hash[s] : data[r].key = row.key}
  BY <1>7 DEF Entry
<1>9. PICK old : old = {r \in DOMAIN data : data[r].key = Stale}
  OBVIOUS
<1>10. IsFiniteSet(old) /\ Cardinality(old) \in Nat /\ stale + marked = Cardinality(old)
  <2>1. IsFiniteSet(DOMAIN data)
    BY <1>5, FiniteUpTo
  <2>2. IsFiniteSet(old)
    BY <1>9, <2>1, FS_Subset
  <2> QED
    BY <1>2, <1>9, <2>2, FS_CardinalityType DEF RowsInv
<1>11. ASSUME CheckLocal(s, row.ts)
       PROVE  /\ ok' = TRUE /\ stamps'[s] = now
              /\ \A t \in Shards : stamps'[t] \in {stamps[t], now} /\ (stamps[t] # None => stamps'[t] # None)
              /\ stamps' \in [Shards -> Nat \cup {None}]
              /\ stamps'[s] # None
  <2>1. \A o \in offsets : o.ts <= now
    BY <1>2 DEF OffsetInv
  <2>2. stamps[s] # None => stamps[s] = now
    BY <1>2 DEF TaskInv
  <2>3. ok' = TRUE
    BY <1>2, <1>7, <1>11, <2>1, <2>2 DEF CheckLocal, OffsetInv
  <2>4. stamps' = [stamps EXCEPT ![s] = now] /\ stamps \in [Shards -> Nat \cup {None}]
    BY <1>2, <1>7, <1>11 DEF CheckLocal, TypeInv
  <2>5. now # None
    BY <1>5, KeysAre
  <2> QED
    BY <1>5, <2>3, <2>4, <2>5
\* One row, and no more, becomes stale.
<1>12. ASSUME NEW x \in Live, data' = [data EXCEPT ![x] = [data[x] EXCEPT !.key = Stale]],
              marked' = marked + 1
       PROVE  /\ DOMAIN data' = DOMAIN data /\ data' \in Seq(Kept)
              /\ \A r \in DOMAIN data : data'[r] = IF r \in {x} THEN [data[r] EXCEPT !.key = Stale] ELSE data[r]
              /\ marked' \in Nat
              /\ stale + marked' = Cardinality({r \in DOMAIN data' : data'[r].key = Stale})
  <2>1. x \in DOMAIN data /\ x \notin old /\ data[x] \in Kept
    BY <1>5, <1>9 DEF Live
  <2>2. PICK was : was = [data[x] EXCEPT !.key = Stale]
    OBVIOUS
  <2>3. was \in Kept /\ was.key = Stale
    BY <2>1, <2>2, MarkedIs
  <2>4. data' \in Seq(Kept) /\ DOMAIN data' = DOMAIN data
        /\ \A r \in DOMAIN data : data'[r] = IF r = x THEN was ELSE data[r]
    BY <1>5, <1>12, <2>1, <2>2, <2>3
  <2>5. \A r \in DOMAIN data : data'[r] = IF r \in {x} THEN [data[r] EXCEPT !.key = Stale] ELSE data[r]
    BY <2>2, <2>4
  <2>6. {r \in DOMAIN data' : data'[r].key = Stale} = old \cup {x}
    BY <1>9, <2>1, <2>3, <2>4
  <2>7. Cardinality(old \cup {x}) = Cardinality(old) + 1
    BY <1>10, <2>1, FS_AddElement
  <2>8. PICK m, all : m = Cardinality(old) /\ all = {r \in DOMAIN data' : data'[r].key = Stale}
    OBVIOUS
  <2>9. Cardinality(all) = m + 1 /\ m \in Nat /\ stale + marked = m
    BY <1>10, <2>6, <2>7, <2>8
  <2>10. stale + marked' = Cardinality(all) /\ marked' \in Nat
    <3>1. PICK a, b : a = stale /\ b = marked
      OBVIOUS
    <3>2. a \in Nat /\ b \in Nat /\ marked' = b + 1 /\ a + b = m /\ Cardinality(all) = m + 1
      BY <1>5, <1>12, <2>9, <3>1
    <3>3. a + (b + 1) = m + 1 /\ b + 1 \in Nat
      BY <2>9, <3>2
    <3> QED
      BY <3>1, <3>2, <3>3
  <2> QED
    BY <2>4, <2>5, <2>8, <2>10
<1>13. CASE Entry(row.key) = {} /\ hash' = [hash EXCEPT ![s] = @ \cup {cur}]
            /\ CheckLocal(s, row.ts) /\ UNCHANGED <<data, marked>>
  <2>1. PICK g : g = {}
    OBVIOUS
  <2>2. hash' = [hash EXCEPT ![s] = (@ \cup {cur}) \ g]
    <3>1. (hash[s] \cup {cur}) \ g = hash[s] \cup {cur}
      BY <2>1
    <3> QED
      BY <1>13, <3>1
  <2>3. \A q, r \in (hash[s] \cup {cur}) \ g : data[q].key = data[r].key => q = r
    BY <1>4, <1>7, <1>8, <1>13
  <2>4. /\ DOMAIN data' = DOMAIN data /\ data' \in Seq(Kept)
        /\ \A r \in DOMAIN data : data'[r] = IF r \in g THEN [data[r] EXCEPT !.key = Stale] ELSE data[r]
    BY <1>5, <1>13, <2>1
  <2>5. stale + marked' = Cardinality({r \in DOMAIN data' : data'[r].key = Stale}) /\ marked' \in Nat
    BY <1>5, <1>9, <1>10, <1>13
  <2>6. Published(s, cur, g)
    BY <1>3, <1>11, <1>13, <2>1, <2>2, <2>3, <2>4, <2>5 DEF Published
  <2> QED
    BY <1>1, <2>6, PublishedIInv
<1>14. ASSUME NEW o \in Entry(row.key), Changes(data[o], row),
              data' = [data EXCEPT ![cur] = Merged(data[o], row), ![o].key = Stale],
              hash' = [hash EXCEPT ![s] = (@ \ {o}) \cup {cur}],
              CheckLocal(s, row.ts), marked' = marked + 1
       PROVE  IInv'
  <2>1. o \in hash[s] /\ o \in Live /\ o \in DOMAIN data /\ data[o].key = row.key /\ o # cur /\ data[o] \in Kept
    BY <1>5, <1>7, <1>8
  <2>2. Merged(data[o], row) = row /\ row.val < data[o].val
    BY <1>7, <1>14, <2>1, MergedIs
  <2>3. data' = [data EXCEPT ![o] = [data[o] EXCEPT !.key = Stale]]
    <3>1. [data EXCEPT ![cur] = row] = data
      BY <1>4, <1>5, <1>7
    <3>2. data' = [[data EXCEPT ![cur] = row] EXCEPT ![o].key = Stale]
      BY <1>14, <2>2
    <3> QED
      BY <3>1, <3>2
  <2>4. PICK g : g = {o}
    OBVIOUS
  <2>5. /\ DOMAIN data' = DOMAIN data /\ data' \in Seq(Kept)
        /\ \A r \in DOMAIN data : data'[r] = IF r \in g THEN [data[r] EXCEPT !.key = Stale] ELSE data[r]
        /\ marked' \in Nat
        /\ stale + marked' = Cardinality({r \in DOMAIN data' : data'[r].key = Stale})
    BY <1>12, <1>14, <2>1, <2>3, <2>4
  <2>6. hash' = [hash EXCEPT ![s] = (@ \cup {cur}) \ g]
    <3>1. (hash[s] \cup {cur}) \ g = (hash[s] \ {o}) \cup {cur}
      BY <2>1, <2>4
    <3> QED
      BY <1>14, <3>1
  <2>7. \A q, r \in (hash[s] \cup {cur}) \ g : data[q].key = data[r].key => q = r
    BY <1>4, <1>7, <2>1, <2>4
  <2>8. \A x \in g : \E z \in Live \ g : data[z].key = data[x].key /\ NotAfter(Held(data[z]), Held(data[x]))
    <3>1. NotAfter(Held(data[cur]), Held(data[o]))
      BY <1>4, <2>2 DEF NotAfter, Held
    <3> QED
      BY <1>4, <1>7, <2>1, <2>4, <3>1
  <2>9. g \in SUBSET (hash[s] \cup {cur})
    BY <2>1, <2>4
  <2>10. Published(s, cur, g)
    BY <1>3, <1>11, <1>14, <2>5, <2>6, <2>7, <2>8, <2>9 DEF Published
  <2> QED
    BY <1>1, <2>10, PublishedIInv
<1>15. ASSUME NEW o \in Entry(row.key), ~Changes(data[o], row),
              data' = [data EXCEPT ![cur].key = Stale], marked' = marked + 1,
              UNCHANGED <<hash, ok, stamps>>
       PROVE  IInv'
  <2>1. o \in hash[s] /\ o \in Live /\ o \in DOMAIN data /\ data[o].key = row.key /\ o # cur /\ data[o] \in Kept
        /\ o \in Nat
    BY <1>5, <1>7, <1>8
  <2>2. data[o].val <= row.val /\ data[o].ts <= now
    BY <1>2, <1>7, <1>15, <2>1, MergedIs DEF RowsInv
  <2>3. data' = [data EXCEPT ![cur] = [data[cur] EXCEPT !.key = Stale]]
    BY <1>15
  <2>4. PICK g : g = {cur}
    OBVIOUS
  <2>5. /\ DOMAIN data' = DOMAIN data /\ data' \in Seq(Kept)
        /\ \A r \in DOMAIN data : data'[r] = IF r \in g THEN [data[r] EXCEPT !.key = Stale] ELSE data[r]
        /\ marked' \in Nat
        /\ stale + marked' = Cardinality({r \in DOMAIN data' : data'[r].key = Stale})
    BY <1>7, <1>12, <1>15, <2>3, <2>4
  <2>6. hash' = [hash EXCEPT ![s] = (@ \cup {cur}) \ g]
    <3>1. (hash[s] \cup {cur}) \ g = hash[s]
      BY <1>7, <2>4
    <3>2. hash' = hash /\ hash \in [Shards -> SUBSET Nat]
      BY <1>2, <1>15 DEF TypeInv
    <3> QED
      BY <3>1, <3>2
  <2>7. \A q, r \in (hash[s] \cup {cur}) \ g : data[q].key = data[r].key => q = r
    BY <1>7, <2>4
  <2>8. \A x \in g : \E z \in Live \ g : data[z].key = data[x].key /\ NotAfter(Held(data[z]), Held(data[x]))
    <3>1. NotAfter(Held(data[o]), Held(data[cur]))
      <4>1. data[o].val \in Nat /\ row.val \in Nat
        BY <1>7, <2>1 DEF Kept
      <4> QED
        BY <1>4, <1>7, <2>2, <4>1 DEF NotAfter, Held
    <3> QED
      BY <1>4, <1>7, <2>1, <2>4, <3>1
  <2>9. /\ g \in SUBSET (hash[s] \cup {cur}) /\ cur \in g
        /\ ok' = TRUE
        /\ \A t \in Shards : stamps'[t] \in {stamps[t], now} /\ (stamps[t] # None => stamps'[t] # None)
        /\ stamps' \in [Shards -> Nat \cup {None}]
    <3>1. ok' = ok /\ stamps' = stamps /\ ok = TRUE
      BY <1>2, <1>15 DEF OffsetInv
    <3> QED
      BY <1>2, <2>4, <3>1 DEF TypeInv
  <2>10. base = 0 => stamps'[s] # None
    <3>1. ASSUME base = 0 PROVE stamps[s] # None
      <4>1. Indexed < o
        BY <1>5, <1>6, <2>1, <3>1 DEF Indexed
      <4> QED
        BY <1>2, <2>1, <4>1 DEF OffsetInv
    <3> QED
      BY <1>15, <3>1
  <2>11. Published(s, cur, g)
    BY <1>3, <2>5, <2>6, <2>7, <2>8, <2>9, <2>10 DEF Published
  <2> QED
    BY <1>1, <2>11, PublishedIInv
<1> QED
  BY <1>3, <1>4, <1>13, <1>14, <1>15

-----------------------------------------------------------------------------
(* The end of a merge *)

\* What a merge leaves to do at its end.
LEMMA MergeEndIs ==
  ASSUME SortedWritesAssumption, IInv, MergeEnd
  PROVE  /\ ~Idle /\ Idle' /\ path' = "none" /\ base' = 0 /\ drained' = {} /\ marked' = 0
         /\ stamps' = [s \in Shards |-> None]
         /\ UNCHANGED <<queues, now, incoming, batch, fresh, reader, ref>>
         /\ \A s \in Shards : /\ incoming[s] = <<>> /\ batch[s] = <<>> /\ fresh[s] = {}
                              /\ hash[s] = {r \in Live : ShardOf(data[r].key) = s}
         /\ Stamps \subseteq {now}
         /\ data # <<>> => UpdateOffsets # {}
         /\ ok'
<1>1. TypeInv /\ TaskInv /\ RowsInv /\ OffsetInv
  BY DEF IInv
<1>2. /\ ~Idle /\ path' = "none" /\ base' = 0 /\ drained' = {} /\ marked' = 0
      /\ stamps' = [s \in Shards |-> None]
      /\ UNCHANGED <<queues, now, incoming, batch, fresh, reader, ref>>
      /\ ok' = (ok /\ Cardinality(Stamps) <= 1 /\ (NeedsRehash /\ InParallel => UpdateOffsets # {}))
      /\ \A s \in Shards : incoming[s] = <<>> /\ batch[s] = <<>> /\ fresh[s] = {}
  BY DEF MergeEnd, Done
<1>3. \A s \in Shards : hash[s] = {r \in Live : ShardOf(data[r].key) = s}
  BY <1>1, <1>2 DEF RowsInv
<1>4. Stamps \subseteq {now}
  BY <1>1 DEF TaskInv, Stamps
<1>5. ASSUME data # <<>> PROVE UpdateOffsets # {}
  <2>1. Len(data) \in Nat /\ 0 < Len(data) /\ base \in Nat
    BY <1>1, <1>5 DEF TypeInv
  <2>2. CASE offsets # {}
    BY <2>2 DEF UpdateOffsets
  <2>3. CASE offsets = {}
    <3>1. Indexed = 0
      BY <1>1, <2>1, <2>3 DEF OffsetInv, Indexed
    <3>2. path = "parallel" /\ base = 0
      BY <2>1, <3>1 DEF Indexed
    <3>3. PICK s \in Shards : stamps[s] # None
      BY <1>1, <1>2, <1>5, <3>2 DEF OffsetInv
    <3>4. stamps[s] \in Starting
      BY <2>3, <3>3 DEF Starting, Stamps
    <3> QED
      BY <3>4 DEF UpdateOffsets
  <2> QED
    BY <2>2, <2>3
<1>6. Cardinality(Stamps) <= 1
  <2>1. IsFiniteSet({now}) /\ Cardinality({now}) = 1
    BY FS_Singleton
  <2> QED
    BY <1>4, <2>1, FS_Subset
<1>7. NeedsRehash => data # <<>>
  <2>1. ASSUME data = <<>> PROVE ~NeedsRehash
    <3>1. PICK x, m : x = stale + marked /\ m = Max({Slack, Len(data) \div Share})
      OBVIOUS
    <3>2. x = 0
      <4>1. {r \in DOMAIN data : data[r].key = Stale} = {}
        BY <2>1
      <4>2. Cardinality({}) = 0
        BY FS_EmptySet
      <4> QED
        BY <1>1, <3>1, <4>1, <4>2 DEF RowsInv
    <3>3. Len(data) \div Share \in Nat /\ Slack \in Nat
      <4>1. Len(data) = 0 /\ Share \in Nat \ {0} /\ Slack \in Nat
        BY <2>1 DEF SortedWritesAssumption
      <4>2. 0 \div Share \in Nat
        BY <4>1
      <4> QED
        BY <4>1, <4>2
    <3>4. m \in {Slack, Len(data) \div Share}
      <4>1. PICK a, b : a = Slack /\ b = Len(data) \div Share
        OBVIOUS
      <4>2. a \in Nat /\ b \in Nat /\ m = Max({a, b})
        BY <3>1, <3>3, <4>1
      <4>3. m \in {a, b}
        BY <4>2 DEF Max
      <4> QED
        BY <4>1, <4>3
    <3>5. ~(x > m)
      BY <3>2, <3>3, <3>4
    <3> QED
      BY <3>1, <3>5 DEF NeedsRehash
  <2> QED
    BY <2>1
<1>8. ok'
  BY <1>1, <1>2, <1>5, <1>6, <1>7 DEF OffsetInv
<1> QED
  BY <1>2, <1>3, <1>4, <1>5, <1>8 DEF Idle

\* The rest of the invariant when there is no compaction.
LEMMA UpdatedRest ==
  ASSUME SortedWritesAssumption, IInv, MergeEnd, stale' = stale + marked,
         UNCHANGED <<data, hash, gen>>, OffsetInv', offsets' \in SUBSET [ts : Nat, row : Nat]
  PROVE  IInv'
<1>1. /\ ~Idle /\ Idle' /\ path' = "none" /\ base' = 0 /\ drained' = {} /\ marked' = 0
      /\ stamps' = [s \in Shards |-> None]
      /\ UNCHANGED <<queues, now, incoming, batch, fresh, reader, ref>>
      /\ \A s \in Shards : /\ incoming[s] = <<>> /\ batch[s] = <<>> /\ fresh[s] = {}
                           /\ hash[s] = {r \in Live : ShardOf(data[r].key) = s}
  BY MergeEndIs
<1>2. TypeInv /\ QueueInv /\ TaskInv /\ RowsInv /\ OffsetInv /\ ContentInv /\ ReaderInv
  BY DEF IInv
<1>3. /\ data' = data /\ hash' = hash /\ gen' = gen /\ open' = open /\ pending' = pending /\ now' = now
      /\ incoming' = incoming /\ batch' = batch /\ fresh' = fresh /\ reader' = reader /\ ref' = ref
  BY <1>1 DEF queues
<1>4. Live' = Live /\ Indexed' = Len(data)
  BY <1>1, <1>3 DEF Live, Indexed
<1>5. TypeInv'
  <2>1. stale' \in Nat
    BY <1>2 DEF TypeInv
  <2>2. stamps' \in [Shards -> Nat \cup {None}]
    BY <1>1
  <2> QED
    BY <1>1, <1>2, <1>3, <2>1, <2>2 DEF TypeInv
<1>6. QueueInv'
  BY <1>1, QueuesOutlast
<1>7. TaskInv'
  BY <1>1, <1>3 DEF TaskInv, DueRows, BatchOf
<1>8. RowsInv'
  <2>1. stale' + marked' = stale + marked
    BY <1>1, <1>2 DEF TypeInv
  <2> QED
    BY <1>1, <1>2, <1>3, <1>4, <2>1 DEF RowsInv
<1>9. ContentInv'
  BY <1>2, <1>3 DEF ContentInv, Sources, OfKey
<1>10. ReaderInv'
  <2>1. Indexed <= Len(data) /\ Indexed \in Nat /\ Len(data) \in Nat
    BY <1>2 DEF RowsInv, Indexed, TypeInv
  <2>2. reader.major = gen => reader.minor <= Len(data)
    BY <1>2, <2>1 DEF ReaderInv, TypeInv
  <2> QED
    BY <1>2, <1>3, <1>4, <2>2 DEF ReaderInv
<1> QED
  BY <1>5, <1>6, <1>7, <1>8, <1>9, <1>10 DEF IInv

\* Without a compaction the rows of the tasks get their offset.
LEMMA UpdatedIInv ==
  ASSUME SortedWritesAssumption, IInv, MergeEnd, stale' = stale + marked, offsets' = UpdateOffsets,
         UNCHANGED <<data, hash, gen>>
  PROVE  IInv'
<1>1. /\ ~Idle /\ Idle' /\ path' = "none" /\ base' = 0 /\ drained' = {} /\ marked' = 0
      /\ stamps' = [s \in Shards |-> None]
      /\ UNCHANGED <<queues, now, incoming, batch, fresh, reader, ref>>
      /\ \A s \in Shards : /\ incoming[s] = <<>> /\ batch[s] = <<>> /\ fresh[s] = {}
                           /\ hash[s] = {r \in Live : ShardOf(data[r].key) = s}
      /\ Stamps \subseteq {now}
      /\ data # <<>> => UpdateOffsets # {}
      /\ ok'
  BY MergeEndIs
<1>2. TypeInv /\ QueueInv /\ TaskInv /\ RowsInv /\ OffsetInv /\ ContentInv /\ ReaderInv
  BY DEF IInv
<1>3. /\ data' = data /\ hash' = hash /\ gen' = gen /\ open' = open /\ pending' = pending /\ now' = now
      /\ incoming' = incoming /\ batch' = batch /\ fresh' = fresh /\ reader' = reader /\ ref' = ref
  BY <1>1 DEF queues
<1>4. /\ Live' = Live /\ Indexed' = Len(data)
      /\ \A r \in DOMAIN data : r \in Nat /\ r <= Len(data) /\ data[r].ts \in Nat
      /\ DOMAIN data = 1..Len(data) /\ Len(data) \in Nat /\ base \in Nat /\ now \in Nat
      /\ stale \in Nat /\ marked \in Nat
  <2>1. Live' = Live /\ Indexed' = Len(data)
    BY <1>1, <1>3 DEF Live, Indexed
  <2> QED
    BY <1>2, <2>1, RowsAre DEF TypeInv
<1>5. Indexed <= Len(data) /\ Indexed \in Nat
  BY <1>2, <1>4 DEF RowsInv, Indexed
<1>6. PICK top : top = [ts |-> now, row |-> base + 1]
  OBVIOUS
<1>7. top.ts = now /\ top.row = base + 1 /\ top \in [ts : Nat, row : Nat]
  BY <1>4, <1>6
<1>8. CASE Starting = {}
  <2>1. offsets' = offsets
    BY <1>8 DEF UpdateOffsets
  <2>2. ASSUME NEW s \in Shards, NEW r \in hash[s]
        PROVE  \E o \in offsets : o.ts = data[r].ts /\ o.row <= r
    <3>1. r \in DOMAIN data
      BY <1>1 DEF Live
    <3>2. CASE r <= Indexed
      BY <1>2, <3>2 DEF OffsetInv
    <3>3. CASE Indexed < r
      <4>1. stamps[s] # None /\ stamps[s] = now /\ path = "parallel"
        BY <1>2, <3>3 DEF OffsetInv, TaskInv
      <4>2. now \in Stamps /\ now \notin Starting
        BY <1>8, <4>1 DEF Stamps
      <4>3. PICK o \in offsets : ~(o.ts < now)
        BY <4>2 DEF Starting
      <4>4. o.ts = now /\ o.row \in 1..base /\ o.row \in Nat
        BY <1>2, <1>4, <4>1, <4>3 DEF OffsetInv, TypeInv, Indexed
      <4>5. data[r].ts = now /\ o.row <= r
        BY <1>2, <1>4, <3>1, <3>3, <4>1, <4>4 DEF RowsInv, Indexed
      <4> QED
        BY <4>4, <4>5
    <3> QED
      BY <1>4, <1>5, <3>1, <3>2, <3>3
  <2>3. \A o \in offsets : o.row \in 1..Len(data)
    BY <1>2, <1>4, <1>5 DEF OffsetInv
  <2>4. 0 < Len(data) => offsets # {}
    BY <1>1, <2>1
  <2>5. \A s \in Shards : \A r \in hash[s] : ~(Len(data) < r)
    BY <1>1, <1>4 DEF Live
  <2>6. OffsetInv'
    BY <1>1, <1>2, <1>3, <1>4, <2>1, <2>2, <2>3, <2>4, <2>5 DEF OffsetInv
  <2> QED
    <3>1. offsets' \in SUBSET [ts : Nat, row : Nat]
      BY <1>2, <2>1 DEF TypeInv
    <3> QED
      BY <2>6, <3>1, UpdatedRest
<1>9. CASE Starting # {}
  <2>1. PICK s \in Shards : stamps[s] # None /\ stamps[s] = now
    <3>1. PICK ts : ts \in Starting
      BY <1>9
    <3>2. ts \in Stamps
      BY <3>1 DEF Starting
    <3>3. ts = now
      BY <1>1, <3>2
    <3> QED
      BY <3>2, <3>3 DEF Stamps
  <2>2. path = "parallel" /\ base < Len(data) /\ Indexed = base
    BY <1>2, <2>1 DEF TaskInv, Indexed
  <2>3. Starting = {now} /\ \A o \in offsets : o.ts < now
    BY <1>1, <1>9 DEF Starting
  <2>4. offsets' = offsets \cup {top}
    BY <1>6, <2>3 DEF UpdateOffsets
  <2>5. \A o \in offsets : o.ts \in Nat /\ o.row \in Nat /\ o.row \in 1..base /\ o.row < base + 1
    BY <1>2, <1>4, <2>2 DEF OffsetInv, TypeInv
  <2>6. \A o, p \in offsets' : (o.ts < p.ts => o.row < p.row) /\ (o.ts = p.ts => o = p)
    <3>1. \A o, p \in offsets : (o.ts < p.ts => o.row < p.row) /\ (o.ts = p.ts => o = p)
      BY <1>2 DEF OffsetInv
    <3>2. \A o \in offsets : o.row < top.row /\ o.ts < top.ts /\ ~(top.ts < o.ts) /\ o.ts # top.ts
      BY <1>4, <1>7, <2>3, <2>5
    <3>3. ~(top.ts < top.ts)
      BY <1>4, <1>7
    <3> QED
      BY <2>4, <3>1, <3>2, <3>3
  <2>7. \A o \in offsets' : /\ o.row \in 1..Len(data) /\ o.ts <= now
                            /\ \A r \in DOMAIN data : o.row <= r => o.ts <= data[r].ts
    <3>1. \A o \in offsets : /\ o.row \in 1..Len(data) /\ o.ts <= now
                             /\ \A r \in DOMAIN data : o.row <= r => o.ts <= data[r].ts
      BY <1>2, <1>4, <2>2, <2>5 DEF OffsetInv
    <3>2. top.row \in 1..Len(data) /\ top.ts <= now
      BY <1>4, <1>7, <2>2
    <3>3. ASSUME NEW r \in DOMAIN data, top.row <= r PROVE top.ts <= data[r].ts
      <4>1. base < r
        BY <1>4, <1>7, <3>3
      <4> QED
        BY <1>2, <1>4, <1>7, <2>2, <4>1 DEF RowsInv
    <3> QED
      BY <2>4, <3>1, <3>2, <3>3
  <2>8. ASSUME NEW t \in Shards, NEW r \in hash[t]
        PROVE  \E o \in offsets' : o.ts = data[r].ts /\ o.row <= r
    <3>1. r \in DOMAIN data
      BY <1>1 DEF Live
    <3>2. CASE r <= base
      BY <1>2, <2>2, <2>4, <3>2 DEF OffsetInv
    <3>3. CASE base < r
      BY <1>2, <1>4, <1>7, <2>2, <2>4, <3>1, <3>3 DEF RowsInv
    <3> QED
      BY <1>4, <3>1, <3>2, <3>3
  <2>9. offsets' # {} /\ offsets' \in SUBSET [ts : Nat, row : Nat]
    BY <1>2, <1>7, <2>4 DEF TypeInv
  <2>10. \A t \in Shards : \A r \in hash[t] : ~(Len(data) < r)
    BY <1>1, <1>4 DEF Live
  <2>11. OffsetInv'
    BY <1>1, <1>2, <1>3, <1>4, <2>6, <2>7, <2>8, <2>9, <2>10 DEF OffsetInv
  <2> QED
    BY <1>2, <1>3, <2>9, <2>11, UpdatedRest
<1> QED
  BY <1>8, <1>9

\* The rows of a sequence in the order of time are covered by the first row of each time.
LEMMA OffsetsOfAre ==
  ASSUME NEW rows \in Seq(Kept), \A i, j \in DOMAIN rows : i <= j => rows[i].ts <= rows[j].ts
  PROVE  /\ OffsetsOf(rows) \in SUBSET [ts : Nat, row : Nat]
         /\ \A o, p \in OffsetsOf(rows) : (o.ts < p.ts => o.row < p.row) /\ (o.ts = p.ts => o = p)
         /\ \A o \in OffsetsOf(rows) : /\ o.row \in DOMAIN rows /\ o.ts = rows[o.row].ts
                                       /\ \A r \in DOMAIN rows : o.row <= r => o.ts <= rows[r].ts
         /\ \A r \in DOMAIN rows : \E o \in OffsetsOf(rows) : o.ts = rows[r].ts /\ o.row <= r
<1>1. PICK n : n = Len(rows)
  OBVIOUS
<1>2. /\ DOMAIN rows = 1..n /\ n \in Nat
      /\ \A i \in 1..n : rows[i] \in Kept /\ rows[i].ts \in Nat /\ i \in Nat
  <2>1. DOMAIN rows = 1..n /\ n \in Nat
    BY <1>1
  <2>2. \A i \in DOMAIN rows : rows[i] \in Kept
    BY ElementOf
  <2>3. ASSUME NEW k \in Kept PROVE k.ts \in Nat
    BY DEF Kept
  <2>4. \A i \in 1..n : i \in Nat
    BY <2>1
  <2> QED
    BY <2>1, <2>2, <2>3, <2>4
<1>3. PICK all : all = OffsetsOf(rows)
  OBVIOUS
<1>4. ASSUME NEW o \in all
      PROVE  /\ o.row \in 1..n /\ o.ts = rows[o.row].ts /\ o = [ts |-> o.ts, row |-> o.row]
             /\ \A j \in 1..(o.row - 1) : rows[j].ts < o.ts
  BY <1>2, <1>3 DEF OffsetsOf
<1>5. ASSUME NEW i \in 1..n, \A j \in 1..(i - 1) : rows[j].ts < rows[i].ts
      PROVE  [ts |-> rows[i].ts, row |-> i] \in all
  BY <1>2, <1>3, <1>5 DEF OffsetsOf
<1>6. all \in SUBSET [ts : Nat, row : Nat]
  <2>1. ASSUME NEW o \in all PROVE o \in [ts : Nat, row : Nat]
    <3>1. o.ts \in Nat /\ o.row \in Nat /\ o = [ts |-> o.ts, row |-> o.row]
      BY <1>2, <1>4
    <3> QED
      BY <3>1
  <2> QED
    BY <2>1
<1>7. ASSUME NEW o \in all, NEW p \in all
      PROVE  (o.ts < p.ts => o.row < p.row) /\ (o.ts = p.ts => o = p)
  <2>1. /\ o.row \in Nat /\ p.row \in Nat /\ o.ts \in Nat /\ p.ts \in Nat
        /\ 1 <= o.row /\ 1 <= p.row
    BY <1>2, <1>4
  <2>2. p.row <= o.row => p.ts <= o.ts
    BY <1>2, <1>4
  <2>3. o.row < p.row => o.ts < p.ts
    <3>1. ASSUME o.row < p.row PROVE o.row \in 1..(p.row - 1)
      BY <2>1, <3>1
    <3> QED
      BY <1>4, <3>1
  <2>4. p.row < o.row => p.ts < o.ts
    <3>1. ASSUME p.row < o.row PROVE p.row \in 1..(o.row - 1)
      BY <2>1, <3>1
    <3> QED
      BY <1>4, <3>1
  <2>5. o.ts < p.ts => o.row < p.row
    BY <2>1, <2>2
  <2>6. o.ts = p.ts => o.row = p.row
    BY <2>1, <2>3, <2>4
  <2> QED
    BY <1>4, <2>5, <2>6
<1>8. ASSUME NEW o \in all, NEW r \in 1..n, o.row <= r PROVE o.ts <= rows[r].ts
  BY <1>2, <1>4, <1>8
<1>9. ASSUME NEW r \in 1..n PROVE \E o \in all : o.ts = rows[r].ts /\ o.row <= r
  <2>1. PICK same : same = {i \in 1..n : rows[i].ts = rows[r].ts}
    OBVIOUS
  <2>2. same \in SUBSET Nat /\ same # {}
    BY <1>2, <2>1
  <2>3. PICK i \in same : \A j \in same : i <= j
    BY <2>2, HasLeast
  <2>4. i \in 1..n /\ rows[i].ts = rows[r].ts /\ i <= r /\ i \in Nat
    BY <1>2, <2>1, <2>3
  <2>5. ASSUME NEW j \in 1..(i - 1) PROVE rows[j].ts < rows[i].ts
    <3>1. j \in 1..n /\ j < i /\ j <= i /\ ~(i <= j)
      BY <1>2, <2>4
    <3>2. rows[j].ts # rows[i].ts
      BY <2>1, <2>3, <2>4, <3>1
    <3>3. rows[j].ts <= rows[i].ts
      BY <1>2, <2>4, <3>1
    <3> QED
      BY <1>2, <2>4, <3>1, <3>2, <3>3
  <2>6. [ts |-> rows[i].ts, row |-> i] \in all
    BY <1>5, <2>4, <2>5
  <2> QED
    BY <2>4, <2>6
<1> QED
  BY <1>2, <1>3, <1>4, <1>6, <1>7, <1>8, <1>9

\* A compaction gives each live row a place of its own, and fills all places, in the order of time.
LEMMA PlacesAre ==
  ASSUME SortedWritesAssumption, IInv, NEW f \in Places, NEW n, n = Cardinality(Live)
  PROVE  /\ n \in Nat
         /\ \A r \in Live : f[r] \in 1..n
         /\ \A q, r \in Live : f[q] = f[r] => q = r
         /\ \A i \in 1..n : \E r \in Live : f[r] = i
         /\ \A q, r \in Live : f[q] <= f[r] => data[q].ts <= data[r].ts
<1>1. IsFiniteSet(Live) /\ n \in Nat /\ Live \subseteq DOMAIN data
  <2>1. DOMAIN data = 1..Len(data) /\ Len(data) \in Nat
    BY RowsAre DEF IInv
  <2>2. IsFiniteSet(DOMAIN data)
    BY <2>1, FiniteUpTo
  <2>3. Live \in SUBSET DOMAIN data
    BY DEF Live
  <2> QED
    BY <2>2, <2>3, FS_Subset, FS_CardinalityType
<1>2. /\ f \in [Live -> 1..n]
      /\ \A q, r \in Live : f[q] = f[r] => q = r
      /\ \A q, r \in Live : Before(q, r) => f[q] < f[r]
  BY DEF Places
<1>3. \A i \in 1..n : \E r \in Live : f[r] = i
  <2>1. IsFiniteSet(1..n) /\ Cardinality(1..n) = n
    BY <1>1, FiniteUpTo
  <2>2. f \in Injection(Live, 1..n)
    BY <1>2 DEF Injection, IsInjective
  <2>3. f \in Surjection(Live, 1..n)
    BY <2>1, <2>2, FS_Injection
  <2> QED
    BY <2>3 DEF Surjection
<1>4. ASSUME NEW q \in Live, NEW r \in Live, f[q] <= f[r] PROVE data[q].ts <= data[r].ts
  <2>1. q \in DOMAIN data /\ r \in DOMAIN data /\ q \in Nat /\ r \in Nat /\ data[q].ts \in Nat /\ data[r].ts \in Nat
    BY <1>1, RowsAre DEF IInv
  <2>2. data[r].ts < data[q].ts => Before(r, q)
    <3>1. CASE InParallel
      BY <3>1 DEF Before
    <3>2. CASE ~InParallel
      <4>1. q <= r => data[q].ts <= data[r].ts
        BY <2>1 DEF IInv, RowsInv
      <4> QED
        BY <2>1, <3>2, <4>1 DEF Before
    <3> QED
      BY <3>1, <3>2
  <2>3. Before(r, q) => f[r] < f[q]
    BY <1>2
  <2>4. f[q] \in Nat /\ f[r] \in Nat
    BY <1>1, <1>2
  <2> QED
    BY <1>4, <2>1, <2>2, <2>3, <2>4
<1> QED
  BY <1>1, <1>2, <1>3, <1>4

\* A compaction moves the live rows together.
LEMMA RehashIInv ==
  ASSUME SortedWritesAssumption, IInv, MergeEnd, Rehash PROVE IInv'
<1>1. /\ ~Idle /\ Idle' /\ path' = "none" /\ base' = 0 /\ drained' = {} /\ marked' = 0
      /\ stamps' = [s \in Shards |-> None]
      /\ UNCHANGED <<queues, now, incoming, batch, fresh, reader, ref>>
      /\ \A s \in Shards : /\ incoming[s] = <<>> /\ batch[s] = <<>> /\ fresh[s] = {}
                           /\ hash[s] = {r \in Live : ShardOf(data[r].key) = s}
      /\ ok'
  BY MergeEndIs
<1>2. TypeInv /\ QueueInv /\ TaskInv /\ RowsInv /\ OffsetInv /\ ContentInv /\ ReaderInv
  BY DEF IInv
<1>3. /\ open' = open /\ pending' = pending /\ now' = now
      /\ incoming' = incoming /\ batch' = batch /\ fresh' = fresh /\ reader' = reader /\ ref' = ref
  BY <1>1 DEF queues
<1>4. PICK f \in Places :
        /\ data' = [i \in 1..Cardinality(Live) |-> data[CHOOSE r \in Live : f[r] = i]]
        /\ hash' = [s \in Shards |-> {f[r] : r \in hash[s]}]
        /\ offsets' = OffsetsOf(data')
        /\ stale' = 0
  BY DEF Rehash, Move
<1>5. PICK n : n = Cardinality(Live)
  OBVIOUS
<1>6. /\ n \in Nat
      /\ \A r \in Live : f[r] \in 1..n
      /\ \A q, r \in Live : f[q] = f[r] => q = r
      /\ \A i \in 1..n : \E r \in Live : f[r] = i
      /\ \A q, r \in Live : f[q] <= f[r] => data[q].ts <= data[r].ts
  BY <1>5, PlacesAre
<1>7. PICK at : at = [i \in 1..n |-> CHOOSE r \in Live : f[r] = i]
  OBVIOUS
<1>8. \A i \in 1..n : at[i] \in Live /\ f[at[i]] = i
  BY <1>6, <1>7
<1>9. \A r \in Live : at[f[r]] = r
  BY <1>6, <1>8
<1>10. /\ \A r \in Live : /\ r \in DOMAIN data /\ data[r] \in Kept /\ data[r].key \in Keys
                          /\ data[r].ts <= now /\ data[r].key # Stale
       /\ now \in Nat /\ gen \in Nat /\ gen' = gen + 1
  BY <1>2, RowsAre DEF Live, RowsInv, TypeInv, Rehash
<1>11. /\ data' = [i \in 1..n |-> data[at[i]]]
       /\ data' \in Seq(Kept) /\ DOMAIN data' = 1..n /\ Len(data') = n
       /\ \A i \in 1..n : data'[i] = data[at[i]] /\ data'[i].key # Stale
  <2>1. data' = [i \in 1..n |-> data[at[i]]]
    BY <1>4, <1>5, <1>7
  <2>2. \A i \in 1..n : data'[i] = data[at[i]] /\ data'[i].key # Stale /\ data'[i] \in Kept
    BY <1>8, <1>10, <2>1
  <2>3. data' \in [1..n -> Kept]
    BY <2>1, <2>2
  <2>4. data' \in Seq(Kept) /\ Len(data') = n
    BY <1>6, <2>3
  <2> QED
    BY <2>1, <2>2, <2>3, <2>4
<1>12. Live' = 1..n /\ Indexed' = n
  BY <1>1, <1>11 DEF Live, Indexed
<1>13. \A i, j \in DOMAIN data' : i <= j => data'[i].ts <= data'[j].ts
  BY <1>6, <1>8, <1>11
<1>14. \A s \in Shards : hash'[s] = {i \in 1..n : ShardOf(data'[i].key) = s}
  <2>1. ASSUME NEW s \in Shards PROVE hash'[s] = {i \in 1..n : ShardOf(data'[i].key) = s}
    <3>1. hash'[s] = {f[r] : r \in {r \in Live : ShardOf(data[r].key) = s}}
      BY <1>1, <1>4
    <3>2. \A r \in Live : data'[f[r]] = data[r]
      BY <1>6, <1>9, <1>11
    <3> QED
      BY <1>6, <1>8, <1>11, <3>1, <3>2
  <2> QED
    BY <2>1
<1>15. /\ offsets' \in SUBSET [ts : Nat, row : Nat]
       /\ \A o, p \in offsets' : (o.ts < p.ts => o.row < p.row) /\ (o.ts = p.ts => o = p)
       /\ \A o \in offsets' : /\ o.row \in DOMAIN data' /\ o.ts = data'[o.row].ts
                              /\ \A r \in DOMAIN data' : o.row <= r => o.ts <= data'[r].ts
       /\ \A r \in DOMAIN data' : \E o \in offsets' : o.ts = data'[r].ts /\ o.row <= r
  <2>1. PICK rows : rows = data'
    OBVIOUS
  <2>2. rows \in Seq(Kept) /\ \A i, j \in DOMAIN rows : i <= j => rows[i].ts <= rows[j].ts
    BY <1>11, <1>13, <2>1
  <2>3. /\ OffsetsOf(rows) \in SUBSET [ts : Nat, row : Nat]
        /\ \A o, p \in OffsetsOf(rows) : (o.ts < p.ts => o.row < p.row) /\ (o.ts = p.ts => o = p)
        /\ \A o \in OffsetsOf(rows) : /\ o.row \in DOMAIN rows /\ o.ts = rows[o.row].ts
                                      /\ \A r \in DOMAIN rows : o.row <= r => o.ts <= rows[r].ts
        /\ \A r \in DOMAIN rows : \E o \in OffsetsOf(rows) : o.ts = rows[r].ts /\ o.row <= r
    BY <2>2, OffsetsOfAre
  <2> QED
    <3>1. offsets' = OffsetsOf(rows)
      BY <1>4, <2>1
    <3> QED
      BY <2>1, <2>3, <3>1
<1>16. TypeInv'
  <2>1. hash' \in [Shards -> SUBSET Nat]
    <3>1. \A s \in Shards : hash'[s] \in SUBSET Nat
      BY <1>6, <1>14
    <3>2. hash' = [s \in Shards |-> hash'[s]]
      BY <1>4
    <3> QED
      BY <3>1, <3>2
  <2>2. stamps' \in [Shards -> Nat \cup {None}] /\ gen' \in Nat /\ stale' \in Nat
    BY <1>1, <1>4, <1>10
  <2> QED
    BY <1>1, <1>2, <1>3, <1>11, <1>15, <2>1, <2>2 DEF TypeInv
<1>17. QueueInv'
  BY <1>1, QueuesOutlast
<1>18. TaskInv'
  BY <1>1, <1>3 DEF TaskInv, DueRows, BatchOf
<1>19. RowsInv'
  <2>1. \A i \in DOMAIN data' : data'[i].ts <= now
    BY <1>8, <1>10, <1>11
  <2>2. \A s \in Shards : \A q, r \in hash'[s] : data'[q].key = data'[r].key => q = r
    <3>1. ASSUME NEW s \in Shards, NEW q \in hash'[s], NEW r \in hash'[s], data'[q].key = data'[r].key
          PROVE  q = r
      <4>1. q \in 1..n /\ r \in 1..n /\ ShardOf(data'[q].key) = s /\ ShardOf(data'[r].key) = s
        BY <1>14
      <4>2. at[q] \in hash[s] /\ at[r] \in hash[s] /\ data[at[q]].key = data[at[r]].key
        BY <1>1, <1>8, <1>11, <3>1, <4>1
      <4>3. at[q] = at[r]
        BY <1>2, <4>2 DEF RowsInv
      <4> QED
        BY <1>8, <4>1, <4>3
    <3> QED
      BY <3>1
  <2>3. stale' + marked' = Cardinality({r \in DOMAIN data' : data'[r].key = Stale})
    <3>1. {r \in DOMAIN data' : data'[r].key = Stale} = {} /\ Cardinality({}) = 0
      BY <1>11, FS_EmptySet
    <3>2. stale' + marked' = 0
      BY <1>1, <1>4
    <3> QED
      BY <3>1, <3>2
  <2>4. \A s \in Shards : fresh'[s] = {} /\ hash'[s] = {r \in Live' : ShardOf(data'[r].key) = s} \ fresh'[s]
    BY <1>1, <1>3, <1>12, <1>14
  <2> QED
    BY <1>1, <1>3, <1>13, <2>1, <2>2, <2>3, <2>4 DEF RowsInv
<1>20. OffsetInv'
  <2>1. \A o \in offsets' : o.row \in 1..n /\ o.ts <= now
    BY <1>8, <1>10, <1>11, <1>15
  <2>2. 0 < n => offsets' # {}
    <3>1. ASSUME 0 < n PROVE 1 \in DOMAIN data'
      BY <1>6, <1>11, <3>1
    <3> QED
      BY <1>15, <3>1
  <2>3. \A s \in Shards : \A r \in hash'[s] : r \in DOMAIN data' /\ r <= n /\ ~(n < r)
    BY <1>6, <1>11, <1>14
  <2> QED
    BY <1>1, <1>3, <1>12, <1>15, <2>1, <2>2, <2>3 DEF OffsetInv
<1>21. ContentInv'
  <2>1. ASSUME NEW k \in Keys PROVE Sources(k)' = Sources(k)
    <3>1. OfKey(data', k) = OfKey(data, k)
      <4>1. k # Stale
        BY KeysAre
      <4>2. ASSUME NEW x \in OfKey(data', k) PROVE x \in OfKey(data, k)
        BY <1>8, <1>10, <1>11 DEF OfKey
      <4>3. ASSUME NEW x \in OfKey(data, k) PROVE x \in OfKey(data', k)
        <5>1. PICK r \in DOMAIN data : data[r].key = k /\ x = Held(data[r])
          BY DEF OfKey
        <5>2. r \in Live
          BY <4>1, <5>1 DEF Live
        <5>3. f[r] \in DOMAIN data' /\ data'[f[r]] = data[r]
          BY <1>6, <1>9, <1>11, <5>2
        <5> QED
          BY <5>1, <5>3 DEF OfKey
      <4> QED
        BY <4>2, <4>3
    <3> QED
      BY <1>3, <3>1 DEF Sources
  <2> QED
    BY <1>2, <1>3, <2>1 DEF ContentInv
<1>22. ReaderInv'
  <2>1. reader.major <= gen /\ reader.major \in Nat
    BY <1>2 DEF ReaderInv, TypeInv
  <2>2. reader.major <= gen + 1 /\ reader.major # gen + 1
    BY <1>10, <2>1
  <2> QED
    BY <1>3, <1>10, <2>2 DEF ReaderInv
<1> QED
  BY <1>16, <1>17, <1>18, <1>19, <1>20, <1>21, <1>22 DEF IInv

\* A merge ends.
LEMMA MergeEndIInv == ASSUME SortedWritesAssumption, IInv, MergeEnd PROVE IInv'
<1>1. \/ stale' = stale + marked /\ offsets' = UpdateOffsets /\ UNCHANGED <<data, hash, gen>>
      \/ Rehash
  BY DEF MergeEnd
<1> QED
  BY <1>1, UpdatedIInv, RehashIInv

\* Every step keeps the invariant.
LEMMA NextIInv == ASSUME SortedWritesAssumption, IInv, [Next]_vars PROVE IInv'
<1>1. CASE UNCHANGED vars
  <2>1. UNCHANGED <<table, queues, now, merge, reader, ref>>
    BY <1>1 DEF vars
  <2>2. TypeInv'
    BY <2>1, TypesUnmoved DEF IInv, TypeInv, queues
  <2>3. QueueInv'
    BY <2>1 DEF IInv, QueueInv, DueRows, DueKeys, Idle, table, queues, merge
  <2> QED
    BY <2>1, <2>2, <2>3, Unmoved DEF IInv
<1>2. CASE \E w \in Writers : Stage(w) \/ DropBuffer(w)
  BY <1>2, StageIInv, DropBufferIInv
<1>3. CASE Rewrite \/ Tick \/ MergeBegin \/ MergeEnd \/ Clear \/ Read
  BY <1>3, RewriteIInv, TickIInv, MergeBeginIInv, MergeEndIInv, ClearIInv, ReadIInv
<1>4. CASE \E s \in Shards : Drain(s) \/ Insert(s) \/ Coalesce(s) \/ WriteBatch(s) \/ Publish(s)
  BY <1>4, DrainIInv, InsertIInv, CoalesceIInv, WriteBatchIInv, PublishIInv
<1> QED
  BY <1>1, <1>2, <1>3, <1>4 DEF Next

-----------------------------------------------------------------------------
(* What follows *)

\* Between merges the entries are the live rows, and stale_rows counts the others.
LEMMA EntriesFromIInv == ASSUME SortedWritesAssumption, IInv PROVE EntriesExact
<1> SUFFICES ASSUME Idle
             PROVE  /\ UNION {hash[s] : s \in Shards} = Live
                    /\ \A s \in Shards : \A r \in hash[s] : ShardOf(data[r].key) = s
                    /\ \A q, r \in Live : data[q].key = data[r].key => q = r
                    /\ stale = Len(data) - Cardinality(Live)
  BY DEF EntriesExact
<1>1. \A s \in Shards : hash[s] = {r \in Live : ShardOf(data[r].key) = s}
  BY IdleIs
<1>2. \A r \in Live : r \in DOMAIN data /\ ShardOf(data[r].key) \in Shards
  BY RowsAre, KeysAre DEF Live, IInv
<1>3. UNION {hash[s] : s \in Shards} = Live
  BY <1>1, <1>2
<1>4. \A q, r \in Live : data[q].key = data[r].key => q = r
  <2>1. ASSUME NEW q \in Live, NEW r \in Live, data[q].key = data[r].key PROVE q = r
    <3>1. PICK s \in Shards : s = ShardOf(data[q].key)
      BY <1>2
    <3>2. q \in hash[s] /\ r \in hash[s]
      BY <1>1, <2>1, <3>1
    <3> QED
      BY <2>1, <3>2 DEF IInv, RowsInv
  <2> QED
    BY <2>1
<1>5. stale = Len(data) - Cardinality(Live)
  <2>1. PICK old : old = {r \in DOMAIN data : data[r].key = Stale}
    OBVIOUS
  <2>2. DOMAIN data = 1..Len(data) /\ Len(data) \in Nat
    BY RowsAre DEF IInv
  <2>3. old \cup Live = DOMAIN data /\ old \cap Live = {}
    BY <2>1 DEF Live
  <2>4. IsFiniteSet(DOMAIN data) /\ Cardinality(DOMAIN data) = Len(data)
    BY <2>2, FiniteUpTo
  <2>5. IsFiniteSet(old) /\ IsFiniteSet(Live)
    BY <2>3, <2>4, FS_Subset
  <2>6. Cardinality(old \cup Live) = Cardinality(old) + Cardinality(Live)
        /\ Cardinality(old) \in Nat /\ Cardinality(Live) \in Nat
    BY <2>3, <2>5, CountOfBoth
  <2>7. PICK a, b, n : a = Cardinality(old) /\ b = Cardinality(Live) /\ n = Len(data)
    OBVIOUS
  <2>8. a \in Nat /\ b \in Nat /\ n = a + b
    BY <2>3, <2>4, <2>6, <2>7
  <2>9. stale + marked = a /\ marked = 0 /\ stale \in Nat
    BY <2>1, <2>7, IdleIs DEF IInv, RowsInv, TypeInv
  <2>10. stale = n - b
    BY <2>8, <2>9
  <2> QED
    BY <2>7, <2>10
<1> QED
  BY <1>1, <1>3, <1>4, <1>5

\* Between merges each key has the row that it should have.
LEMMA ContentsFromIInv == ASSUME SortedWritesAssumption, IInv PROVE ContentsExact
<1> SUFFICES ASSUME Idle
             PROVE  LiveRows = {Row(k, ref[k].val, ref[k].ts) : k \in {k \in Keys : ref[k] # None}}
  BY DEF ContentsExact
<1>1. \A s \in Shards : incoming[s] = <<>> /\ batch[s] = <<>>
  BY IdleIs
<1>2. ASSUME NEW k \in Keys PROVE Sources(k) = OfKey(data, k) /\ IsLeast(ref[k], OfKey(data, k))
                                  /\ None \notin OfKey(data, k)
  <2>1. OfKey(<<>>, k) = {}
    BY DEF OfKey
  <2>2. Sources(k) = OfKey(data, k)
    BY <1>1, <2>1, KeysAre DEF Sources
  <2>3. None \notin Sources(k)
    BY SourcesAre DEF IInv
  <2> QED
    BY <2>2, <2>3 DEF IInv, ContentInv
<1>3. EntriesExact
  BY EntriesFromIInv
<1>4. \A q, r \in Live : data[q].key = data[r].key => q = r
  BY <1>3 DEF EntriesExact
<1>5. \A r \in Live : r \in DOMAIN data /\ data[r] \in Kept /\ data[r].key \in Keys
  BY RowsAre DEF IInv, Live
<1>6. ASSUME NEW r \in Live, NEW k \in Keys, data[r].key = k
      PROVE  OfKey(data, k) = {Held(data[r])} /\ ref[k] = Held(data[r]) /\ ref[k] # None
             /\ data[r] = Row(k, ref[k].val, ref[k].ts)
  <2>1. k # Stale
    BY KeysAre
  <2>2. \A i \in DOMAIN data : data[i].key = k => i = r
    BY <1>4, <1>6, <2>1 DEF Live
  <2>3. OfKey(data, k) = {Held(data[r])}
    BY <1>5, <1>6, <2>2 DEF OfKey
  <2>4. ref[k] = Held(data[r]) /\ ref[k] # None
    BY <1>2, <2>3 DEF IsLeast
  <2>5. data[r] = Row(k, data[r].val, data[r].ts)
    BY <1>5, <1>6 DEF Kept, Row
  <2> QED
    BY <2>3, <2>4, <2>5 DEF Held
<1>7. ASSUME NEW x \in LiveRows
      PROVE  x \in {Row(k, ref[k].val, ref[k].ts) : k \in {k \in Keys : ref[k] # None}}
  <2>1. PICK r \in Live : x = data[r]
    BY DEF LiveRows
  <2> QED
    BY <1>5, <1>6, <2>1
<1>8. ASSUME NEW k \in Keys, ref[k] # None
      PROVE  Row(k, ref[k].val, ref[k].ts) \in LiveRows
  <2>1. ref[k] \in OfKey(data, k)
    BY <1>2, <1>8 DEF IsLeast
  <2>2. PICK r \in DOMAIN data : data[r].key = k
    BY <2>1 DEF OfKey
  <2>3. r \in Live
    BY <2>2, KeysAre DEF Live
  <2> QED
    BY <1>6, <2>2, <2>3 DEF LiveRows
<1> QED
  BY <1>7, <1>8

\* Between merges the offsets cut the live rows where their timestamps do.
LEMMA CutIs ==
  ASSUME SortedWritesAssumption, IInv, Idle, NEW v \in Nat, NEW r \in Live
  PROVE  /\ RowAt({o \in offsets : o.ts >= v}) \in 1..(Len(data) + 1)
         /\ r < RowAt({o \in offsets : o.ts >= v}) <=> data[r].ts < v
<1>1. TypeInv /\ OffsetInv
  BY DEF IInv
<1>2. Indexed = Len(data) /\ Len(data) \in Nat
      /\ r \in DOMAIN data /\ r \in Nat /\ r <= Len(data) /\ data[r].ts \in Nat /\ 1 <= r
  BY <1>1, IdleIs, RowsAre DEF Live
<1>3. PICK places : places = {o \in offsets : o.ts >= v}
  OBVIOUS
<1>4. \A o \in offsets : o.ts \in Nat /\ o.row \in Nat /\ o.row \in 1..Len(data)
  BY <1>1, <1>2 DEF OffsetInv, TypeInv
<1>5. PICK own \in offsets : own.ts = data[r].ts /\ own.row <= r
  <2>1. PICK s \in Shards : r \in hash[s]
    <3>1. ShardOf(data[r].key) \in Shards
      BY <1>1, <1>2, RowsAre, KeysAre DEF Live
    <3> QED
      BY <3>1, IdleIs
  <2> QED
    BY <1>1, <1>2, <2>1 DEF OffsetInv
<1>6. CASE places = {}
  <2>1. RowAt(places) = Len(data) + 1
    BY <1>6 DEF RowAt
  <2>2. ~(own.ts >= v)
    BY <1>3, <1>6
  <2> QED
    BY <1>2, <1>3, <1>4, <1>5, <2>1, <2>2
<1>7. CASE places # {}
  <2>1. PICK low \in {o.ts : o \in places} : \A t \in {o.ts : o \in places} : low <= t
    <3>1. {o.ts : o \in places} \in SUBSET Nat /\ {o.ts : o \in places} # {}
      BY <1>3, <1>4, <1>7
    <3> QED
      BY <3>1, HasLeast
  <2>2. \E o \in places : \A p \in places : o.ts <= p.ts
    BY <2>1
  <2>3. PICK top : top = CHOOSE o \in places : \A p \in places : o.ts <= p.ts
    OBVIOUS
  <2>4. top \in places /\ \A p \in places : top.ts <= p.ts
    BY <2>2, <2>3
  <2>5. RowAt(places) = top.row
    BY <1>7, <2>3 DEF RowAt
  <2>6. top \in offsets /\ top.ts >= v
    BY <1>3, <2>4
  <2>7. ASSUME top.row <= r PROVE ~(data[r].ts < v)
    <3>1. top.ts <= data[r].ts
      BY <1>1, <1>2, <2>6, <2>7 DEF OffsetInv
    <3> QED
      BY <1>2, <1>4, <2>6, <3>1
  <2>8. ASSUME r < top.row PROVE data[r].ts < v
    <3>1. own.row < top.row
      BY <1>2, <1>4, <1>5, <2>6, <2>8
    <3>2. own.ts < top.ts
      <4>1. own.ts = top.ts => own = top
        BY <1>1, <2>6 DEF OffsetInv
      <4>2. top.ts < own.ts => top.row < own.row
        BY <1>1, <2>6 DEF OffsetInv
      <4> QED
        BY <1>4, <2>6, <3>1, <4>1, <4>2
    <3>3. own \notin places
      BY <1>4, <2>4, <2>6, <3>2
    <3> QED
      BY <1>3, <1>4, <1>5, <3>3
  <2> QED
    BY <1>2, <1>3, <1>4, <2>5, <2>6, <2>7, <2>8
<1> QED
  BY <1>6, <1>7

\* Between merges the ranges that the offsets cut out are exact.
LEMMA RangesFromIInv == ASSUME SortedWritesAssumption, IInv PROVE RangesExact
<1> SUFFICES ASSUME Idle, NEW val \in 0..MaxTime
             PROVE  /\ FastEq(val) \cap Live = {r \in Live : data[r].ts = val}
                    /\ FastLt(val) \cap Live = {r \in Live : data[r].ts < val}
                    /\ FastLe(val) \cap Live = {r \in Live : data[r].ts <= val}
                    /\ FastGe(val) \cap Live = {r \in Live : data[r].ts >= val}
                    /\ FastGt(val) \cap Live = {r \in Live : data[r].ts > val}
  BY DEF RangesExact
<1>1. val \in Nat /\ val + 1 \in Nat
  BY DEF SortedWritesAssumption
<1>2. PICK from, to : from = At(val) /\ to = Bound(val)
  OBVIOUS
<1>3. \A o \in offsets : o.ts \in Nat
  BY DEF IInv, TypeInv
<1>4. {o \in offsets : o.ts > val} = {o \in offsets : o.ts >= val + 1}
  BY <1>1, <1>3
<1>5. ASSUME NEW r \in Live
      PROVE  /\ from \in Nat /\ to \in Nat /\ r \in Nat /\ 1 <= r /\ r <= Len(data) /\ data[r].ts \in Nat
             /\ r < from <=> data[r].ts < val
             /\ r < to <=> data[r].ts < val + 1
             /\ Len(data) \in Nat
  <2>1. from \in 1..(Len(data) + 1) /\ (r < from <=> data[r].ts < val)
    BY <1>1, <1>2, CutIs DEF At
  <2>2. to = RowAt({o \in offsets : o.ts >= val + 1})
    BY <1>2, <1>4 DEF Bound
  <2>3. to \in 1..(Len(data) + 1) /\ (r < to <=> data[r].ts < val + 1)
    BY <1>1, <2>2, CutIs
  <2>4. r \in DOMAIN data /\ Len(data) \in Nat /\ r \in Nat /\ 1 <= r /\ r <= Len(data) /\ data[r].ts \in Nat
    BY RowsAre DEF Live, IInv
  <2> QED
    BY <2>1, <2>3, <2>4
<1>6. /\ FastLt(val) = 1..(from - 1) /\ FastLe(val) = 1..(to - 1)
      /\ FastGe(val) = from..Len(data) /\ FastGt(val) = to..Len(data)
      /\ FastEq(val) = IF \E o \in offsets : o.ts = val THEN from..(to - 1) ELSE {}
  BY <1>2 DEF FastLt, FastLe, FastGe, FastGt, FastEq
<1>7. FastLt(val) \cap Live = {r \in Live : data[r].ts < val}
  BY <1>5, <1>6
<1>8. FastLe(val) \cap Live = {r \in Live : data[r].ts <= val}
  BY <1>1, <1>5, <1>6
<1>9. FastGe(val) \cap Live = {r \in Live : data[r].ts >= val}
  BY <1>1, <1>5, <1>6
<1>10. FastGt(val) \cap Live = {r \in Live : data[r].ts > val}
  BY <1>1, <1>5, <1>6
<1>11. FastEq(val) \cap Live = {r \in Live : data[r].ts = val}
  <2>1. CASE \E o \in offsets : o.ts = val
    <3>1. FastEq(val) = from..(to - 1)
      BY <1>6, <2>1
    <3> QED
      BY <1>1, <1>5, <3>1
  <2>2. CASE ~ \E o \in offsets : o.ts = val
    <3>1. ASSUME NEW r \in Live PROVE data[r].ts # val
      <4>1. r \in DOMAIN data /\ data[r].key \in Keys /\ ShardOf(data[r].key) \in Shards
        BY RowsAre, KeysAre DEF Live, IInv
      <4>2. r \in hash[ShardOf(data[r].key)]
        BY <4>1, IdleIs
      <4>3. r <= Indexed
        BY <1>5, IdleIs
      <4>4. \E o \in offsets : o.ts = data[r].ts
        BY <4>1, <4>2, <4>3 DEF IInv, OffsetInv
      <4> QED
        BY <2>2, <4>4
    <3>2. FastEq(val) = {}
      BY <1>6, <2>2
    <3> QED
      BY <3>1, <3>2
  <2> QED
    BY <2>1, <2>2
<1> QED
  BY <1>7, <1>8, <1>9, <1>10, <1>11

\* Between merges a reader with the table's version has seen the live rows.
LEMMA ReaderFromIInv == ASSUME SortedWritesAssumption, IInv PROVE ReaderSawAll
<1> SUFFICES ASSUME Idle, reader.major = gen, reader.minor = Len(data)
             PROVE  LiveRows \subseteq reader.known
  BY DEF ReaderSawAll, Version
<1>1. \A r \in Live : r <= Len(data)
  BY RowsAre DEF IInv, Live
<1>2. \A r \in Live : data[r] \in reader.known
  BY <1>1 DEF IInv, ReaderInv
<1> QED
  BY <1>2 DEF LiveRows

\* The invariant gives the properties.
LEMMA PropertiesFromIInv ==
  ASSUME SortedWritesAssumption, IInv PROVE SortedExact /\ ReaderSawAll
<1>1. NoAssertionFails
  BY DEF IInv, OffsetInv, NoAssertionFails
<1> QED
  BY <1>1, EntriesFromIInv, ContentsFromIInv, RangesFromIInv, ReaderFromIInv DEF SortedExact

\* core-relations/src/table/mod.rs: the invariant of the table and of its merges, serial or
\* parallel: the order of the rows, the offsets, the entries, and what is still to be inserted.
THEOREM SortedTableInvariant == ASSUME SortedWritesAssumption PROVE Spec => []IInv
<1>1. Init => IInv
  BY InitIInv
<1>2. IInv /\ [Next]_vars => IInv'
  BY NextIInv
<1> QED
  BY <1>1, <1>2, PTL DEF Spec

\* core-relations/src/table/mod.rs: between merges the hash table has the live rows, the contents
\* are what the staged changes ask for, the offsets cut exact ranges, no assertion has failed, and
\* a reader that has the table's version has seen every live row.
THEOREM SortedTableIsExact ==
  ASSUME SortedWritesAssumption PROVE Spec => [](SortedExact /\ ReaderSawAll)
<1>1. Spec => []IInv
  BY SortedTableInvariant
<1>2. IInv => SortedExact /\ ReaderSawAll
  BY PropertiesFromIInv
<1> QED
  BY <1>1, <1>2, PTL

=============================================================================
