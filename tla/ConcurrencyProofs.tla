--------------------------- MODULE ConcurrencyProofs ---------------------------
(***************************************************************************)
(* What the run over the primitives checks on small instances, for every   *)
(* value of the constants: any number of threads, ids, keys and shards.    *)
(* The facts about ConcurrentVec are stated once, for its steps, and used  *)
(* for the steps that NotificationList and InternTable take in it.         *)
(* Notification, ReadOptimizedLock, Counters and ParallelVecWriter are       *)
(* proved here too.  The invariants of the parts are carried along the       *)
(* behaviours of MCConcurrency, where a step of another part leaves a part's *)
(* variables alone.                                                          *)
(***************************************************************************)
EXTENDS MCConcurrency, Sequences, FiniteSets, FiniteSetTheorems, WellFoundedInduction, TLAPS

V == INSTANCE ConcurrentVec

-----------------------------------------------------------------------------
(* The invariant of the vector, whose items are in D *)

\* The places at which a call holds write_lock.
Held == {"get", "grow", "drain", "write", "publish"}

Calls(D) == [op : {"none", "push", "resize"}, item : D \cup {Uninit}, index : Nat]

VecTypeOK(D) ==
  /\ slots \in Seq(D \cup {Uninit})
  /\ head \in Nat
  /\ head <= Len(slots)
  /\ writeLock \in Threads \cup {None}
  /\ vpc \in [Threads -> Held \cup {"idle", "lock", "done", "open", "reading"}]
  /\ vop \in [Threads -> Calls(D)]
  /\ seen \in [Threads -> Nat]

\* One thread writes at a time, at or after head, where there is room; what it has
\* written is what it publishes.
CallOK(t) ==
  /\ vpc[t] \in Held => writeLock = t /\ vop[t].index >= head
  /\ vpc[t] \in Held \cup {"lock"} => vop[t].op # "none" /\ vop[t].item # Uninit
  /\ vpc[t] \in Held /\ vop[t].op = "push" => vop[t].index = head
  /\ vpc[t] \in {"write", "publish"} => vop[t].index < Len(slots)
  /\ vpc[t] = "publish" => slots[vop[t].index + 1] = vop[t].item
  /\ vpc[t] = "done" => vop[t].index < head
  /\ vpc[t] = "done" /\ vop[t].op = "push" => slots[vop[t].index + 1] = vop[t].item
  /\ seen[t] <= head

\* Slots below head are written.  A push may leave others uninitialized, which a later
\* resize_with would publish: a vector is used with one of them only.
SlotsOK ==
  /\ \A i \in 1..head : slots[i] # Uninit
  /\ \/ \A t \in Threads : vop[t].op # "resize"
     \/ /\ \A t \in Threads : vop[t].op # "push"
        /\ \A i \in 1..Len(slots) : slots[i] # Uninit

VecInv(D) == VecTypeOK(D) /\ (\A t \in Threads : CallOK(t)) /\ SlotsOK

-----------------------------------------------------------------------------
(* The invariant of InternTable *)

InternTypeOK ==
  /\ shardLock \in [T!Shards -> Threads \cup {None}]
  /\ table \in [T!Shards -> SUBSET Nat]
  /\ pc \in [Threads -> {"idle", "shard", "find", "push", "pushed"}]
  /\ key \in [Threads -> Nat]
  /\ interned \subseteq Keys \X Nat

\* Where a thread is in intern, and where in the vector; from the lock of the shard to the
\* answer the shard is its own.
InternCallOK(t) ==
  /\ pc[t] \in {"idle", "shard", "push"} => vpc[t] = "idle"
  /\ pc[t] = "find" => vpc[t] \in {"open", "reading"}
  /\ pc[t] = "pushed" => /\ vpc[t] \in Held \cup {"lock", "done"}
                         /\ vop[t].op = "push" /\ vop[t].item = key[t]
  /\ pc[t] # "idle" => key[t] \in Keys
  /\ pc[t] \in {"find", "push", "pushed"} => shardLock[T!Shard(key[t])] = t

\* The numbers in a shard are of published keys of that shard, each once.
TablesOK ==
  \A s \in T!Shards :
    /\ \A v \in table[s] : v < head /\ T!Shard(slots[v + 1]) = s
    /\ \A v, w \in table[s] : slots[v + 1] = slots[w + 1] => v = w

\* A lookup sees every number of its shard, and a push is of a key its shard does not have.
LookupsOK ==
  \A t \in Threads :
    /\ pc[t] = "find" => \A v \in table[T!Shard(key[t])] : v < seen[t]
    /\ pc[t] \in {"push", "pushed"} =>
         \A v \in table[T!Shard(key[t])] : slots[v + 1] # key[t]

\* What intern has answered is in the tables.
AnswersOK == \A p \in interned : p[2] \in table[T!Shard(p[1])] /\ slots[p[2] + 1] = p[1]

InternInv ==
  /\ VecInv(Keys)
  /\ \A t \in Threads : vop[t].op # "resize"
  /\ InternTypeOK
  /\ \A t \in Threads : InternCallOK(t)
  /\ TablesOK /\ LookupsOK /\ AnswersOK

-----------------------------------------------------------------------------
(* The invariant of NotificationList *)

ListTypeOK ==
  /\ notified \in [Items -> Nat]
  /\ pc \in [Threads -> {"idle", "resize", "read", "look", "swap", "push", "taken", "clear"}]
  /\ item \in [Threads -> Nat]
  /\ batch \in [Threads -> SUBSET Items]
  /\ owed \subseteq Items

\* Where a thread is in notify or reset, and where in the vector.
ListCallOK(t) ==
  /\ pc[t] \in {"idle", "read", "push", "taken"} => vpc[t] = "idle"
  /\ pc[t] = "resize" => /\ vpc[t] \in Held \cup {"lock", "done"}
                         /\ vop[t].op = "resize" /\ vop[t].index = item[t]
  /\ pc[t] \in {"look", "clear"} => vpc[t] \in {"open", "reading"}
  /\ pc[t] = "swap" => vpc[t] = "reading"
  /\ pc[t] \in {"resize", "read", "look", "swap", "push"} => item[t] \in Items
  /\ pc[t] \in {"read", "look", "swap", "push"} => item[t] < head
  /\ pc[t] \notin {"taken", "clear"} => batch[t] = {}
  /\ vop[t].op # "none" => vop[t].item = FALSE

\* A flag is set exactly while one place reports its id.
FlagSet(i) == i < head /\ slots[i + 1]
FlagsOK ==
  /\ \A i \in Items : S!Reporters(i) = IF FlagSet(i) THEN 1 ELSE 0
  /\ \A i \in 1..Len(slots) : i > head => slots[i] = FALSE

ListInv ==
  /\ VecInv(BOOLEAN)
  /\ \A t \in Threads : vop[t].op # "push"
  /\ \A i \in 1..Len(slots) : slots[i] # Uninit
  /\ ListTypeOK
  /\ \A t \in Threads : ListCallOK(t)
  /\ FlagsOK
  /\ S!NotifiedIsReported

-----------------------------------------------------------------------------
(* next_power_of_two *)

\* A set of naturals has a least element.
LEMMA LeastOf ==
  ASSUME NEW A \in SUBSET Nat, A # {}
  PROVE  \E x \in A : \A y \in A : x <= y
<1>1. IsWellFoundedOn(OpToRel(<, Nat), Nat)
  BY NatLessThanWellFounded
<1>2. PICK x \in A : \A y \in A : ~ (<<y, x>> \in OpToRel(<, Nat))
  BY <1>1, WFMin
<1> HIDE <1>1
<1>3. \A y \in A : ~ (y < x)
  BY <1>2 DEF OpToRel
<1> QED
  BY <1>3

\* g doubles the numbers from m on until they reach n.
Doubles(n, m, g) ==
  /\ g \in [m..(2 * n) -> n..(2 * n)]
  /\ \A p \in m..(2 * n) : g[p] = IF p >= n THEN p ELSE g[2 * p]

\* Doubling ends.
LEMMA DoublingEnds ==
  ASSUME NEW n \in Nat \ {0}
  PROVE  \E g : Doubles(n, 1, g)
<1> DEFINE Bad == {k \in 0..(n - 1) : ~ \E g : Doubles(n, n - k, g)}
<1> SUFFICES ASSUME Bad # {} PROVE FALSE
  <2>1. n - 1 \in 0..(n - 1) /\ n - (n - 1) = 1
    OBVIOUS
  <2> QED
    BY <2>1
<1>1. Bad \in SUBSET Nat
  OBVIOUS
<1>2. PICK k \in Bad : \A y \in Bad : k <= y
  BY <1>1, LeastOf
<1>3. k # 0
  <2>1. Doubles(n, n - 0, [p \in n..(2 * n) |-> p])
    BY DEF Doubles
  <2> QED
    BY <2>1
<1>4. k - 1 \in 0..(n - 1) /\ k - 1 \notin Bad
  BY <1>2, <1>3
<1>5. PICK g : Doubles(n, n - (k - 1), g)
  BY <1>4
<1>6. PICK m \in 1..(n - 1) : m = n - k
  BY <1>2, <1>3
<1>7. Doubles(n, m + 1, g)
  BY <1>5, <1>6
<1> DEFINE h == [p \in m..(2 * n) |-> IF p = m THEN g[2 * m] ELSE g[p]]
<1>8. Doubles(n, m, h)
  <2>1. 2 * m \in (m + 1)..(2 * n) /\ \A p \in m..(2 * n) : p # m => p \in (m + 1)..(2 * n)
    OBVIOUS
  <2>2. \A p \in m..(2 * n) : h[p] \in n..(2 * n)
    BY <1>7, <2>1 DEF Doubles
  <2>3. \A p \in m..(2 * n) : h[p] = IF p >= n THEN p ELSE h[2 * p]
    <3> SUFFICES ASSUME NEW p \in m..(2 * n) PROVE h[p] = IF p >= n THEN p ELSE h[2 * p]
      OBVIOUS
    <3>1. CASE p = m
      BY <3>1, <2>1
    <3>2. CASE p # m
      <4>1. p < n => 2 * p \in (m + 1)..(2 * n) /\ h[2 * p] = g[2 * p]
        BY <3>2
      <4>2. p \in (m + 1)..(2 * n) /\ h[p] = g[p]
        BY <3>2
      <4> QED
        BY <1>7, <4>1, <4>2 DEF Doubles
    <3> QED
      BY <3>1, <3>2
  <2> QED
    BY <2>2, <2>3 DEF Doubles
<1> QED
  BY <1>2, <1>6, <1>8

\* next_power_of_two is no smaller than its argument.
LEMMA PowerIsLarge ==
  ASSUME NEW n \in Nat \ {0}
  PROVE  V!NextPowerOfTwo(n) \in Nat /\ V!NextPowerOfTwo(n) >= n
<1> DEFINE Unfold(f) == f = [p \in 1..2 * n |-> IF p >= n THEN p ELSE f[2 * p]]
<1>1. PICK g : Doubles(n, 1, g)
  BY DoublingEnds
<1>2. Unfold(g)
  BY <1>1 DEF Doubles
<1>3. Unfold(CHOOSE f : Unfold(f))
  BY <1>2, Zenon
<1>4. PICK f : f = (CHOOSE r : Unfold(r))
  BY Zenon
<1>5. V!NextPowerOfTwo(n) = f[1]
  BY <1>4, Zenon DEF V!NextPowerOfTwo
<1>6. \A p \in 1..(2 * n) : f[p] = IF p >= n THEN p ELSE f[2 * p]
  BY <1>3, <1>4
<1> HIDE DEF Unfold
\* The unfolding determines the function: the least distance at which it could fail.
<1> DEFINE Bad == {k \in 0..(n - 1) : f[n - k] \notin n..(2 * n)}
<1>7. Bad = {}
  <2> SUFFICES ASSUME Bad # {} PROVE FALSE
    OBVIOUS
  <2>1. Bad \in SUBSET Nat
    OBVIOUS
  <2>2. PICK k \in Bad : \A y \in Bad : k <= y
    BY <2>1, LeastOf
  <2>3. PICK p \in 1..n : p = n - k
    BY <2>2
  <2>4. f[p] \notin n..(2 * n)
    BY <2>2, <2>3
  <2>5. p < n /\ f[p] = f[2 * p]
    BY <1>6, <2>4
  <2>6. CASE 2 * p >= n
    BY <1>6, <2>4, <2>5, <2>6
  <2>7. CASE 2 * p < n
    <3>1. PICK j \in 0..(n - 1) : j = n - 2 * p
      BY <2>7
    <3>2. n - j = 2 * p /\ j < k
      BY <2>3, <3>1
    <3>3. j \in Bad
      BY <2>4, <2>5, <3>1, <3>2
    <3> QED
      BY <2>2, <3>2, <3>3
  <2> QED
    BY <2>6, <2>7
<1>8. n - (n - 1) = 1 /\ n - 1 \in 0..(n - 1)
  OBVIOUS
<1>9. f[1] \in n..(2 * n)
  BY <1>7, <1>8
<1> QED
  BY <1>5, <1>9

-----------------------------------------------------------------------------
(* Steps of the vector *)

\* Writing one slot leaves the others.
LEMMA PutIs ==
  ASSUME NEW D, NEW s \in Seq(D), NEW k \in 1..Len(s), NEW x \in D
  PROVE  /\ [s EXCEPT ![k] = x] \in Seq(D)
         /\ Len([s EXCEPT ![k] = x]) = Len(s)
         /\ \A i \in 1..Len(s) : [s EXCEPT ![k] = x][i] = IF i = k THEN x ELSE s[i]
OBVIOUS

\* What a step of thread t in the vector leaves alone.
VecFrame(t) ==
  /\ head <= head' /\ Len(slots) <= Len(slots')
  /\ \A i \in 1..head : slots'[i] = slots[i]
  /\ \A i \in 1..Len(slots') :
       \/ i <= Len(slots) /\ slots'[i] = slots[i]
       \/ slots'[i] \in {vop[t].item, Uninit}
  /\ \A u \in Threads \ {t} : vpc'[u] = vpc[u] /\ vop'[u] = vop[u]
  /\ seen' = seen
  /\ vop'[t].op = vop[t].op /\ vop'[t].item = vop[t].item
  /\ vop[t].op = "resize" => vop'[t].index = vop[t].index
  /\ \/ vpc[t] \in Held \cup {"lock"} /\ vpc'[t] \in Held \cup {"done"}
     \/ vpc[t] = "open" /\ vpc'[t] = "reading"

\* Steps that only move a thread along, as the lock is taken or given up.
LEMMA LockInv ==
  ASSUME V!VecAssumption, NEW D, VecInv(D), NEW t \in Threads, V!Lock(t)
  PROVE  VecInv(D)' /\ VecFrame(t)
<1>1. CASE vop[t].op = "resize" /\ vop[t].index < head /\ V!GotoVec(t, "done") /\ UNCHANGED <<writeLock, vop>>
  BY <1>1 DEF V!Lock, V!GotoVec, VecInv, VecTypeOK, CallOK, SlotsOK, VecFrame, Held
<1>2. CASE /\ vop[t].op = "push" \/ vop[t].index >= head
           /\ writeLock' = t
           /\ vop' = [vop EXCEPT ![t].index = IF vop[t].op = "push" THEN head ELSE @]
           /\ V!GotoVec(t, "get")
  <2>1. UNCHANGED <<slots, head, seen>> /\ vpc[t] = "lock" /\ writeLock = None
    BY DEF V!Lock
  <2>2. VecTypeOK(D)'
    BY <1>2, <2>1 DEF VecInv, VecTypeOK, V!GotoVec, Calls, Held
  <2>3. vop[t] \in Calls(D) /\ \A u \in Threads \ {t} : vop'[u] = vop[u] /\ vpc'[u] = vpc[u]
    BY <1>2 DEF VecInv, VecTypeOK, V!GotoVec
  <2>4. /\ vop'[t].op = vop[t].op /\ vop'[t].item = vop[t].item
        /\ vop'[t].index = IF vop[t].op = "push" THEN head ELSE vop[t].index
        /\ vpc'[t] = "get"
    BY <1>2, <2>3 DEF VecInv, VecTypeOK, V!GotoVec, Calls
  <2>5. \A u \in Threads : CallOK(u)'
    <3>1. CallOK(t)'
      BY <1>2, <2>1, <2>3, <2>4 DEF VecInv, VecTypeOK, CallOK, Held, Calls
    <3>2. ASSUME NEW u \in Threads \ {t} PROVE CallOK(u)'
      BY <1>2, <2>1, <2>3, <3>2 DEF VecInv, VecTypeOK, CallOK, Held, V!VecAssumption
    <3> QED
      BY <3>1, <3>2
  <2>6. SlotsOK'
    BY <2>1, <2>3, <2>4 DEF VecInv, SlotsOK
  <2>7. VecFrame(t)
    BY <2>1, <2>3, <2>4 DEF VecFrame, Held, VecInv, VecTypeOK, Calls
  <2> QED
    BY <2>2, <2>5, <2>6, <2>7 DEF VecInv
<1> QED
  BY <1>1, <1>2 DEF V!Lock

\* Steps that touch neither the slots nor a call's data.
LEMMA GetInv ==
  ASSUME NEW D, VecInv(D), NEW t \in Threads, V!Get(t) \/ V!CloseData(t) \/ V!Open(t)
  PROVE  VecInv(D)' /\ VecFrame(t)
BY DEF V!Get, V!CloseData, V!Open, V!GotoVec, VecInv, VecTypeOK, CallOK, SlotsOK, VecFrame, Held

\* Growing keeps what is there, and makes room.
LEMMA GrowInv ==
  ASSUME NEW D, VecInv(D), NEW t \in Threads, V!Grow(t)
  PROVE  VecInv(D)' /\ VecFrame(t)
<1> DEFINE n == vop[t].index + 1
           fill == IF vop[t].op = "push" THEN Uninit ELSE vop[t].item
<1>1. /\ vpc[t] = "drain" /\ V!GotoVec(t, "get")
      /\ UNCHANGED <<head, writeLock, vop, seen>>
      /\ slots' = IF n - 1 >= Len(slots)
                  THEN V!Resize(slots, V!NextPowerOfTwo(n), fill) ELSE slots
  BY DEF V!Grow, VecInv, VecTypeOK, Calls
<1>2. n \in Nat \ {0} /\ fill \in D \cup {Uninit} /\ slots \in Seq(D \cup {Uninit})
  BY DEF VecInv, VecTypeOK, Calls
<1> HIDE DEF n, fill
<1>3. /\ slots' \in Seq(D \cup {Uninit})
      /\ Len(slots) <= Len(slots')
      /\ \A i \in 1..Len(slots') : slots'[i] = IF i <= Len(slots) THEN slots[i] ELSE fill
  <2>1. CASE n - 1 >= Len(slots)
    <3>1. PICK p \in Nat : p = V!NextPowerOfTwo(n) /\ p >= n
      BY <1>2, PowerIsLarge
    <3>2. slots' = V!Resize(slots, p, fill)
      BY <1>1, <2>1, <3>1
    <3>3. PICK E : E = D \cup {Uninit}
      OBVIOUS
    <3>4. slots \in Seq(E) /\ fill \in E
      BY <1>2, <3>3
    <3>5. /\ slots' \in Seq(E)
          /\ Len(slots') = p
          /\ \A i \in 1..p : slots'[i] = IF i <= Len(slots) THEN slots[i] ELSE fill
      <4>1. slots' = [i \in 1..p |-> IF i <= Len(slots) THEN slots[i] ELSE fill]
        BY <3>2 DEF V!Resize
      <4>2. slots' \in [1..p -> E]
        BY <3>4, <4>1
      <4> QED
        BY <3>4, <4>1, <4>2
    <3> QED
      BY <1>2, <2>1, <3>1, <3>2, <3>3, <3>5
  <2>2. CASE ~ (n - 1 >= Len(slots))
    BY <1>1, <1>2, <2>2
  <2> QED
    BY <2>1, <2>2
<1>4. Len(slots) \in Nat /\ Len(slots') \in Nat /\ head \in Nat /\ head <= Len(slots)
  BY <1>3 DEF VecInv, VecTypeOK
<1>5. \A i \in 1..Len(slots) : slots'[i] = slots[i]
  BY <1>3, <1>4
<1>6. VecTypeOK(D)'
  BY <1>1, <1>3, <1>4 DEF VecInv, VecTypeOK, V!GotoVec, Held
<1>7. \A u \in Threads \ {t} : vpc'[u] = vpc[u]
  BY <1>1 DEF VecInv, VecTypeOK, V!GotoVec
<1>8. vpc'[t] = "get"
  BY <1>1 DEF VecInv, VecTypeOK, V!GotoVec
<1>9. \A u \in Threads : CallOK(u)'
  <2>1. CallOK(t)'
    BY <1>1, <1>8 DEF VecInv, CallOK, Held
  <2>2. ASSUME NEW u \in Threads \ {t} PROVE CallOK(u)'
    <3>1. CallOK(u) /\ vop[u].index \in Nat
      BY DEF VecInv, VecTypeOK, Calls
    <3>2. vop[u].index < Len(slots) => slots'[vop[u].index + 1] = slots[vop[u].index + 1]
      BY <1>4, <1>5, <3>1
    <3> QED
      BY <1>1, <1>3, <1>4, <1>7, <3>1, <3>2 DEF CallOK
  <2> QED
    BY <2>1, <2>2
<1>10. SlotsOK'
  <2>1. \A i \in 1..head : slots'[i] = slots[i]
    BY <1>4, <1>5
  <2>2. vop[t].op # "push" => fill # Uninit
    BY <1>1 DEF fill, VecInv, CallOK, Held
  <2> QED
    BY <1>1, <1>3, <1>4, <2>1, <2>2 DEF VecInv, SlotsOK
<1>11. VecFrame(t)
  <2>1. \A i \in 1..head : slots'[i] = slots[i]
    BY <1>4, <1>5
  <2>2. \A i \in 1..Len(slots') :
          (i <= Len(slots) /\ slots'[i] = slots[i]) \/ slots'[i] \in {vop[t].item, Uninit}
    BY <1>3 DEF fill
  <2> QED
    BY <1>1, <1>3, <1>4, <1>7, <1>8, <2>1, <2>2 DEF VecFrame, Held
<1> QED
  BY <1>6, <1>9, <1>10, <1>11 DEF VecInv

\* The holder of write_lock writes at or after head.
LEMMA WriteInv ==
  ASSUME V!VecAssumption, NEW D, VecInv(D), NEW t \in Threads, V!Write(t)
  PROVE  VecInv(D)' /\ VecFrame(t)
<1> DEFINE k == vop[t].index + 1
<1>1. /\ vpc[t] = "write" /\ vpc' = [vpc EXCEPT ![t] = "publish"]
      /\ UNCHANGED <<head, writeLock, vop, seen>>
      /\ slots' = [slots EXCEPT ![k] = vop[t].item]
  BY DEF V!Write, V!GotoVec
<1>2. k \in 1..Len(slots) /\ k > head /\ vop[t].item \in D \cup {Uninit} /\ vop[t].item # Uninit
      /\ slots \in Seq(D \cup {Uninit}) /\ head \in Nat /\ vop[t].index \in Nat
  BY <1>1 DEF VecInv, VecTypeOK, CallOK, Held, Calls
<1>3. /\ slots' \in Seq(D \cup {Uninit})
      /\ Len(slots') = Len(slots)
      /\ \A i \in 1..Len(slots) : slots'[i] = IF i = k THEN vop[t].item ELSE slots[i]
  BY <1>1, <1>2, PutIs
<1> HIDE DEF k
<1>4. vpc'[t] = "publish" /\ \A u \in Threads \ {t} : vpc'[u] = vpc[u]
  BY <1>1 DEF VecInv, VecTypeOK
<1>5. VecTypeOK(D)'
  BY <1>1, <1>3 DEF VecInv, VecTypeOK, Held
<1>6. Len(slots) \in Nat /\ head <= Len(slots) /\ \A i \in 1..head : slots'[i] = slots[i]
  BY <1>2, <1>3 DEF VecInv, VecTypeOK
<1>7. \A u \in Threads : CallOK(u)'
  <2>1. CallOK(t)'
    BY <1>1, <1>2, <1>3, <1>4 DEF VecInv, CallOK, Held, k
  <2>2. ASSUME NEW u \in Threads \ {t} PROVE CallOK(u)'
    <3>1. CallOK(u) /\ vpc[u] \notin Held /\ vop[u].index \in Nat
      BY <1>1 DEF VecInv, VecTypeOK, CallOK, Held, Calls
    <3>2. vop[u].index < head => slots'[vop[u].index + 1] = slots[vop[u].index + 1]
      BY <1>2, <1>6, <3>1
    <3> QED
      BY <1>1, <1>3, <1>4, <3>1, <3>2 DEF CallOK, Held
  <2> QED
    BY <2>1, <2>2
<1>8. SlotsOK'
  BY <1>1, <1>2, <1>3, <1>6 DEF VecInv, SlotsOK
<1>9. VecFrame(t)
  BY <1>1, <1>2, <1>3, <1>4, <1>6 DEF VecFrame, Held
<1> QED
  BY <1>5, <1>7, <1>8, <1>9 DEF VecInv

\* What is published has been written.
LEMMA PublishInv ==
  ASSUME V!VecAssumption, NEW D, VecInv(D), NEW t \in Threads, V!Publish(t)
  PROVE  VecInv(D)' /\ VecFrame(t)
<1>1. /\ vpc[t] = "publish" /\ vpc' = [vpc EXCEPT ![t] = "done"]
      /\ UNCHANGED <<slots, vop, seen>>
      /\ head' = vop[t].index + 1 /\ writeLock' = None
  BY DEF V!Publish, V!GotoVec
<1>2. /\ vop[t].index \in Nat /\ head \in Nat /\ vop[t].index < Len(slots) /\ head <= vop[t].index
      /\ Len(slots) \in Nat
      /\ slots[vop[t].index + 1] = vop[t].item /\ vop[t].item # Uninit
      /\ vop[t].op \in {"push", "resize"} /\ (vop[t].op = "push" => vop[t].index = head)
  BY <1>1 DEF VecInv, VecTypeOK, CallOK, Held, Calls
<1>3. vpc'[t] = "done" /\ \A u \in Threads \ {t} : vpc'[u] = vpc[u]
  BY <1>1 DEF VecInv, VecTypeOK
<1>4. VecTypeOK(D)'
  BY <1>1, <1>2 DEF VecInv, VecTypeOK, Held
<1>5. \A u \in Threads : CallOK(u)'
  <2>1. CallOK(t)'
    BY <1>1, <1>2, <1>3 DEF VecInv, VecTypeOK, CallOK, Held
  <2>2. ASSUME NEW u \in Threads \ {t} PROVE CallOK(u)'
    <3>1. CallOK(u) /\ vpc[u] \notin Held /\ vop[u].index \in Nat /\ seen[u] \in Nat
      BY <1>1 DEF VecInv, VecTypeOK, CallOK, Held, Calls
    <3> QED
      BY <1>1, <1>2, <1>3, <3>1 DEF CallOK, Held
  <2> QED
    BY <2>1, <2>2
<1>6. SlotsOK'
  <2>1. CASE \A u \in Threads : vop[u].op # "resize"
    BY <1>1, <1>2, <2>1 DEF VecInv, SlotsOK
  <2>2. CASE /\ \A u \in Threads : vop[u].op # "push"
             /\ \A i \in 1..Len(slots) : slots[i] # Uninit
    BY <1>1, <1>2, <2>2 DEF VecInv, SlotsOK
  <2> QED
    BY <2>1, <2>2 DEF VecInv, SlotsOK
<1>7. VecFrame(t)
  BY <1>1, <1>2, <1>3 DEF VecFrame, Held, VecInv, VecTypeOK
<1> QED
  BY <1>4, <1>5, <1>6, <1>7 DEF VecInv

\* Every step of push, resize_with and read keeps the invariant of the vector.
LEMMA VecStepInv ==
  ASSUME V!VecAssumption, NEW D, VecInv(D), NEW t \in Threads, V!VecStep(t)
  PROVE  VecInv(D)' /\ VecFrame(t)
BY LockInv, GetInv, GrowInv, WriteInv, PublishInv DEF V!VecStep

-----------------------------------------------------------------------------
(* Calls of the vector *)

\* Taking and dropping a read handle.
LEMMA ReadInv ==
  ASSUME NEW D, VecInv(D), NEW t \in Threads, V!CallRead(t) \/ V!Close(t)
  PROVE  VecInv(D)'
<1>1. PICK n \in Nat, p \in {"open", "idle"} :
        /\ n <= head
        /\ seen' = [seen EXCEPT ![t] = n] /\ vpc' = [vpc EXCEPT ![t] = p]
        /\ UNCHANGED <<slots, head, writeLock, vop>>
  <2>1. CASE V!CallRead(t)
    <3>1. /\ head \in Nat /\ head <= head
          /\ seen' = [seen EXCEPT ![t] = head] /\ vpc' = [vpc EXCEPT ![t] = "open"]
          /\ UNCHANGED <<slots, head, writeLock, vop>>
      BY <2>1 DEF V!CallRead, V!GotoVec, VecInv, VecTypeOK
    <3> QED
      BY <3>1
  <2>2. CASE V!Close(t)
    <3>1. /\ 0 \in Nat /\ 0 <= head
          /\ seen' = [seen EXCEPT ![t] = 0] /\ vpc' = [vpc EXCEPT ![t] = "idle"]
          /\ UNCHANGED <<slots, head, writeLock, vop>>
      BY <2>2 DEF V!Close, V!GotoVec, VecInv, VecTypeOK
    <3> QED
      BY <3>1
  <2> QED
    BY <2>1, <2>2
<1>2. VecTypeOK(D)'
  BY <1>1 DEF VecInv, VecTypeOK
<1>3. /\ seen'[t] = n /\ vpc'[t] = p
      /\ \A u \in Threads \ {t} : seen'[u] = seen[u] /\ vpc'[u] = vpc[u]
  BY <1>1 DEF VecInv, VecTypeOK
<1>4. \A u \in Threads : CallOK(u)'
  BY <1>1, <1>3 DEF VecInv, CallOK, Held
<1>5. SlotsOK'
  BY <1>1 DEF VecInv, SlotsOK
<1> QED
  BY <1>2, <1>4, <1>5 DEF VecInv

\* A call has returned.
LEMMA ReturnInv ==
  ASSUME NEW D, VecInv(D), NEW t \in Threads, V!Return(t)
  PROVE  VecInv(D)'
<1>1. /\ vop' = [vop EXCEPT ![t] = V!NoOp] /\ vpc' = [vpc EXCEPT ![t] = "idle"]
      /\ UNCHANGED <<slots, head, writeLock, seen>>
  BY DEF V!Return, V!GotoVec
<1>2. V!NoOp \in Calls(D) /\ V!NoOp.op = "none"
  BY DEF V!NoOp, Calls
<1>3. VecTypeOK(D)'
  BY <1>1, <1>2 DEF VecInv, VecTypeOK
<1>4. /\ vop'[t].op = "none" /\ vpc'[t] = "idle"
      /\ \A u \in Threads \ {t} : vop'[u] = vop[u] /\ vpc'[u] = vpc[u]
  BY <1>1, <1>2 DEF VecInv, VecTypeOK
<1>5. \A u \in Threads : CallOK(u)'
  BY <1>1, <1>4 DEF VecInv, CallOK, Held
<1>6. SlotsOK'
  BY <1>1, <1>4 DEF VecInv, SlotsOK
<1> QED
  BY <1>3, <1>5, <1>6 DEF VecInv

\* A push begins, of a vector that is only pushed to.
LEMMA CallPushInv ==
  ASSUME NEW D, VecInv(D), NEW t \in Threads, NEW x \in D, x # Uninit, V!CallPush(t, x),
         \A u \in Threads : vop[u].op # "resize"
  PROVE  VecInv(D)' /\ vop'[t].op = "push" /\ vop'[t].item = x
<1> DEFINE c == [op |-> "push", item |-> x, index |-> 0]
<1>1. /\ vop' = [vop EXCEPT ![t] = c] /\ vpc' = [vpc EXCEPT ![t] = "lock"]
      /\ UNCHANGED <<slots, head, writeLock, seen>>
  BY DEF V!CallPush, V!GotoVec
<1>2. c \in Calls(D) /\ c.op = "push" /\ c.item = x
  BY DEF Calls
<1> HIDE DEF c
<1>3. VecTypeOK(D)'
  BY <1>1, <1>2 DEF VecInv, VecTypeOK
<1>4. /\ vop'[t] = c /\ vpc'[t] = "lock"
      /\ \A u \in Threads \ {t} : vop'[u] = vop[u] /\ vpc'[u] = vpc[u]
  BY <1>1, <1>2 DEF VecInv, VecTypeOK
<1>5. \A u \in Threads : CallOK(u)'
  BY <1>1, <1>2, <1>4 DEF VecInv, CallOK, Held
<1>6. SlotsOK'
  BY <1>1, <1>2, <1>4 DEF VecInv, SlotsOK
<1> QED
  BY <1>2, <1>3, <1>4, <1>5, <1>6 DEF VecInv

\* A resize_with begins, of a vector that is only resized.
LEMMA CallResizeInv ==
  ASSUME NEW D, VecInv(D), NEW t \in Threads, NEW n \in Nat, NEW x \in D, x # Uninit,
         NEW m \in Nat, m = n + 1, V!CallResize(t, m, x),
         \A u \in Threads : vop[u].op # "push",
         \A i \in 1..Len(slots) : slots[i] # Uninit
  PROVE  /\ VecInv(D)'
         /\ vop'[t].op = "resize" /\ vop'[t].item = x /\ vop'[t].index = n
         /\ vpc'[t] \in {"lock", "done"}
         /\ \A u \in Threads \ {t} : vop'[u] = vop[u] /\ vpc'[u] = vpc[u]
<1>0. m - 1 = n
  OBVIOUS
<1> DEFINE c == [op |-> "resize", item |-> x, index |-> m - 1]
           p == IF m <= head THEN "done" ELSE "lock"
<1>1. /\ vop' = [vop EXCEPT ![t] = c] /\ vpc' = [vpc EXCEPT ![t] = p]
      /\ UNCHANGED <<slots, head, writeLock, seen>>
  BY DEF V!CallResize, V!GotoVec
<1>2. c \in Calls(D) /\ c.op = "resize" /\ c.item = x /\ c.index = n
  BY <1>0 DEF Calls
<1>3. p \in {"lock", "done"} /\ (p = "done" => n < head)
  BY <1>0 DEF VecInv, VecTypeOK
<1> HIDE DEF c, p
<1>4. VecTypeOK(D)'
  BY <1>1, <1>2, <1>3 DEF VecInv, VecTypeOK
<1>5. /\ vop'[t] = c /\ vpc'[t] = p
      /\ \A u \in Threads \ {t} : vop'[u] = vop[u] /\ vpc'[u] = vpc[u]
  BY <1>1, <1>2 DEF VecInv, VecTypeOK
<1>6. \A u \in Threads : CallOK(u)'
  BY <1>1, <1>2, <1>3, <1>5 DEF VecInv, CallOK, Held
<1>7. SlotsOK'
  BY <1>1, <1>2, <1>5 DEF VecInv, SlotsOK
<1> QED
  BY <1>2, <1>3, <1>4, <1>5, <1>6, <1>7 DEF VecInv

\* The vector is empty at first.
LEMMA VecInitInv ==
  ASSUME NEW D, V!InitVec
  PROVE  VecInv(D) /\ \A t \in Threads : vpc[t] = "idle" /\ vop[t].op = "none"
<1>1. \A t \in Threads : vpc[t] = "idle" /\ vop[t] = V!NoOp /\ seen[t] = 0
  BY DEF V!InitVec
<1>2. V!NoOp \in Calls(D) /\ V!NoOp.op = "none"
  BY DEF V!NoOp, Calls
<1>3. slots \in Seq(D \cup {Uninit}) /\ Len(slots) = 0 /\ head = 0
  BY DEF V!InitVec
<1>4. VecTypeOK(D)
  BY <1>2, <1>3 DEF V!InitVec, VecTypeOK
<1>5. \A t \in Threads : CallOK(t)
  <2> SUFFICES ASSUME NEW t \in Threads PROVE CallOK(t)
    OBVIOUS
  <2>1. vpc[t] = "idle" /\ seen[t] <= head
    BY <1>1, <1>3
  <2> QED
    BY <2>1 DEF CallOK, Held
<1>6. SlotsOK
  BY <1>1, <1>2, <1>3 DEF SlotsOK
<1> QED
  BY <1>1, <1>2, <1>4, <1>5, <1>6 DEF VecInv

-----------------------------------------------------------------------------
(* InternTable *)

\* Shards are numbered from 0.
LEMMA ShardIs ==
  ASSUME T!InternAssumption, NEW k \in Nat
  PROVE  T!Shard(k) \in T!Shards
BY DEF T!InternAssumption, T!Shard, T!Shards

\* The table is empty at first.
LEMMA InternInit ==
  ASSUME T!InternAssumption, T!Init
  PROVE  InternInv
<1>1. V!InitVec
  BY DEF T!Init, T!InitVec, V!InitVec, T!NoOp, V!NoOp
<1>2. VecInv(Keys) /\ \A t \in Threads : vpc[t] = "idle" /\ vop[t].op = "none"
  BY <1>1, VecInitInv
<1>3. /\ \A t \in Threads : pc[t] = "idle"
      /\ \A s \in T!Shards : table[s] = {}
      /\ interned = {} /\ InternTypeOK
  BY DEF T!Init, InternTypeOK
<1> QED
  BY <1>2, <1>3 DEF InternInv, InternCallOK, TablesOK, LookupsOK, AnswersOK

\* A step in the vector: published keys stay where they are.
LEMMA InternVecStep ==
  ASSUME T!InternAssumption, InternInv, NEW t \in Threads, T!VecStep(t), UNCHANGED T!internVars
  PROVE  InternInv'
<1>1. V!VecStep(t)
  BY DEF T!VecStep, V!VecStep, T!Lock, V!Lock, T!Get, V!Get, T!CloseData, V!CloseData,
     T!Grow, V!Grow, T!Write, V!Write, T!Publish, V!Publish, T!Open, V!Open,
     T!GotoVec, V!GotoVec, T!Closed, V!Closed, T!Resize, V!Resize,
     T!NextPowerOfTwo, V!NextPowerOfTwo
<1>2. VecInv(Keys)' /\ VecFrame(t)
  BY <1>1, VecStepInv DEF InternInv, T!InternAssumption, T!VecAssumption, V!VecAssumption
<1>3. UNCHANGED <<shardLock, table, pc, key, interned>>
  BY DEF T!internVars
<1>4. head \in Nat /\ head' \in Nat /\ head <= head'
  BY <1>2 DEF InternInv, VecInv, VecTypeOK, VecFrame
<1>5. \A v \in Nat : v < head => slots'[v + 1] = slots[v + 1]
  BY <1>2, <1>4 DEF VecFrame
<1>6. \A u \in Threads : vop'[u].op = vop[u].op /\ vop'[u].item = vop[u].item
  BY <1>2 DEF VecFrame
<1>7. \A u \in Threads : InternCallOK(u)'
  BY <1>2, <1>3, <1>6 DEF InternInv, InternCallOK, VecFrame, Held
<1>8. \A s \in T!Shards : \A v \in table[s] : v \in Nat /\ v < head
  BY DEF InternInv, InternTypeOK, TablesOK
<1>9. TablesOK'
  BY <1>3, <1>4, <1>5, <1>8 DEF InternInv, TablesOK
<1>10. LookupsOK'
  <2>1. \A u \in Threads : T!Shard(key[u]) \in T!Shards
    BY ShardIs DEF InternInv, InternTypeOK
  <2> QED
    BY <1>2, <1>3, <1>5, <1>8, <2>1 DEF InternInv, LookupsOK, VecFrame
<1>11. AnswersOK'
  <2>1. \A p \in interned : p[2] \in Nat /\ T!Shard(p[1]) \in T!Shards
    BY ShardIs DEF InternInv, InternTypeOK, T!InternAssumption
  <2> QED
    BY <1>3, <1>5, <1>8, <2>1 DEF InternInv, AnswersOK
<1> QED
  BY <1>2, <1>3, <1>6, <1>7, <1>9, <1>10, <1>11 DEF InternInv, InternTypeOK

\* intern is called.
LEMMA CallInternInv ==
  ASSUME T!InternAssumption, InternInv, NEW t \in Threads, T!CallIntern(t)
  PROVE  InternInv'
<1>1. PICK k \in Keys : key' = [key EXCEPT ![t] = k]
  BY DEF T!CallIntern
<1>2. /\ pc[t] = "idle" /\ pc' = [pc EXCEPT ![t] = "shard"]
      /\ UNCHANGED <<slots, head, writeLock, vpc, vop, seen, shardLock, table, interned>>
  BY DEF T!CallIntern, T!Goto, T!vecVars
<1>3. VecInv(Keys)'
  BY <1>2 DEF InternInv, VecInv, VecTypeOK, CallOK, SlotsOK
<1>4. k \in Nat
  BY DEF T!InternAssumption
<1>5. InternTypeOK'
  BY <1>1, <1>2, <1>4 DEF InternInv, InternTypeOK
<1>6. /\ pc'[t] = "shard" /\ key'[t] = k
      /\ \A u \in Threads \ {t} : pc'[u] = pc[u] /\ key'[u] = key[u]
  BY <1>1, <1>2 DEF InternInv, InternTypeOK
<1>7. \A u \in Threads : InternCallOK(u)'
  BY <1>2, <1>6 DEF InternInv, InternCallOK
<1>8. TablesOK' /\ LookupsOK' /\ AnswersOK'
  BY <1>2, <1>6 DEF InternInv, TablesOK, LookupsOK, AnswersOK
<1> QED
  BY <1>2, <1>3, <1>5, <1>7, <1>8 DEF InternInv

\* The shard is locked before its read handle is taken, so that the prefix covers its numbers.
LEMMA LockShardInv ==
  ASSUME T!InternAssumption, InternInv, NEW t \in Threads, T!LockShard(t)
  PROVE  InternInv'
<1> DEFINE s == T!Shard(key[t])
<1>1. /\ pc[t] = "shard" /\ pc' = [pc EXCEPT ![t] = "find"]
      /\ shardLock[s] = None /\ shardLock' = [shardLock EXCEPT ![s] = t]
      /\ V!CallRead(t)
      /\ UNCHANGED <<table, key, interned>>
  BY DEF T!LockShard, T!Goto, T!CallRead, V!CallRead, T!GotoVec, V!GotoVec
<1>2. VecInv(Keys)'
  BY <1>1, ReadInv DEF InternInv
<1>3. /\ UNCHANGED <<slots, head, vop>> /\ vpc'[t] = "open" /\ seen'[t] = head
      /\ \A u \in Threads \ {t} : vpc'[u] = vpc[u] /\ seen'[u] = seen[u]
  BY <1>1 DEF V!CallRead, V!GotoVec, InternInv, VecInv, VecTypeOK
<1>4. s \in T!Shards /\ \A u \in Threads : T!Shard(key[u]) \in T!Shards
  BY ShardIs DEF InternInv, InternTypeOK
<1> HIDE DEF s
<1>5. /\ pc'[t] = "find" /\ \A u \in Threads \ {t} : pc'[u] = pc[u]
      /\ shardLock'[s] = t /\ \A r \in T!Shards \ {s} : shardLock'[r] = shardLock[r]
  BY <1>1, <1>4 DEF InternInv, InternTypeOK
<1>6. InternTypeOK'
  BY <1>1, <1>4 DEF InternInv, InternTypeOK
<1>7. None \notin Threads
  BY DEF T!InternAssumption, T!VecAssumption
<1>8. \A u \in Threads : InternCallOK(u)'
  <2>1. InternCallOK(t)'
    BY <1>1, <1>3, <1>5 DEF InternInv, InternCallOK, s
  <2>2. ASSUME NEW u \in Threads \ {t} PROVE InternCallOK(u)'
    BY <1>1, <1>3, <1>4, <1>5, <1>7 DEF InternInv, InternCallOK
  <2> QED
    BY <2>1, <2>2
<1>9. TablesOK' /\ AnswersOK'
  BY <1>1, <1>3 DEF InternInv, TablesOK, AnswersOK
<1>10. LookupsOK'
  <2>1. \A v \in table[s] : v < head
    BY <1>4 DEF InternInv, TablesOK
  <2> QED
    BY <1>1, <1>3, <1>5, <2>1 DEF InternInv, LookupsOK, s
<1> QED
  BY <1>2, <1>3, <1>6, <1>8, <1>9, <1>10 DEF InternInv

\* The answer of intern, for a number that its shard has.
LEMMA AnswerInv ==
  ASSUME T!InternAssumption, InternInv, NEW t \in Threads, pc[t] \in {"find", "pushed"},
         NEW v \in Nat, T!Answer(t, v), VecInv(Keys)',
         UNCHANGED <<slots, head, key>>, vpc'[t] = "idle",
         \A u \in Threads \ {t} : vpc'[u] = vpc[u] /\ vop'[u] = vop[u] /\ seen'[u] = seen[u],
         vop'[t].op # "resize",
         table' \in [T!Shards -> SUBSET Nat], TablesOK',
         \A r \in T!Shards \ {T!Shard(key[t])} : table'[r] = table[r],
         \A w \in table[T!Shard(key[t])] : w \in table'[T!Shard(key[t])],
         v \in table'[T!Shard(key[t])], slots[v + 1] = key[t]
  PROVE  InternInv'
<1> DEFINE s == T!Shard(key[t])
<1>1. /\ interned' = interned \cup {<<key[t], v>>}
      /\ shardLock' = [shardLock EXCEPT ![s] = None]
      /\ pc' = [pc EXCEPT ![t] = "idle"]
  BY DEF T!Answer, T!Goto
<1>2. /\ key[t] \in Keys /\ s \in T!Shards /\ shardLock[s] = t
      /\ \A u \in Threads : T!Shard(key[u]) \in T!Shards
  BY ShardIs DEF InternInv, InternTypeOK, InternCallOK
<1> HIDE DEF s
<1>3. /\ pc'[t] = "idle" /\ \A u \in Threads \ {t} : pc'[u] = pc[u]
      /\ \A r \in T!Shards \ {s} : shardLock'[r] = shardLock[r]
  BY <1>1, <1>2 DEF InternInv, InternTypeOK
<1>4. InternTypeOK'
  BY <1>1, <1>2 DEF InternInv, InternTypeOK
<1>5. ASSUME NEW u \in Threads \ {t}, pc[u] \in {"find", "push", "pushed"}
      PROVE  T!Shard(key[u]) \in T!Shards \ {s}
  BY <1>2, <1>5 DEF InternInv, InternCallOK
<1>6. \A u \in Threads : InternCallOK(u)'
  <2>1. InternCallOK(t)'
    BY <1>3 DEF InternCallOK
  <2>2. ASSUME NEW u \in Threads \ {t} PROVE InternCallOK(u)'
    BY <1>3, <1>5 DEF InternInv, InternCallOK
  <2> QED
    BY <2>1, <2>2
<1>7. LookupsOK'
  <2>1. ASSUME NEW u \in Threads \ {t}, pc[u] \in {"find", "push", "pushed"}
        PROVE  table'[T!Shard(key[u])] = table[T!Shard(key[u])]
    BY <1>5, <2>1 DEF s
  <2> SUFFICES ASSUME NEW u \in Threads
               PROVE  /\ pc'[u] = "find" => \A w \in table'[T!Shard(key[u])] : w < seen'[u]
                      /\ pc'[u] \in {"push", "pushed"} =>
                           \A w \in table'[T!Shard(key[u])] : slots[w + 1] # key[u]
    BY DEF LookupsOK
  <2>2. CASE u = t
    BY <1>3, <2>2
  <2>3. CASE u # t
    <3>1. pc'[u] = pc[u] /\ seen'[u] = seen[u]
      BY <1>3, <2>3
    <3>2. /\ pc[u] = "find" => \A w \in table[T!Shard(key[u])] : w < seen[u]
          /\ pc[u] \in {"push", "pushed"} =>
               \A w \in table[T!Shard(key[u])] : slots[w + 1] # key[u]
      BY DEF InternInv, LookupsOK
    <3> QED
      BY <2>1, <2>3, <3>1, <3>2
  <2> QED
    BY <2>2, <2>3
<1>8. AnswersOK'
  <2> SUFFICES ASSUME NEW p \in interned'
               PROVE  p[2] \in table'[T!Shard(p[1])] /\ slots[p[2] + 1] = p[1]
    BY DEF AnswersOK
  <2>1. CASE p = <<key[t], v>>
    BY <2>1
  <2>2. CASE p \in interned
    <3>1. T!Shard(p[1]) \in T!Shards
      BY <2>2, ShardIs DEF InternInv, InternTypeOK, T!InternAssumption
    <3>2. p[2] \in table[T!Shard(p[1])] /\ slots[p[2] + 1] = p[1]
      BY <2>2 DEF InternInv, AnswersOK
    <3> QED
      BY <3>1, <3>2
  <2> QED
    BY <1>1, <2>1, <2>2
<1>9. \A u \in Threads : vop'[u].op # "resize"
  BY DEF InternInv
<1> QED
  BY <1>4, <1>6, <1>7, <1>8, <1>9 DEF InternInv

\* A lookup answers, or finds that its shard does not have the key.
LEMMA FindInv ==
  ASSUME T!InternAssumption, InternInv, NEW t \in Threads, T!Find(t)
  PROVE  InternInv'
<1> DEFINE s == T!Shard(key[t])
           same == {v \in table[s] : slots[v + 1] = key[t]}
<1>1. /\ pc[t] = "find" /\ V!Close(t) /\ UNCHANGED <<table, key>>
  BY DEF T!Find, T!Close, V!Close, T!GotoVec, V!GotoVec
<1>2. VecInv(Keys)'
  BY <1>1, ReadInv DEF InternInv
<1>3. /\ UNCHANGED <<slots, head, vop>> /\ vpc'[t] = "idle"
      /\ \A u \in Threads \ {t} : vpc'[u] = vpc[u] /\ seen'[u] = seen[u]
  BY <1>1 DEF V!Close, V!GotoVec, InternInv, VecInv, VecTypeOK
<1>4. s \in T!Shards /\ table[s] \subseteq Nat
  BY ShardIs DEF InternInv, InternTypeOK
<1>5. CASE same # {}
  <2>1. PICK v \in same : T!Answer(t, v)
    BY <1>5 DEF T!Find
  <2>2. TablesOK' /\ table' \in [T!Shards -> SUBSET Nat]
    BY <1>1, <1>3 DEF InternInv, TablesOK, InternTypeOK
  <2>3. vop'[t].op # "resize"
    BY <1>3 DEF InternInv
  <2>4. v \in Nat /\ v \in table'[s] /\ slots[v + 1] = key[t]
    BY <1>1, <1>4, <2>1
  <2> QED
    BY <1>1, <1>2, <1>3, <2>1, <2>2, <2>3, <2>4, AnswerInv
<1>6. CASE same = {}
  <2>1. pc' = [pc EXCEPT ![t] = "push"] /\ UNCHANGED <<shardLock, interned>>
    BY <1>6 DEF T!Find, T!Goto
  <2>2. InternTypeOK'
    BY <1>1, <2>1 DEF InternInv, InternTypeOK
  <2>3. pc'[t] = "push" /\ \A u \in Threads \ {t} : pc'[u] = pc[u]
    BY <2>1 DEF InternInv, InternTypeOK
  <2>4. \A u \in Threads : InternCallOK(u)'
    BY <1>1, <1>3, <2>1, <2>3 DEF InternInv, InternCallOK
  <2>5. TablesOK' /\ AnswersOK'
    BY <1>1, <1>3, <2>1 DEF InternInv, TablesOK, AnswersOK
  <2>6. LookupsOK'
    BY <1>1, <1>3, <1>6, <2>3 DEF InternInv, LookupsOK
  <2> QED
    BY <1>2, <1>3, <2>2, <2>4, <2>5, <2>6 DEF InternInv
<1> QED
  BY <1>5, <1>6

\* The push of a key that its shard does not have.
LEMMA PushInv ==
  ASSUME T!InternAssumption, InternInv, NEW t \in Threads, T!Push(t)
  PROVE  InternInv'
<1>1. /\ pc[t] = "push" /\ pc' = [pc EXCEPT ![t] = "pushed"]
      /\ V!CallPush(t, key[t])
      /\ UNCHANGED <<shardLock, table, key, interned>>
  BY DEF T!Push, T!Goto, T!CallPush, V!CallPush, T!GotoVec, V!GotoVec
<1>2. key[t] \in Keys /\ key[t] # Uninit
  BY <1>1 DEF InternInv, InternCallOK, T!InternAssumption
<1>3. VecInv(Keys)' /\ vop'[t].op = "push" /\ vop'[t].item = key[t]
  BY <1>1, <1>2, CallPushInv DEF InternInv
<1>4. /\ UNCHANGED <<slots, head, seen>> /\ vpc'[t] = "lock"
      /\ \A u \in Threads \ {t} : vpc'[u] = vpc[u] /\ vop'[u] = vop[u]
  BY <1>1 DEF V!CallPush, V!GotoVec, InternInv, VecInv, VecTypeOK
<1>5. InternTypeOK'
  BY <1>1 DEF InternInv, InternTypeOK
<1>6. pc'[t] = "pushed" /\ \A u \in Threads \ {t} : pc'[u] = pc[u]
  BY <1>1 DEF InternInv, InternTypeOK
<1>7. \A u \in Threads : InternCallOK(u)'
  BY <1>1, <1>3, <1>4, <1>6 DEF InternInv, InternCallOK, Held
<1>8. TablesOK' /\ AnswersOK' /\ LookupsOK'
  BY <1>1, <1>4, <1>6 DEF InternInv, TablesOK, AnswersOK, LookupsOK
<1>9. \A u \in Threads : vop'[u].op # "resize"
  BY <1>3, <1>4 DEF InternInv
<1> QED
  BY <1>3, <1>5, <1>7, <1>8, <1>9 DEF InternInv

\* The number of the pushed key enters the shard's table.
LEMMA PushedInv ==
  ASSUME T!InternAssumption, InternInv, NEW t \in Threads, T!Pushed(t)
  PROVE  InternInv'
<1> DEFINE s == T!Shard(key[t])
<1>1. PICK v \in Nat : v = vop[t].index
  BY DEF InternInv, VecInv, VecTypeOK, Calls
<1>2. /\ pc[t] = "pushed" /\ vpc[t] = "done" /\ V!Return(t) /\ key' = key
      /\ table' = [table EXCEPT ![s] = @ \cup {v}] /\ T!Answer(t, v)
  BY <1>1 DEF T!Pushed, T!Return, V!Return, T!GotoVec, V!GotoVec, T!NoOp, V!NoOp
<1>3. VecInv(Keys)'
  BY <1>2, ReturnInv DEF InternInv
<1>4. /\ UNCHANGED <<slots, head, seen>> /\ vpc'[t] = "idle" /\ vop'[t].op = "none"
      /\ \A u \in Threads \ {t} : vpc'[u] = vpc[u] /\ vop'[u] = vop[u]
  BY <1>2 DEF V!Return, V!GotoVec, V!NoOp, InternInv, VecInv, VecTypeOK
<1>5. v < head /\ slots[v + 1] = key[t]
  BY <1>1, <1>2 DEF InternInv, InternCallOK, VecInv, CallOK
<1>6. s \in T!Shards
  BY ShardIs DEF InternInv, InternTypeOK
<1>7. /\ table' \in [T!Shards -> SUBSET Nat] /\ table'[s] = table[s] \cup {v}
      /\ \A r \in T!Shards \ {s} : table'[r] = table[r]
  BY <1>2, <1>6 DEF InternInv, InternTypeOK
<1>8. TablesOK'
  <2>1. \A w \in table[s] : slots[w + 1] # key[t]
    BY <1>2 DEF InternInv, LookupsOK
  <2>2. ASSUME NEW r \in T!Shards \ {s}
        PROVE  /\ \A w \in table'[r] : w < head /\ T!Shard(slots[w + 1]) = r
               /\ \A w, x \in table'[r] : slots[w + 1] = slots[x + 1] => w = x
    BY <1>7 DEF InternInv, TablesOK
  <2>3. /\ \A w \in table'[s] : w < head /\ T!Shard(slots[w + 1]) = s
        /\ \A w, x \in table'[s] : slots[w + 1] = slots[x + 1] => w = x
    BY <1>5, <1>6, <1>7, <2>1 DEF InternInv, TablesOK
  <2> QED
    BY <1>4, <2>2, <2>3 DEF TablesOK
<1>9. vop'[t].op # "resize"
  BY <1>4
<1>10. v \in table'[s] /\ \A w \in table[s] : w \in table'[s]
  BY <1>7
<1> QED
  BY <1>2, <1>3, <1>4, <1>5, <1>7, <1>8, <1>9, <1>10, AnswerInv

\* Every step of InternTable keeps its invariant.
LEMMA InternNext ==
  ASSUME T!InternAssumption, InternInv, [T!Next]_(T!vars)
  PROVE  InternInv'
<1>1. CASE UNCHANGED T!vars
  BY <1>1 DEF T!vars, T!vecVars, T!internVars, InternInv, VecInv, VecTypeOK, CallOK, SlotsOK,
     InternTypeOK, InternCallOK, TablesOK, LookupsOK, AnswersOK
<1>2. CASE T!Next
  BY <1>2, CallInternInv, LockShardInv, FindInv, PushInv, PushedInv, InternVecStep
     DEF T!Next, T!Step
<1> QED
  BY <1>1, <1>2

-----------------------------------------------------------------------------
(* NotificationList *)

\* The resets that have an id in their batch.
Taken(i) == {t \in Threads : i \in batch[t]}

\* The library's operators as NotificationList sees them.
LEMMA SameCounts ==
  /\ \A A : S!IsFiniteSet(A) <=> IsFiniteSet(A)
  /\ \A A : S!Cardinality(A) = Cardinality(A)
<1>1. \A A : S!IsFiniteSet(A) <=> IsFiniteSet(A)
  BY Zenon DEF S!IsFiniteSet, IsFiniteSet
<1>2. \A A : S!Cardinality(A) = Cardinality(A)
  BY Zenon DEF S!Cardinality, Cardinality
<1> QED
  BY <1>1, <1>2

\* Reporters are counted in three places.
LEMMA ReportersAre ==
  ASSUME S!ListAssumption, ListTypeOK, NEW i \in Items
  PROVE  /\ IsFiniteSet(S!Listing(i)) /\ IsFiniteSet(Taken(i))
         /\ notified[i] \in Nat
         /\ Cardinality(S!Listing(i)) \in Nat /\ Cardinality(Taken(i)) \in Nat
         /\ S!Reporters(i) = notified[i] + Cardinality(S!Listing(i)) + Cardinality(Taken(i))
<1>1. IsFiniteSet(Threads) /\ S!Listing(i) \subseteq Threads /\ Taken(i) \subseteq Threads
  BY SameCounts DEF S!ListAssumption, S!Listing, Taken
<1>2. IsFiniteSet(S!Listing(i)) /\ IsFiniteSet(Taken(i))
  BY <1>1, FS_Subset
<1>3. Cardinality(S!Listing(i)) \in Nat /\ Cardinality(Taken(i)) \in Nat
  BY <1>2, FS_CardinalityType
<1>4. notified[i] \in Nat
  BY DEF ListTypeOK
<1>5. S!Reporters(i) = notified[i] + Cardinality(S!Listing(i)) + Cardinality(Taken(i))
  BY SameCounts DEF S!Reporters, Taken
<1> QED
  BY <1>2, <1>3, <1>4, <1>5

\* The same after a step.
LEMMA ReportersAreNext ==
  ASSUME S!ListAssumption, ListTypeOK', NEW i \in Items
  PROVE  /\ notified'[i] \in Nat
         /\ Cardinality(S!Listing(i)') \in Nat /\ Cardinality(Taken(i)') \in Nat
         /\ S!Reporters(i)' = notified'[i] + Cardinality(S!Listing(i)') + Cardinality(Taken(i)')
<1>1. IsFiniteSet(Threads) /\ S!Listing(i)' \subseteq Threads /\ Taken(i)' \subseteq Threads
  BY SameCounts DEF S!ListAssumption, S!Listing, Taken
<1>2. Cardinality(S!Listing(i)') \in Nat /\ Cardinality(Taken(i)') \in Nat
  BY <1>1, FS_Subset, FS_CardinalityType
<1>3. notified'[i] \in Nat
  BY DEF ListTypeOK
<1>4. S!Reporters(i)' = notified'[i] + Cardinality(S!Listing(i)') + Cardinality(Taken(i)')
  BY SameCounts DEF S!Reporters, Taken
<1> QED
  BY <1>2, <1>3, <1>4

\* The list is empty at first.
LEMMA ListInit ==
  ASSUME S!ListAssumption, S!Init
  PROVE  ListInv
<1>1. V!InitVec
  BY DEF S!Init, S!InitVec, V!InitVec, S!NoOp, V!NoOp
<1>2. VecInv(BOOLEAN) /\ \A t \in Threads : vpc[t] = "idle" /\ vop[t].op = "none"
  BY <1>1, VecInitInv
<1>3. Len(slots) = 0 /\ head = 0
  BY DEF S!Init, S!InitVec
<1>4. /\ \A t \in Threads : pc[t] = "idle" /\ batch[t] = {}
      /\ \A i \in Items : notified[i] = 0
      /\ owed = {} /\ ListTypeOK
  BY DEF S!Init, ListTypeOK
<1>5. ASSUME NEW i \in Items PROVE S!Reporters(i) = 0 /\ ~ FlagSet(i)
  <2>1. S!Listing(i) = {} /\ Taken(i) = {}
    BY <1>4 DEF S!Listing, Taken
  <2>2. i \in Nat /\ ~ (i < head)
    BY <1>3 DEF S!ListAssumption
  <2> QED
    BY <1>4, <2>1, <2>2, ReportersAre, FS_EmptySet DEF FlagSet
<1>6. \A t \in Threads : ListCallOK(t)
  BY <1>2, <1>4 DEF ListCallOK
<1>7. FlagsOK
  BY <1>3, <1>5 DEF FlagsOK
<1>8. \A t \in Threads : vop[t].op # "push"
  BY <1>2
<1> QED
  BY <1>2, <1>3, <1>4, <1>6, <1>7, <1>8 DEF ListInv, S!NotifiedIsReported

\* What the flags and the list say carries over when neither changes.
LEMMA SameReports ==
  ASSUME ListInv, UNCHANGED <<notified, batch>>,
         \A i \in Items : S!Listing(i)' = S!Listing(i) /\ (FlagSet(i)' <=> FlagSet(i)),
         \A i \in 1..Len(slots') : i > head' => slots'[i] = FALSE,
         owed' \subseteq Items,
         \A i \in owed' : i \in owed \/ FlagSet(i)
  PROVE  FlagsOK' /\ S!NotifiedIsReported'
<1>1. \A i \in Items : S!Reporters(i)' = S!Reporters(i)
  BY DEF S!Reporters
<1>2. FlagsOK'
  BY <1>1 DEF ListInv, FlagsOK
<1>3. \A i \in Items : FlagSet(i) => S!Reporters(i) = 1
  BY DEF ListInv, FlagsOK
<1>4. S!NotifiedIsReported'
  BY <1>1, <1>3 DEF ListInv, S!NotifiedIsReported
<1> QED
  BY <1>2, <1>4

\* A step in the vector: flags below head stay, and new ones are unset.
LEMMA ListVecStep ==
  ASSUME S!ListAssumption, ListInv, NEW t \in Threads, S!VecStep(t), UNCHANGED S!listVars
  PROVE  ListInv'
<1>1. V!VecStep(t)
  BY DEF S!VecStep, V!VecStep, S!Lock, V!Lock, S!Get, V!Get, S!CloseData, V!CloseData,
     S!Grow, V!Grow, S!Write, V!Write, S!Publish, V!Publish, S!Open, V!Open,
     S!GotoVec, V!GotoVec, S!Closed, V!Closed, S!Resize, V!Resize,
     S!NextPowerOfTwo, V!NextPowerOfTwo
<1>2. VecInv(BOOLEAN)' /\ VecFrame(t)
  BY <1>1, VecStepInv DEF ListInv, S!ListAssumption, S!VecAssumption, V!VecAssumption
<1>3. UNCHANGED <<notified, pc, item, batch, owed>>
  BY DEF S!listVars
<1>4. /\ head \in Nat /\ head' \in Nat /\ head <= head'
      /\ Len(slots) \in Nat /\ Len(slots') \in Nat /\ head <= Len(slots) /\ head' <= Len(slots')
  BY <1>2 DEF ListInv, VecInv, VecTypeOK, VecFrame
<1>5. \A u \in Threads : vop'[u].op = vop[u].op /\ vop'[u].item = vop[u].item
  BY <1>2 DEF VecFrame
<1>6. \A u \in Threads : vop'[u].op # "push"
  BY <1>5 DEF ListInv
<1>7. (vop[t].op # "none" /\ vop[t].item = FALSE) \/ slots' = slots
  <2>1. CASE vpc[t] \in Held
    BY <2>1 DEF ListInv, VecInv, CallOK, ListCallOK
  <2>2. CASE vpc[t] \notin Held
    BY <1>1, <2>2 DEF V!VecStep, V!Lock, V!Get, V!CloseData, V!Grow, V!Write, V!Publish, V!Open, Held
  <2> QED
    BY <2>1, <2>2
<1>8. \A i \in 1..Len(slots') : slots'[i] # Uninit
  <2>1. CASE \A u \in Threads : vop'[u].op # "resize"
    <3>1. vop[t].op \notin {"push", "resize"} /\ vop[t].op \in {"none", "push", "resize"}
      BY <1>5, <2>1 DEF ListInv, VecInv, VecTypeOK, Calls
    <3>2. slots' = slots
      BY <1>7, <3>1
    <3> QED
      BY <3>2 DEF ListInv
  <2>2. CASE ~ \A u \in Threads : vop'[u].op # "resize"
    BY <1>2, <2>2 DEF VecInv, SlotsOK
  <2> QED
    BY <2>1, <2>2
<1>9. \A i \in 1..Len(slots') : i > head => slots'[i] = FALSE
  <2>1. \A i \in 1..Len(slots) : i > head => slots[i] = FALSE
    BY DEF ListInv, FlagsOK
  <2>2. CASE slots' = slots
    BY <2>1, <2>2
  <2>3. CASE vop[t].item = FALSE
    BY <1>2, <1>4, <1>8, <2>1, <2>3 DEF VecFrame
  <2> QED
    BY <1>7, <2>2, <2>3
<1>10. \A i \in Items : FlagSet(i)' <=> FlagSet(i)
  <2> SUFFICES ASSUME NEW i \in Items PROVE FlagSet(i)' <=> FlagSet(i)
    OBVIOUS
  <2>1. i \in Nat
    BY DEF S!ListAssumption
  <2>2. CASE i < head
    <3>1. slots'[i + 1] = slots[i + 1] /\ i < head'
      BY <1>2, <1>4, <2>1, <2>2 DEF VecFrame
    <3> QED
      BY <2>2, <3>1 DEF FlagSet
  <2>3. CASE ~ (i < head)
    <3>1. i < head' => slots'[i + 1] = FALSE
      BY <1>4, <1>9, <2>1, <2>3
    <3> QED
      BY <2>3, <3>1 DEF FlagSet
  <2> QED
    BY <2>2, <2>3
<1>11. \A i \in Items : S!Listing(i)' = S!Listing(i)
  BY <1>3 DEF S!Listing
<1>12. FlagsOK' /\ S!NotifiedIsReported'
  <2>1. \A i \in 1..Len(slots') : i > head' => slots'[i] = FALSE
    BY <1>4, <1>9
  <2>2. owed' \subseteq Items /\ \A i \in owed' : i \in owed \/ FlagSet(i)
    BY <1>3 DEF ListInv, ListTypeOK
  <2> QED
    BY <1>3, <1>10, <1>11, <2>1, <2>2, SameReports
<1>13. \A u \in Threads : ListCallOK(u)'
  <2> SUFFICES ASSUME NEW u \in Threads PROVE ListCallOK(u)'
    OBVIOUS
  <2>1. ListCallOK(u) /\ item[u] \in Nat
    BY DEF ListInv, ListTypeOK
  <2>2. CASE u = t
    BY <1>2, <1>3, <1>4, <1>5, <2>1, <2>2 DEF ListCallOK, VecFrame, Held
  <2>3. CASE u # t
    <3>1. vpc'[u] = vpc[u] /\ vop'[u] = vop[u]
      BY <1>2, <2>3 DEF VecFrame
    <3> QED
      BY <1>3, <1>4, <2>1, <3>1 DEF ListCallOK
  <2> QED
    BY <2>2, <2>3
<1>14. ListTypeOK'
  BY <1>3 DEF ListInv, ListTypeOK
<1> QED
  BY <1>2, <1>6, <1>8, <1>12, <1>13, <1>14 DEF ListInv

\* A step of notify or reset that touches neither a flag nor the list.
LEMMA ListMove ==
  ASSUME S!ListAssumption, ListInv, NEW t \in Threads, NEW place,
         VecInv(BOOLEAN)', UNCHANGED <<slots, head, notified, batch>>,
         \A u \in Threads \ {t} : vpc'[u] = vpc[u] /\ vop'[u] = vop[u] /\ item'[u] = item[u],
         vop'[t].op # "push",
         place \in {"idle", "resize", "read", "look", "swap", "taken", "clear"},
         pc[t] # "push", pc' = [pc EXCEPT ![t] = place],
         item' \in [Threads -> Nat], owed' \subseteq Items,
         \A i \in owed' : i \in owed \/ FlagSet(i),
         ListCallOK(t)'
  PROVE  ListInv'
<1>1. pc'[t] = place /\ \A u \in Threads \ {t} : pc'[u] = pc[u]
  BY DEF ListInv, ListTypeOK
<1>2. ListTypeOK'
  BY DEF ListInv, ListTypeOK
<1>3. \A u \in Threads : ListCallOK(u)'
  <2>1. ASSUME NEW u \in Threads \ {t} PROVE ListCallOK(u)'
    BY <1>1 DEF ListInv, ListCallOK
  <2> QED
    BY <2>1
<1>4. \A i \in Items : S!Listing(i)' = S!Listing(i) /\ (FlagSet(i)' <=> FlagSet(i))
  <2>1. \A i \in Items : \A u \in Threads :
          pc'[u] = "push" /\ item'[u] = i <=> pc[u] = "push" /\ item[u] = i
    BY <1>1
  <2>2. \A i \in Items : S!Listing(i)' = S!Listing(i)
    BY <2>1 DEF S!Listing
  <2> QED
    BY <2>2 DEF FlagSet
<1>5. \A i \in 1..Len(slots') : i > head' => slots'[i] = FALSE
  BY DEF ListInv, FlagsOK
<1>6. FlagsOK' /\ S!NotifiedIsReported'
  BY <1>4, <1>5, SameReports
<1>7. /\ \A u \in Threads : vop'[u].op # "push"
      /\ \A i \in 1..Len(slots') : slots'[i] # Uninit
  BY DEF ListInv
<1> QED
  BY <1>2, <1>3, <1>6, <1>7 DEF ListInv

\* notify begins by making the states long enough.
LEMMA CallNotifyInv ==
  ASSUME S!ListAssumption, ListInv, NEW t \in Threads, S!CallNotify(t)
  PROVE  ListInv'
<1>1. PICK i \in Items : item' = [item EXCEPT ![t] = i] /\ S!CallResize(t, i + 1, FALSE)
  BY DEF S!CallNotify
<1>2. /\ pc[t] = "idle" /\ pc' = [pc EXCEPT ![t] = "resize"]
      /\ UNCHANGED <<notified, batch, owed>>
  BY DEF S!CallNotify, S!Goto
<1>3. i \in Nat /\ FALSE \in BOOLEAN /\ FALSE # Uninit
  BY DEF S!ListAssumption
<1>4. PICK m \in Nat : m = i + 1
  BY <1>3
<1>5. V!CallResize(t, m, FALSE)
  <2>1. S!CallResize(t, m, FALSE)
    BY <1>1, <1>4
  <2> QED
    BY <2>1 DEF S!CallResize, V!CallResize, S!GotoVec, V!GotoVec
<1>6. UNCHANGED <<slots, head>>
  BY <1>5 DEF V!CallResize
<1>7. /\ VecInv(BOOLEAN)'
      /\ vop'[t].op = "resize" /\ vop'[t].item = FALSE /\ vop'[t].index = i
      /\ vpc'[t] \in {"lock", "done"}
      /\ \A u \in Threads \ {t} : vop'[u] = vop[u] /\ vpc'[u] = vpc[u]
  <2>1. VecInv(BOOLEAN) /\ \A u \in Threads : vop[u].op # "push"
    BY DEF ListInv
  <2>2. \A j \in 1..Len(slots) : slots[j] # Uninit
    BY DEF ListInv
  <2> QED
    BY <1>3, <1>4, <1>5, <2>1, <2>2, CallResizeInv
<1>8. /\ item' \in [Threads -> Nat] /\ item'[t] = i
      /\ \A u \in Threads \ {t} : item'[u] = item[u]
  BY <1>1, <1>3 DEF ListInv, ListTypeOK
<1>9. pc'[t] = "resize" /\ batch'[t] = {}
  BY <1>2 DEF ListInv, ListTypeOK, ListCallOK
<1>10. ListCallOK(t)'
  BY <1>7, <1>8, <1>9 DEF ListCallOK
<1>11. owed' \subseteq Items /\ \A j \in owed' : j \in owed
  BY <1>2 DEF ListInv, ListTypeOK
<1> QED
  BY <1>2, <1>6, <1>7, <1>8, <1>10, <1>11, ListMove

\* The states are long enough.
LEMMA ResizedInv ==
  ASSUME S!ListAssumption, ListInv, NEW t \in Threads, S!Resized(t)
  PROVE  ListInv'
<1>1. /\ pc[t] = "resize" /\ pc' = [pc EXCEPT ![t] = "read"] /\ V!Return(t)
      /\ UNCHANGED <<notified, item, batch, owed>>
  BY DEF S!Resized, S!Goto, S!Return, V!Return, S!GotoVec, V!GotoVec, S!NoOp, V!NoOp
<1>2. VecInv(BOOLEAN)'
  BY <1>1, ReturnInv DEF ListInv
<1>3. /\ vpc[t] = "done" /\ UNCHANGED <<slots, head>> /\ vpc'[t] = "idle" /\ vop'[t].op = "none"
      /\ \A u \in Threads \ {t} : vpc'[u] = vpc[u] /\ vop'[u] = vop[u]
  BY <1>1 DEF V!Return, V!GotoVec, V!NoOp, ListInv, VecInv, VecTypeOK
<1>4. item[t] < head /\ item[t] \in Items /\ batch[t] = {}
  BY <1>1, <1>3 DEF ListInv, ListCallOK, VecInv, CallOK
<1>5. pc'[t] = "read"
  BY <1>1 DEF ListInv, ListTypeOK
<1>6. ListCallOK(t)'
  BY <1>1, <1>3, <1>4, <1>5 DEF ListCallOK
<1>7. /\ owed' \subseteq Items /\ \A j \in owed' : j \in owed
      /\ item' \in [Threads -> Nat] /\ \A u \in Threads \ {t} : item'[u] = item[u]
  BY <1>1 DEF ListInv, ListTypeOK
<1> QED
  BY <1>1, <1>2, <1>3, <1>6, <1>7, ListMove

\* notify and reset take a read handle.
LEMMA OpenInv ==
  ASSUME S!ListAssumption, ListInv, NEW t \in Threads, S!ReadStates(t) \/ S!OpenStates(t)
  PROVE  ListInv'
<1>1. PICK place \in {"look", "clear"} :
        /\ pc[t] = IF place = "look" THEN "read" ELSE "taken"
        /\ pc' = [pc EXCEPT ![t] = place] /\ V!CallRead(t)
        /\ UNCHANGED <<notified, item, batch, owed>>
  <2>1. S!CallRead(t) <=> V!CallRead(t)
    BY DEF S!CallRead, V!CallRead, S!GotoVec, V!GotoVec
  <2>2. CASE S!ReadStates(t)
    BY <2>1, <2>2 DEF S!ReadStates, S!Goto
  <2>3. CASE S!OpenStates(t)
    BY <2>1, <2>3 DEF S!OpenStates, S!Goto
  <2> QED
    BY <2>2, <2>3
<1>2. VecInv(BOOLEAN)'
  BY <1>1, ReadInv DEF ListInv
<1>3. /\ UNCHANGED <<slots, head, vop>> /\ vpc'[t] = "open"
      /\ \A u \in Threads \ {t} : vpc'[u] = vpc[u] /\ vop'[u] = vop[u]
  BY <1>1 DEF V!CallRead, V!GotoVec, ListInv, VecInv, VecTypeOK
<1>4. pc'[t] = place
  BY <1>1 DEF ListInv, ListTypeOK
<1>5. ListCallOK(t)' /\ vop'[t].op # "push" /\ pc[t] # "push"
  BY <1>1, <1>3, <1>4 DEF ListInv, ListCallOK
<1>6. /\ owed' \subseteq Items /\ \A j \in owed' : j \in owed
      /\ item' \in [Threads -> Nat] /\ \A u \in Threads \ {t} : item'[u] = item[u]
  BY <1>1 DEF ListInv, ListTypeOK
<1> QED
  BY <1>1, <1>2, <1>3, <1>5, <1>6, ListMove

\* The flag is looked at: it is set, and whoever set it reports the id; or it will be swapped.
LEMMA LookInv ==
  ASSUME S!ListAssumption, ListInv, NEW t \in Threads, S!Look(t)
  PROVE  ListInv'
<1>1. pc[t] = "look" /\ vpc[t] = "reading" /\ UNCHANGED <<notified, item, batch>>
  BY DEF S!Look
<1>2. /\ item[t] \in Items /\ item[t] < head /\ batch[t] = {} /\ vop[t].op # "push"
      /\ pc[t] # "push"
  BY <1>1 DEF ListInv, ListCallOK
<1>3. item' \in [Threads -> Nat] /\ \A u \in Threads \ {t} : item'[u] = item[u]
  BY <1>1 DEF ListInv, ListTypeOK
<1>4. CASE slots[item[t] + 1]
  <2>1. pc' = [pc EXCEPT ![t] = "idle"] /\ V!Close(t) /\ owed' = owed \cup {item[t]}
    BY <1>4 DEF S!Look, S!Flag, S!Goto, S!Close, V!Close, S!GotoVec, V!GotoVec
  <2>2. VecInv(BOOLEAN)'
    BY <2>1, ReadInv DEF ListInv
  <2>3. /\ UNCHANGED <<slots, head, vop>> /\ vpc'[t] = "idle"
        /\ \A u \in Threads \ {t} : vpc'[u] = vpc[u] /\ vop'[u] = vop[u]
    BY <2>1 DEF V!Close, V!GotoVec, ListInv, VecInv, VecTypeOK
  <2>4. pc'[t] = "idle"
    BY <2>1 DEF ListInv, ListTypeOK
  <2>5. ListCallOK(t)'
    BY <1>1, <1>2, <2>3, <2>4 DEF ListInv, ListCallOK
  <2>6. owed' \subseteq Items /\ \A i \in owed' : i \in owed \/ FlagSet(i)
    BY <1>2, <1>4, <2>1 DEF ListInv, ListTypeOK, FlagSet
  <2> QED
    BY <1>1, <1>2, <1>3, <2>1, <2>2, <2>3, <2>5, <2>6, ListMove
<1>5. CASE ~ slots[item[t] + 1]
  <2>1. pc' = [pc EXCEPT ![t] = "swap"] /\ UNCHANGED <<slots, head, writeLock, vpc, vop, seen, owed>>
    BY <1>5 DEF S!Look, S!Flag, S!Goto, S!vecVars
  <2>2. VecInv(BOOLEAN)'
    BY <2>1 DEF ListInv, VecInv, VecTypeOK, CallOK, SlotsOK
  <2>3. pc'[t] = "swap"
    BY <2>1 DEF ListInv, ListTypeOK
  <2>4. ListCallOK(t)'
    BY <1>1, <1>2, <2>1, <2>3 DEF ListInv, ListCallOK
  <2>5. owed' \subseteq Items /\ \A i \in owed' : i \in owed
    BY <2>1 DEF ListInv, ListTypeOK
  <2> QED
    BY <1>1, <1>2, <1>3, <2>1, <2>2, <2>4, <2>5, ListMove
<1> QED
  BY <1>4, <1>5

\* reset has cleared the flags of its batch.
LEMMA EndResetInv ==
  ASSUME S!ListAssumption, ListInv, NEW t \in Threads, S!EndReset(t)
  PROVE  ListInv'
<1>1. /\ pc[t] = "clear" /\ batch[t] = {} /\ pc' = [pc EXCEPT ![t] = "idle"] /\ V!Close(t)
      /\ UNCHANGED <<notified, item, batch, owed>>
  BY DEF S!EndReset, S!Goto, S!Close, V!Close, S!GotoVec, V!GotoVec
<1>2. VecInv(BOOLEAN)'
  BY <1>1, ReadInv DEF ListInv
<1>3. /\ UNCHANGED <<slots, head, vop>> /\ vpc'[t] = "idle"
      /\ \A u \in Threads \ {t} : vpc'[u] = vpc[u] /\ vop'[u] = vop[u]
  BY <1>1 DEF V!Close, V!GotoVec, ListInv, VecInv, VecTypeOK
<1>4. pc'[t] = "idle"
  BY <1>1 DEF ListInv, ListTypeOK
<1>5. ListCallOK(t)' /\ vop'[t].op # "push" /\ pc[t] # "push"
  BY <1>1, <1>3, <1>4 DEF ListInv, ListCallOK
<1>6. /\ owed' \subseteq Items /\ \A j \in owed' : j \in owed
      /\ item' \in [Threads -> Nat] /\ \A u \in Threads \ {t} : item'[u] = item[u]
  BY <1>1 DEF ListInv, ListTypeOK
<1> QED
  BY <1>1, <1>2, <1>3, <1>5, <1>6, ListMove

\* A flag written in place keeps the invariant of the vector.
LEMMA PutFlagInv ==
  ASSUME S!ListAssumption, ListInv, NEW k \in 1..head, NEW b \in BOOLEAN,
         slots' = [slots EXCEPT ![k] = b], UNCHANGED <<head, writeLock, vop>>,
         NEW t \in Threads, vpc[t] = "reading",
         \/ vpc' = [vpc EXCEPT ![t] = "idle"] /\ seen' = [seen EXCEPT ![t] = 0]
         \/ UNCHANGED <<vpc, seen>>
  PROVE  /\ VecInv(BOOLEAN)'
         /\ Len(slots') = Len(slots)
         /\ \A i \in 1..Len(slots) : slots'[i] = IF i = k THEN b ELSE slots[i]
         /\ \A i \in 1..Len(slots') : slots'[i] # Uninit
         /\ \A i \in 1..Len(slots') : i > head' => slots'[i] = FALSE
         /\ \A u \in Threads \ {t} : vpc'[u] = vpc[u]
<1>1. /\ slots \in Seq(BOOLEAN \cup {Uninit}) /\ Len(slots) \in Nat /\ head \in Nat
      /\ head <= Len(slots) /\ k \in 1..Len(slots) /\ b # Uninit
  BY DEF ListInv, VecInv, VecTypeOK, S!ListAssumption
<1>2. PICK E : E = BOOLEAN \cup {Uninit}
  OBVIOUS
<1>3. slots \in Seq(E) /\ b \in E
  BY <1>1, <1>2
<1>4. /\ slots' \in Seq(E) /\ Len(slots') = Len(slots)
      /\ \A i \in 1..Len(slots) : slots'[i] = IF i = k THEN b ELSE slots[i]
  <2> HIDE <1>2
  <2> QED
    BY <1>1, <1>3, PutIs
<1>5. \A i \in 1..Len(slots') : slots'[i] # Uninit
  BY <1>1, <1>4 DEF ListInv
<1>6. \A i \in 1..Len(slots') : i > head' => slots'[i] = FALSE
  BY <1>1, <1>4 DEF ListInv, FlagsOK
<1>7. /\ vpc'[t] \in {"idle", "reading"} /\ seen'[t] \in Nat /\ seen'[t] <= head
      /\ \A u \in Threads \ {t} : vpc'[u] = vpc[u] /\ seen'[u] = seen[u]
      /\ seen' \in [Threads -> Nat]
      /\ vpc' \in [Threads -> Held \cup {"idle", "lock", "done", "open", "reading"}]
  BY DEF ListInv, VecInv, VecTypeOK, CallOK
<1>8. VecTypeOK(BOOLEAN)'
  BY <1>1, <1>2, <1>4, <1>7 DEF ListInv, VecInv, VecTypeOK
<1>9. \A u \in Threads : CallOK(u)'
  <2>1. CallOK(t)'
    BY <1>7 DEF CallOK, Held
  <2>2. ASSUME NEW u \in Threads \ {t} PROVE CallOK(u)'
    <3>1. CallOK(u) /\ vop[u].index \in Nat /\ vop[u].op # "push"
      BY DEF ListInv, VecInv, VecTypeOK, Calls
    <3>2. vpc[u] = "publish" => slots'[vop[u].index + 1] = slots[vop[u].index + 1]
      BY <1>1, <1>4, <3>1 DEF CallOK, Held
    <3> QED
      BY <1>4, <1>7, <3>1, <3>2 DEF CallOK
  <2> QED
    BY <2>1, <2>2
<1>10. SlotsOK'
  BY <1>1, <1>4, <1>5 DEF ListInv, SlotsOK
<1> QED
  BY <1>4, <1>5, <1>6, <1>7, <1>8, <1>9, <1>10 DEF VecInv

\* The thread that finds the flag unset, and only that one, will list the id.
LEMMA SwapInv ==
  ASSUME S!ListAssumption, ListInv, NEW t \in Threads, S!Swap(t)
  PROVE  ListInv'
<1>1. PICK n \in Items : n = item[t] /\ n < head /\ n \in Nat
  BY DEF S!Swap, ListInv, ListCallOK, S!ListAssumption
<1>2. PICK k \in 1..head : k = n + 1
  BY <1>1 DEF ListInv, VecInv, VecTypeOK
<1>3. /\ pc[t] = "swap" /\ slots' = [slots EXCEPT ![k] = TRUE]
      /\ vpc' = [vpc EXCEPT ![t] = "idle"] /\ seen' = [seen EXCEPT ![t] = 0]
      /\ UNCHANGED <<head, writeLock, vop, notified, item, batch>>
  BY <1>1, <1>2 DEF S!Swap, S!GotoVec
<1>4. vpc[t] = "reading" /\ batch[t] = {}
  BY <1>3 DEF ListInv, ListCallOK
<1>5. /\ VecInv(BOOLEAN)'
      /\ Len(slots') = Len(slots)
      /\ \A i \in 1..Len(slots) : slots'[i] = IF i = k THEN TRUE ELSE slots[i]
      /\ \A i \in 1..Len(slots') : slots'[i] # Uninit
      /\ \A i \in 1..Len(slots') : i > head' => slots'[i] = FALSE
      /\ \A u \in Threads \ {t} : vpc'[u] = vpc[u]
  BY <1>3, <1>4, PutFlagInv
<1>6. vpc'[t] = "idle"
  BY <1>3 DEF ListInv, VecInv, VecTypeOK
<1>7. \A i \in Items : FlagSet(i)' <=> (i = n \/ FlagSet(i))
  <2>1. \A i \in Items : i \in Nat
    BY DEF S!ListAssumption
  <2>2. head \in Nat /\ head <= Len(slots) /\ Len(slots) \in Nat
    BY DEF ListInv, VecInv, VecTypeOK
  <2>3. ASSUME NEW i \in Items, i # n PROVE FlagSet(i)' <=> FlagSet(i)
    <3>1. i < head => i + 1 \in 1..Len(slots) /\ i + 1 # k
      BY <1>1, <1>2, <2>1, <2>2, <2>3
    <3>2. i < head => slots'[i + 1] = slots[i + 1]
      BY <1>5, <3>1
    <3> QED
      BY <1>3, <3>2 DEF FlagSet
  <2>4. FlagSet(n)'
    <3>1. n + 1 \in 1..Len(slots) /\ n + 1 = k
      BY <1>1, <1>2, <2>2
    <3>2. slots'[n + 1] = TRUE
      BY <1>5, <3>1
    <3> QED
      BY <1>1, <1>3, <3>2 DEF FlagSet
  <2> QED
    BY <2>3, <2>4
<1>8. PICK place \in {"idle", "push"} :
        /\ pc' = [pc EXCEPT ![t] = place]
        /\ place = "idle" => FlagSet(n) /\ owed' = owed \cup {n}
        /\ place = "push" => ~ FlagSet(n) /\ owed' = owed
  <2>1. CASE slots[item[t] + 1]
    BY <1>1, <2>1 DEF S!Swap, S!Flag, S!Goto, FlagSet
  <2>2. CASE ~ slots[item[t] + 1]
    BY <1>1, <2>2 DEF S!Swap, S!Flag, S!Goto, FlagSet
  <2> QED
    BY <2>1, <2>2
<1>9. pc'[t] = place /\ \A u \in Threads \ {t} : pc'[u] = pc[u]
  BY <1>8 DEF ListInv, ListTypeOK
<1>10. ListTypeOK'
  BY <1>3, <1>8 DEF ListInv, ListTypeOK
<1>11. \A u \in Threads : ListCallOK(u)'
  <2>1. ListCallOK(t)'
    BY <1>1, <1>3, <1>4, <1>6, <1>9 DEF ListInv, ListCallOK
  <2>2. ASSUME NEW u \in Threads \ {t} PROVE ListCallOK(u)'
    BY <1>3, <1>5, <1>9 DEF ListInv, ListCallOK
  <2> QED
    BY <2>1, <2>2
<1>12. FlagsOK' /\ S!NotifiedIsReported'
  <2>1. CASE place = "idle"
    <3>1. \A i \in Items : S!Listing(i)' = S!Listing(i)
      BY <1>3, <1>9, <2>1 DEF S!Listing
    <3>2. owed' \subseteq Items /\ \A i \in owed' : i \in owed \/ FlagSet(i)
      BY <1>8, <2>1 DEF ListInv, ListTypeOK
    <3>3. \A i \in Items : FlagSet(i)' <=> FlagSet(i)
      BY <1>7, <1>8, <2>1
    <3> QED
      BY <1>3, <1>5, <3>1, <3>2, <3>3, SameReports
  <2>2. CASE place = "push"
    <3>1. ASSUME NEW i \in Items
          PROVE  S!Reporters(i)' = IF i = n THEN 1 ELSE S!Reporters(i)
      <4>0. ListTypeOK
        BY DEF ListInv
      <4>1. Taken(i)' = Taken(i) /\ notified'[i] = notified[i]
        BY <1>3 DEF Taken
      <4>2. CASE i # n
        <5>1. S!Listing(i)' = S!Listing(i)
          BY <1>1, <1>3, <1>9, <2>2, <4>2 DEF S!Listing
        <5> QED
          BY <1>10, <4>0, <4>1, <4>2, <5>1, ReportersAre, ReportersAreNext
      <4>3. CASE i = n
        <5>1. S!Listing(i)' = S!Listing(i) \cup {t} /\ t \notin S!Listing(i)
          BY <1>1, <1>3, <1>9, <2>2, <4>3 DEF S!Listing
        <5>2. S!Reporters(i) = 0
          BY <1>8, <2>2, <4>3 DEF ListInv, FlagsOK
        <5>3. Cardinality(S!Listing(i)') = Cardinality(S!Listing(i)) + 1
          BY <4>0, <5>1, ReportersAre, FS_AddElement
        <5>4. S!Reporters(i)' = notified'[i] + Cardinality(S!Listing(i)') + Cardinality(Taken(i)')
          BY <1>10, ReportersAreNext
        <5> QED
          BY <4>0, <4>1, <4>3, <5>2, <5>3, <5>4, ReportersAre
      <4> QED
        BY <4>2, <4>3
    <3>2. FlagsOK'
      BY <1>5, <1>7, <3>1 DEF ListInv, FlagsOK
    <3>3. S!NotifiedIsReported'
      <4>1. ASSUME NEW i \in owed PROVE S!Reporters(i)' > 0
        <5>1. i \in Items /\ S!Reporters(i) > 0
          BY DEF ListInv, ListTypeOK, S!NotifiedIsReported
        <5> QED
          BY <3>1, <5>1
      <4> QED
        BY <1>8, <2>2, <4>1 DEF S!NotifiedIsReported
    <3> QED
      BY <3>2, <3>3
  <2> QED
    BY <2>1, <2>2
<1>13. \A u \in Threads : vop'[u].op # "push"
  BY <1>3 DEF ListInv
<1> QED
  BY <1>5, <1>10, <1>11, <1>12, <1>13 DEF ListInv

\* The list takes over from the thread that set the flag.
LEMMA ListPushInv ==
  ASSUME S!ListAssumption, ListInv, NEW t \in Threads, S!Push(t)
  PROVE  ListInv'
<1>1. PICK n \in Items : n = item[t]
  BY DEF S!Push, ListInv, ListCallOK
<1>2. /\ pc[t] = "push" /\ pc' = [pc EXCEPT ![t] = "idle"]
      /\ notified' = [notified EXCEPT ![n] = @ + 1] /\ owed' = owed \cup {n}
      /\ UNCHANGED <<slots, head, writeLock, vpc, vop, seen, item, batch>>
  BY <1>1 DEF S!Push, S!Goto, S!vecVars
<1>3. VecInv(BOOLEAN)'
  BY <1>2 DEF ListInv, VecInv, VecTypeOK, CallOK, SlotsOK
<1>4. ListTypeOK'
  BY <1>2 DEF ListInv, ListTypeOK
<1>5. pc'[t] = "idle" /\ \A u \in Threads \ {t} : pc'[u] = pc[u]
  BY <1>2 DEF ListInv, ListTypeOK
<1>6. \A u \in Threads : ListCallOK(u)'
  BY <1>2, <1>5 DEF ListInv, ListCallOK
<1>7. ASSUME NEW i \in Items PROVE S!Reporters(i)' = S!Reporters(i)
  <2>0. ListTypeOK
    BY DEF ListInv
  <2>1. Taken(i)' = Taken(i)
    BY <1>2 DEF Taken
  <2>2. S!Reporters(i)' = notified'[i] + Cardinality(S!Listing(i)') + Cardinality(Taken(i)')
    BY <1>4, ReportersAreNext
  <2>3. CASE i # n
    <3>1. S!Listing(i)' = S!Listing(i) /\ notified'[i] = notified[i]
      BY <1>1, <1>2, <1>5, <2>0, <2>3 DEF S!Listing, ListTypeOK
    <3> QED
      BY <2>0, <2>1, <2>2, <3>1, ReportersAre
  <2>4. CASE i = n
    <3>1. S!Listing(i)' = S!Listing(i) \ {t} /\ t \in S!Listing(i)
      BY <1>1, <1>2, <1>5, <2>4 DEF S!Listing
    <3>2. notified'[i] = notified[i] + 1
      BY <1>2, <2>0, <2>4 DEF ListTypeOK
    <3>3. Cardinality(S!Listing(i)') = Cardinality(S!Listing(i)) - 1
      BY <2>0, <3>1, ReportersAre, FS_RemoveElement
    <3> QED
      BY <1>4, <2>0, <2>1, <2>2, <3>2, <3>3, ReportersAre, ReportersAreNext
  <2> QED
    BY <2>3, <2>4
<1>8. \A i \in Items : FlagSet(i)' <=> FlagSet(i)
  BY <1>2 DEF FlagSet
<1>9. FlagsOK'
  BY <1>2, <1>7, <1>8 DEF ListInv, FlagsOK
<1>10. S!Reporters(n) > 0
  <2>1. t \in S!Listing(n) /\ ListTypeOK
    BY <1>1, <1>2 DEF S!Listing, ListInv
  <2>2. Cardinality(S!Listing(n)) # 0
    BY <2>1, ReportersAre, FS_EmptySet
  <2> QED
    BY <2>1, <2>2, ReportersAre
<1>11. S!NotifiedIsReported'
  BY <1>2, <1>7, <1>10 DEF ListInv, ListTypeOK, S!NotifiedIsReported
<1>12. /\ \A u \in Threads : vop'[u].op # "push"
       /\ \A i \in 1..Len(slots') : slots'[i] # Uninit
  BY <1>2 DEF ListInv
<1> QED
  BY <1>3, <1>4, <1>6, <1>9, <1>11, <1>12 DEF ListInv

\* A reset takes over what the list had.
LEMMA ListTakeInv ==
  ASSUME S!ListAssumption, ListInv, NEW t \in Threads, S!Take(t)
  PROVE  ListInv'
<1> DEFINE b == {i \in Items : notified[i] > 0}
<1>1. /\ pc[t] = "idle" /\ pc' = [pc EXCEPT ![t] = "taken"]
      /\ batch' = [batch EXCEPT ![t] = b] /\ notified' = [i \in Items |-> 0]
      /\ UNCHANGED <<slots, head, writeLock, vpc, vop, seen, item, owed>>
  BY DEF S!Take, S!Goto, S!vecVars
<1>2. VecInv(BOOLEAN)'
  BY <1>1 DEF ListInv, VecInv, VecTypeOK, CallOK, SlotsOK
<1>3. ListTypeOK'
  BY <1>1 DEF ListInv, ListTypeOK
<1>4. /\ pc'[t] = "taken" /\ batch'[t] = b /\ batch[t] = {}
      /\ \A u \in Threads \ {t} : pc'[u] = pc[u] /\ batch'[u] = batch[u]
  BY <1>1 DEF ListInv, ListTypeOK, ListCallOK
<1>5. \A u \in Threads : ListCallOK(u)'
  <2>1. ListCallOK(t)'
    BY <1>1, <1>4 DEF ListInv, ListCallOK
  <2>2. ASSUME NEW u \in Threads \ {t} PROVE ListCallOK(u)'
    BY <1>1, <1>4 DEF ListInv, ListCallOK
  <2> QED
    BY <2>1, <2>2
<1>6. ASSUME NEW i \in Items PROVE S!Reporters(i)' = S!Reporters(i)
  <2>0. ListTypeOK
    BY DEF ListInv
  <2>1. S!Listing(i)' = S!Listing(i) /\ notified'[i] = 0
    BY <1>1, <1>4 DEF S!Listing
  <2>2. S!Reporters(i)' = notified'[i] + Cardinality(S!Listing(i)') + Cardinality(Taken(i)')
    BY <1>3, ReportersAreNext
  <2>3. S!Reporters(i) \in {0, 1}
    BY DEF ListInv, FlagsOK
  <2>4. CASE notified[i] = 0
    <3>1. Taken(i)' = Taken(i)
      BY <1>4, <2>4 DEF Taken
    <3> QED
      BY <2>0, <2>1, <2>2, <2>4, <3>1, ReportersAre
  <2>5. CASE notified[i] > 0
    <3>1. notified[i] = 1
      BY <2>0, <2>3, <2>5, ReportersAre
    <3>2. Taken(i)' = Taken(i) \cup {t} /\ t \notin Taken(i)
      BY <1>4, <2>5 DEF Taken
    <3>3. Cardinality(Taken(i)') = Cardinality(Taken(i)) + 1
      BY <2>0, <3>2, ReportersAre, FS_AddElement
    <3> QED
      BY <2>0, <2>1, <2>2, <3>1, <3>3, ReportersAre
  <2> QED
    BY <2>0, <2>4, <2>5, ReportersAre
<1>7. \A i \in Items : FlagSet(i)' <=> FlagSet(i)
  BY <1>1 DEF FlagSet
<1>8. FlagsOK'
  BY <1>1, <1>6, <1>7 DEF ListInv, FlagsOK
<1>9. S!NotifiedIsReported'
  BY <1>1, <1>6 DEF ListInv, ListTypeOK, S!NotifiedIsReported
<1>10. /\ \A u \in Threads : vop'[u].op # "push"
       /\ \A i \in 1..Len(slots') : slots'[i] # Uninit
  BY <1>1 DEF ListInv
<1> QED
  BY <1>2, <1>3, <1>5, <1>8, <1>9, <1>10 DEF ListInv

\* A reset clears the flag of an id that it alone reports.
LEMMA ClearInv ==
  ASSUME S!ListAssumption, ListInv, NEW t \in Threads, S!Clear(t)
  PROVE  ListInv'
<1>1. PICK n \in batch[t] : /\ slots' = [slots EXCEPT ![n + 1] = FALSE]
                            /\ batch' = [batch EXCEPT ![t] = @ \ {n}]
                            /\ owed' = owed \ {n}
  BY DEF S!Clear
<1>2. /\ pc[t] = "clear" /\ vpc[t] = "reading"
      /\ UNCHANGED <<head, writeLock, vpc, vop, seen, notified, pc, item>>
  BY DEF S!Clear
<1>3. n \in Items /\ n \in Nat /\ ListTypeOK
  BY <1>1 DEF ListInv, ListTypeOK, S!ListAssumption
<1>4. S!Reporters(n) = 1 /\ FlagSet(n)
  <2>1. t \in Taken(n)
    BY <1>1 DEF Taken
  <2>2. Cardinality(Taken(n)) # 0
    BY <1>3, <2>1, ReportersAre, FS_EmptySet
  <2>3. S!Reporters(n) # 0
    BY <1>3, <2>2, ReportersAre
  <2> QED
    BY <1>3, <2>3 DEF ListInv, FlagsOK
<1>5. PICK k \in 1..head : k = n + 1
  BY <1>3, <1>4 DEF FlagSet, ListInv, VecInv, VecTypeOK
<1>6. /\ VecInv(BOOLEAN)'
      /\ Len(slots') = Len(slots)
      /\ \A i \in 1..Len(slots) : slots'[i] = IF i = k THEN FALSE ELSE slots[i]
      /\ \A i \in 1..Len(slots') : slots'[i] # Uninit
      /\ \A i \in 1..Len(slots') : i > head' => slots'[i] = FALSE
  <2>1. slots' = [slots EXCEPT ![k] = FALSE]
    BY <1>1, <1>5
  <2> QED
    BY <1>2, <2>1, PutFlagInv
<1>7. \A i \in Items : FlagSet(i)' <=> (i # n /\ FlagSet(i))
  <2>1. \A i \in Items : i \in Nat
    BY DEF S!ListAssumption
  <2>2. head \in Nat /\ head <= Len(slots) /\ Len(slots) \in Nat
    BY DEF ListInv, VecInv, VecTypeOK
  <2>3. ASSUME NEW i \in Items, i # n PROVE FlagSet(i)' <=> FlagSet(i)
    <3>1. i < head => i + 1 \in 1..Len(slots) /\ i + 1 # k
      BY <1>3, <1>5, <2>1, <2>2, <2>3
    <3>2. i < head => slots'[i + 1] = slots[i + 1]
      BY <1>6, <3>1
    <3> QED
      BY <1>2, <3>2 DEF FlagSet
  <2>4. ~ FlagSet(n)'
    <3>1. n + 1 \in 1..Len(slots) /\ n + 1 = k
      BY <1>3, <1>5, <2>2
    <3>2. slots'[n + 1] = FALSE
      BY <1>6, <3>1
    <3> QED
      BY <3>2 DEF FlagSet
  <2> QED
    BY <2>3, <2>4
<1>8. /\ batch'[t] = batch[t] \ {n} /\ \A u \in Threads \ {t} : batch'[u] = batch[u]
  BY <1>1 DEF ListInv, ListTypeOK
<1>9. ListTypeOK'
  BY <1>1, <1>2 DEF ListInv, ListTypeOK
<1>10. \A u \in Threads : ListCallOK(u)'
  <2>1. ListCallOK(t)'
    BY <1>2, <1>8 DEF ListInv, ListCallOK
  <2>2. ASSUME NEW u \in Threads \ {t} PROVE ListCallOK(u)'
    BY <1>2, <1>8 DEF ListInv, ListCallOK
  <2> QED
    BY <2>1, <2>2
<1>11. ASSUME NEW i \in Items
       PROVE  S!Reporters(i)' = IF i = n THEN 0 ELSE S!Reporters(i)
  <2>1. S!Listing(i)' = S!Listing(i) /\ notified'[i] = notified[i]
    BY <1>2 DEF S!Listing
  <2>2. S!Reporters(i)' = notified'[i] + Cardinality(S!Listing(i)') + Cardinality(Taken(i)')
    BY <1>9, ReportersAreNext
  <2>3. CASE i # n
    <3>1. Taken(i)' = Taken(i)
      BY <1>8, <2>3 DEF Taken
    <3> QED
      BY <1>3, <2>1, <2>2, <2>3, <3>1, ReportersAre
  <2>4. CASE i = n
    <3>1. Taken(i)' = Taken(i) \ {t} /\ t \in Taken(i)
      BY <1>1, <1>8, <2>4 DEF Taken
    <3>2. Cardinality(Taken(i)') = Cardinality(Taken(i)) - 1
      BY <1>3, <3>1, ReportersAre, FS_RemoveElement
    <3> QED
      BY <1>3, <1>4, <2>1, <2>2, <2>4, <3>2, ReportersAre
  <2> QED
    BY <2>3, <2>4
<1>12. FlagsOK'
  BY <1>6, <1>7, <1>11 DEF ListInv, FlagsOK
<1>13. S!NotifiedIsReported'
  BY <1>1, <1>11 DEF ListInv, ListTypeOK, S!NotifiedIsReported
<1>14. \A u \in Threads : vop'[u].op # "push"
  BY <1>2 DEF ListInv
<1> QED
  BY <1>6, <1>9, <1>10, <1>12, <1>13, <1>14 DEF ListInv

\* Every step of NotificationList keeps its invariant.
LEMMA ListNext ==
  ASSUME S!ListAssumption, ListInv, [S!Next]_(S!vars)
  PROVE  ListInv'
<1>1. CASE UNCHANGED S!vars
  <2>1. UNCHANGED <<slots, head, writeLock, vpc, vop, seen, notified, pc, item, batch, owed>>
    BY <1>1 DEF S!vars, S!vecVars, S!listVars
  <2>2. VecInv(BOOLEAN)'
    BY <2>1 DEF ListInv, VecInv, VecTypeOK, CallOK, SlotsOK
  <2>3. ListTypeOK' /\ \A t \in Threads : ListCallOK(t)'
    BY <2>1 DEF ListInv, ListTypeOK, ListCallOK
  <2>4. \A i \in Items : S!Listing(i)' = S!Listing(i) /\ (FlagSet(i)' <=> FlagSet(i))
    BY <2>1 DEF S!Listing, FlagSet
  <2>5. /\ \A i \in 1..Len(slots') : i > head' => slots'[i] = FALSE
        /\ owed' \subseteq Items /\ \A i \in owed' : i \in owed
    BY <2>1 DEF ListInv, FlagsOK, ListTypeOK
  <2>6. FlagsOK' /\ S!NotifiedIsReported'
    BY <2>1, <2>4, <2>5, SameReports
  <2> QED
    BY <2>1, <2>2, <2>3, <2>6 DEF ListInv
<1>2. CASE S!Next
  BY <1>2, CallNotifyInv, ListTakeInv, ResizedInv, OpenInv, LookInv, SwapInv, ListPushInv,
     ClearInv, EndResetInv, ListVecStep DEF S!Next, S!Step
<1> QED
  BY <1>1, <1>2

-----------------------------------------------------------------------------
(* The theorems *)

VectorsInv == (part = "intern" => InternInv) /\ (part = "list" => ListInv)

\* ConcurrentVec under its two clients: one writer at a time, at or after head and where there is
\* room; everything below head is written; a shard's numbers are of its own keys, each once; and
\* a flag is set exactly while one place will report its id.
THEOREM VectorsHold == Spec => []VectorsInv
<1>1. Init => VectorsInv
  BY PartsAssumption, InternInit, ListInit DEF Init, VectorsInv
<1>2. VectorsInv /\ [Next]_vars => VectorsInv'
  <2> SUFFICES ASSUME VectorsInv, [Next]_vars PROVE VectorsInv'
    OBVIOUS
  <2>1. CASE part' = "intern"
    <3>1. part = "intern" /\ [T!Next]_(T!vars)
      BY <2>1 DEF Next, Primitive, vars, primitives, handles, vecVars, internVars, T!vars, T!vecVars, T!internVars
    <3> QED
      BY <2>1, <3>1, PartsAssumption, InternNext DEF VectorsInv
  <2>2. CASE part' = "list"
    <3>1. part = "list" /\ [S!Next]_(S!vars)
      BY <2>2 DEF Next, Primitive, vars, primitives, handles, vecVars, listVars, S!vars, S!vecVars, S!listVars
    <3> QED
      BY <2>2, <3>1, PartsAssumption, ListNext DEF VectorsInv
  <2> QED
    BY <2>1, <2>2 DEF VectorsInv
<1> QED
  BY <1>1, <1>2, PTL DEF Spec

\* Whoever holds a ReadHandle of a ConcurrentVec sees initialized slots only, although head was
\* loaded before the lock was taken and the vector may have grown since.
THEOREM HandlesAreInitialized == Spec => []ReadsAreInitialized
<1>1. ASSUME NEW D, VecInv(D) PROVE S!ReadsAreInitialized
  BY <1>1 DEF VecInv, VecTypeOK, CallOK, SlotsOK, S!ReadsAreInitialized
<1>2. VectorsInv => ReadsAreInitialized
  BY <1>1 DEF VectorsInv, InternInv, ListInv, ReadsAreInitialized
<1> QED
  BY <1>2, VectorsHold, PTL

\* InternTable::intern is a bijection between keys and their numbers, across shards and threads,
\* and its lookups stay within the prefix they loaded.
THEOREM InterningIsRight == Spec => []InternedRightly
<1>1. InternInv => T!InternedRightly
  <2> SUFFICES ASSUME InternInv PROVE T!InternedRightly
    OBVIOUS
  <2>1. \A p \in interned : T!Shard(p[1]) \in T!Shards
    BY PartsAssumption, ShardIs DEF InternInv, InternTypeOK, T!InternAssumption
  <2>2. T!InternedOnce
    BY <2>1 DEF InternInv, AnswersOK, TablesOK, T!InternedOnce
  <2>3. T!LookupsInBounds
    BY DEF InternInv, LookupsOK, T!LookupsInBounds
  <2> QED
    BY <2>2, <2>3 DEF T!InternedRightly
<1>2. VectorsInv => InternedRightly
  BY <1>1 DEF VectorsInv, InternedRightly
<1> QED
  BY <1>2, VectorsHold, PTL

\* NotificationList loses no id and repeats none: what notify was called for is in the list, about
\* to be, or in the hands of a reset, and a set flag always has exactly one of these behind it.
THEOREM NothingIsSilenced == Spec => []ListIsComplete
<1>1. ListInv => S!ListIsComplete
  <2> SUFFICES ASSUME ListInv PROVE S!ListIsComplete
    OBVIOUS
  <2>1. S!FlagsAreBacked
    <3> SUFFICES ASSUME NEW i \in Items, i < Len(slots)
                 PROVE  S!Reporters(i) = IF slots[i + 1] THEN 1 ELSE 0
      BY DEF S!FlagsAreBacked, S!Flag
    <3>1. i \in Nat /\ head \in Nat /\ Len(slots) \in Nat
      BY PartsAssumption DEF S!ListAssumption, ListInv, VecInv, VecTypeOK
    <3>2. ~ (i < head) => slots[i + 1] = FALSE
      BY <3>1 DEF ListInv, FlagsOK
    <3> QED
      BY <3>2 DEF ListInv, FlagsOK, FlagSet
  <2> QED
    BY <2>1 DEF ListInv, S!ListIsComplete
<1>2. VectorsInv => ListIsComplete
  BY <1>1 DEF VectorsInv, ListIsComplete
<1> QED
  BY <1>2, VectorsHold, PTL

-----------------------------------------------------------------------------
(* Notification *)

NotificationTypeOK ==
  /\ flag \in BOOLEAN
  /\ pc \in [Threads -> {"idle", "fast", "lock", "test", "set", "sleep", "woken", "yes", "no"}]
  /\ call \in [Threads -> {"none", "wait", "timed", "notify"}]
  /\ late \in [Threads -> BOOLEAN]

\* A thread that began after the notification leaves at the first test of the flag: it never
\* takes the mutex, sleeps or times out.
LateLeavesAtOnce ==
  \A t \in Threads :
    /\ late[t] => flag
    /\ pc[t] = "yes" => flag
    /\ pc[t] = "lock" => call[t] = "notify" \/ ~late[t]
    /\ pc[t] \in {"test", "sleep", "woken", "no"} => ~late[t]

NotificationInv == NotificationTypeOK /\ LateLeavesAtOnce

\* The invariant of Notification holds at first.
LEMMA NotificationInit == ASSUME N!Init PROVE NotificationInv
BY DEF N!Init, NotificationInv, NotificationTypeOK, LateLeavesAtOnce

\* Every step of Notification keeps its invariant.
LEMMA NotificationNext == ASSUME NotificationInv, [N!Next]_(N!vars) PROVE NotificationInv'
<1> USE DEF NotificationInv, NotificationTypeOK, LateLeavesAtOnce, N!Goto
<1>1. CASE UNCHANGED N!vars
  BY <1>1 DEF N!vars
<1>2. ASSUME NEW t \in Threads, N!Call(t) PROVE NotificationInv'
  BY <1>2 DEF N!Call
<1>3. ASSUME NEW t \in Threads, N!FastPath(t) PROVE NotificationInv'
  BY <1>3 DEF N!FastPath
<1>4. ASSUME NEW t \in Threads, N!Lock(t) PROVE NotificationInv'
  BY <1>4 DEF N!Lock
<1>5. ASSUME NEW t \in Threads, N!Test(t) PROVE NotificationInv'
  BY <1>5 DEF N!Test
<1>6. ASSUME NEW t \in Threads, N!Wake(t) \/ N!Spurious(t) PROVE NotificationInv'
  BY <1>6 DEF N!Wake, N!Spurious
<1>7. ASSUME NEW t \in Threads, N!TimeOut(t) PROVE NotificationInv'
  BY <1>7 DEF N!TimeOut
<1>8. ASSUME NEW t \in Threads, N!Notify(t) PROVE NotificationInv'
  BY <1>8 DEF N!Notify
<1>9. ASSUME NEW t \in Threads, N!Return(t) PROVE NotificationInv'
  BY <1>9 DEF N!Return
<1> QED
  BY <1>1, <1>2, <1>3, <1>4, <1>5, <1>6, <1>7, <1>8, <1>9 DEF N!Next, N!Step

\* Notification::wait returns, and wait_timeout answers true, only after a notify, whatever
\* wakes the thread; and a timed wait that began after the notification reports no timeout.
THEOREM AnswersRight == Spec => []AnswerIsRight
<1> DEFINE Inv == part = "notification" => NotificationInv
<1>1. Init => Inv
  BY NotificationInit DEF Init
<1>2. Inv /\ [Next]_vars => Inv'
  <2> SUFFICES ASSUME Inv, [Next]_vars, part' = "notification" PROVE NotificationInv'
    OBVIOUS
  <2>1. part = "notification" /\ [N!Next]_(N!vars)
    BY DEF Next, Primitive, vars, primitives, notificationVars, N!vars
  <2> QED
    BY <2>1, NotificationNext
<1>3. Inv => AnswerIsRight
  BY DEF AnswerIsRight, N!AnswerIsRight, NotificationInv, LateLeavesAtOnce
<1> QED
  BY <1>1, <1>2, <1>3, PTL DEF Spec

-----------------------------------------------------------------------------
(* Counter and CounterReservation.  The ids a database can still hand out   *)
(* lie in ranges, of its execution states and of its free list, that are    *)
(* below its high-water mark, apart from each other and from every id in    *)
(* use.                                                                     *)

IdRange == [lo : Nat, hi : Nat]
States == [db : Databases, step : {"pop", "add", "have"}, lo : Nat, hi : Nat]

CountersTypeOK ==
  /\ next \in [Databases -> Nat \cup {None}]
  /\ recycled \in [Databases -> Seq(IdRange)]
  /\ state \in [Callers -> States \cup {None}]
  /\ used \in [Databases -> SUBSET Nat]
  /\ reused \in BOOLEAN

\* A state that has a range of a database.
Has(t, d) == state[t] # None /\ state[t].db = d /\ state[t].step = "have"

\* The ids of a range are unused and below the high-water mark.
Unused(d, r) ==
  /\ next[d] # None /\ r.lo <= r.hi /\ r.hi <= next[d]
  /\ \A id \in used[d] : id < r.lo \/ r.hi <= id

Apart(r, q) == r.hi <= q.lo \/ q.hi <= r.lo

RangesUnused ==
  \A d \in Databases :
    /\ \A t \in Callers : Has(t, d) => Unused(d, state[t])
    /\ \A i \in DOMAIN recycled[d] : Unused(d, recycled[d][i])

RangesApart ==
  \A d \in Databases :
    /\ \A t, u \in Callers : t # u /\ Has(t, d) /\ Has(u, d) => Apart(state[t], state[u])
    /\ \A i, j \in DOMAIN recycled[d] : i # j => Apart(recycled[d][i], recycled[d][j])
    /\ \A t \in Callers : \A i \in DOMAIN recycled[d] :
         Has(t, d) => Apart(state[t], recycled[d][i])

StatesLive == \A t \in Callers : state[t] # None => next[state[t].db] # None

CountersInv == CountersTypeOK /\ C!IdsAreFresh /\ StatesLive /\ RangesUnused /\ RangesApart

-----------------------------------------------------------------------------
\* At the start no database is open and nothing is reserved.
LEMMA CountersInit == ASSUME C!CountersAssumption PROVE C!Init => CountersInv
<1> SUFFICES ASSUME C!Init PROVE CountersInv
  OBVIOUS
<1>1. CountersTypeOK
  <2>1. recycled \in [Databases -> Seq(IdRange)]
    BY DEF C!Init
  <2>2. next \in [Databases -> Nat \cup {None}] /\ reused \in BOOLEAN
    BY DEF C!Init
  <2> QED BY <2>1, <2>2 DEF C!Init, CountersTypeOK
<1>2. C!IdsAreFresh /\ StatesLive
  BY DEF C!Init, C!IdsAreFresh, StatesLive
<1>3. RangesUnused /\ RangesApart
  BY DEF C!Init, RangesUnused, RangesApart, Has
<1> QED BY <1>1, <1>2, <1>3 DEF CountersInv

\* A new execution state has no range yet.
LEMMA CounterOpenInv ==
  ASSUME CountersInv, NEW t \in Callers, NEW d \in Databases, C!Open(t, d)
  PROVE  CountersInv'
<1> USE DEF CountersInv, C!Open, C!State
<1>1. CountersTypeOK'
  BY DEF CountersTypeOK, States
<1>2. \A u \in Callers, e \in Databases : Has(u, e)' => u # t /\ Has(u, e) /\ state'[u] = state[u]
  BY DEF CountersTypeOK, Has
<1>3. StatesLive'
  BY DEF StatesLive, CountersTypeOK
<1>4. RangesUnused'
  BY <1>2 DEF RangesUnused, Unused
<1>5. RangesApart'
  BY <1>2 DEF RangesApart, Apart
<1> QED BY <1>1, <1>3, <1>4, <1>5 DEF C!IdsAreFresh

\* A range taken from the free list keeps its place among the others.
LEMMA CounterPopInv ==
  ASSUME CountersInv, NEW t \in Callers, C!Pop(t)
  PROVE  CountersInv'
<1>0. PICK d \in Databases :
        d = state[t].db /\ state[t] \in States /\ recycled[d] \in Seq(IdRange) /\ next[d] # None
  BY DEF CountersInv, CountersTypeOK, C!Pop, States, StatesLive
<1>1. CASE recycled[d] = <<>>
  <2>1. /\ state' = [state EXCEPT ![t].step = "add"]
        /\ UNCHANGED <<recycled, next, used, reused>>
    BY <1>0, <1>1 DEF C!Pop
  <2>2. CountersTypeOK'
    BY <1>0, <2>1 DEF CountersInv, CountersTypeOK, States
  <2>3. \A u \in Callers, e \in Databases : Has(u, e)' => u # t /\ Has(u, e) /\ state'[u] = state[u]
    BY <1>0, <2>1 DEF CountersInv, CountersTypeOK, Has, States
  <2>4. StatesLive'
    BY <1>0, <2>1 DEF CountersInv, StatesLive, CountersTypeOK, States
  <2>5. RangesUnused' /\ RangesApart'
    BY <2>1, <2>3 DEF CountersInv, RangesUnused, Unused, RangesApart, Apart
  <2> QED BY <2>1, <2>2, <2>4, <2>5 DEF CountersInv, C!IdsAreFresh
<1>2. CASE recycled[d] # <<>>
  <2>0. PICK r : r = Head(recycled[d])
    OBVIOUS
  <2>1. /\ state' = [state EXCEPT ![t] = C!State(d, "have", r.lo, r.hi)]
        /\ recycled' = [recycled EXCEPT ![d] = Tail(@)]
        /\ UNCHANGED <<next, used, reused>>
    BY <1>0, <1>2, <2>0 DEF C!Pop
  <2>2. /\ r \in IdRange /\ r = recycled[d][1] /\ 1 \in DOMAIN recycled[d]
        /\ Tail(recycled[d]) \in Seq(IdRange)
        /\ DOMAIN Tail(recycled[d]) \subseteq Nat
        /\ \A i \in DOMAIN Tail(recycled[d]) :
             /\ i + 1 \in DOMAIN recycled[d] /\ i + 1 # 1
             /\ Tail(recycled[d])[i] = recycled[d][i + 1]
    BY <1>0, <1>2, <2>0
  <2>3. \A e \in Databases : recycled'[e] = IF e = d THEN Tail(recycled[d]) ELSE recycled[e]
    BY <2>1 DEF CountersInv, CountersTypeOK
  <2>4. CountersTypeOK'
    BY <1>0, <2>1, <2>2 DEF CountersInv, CountersTypeOK, States, C!State, IdRange
  <2>5. state'[t] = C!State(d, "have", r.lo, r.hi) /\ \A e \in Databases : Has(t, e)' => e = d
    BY <1>0, <2>1 DEF CountersInv, CountersTypeOK, C!State, Has
  <2>6. \A u \in Callers \ {t} : state'[u] = state[u] /\ \A e \in Databases : Has(u, e)' <=> Has(u, e)
    BY <2>1 DEF CountersInv, CountersTypeOK, Has
  <2>7. StatesLive'
    BY <1>0, <2>1, <2>5, <2>6 DEF CountersInv, StatesLive, C!State
  <2>8. RangesUnused'
    <3>1. Unused(d, state[t])'
      BY <1>0, <2>1, <2>2, <2>5 DEF CountersInv, RangesUnused, Unused, C!State
    <3>2. ASSUME NEW e \in Databases, NEW i \in DOMAIN recycled'[e]
          PROVE  Unused(e, recycled[e][i])'
      <4>1. \E j \in DOMAIN recycled[e] : recycled'[e][i] = recycled[e][j]
        BY <3>2, <2>2, <2>3
      <4> QED BY <4>1, <2>1 DEF CountersInv, RangesUnused, Unused
    <3>3. ASSUME NEW e \in Databases, NEW u \in Callers, Has(u, e)'
          PROVE  Unused(e, state[u])'
      BY <3>1, <3>3, <2>1, <2>5, <2>6 DEF CountersInv, RangesUnused, Unused
    <3> QED BY <3>2, <3>3 DEF RangesUnused
  <2>9. RangesApart'
    <3>1. ASSUME NEW e \in Databases, NEW u \in Callers, NEW v \in Callers,
                 u # v, Has(u, e)', Has(v, e)'
          PROVE  Apart(state[u], state[v])'
      BY <3>1, <2>2, <2>5, <2>6 DEF CountersInv, RangesApart, Apart, C!State
    <3>2. ASSUME NEW e \in Databases, NEW i \in DOMAIN recycled'[e], NEW j \in DOMAIN recycled'[e], i # j
          PROVE  Apart(recycled[e][i], recycled[e][j])'
      <4>1. CASE e = d
        <5>1. i + 1 \in DOMAIN recycled[d] /\ j + 1 \in DOMAIN recycled[d] /\ i + 1 # j + 1
          <6>1. i \in DOMAIN Tail(recycled[d]) /\ j \in DOMAIN Tail(recycled[d])
            BY <4>1, <3>2, <2>3
          <6>2. i \in Nat /\ j \in Nat
            BY <6>1, <2>2
          <6> QED BY <6>1, <6>2, <3>2, <2>2
        <5>2. Apart(recycled[d][i + 1], recycled[d][j + 1])
          BY <5>1 DEF CountersInv, RangesApart
        <5> QED BY <4>1, <5>2, <3>2, <2>2, <2>3 DEF Apart
      <4>2. CASE e # d
        BY <4>2, <3>2, <2>3 DEF CountersInv, RangesApart, Apart
      <4> QED BY <4>1, <4>2
    <3>3. ASSUME NEW e \in Databases, NEW u \in Callers, NEW i \in DOMAIN recycled'[e], Has(u, e)'
          PROVE  Apart(state[u], recycled[e][i])'
      <4>1. CASE u = t
        <5>1. e = d /\ i + 1 \in DOMAIN recycled[d] /\ recycled'[d][i] = recycled[d][i + 1] /\ i + 1 # 1
          BY <4>1, <3>3, <2>2, <2>3, <2>5
        <5>2. Apart(r, recycled[d][i + 1])
          BY <5>1, <2>2 DEF CountersInv, RangesApart
        <5> QED BY <4>1, <5>1, <5>2, <2>5 DEF Apart, C!State
      <4>2. CASE u # t
        <5>1. PICK j \in DOMAIN recycled[e] : recycled'[e][i] = recycled[e][j]
          BY <3>3, <2>2, <2>3
        <5> QED BY <4>2, <3>3, <2>6, <5>1 DEF CountersInv, RangesApart, Apart
      <4> QED BY <4>1, <4>2
    <3> QED BY <3>1, <3>2, <3>3 DEF RangesApart
  <2> QED BY <2>1, <2>4, <2>7, <2>8, <2>9 DEF CountersInv, C!IdsAreFresh
<1> QED BY <1>1, <1>2

\* A range off the high-water mark is above all others.
LEMMA FetchAddInv ==
  ASSUME C!CountersAssumption, CountersInv, NEW t \in Callers, C!FetchAdd(t)
  PROVE  CountersInv'
<1>0. PICK d \in Databases :
        d = state[t].db /\ state[t] \in States /\ next[d] \in Nat /\ Size \in Nat
  BY DEF CountersInv, CountersTypeOK, C!FetchAdd, States, StatesLive, C!CountersAssumption
<1>1. /\ state' = [state EXCEPT ![t] = C!State(d, "have", next[d], next[d] + Size)]
      /\ next' = [next EXCEPT ![d] = @ + Size]
      /\ UNCHANGED <<recycled, used, reused>>
  BY <1>0 DEF C!FetchAdd
<1>2. CountersTypeOK'
  BY <1>0, <1>1 DEF CountersInv, CountersTypeOK, States, C!State
<1>3. \A e \in Databases : next'[e] = IF e = d THEN next[d] + Size ELSE next[e]
  BY <1>1 DEF CountersInv, CountersTypeOK
<1>4. next'[d] # None /\ next'[d] \in Nat /\ next[d] <= next'[d]
  BY <1>0, <1>3 DEF C!CountersAssumption
<1>5. state'[t] = C!State(d, "have", next[d], next[d] + Size) /\ \A e \in Databases : Has(t, e)' => e = d
  BY <1>0, <1>1 DEF CountersInv, CountersTypeOK, C!State, Has
<1>6. \A u \in Callers \ {t} : state'[u] = state[u] /\ \A e \in Databases : Has(u, e)' <=> Has(u, e)
  BY <1>1 DEF CountersInv, CountersTypeOK, Has
<1>7. C!IdsAreFresh' /\ StatesLive'
  <2>1. StatesLive'
    <3>1. next'[state'[t].db] # None
      BY <1>0, <1>4, <1>5 DEF C!State
    <3>2. ASSUME NEW u \in Callers, u # t, state[u] # None
          PROVE  next'[state[u].db] # None
      <4>1. state[u].db \in Databases /\ next[state[u].db] # None
        BY <3>2 DEF CountersInv, CountersTypeOK, States, StatesLive
      <4> QED BY <4>1, <1>3, <1>4
    <3> QED BY <3>1, <3>2, <1>6 DEF StatesLive
  <2>2. \A e \in Databases : next'[e] # None => \A id \in used'[e] : id < next'[e]
    BY <1>0, <1>1, <1>3, <1>4 DEF CountersInv, C!IdsAreFresh, CountersTypeOK, C!CountersAssumption
  <2> QED BY <1>1, <2>1, <2>2 DEF CountersInv, C!IdsAreFresh
<1>8. \A e \in Databases, r \in IdRange \cup States : Unused(e, r) => Unused(e, r)'
  BY <1>0, <1>1, <1>3, <1>4 DEF CountersInv, CountersTypeOK, Unused, IdRange, States
<1>9. RangesUnused'
  <2>1. Unused(d, state[t])'
    <3>1. state'[t].lo = next[d] /\ state'[t].hi = next[d] + Size /\ next'[d] = next[d] + Size
      BY <1>0, <1>3, <1>5 DEF C!State
    <3>2. \A id \in used'[d] : id \in Nat /\ id < next[d]
      BY <1>0, <1>1 DEF CountersInv, C!IdsAreFresh, CountersTypeOK, C!CountersAssumption
    <3> QED BY <1>0, <1>4, <3>1, <3>2 DEF Unused
  <2>2. ASSUME NEW e \in Databases, NEW u \in Callers, Has(u, e)'
        PROVE  Unused(e, state[u])'
    <3>1. CASE u = t
      BY <3>1, <2>1, <2>2, <1>5
    <3>2. CASE u # t
      <4>1. Has(u, e) /\ state'[u] = state[u] /\ state[u] \in States
        BY <3>2, <2>2, <1>6 DEF CountersInv, CountersTypeOK, Has
      <4>2. Unused(e, state[u])
        BY <4>1 DEF CountersInv, RangesUnused
      <4> QED BY <4>1, <4>2, <1>8 DEF Unused
    <3> QED BY <3>1, <3>2
  <2>3. ASSUME NEW e \in Databases, NEW i \in DOMAIN recycled'[e]
        PROVE  Unused(e, recycled[e][i])'
    <3>1. recycled[e][i] \in IdRange /\ Unused(e, recycled[e][i])
      BY <2>3, <1>1 DEF CountersInv, CountersTypeOK, RangesUnused
    <3> QED BY <3>1, <1>1, <1>8 DEF Unused
  <2> QED BY <2>2, <2>3 DEF RangesUnused
<1>10. \A e \in Databases : \A u \in Callers : u # t /\ Has(u, d) => Apart(state[t]', state[u])
  BY <1>0, <1>5 DEF CountersInv, CountersTypeOK, RangesUnused, Unused, Apart, C!State, States
<1>11. \A i \in DOMAIN recycled[d] : Apart(state[t]', recycled[d][i])
  BY <1>0, <1>5 DEF CountersInv, CountersTypeOK, RangesUnused, Unused, Apart, C!State, IdRange
<1>12. RangesApart'
  BY <1>1, <1>5, <1>6, <1>10, <1>11 DEF CountersInv, RangesApart, Apart
<1> QED BY <1>2, <1>7, <1>9, <1>12 DEF CountersInv

\* Handing out the first id of a range leaves the rest of it unused.
LEMMA NextIdInv ==
  ASSUME CountersInv, NEW t \in Callers, C!NextId(t)
  PROVE  CountersInv'
<1>0. PICK d \in Databases :
        d = state[t].db /\ state[t] \in States /\ next[d] # None /\ Has(t, d)
  BY DEF CountersInv, CountersTypeOK, C!NextId, States, StatesLive, Has
<1>1. CASE state[t].lo = state[t].hi
  <2>1. /\ state' = [state EXCEPT ![t].step = "pop"]
        /\ UNCHANGED <<recycled, next, used, reused>>
    BY <1>0, <1>1 DEF C!NextId, States
  <2>2. CountersTypeOK'
    BY <1>0, <2>1 DEF CountersInv, CountersTypeOK, States
  <2>3. \A u \in Callers, e \in Databases : Has(u, e)' => u # t /\ Has(u, e) /\ state'[u] = state[u]
    BY <1>0, <2>1 DEF CountersInv, CountersTypeOK, Has, States
  <2>4. StatesLive'
    BY <1>0, <2>1 DEF CountersInv, StatesLive, CountersTypeOK, States
  <2>5. RangesUnused' /\ RangesApart'
    BY <2>1, <2>3 DEF CountersInv, RangesUnused, Unused, RangesApart, Apart
  <2> QED BY <2>1, <2>2, <2>4, <2>5 DEF CountersInv, C!IdsAreFresh
<1>2. CASE state[t].lo < state[t].hi
  <2>0. PICK id \in Nat : id = state[t].lo
    BY <1>0 DEF States
  <2>1. /\ state' = [state EXCEPT ![t].lo = id + 1]
        /\ used' = [used EXCEPT ![d] = @ \cup {id}]
        /\ reused' = (reused \/ id \in used[d])
        /\ UNCHANGED <<next, recycled>>
    BY <1>0, <1>2, <2>0 DEF C!NextId, C!HandOut, States
  <2>2. Unused(d, state[t]) /\ id < state[t].hi /\ next[d] \in Nat /\ state[t].hi <= next[d]
    BY <1>0, <1>2, <2>0 DEF CountersInv, CountersTypeOK, RangesUnused, Unused
  <2>3. \A e \in Databases : used'[e] = IF e = d THEN used[d] \cup {id} ELSE used[e]
    BY <2>1 DEF CountersInv, CountersTypeOK
  <2>4. CountersTypeOK'
    <3>1. reused' \in BOOLEAN /\ used' \in [Databases -> SUBSET Nat]
      BY <2>1 DEF CountersInv, CountersTypeOK
    <3>2. state' \in [Callers -> States \cup {None}]
      <4>1. [state[t] EXCEPT !.lo = id + 1] \in States
        BY <1>0 DEF States
      <4> QED BY <4>1, <2>1 DEF CountersInv, CountersTypeOK
    <3> QED BY <3>1, <3>2, <2>1 DEF CountersInv, CountersTypeOK
  <2>5. C!IdsAreFresh'
    <3>1. id \notin used[d]
      BY <1>0, <2>0, <2>2 DEF Unused, States
    <3> QED BY <3>1, <2>0, <2>1, <2>2, <2>3, <1>0 DEF CountersInv, C!IdsAreFresh, CountersTypeOK, States
  <2>6. /\ state'[t].lo = id + 1 /\ state'[t].hi = state[t].hi
        /\ state'[t] # None => state'[t].db = d
    BY <1>0, <2>1 DEF CountersInv, CountersTypeOK, States
  <2>7. \A u \in Callers \ {t} : state'[u] = state[u] /\ \A e \in Databases : Has(u, e)' <=> Has(u, e)
    BY <2>1 DEF CountersInv, CountersTypeOK, Has
  <2>8. StatesLive'
    BY <1>0, <2>1, <2>6, <2>7 DEF CountersInv, StatesLive
  <2>9. \A e \in Databases : Has(t, e)' => e = d
    BY <2>6 DEF Has
  <2>10. RangesUnused'
    <3>1. ASSUME NEW q, Apart(state[t], q), Unused(d, q), q.lo \in Nat, q.hi \in Nat
          PROVE  \A x \in used'[d] : x < q.lo \/ q.hi <= x
      BY <3>1, <1>0, <2>0, <2>2, <2>3 DEF Apart, Unused, States
    <3>2. ASSUME NEW e \in Databases, NEW u \in Callers, Has(u, e)'
          PROVE  Unused(e, state[u])'
      <4>1. CASE u = t
        <5>1. e = d
          BY <4>1, <3>2, <2>9
        <5>2. \A x \in used'[d] : x \in Nat /\ (x < state'[t].lo \/ state'[t].hi <= x)
          BY <1>0, <2>0, <2>2, <2>3, <2>6 DEF Unused, States, CountersInv, CountersTypeOK
        <5> QED BY <4>1, <5>1, <5>2, <1>0, <2>0, <2>1, <2>2, <2>6 DEF Unused, States
      <4>2. CASE u # t
        <5>1. Has(u, e) /\ state'[u] = state[u] /\ state[u] \in States /\ Unused(e, state[u])
          BY <4>2, <3>2, <2>7 DEF CountersInv, RangesUnused, Has, CountersTypeOK
        <5>2. CASE e = d
          <6>1. Apart(state[t], state[u])
            BY <5>1, <5>2, <4>2, <1>0 DEF CountersInv, RangesApart
          <6> QED BY <6>1, <5>1, <5>2, <3>1, <2>1 DEF Unused, States
        <5> QED BY <5>1, <5>2, <2>1, <2>3 DEF Unused
      <4> QED BY <4>1, <4>2
    <3>3. ASSUME NEW e \in Databases, NEW i \in DOMAIN recycled'[e]
          PROVE  Unused(e, recycled[e][i])'
      <4>1. recycled[e][i] \in IdRange /\ Unused(e, recycled[e][i]) /\ recycled'[e] = recycled[e]
        BY <3>3, <2>1 DEF CountersInv, CountersTypeOK, RangesUnused
      <4>2. CASE e = d
        <5>1. Apart(state[t], recycled[d][i])
          BY <4>2, <3>3, <2>1, <1>0 DEF CountersInv, RangesApart
        <5> QED BY <5>1, <4>1, <4>2, <3>1, <2>1 DEF Unused, IdRange
      <4> QED BY <4>1, <4>2, <2>1, <2>3 DEF Unused
    <3> QED BY <3>2, <3>3 DEF RangesUnused
  <2>11. \A q : Apart(state[t], q) /\ q.hi \in Nat => Apart(state[t], q)' /\ Apart(q, state[t])'
    BY <1>0, <2>0, <2>6 DEF Apart, States
  <2>12. RangesApart'
    <3>1. ASSUME NEW e \in Databases, NEW u \in Callers, NEW v \in Callers,
                 u # v, Has(u, e)', Has(v, e)'
          PROVE  Apart(state[u], state[v])'
      <4>1. \A w \in Callers \ {t} : Has(w, d) => Apart(state[t], state[w]) /\ state[w] \in States
        BY <1>0 DEF CountersInv, RangesApart, CountersTypeOK, Has
      <4>2. CASE u = t
        BY <4>1, <4>2, <3>1, <2>7, <2>9, <2>11 DEF Apart, States
      <4>3. CASE v = t
        BY <4>1, <4>3, <3>1, <2>7, <2>9, <2>11 DEF Apart, States
      <4>4. CASE u # t /\ v # t
        BY <4>4, <3>1, <2>7 DEF CountersInv, RangesApart, Apart
      <4> QED BY <4>2, <4>3, <4>4
    <3>2. ASSUME NEW e \in Databases, NEW u \in Callers, NEW i \in DOMAIN recycled'[e], Has(u, e)'
          PROVE  Apart(state[u], recycled[e][i])'
      <4>1. \A j \in DOMAIN recycled[d] : Apart(state[t], recycled[d][j]) /\ recycled[d][j] \in IdRange
        BY <1>0 DEF CountersInv, RangesApart, CountersTypeOK
      <4>2. CASE u = t
        BY <4>1, <4>2, <3>2, <2>1, <2>9, <2>11 DEF Apart, IdRange
      <4>3. CASE u # t
        BY <4>3, <3>2, <2>1, <2>7 DEF CountersInv, RangesApart, Apart
      <4> QED BY <4>2, <4>3
    <3> QED BY <3>1, <3>2, <2>1 DEF CountersInv, RangesApart, Apart
  <2> QED BY <2>4, <2>5, <2>8, <2>10, <2>12 DEF CountersInv
<1> QED BY <1>0, <1>1, <1>2 DEF C!NextId

\* What is left of a dropped state's range is as far apart as it was.
LEMMA CounterDropInv ==
  ASSUME CountersInv, NEW t \in Callers, C!Drop(t)
  PROVE  CountersInv'
<1>0. PICK d \in Databases :
        d = state[t].db /\ state[t] \in States /\ next[d] # None /\ Has(t, d)
  BY DEF CountersInv, CountersTypeOK, C!Drop, States, StatesLive, Has
<1>1. /\ state' = [state EXCEPT ![t] = None]
      /\ UNCHANGED <<next, used, reused>>
  BY DEF C!Drop
<1>2. \A u \in Callers, e \in Databases : Has(u, e)' => u # t /\ Has(u, e) /\ state'[u] = state[u]
  BY <1>1 DEF CountersInv, CountersTypeOK, Has
<1>3. StatesLive'
  BY <1>1 DEF CountersInv, StatesLive, CountersTypeOK
<1>4. CASE ~(state[t].lo < state[t].hi)
  <2>1. recycled' = recycled
    BY <1>0, <1>4 DEF C!Drop, CountersInv, CountersTypeOK
  <2>2. CountersTypeOK'
    BY <1>1, <2>1 DEF CountersInv, CountersTypeOK
  <2>3. RangesUnused' /\ RangesApart'
    BY <1>1, <1>2, <2>1 DEF CountersInv, RangesUnused, Unused, RangesApart, Apart
  <2> QED BY <1>1, <1>3, <2>2, <2>3 DEF CountersInv, C!IdsAreFresh
<1>5. CASE state[t].lo < state[t].hi
  <2>0. PICK r \in IdRange : r = C!Left(t)
    BY <1>0 DEF C!Left, IdRange, States
  <2>1. recycled' = [recycled EXCEPT ![d] = Append(recycled[d], r)]
    BY <1>0, <1>5, <2>0 DEF C!Drop
  <2>2. PICK n \in Nat : n = Len(recycled[d]) /\ DOMAIN recycled[d] = 1..n /\ recycled[d] \in Seq(IdRange)
    BY DEF CountersInv, CountersTypeOK
  <2>3. /\ recycled'[d] \in Seq(IdRange) /\ DOMAIN recycled'[d] = 1..(n + 1)
        /\ recycled'[d][n + 1] = r
        /\ \A i \in 1..n : recycled'[d][i] = recycled[d][i]
        /\ \A e \in Databases \ {d} : recycled'[e] = recycled[e]
    BY <2>0, <2>1, <2>2 DEF CountersInv, CountersTypeOK
  <2>4. CountersTypeOK'
    BY <1>1, <2>1, <2>3 DEF CountersInv, CountersTypeOK
  <2>5. Unused(d, r) /\ \A i \in 1..n : Apart(r, recycled[d][i])
    BY <1>0, <2>0, <2>2 DEF CountersInv, RangesUnused, RangesApart, Unused, Apart, C!Left
  <2>6. \A u \in Callers : Has(u, d)' => Apart(state[u]', r)
    BY <1>0, <1>2, <2>0 DEF CountersInv, RangesApart, Apart, C!Left
  <2>7. RangesUnused'
    <3>1. ASSUME NEW e \in Databases, NEW i \in DOMAIN recycled'[e]
          PROVE  Unused(e, recycled[e][i])'
      <4>1. CASE e = d /\ i = n + 1
        BY <4>1, <1>1, <2>3, <2>5 DEF Unused
      <4>2. CASE ~(e = d /\ i = n + 1)
        <5>1. i \in DOMAIN recycled[e] /\ recycled'[e][i] = recycled[e][i]
          BY <4>2, <3>1, <2>2, <2>3
        <5> QED BY <5>1, <1>1 DEF CountersInv, RangesUnused, Unused
      <4> QED BY <4>1, <4>2
    <3> QED BY <3>1, <1>1, <1>2 DEF CountersInv, RangesUnused, Unused
  <2>8. RangesApart'
    <3>1. ASSUME NEW e \in Databases, NEW i \in DOMAIN recycled'[e], NEW j \in DOMAIN recycled'[e], i # j
          PROVE  Apart(recycled[e][i], recycled[e][j])'
      <4>1. CASE e = d /\ (i = n + 1 \/ j = n + 1)
        BY <4>1, <3>1, <2>2, <2>3, <2>5 DEF Apart
      <4>2. CASE ~(e = d /\ (i = n + 1 \/ j = n + 1))
        <5>1. /\ i \in DOMAIN recycled[e] /\ recycled'[e][i] = recycled[e][i]
              /\ j \in DOMAIN recycled[e] /\ recycled'[e][j] = recycled[e][j]
          BY <4>2, <3>1, <2>2, <2>3
        <5> QED BY <5>1, <3>1 DEF CountersInv, RangesApart, Apart
      <4> QED BY <4>1, <4>2
    <3>2. ASSUME NEW e \in Databases, NEW u \in Callers, NEW i \in DOMAIN recycled'[e], Has(u, e)'
          PROVE  Apart(state[u], recycled[e][i])'
      <4>1. CASE e = d /\ i = n + 1
        BY <4>1, <3>2, <2>3, <2>6 DEF Apart
      <4>2. CASE ~(e = d /\ i = n + 1)
        <5>1. i \in DOMAIN recycled[e] /\ recycled'[e][i] = recycled[e][i]
          BY <4>2, <3>2, <2>2, <2>3
        <5> QED BY <5>1, <3>2, <1>2 DEF CountersInv, RangesApart, Apart
      <4> QED BY <4>1, <4>2
    <3> QED BY <3>1, <3>2, <1>2 DEF CountersInv, RangesApart, Apart
  <2> QED BY <1>1, <1>3, <2>4, <2>7, <2>8 DEF CountersInv, C!IdsAreFresh
<1> QED BY <1>4, <1>5

\* An id off the high-water mark is above all ranges.
LEMMA IncInv ==
  ASSUME C!CountersAssumption, CountersInv, NEW d \in Databases, C!Inc(d)
  PROVE  CountersInv'
<1>0. PICK n \in Nat : n = next[d]
  BY DEF C!Inc, CountersInv, CountersTypeOK
<1>1. /\ next' = [next EXCEPT ![d] = n + 1]
      /\ used' = [used EXCEPT ![d] = @ \cup {n}]
      /\ reused' = (reused \/ n \in used[d])
      /\ UNCHANGED <<recycled, state>>
  BY <1>0 DEF C!Inc, C!HandOut
<1>2. /\ n # None /\ n + 1 # None
      /\ \A id \in used[d] : id \in Nat /\ id < n
  <2>1. n # None /\ n + 1 # None
    BY DEF C!CountersAssumption
  <2>2. used[d] \subseteq Nat
    BY DEF CountersInv, CountersTypeOK
  <2> QED BY <1>0, <2>1, <2>2 DEF CountersInv, C!IdsAreFresh
<1>3. \A e \in Databases : /\ used'[e] = IF e = d THEN used[d] \cup {n} ELSE used[e]
                           /\ next'[e] = IF e = d THEN n + 1 ELSE next[e]
  BY <1>1 DEF CountersInv, CountersTypeOK
<1>4. CountersTypeOK'
  <2>1. reused' \in BOOLEAN
    BY <1>1 DEF CountersInv, CountersTypeOK
  <2> QED BY <2>1, <1>1 DEF CountersInv, CountersTypeOK
<1>5. C!IdsAreFresh' /\ StatesLive'
  <2>1. \A e \in Databases : next'[e] # None => \A id \in used'[e] : id < next'[e]
    BY <1>0, <1>2, <1>3 DEF CountersInv, C!IdsAreFresh
  <2>2. ~reused'
    <3>1. n \notin used[d]
      BY <1>2
    <3> QED BY <3>1, <1>1 DEF CountersInv, C!IdsAreFresh
  <2>3. StatesLive'
    BY <1>1, <1>2, <1>3 DEF CountersInv, StatesLive, CountersTypeOK, States
  <2> QED BY <2>1, <2>2, <2>3 DEF C!IdsAreFresh
<1>6. \A e \in Databases : \A r : r.hi \in Nat /\ Unused(e, r) => Unused(e, r)'
  BY <1>0, <1>2, <1>3 DEF Unused
<1>7. RangesUnused'
  <2>1. ASSUME NEW e \in Databases, NEW u \in Callers, Has(u, e)'
        PROVE  Unused(e, state[u])'
    <3>1. Has(u, e) /\ state[u].hi \in Nat /\ Unused(e, state[u])
      BY <2>1, <1>1 DEF CountersInv, RangesUnused, CountersTypeOK, Has, States
    <3> QED BY <3>1, <1>1, <1>6 DEF Unused
  <2>2. ASSUME NEW e \in Databases, NEW i \in DOMAIN recycled'[e]
        PROVE  Unused(e, recycled[e][i])'
    <3>1. recycled[e][i].hi \in Nat /\ Unused(e, recycled[e][i])
      <4>1. recycled[e] \in Seq(IdRange) /\ i \in DOMAIN recycled[e]
        BY <2>2, <1>1 DEF CountersInv, CountersTypeOK
      <4>2. recycled[e][i] \in IdRange
        BY <4>1
      <4> QED BY <4>1, <4>2 DEF CountersInv, RangesUnused, IdRange
    <3> QED BY <3>1, <1>1, <1>6 DEF Unused
  <2> QED BY <2>1, <2>2 DEF RangesUnused
<1>8. RangesApart'
  BY <1>1 DEF CountersInv, RangesApart, Apart, Has
<1> QED BY <1>4, <1>5, <1>7, <1>8 DEF CountersInv

\* A clone has no ranges, and its high-water mark is above all ids it knows.
LEMMA CloneInv ==
  ASSUME C!CountersAssumption, CountersInv, NEW from \in Databases, NEW to \in Databases, C!Clone(from, to)
  PROVE  CountersInv'
<1>1. /\ next' = [next EXCEPT ![to] = next[from]]
      /\ used' = [used EXCEPT ![to] = used[from]]
      /\ UNCHANGED <<recycled, state, reused>>
      /\ next[from] # None /\ next[to] = None
  BY DEF C!Clone
<1>2. CountersTypeOK'
  BY <1>1 DEF CountersInv, CountersTypeOK
<1>3. \A e \in Databases \ {to} : next'[e] = next[e] /\ used'[e] = used[e]
  BY <1>1 DEF CountersInv, CountersTypeOK
<1>4. next'[to] = next[from] /\ used'[to] = used[from]
  BY <1>1 DEF CountersInv, CountersTypeOK
<1>5. C!IdsAreFresh'
  BY <1>1, <1>3, <1>4 DEF CountersInv, C!IdsAreFresh
<1>6. StatesLive'
  BY <1>1, <1>3, <1>4 DEF CountersInv, StatesLive, CountersTypeOK, States
<1>7. \A e \in Databases : \A r : Unused(e, r) => Unused(e, r)'
  BY <1>1, <1>3 DEF Unused
<1>8. RangesUnused'
  BY <1>1, <1>7 DEF CountersInv, RangesUnused, Has, Unused
<1>9. RangesApart'
  BY <1>1 DEF CountersInv, RangesApart, Apart, Has
<1> QED BY <1>2, <1>5, <1>6, <1>8, <1>9 DEF CountersInv

\* Every step of the counters keeps the invariant.
LEMMA CountersNext == ASSUME C!CountersAssumption, CountersInv, [C!Next]_(C!counterVars) PROVE CountersInv'
<1>1. ASSUME NEW t \in Callers, C!Pop(t) PROVE CountersInv'
  BY <1>1, CounterPopInv
<1>2. ASSUME NEW t \in Callers, C!FetchAdd(t) PROVE CountersInv'
  BY <1>2, FetchAddInv
<1>3. ASSUME NEW t \in Callers, C!NextId(t) PROVE CountersInv'
  BY <1>3, NextIdInv
<1>4. ASSUME NEW t \in Callers, C!Drop(t) PROVE CountersInv'
  BY <1>4, CounterDropInv
<1>5. ASSUME NEW t \in Callers, NEW d \in Databases, C!Open(t, d) PROVE CountersInv'
  BY <1>5, CounterOpenInv
<1>6. ASSUME NEW d \in Databases, C!Inc(d) PROVE CountersInv'
  BY <1>6, IncInv
<1>7. ASSUME NEW from \in Databases, NEW to \in Databases, C!Clone(from, to) PROVE CountersInv'
  BY <1>7, CloneInv
<1>8. CASE UNCHANGED C!counterVars
  BY <1>8 DEF C!counterVars, CountersInv, CountersTypeOK, C!IdsAreFresh, StatesLive, RangesUnused, RangesApart,
              Unused, Apart, Has
<1> QED BY <1>1, <1>2, <1>3, <1>4, <1>5, <1>6, <1>7, <1>8 DEF C!Next

\* The ranges of a counter stay apart and unused, for every number of threads, databases and
\* clones and every reservation size.
THEOREM RangesStayApart == ASSUME C!CountersAssumption PROVE C!Spec => []CountersInv
<1>1. C!Init => CountersInv
  BY CountersInit
<1>2. CountersInv /\ [C!Next]_(C!counterVars) => CountersInv'
  BY CountersNext
<1> QED BY <1>1, <1>2, PTL DEF C!Spec

\* No id is handed out twice by a database or its clones (Counter, CounterReservation), however
\* ranges are returned, taken by other threads and given back.
THEOREM FreshIds == ASSUME C!CountersAssumption PROVE C!Spec => []C!IdsAreFresh
<1>1. CountersInv => C!IdsAreFresh
  BY DEF CountersInv
<1> QED BY <1>1, RangesStayApart, PTL

\* No Counter hands out an id twice, or one it had when its database was cloned, for any
\* threads, databases and reservation size.
THEOREM CountersAreFresh == Spec => []IdsAreFresh
<1> DEFINE Inv == part = "counter" => CountersInv
<1>1. Init => Inv
  BY PartsAssumption, CountersInit DEF Init
<1>2. Inv /\ [Next]_vars => Inv'
  <2> SUFFICES ASSUME Inv, [Next]_vars, part' = "counter" PROVE CountersInv'
    OBVIOUS
  <2>1. part = "counter" /\ [C!Next]_(C!counterVars)
    BY DEF Next, Primitive, vars, counterVars, C!counterVars
  <2> QED
    BY <2>1, PartsAssumption, CountersNext
<1>3. Inv => IdsAreFresh
  BY DEF IdsAreFresh, CountersInv
<1> QED
  BY <1>1, <1>2, <1>3, PTL DEF Spec

-----------------------------------------------------------------------------
(* ReadOptimizedLock.  A writer has the data to itself.  What has to be     *)
(* carried along is why waiting for one token is enough: every reference to *)
(* a readable token that is no longer in the lock is to the one the current *)
(* writer waits for, and that token is not notified while anyone refers to  *)
(* it.                                                                      *)

LockPlaces == {"idle", "read", "read_wait", "reading", "write", "write_wait", "swap", "retry",
           "drain", "writing", "unblock"}

LockTypeOK ==
  /\ kind \in [Tokens -> {"ok", "write"}]
  /\ sent \in SUBSET Tokens
  /\ stored \in Tokens
  /\ guards \in [Threads -> SUBSET Tokens]
  /\ due \in [Threads -> SUBSET Tokens]
  /\ note \in [Threads -> Tokens \cup {None}]
  /\ mine \in [Threads -> Tokens \cup {None}]
  /\ pc \in [Threads -> LockPlaces]

\* The token of a writer is in the lock until the writer has unlocked it.
WriterOwnsLock ==
  \A t \in Threads :
    /\ pc[t] \in {"drain", "writing"} => mine[t] = stored /\ kind[stored] = "write"
    /\ pc[t] = "unblock" => mine[t] \in Tokens /\ mine[t] # stored /\ kind[mine[t]] = "write"

OneWriter ==
  \A t, u \in Threads :
    pc[t] \in {"drain", "writing"} /\ pc[u] \in {"drain", "writing"} => t = u

\* What a thread has loaded is readable, and what a writer waits for was.
LoadedIsReadable ==
  \A t \in Threads :
    /\ pc[t] = "reading" => \A k \in guards[t] : kind[k] = "ok"
    /\ pc[t] = "reading" => guards[t] # {}
    /\ pc[t] = "swap" => guards[t] = {note[t]} /\ note[t] \in Tokens /\ kind[note[t]] = "ok"
    /\ pc[t] = "drain" => note[t] \in Tokens /\ kind[note[t]] = "ok"

\* A readable token that somebody refers to is in the lock, or a writer waits for it.
ReadersAreAwaited ==
  \A u \in Threads : \A k \in guards[u] :
    kind[k] = "ok" => k = stored \/ \E t \in Threads : pc[t] = "drain" /\ note[t] = k

\* What a writer waits for is notified only once nobody refers to it.
NotifiedIsDrained ==
  \A t \in Threads :
    pc[t] = "drain" /\ note[t] \in sent => \A u \in Threads : note[t] \notin guards[u]

DueIsDropped ==
  \A t \in Threads : \A k \in due[t] :
    kind[k] = "ok" /\ k # stored /\ \A u \in Threads : k \notin guards[u]

LockInvariant ==
  /\ LockTypeOK
  /\ WriterOwnsLock
  /\ OneWriter
  /\ LoadedIsReadable
  /\ ReadersAreAwaited
  /\ NotifiedIsDrained
  /\ DueIsDropped
  /\ stored \notin sent

\* The allocator hands out an address nothing refers to.
LEMMA NewIsFree ==
  ASSUME NEW k \in L!New
  PROVE  /\ k \in Tokens /\ k # stored
         /\ \A t \in Threads : k # note[t] /\ k # mine[t] /\ k \notin guards[t] /\ k \notin due[t]
BY DEF L!New, L!Free

\* The lock starts with one readable token and nobody using it.
LEMMA LockInit == ASSUME L!PoolIsLarge, L!Init PROVE LockInvariant
<1>1. stored \in Tokens
  BY DEF L!Init, L!PoolIsLarge
<1> QED
  BY <1>1 DEF L!Init, LockInvariant, LockTypeOK, LockPlaces, WriterOwnsLock, OneWriter, LoadedIsReadable,
     ReadersAreAwaited, NotifiedIsDrained, DueIsDropped

\* Steps that only move a thread between places where it owns nothing.
LEMMA LockCallInv ==
  ASSUME LockInvariant, NEW t \in Threads, L!CallRead(t) \/ L!CallWrite(t)
  PROVE  LockInvariant'
<1>1. /\ pc[t] = "idle"
      /\ \E p \in {"read", "write"} : pc' = [pc EXCEPT ![t] = p]
      /\ UNCHANGED <<kind, sent, stored, guards, due, note, mine>>
  BY DEF L!CallRead, L!CallWrite, L!At, L!Goto
<1>2. LockTypeOK'
  BY <1>1 DEF LockInvariant, LockTypeOK, LockPlaces
<1>3. \A u \in Threads : \A p \in {"drain", "writing", "unblock", "reading", "swap"} :
        pc'[u] = p <=> pc[u] = p
  BY <1>1 DEF LockInvariant, LockTypeOK, LockPlaces
<1>4. WriterOwnsLock' /\ OneWriter'
  BY <1>1, <1>3 DEF LockInvariant, WriterOwnsLock, OneWriter
<1>5. LoadedIsReadable' /\ ReadersAreAwaited' /\ NotifiedIsDrained' /\ DueIsDropped'
  BY <1>1, <1>3
     DEF LockInvariant, LoadedIsReadable, ReadersAreAwaited, NotifiedIsDrained, DueIsDropped
<1> QED
  BY <1>1, <1>2, <1>4, <1>5 DEF LockInvariant

\* Triggering: nobody refers to the token by now.
LEMMA TriggerInv ==
  ASSUME LockInvariant, NEW t \in Threads, L!Trigger(t)
  PROVE  LockInvariant'
<1>1. PICK k \in due[t] : /\ sent' = sent \cup {k}
                          /\ due' = [due EXCEPT ![t] = @ \ {k}]
  BY DEF L!Trigger
<1>2. UNCHANGED <<kind, stored, guards, note, mine, pc>>
  BY DEF L!Trigger
<1>3. k \in Tokens /\ k # stored /\ \A u \in Threads : k \notin guards[u]
  BY DEF LockInvariant, LockTypeOK, DueIsDropped
<1>4. LockTypeOK'
  BY <1>1, <1>2, <1>3 DEF LockInvariant, LockTypeOK
<1>5. \A u \in Threads : due'[u] \subseteq due[u]
  BY <1>1 DEF LockInvariant, LockTypeOK
<1>6. DueIsDropped'
  BY <1>2, <1>5 DEF LockInvariant, DueIsDropped
<1>7. NotifiedIsDrained' /\ stored' \notin sent'
  BY <1>1, <1>2, <1>3 DEF LockInvariant, NotifiedIsDrained
<1>8. WriterOwnsLock' /\ OneWriter' /\ LoadedIsReadable' /\ ReadersAreAwaited'
  BY <1>2 DEF LockInvariant, WriterOwnsLock, OneWriter, LoadedIsReadable, ReadersAreAwaited
<1> QED
  BY <1>4, <1>6, <1>7, <1>8 DEF LockInvariant

\* A load takes a reference to the token in the lock, or waits.
LEMMA LockLoadInv ==
  ASSUME LockInvariant, L!PoolIsLarge, NEW t \in Threads, L!Read(t) \/ L!Load(t)
  PROVE  LockInvariant'
<1>1. /\ pc[t] \in {"read", "write"}
      /\ UNCHANGED <<kind, sent, stored, due, mine>>
  BY DEF L!Read, L!Load, L!At
<1>2. \/ /\ kind[stored] = "ok"
         /\ guards' = [guards EXCEPT ![t] = {stored}]
         /\ \/ pc' = [pc EXCEPT ![t] = "reading"] /\ note' = note
            \/ pc' = [pc EXCEPT ![t] = "swap"] /\ note' = [note EXCEPT ![t] = stored]
      \/ /\ guards' = guards
         /\ note' = [note EXCEPT ![t] = stored]
         /\ \E p \in {"read_wait", "write_wait"} : pc' = [pc EXCEPT ![t] = p]
  BY DEF L!Read, L!Load, L!Goto
<1>3. LockTypeOK'
  BY <1>1, <1>2 DEF LockInvariant, LockTypeOK, LockPlaces
<1>4. \A u \in Threads : \A p \in {"drain", "writing", "unblock"} : pc'[u] = p <=> pc[u] = p
  BY <1>1, <1>2 DEF LockInvariant, LockTypeOK, LockPlaces
<1>5. \A u \in Threads : pc[u] = "drain" => note'[u] = note[u]
  BY <1>1, <1>2 DEF LockInvariant, LockTypeOK, LockPlaces
<1>6. \A u \in Threads \ {t} : guards'[u] = guards[u] /\ note'[u] = note[u] /\ pc'[u] = pc[u]
  BY <1>2 DEF LockInvariant, LockTypeOK
<1>7. guards'[t] = guards[t] \/ (guards'[t] = {stored} /\ kind[stored] = "ok")
  BY <1>2 DEF LockInvariant, LockTypeOK
<1>8. WriterOwnsLock' /\ OneWriter'
  BY <1>1, <1>4 DEF LockInvariant, WriterOwnsLock, OneWriter
<1>9. LoadedIsReadable'
  <2>1. \/ /\ pc'[t] = "reading" /\ guards'[t] = {stored} /\ kind[stored] = "ok"
        \/ /\ pc'[t] = "swap" /\ guards'[t] = {stored} /\ kind[stored] = "ok"
           /\ note'[t] = stored
        \/ pc'[t] \in {"read_wait", "write_wait"}
    BY <1>2 DEF LockInvariant, LockTypeOK
  <2>2. stored \in Tokens
    BY DEF LockInvariant, LockTypeOK
  <2> QED
    BY <1>1, <1>6, <2>1, <2>2 DEF LockInvariant, LoadedIsReadable
<1>10. ReadersAreAwaited'
  BY <1>1, <1>4, <1>5, <1>6, <1>7 DEF LockInvariant, ReadersAreAwaited
<1>11. NotifiedIsDrained'
  BY <1>1, <1>4, <1>5, <1>6, <1>7 DEF LockInvariant, NotifiedIsDrained
<1>12. DueIsDropped'
  BY <1>1, <1>6, <1>7 DEF LockInvariant, DueIsDropped
<1> QED
  BY <1>1, <1>3, <1>8, <1>9, <1>10, <1>11, <1>12 DEF LockInvariant

\* References are dropped, and those that were the last are left to be triggered.
LEMMA GuardsDropInv ==
  ASSUME LockInvariant, L!PoolIsLarge, NEW t \in Threads, L!EndRead(t) \/ L!Retry(t)
  PROVE  LockInvariant'
<1>1. /\ pc[t] \in {"reading", "retry"}
      /\ UNCHANGED <<kind, sent, stored, mine>>
      /\ L!DropGuards(t)
      /\ \E p \in {"idle", "write"} : pc' = [pc EXCEPT ![t] = p]
      /\ note' = note \/ note' = [note EXCEPT ![t] = None]
  BY DEF L!EndRead, L!Retry, L!At, L!Goto
<1>2. LockTypeOK'
  BY <1>1 DEF LockInvariant, LockTypeOK, LockPlaces, L!DropGuards
<1>3. \A u \in Threads : \A p \in {"drain", "writing", "unblock"} : pc'[u] = p <=> pc[u] = p
  BY <1>1 DEF LockInvariant, LockTypeOK, LockPlaces
<1>4. \A u \in Threads \ {t} : /\ guards'[u] = guards[u] /\ note'[u] = note[u]
                              /\ pc'[u] = pc[u] /\ due'[u] = due[u]
  BY <1>1 DEF LockInvariant, LockTypeOK, L!DropGuards
<1>5. /\ guards'[t] = {}
      /\ pc'[t] \in {"idle", "write"}
      /\ \A k \in due'[t] : /\ kind[k] = "ok" /\ k # stored
                            /\ \A u \in Threads \ {t} : k \notin guards[u]
  BY <1>1 DEF LockInvariant, LockTypeOK, L!DropGuards
<1>6. WriterOwnsLock' /\ OneWriter'
  BY <1>1, <1>3 DEF LockInvariant, WriterOwnsLock, OneWriter
<1>7. LoadedIsReadable'
  BY <1>1, <1>4, <1>5 DEF LockInvariant, LoadedIsReadable
<1>8. ReadersAreAwaited'
  BY <1>1, <1>4, <1>5 DEF LockInvariant, ReadersAreAwaited
<1>9. NotifiedIsDrained'
  BY <1>1, <1>4, <1>5 DEF LockInvariant, NotifiedIsDrained
<1>10. DueIsDropped'
  BY <1>1, <1>4, <1>5 DEF LockInvariant, DueIsDropped
<1> QED
  BY <1>1, <1>2, <1>6, <1>7, <1>8, <1>9, <1>10 DEF LockInvariant

\* A thread that waited for a writer goes back to loading.
LEMMA NotifiedInv ==
  ASSUME LockInvariant, NEW t \in Threads, L!Notified(t)
  PROVE  LockInvariant'
<1>1. /\ pc[t] \in {"read_wait", "write_wait"}
      /\ UNCHANGED <<kind, sent, stored, guards, due, mine>>
      /\ \E p \in {"read", "write"} : pc' = [pc EXCEPT ![t] = p]
      /\ note' = [note EXCEPT ![t] = None]
  BY DEF L!Notified, L!At, L!Goto
<1>2. LockTypeOK'
  BY <1>1 DEF LockInvariant, LockTypeOK, LockPlaces
<1>3. \A u \in Threads \ {t} : note'[u] = note[u] /\ pc'[u] = pc[u]
  BY <1>1 DEF LockInvariant, LockTypeOK
<1>4. pc'[t] \in {"read", "write"}
  BY <1>1 DEF LockInvariant, LockTypeOK
<1>5. WriterOwnsLock' /\ OneWriter' /\ LoadedIsReadable'
  BY <1>1, <1>3, <1>4 DEF LockInvariant, WriterOwnsLock, OneWriter, LoadedIsReadable
<1>6. ReadersAreAwaited' /\ NotifiedIsDrained' /\ DueIsDropped'
  BY <1>1, <1>3, <1>4 DEF LockInvariant, ReadersAreAwaited, NotifiedIsDrained, DueIsDropped
<1> QED
  BY <1>1, <1>2, <1>5, <1>6 DEF LockInvariant

\* A compare-and-swap that succeeds finds the readable token the thread loaded, so no
\* writer is at work; the token it replaces becomes the one it waits for.
LEMMA LockSwapInv ==
  ASSUME LockInvariant, L!PoolIsLarge, NEW t \in Threads, L!Swap(t)
  PROVE  LockInvariant'
<1>1. pc[t] = "swap" /\ guards[t] = {note[t]} /\ note[t] \in Tokens /\ kind[note[t]] = "ok"
  BY DEF L!Swap, L!At, LockInvariant, LoadedIsReadable
<1>2. CASE /\ stored \in guards[t]
           /\ \E k \in L!New : /\ L!Allocate(k, "write")
                             /\ stored' = k
                             /\ mine' = [mine EXCEPT ![t] = k]
           /\ L!DropGuards(t)
           /\ L!Goto(t, "drain")
           /\ UNCHANGED note
  <2>1. PICK k \in L!New : /\ kind' = [kind EXCEPT ![k] = "write"]
                         /\ sent' = sent \ {k}
                         /\ stored' = k
                         /\ mine' = [mine EXCEPT ![t] = k]
    BY <1>2 DEF L!Allocate
  <2>2. /\ k \in Tokens /\ k # stored
        /\ \A u \in Threads :
             k # note[u] /\ k # mine[u] /\ k \notin guards[u] /\ k \notin due[u]
    BY NewIsFree
  <2>3. note[t] = stored /\ kind[stored] = "ok"
    BY <1>1, <1>2
  <2>4. \A u \in Threads : pc[u] \notin {"drain", "writing"}
    BY <2>3 DEF LockInvariant, WriterOwnsLock
  <2>5. pc' = [pc EXCEPT ![t] = "drain"] /\ note' = note
    BY <1>2 DEF L!Goto
  <2>6. LockTypeOK'
    BY <1>2, <2>1, <2>2, <2>5 DEF LockInvariant, LockTypeOK, LockPlaces, L!DropGuards
  <2>7. /\ \A j \in Tokens \ {k} : kind'[j] = kind[j]
        /\ kind'[k] = "write"
    BY <2>1, <2>2 DEF LockInvariant, LockTypeOK
  <2>8. /\ pc'[t] = "drain" /\ mine'[t] = k /\ guards'[t] = {}
        /\ \A u \in Threads \ {t} : /\ pc'[u] = pc[u] /\ mine'[u] = mine[u]
                                   /\ guards'[u] = guards[u] /\ due'[u] = due[u]
        /\ \A j \in due'[t] : /\ j \in guards[t] /\ kind[j] = "ok" /\ j # k
                              /\ \A u \in Threads \ {t} : j \notin guards[u]
    BY <1>2, <2>1, <2>5 DEF LockInvariant, LockTypeOK, L!DropGuards
  <2>9. \A u \in Threads : guards[u] \subseteq Tokens /\ due[u] \subseteq Tokens
    BY DEF LockInvariant, LockTypeOK
  <2>10. WriterOwnsLock' /\ OneWriter'
    BY <2>1, <2>2, <2>4, <2>7, <2>8 DEF LockInvariant, WriterOwnsLock, OneWriter
  <2>11. LoadedIsReadable'
    BY <1>1, <2>2, <2>4, <2>5, <2>7, <2>8, <2>9 DEF LockInvariant, LoadedIsReadable
  <2>12. ReadersAreAwaited'
    <3> SUFFICES ASSUME NEW u \in Threads, NEW j \in guards'[u], kind'[j] = "ok"
                 PROVE  \E v \in Threads : pc'[v] = "drain" /\ note'[v] = j
      BY DEF ReadersAreAwaited
    <3>1. u # t /\ j \in guards[u] /\ j \in Tokens /\ j # k
      BY <2>2, <2>8, <2>9
    <3>2. kind[j] = "ok"
      BY <3>1, <2>7
    <3>3. j = stored
      BY <3>1, <3>2, <2>4 DEF LockInvariant, ReadersAreAwaited
    <3> QED
      BY <3>3, <2>3, <2>5, <2>8
  <2>13. NotifiedIsDrained'
    BY <2>1, <2>3, <2>4, <2>5, <2>8 DEF LockInvariant, NotifiedIsDrained
  <2>14. DueIsDropped'
    <3> SUFFICES ASSUME NEW u \in Threads, NEW j \in due'[u]
                 PROVE  kind'[j] = "ok" /\ j # k /\ \A v \in Threads : j \notin guards'[v]
      BY <2>1 DEF DueIsDropped
    <3>1. CASE u = t
      BY <3>1, <2>7, <2>8, <2>9
    <3>2. CASE u # t
      <4>1. j \in due[u] /\ j \in Tokens /\ j # k
        BY <3>2, <2>2, <2>8, <2>9
      <4> QED
        BY <4>1, <2>7, <2>8 DEF LockInvariant, DueIsDropped
    <3> QED
      BY <3>1, <3>2
  <2> QED
    BY <2>1, <2>6, <2>10, <2>11, <2>12, <2>13, <2>14 DEF LockInvariant
<1>3. CASE /\ stored \notin guards[t]
           /\ guards' = [guards EXCEPT ![t] = @ \cup {stored}]
           /\ L!Goto(t, "retry")
           /\ UNCHANGED <<kind, sent, stored, due, note, mine>>
  <2>1. LockTypeOK'
    BY <1>3 DEF LockInvariant, LockTypeOK, LockPlaces, L!Goto
  <2>2. /\ pc'[t] = "retry" /\ guards'[t] = guards[t] \cup {stored}
        /\ \A u \in Threads \ {t} : pc'[u] = pc[u] /\ guards'[u] = guards[u]
    BY <1>3 DEF LockInvariant, LockTypeOK, L!Goto
  <2>3. WriterOwnsLock' /\ OneWriter'
    BY <1>1, <1>3, <2>2 DEF LockInvariant, WriterOwnsLock, OneWriter
  <2>4. LoadedIsReadable'
    BY <1>3, <2>2 DEF LockInvariant, LoadedIsReadable
  <2>5. ReadersAreAwaited'
    BY <1>1, <1>3, <2>2 DEF LockInvariant, ReadersAreAwaited
  <2>6. NotifiedIsDrained'
    BY <1>1, <1>3, <2>2 DEF LockInvariant, NotifiedIsDrained
  <2>7. DueIsDropped'
    BY <1>3, <2>2 DEF LockInvariant, DueIsDropped
  <2> QED
    BY <1>3, <2>1, <2>3, <2>4, <2>5, <2>6, <2>7 DEF LockInvariant
<1> QED
  BY <1>2, <1>3 DEF L!Swap

\* The writer is told that the token it replaced is gone.
LEMMA DrainedInv ==
  ASSUME LockInvariant, L!PoolIsLarge, NEW t \in Threads, L!Drained(t)
  PROVE  LockInvariant'
<1>1. /\ pc[t] = "drain" /\ note[t] \in sent
      /\ note' = [note EXCEPT ![t] = None]
      /\ pc' = [pc EXCEPT ![t] = "writing"]
      /\ UNCHANGED <<kind, sent, stored, guards, due, mine>>
  BY DEF L!Drained, L!At, L!Goto
<1>2. LockTypeOK'
  BY <1>1 DEF LockInvariant, LockTypeOK, LockPlaces
<1>3. /\ pc'[t] = "writing"
      /\ \A u \in Threads \ {t} : pc'[u] = pc[u] /\ note'[u] = note[u]
  BY <1>1 DEF LockInvariant, LockTypeOK
<1>4. \A u \in Threads : note[t] \notin guards[u]
  BY <1>1 DEF LockInvariant, NotifiedIsDrained
<1>5. WriterOwnsLock' /\ OneWriter'
  BY <1>1, <1>3 DEF LockInvariant, WriterOwnsLock, OneWriter
<1>6. LoadedIsReadable' /\ NotifiedIsDrained' /\ DueIsDropped'
  BY <1>1, <1>3 DEF LockInvariant, LoadedIsReadable, NotifiedIsDrained, DueIsDropped
<1>7. ReadersAreAwaited'
  BY <1>1, <1>3, <1>4 DEF LockInvariant, ReadersAreAwaited
<1> QED
  BY <1>1, <1>2, <1>5, <1>6, <1>7 DEF LockInvariant

\* The writer stores a new readable token.
LEMMA UnlockInv ==
  ASSUME LockInvariant, L!PoolIsLarge, NEW t \in Threads, L!Unlock(t)
  PROVE  LockInvariant'
<1>1. PICK k \in L!New : /\ kind' = [kind EXCEPT ![k] = "ok"]
                       /\ sent' = sent \ {k}
                       /\ stored' = k
  BY DEF L!Unlock, L!Allocate
<1>2. /\ pc[t] = "writing"
      /\ pc' = [pc EXCEPT ![t] = "unblock"]
      /\ UNCHANGED <<guards, due, note, mine>>
  BY DEF L!Unlock, L!At, L!Goto
<1>3. /\ k \in Tokens /\ k # stored
      /\ \A u \in Threads :
           k # note[u] /\ k # mine[u] /\ k \notin guards[u] /\ k \notin due[u]
  BY NewIsFree
<1>4. /\ \A j \in Tokens \ {k} : kind'[j] = kind[j]
      /\ kind'[k] = "ok"
  BY <1>1, <1>3 DEF LockInvariant, LockTypeOK
<1>5. LockTypeOK'
  BY <1>1, <1>2, <1>3 DEF LockInvariant, LockTypeOK, LockPlaces
<1>6. /\ pc'[t] = "unblock"
      /\ \A u \in Threads \ {t} : pc'[u] = pc[u]
  BY <1>2 DEF LockInvariant, LockTypeOK
<1>7. /\ mine[t] = stored /\ kind[stored] = "write" /\ stored \in Tokens
      /\ \A u \in Threads \ {t} : pc[u] \notin {"drain", "writing"}
  BY <1>2 DEF LockInvariant, LockTypeOK, WriterOwnsLock, OneWriter
<1>8. \A u \in Threads : guards[u] \subseteq Tokens /\ due[u] \subseteq Tokens
  BY DEF LockInvariant, LockTypeOK
<1>9. WriterOwnsLock' /\ OneWriter'
  BY <1>1, <1>2, <1>3, <1>4, <1>6, <1>7 DEF LockInvariant, WriterOwnsLock, OneWriter
<1>10. LoadedIsReadable'
  BY <1>2, <1>3, <1>4, <1>6, <1>7, <1>8 DEF LockInvariant, LoadedIsReadable
<1>11. ReadersAreAwaited'
  <2> SUFFICES ASSUME NEW u \in Threads, NEW j \in guards[u], kind'[j] = "ok"
               PROVE  FALSE
    BY <1>2 DEF ReadersAreAwaited
  <2>1. j \in Tokens /\ j # k /\ kind[j] = "ok"
    BY <1>3, <1>4, <1>8
  <2>2. j # stored
    BY <2>1, <1>7
  <2> QED
    BY <2>1, <2>2, <1>2, <1>7 DEF LockInvariant, ReadersAreAwaited
<1>12. NotifiedIsDrained'
  BY <1>2, <1>6, <1>7 DEF NotifiedIsDrained
<1>13. DueIsDropped'
  BY <1>1, <1>2, <1>3, <1>4, <1>8 DEF LockInvariant, DueIsDropped
<1> QED
  BY <1>1, <1>5, <1>9, <1>10, <1>11, <1>12, <1>13 DEF LockInvariant

\* The writer notifies those waiting for it; its own token is not one a writer drains.
LEMMA UnblockInv ==
  ASSUME LockInvariant, L!PoolIsLarge, NEW t \in Threads, L!Unblock(t)
  PROVE  LockInvariant'
<1>1. /\ pc[t] = "unblock"
      /\ sent' = sent \cup {mine[t]}
      /\ mine' = [mine EXCEPT ![t] = None]
      /\ pc' = [pc EXCEPT ![t] = "idle"]
      /\ UNCHANGED <<kind, stored, guards, due, note>>
  BY DEF L!Unblock, L!At, L!Goto
<1>2. mine[t] \in Tokens /\ mine[t] # stored /\ kind[mine[t]] = "write"
  BY <1>1 DEF LockInvariant, WriterOwnsLock
<1>3. LockTypeOK'
  BY <1>1, <1>2 DEF LockInvariant, LockTypeOK, LockPlaces
<1>4. /\ pc'[t] = "idle"
      /\ \A u \in Threads \ {t} : pc'[u] = pc[u] /\ mine'[u] = mine[u]
  BY <1>1 DEF LockInvariant, LockTypeOK
<1>5. WriterOwnsLock' /\ OneWriter'
  BY <1>1, <1>4 DEF LockInvariant, WriterOwnsLock, OneWriter
<1>6. LoadedIsReadable' /\ ReadersAreAwaited' /\ DueIsDropped'
  BY <1>1, <1>4 DEF LockInvariant, LoadedIsReadable, ReadersAreAwaited, DueIsDropped
<1>7. NotifiedIsDrained'
  BY <1>1, <1>2, <1>4 DEF LockInvariant, NotifiedIsDrained, LoadedIsReadable
<1> QED
  BY <1>1, <1>2, <1>3, <1>5, <1>6, <1>7 DEF LockInvariant

\* Every step of the lock keeps the invariant.
LEMMA LockNext == ASSUME LockInvariant, L!PoolIsLarge, [L!Next]_(L!vars) PROVE LockInvariant'
<1>1. CASE UNCHANGED L!vars
  BY <1>1 DEF L!vars, LockInvariant, LockTypeOK, WriterOwnsLock, OneWriter, LoadedIsReadable,
     ReadersAreAwaited, NotifiedIsDrained, DueIsDropped
<1>2. CASE L!Next
  <2>1. PICK t \in Threads : L!CallRead(t) \/ L!CallWrite(t) \/ L!Step(t)
    BY <1>2 DEF L!Next
  <2> QED
    BY <2>1, LockCallInv, TriggerInv, LockLoadInv, GuardsDropInv, NotifiedInv, LockSwapInv, DrainedInv,
       UnlockInv, UnblockInv DEF L!Step
<1> QED
  BY <1>1, <1>2

\* The protocol invariant of the lock: one writer at a time, every outstanding reference
\* to a readable token in the lock or awaited by that writer, and no notification before
\* the last reference is gone.
THEOREM ReadersAwaited == ASSUME L!PoolIsLarge PROVE L!Spec => []LockInvariant
<1>1. L!Init => LockInvariant
  BY LockInit
<1>2. LockInvariant /\ [L!Next]_(L!vars) => LockInvariant'
  BY LockNext
<1> QED
  BY <1>1, <1>2, PTL DEF L!Spec

\* The invariant excludes a reader or a second writer while a writer is in.
LEMMA LockExclusive == ASSUME LockInvariant PROVE L!Exclusive
<1> SUFFICES ASSUME NEW t \in Threads, NEW u \in Threads,
                    pc[t] = "writing", u # t, pc[u] \in {"reading", "writing"}
             PROVE  FALSE
  BY DEF L!Exclusive
<1>1. pc[u] = "reading" /\ kind[stored] = "write"
  BY DEF LockInvariant, OneWriter, WriterOwnsLock
<1>2. PICK k \in guards[u] : kind[k] = "ok"
  BY <1>1 DEF LockInvariant, LoadedIsReadable
<1>3. k # stored
  BY <1>1, <1>2
<1>4. PICK v \in Threads : pc[v] = "drain" /\ note[v] = k
  BY <1>2, <1>3 DEF LockInvariant, ReadersAreAwaited
<1>5. v = t
  BY <1>4 DEF LockInvariant, OneWriter
<1> QED
  BY <1>4, <1>5

\* While MutexWriter is held, no MutexReader and no other MutexWriter is: the readers that
\* a writer has to wait for are exactly those of the one token it replaced.
THEOREM MutualExclusion == ASSUME L!PoolIsLarge PROVE L!Spec => []L!Exclusive
<1>1. LockInvariant => L!Exclusive
  BY LockExclusive
<1> QED
  BY <1>1, ReadersAwaited, PTL

\* A MutexWriter is alone, for any threads and any pool of reused token addresses.
THEOREM WriterIsAlone == Spec => []Exclusive
<1> DEFINE Inv == part = "lock" => LockInvariant
<1>1. Init => Inv
  BY PartsAssumption, LockInit DEF Init
<1>2. Inv /\ [Next]_vars => Inv'
  <2> SUFFICES ASSUME Inv, [Next]_vars, part' = "lock" PROVE LockInvariant'
    OBVIOUS
  <2>1. part = "lock" /\ [L!Next]_(L!vars)
    BY DEF Next, Primitive, vars, primitives, lockVars, L!vars
  <2> QED
    BY <2>1, PartsAssumption, LockNext
<1>3. Inv => Exclusive
  BY LockExclusive DEF Exclusive
<1> QED
  BY <1>1, <1>2, <1>3, PTL DEF Spec

-----------------------------------------------------------------------------
(* ParallelVecWriter: the reserved length is covered by completed writes and   *)
(* by the ranges of the threads under way, no two of which meet, and whoever    *)
(* may write has seen a capacity that covers its range and cannot shrink.       *)

WriterPlaces == {"idle", "check", "lock", "drain", "open", "write"}

\* The allocation is one block of memory from index 0.
Block(b) == \E c \in Nat : b \in [0..c - 1 -> Threads \cup {None, Junk}]

WriterTypeOK ==
  /\ Block(buf)
  /\ endLen \in Nat
  /\ readers \in SUBSET Threads
  /\ pc \in [Threads -> WriterPlaces]
  /\ range \in [Threads -> [start : Nat, end : Nat]]
  /\ at \in [Threads -> Nat]
  /\ DOMAIN done \subseteq 0..endLen - 1

UnderWay(t) == pc[t] # "idle"
InRange(i, t) == range[t].start <= i /\ i < range[t].end

RangesAreReserved == \A t \in Threads : UnderWay(t) =>
  range[t].start < range[t].end /\ range[t].end <= endLen

RangesAreApart ==
  \A t, u \in Threads : UnderWay(t) /\ UnderWay(u) /\ t # u =>
    range[t].end <= range[u].start \/ range[u].end <= range[t].start

\* An index is written, or reserved by a thread under way, and not both.
DoneOrReserved ==
  /\ \A i \in 0..endLen - 1 : i \in DOMAIN done \/ \E t \in Threads : UnderWay(t) /\ InRange(i, t)
  /\ \A t \in Threads : UnderWay(t) => \A i \in DOMAIN done : ~InRange(i, t)

RoomIsThere == \A t \in Threads : pc[t] \in {"open", "write"} => range[t].end <= W!Capacity

PrefixIsWritten ==
  \A t \in Threads : pc[t] = "write" =>
    /\ range[t].start <= at[t] /\ at[t] <= range[t].end
    /\ \A i \in range[t].start..at[t] - 1 : buf[i] = t

WriterInvariant ==
  /\ WriterTypeOK
  /\ RangesAreReserved
  /\ RangesAreApart
  /\ DoneOrReserved
  /\ RoomIsThere
  /\ PrefixIsWritten
  /\ W!WritesSurvive

-----------------------------------------------------------------------------

\* The capacity is the cardinality of the allocation's indices.
LEMMA CapacityIs == W!Capacity = Cardinality(DOMAIN buf)
BY DEF W!Capacity, W!Cardinality, Cardinality

\* The capacity of a block is one more than its last index.
LEMMA BlockCapacity ==
  ASSUME NEW c \in Nat, NEW b, DOMAIN b = 0..c - 1
  PROVE  Cardinality(DOMAIN b) = c
BY FS_Interval

\* Of the current allocation, what the proofs use.
LEMMA BufIsBlock ==
  ASSUME Block(buf)
  PROVE  /\ W!Capacity \in Nat
         /\ DOMAIN buf = 0..W!Capacity - 1
         /\ buf \in [0..W!Capacity - 1 -> Threads \cup {None, Junk}]
<1>1. PICK c \in Nat : buf \in [0..c - 1 -> Threads \cup {None, Junk}]
  BY DEF Block
<1>2. DOMAIN buf = 0..c - 1
  BY <1>1
<1>3. Cardinality(DOMAIN buf) = c
  BY <1>2, BlockCapacity
<1>4. W!Capacity = c
  BY <1>3, CapacityIs
<1> QED
  BY <1>1, <1>2, <1>4

\* An empty sequence is an allocation without room.
LEMMA EmptyBlock == Block(<<>>) /\ DOMAIN <<>> = {}
<1>1. 0..(0 - 1) = {}
  OBVIOUS
<1>2. <<>> \in [{} -> Threads \cup {None, Junk}]
  OBVIOUS
<1>3. DOMAIN <<>> = {}
  OBVIOUS
<1> QED
  BY <1>1, <1>2, <1>3 DEF Block

\* The vector passed to new is full.
LEMMA WriterInit == ASSUME W!WriterAssumption, W!Init PROVE WriterInvariant
<1>1. WriterTypeOK
  <2>1. Block(buf)
    BY DEF W!Init, W!WriterAssumption, Block
  <2> QED
    BY <2>1 DEF W!Init, W!WriterAssumption, WriterTypeOK, WriterPlaces, W!NoRange
<1> QED
  BY <1>1 DEF W!Init, W!WriterAssumption, WriterInvariant, RangesAreReserved, RangesAreApart, DoneOrReserved,
     RoomIsThere, PrefixIsWritten, W!WritesSurvive, UnderWay

\* fetch_add: the new range lies beyond all others.
LEMMA ReserveKeeps ==
  ASSUME WriterInvariant, W!WriterAssumption, NEW t \in Threads, W!Reserve(t)
  PROVE  WriterInvariant'
<1>1. PICK n \in 1..MaxItems :
        /\ endLen' = endLen + n
        /\ range' = [range EXCEPT ![t] = [start |-> endLen, end |-> endLen + n]]
  BY DEF W!Reserve
<1>2. /\ pc[t] = "idle" /\ pc' = [pc EXCEPT ![t] = "check"]
      /\ buf' = buf /\ readers' = readers /\ at' = at /\ done' = done
  BY DEF W!Reserve, W!Goto
<1>3. n \in Nat /\ n >= 1 /\ endLen \in Nat /\ Block(buf)
  BY DEF W!WriterAssumption, WriterInvariant, WriterTypeOK
<1>4. WriterTypeOK'
  <2>1. Block(buf')
    BY <1>2, <1>3
  <2>2. [start |-> endLen, end |-> endLen + n] \in [start : Nat, end : Nat]
    BY <1>3
  <2>3. range' \in [Threads -> [start : Nat, end : Nat]]
    BY <1>1, <2>2 DEF WriterInvariant, WriterTypeOK
  <2>4. pc' \in [Threads -> WriterPlaces]
    BY <1>2 DEF WriterInvariant, WriterTypeOK, WriterPlaces
  <2>5. DOMAIN done' \subseteq 0..endLen' - 1
    BY <1>1, <1>2, <1>3 DEF WriterInvariant, WriterTypeOK
  <2> QED
    BY <1>1, <1>2, <1>3, <2>1, <2>3, <2>4, <2>5 DEF WriterInvariant, WriterTypeOK
<1>5. /\ pc'[t] = "check" /\ range'[t].start = endLen /\ range'[t].end = endLen + n
      /\ \A u \in Threads \ {t} : pc'[u] = pc[u] /\ range'[u] = range[u]
  BY <1>1, <1>2 DEF WriterInvariant, WriterTypeOK
<1>6. \A u \in Threads : range[u].start \in Nat /\ range[u].end \in Nat
  BY DEF WriterInvariant, WriterTypeOK
<1>7. RangesAreReserved'
  BY <1>1, <1>3, <1>5, <1>6 DEF WriterInvariant, RangesAreReserved, UnderWay
<1>8. RangesAreApart'
  BY <1>3, <1>5, <1>6 DEF WriterInvariant, RangesAreReserved, RangesAreApart, UnderWay
<1>9. DoneOrReserved'
  <2>1. ASSUME NEW i \in 0..endLen' - 1
        PROVE  i \in DOMAIN done' \/ \E u \in Threads : UnderWay(u)' /\ InRange(i, u)'
    <3>1. CASE i < endLen
      <4>1. i \in 0..endLen - 1
        BY <3>1, <1>1, <1>3
      <4>2. i \in DOMAIN done \/ \E u \in Threads : UnderWay(u) /\ InRange(i, u)
        BY <4>1 DEF WriterInvariant, DoneOrReserved
      <4>3. \A u \in Threads : UnderWay(u) => u # t
        BY <1>2 DEF UnderWay
      <4> QED
        BY <4>2, <4>3, <1>2, <1>5 DEF UnderWay, InRange
    <3>2. CASE ~(i < endLen)
      BY <3>2, <1>1, <1>3, <1>5 DEF UnderWay, InRange
    <3> QED
      BY <3>1, <3>2
  <2>2. ASSUME NEW u \in Threads, UnderWay(u)', NEW i \in DOMAIN done'
        PROVE  ~InRange(i, u)'
    <3>1. i \in DOMAIN done /\ i \in 0..endLen - 1
      BY <2>2, <1>2 DEF WriterInvariant, WriterTypeOK
    <3>2. CASE u = t
      BY <3>1, <3>2, <1>3, <1>5 DEF InRange
    <3>3. CASE u # t
      BY <2>2, <3>1, <3>3, <1>5 DEF WriterInvariant, DoneOrReserved, UnderWay, InRange
    <3> QED
      BY <3>2, <3>3
  <2> QED
    BY <2>1, <2>2 DEF DoneOrReserved
<1>10. RoomIsThere'
  BY <1>2, <1>5 DEF WriterInvariant, RoomIsThere, W!Capacity
<1>11. PrefixIsWritten'
  BY <1>2, <1>5 DEF WriterInvariant, PrefixIsWritten
<1>12. W!WritesSurvive'
  BY <1>2 DEF WriterInvariant, W!WritesSurvive
<1> QED
  BY <1>4, <1>7, <1>8, <1>9, <1>10, <1>11, <1>12 DEF WriterInvariant

\* A thread that moves on without touching the vector, with a capacity that covers its
\* range when it goes to open.
LEMMA MoveKeeps ==
  ASSUME WriterInvariant, NEW t \in Threads, NEW place \in {"lock", "open", "drain"},
         pc[t] # "idle", pc[t] # "write", pc' = [pc EXCEPT ![t] = place],
         UNCHANGED <<buf, endLen, readers, range, at, done>>,
         place = "open" => range[t].end <= W!Capacity
  PROVE  WriterInvariant'
<1>1. /\ pc'[t] = place
      /\ \A u \in Threads \ {t} : pc'[u] = pc[u]
  BY DEF WriterInvariant, WriterTypeOK
<1>2. \A u \in Threads : UnderWay(u)' <=> UnderWay(u)
  BY <1>1 DEF UnderWay
<1>3. pc' \in [Threads -> WriterPlaces]
  BY DEF WriterInvariant, WriterTypeOK, WriterPlaces
<1>4. WriterTypeOK'
  BY <1>3 DEF WriterInvariant, WriterTypeOK, Block
<1>5. RangesAreReserved' /\ RangesAreApart'
  BY <1>2 DEF WriterInvariant, RangesAreReserved, RangesAreApart
<1>6. DoneOrReserved'
  BY <1>2 DEF WriterInvariant, DoneOrReserved, InRange
<1>7. RoomIsThere' /\ PrefixIsWritten' /\ W!WritesSurvive'
  BY <1>1 DEF WriterInvariant, RoomIsThere, PrefixIsWritten, W!WritesSurvive, W!Capacity
<1> QED
  BY <1>4, <1>5, <1>6, <1>7 DEF WriterInvariant

\* Looking at the capacity, and closing the lock.
LEMMA CheckKeeps ==
  ASSUME WriterInvariant, NEW t \in Threads, W!Check(t) \/ W!CloseData(t)
  PROVE  WriterInvariant'
<1>1. W!Capacity \in Nat /\ range[t].end \in Nat
  BY BufIsBlock DEF WriterInvariant, WriterTypeOK
<1>2. CASE W!Check(t)
  <2>1. CASE W!Capacity < range[t].end
    BY <1>2, <2>1, MoveKeeps DEF W!Check, W!Goto
  <2>2. CASE ~(W!Capacity < range[t].end)
    <3>1. range[t].end <= W!Capacity
      BY <1>1, <2>2
    <3>2. pc[t] = "check" /\ pc' = [pc EXCEPT ![t] = "open"]
      BY <1>2, <2>2 DEF W!Check, W!Goto
    <3> QED
      BY <1>2, <3>1, <3>2, MoveKeeps DEF W!Check
  <2> QED
    BY <2>1, <2>2
<1>3. CASE W!CloseData(t)
  BY <1>3, MoveKeeps DEF W!CloseData, W!Goto
<1> QED
  BY <1>2, <1>3

\* Reallocation keeps what is there, beyond the length too, and makes room.
LEMMA GrowKeeps ==
  ASSUME WriterInvariant, NEW t \in Threads, W!Grow(t)
  PROVE  WriterInvariant'
<1> USE DEF W!Larger
<1>1. /\ pc[t] = "drain" /\ pc' = [pc EXCEPT ![t] = "open"]
      /\ endLen' = endLen /\ readers' = readers /\ range' = range /\ at' = at /\ done' = done
  BY DEF W!Grow, W!Goto
<1>2. /\ W!Capacity \in Nat /\ DOMAIN buf = 0..W!Capacity - 1
      /\ buf \in [0..W!Capacity - 1 -> Threads \cup {None, Junk}]
  BY BufIsBlock DEF WriterInvariant, WriterTypeOK
<1>3. range[t].end \in Nat
  BY DEF WriterInvariant, WriterTypeOK
<1>4. CASE ~(W!Capacity < range[t].end)
  <2>1. range[t].end <= W!Capacity /\ buf' = buf
    BY <1>2, <1>3, <1>4 DEF W!Grow
  <2> QED
    BY <1>1, <2>1, MoveKeeps
<1>5. CASE W!Capacity < range[t].end
  <2>1. PICK n \in Nat : n = W!Larger(range[t].end, 2 * W!Capacity)
    BY <1>2, <1>3
  <2>2. n >= range[t].end /\ n >= W!Capacity
    BY <1>2, <1>3, <2>1
  <2>3. buf' = [i \in 0..n - 1 |-> IF i \in DOMAIN buf THEN buf[i] ELSE Junk]
    BY <1>5, <2>1 DEF W!Grow, W!Reallocate
  <2>4. buf' \in [0..n - 1 -> Threads \cup {None, Junk}]
    BY <1>2, <2>3
  <2>5. Block(buf')
    BY <2>4 DEF Block
  <2>6. W!Capacity' = n
    <3>1. DOMAIN buf' = 0..n - 1
      BY <2>4
    <3>2. Cardinality(DOMAIN buf') = n
      BY <3>1, BlockCapacity
    <3>3. W!Capacity' = Cardinality(DOMAIN buf')
      BY DEF W!Capacity, W!Cardinality, Cardinality
    <3> QED
      BY <3>2, <3>3
  <2>7. DOMAIN buf \subseteq DOMAIN buf' /\ \A i \in DOMAIN buf : buf'[i] = buf[i]
    BY <1>2, <2>2, <2>3
  <2>8. /\ pc'[t] = "open"
        /\ \A u \in Threads \ {t} : pc'[u] = pc[u]
    BY <1>1 DEF WriterInvariant, WriterTypeOK
  <2>9. \A u \in Threads : UnderWay(u)' <=> UnderWay(u)
    BY <1>1, <2>8 DEF UnderWay
  <2>10. WriterTypeOK'
    <3>1. pc' \in [Threads -> WriterPlaces]
      BY <1>1 DEF WriterInvariant, WriterTypeOK, WriterPlaces
    <3> QED
      BY <1>1, <2>5, <3>1 DEF WriterInvariant, WriterTypeOK
  <2>11. RangesAreReserved' /\ RangesAreApart'
    BY <1>1, <2>9 DEF WriterInvariant, RangesAreReserved, RangesAreApart
  <2>12. DoneOrReserved'
    BY <1>1, <2>9 DEF WriterInvariant, DoneOrReserved, InRange
  <2>13. \A u \in Threads : range[u].start \in Nat /\ range[u].end \in Nat /\ at[u] \in Nat
    BY DEF WriterInvariant, WriterTypeOK
  <2>14. RoomIsThere'
    BY <1>1, <1>2, <2>2, <2>6, <2>8, <2>13 DEF WriterInvariant, RoomIsThere
  <2>15. PrefixIsWritten'
    <3> SUFFICES ASSUME NEW u \in Threads, pc'[u] = "write"
                 PROVE  /\ range[u].start <= at[u] /\ at[u] <= range[u].end
                        /\ \A i \in range[u].start..at[u] - 1 : buf'[i] = u
      BY <1>1 DEF PrefixIsWritten
    <3>1. u # t /\ pc[u] = "write" /\ range[u].end <= W!Capacity
      BY <2>8 DEF WriterInvariant, RoomIsThere
    <3>2. \A i \in range[u].start..at[u] - 1 : i \in DOMAIN buf /\ buf[i] = u
      BY <3>1, <1>2, <2>13 DEF WriterInvariant, PrefixIsWritten
    <3> QED
      BY <3>1, <3>2, <2>7 DEF WriterInvariant, PrefixIsWritten
  <2>16. W!WritesSurvive'
    BY <1>1, <2>7 DEF WriterInvariant, W!WritesSurvive
  <2> QED
    BY <2>10, <2>11, <2>12, <2>14, <2>15, <2>16 DEF WriterInvariant
<1> QED
  BY <1>4, <1>5

\* A read handle for writing.
LEMMA OpenKeeps ==
  ASSUME WriterInvariant, NEW t \in Threads, W!Open(t)
  PROVE  WriterInvariant'
<1>1. /\ pc[t] = "open" /\ pc' = [pc EXCEPT ![t] = "write"]
      /\ at' = [at EXCEPT ![t] = range[t].start] /\ readers' = readers \cup {t}
      /\ buf' = buf /\ endLen' = endLen /\ range' = range /\ done' = done
  BY DEF W!Open, W!Goto
<1>2. \A u \in Threads : range[u].start \in Nat /\ range[u].end \in Nat
  BY DEF WriterInvariant, WriterTypeOK
<1>3. /\ pc'[t] = "write" /\ at'[t] = range[t].start
      /\ \A u \in Threads \ {t} : pc'[u] = pc[u] /\ at'[u] = at[u]
  BY <1>1 DEF WriterInvariant, WriterTypeOK
<1>4. \A u \in Threads : UnderWay(u)' <=> UnderWay(u)
  BY <1>1, <1>3 DEF UnderWay
<1>5. WriterTypeOK'
  <2>1. pc' \in [Threads -> WriterPlaces] /\ at' \in [Threads -> Nat]
    BY <1>1, <1>2 DEF WriterInvariant, WriterTypeOK, WriterPlaces
  <2> QED
    BY <1>1, <2>1 DEF WriterInvariant, WriterTypeOK, Block
<1>6. RangesAreReserved' /\ RangesAreApart' /\ W!WritesSurvive'
  BY <1>1, <1>4 DEF WriterInvariant, RangesAreReserved, RangesAreApart, W!WritesSurvive
<1>7. DoneOrReserved'
  BY <1>1, <1>4 DEF WriterInvariant, DoneOrReserved, InRange
<1>8. RoomIsThere'
  BY <1>1, <1>3 DEF WriterInvariant, RoomIsThere, W!Capacity
<1>9. PrefixIsWritten'
  <2> SUFFICES ASSUME NEW u \in Threads, pc'[u] = "write"
               PROVE  /\ range[u].start <= at'[u] /\ at'[u] <= range[u].end
                      /\ \A i \in range[u].start..at'[u] - 1 : buf[i] = u
    BY <1>1 DEF PrefixIsWritten
  <2>1. CASE u = t
    <3>1. range[t].start <= range[t].end
      BY <1>1, <1>2 DEF WriterInvariant, RangesAreReserved, UnderWay
    <3> QED
      BY <2>1, <3>1, <1>2, <1>3
  <2>2. CASE u # t
    BY <2>2, <1>3 DEF WriterInvariant, PrefixIsWritten
  <2> QED
    BY <2>1, <2>2
<1> QED
  BY <1>5, <1>6, <1>7, <1>8, <1>9 DEF WriterInvariant

\* One item is written, into the thread's own range.
LEMMA WriteKeeps ==
  ASSUME WriterInvariant, NEW t \in Threads, W!Write(t)
  PROVE  WriterInvariant'
<1>1. /\ pc[t] = "write" /\ at[t] < range[t].end
      /\ buf' = [buf EXCEPT ![at[t]] = t] /\ at' = [at EXCEPT ![t] = @ + 1]
      /\ endLen' = endLen /\ readers' = readers /\ pc' = pc /\ range' = range /\ done' = done
  BY DEF W!Write
<1>2. \A u \in Threads : range[u].start \in Nat /\ range[u].end \in Nat /\ at[u] \in Nat
  BY DEF WriterInvariant, WriterTypeOK
<1>3. /\ W!Capacity \in Nat /\ DOMAIN buf = 0..W!Capacity - 1
      /\ buf \in [0..W!Capacity - 1 -> Threads \cup {None, Junk}]
  BY BufIsBlock DEF WriterInvariant, WriterTypeOK
<1>4. DOMAIN buf' = DOMAIN buf /\ W!Capacity' = W!Capacity
  BY <1>1, <1>3 DEF W!Capacity
<1>5. Block(buf')
  <2>1. buf' \in [0..W!Capacity - 1 -> Threads \cup {None, Junk}]
    BY <1>1, <1>3
  <2> QED
    BY <1>3, <2>1 DEF Block
<1>6. /\ at'[t] = at[t] + 1
      /\ \A u \in Threads \ {t} : at'[u] = at[u]
  BY <1>1 DEF WriterInvariant, WriterTypeOK
<1>7. /\ at[t] \in DOMAIN buf /\ buf'[at[t]] = t
      /\ \A i \in DOMAIN buf \ {at[t]} : buf'[i] = buf[i]
  BY <1>1, <1>2, <1>3 DEF WriterInvariant, RoomIsThere
<1>8. WriterTypeOK'
  <2>1. at' \in [Threads -> Nat]
    BY <1>1, <1>2 DEF WriterInvariant, WriterTypeOK
  <2> QED
    BY <1>1, <1>5, <2>1 DEF WriterInvariant, WriterTypeOK
<1>9. RangesAreReserved' /\ RangesAreApart' /\ DoneOrReserved' /\ RoomIsThere'
  BY <1>1, <1>4 DEF WriterInvariant, RangesAreReserved, RangesAreApart, DoneOrReserved, RoomIsThere,
     UnderWay, InRange
<1>10. PrefixIsWritten'
  <2> SUFFICES ASSUME NEW u \in Threads, pc[u] = "write"
               PROVE  /\ range[u].start <= at'[u] /\ at'[u] <= range[u].end
                      /\ \A i \in range[u].start..at'[u] - 1 : buf'[i] = u
    BY <1>1 DEF PrefixIsWritten
  <2>1. /\ range[u].start <= at[u] /\ at[u] <= range[u].end /\ range[u].end <= W!Capacity
        /\ \A i \in range[u].start..at[u] - 1 : i \in DOMAIN buf /\ buf[i] = u
    BY <1>2, <1>3 DEF WriterInvariant, PrefixIsWritten, RoomIsThere
  <2>2. CASE u = t
    BY <2>1, <2>2, <1>1, <1>2, <1>6, <1>7
  <2>3. CASE u # t
    <3>1. range[t].end <= range[u].start \/ range[u].end <= range[t].start
      BY <2>3, <1>1 DEF WriterInvariant, RangesAreApart, UnderWay
    <3>2. range[t].start <= at[t]
      BY <1>1 DEF WriterInvariant, PrefixIsWritten
    <3>3. at[t] \notin range[u].start..at[u] - 1
      BY <3>1, <3>2, <2>1, <1>1, <1>2
    <3> QED
      BY <2>1, <2>3, <3>3, <1>6, <1>7
  <2> QED
    BY <2>2, <2>3
<1>11. W!WritesSurvive'
  <2>1. InRange(at[t], t)
    BY <1>1 DEF WriterInvariant, PrefixIsWritten, InRange
  <2>2. at[t] \notin DOMAIN done
    BY <1>1, <2>1 DEF WriterInvariant, DoneOrReserved, UnderWay
  <2> QED
    BY <1>1, <1>4, <1>7, <2>2 DEF WriterInvariant, W!WritesSurvive
<1> QED
  BY <1>8, <1>9, <1>10, <1>11 DEF WriterInvariant

\* A write is complete: its range goes from the thread to what is done.
LEMMA WrittenKeeps ==
  ASSUME WriterInvariant, NEW t \in Threads, W!Written(t)
  PROVE  WriterInvariant'
<1>1. /\ pc[t] = "write" /\ at[t] = range[t].end
      /\ readers' = readers \ {t}
      /\ done' = [i \in DOMAIN done \cup range[t].start..range[t].end - 1 |->
                    IF i \in DOMAIN done THEN done[i] ELSE t]
      /\ range' = [range EXCEPT ![t] = W!NoRange]
      /\ at' = [at EXCEPT ![t] = 0]
      /\ pc' = [pc EXCEPT ![t] = "idle"]
      /\ buf' = buf /\ endLen' = endLen
  BY DEF W!Written, W!Goto
<1>2. \A u \in Threads : range[u].start \in Nat /\ range[u].end \in Nat /\ at[u] \in Nat
  BY DEF WriterInvariant, WriterTypeOK
<1>3. /\ pc'[t] = "idle"
      /\ \A u \in Threads \ {t} : pc'[u] = pc[u] /\ range'[u] = range[u] /\ at'[u] = at[u]
  BY <1>1 DEF WriterInvariant, WriterTypeOK
<1>4. /\ range[t].start < range[t].end /\ range[t].end <= endLen /\ range[t].end <= W!Capacity
      /\ endLen \in Nat
  BY <1>1 DEF WriterInvariant, WriterTypeOK, RangesAreReserved, RoomIsThere, UnderWay
<1>5. DOMAIN done' = DOMAIN done \cup range[t].start..range[t].end - 1
  BY <1>1
<1>6. WriterTypeOK'
  <2>1. W!NoRange \in [start : Nat, end : Nat]
    BY DEF W!NoRange
  <2>2. /\ range' \in [Threads -> [start : Nat, end : Nat]]
        /\ at' \in [Threads -> Nat] /\ pc' \in [Threads -> WriterPlaces]
    BY <1>1, <2>1 DEF WriterInvariant, WriterTypeOK, WriterPlaces
  <2>3. DOMAIN done' \subseteq 0..endLen' - 1
    BY <1>1, <1>2, <1>4, <1>5 DEF WriterInvariant, WriterTypeOK
  <2> QED
    BY <1>1, <2>2, <2>3 DEF WriterInvariant, WriterTypeOK, Block
<1>7. \A u \in Threads : UnderWay(u)' => u # t /\ UnderWay(u)
  BY <1>3 DEF UnderWay
<1>8. RangesAreReserved' /\ RangesAreApart'
  BY <1>1, <1>3, <1>7 DEF WriterInvariant, RangesAreReserved, RangesAreApart
<1>9. DoneOrReserved'
  <2>1. ASSUME NEW i \in 0..endLen' - 1
        PROVE  i \in DOMAIN done' \/ \E u \in Threads : UnderWay(u)' /\ InRange(i, u)'
    <3>1. i \in DOMAIN done \/ \E u \in Threads : UnderWay(u) /\ InRange(i, u)
      BY <1>1 DEF WriterInvariant, DoneOrReserved
    <3>2. InRange(i, t) => i \in DOMAIN done'
      BY <1>1, <1>2, <1>5 DEF InRange
    <3>3. \A u \in Threads \ {t} : UnderWay(u) /\ InRange(i, u) => UnderWay(u)' /\ InRange(i, u)'
      BY <1>3 DEF UnderWay, InRange
    <3> QED
      BY <3>1, <3>2, <3>3, <1>5
  <2>2. ASSUME NEW u \in Threads, UnderWay(u)', NEW i \in DOMAIN done'
        PROVE  ~InRange(i, u)'
    <3>1. u # t /\ UnderWay(u) /\ UnderWay(t) /\ range'[u] = range[u]
      BY <2>2, <1>1, <1>3, <1>7 DEF UnderWay
    <3>2. CASE i \in DOMAIN done
      BY <3>1, <3>2 DEF WriterInvariant, DoneOrReserved, InRange
    <3>3. CASE i \in range[t].start..range[t].end - 1
      BY <3>1, <3>3, <1>2 DEF WriterInvariant, RangesAreApart, InRange
    <3> QED
      BY <3>2, <3>3, <1>5
  <2> QED
    BY <2>1, <2>2 DEF DoneOrReserved
<1>10. RoomIsThere' /\ PrefixIsWritten'
  BY <1>1, <1>3 DEF WriterInvariant, RoomIsThere, PrefixIsWritten, W!Capacity
<1>11. W!WritesSurvive'
  <2> SUFFICES ASSUME NEW i \in DOMAIN done'
               PROVE  i \in DOMAIN buf /\ buf[i] = done'[i]
    BY <1>1 DEF W!WritesSurvive
  <2>1. CASE i \in DOMAIN done
    BY <2>1, <1>1, <1>5 DEF WriterInvariant, W!WritesSurvive
  <2>2. CASE i \notin DOMAIN done
    <3>1. i \in range[t].start..at[t] - 1 /\ done'[i] = t
      BY <2>2, <1>1, <1>5
    <3>2. W!Capacity \in Nat /\ DOMAIN buf = 0..W!Capacity - 1
      BY BufIsBlock DEF WriterInvariant, WriterTypeOK
    <3>3. i \in DOMAIN buf
      BY <3>1, <3>2, <1>1, <1>2, <1>4
    <3> QED
      BY <3>1, <3>3, <1>1 DEF WriterInvariant, PrefixIsWritten
  <2> QED
    BY <2>1, <2>2
<1> QED
  BY <1>6, <1>8, <1>9, <1>10, <1>11 DEF WriterInvariant

\* The vector is handed out while nobody writes.
LEMMA TakeKeeps == ASSUME WriterInvariant, W!Take PROVE WriterInvariant'
<1>1. /\ \A t \in Threads : pc[t] = "idle"
      /\ buf' = <<>> /\ endLen' = 0 /\ done' = <<>>
      /\ readers' = readers /\ pc' = pc /\ range' = range /\ at' = at
  BY DEF W!Take
<1>2. Block(buf') /\ DOMAIN buf' = {} /\ DOMAIN done' = {}
  BY <1>1, EmptyBlock
<1>3. WriterTypeOK'
  BY <1>1, <1>2 DEF WriterInvariant, WriterTypeOK
<1> QED
  BY <1>1, <1>2, <1>3 DEF WriterInvariant, RangesAreReserved, RangesAreApart, DoneOrReserved, RoomIsThere,
     PrefixIsWritten, W!WritesSurvive, UnderWay

\* Every step of the writer keeps the invariant.
LEMMA WriterNext == ASSUME WriterInvariant, W!WriterAssumption, [W!Next]_(W!vars) PROVE WriterInvariant'
<1>1. CASE UNCHANGED W!vars
  BY <1>1 DEF W!vars, WriterInvariant, WriterTypeOK, Block, RangesAreReserved, RangesAreApart, DoneOrReserved,
     RoomIsThere, PrefixIsWritten, W!WritesSurvive, UnderWay, InRange, W!Capacity
<1>2. CASE W!Take
  BY <1>2, TakeKeeps
<1>3. CASE \E t \in Threads : W!Reserve(t) \/ W!Step(t)
  BY <1>3, ReserveKeeps, CheckKeeps, GrowKeeps, OpenKeeps, WriteKeeps, WrittenKeeps DEF W!Step
<1> QED
  BY <1>1, <1>2, <1>3 DEF W!Next

-----------------------------------------------------------------------------

\* The reservations of ParallelVecWriter: reserved ranges never meet and, with the
\* completed writes, cover the reserved length; room once seen stays; what is written
\* stays written.
THEOREM ReservationsHold == ASSUME W!WriterAssumption PROVE W!Spec => []WriterInvariant
<1>1. W!Init => WriterInvariant
  BY WriterInit
<1>2. WriterInvariant /\ [W!Next]_(W!vars) => WriterInvariant'
  BY WriterNext
<1> QED
  BY <1>1, <1>2, PTL DEF W!Spec

\* The invariant makes every write and every hand-out safe.
LEMMA WriterSafe == ASSUME WriterInvariant PROVE W!WriterIsSafe
<1>1. W!WritesInBounds
  BY DEF WriterInvariant, RoomIsThere, W!WritesInBounds
<1>2. W!FinishedIsWritten
  BY DEF WriterInvariant, WriterTypeOK, DoneOrReserved, W!FinishedIsWritten, UnderWay
<1> QED
  BY <1>1, <1>2 DEF W!WriterIsSafe, WriterInvariant

\* Whoever writes through UnsafeReadAccess has room for its whole range, a completed write
\* can be read back after any reallocation, and finish and take hand out exactly the
\* elements that were written.
THEOREM WritesAreSafe == ASSUME W!WriterAssumption PROVE W!Spec => []W!WriterIsSafe
<1>1. WriterInvariant => W!WriterIsSafe
  BY WriterSafe
<1> QED
  BY <1>1, ReservationsHold, PTL

\* ParallelVecWriter's unsynchronized writes have room and survive reallocation, and finish
\* and take hand out written elements only, for any threads, items and lengths.
THEOREM ParallelWritesAreSafe == Spec => []WriterIsSafe
<1> DEFINE Inv == part = "writer" => WriterInvariant
<1>1. Init => Inv
  BY PartsAssumption, WriterInit DEF Init
<1>2. Inv /\ [Next]_vars => Inv'
  <2> SUFFICES ASSUME Inv, [Next]_vars, part' = "writer" PROVE WriterInvariant'
    OBVIOUS
  <2>1. part = "writer" /\ [W!Next]_(W!vars)
    BY DEF Next, Primitive, vars, primitives, writerVars, handles, W!vars
  <2> QED
    BY <2>1, PartsAssumption, WriterNext
<1>3. Inv => WriterIsSafe
  BY WriterSafe DEF WriterIsSafe
<1> QED
  BY <1>1, <1>2, <1>3, PTL DEF Spec
=============================================================================
