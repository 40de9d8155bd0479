------------------------------ MODULE InternTable ------------------------------
(***************************************************************************)
(* The intern table of core-relations/src/common.rs: keys of base values   *)
(* are numbered by their place in one ConcurrentVec, which every shard     *)
(* pushes to, and found again through the hash table of their shard, which *)
(* holds numbers only.  A lookup therefore compares keys read from the     *)
(* vector, while other shards make it grow.                                *)
(***************************************************************************)
EXTENDS ConcurrentVec

CONSTANTS
  Keys,      \* a set of naturals
  NShards    \* a key's shard comes from its hash: here its remainder

InternAssumption ==
  /\ VecAssumption
  /\ Keys \subseteq Nat /\ Uninit \notin Keys
  /\ NShards \in Nat \ {0}

VARIABLES
  shardLock, \* the thread holding each shard's mutex
  table,     \* table[s]: the numbers in the hash table of shard s
  pc,        \* where each thread is in intern
  key,       \* the key it interns
  interned   \* history: the pairs of a key and the number intern returned for it

internVars == <<shardLock, table, pc, key, interned>>
vars == <<vecVars, internVars>>

Shards == 0..NShards - 1
Shard(k) == k % NShards

Init ==
  /\ InitVec
  /\ shardLock = [s \in Shards |-> None]
  /\ table = [s \in Shards |-> {}]
  /\ pc = [t \in Threads |-> "idle"]
  /\ key = [t \in Threads |-> 0]
  /\ interned = {}

Goto(t, place) == pc' = [pc EXCEPT ![t] = place]

\* What intern returns, and the shard's mutex released.
Answer(t, v) ==
  /\ interned' = interned \cup {<<key[t], v>>}
  /\ shardLock' = [shardLock EXCEPT ![Shard(key[t])] = None]
  /\ Goto(t, "idle")

CallIntern(t) ==
  /\ pc[t] = "idle"
  /\ \E k \in Keys : key' = [key EXCEPT ![t] = k]
  /\ Goto(t, "shard")
  /\ UNCHANGED <<vecVars, shardLock, table, interned>>

\* Mutant: the read handle is taken before the shard's mutex.
LockShardLate(t) ==
  /\ pc[t] = "shard"
  /\ shardLock[Shard(key[t])] = None
  /\ shardLock' = [shardLock EXCEPT ![Shard(key[t])] = t]
  /\ \E n \in 0..head : seen' = [seen EXCEPT ![t] = n]
  /\ GotoVec(t, "open")
  /\ Goto(t, "find")
  /\ UNCHANGED <<slots, head, writeLock, readers, vop, table, key, interned>>

\* The shard's mutex, then a read handle on the keys.
LockShard(t) ==
  /\ pc[t] = "shard"
  /\ shardLock[Shard(key[t])] = None
  /\ shardLock' = [shardLock EXCEPT ![Shard(key[t])] = t]
  /\ CallRead(t)
  /\ Goto(t, "find")
  /\ UNCHANGED <<table, key, interned>>

\* The key is there already, or the handle is dropped to push it.
Find(t) ==
  /\ pc[t] = "find"
  /\ vpc[t] = "reading"
  /\ Close(t)
  /\ LET same == {v \in table[Shard(key[t])] : slots[v + 1] = key[t]}
     IN IF same # {} THEN \E v \in same : Answer(t, v)
                     ELSE Goto(t, "push") /\ UNCHANGED <<shardLock, interned>>
  /\ UNCHANGED <<table, key>>

Push(t) ==
  /\ pc[t] = "push"
  /\ CallPush(t, key[t])
  /\ Goto(t, "pushed")
  /\ UNCHANGED <<shardLock, table, key, interned>>

\* push has returned the number, which goes into the shard's table.  (The second read
\* handle is for rehashing the table and is given up at once.)
Pushed(t) ==
  /\ pc[t] = "pushed"
  /\ Return(t)
  /\ key' = key
  /\ table' = [table EXCEPT ![Shard(key[t])] = @ \cup {vop[t].index}]
  /\ Answer(t, vop[t].index)

Step(t) == \/ LockShard(t) \/ Find(t) \/ Push(t) \/ Pushed(t)
           \/ VecStep(t) /\ UNCHANGED internVars

Next == \E t \in Threads : CallIntern(t) \/ Step(t)

Spec == Init /\ [][Next]_vars

-----------------------------------------------------------------------------
(* Properties *)

\* Interning is a bijection onto its numbers, across shards and threads: one key has one
\* number, two keys never share one, and the number leads back to the key.
InternedOnce ==
  \A p, q \in interned :
    /\ (p[1] = q[1]) <=> (p[2] = q[2])
    /\ p[2] < head /\ slots[p[2] + 1] = p[1]

\* A lookup indexes its read handle with every number of the shard, and the prefix it
\* loaded covers them all; one beyond it would panic.
LookupsInBounds ==
  \A t \in Threads : pc[t] = "find" /\ vpc[t] = "reading" =>
    \A v \in table[Shard(key[t])] : v < seen[t]

\* Interning answers rightly and in bounds, whichever thread pushed the key.
InternedRightly == InternedOnce /\ LookupsInBounds
=============================================================================
