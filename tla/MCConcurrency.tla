----------------------------- MODULE MCConcurrency -----------------------------
(***************************************************************************)
(* The primitives of the concurrency crate, the counter of fresh ids and,  *)
(* for its liveness, the union-find, for model checking.  They do not      *)
(* share state, so a behaviour exercises one of them, which the variable   *)
(* part names; the variables of the others keep their first values.  The   *)
(* two clients of ConcurrentVec share its variables, and the primitives    *)
(* share the program counter.                                              *)
(***************************************************************************)
EXTENDS Naturals

CONSTANTS
  Threads, Tokens, None,
  Items,                       \* NotificationList
  Keys, NShards, Uninit,       \* InternTable
  Junk, MaxItems, MaxLen,      \* ParallelVecWriter
  Databases, Original, Size, MaxNext,      \* Counters
  Callers,                                 \* Counters and ConcurrentUnionFind
  MaxBits, InitLen, Kinds, Pairs           \* ConcurrentUnionFind

VARIABLES
  part, pc,
  flag, mutex, call, late, spent,
  kind, sent, stored, guards, due, note, mine,
  slots, head, writeLock, readers, vpc, vop, seen,
  notified, item, batch, owed,
  shardLock, table, key, interned,
  buf, endLen, range, at, done,
  next, recycled, state, used, reused,
  len, parent, mem, view, wlock, ufPc, op, reg, copy, start, rep, returned

notificationVars == <<flag, mutex, call, late, spent>>
lockVars == <<kind, sent, stored, guards, due, note, mine>>
handles == <<readers>>
vecVars == <<slots, head, writeLock, vpc, vop, seen>>
listVars == <<notified, item, batch, owed>>
internVars == <<shardLock, table, key, interned>>
writerVars == <<buf, endLen, range, at, done>>
counterVars == <<next, recycled, state, used, reused>>
ufVars == <<len, parent, mem, view, wlock, ufPc, op, reg, copy, start, rep, returned>>

primitives == <<pc, notificationVars, lockVars, handles, vecVars, listVars, internVars, writerVars>>
vars == <<part, primitives, counterVars, ufVars>>

N == INSTANCE Notification
L == INSTANCE ReadOptimizedLock WITH notified <- sent
S == INSTANCE NotificationList
T == INSTANCE InternTable
W == INSTANCE ParallelVecWriter WITH StartLen <- 1

C == INSTANCE Counters WITH Threads <- Callers
U == INSTANCE ConcurrentUnionFind WITH Threads <- Callers, Scoped <- FALSE, pc <- ufPc

\* Three ids, joined in a chain.
Chain == {<<1, 0>>, <<2, 1>>}

ASSUME PartsAssumption ==
  /\ L!PoolIsLarge /\ C!CountersAssumption /\ W!WriterAssumption
  /\ S!ListAssumption /\ T!InternAssumption

Init ==
  /\ part \in {"notification", "lock", "list", "intern", "writer", "counter", "uf"}
  /\ N!Init /\ L!Init /\ S!Init /\ T!Init /\ W!Init /\ C!Init /\ U!Init

Primitive ==
  \/ /\ part = "notification" /\ N!Next
     /\ UNCHANGED <<lockVars, handles, vecVars, listVars, internVars, writerVars>>
  \/ /\ part = "lock" /\ L!Next
     /\ UNCHANGED <<notificationVars, handles, vecVars, listVars, internVars, writerVars>>
  \/ /\ part = "list" /\ S!Next
     /\ UNCHANGED <<notificationVars, lockVars, internVars, writerVars>>
  \/ /\ part = "intern" /\ T!Next
     /\ UNCHANGED <<notificationVars, lockVars, listVars, writerVars>>
  \/ /\ part = "writer" /\ W!Next
     /\ UNCHANGED <<notificationVars, lockVars, vecVars, listVars, internVars>>

Next ==
  /\ part' = part
  /\ \/ Primitive /\ UNCHANGED <<counterVars, ufVars>>
     \/ part = "counter" /\ C!Next /\ UNCHANGED <<primitives, ufVars>>
     \/ part = "counter" /\ UNCHANGED <<primitives, counterVars, ufVars>>  \* at its bound
     \/ part = "uf" /\ U!Next /\ UNCHANGED <<primitives, counterVars>>

\* Each part's own fairness: its threads are scheduled.
Fairness ==
  /\ \A t \in Threads :
       /\ WF_(N!vars)(part = "notification" /\ N!Step(t))
       /\ WF_(L!vars)(part = "lock" /\ L!Step(t))
  /\ \A t \in Callers : WF_ufVars(part = "uf" /\ U!Step(t))

Spec == Init /\ [][Next]_vars /\ Fairness

-----------------------------------------------------------------------------
(* The properties of the parts *)

\* Notification: a wait returns only after a notify, whatever wakes it, and a timed wait that
\* began after the notification reports no timeout.
AnswerIsRight == part = "notification" => N!AnswerIsRight

\* ReadOptimizedLock: a writer is alone, although it waited for a token and not for a count of
\* readers, and token addresses are used again.
Exclusive == part = "lock" => L!Exclusive

\* Notification and ReadOptimizedLock: no wake-up is lost between the test of the flag and the
\* sleep, and whoever waits for a writer or for readers is notified.
WaitersReturn ==
  /\ part = "notification" => N!WaitersReturn
  /\ part = "lock" => L!WaitersGoOn

\* ConcurrentVec: a read handle covers initialized slots only, though head was loaded before
\* the lock was taken and the vector may have grown.
ReadsAreInitialized == part \in {"list", "intern"} => S!ReadsAreInitialized

\* NotificationList: an id whose notify has returned is listed, about to be listed, or in the
\* hands of a reset that has not returned; a set flag has exactly one thread or list behind it
\* that will report the id.
ListIsComplete == part = "list" => S!ListIsComplete

\* InternTable: a key has one number, a number one key, the number leads back to it, and the
\* prefix a lookup loaded covers every number in its shard.
InternedRightly == part = "intern" => T!InternedRightly

\* ParallelVecWriter: whoever writes has room for its whole range, whoever grew the vector;
\* completed writes survive reallocation and their neighbours' writes; and finish and take hand
\* out no element that nobody wrote.
WriterIsSafe == part = "writer" => W!WriterIsSafe

\* Counters: no database hands out an id twice, or one that it had when it was cloned.
IdsAreFresh == part = "counter" => C!IdsAreFresh

\* ConcurrentUnionFind: no operation loops or waits forever.
OperationsReturn == part = "uf" => U!OperationsReturn
=============================================================================
