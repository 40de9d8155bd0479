----------------------------- MODULE ConcurrentVec -----------------------------
(***************************************************************************)
(* The vector of concurrency/src/concurrent_vec.rs, whose pushes do not    *)
(* block reads.  Writers take turns by a mutex, write their slot while     *)
(* they hold the data lock for reading, and publish it by storing head.    *)
(* Only growing takes the data lock for writing, and a thread that has to  *)
(* grow first gives up its read handle and looks again afterwards.         *)
(*                                                                         *)
(* The data lock is the lock of module ReadOptimizedLock, used here by     *)
(* what that module shows of it: growing happens while nobody reads.       *)
(* The clients of the vector (NotificationList, InternTable) call it as a  *)
(* subroutine: a call is over when the thread's vpc is "done".             *)
(***************************************************************************)
EXTENDS Integers, Sequences, FiniteSets

CONSTANTS
  Threads,
  None,      \* no thread holds the mutex
  Uninit     \* what MaybeUninit::uninit() leaves in a slot

VecAssumption == None \notin Threads

VARIABLES
  slots,     \* the data: the slots in use, from index 0
  head,      \* the number of slots published
  writeLock, \* the thread that holds write_lock
  readers,   \* the threads that hold the data lock for reading
  vpc,       \* where each thread is in its call of the vector
  vop,       \* what it called: the operation, its item and its index
  seen       \* the valid prefix of each thread's read handle

vecVars == <<slots, head, writeLock, readers, vpc, vop, seen>>

NoOp == [op |-> "none", item |-> Uninit, index |-> 0]

\* ConcurrentVec::with_capacity reserves memory and creates no slot.
InitVec ==
  /\ slots = <<>>
  /\ head = 0
  /\ writeLock = None
  /\ readers = {}
  /\ vpc = [t \in Threads |-> "idle"]
  /\ vop = [t \in Threads |-> NoOp]
  /\ seen = [t \in Threads |-> 0]

GotoVec(t, place) == vpc' = [vpc EXCEPT ![t] = place]

\* usize::next_power_of_two of a positive number: 1, doubled until it is large enough.
NextPowerOfTwo(n) ==
  LET double[p \in 1..2 * n] == IF p >= n THEN p ELSE double[2 * p] IN double[1]

\* A writer has closed the data lock and waits for the readers inside.
Closed == \E t \in Threads : vpc[t] = "drain"

\* Resized to n slots, the new ones filled by init_fn.
Resize(s, n, fill) == [i \in 1..n |-> IF i <= Len(s) THEN s[i] ELSE fill]

-----------------------------------------------------------------------------
(* push and resize_with *)

CallPush(t, item) ==
  /\ vpc[t] = "idle"
  /\ vop' = [vop EXCEPT ![t] = [op |-> "push", item |-> item, index |-> 0]]
  /\ GotoVec(t, "lock")
  /\ UNCHANGED <<slots, head, writeLock, readers, seen>>

\* resize_with looks at head before it takes the lock: long enough, and it returns.
CallResize(t, n, fill) ==
  /\ vpc[t] = "idle"
  /\ vop' = [vop EXCEPT ![t] = [op |-> "resize", item |-> fill, index |-> n - 1]]
  /\ GotoVec(t, IF n <= head THEN "done" ELSE "lock")
  /\ UNCHANGED <<slots, head, writeLock, readers, seen>>

\* Under the lock head is loaded again: a push takes it for its index, a
\* resize_with that others have made unnecessary returns.
Lock(t) ==
  /\ vpc[t] = "lock"
  /\ writeLock = None
  /\ \/ /\ vop[t].op = "resize"
        /\ vop[t].index < head
        /\ GotoVec(t, "done")
        /\ UNCHANGED <<writeLock, vop>>
     \/ /\ vop[t].op = "push" \/ vop[t].index >= head
        /\ writeLock' = t
        /\ vop' = [vop EXCEPT ![t].index = IF vop[t].op = "push" THEN head ELSE @]
        /\ GotoVec(t, "get")
  /\ UNCHANGED <<slots, head, readers, seen>>

\* push_at takes a read handle and looks for its slot.
Get(t) ==
  /\ vpc[t] = "get"
  /\ ~Closed
  /\ IF vop[t].index < Len(slots)
     THEN readers' = readers \cup {t} /\ GotoVec(t, "write")
     ELSE UNCHANGED readers /\ GotoVec(t, "grow")
  /\ UNCHANGED <<slots, head, writeLock, vop, seen>>

\* The read handle is given up and the data lock taken for writing.
CloseData(t) ==
  /\ vpc[t] = "grow"
  /\ GotoVec(t, "drain")
  /\ UNCHANGED <<slots, head, writeLock, readers, vop, seen>>

\* When the readers are gone: a push leaves the slots it adds uninitialized, a
\* resize_with fills them.
Grow(t) ==
  /\ vpc[t] = "drain"
  /\ readers = {}
  /\ slots' = IF vop[t].index >= Len(slots)
              THEN Resize(slots, NextPowerOfTwo(vop[t].index + 1),
                          IF vop[t].op = "push" THEN Uninit ELSE vop[t].item)
              ELSE slots
  /\ GotoVec(t, "get")
  /\ UNCHANGED <<head, writeLock, readers, vop, seen>>

Write(t) ==
  /\ vpc[t] = "write"
  /\ slots' = [slots EXCEPT ![vop[t].index + 1] = vop[t].item]
  /\ readers' = readers \ {t}
  /\ GotoVec(t, "publish")
  /\ UNCHANGED <<head, writeLock, vop, seen>>

\* head is stored and the mutex released; push returns its index.
Publish(t) ==
  /\ vpc[t] = "publish"
  /\ head' = vop[t].index + 1
  /\ writeLock' = None
  /\ GotoVec(t, "done")
  /\ UNCHANGED <<slots, readers, vop, seen>>

\* The client goes on.
Return(t) ==
  /\ vpc[t] = "done"
  /\ vop' = [vop EXCEPT ![t] = NoOp]
  /\ GotoVec(t, "idle")
  /\ UNCHANGED <<slots, head, writeLock, readers, seen>>

-----------------------------------------------------------------------------
(* read *)

\* head first, the data lock afterwards: the vector may grow in between.
CallRead(t) ==
  /\ vpc[t] = "idle"
  /\ seen' = [seen EXCEPT ![t] = head]
  /\ GotoVec(t, "open")
  /\ UNCHANGED <<slots, head, writeLock, readers, vop>>

\* Mutant: the handle covers all slots there are.
OpenAll(t) ==
  /\ vpc[t] = "open"
  /\ ~Closed
  /\ readers' = readers \cup {t}
  /\ seen' = [seen EXCEPT ![t] = Len(slots)]
  /\ GotoVec(t, "reading")
  /\ UNCHANGED <<slots, head, writeLock, vop>>

Open(t) ==
  /\ vpc[t] = "open"
  /\ ~Closed
  /\ readers' = readers \cup {t}
  /\ GotoVec(t, "reading")
  /\ UNCHANGED <<slots, head, writeLock, vop, seen>>

\* The handle is dropped.
Close(t) ==
  /\ vpc[t] = "reading"
  /\ readers' = readers \ {t}
  /\ seen' = [seen EXCEPT ![t] = 0]
  /\ GotoVec(t, "idle")
  /\ UNCHANGED <<slots, head, writeLock, vop>>

VecStep(t) == Lock(t) \/ Get(t) \/ CloseData(t) \/ Grow(t) \/ Write(t) \/ Publish(t) \/ Open(t)

-----------------------------------------------------------------------------
(* Properties *)

\* The comment on the read handle's transmute, "all elements up to `prefix` are
\* valid": whoever holds a read handle sees initialized slots only, although the
\* prefix was loaded before the lock was taken and the vector may have been
\* reallocated since.
ReadsAreInitialized ==
  \A t \in Threads : vpc[t] = "reading" =>
    /\ seen[t] <= Len(slots)
    /\ \A i \in 1..seen[t] : slots[i] # Uninit
=============================================================================
