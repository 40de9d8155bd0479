--------------------------- MODULE ParallelVecWriter ---------------------------
(***************************************************************************)
(* concurrency/src/parallel_writer.rs: threads append to one vector by     *)
(* reserving a range with fetch_add and writing it through a read handle,  *)
(* beyond the length of the vector, which does not change until finish.    *)
(* Capacity is checked against the reserved end, again under the write     *)
(* lock, and the vector reallocated while others hold reservations in it.  *)
(* The data lock is used by what ReadOptimizedLock shows of it.            *)
(***************************************************************************)
EXTENDS Integers, FiniteSets

CONSTANTS
  Threads,
  None,
  Junk,      \* memory nobody has written
  StartLen,  \* the length, and the capacity, of the vector passed to new
  MaxItems,  \* the most items one write_contents passes
  MaxLen     \* bound: the items reserved in all

WriterAssumption == StartLen \in Nat /\ MaxItems \in Nat /\ MaxLen \in Nat

VARIABLES
  buf,       \* the allocation: what is at each index
  endLen,    \* end_len
  readers,   \* the threads holding the data lock for reading
  pc,        \* where each thread is
  range,     \* the range each thread has reserved: its start and its end
  at,        \* the next index it writes
  done       \* history: the indices of completed writes, and who wrote them

vars == <<buf, endLen, readers, pc, range, at, done>>

NoRange == [start |-> 0, end |-> 0]
Capacity == Cardinality(DOMAIN buf)

Init ==
  /\ buf = [i \in 0..StartLen - 1 |-> None]
  /\ endLen = StartLen
  /\ readers = {}
  /\ pc = [t \in Threads |-> "idle"]
  /\ range = [t \in Threads |-> NoRange]
  /\ at = [t \in Threads |-> 0]
  /\ done = [i \in 0..StartLen - 1 |-> None]

Goto(t, place) == pc' = [pc EXCEPT ![t] = place]
Closed == \E t \in Threads : pc[t] = "drain"

\* reserve_space: the range is the thread's own from here on.
Reserve(t) ==
  /\ pc[t] = "idle"
  /\ \E n \in 1..MaxItems :
       /\ endLen + n <= MaxLen
       /\ endLen' = endLen + n
       /\ range' = [range EXCEPT ![t] = [start |-> endLen, end |-> endLen + n]]
  /\ Goto(t, "check")
  /\ UNCHANGED <<buf, readers, at, done>>

\* The capacity is read under a read handle that is given up again.
Check(t) ==
  /\ pc[t] = "check"
  /\ ~Closed
  /\ Goto(t, IF Capacity < range[t].end THEN "lock" ELSE "open")
  /\ UNCHANGED <<buf, endLen, readers, range, at, done>>

CloseData(t) ==
  /\ pc[t] = "lock"
  /\ ~Closed
  /\ Goto(t, "drain")
  /\ UNCHANGED <<buf, endLen, readers, range, at, done>>

Larger(m, n) == IF m > n THEN m ELSE n

\* Mutant: only what is below the length is moved.
ReallocatePrefix(old, capacity) ==
  [i \in 0..capacity - 1 |-> IF i \in DOMAIN old /\ i < StartLen THEN old[i] ELSE Junk]

\* Vec::reserve moves the whole allocation, what lies beyond the length included.
Reallocate(old, capacity) ==
  [i \in 0..capacity - 1 |-> IF i \in DOMAIN old THEN old[i] ELSE Junk]

\* Once the readers are gone: check again, since another thread may have grown it.
Grow(t) ==
  /\ pc[t] = "drain"
  /\ readers = {}
  /\ buf' = IF Capacity < range[t].end
            THEN Reallocate(buf, Larger(range[t].end, 2 * Capacity))
            ELSE buf
  /\ Goto(t, "open")
  /\ UNCHANGED <<endLen, readers, range, at, done>>

\* write_contents_at (and write_slice_raw): items go into the range one by one.
Open(t) ==
  /\ pc[t] = "open"
  /\ ~Closed
  /\ readers' = readers \cup {t}
  /\ at' = [at EXCEPT ![t] = range[t].start]
  /\ Goto(t, "write")
  /\ UNCHANGED <<buf, endLen, range, done>>

Write(t) ==
  /\ pc[t] = "write"
  /\ at[t] < range[t].end
  /\ buf' = [buf EXCEPT ![at[t]] = t]
  /\ at' = [at EXCEPT ![t] = @ + 1]
  /\ UNCHANGED <<endLen, readers, pc, range, done>>

\* The handle is dropped and the start of the range returned.
Written(t) ==
  /\ pc[t] = "write"
  /\ at[t] = range[t].end
  /\ readers' = readers \ {t}
  /\ done' = [i \in DOMAIN done \cup range[t].start..range[t].end - 1 |->
                IF i \in DOMAIN done THEN done[i] ELSE t]
  /\ range' = [range EXCEPT ![t] = NoRange]
  /\ at' = [at EXCEPT ![t] = 0]
  /\ Goto(t, "idle")
  /\ UNCHANGED <<buf, endLen>>

\* take and finish have the writer to themselves, so every write is over.  The vector
\* goes to the caller with set_len(end_len), and take leaves an empty one behind.
Take ==
  /\ \A t \in Threads : pc[t] = "idle"
  /\ endLen > 0
  /\ buf' = <<>>
  /\ endLen' = 0
  /\ done' = <<>>
  /\ UNCHANGED <<readers, pc, range, at>>

Step(t) == Check(t) \/ CloseData(t) \/ Grow(t) \/ Open(t) \/ Write(t) \/ Written(t)

Next == Take \/ \E t \in Threads : Reserve(t) \/ Step(t)

Spec == Init /\ [][Next]_vars

-----------------------------------------------------------------------------
(* Properties *)

\* The debug_assert of write_contents_at: whoever writes has room for its whole range,
\* whichever thread grew the vector and for which range.
WritesInBounds ==
  \A t \in Threads : pc[t] = "write" => range[t].end <= Capacity

\* A completed write can be read back at any time (UnsafeReadAccess), however often the
\* vector has been reallocated since and whoever writes next to it.
WritesSurvive == \A i \in DOMAIN done : i \in DOMAIN buf /\ buf[i] = done[i]

\* finish and take hand out no element nobody wrote: once no write is under way, the
\* reserved length is covered by completed writes.
FinishedIsWritten ==
  (\A t \in Threads : pc[t] = "idle") => DOMAIN done = 0..endLen - 1

\* Parallel writes go where there is room, stay there, and are all that is handed out.
WriterIsSafe == WritesInBounds /\ WritesSurvive /\ FinishedIsWritten
=============================================================================
