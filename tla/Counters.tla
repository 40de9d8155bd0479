------------------------------- MODULE Counters -------------------------------
(***************************************************************************)
(* The counter of fresh ids, Counter and CounterReservation in             *)
(* core-relations/src/free_join/mod.rs.  Each execution state hands out    *)
(* ids of a range of its own; what is left of it when the state is dropped *)
(* goes to a free list.  Taking a range is two steps, the pop from the     *)
(* list and the fetch_add when there was nothing.  A database may be       *)
(* cloned at any time, with states of it alive.                            *)
(***************************************************************************)
EXTENDS Naturals, Sequences

CONSTANTS
  Threads,
  Databases,   \* the original and its clones
  Original,
  Size,        \* reservation_size
  MaxNext,     \* bound: no id is taken past it
  None

CountersAssumption ==
  Original \in Databases /\ Size \in Nat \ {0, 1} /\ MaxNext \in Nat /\ None \notin Nat

VARIABLES
  next,      \* of each database, the high-water mark, None if it is not there yet
  recycled,  \* the free list
  state,     \* of each thread, None or its execution state: database, step and range
  used,      \* history: the ids that a database handed out, or had when it was cloned
  reused     \* history: whether one was handed out again

counterVars == <<next, recycled, state, used, reused>>

Init ==
  /\ next = [d \in Databases |-> IF d = Original THEN 0 ELSE None]
  /\ recycled = [d \in Databases |-> <<>>]
  /\ state = [t \in Threads |-> None]
  /\ used = [d \in Databases |-> {}]
  /\ reused = FALSE

HandOut(d, id) ==
  /\ used' = [used EXCEPT ![d] = @ \cup {id}]
  /\ reused' = (reused \/ id \in used[d])

State(d, step, lo, hi) == [db |-> d, step |-> step, lo |-> lo, hi |-> hi]

\* A state asks for its first id.
Open(t, d) ==
  /\ state[t] = None
  /\ next[d] # None
  /\ state' = [state EXCEPT ![t] = State(d, "pop", 0, 0)]
  /\ UNCHANGED <<next, recycled, used, reused>>

Pop(t) ==
  /\ state[t] # None /\ state[t].step = "pop"
  /\ LET d == state[t].db
     IN  \/ /\ recycled[d] = <<>>
            /\ state' = [state EXCEPT ![t].step = "add"]
            /\ UNCHANGED recycled
         \/ /\ recycled[d] # <<>>
            /\ LET range == Head(recycled[d])
               IN  state' = [state EXCEPT ![t] = State(d, "have", range.lo, range.hi)]
            /\ recycled' = [recycled EXCEPT ![d] = Tail(@)]
  /\ UNCHANGED <<next, used, reused>>

FetchAdd(t) ==
  /\ state[t] # None /\ state[t].step = "add"
  /\ LET d == state[t].db
     IN  /\ next[d] + Size <= MaxNext
         /\ state' = [state EXCEPT ![t] = State(d, "have", next[d], next[d] + Size)]
         /\ next' = [next EXCEPT ![d] = @ + Size]
  /\ UNCHANGED <<recycled, used, reused>>

\* CounterReservation::next, from the range; an empty range is replaced first.
NextId(t) ==
  /\ state[t] # None /\ state[t].step = "have"
  /\ \/ /\ state[t].lo = state[t].hi
        /\ state' = [state EXCEPT ![t].step = "pop"]
        /\ UNCHANGED <<used, reused>>
     \/ /\ state[t].lo < state[t].hi
        /\ HandOut(state[t].db, state[t].lo)
        /\ state' = [state EXCEPT ![t].lo = @ + 1]
  /\ UNCHANGED <<next, recycled>>

\* Mutant: the whole reservation goes back.
LeftWhole(t) == [lo |-> state[t].hi - Size, hi |-> state[t].hi]

\* The unused suffix.
Left(t) == [lo |-> state[t].lo, hi |-> state[t].hi]

Drop(t) ==
  /\ state[t] # None /\ state[t].step = "have"
  /\ LET d == state[t].db
     IN  recycled' = [recycled EXCEPT ![d] = IF state[t].lo < state[t].hi THEN Append(@, Left(t)) ELSE @]
  /\ state' = [state EXCEPT ![t] = None]
  /\ UNCHANGED <<next, used, reused>>

\* inc_counter of the database itself takes one id off the high-water mark.
Inc(d) ==
  /\ next[d] # None /\ next[d] < MaxNext
  /\ HandOut(d, next[d])
  /\ next' = [next EXCEPT ![d] = @ + 1]
  /\ UNCHANGED <<recycled, state>>

\* Counters::clone: the high-water mark, without the free list.
Clone(from, to) ==
  /\ next[from] # None /\ next[to] = None
  /\ next' = [next EXCEPT ![to] = next[from]]
  /\ used' = [used EXCEPT ![to] = used[from]]
  /\ UNCHANGED <<recycled, state, reused>>

Next ==
  \/ \E t \in Threads : Pop(t) \/ FetchAdd(t) \/ NextId(t) \/ Drop(t)
  \/ \E t \in Threads, d \in Databases : Open(t, d)
  \/ \E d \in Databases : Inc(d)
  \/ \E from, to \in Databases : Clone(from, to)

Spec == Init /\ [][Next]_counterVars

-----------------------------------------------------------------------------
(* Properties *)

\* No database hands out an id twice, or one that it had when it was cloned, though ranges are
\* returned, taken by others, and given back again; and the counter is past every id, on
\* which a clone relies.
IdsAreFresh ==
  /\ ~reused
  /\ \A d \in Databases : next[d] # None => \A id \in used[d] : id < next[d]
=============================================================================
