--------------------------- MODULE NotificationList ---------------------------
(***************************************************************************)
(* concurrency/src/notification_list.rs: a subset of dense ids, kept as a  *)
(* flag per id in a ConcurrentVec and the list of the ids whose flag was   *)
(* set.  merge_all learns from it which tables have staged rows, so an id  *)
(* that is neither listed nor about to be is a table that is never merged. *)
(* notify and reset may overlap in any way.                                *)
(***************************************************************************)
EXTENDS ConcurrentVec

CONSTANTS Items   \* the ids, dense from 0

ListAssumption ==
  /\ VecAssumption
  /\ IsFiniteSet(Threads)
  /\ Items \subseteq Nat /\ Uninit \notin BOOLEAN

VARIABLES
  notified,  \* the list, under its own mutex: the ids in it and how often
  pc,        \* where each thread is in notify or reset
  item,      \* the id it notifies
  batch,     \* the ids its reset has taken and not yet cleared
  owed       \* history: the ids notified by a call that has returned and not
             \* returned by a reset since

listVars == <<notified, pc, item, batch, owed>>
vars == <<vecVars, listVars>>

Init ==
  /\ InitVec
  /\ notified = [i \in Items |-> 0]
  /\ pc = [t \in Threads |-> "idle"]
  /\ item = [t \in Threads |-> 0]
  /\ batch = [t \in Threads |-> {}]
  /\ owed = {}

Goto(t, place) == pc' = [pc EXCEPT ![t] = place]

Flag(i) == slots[i + 1]

-----------------------------------------------------------------------------
(* notify *)

\* The states are made long enough.
CallNotify(t) ==
  /\ pc[t] = "idle"
  /\ \E i \in Items : item' = [item EXCEPT ![t] = i] /\ CallResize(t, i + 1, FALSE)
  /\ Goto(t, "resize")
  /\ UNCHANGED <<notified, batch, owed>>

Resized(t) ==
  /\ pc[t] = "resize"
  /\ Return(t)
  /\ Goto(t, "read")
  /\ UNCHANGED <<notified, item, batch, owed>>

ReadStates(t) ==
  /\ pc[t] = "read"
  /\ CallRead(t)
  /\ Goto(t, "look")
  /\ UNCHANGED <<notified, item, batch, owed>>

\* already_notified: another thread has, or is about to list the id.
Look(t) ==
  /\ pc[t] = "look"
  /\ vpc[t] = "reading"
  /\ IF Flag(item[t])
     THEN Close(t) /\ Goto(t, "idle") /\ owed' = owed \cup {item[t]}
     ELSE Goto(t, "swap") /\ UNCHANGED <<vecVars, owed>>
  /\ UNCHANGED <<notified, item, batch>>

\* attempt_notify: whoever finds the flag unset lists the id.
Swap(t) ==
  /\ pc[t] = "swap"
  /\ slots' = [slots EXCEPT ![item[t] + 1] = TRUE]
  /\ readers' = readers \ {t}
  /\ seen' = [seen EXCEPT ![t] = 0]
  /\ GotoVec(t, "idle")
  /\ IF Flag(item[t])
     THEN Goto(t, "idle") /\ owed' = owed \cup {item[t]}
     ELSE Goto(t, "push") /\ UNCHANGED owed
  /\ UNCHANGED <<head, writeLock, vop, notified, item, batch>>

Push(t) ==
  /\ pc[t] = "push"
  /\ notified' = [notified EXCEPT ![item[t]] = @ + 1]
  /\ owed' = owed \cup {item[t]}
  /\ Goto(t, "idle")
  /\ UNCHANGED <<vecVars, item, batch>>

-----------------------------------------------------------------------------
(* reset *)

\* The list is taken under its mutex.
Take(t) ==
  /\ pc[t] = "idle"
  /\ batch' = [batch EXCEPT ![t] = {i \in Items : notified[i] > 0}]
  /\ notified' = [i \in Items |-> 0]
  /\ Goto(t, "taken")
  /\ UNCHANGED <<vecVars, item, owed>>

OpenStates(t) ==
  /\ pc[t] = "taken"
  /\ CallRead(t)
  /\ Goto(t, "clear")
  /\ UNCHANGED <<notified, item, batch, owed>>

\* The flags are cleared one by one.  A notify that still finds a flag set counts
\* on this reset, which has not returned yet, to report the id.
Clear(t) ==
  /\ pc[t] = "clear"
  /\ vpc[t] = "reading"
  /\ \E i \in batch[t] :
       /\ slots' = [slots EXCEPT ![i + 1] = FALSE]
       /\ batch' = [batch EXCEPT ![t] = @ \ {i}]
       /\ owed' = owed \ {i}
  /\ UNCHANGED <<head, writeLock, readers, vpc, vop, seen, notified, pc, item>>

\* Mutant: the list is emptied at the end instead of taken at the start.
EndResetEmpties(t) ==
  /\ pc[t] = "clear"
  /\ batch[t] = {}
  /\ Close(t)
  /\ Goto(t, "idle")
  /\ notified' = [i \in Items |-> 0]
  /\ UNCHANGED <<item, batch, owed>>

EndReset(t) ==
  /\ pc[t] = "clear"
  /\ batch[t] = {}
  /\ Close(t)
  /\ Goto(t, "idle")
  /\ UNCHANGED <<notified, item, batch, owed>>

-----------------------------------------------------------------------------

Step(t) == \/ Resized(t) \/ ReadStates(t) \/ Look(t) \/ Swap(t) \/ Push(t)
           \/ OpenStates(t) \/ Clear(t) \/ EndReset(t)
           \/ VecStep(t) /\ UNCHANGED listVars

Next == \E t \in Threads : CallNotify(t) \/ Take(t) \/ Step(t)

Spec == Init /\ [][Next]_vars

-----------------------------------------------------------------------------
(* Properties *)

\* The threads that have set a flag and not listed its id yet.
Listing(i) == {t \in Threads : pc[t] = "push" /\ item[t] = i}

\* The places that will report an id.
Reporters(i) == notified[i] + Cardinality(Listing(i)) + Cardinality({t \in Threads : i \in batch[t]})

\* Everything is reported: an id whose notify has returned is in the list, or about to
\* be put there by the thread that set its flag, or in the batch of a reset that
\* has not returned.
NotifiedIsReported == \A i \in owed : Reporters(i) > 0

\* A set flag is the promise that somebody reports the id, exactly once: a flag left set
\* without a reporter would silence every later notify of that table, and no id
\* is listed twice.
FlagsAreBacked ==
  \A i \in Items : i < Len(slots) =>
    Reporters(i) = IF Flag(i) THEN 1 ELSE 0

\* The list loses no id and repeats none: what was notified is reported, once.
ListIsComplete == NotifiedIsReported /\ FlagsAreBacked
=============================================================================
