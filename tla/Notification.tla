----------------------------- MODULE Notification -----------------------------
(***************************************************************************)
(* The one-shot notification of concurrency/src/notification.rs: an atomic *)
(* flag, a mutex and a condition variable.  A thread may wait, with or     *)
(* without a timeout, any number of times, and notify once.  The condition *)
(* variable may wake a thread spuriously, and a timeout may fire at any    *)
(* time, before or after the flag is set.                                  *)
(***************************************************************************)
CONSTANTS Threads, None

VARIABLES
  flag,     \* has_been_notified
  mutex,    \* the thread holding the mutex
  pc,       \* where each thread is
  call,     \* what it called: "wait", "timed" or "notify"
  late,     \* history: the flag was set before the thread's call began
  spent     \* the threads that have called notify: each does so once

vars == <<flag, mutex, pc, call, late, spent>>

Init ==
  /\ flag = FALSE
  /\ mutex = None
  /\ pc = [t \in Threads |-> "idle"]
  /\ call = [t \in Threads |-> "none"]
  /\ late = [t \in Threads |-> FALSE]
  /\ spent = {}

Goto(t, place) == pc' = [pc EXCEPT ![t] = place]

Call(t) ==
  /\ pc[t] = "idle"
  /\ \E c \in {"wait", "timed", "notify"} :
       /\ call' = [call EXCEPT ![t] = c]
       /\ Goto(t, IF c = "notify" THEN "lock" ELSE "fast")
       /\ c = "notify" => t \notin spent
       /\ spent' = IF c = "notify" THEN spent \cup {t} ELSE spent
  /\ late' = [late EXCEPT ![t] = flag]
  /\ UNCHANGED <<flag, mutex>>

\* The check before the mutex is taken.
FastPath(t) ==
  /\ pc[t] = "fast"
  /\ Goto(t, IF flag THEN "yes" ELSE "lock")
  /\ UNCHANGED <<flag, mutex, call, late, spent>>

Lock(t) ==
  /\ pc[t] = "lock"
  /\ mutex = None
  /\ mutex' = t
  /\ Goto(t, IF call[t] = "notify" THEN "set" ELSE "test")
  /\ UNCHANGED <<flag, call, late, spent>>

\* The loop condition, under the mutex: leave, or release the mutex and sleep.
Test(t) ==
  /\ pc[t] = "test"
  /\ Goto(t, IF flag THEN "yes" ELSE "sleep")
  /\ mutex' = None
  /\ UNCHANGED <<flag, call, late, spent>>

\* Mutant: any wake-up counts as the notification.
WakeBelieves(t) ==
  /\ pc[t] = "woken"
  /\ mutex = None
  /\ Goto(t, "yes")
  /\ UNCHANGED <<flag, mutex, call, late, spent>>

\* Condvar::wait returns, spuriously or not, once it has the mutex again.
Wake(t) ==
  /\ pc[t] = "woken"
  /\ mutex = None
  /\ mutex' = t
  /\ Goto(t, "test")
  /\ UNCHANGED <<flag, call, late, spent>>

Spurious(t) ==
  /\ pc[t] = "sleep"
  /\ Goto(t, "woken")
  /\ UNCHANGED <<flag, mutex, call, late, spent>>

\* Condvar::wait_timeout gives up, whether or not a notification is on its way.
TimeOut(t) ==
  /\ pc[t] \in {"sleep", "woken"}
  /\ call[t] = "timed"
  /\ mutex = None
  /\ Goto(t, "no")
  /\ UNCHANGED <<flag, mutex, call, late, spent>>

\* notify, under the mutex: set the flag and wake every sleeper.
Notify(t) ==
  /\ pc[t] = "set"
  /\ flag' = TRUE
  /\ pc' = [u \in Threads |-> IF pc[u] = "sleep" THEN "woken"
                              ELSE IF u = t THEN "idle" ELSE pc[u]]
  /\ mutex' = None
  /\ call' = [call EXCEPT ![t] = "none"]
  /\ late' = [late EXCEPT ![t] = FALSE]
  /\ UNCHANGED spent

Return(t) ==
  /\ pc[t] \in {"yes", "no"}
  /\ Goto(t, "idle")
  /\ call' = [call EXCEPT ![t] = "none"]
  /\ late' = [late EXCEPT ![t] = FALSE]
  /\ UNCHANGED <<flag, mutex, spent>>

Step(t) == FastPath(t) \/ Lock(t) \/ Test(t) \/ Wake(t) \/ Notify(t) \/ Return(t)

Next == \E t \in Threads : Call(t) \/ Step(t) \/ Spurious(t) \/ TimeOut(t)

\* A thread that can run runs; spurious wake-ups and timeouts are never relied on.
\* Nothing is assumed about who gets a contended mutex.
Spec == Init /\ [][Next]_vars /\ \A t \in Threads : WF_vars(Step(t))

-----------------------------------------------------------------------------
(* Properties *)

\* A wait returns (and a timed one returns true) only after a notify, however
\* often the condition variable wakes it spuriously; and a timed wait that began
\* after the notification never reports a timeout.
AnswerIsRight ==
  \A t \in Threads : /\ pc[t] = "yes" => flag
                     /\ pc[t] = "no" => ~late[t]

\* No wake-up is lost between the check of the flag and the sleep: once some
\* thread has notified, every waiting thread returns.
WaitersReturn ==
  \A t \in Threads : (flag /\ call[t] \in {"wait", "timed"}) ~> pc[t] = "idle"
=============================================================================
