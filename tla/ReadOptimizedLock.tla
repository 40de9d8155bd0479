-------------------------- MODULE ReadOptimizedLock --------------------------
(***************************************************************************)
(* The RCU-style lock of concurrency/src/lib.rs.  The lock stores a        *)
(* reference to a token: ReadOk, whose last reference dropped notifies a   *)
(* waiting writer, or WriteOngoing, whose notification the writer sends    *)
(* when it is done.  A reader is a thread holding a reference to a ReadOk  *)
(* token; a writer replaces the token it loaded by compare-and-swap and    *)
(* waits for the last reference to it to go.                               *)
(*                                                                         *)
(* Tokens live in a fixed pool of addresses.  An address is allocated      *)
(* again as soon as nothing refers to the token or its notification, so a  *)
(* compare-and-swap on addresses is exposed to reuse as in the program.    *)
(***************************************************************************)
EXTENDS Naturals, FiniteSets

CONSTANTS Threads, Tokens, None

\* Allocation never fails: there are addresses for all the tokens that can be in use.
PoolIsLarge ==
  /\ None \notin Threads \cup Tokens
  /\ Tokens # {}
  /\ Cardinality(Tokens) >= 2 * Cardinality(Threads)

VARIABLES
  kind,      \* kind[k]: "ok" or "write" (meaningless at a free address)
  notified,  \* the tokens whose notification has been sent
  stored,    \* the token in the lock
  guards,    \* guards[t]: the tokens thread t holds a reference to
  due,       \* due[t]: the tokens t was the last to drop and has yet to trigger
  note,      \* the token whose notification t holds a reference to, or None
  mine,      \* the write token t has put into the lock, or None
  pc         \* where each thread is

vars == <<kind, notified, stored, guards, due, note, mine, pc>>

Free == Tokens \ ({stored} \cup {note[t] : t \in Threads} \cup {mine[t] : t \in Threads}
                  \cup UNION {guards[t] \cup due[t] : t \in Threads})

\* The allocator's choice.  Nothing tells free addresses apart, so that one choice stands
\* for all of them, and this one reuses addresses at once.
New == {k \in Free : k = CHOOSE free \in Free : TRUE}

Init ==
  /\ stored = CHOOSE k \in Tokens : TRUE
  /\ kind = [k \in Tokens |-> "ok"]
  /\ notified = {}
  /\ guards = [t \in Threads |-> {}]
  /\ due = [t \in Threads |-> {}]
  /\ note = [t \in Threads |-> None]
  /\ mine = [t \in Threads |-> None]
  /\ pc = [t \in Threads |-> "idle"]

\* Thread t is at a place, with no destructor left to run.
At(t, place) == pc[t] = place /\ due[t] = {}
Goto(t, place) == pc' = [pc EXCEPT ![t] = place]

\* t drops all its references to tokens; TriggerWhenDone::drop is due for those
\* that nobody else refers to.
DropGuards(t) ==
  /\ guards' = [guards EXCEPT ![t] = {}]
  /\ due' = [due EXCEPT ![t] =
       {k \in guards[t] : /\ kind[k] = "ok"
                          /\ k # stored'
                          /\ \A u \in Threads \ {t} : k \notin guards[u]}]

\* A token is allocated at a free address, with a fresh notification.
Allocate(k, what) ==
  /\ k \in New
  /\ kind' = [kind EXCEPT ![k] = what]
  /\ notified' = notified \ {k}

Trigger(t) ==
  /\ \E k \in due[t] : /\ notified' = notified \cup {k}
                       /\ due' = [due EXCEPT ![t] = @ \ {k}]
  /\ UNCHANGED <<kind, stored, guards, note, mine, pc>>

-----------------------------------------------------------------------------
(* Readers *)

CallRead(t) ==
  /\ At(t, "idle")
  /\ Goto(t, "read")
  /\ UNCHANGED <<kind, notified, stored, guards, due, note, mine>>

\* read() loads the token: it is in, or it waits for the writer's notification.
Read(t) ==
  /\ At(t, "read")
  /\ IF kind[stored] = "ok"
     THEN /\ guards' = [guards EXCEPT ![t] = {stored}]
          /\ note' = note
          /\ Goto(t, "reading")
     ELSE /\ note' = [note EXCEPT ![t] = stored]
          /\ guards' = guards
          /\ Goto(t, "read_wait")
  /\ UNCHANGED <<kind, notified, stored, due, mine>>

EndRead(t) ==
  /\ At(t, "reading")
  /\ stored' = stored
  /\ DropGuards(t)
  /\ Goto(t, "idle")
  /\ UNCHANGED <<kind, notified, note, mine>>

\* A wait for a writer is over: load the token again.
Notified(t) ==
  /\ \/ At(t, "read_wait") /\ Goto(t, "read")
     \/ At(t, "write_wait") /\ Goto(t, "write")
  /\ note[t] \in notified
  /\ note' = [note EXCEPT ![t] = None]
  /\ UNCHANGED <<kind, notified, stored, guards, due, mine>>

-----------------------------------------------------------------------------
(* Writers *)

CallWrite(t) ==
  /\ At(t, "idle")
  /\ Goto(t, "write")
  /\ UNCHANGED <<kind, notified, stored, guards, due, note, mine>>

\* lock() loads the token and remembers its notification.
Load(t) ==
  /\ At(t, "write")
  /\ note' = [note EXCEPT ![t] = stored]
  /\ IF kind[stored] = "ok"
     THEN /\ guards' = [guards EXCEPT ![t] = {stored}]
          /\ Goto(t, "swap")
     ELSE /\ guards' = guards
          /\ Goto(t, "write_wait")
  /\ UNCHANGED <<kind, notified, stored, due, mine>>

\* Mutant: the write token is stored without comparing.
SwapByStore(t) ==
  /\ At(t, "swap")
  /\ \E k \in New : /\ Allocate(k, "write")
                     /\ stored' = k
                     /\ mine' = [mine EXCEPT ![t] = k]
  /\ DropGuards(t)
  /\ Goto(t, "drain")
  /\ UNCHANGED note

\* The compare-and-swap.  When it fails, the token found instead is referenced
\* too, until the next round of the loop.
Swap(t) ==
  /\ At(t, "swap")
  /\ \/ /\ stored \in guards[t]
        /\ \E k \in New : /\ Allocate(k, "write")
                           /\ stored' = k
                           /\ mine' = [mine EXCEPT ![t] = k]
        /\ DropGuards(t)
        /\ Goto(t, "drain")
        /\ UNCHANGED note
     \/ /\ stored \notin guards[t]
        /\ guards' = [guards EXCEPT ![t] = @ \cup {stored}]
        /\ Goto(t, "retry")
        /\ UNCHANGED <<kind, notified, stored, due, note, mine>>

Retry(t) ==
  /\ At(t, "retry")
  /\ stored' = stored
  /\ DropGuards(t)
  /\ note' = [note EXCEPT ![t] = None]
  /\ Goto(t, "write")
  /\ UNCHANGED <<kind, notified, mine>>

\* The rcu call stores the token already there; then the readers of the old token
\* are waited for.
Drained(t) ==
  /\ At(t, "drain")
  /\ note[t] \in notified
  /\ note' = [note EXCEPT ![t] = None]
  /\ Goto(t, "writing")
  /\ UNCHANGED <<kind, notified, stored, guards, due, mine>>

\* MutexWriter::drop stores a new ReadOk token ...
Unlock(t) ==
  /\ At(t, "writing")
  /\ \E k \in New : Allocate(k, "ok") /\ stored' = k
  /\ Goto(t, "unblock")
  /\ UNCHANGED <<guards, due, note, mine>>

\* Mutant: the waiting threads are not told.
UnblockSilently(t) ==
  /\ At(t, "unblock")
  /\ mine' = [mine EXCEPT ![t] = None]
  /\ Goto(t, "idle")
  /\ UNCHANGED <<kind, notified, stored, guards, due, note>>

\* ... and notifies everyone waiting for this writer.
Unblock(t) ==
  /\ At(t, "unblock")
  /\ notified' = notified \cup {mine[t]}
  /\ mine' = [mine EXCEPT ![t] = None]
  /\ Goto(t, "idle")
  /\ UNCHANGED <<kind, stored, guards, due, note>>

-----------------------------------------------------------------------------

Step(t) == \/ Trigger(t)
           \/ Read(t) \/ EndRead(t) \/ Notified(t)
           \/ Load(t) \/ Swap(t) \/ Retry(t) \/ Drained(t) \/ Unlock(t) \/ Unblock(t)

Next == \E t \in Threads : CallRead(t) \/ CallWrite(t) \/ Step(t)

\* Threads are scheduled, and critical sections end.
Spec == Init /\ [][Next]_vars /\ \A t \in Threads : WF_vars(Step(t))

\* A writer has the data to itself, although it was a reader's token, not a
\* count of readers, that it waited for.
Exclusive ==
  \A t, u \in Threads : pc[t] = "writing" /\ u # t => pc[u] \notin {"reading", "writing"}

\* No notification is lost or sent to a recycled token: whoever waits, for a
\* writer or for the readers of the token it replaced, goes on.
WaitersGoOn ==
  \A t \in Threads :
    pc[t] \in {"read_wait", "write_wait", "drain"} ~> pc[t] \in {"read", "write", "writing"}
=============================================================================
