------------------------------ MODULE ThreadPool ------------------------------
(***************************************************************************)
(* The scoped thread pool of concurrency/src/threadpool/mod.rs: a shared   *)
(* queue, one private deque per primary worker, and scopes on the caller's *)
(* stack that count the callbacks they expect and have completed.  A       *)
(* worker that waits for a nested scope helps with other jobs up to a      *)
(* depth, and beyond it hands its work to a backup worker and blocks.      *)
(*                                                                         *)
(* What the callbacks do is left open: each may spawn jobs on its own or   *)
(* an enclosing scope, open nested scopes, return or panic at any time,    *)
(* within MaxJobs and MaxScopes.  A job is known by its scope.  A thread   *)
(* is a stack of frames: the loop it started in, jobs, and root callbacks  *)
(* of the scopes it opened, which also hold the wait for the scope.        *)
(***************************************************************************)
EXTENDS Naturals, Sequences, SequencesExt, FiniteSets

CONSTANTS
  Main,       \* the external thread that owns the pool
  Workers,    \* the primary workers
  Backups,    \* the names for backup workers
  MaxDepth,   \* MAX_INLINE_SCOPE_HELP_DEPTH
  MaxScopes,  \* bound: scopes opened in a behaviour
  MaxJobs,    \* bound: jobs spawned in a behaviour
  MayPanic,   \* whether callbacks may panic
  None

Threads == {Main} \cup Workers \cup Backups
Scopes == 1..MaxScopes

ASSUME PoolAssumption ==
  /\ Main \notin Workers \cup Backups /\ Workers \cap Backups = {}
  /\ None \notin Threads
  /\ Workers # {} /\ IsFiniteSet(Threads)
  /\ MaxDepth \in Nat /\ MaxScopes \in Nat /\ MaxJobs \in Nat
  /\ MayPanic \in BOOLEAN

VARIABLES
  stack,      \* stack[t]: the frames of thread t
  local,      \* local[t]: t's private deque (empty unless t is a primary worker)
  global,     \* the shared queue
  out,        \* out[t]: jobs t is sending to the shared queue before it goes on
  depth,      \* INLINE_SCOPE_HELP_DEPTH of each thread
  stalled,    \* the primary workers counted in stalled_workers
  boss,       \* boss[b]: the thread blocked behind backup worker b, or None
  fired,      \* backup workers that have been sent the shutdown message
  closed,     \* ThreadPool::drop has closed the shared queue
  counts,     \* counts[s]: the expected and completed callbacks of scope s
  done,       \* done[s]: messages in the completion channel of s, capacity 1
  slot,       \* slot[s]: a job's panic is recorded in s
  parent,     \* parent[s]: the scope whose callback opened s, or 0
  outcome,    \* outcome[s]: "unborn", "open", "ok" or "panic"
  jobs,       \* the number of jobs spawned so far
  panicked    \* history: the scopes one of whose callbacks panicked

pool == <<local, global, out, stalled>>
help == <<depth, boss, fired, closed>>
scopes == <<counts, done, slot, parent, outcome, jobs, panicked>>
vars == <<stack, pool, help, scopes>>

Frame(kind, scope, place) == [kind |-> kind, scope |-> scope, pc |-> place, bad |-> FALSE]

Init ==
  /\ stack = [t \in Threads |-> IF t \in Workers THEN <<Frame("loop", 0, "local")>> ELSE <<>>]
  /\ local = [t \in Threads |-> <<>>]
  /\ global = <<>>
  /\ out = [t \in Threads |-> <<>>]
  /\ depth = [t \in Threads |-> 0]
  /\ stalled = {}
  /\ boss = [b \in Backups |-> None]
  /\ fired = {}
  /\ closed = FALSE
  /\ counts = [s \in Scopes |-> [expected |-> 0, completed |-> 0]]
  /\ done = [s \in Scopes |-> 0]
  /\ slot = [s \in Scopes |-> FALSE]
  /\ parent = [s \in Scopes |-> 0]
  /\ outcome = [s \in Scopes |-> "unborn"]
  /\ jobs = 0
  /\ panicked = {}

Top(t) == Last(stack[t])
At(t, kinds, place) ==
  /\ stack[t] # <<>>
  /\ out[t] = <<>>
  /\ Top(t).kind \in kinds
  /\ Top(t).pc = place

\* The stack of t with its top frame at another place.
Moved(t, place) == Append(Front(stack[t]), [Top(t) EXCEPT !.pc = place])
Goto(t, place) == stack' = [stack EXCEPT ![t] = Moved(t, place)]

\* Where a frame looks for work first: a waiting scope polls its channel.
Again(t) == IF Top(t).kind = "root" THEN "poll" ELSE IF t \in Backups THEN "select" ELSE "local"

\* t runs a job of scope s on top of what it was doing.
RunJob(t, s, place) ==
  stack' = [stack EXCEPT ![t] = Append(Moved(t, Again(t)), Frame("job", s, place))]

-----------------------------------------------------------------------------
(* The shared queue *)

\* enqueue_global: one send of a spawned or donated job.
Send(t) ==
  /\ out[t] # <<>>
  /\ global' = Append(global, Head(out[t]))
  /\ out' = [out EXCEPT ![t] = Tail(@)]
  /\ UNCHANGED <<stack, local, stalled, help, scopes>>

\* donate_half_if_stalled: how many of a private queue's oldest jobs to give away.
Donated(q) == IF stalled = {} THEN 0 ELSE Len(q) \div 2

-----------------------------------------------------------------------------
(* Callbacks *)

\* ThreadPoolState::scope: called by the main thread or by a running callback.
OpenScope(t) ==
  /\ \/ t = Main /\ stack[t] = <<>> /\ ~closed
     \/ At(t, {"job", "root"}, "run")
  /\ \E s \in Scopes :
       /\ outcome[s] = "unborn"
       /\ \A r \in Scopes : outcome[r] = "unborn" => s <= r
       /\ outcome' = [outcome EXCEPT ![s] = "open"]
       /\ counts' = [counts EXCEPT ![s] = [expected |-> 1, completed |-> 0]]
       /\ parent' = [parent EXCEPT ![s] = IF stack[t] = <<>> THEN 0 ELSE Top(t).scope]
       /\ stack' = [stack EXCEPT ![t] = Append(@, Frame("root", s, "run"))]
  /\ UNCHANGED <<pool, help, done, slot, jobs, panicked>>

\* The scopes a callback of s can name: s and those around it.
Enclosing(s) ==
  {r \in Scopes : \A around \in SUBSET Scopes :
     s \in around /\ (\A q \in around : parent[q] \in around \cup {0}) => r \in around}

ExpectOne(s) == counts' = [counts EXCEPT ![s].expected = @ + 1]

\* Scope::spawn and spawn_local.  The count is raised before the job is queued;
\* nobody can act on the count while this callback has yet to complete.
Spawn(t) ==
  /\ At(t, {"job", "root"}, "run")
  /\ jobs < MaxJobs
  /\ jobs' = jobs + 1
  /\ \E s \in Enclosing(Top(t).scope) :
       /\ ExpectOne(s)
       /\ \/ /\ out' = [out EXCEPT ![t] = <<s>>]
             /\ local' = local
          \/ /\ t \in Workers
             /\ LET q == Append(local[t], s)
                IN  /\ out' = [out EXCEPT ![t] = SubSeq(q, 1, Donated(q))]
                    /\ local' = [local EXCEPT ![t] = SubSeq(q, Donated(q) + 1, Len(q))]
  /\ UNCHANGED <<stack, global, stalled, help, done, slot, parent, outcome, panicked>>

\* Mutant: a job that panics is counted and its panic is not recorded.
OverSilently(frames, bad) ==
  Append(Front(frames), [Last(frames) EXCEPT !.bad = bad, !.pc = "count"])

\* The frames with the top callback over: a job's panic is recorded before it is counted.
Over(frames, bad) ==
  LET f == Last(frames)
  IN  Append(Front(frames), [f EXCEPT !.bad = bad,
                                      !.pc = IF bad /\ f.kind = "job" THEN "record" ELSE "count"])

\* The callback returns or panics.
Finish(t) ==
  /\ At(t, {"job", "root"}, "run")
  /\ \E bad \in {FALSE, MayPanic} :
       /\ stack' = [stack EXCEPT ![t] = Over(@, bad)]
       /\ panicked' = IF bad THEN panicked \cup {Top(t).scope} ELSE panicked
  /\ UNCHANGED <<pool, help, counts, done, slot, parent, outcome, jobs>>

RecordPanic(t) ==
  /\ At(t, {"job"}, "record")
  /\ slot' = [slot EXCEPT ![Top(t).scope] = TRUE]
  /\ Goto(t, "count")
  /\ UNCHANGED <<pool, help, counts, done, parent, outcome, jobs, panicked>>

\* Mutant: the counts are read again after the increment.
CompleteReread(t) ==
  /\ LET s == Top(t).scope
         last == counts[s].completed = counts[s].expected
     IN  \/ /\ At(t, {"job", "root"}, "count")
            /\ counts' = [counts EXCEPT ![s].completed = @ + 1]
            /\ Goto(t, "reread")
         \/ /\ At(t, {"job", "root"}, "reread")
            /\ counts' = counts
            /\ stack' = [stack EXCEPT ![t] =
                 IF last THEN Moved(t, "signal")
                 ELSE IF Top(t).kind = "job" THEN Front(@) ELSE Moved(t, "wait")]
  /\ UNCHANGED <<pool, help, done, slot, parent, outcome, jobs, panicked>>

\* Mutant: the completed count is compared as it was before the increment.
CompletePrevious(t) ==
  /\ At(t, {"job", "root"}, "count")
  /\ LET s == Top(t).scope
         last == counts[s].completed = counts[s].expected
     IN  /\ counts' = [counts EXCEPT ![s].completed = @ + 1]
         /\ stack' = [stack EXCEPT ![t] =
              IF last THEN Moved(t, "signal")
              ELSE IF Top(t).kind = "job" THEN Front(@) ELSE Moved(t, "wait")]
  /\ UNCHANGED <<pool, help, done, slot, parent, outcome, jobs, panicked>>

\* complete_one: one fetch_add; the last callback goes on to signal.
CompleteOne(t) ==
  /\ At(t, {"job", "root"}, "count")
  /\ LET s == Top(t).scope
         last == counts[s].completed + 1 = counts[s].expected
     IN  /\ counts' = [counts EXCEPT ![s].completed = @ + 1]
         /\ stack' = [stack EXCEPT ![t] =
              IF last THEN Moved(t, "signal")
              ELSE IF Top(t).kind = "job" THEN Front(@) ELSE Moved(t, "wait")]
  /\ UNCHANGED <<pool, help, done, slot, parent, outcome, jobs, panicked>>

\* The completion message is sent through the scope, which must still exist.
Signal(t) ==
  /\ At(t, {"job", "root"}, "signal")
  /\ done' = [done EXCEPT ![Top(t).scope] = @ + 1]
  /\ stack' = [stack EXCEPT ![t] = IF Top(t).kind = "job" THEN Front(@) ELSE Moved(t, "take")]
  /\ UNCHANGED <<pool, help, counts, slot, parent, outcome, jobs, panicked>>

\* scope returns: the root's own panic, or one recorded by a job, unwinds into the
\* callback that opened the scope.
ReturnFromScope(t) ==
  /\ At(t, {"root"}, "take")
  /\ LET s == Top(t).scope
         bad == Top(t).bad \/ slot[s]
         rest == Front(stack[t])
     IN  /\ outcome' = [outcome EXCEPT ![s] = IF bad THEN "panic" ELSE "ok"]
         /\ slot' = [slot EXCEPT ![s] = FALSE]
         /\ done' = [done EXCEPT ![s] = 0]
         /\ stack' = [stack EXCEPT ![t] = IF bad /\ rest # <<>> THEN Over(rest, TRUE) ELSE rest]
         /\ panicked' = IF bad /\ rest # <<>> THEN panicked \cup {Last(rest).scope} ELSE panicked
  /\ UNCHANGED <<pool, help, counts, parent, jobs>>

-----------------------------------------------------------------------------
(* Waiting for a scope *)

\* wait_for_scope_completion: block, help inline, or go deep.
Wait(t) ==
  /\ At(t, {"root"}, "wait")
  /\ IF t = Main THEN Goto(t, "block") /\ UNCHANGED depth
     ELSE IF depth[t] < MaxDepth
     THEN Goto(t, "poll") /\ depth' = [depth EXCEPT ![t] = @ + 1]
     ELSE Goto(t, "deep") /\ UNCHANGED depth
  /\ UNCHANGED <<pool, boss, fired, closed, scopes>>

\* Received(s): the completion message of s is taken from its channel.
Received(s) == done[s] > 0 /\ done' = [done EXCEPT ![s] = @ - 1]

Poll(t) ==
  /\ At(t, {"root"}, "poll")
  /\ \/ Received(Top(t).scope) /\ Goto(t, "leave")
     \/ done[Top(t).scope] = 0 /\ done' = done /\ Goto(t, "local")
  /\ UNCHANGED <<pool, help, counts, slot, parent, outcome, jobs, panicked>>

\* pop_local: donate to the stalled workers, then take the newest job.
PopLocal(t) ==
  /\ At(t, {"loop", "root"}, "local")
  /\ LET q == local[t]
         d == Donated(q)
     IN  /\ out' = [out EXCEPT ![t] = SubSeq(q, 1, d)]
         /\ IF q = <<>>
            THEN local' = local /\ Goto(t, "global")
            ELSE /\ local' = [local EXCEPT ![t] = SubSeq(q, d + 1, Len(q) - 1)]
                 /\ RunJob(t, Last(q), "run")
  /\ UNCHANGED <<global, stalled, help, scopes>>

\* try_recv on the shared queue, by the worker loop or a helping wait.
TryRecv(t) ==
  /\ At(t, {"loop", "root"}, "global")
  /\ \/ /\ global # <<>>
        /\ global' = Tail(global)
        /\ RunJob(t, Head(global), "run")
     \/ /\ global = <<>> /\ ~closed
        /\ global' = global
        /\ Goto(t, "stall")
  /\ UNCHANGED <<local, out, stalled, help, scopes>>

\* StalledWorkerGuard::new; backup workers are not counted.
BeginStall(t) ==
  /\ At(t, {"loop", "root"}, "stall")
  /\ stalled' = stalled \cup ({t} \cap Workers)
  /\ Goto(t, "select")
  /\ UNCHANGED <<local, global, out, help, scopes>>

\* recv or select_biased: the scope's message, or the shutdown of a backup worker,
\* goes before the next job.
Select(t) ==
  /\ At(t, {"loop", "root"}, "select")
  /\ \/ /\ Top(t).kind = "root"
        /\ Received(Top(t).scope)
        /\ global' = global
        /\ Goto(t, "wake")
     \/ /\ Top(t).kind = "root" => done[Top(t).scope] = 0
        /\ t \notin fired \/ Top(t).kind = "root"
        /\ global # <<>>
        /\ global' = Tail(global)
        /\ done' = done
        /\ RunJob(t, Head(global), "wake")
  /\ UNCHANGED <<local, out, stalled, help, counts, slot, parent, outcome, jobs, panicked>>

\* StalledWorkerGuard::drop
EndStall(t) ==
  /\ At(t, {"job", "root"}, "wake")
  /\ stalled' = stalled \ {t}
  /\ Goto(t, IF Top(t).kind = "job" THEN "run" ELSE "leave")
  /\ UNCHANGED <<local, global, out, help, scopes>>

\* InlineScopeHelpGuard::drop restores the depth.
Leave(t) ==
  /\ At(t, {"root"}, "leave")
  /\ depth' = [depth EXCEPT ![t] = @ - 1]
  /\ Goto(t, "take")
  /\ UNCHANGED <<pool, boss, fired, closed, scopes>>

\* Too deep to help: donate every private job ...
DonateAll(t) ==
  /\ At(t, {"root"}, "deep")
  /\ out' = [out EXCEPT ![t] = local[t]]
  /\ local' = [local EXCEPT ![t] = <<>>]
  /\ Goto(t, "hire")
  /\ UNCHANGED <<global, stalled, help, scopes>>

\* ... start a backup worker ...
Hire(t) ==
  /\ At(t, {"root"}, "hire")
  /\ \E b \in {c \in Backups : boss[c] = None} :
       /\ boss' = [boss EXCEPT ![b] = t]
       /\ stack' = [stack EXCEPT ![t] = Moved(t, "sleep"), ![b] = <<Frame("loop", 0, "select")>>]
  /\ UNCHANGED <<pool, depth, fired, closed, scopes>>

\* ... count as stalled, and block on the scope.
Sleep(t) ==
  /\ At(t, {"root"}, "sleep")
  /\ stalled' = stalled \cup ({t} \cap Workers)
  /\ Goto(t, "block")
  /\ UNCHANGED <<local, global, out, help, scopes>>

Receive(t) ==
  /\ At(t, {"root"}, "block")
  /\ Received(Top(t).scope)
  /\ Goto(t, IF t = Main THEN "take" ELSE "rise")
  /\ UNCHANGED <<pool, help, counts, slot, parent, outcome, jobs, panicked>>

\* The guards are dropped in reverse: the stall ends, then the backup worker is told
\* to stop, and joined.
Rise(t) ==
  /\ At(t, {"root"}, "rise")
  /\ stalled' = stalled \ {t}
  /\ Goto(t, "fire")
  /\ UNCHANGED <<local, global, out, help, scopes>>

Fire(t) ==
  /\ At(t, {"root"}, "fire")
  /\ fired' = fired \cup {b \in Backups : boss[b] = t}
  /\ Goto(t, "join")
  /\ UNCHANGED <<pool, depth, boss, closed, scopes>>

\* Mutant: the backup worker is told to stop and not waited for.
Detach(t) ==
  /\ At(t, {"root"}, "join")
  /\ Goto(t, "take")
  /\ UNCHANGED <<pool, help, scopes>>

Join(t) ==
  /\ At(t, {"root"}, "join")
  /\ \E b \in Backups :
       /\ boss[b] = t /\ stack[b] = <<>>
       /\ boss' = [boss EXCEPT ![b] = None]
       /\ fired' = fired \ {b}
  /\ Goto(t, "take")
  /\ UNCHANGED <<pool, depth, closed, scopes>>

-----------------------------------------------------------------------------
(* The end of threads and of the pool *)

Exit(t) ==
  /\ \/ At(t, {"loop"}, "select") /\ t \in fired
     \/ At(t, {"loop"}, "global") /\ closed /\ global = <<>>
     \/ At(t, {"loop"}, "select") /\ closed /\ global = <<>>
  /\ stack' = [stack EXCEPT ![t] = <<>>]
  /\ stalled' = stalled \ {t}
  /\ UNCHANGED <<local, global, out, help, scopes>>

\* ThreadPool::drop closes the queue, between two calls of the owner; the join of
\* the workers is Ended below.
Drop ==
  /\ stack[Main] = <<>> /\ ~closed
  /\ closed' = TRUE
  /\ UNCHANGED <<stack, pool, depth, boss, fired, scopes>>

Callback(t) == OpenScope(t) \/ Spawn(t) \/ Finish(t) \/ RecordPanic(t) \/ CompleteOne(t)
               \/ Signal(t) \/ ReturnFromScope(t)
Waiting(t) == \/ Wait(t) \/ Poll(t) \/ PopLocal(t) \/ TryRecv(t) \/ BeginStall(t) \/ Select(t)
              \/ EndStall(t) \/ Leave(t)
              \/ DonateAll(t) \/ Hire(t) \/ Sleep(t) \/ Receive(t) \/ Rise(t) \/ Fire(t) \/ Join(t)
Step(t) == Send(t) \/ Callback(t) \/ Waiting(t) \/ Exit(t) \/ (t = Main /\ Drop)

Next == \E t \in Threads : Step(t)

\* Every thread that can run runs.  Callbacks come to an end because MaxJobs and
\* MaxScopes bound them.
Spec == Init /\ [][Next]_vars /\ \A t \in Threads : WF_vars(Step(t))

-----------------------------------------------------------------------------
(* Properties *)

Frames(t) == Range(stack[t])
Queued == Range(global) \cup UNION {Range(local[t]) \cup Range(out[t]) : t \in Threads}

Ended == closed /\ \A t \in Threads : stack[t] = <<>>

\* The promise behind the lifetime erasure of erase_job_lifetime and ScopePtr: no
\* job is queued, running, counting itself or signalling for a scope that has
\* returned, and a scope that has returned saw every callback it expected.
ScopeOutlivesJobs ==
  /\ \A s \in Queued : outcome[s] = "open"
  /\ \A t \in Threads : \A f \in Frames(t) : f.kind # "loop" => outcome[f.scope] = "open"
  /\ \A s \in Scopes : outcome[s] \in {"ok", "panic"} => counts[s].completed = counts[s].expected

\* try_send never finds the channel full ("scope completion should only be signaled
\* once"): of all the callbacks of a scope, on whatever threads they complete, one at
\* most signals, and it does so after the last has counted itself.
SignalledOnce ==
  \A s \in Scopes :
    LET senders == {t \in Threads : \E f \in Frames(t) : f.scope = s /\ f.pc = "signal"}
        signals == Cardinality(senders) + done[s]
    IN  /\ signals <= 1
        /\ signals = 1 => counts[s].completed = counts[s].expected

\* A scope panics exactly when one of its callbacks did, panics of nested scopes
\* included, on whichever thread they ran and helped.
PanicsArrive ==
  \A s \in Scopes : /\ outcome[s] = "ok" => s \notin panicked
                    /\ outcome[s] = "panic" => s \in panicked

\* The depth counter of a thread is the number of waits that are helping on its
\* stack, and never exceeds the limit.
HelpDepthExact ==
  \A t \in Threads :
    /\ depth[t] <= MaxDepth
    /\ depth[t] = Cardinality({i \in DOMAIN stack[t] :
         /\ stack[t][i].kind = "root"
         /\ stack[t][i].pc \in {"poll", "local", "global", "stall", "select", "wake", "leave"}})

\* A backup worker lives only while the thread that started it is blocked, so none
\* is left when the pool's state is freed.
BackupsJoined ==
  /\ \A b \in Backups : stack[b] # <<>> =>
       /\ boss[b] # None
       /\ stack[boss[b]] # <<>>
       /\ Top(boss[b]).pc \in {"sleep", "block", "rise", "fire", "join"}
  /\ Ended => \A b \in Backups : boss[b] = None

\* Nested scopes never wait on each other for ever: whatever the callbacks spawn,
\* locally or globally, and whoever helps whom, every scope returns and the pool
\* can be dropped.
PoolDrains == <>Ended

\* The two promises behind the lifetime erasure: no job outlives its scope, and a scope is
\* told once that its jobs are over.
ScopesAreSafe == ScopeOutlivesJobs /\ SignalledOnce

\* What a wait starts it ends: the help it gives and the backup workers it calls.
WaitsAreBalanced == HelpDepthExact /\ BackupsJoined
=============================================================================
