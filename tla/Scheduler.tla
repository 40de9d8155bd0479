------------------------------ MODULE Scheduler ------------------------------
(***************************************************************************)
(* Running rules under a scheduler: egglog/src/scheduler.rs with the       *)
(* back-off scheduler of egglog-experimental/src/scheduling.rs.  A rule is *)
(* split into a query, which only collects matches, and an action, which   *)
(* is run for the matches the scheduler chooses; the others are kept for a *)
(* later step.  last is the time of the query's last run.  An e-graph is   *)
(* used either with a scheduler or without one, as in SemiNaive.           *)
(***************************************************************************)
EXTENDS SemiNaive

CONSTANTS
  MaxSteps,    \* bound: the steps of the scheduler
  MatchLimit,  \* match_limit: more matches than this ban a rule
  BanLength,   \* ban_length: for how many steps, the first time
  NodeLimit    \* node_limit: no rule is run once there are as many rows

ASSUME SchedulerAssumption ==
  MaxSteps \in Nat /\ MatchLimit \in Nat /\ BanLength \in Nat \ {0} /\ NodeLimit \in Nat

Order == <<"compress", "knot", "seed">>

VARIABLES
  scheduled,  \* whether the rules are run by the scheduler
  steps,      \* history: how many steps were begun
  sought,     \* history: the rules whose queries the last step ran
  todo,       \* the rules a step has still to come to
  phase,      \* "idle", or "step" within one
  applied,    \* any_applied: whether the step ran an action
  changed,    \* whether an action of the step changed the database
  built,      \* whether rule_info is there
  seek,       \* should_seek of each rule
  heap,       \* the match lists of the rules, by the address of the list
  reader,     \* the address in SchedulerRuleInfo
  writer,     \* the address in CollectMatches
  ban,        \* of each rule, banned_until less iteration
  factor,     \* of each rule, 2 to the power times_banned
  pushed      \* pushed_egraph: <<>>, or the clone

stepVars == <<steps, sought, todo, phase, applied, changed>>
infoVars == <<built, seek, heap, reader, writer, ban, factor>>
schedVars == <<scheduled, stepVars, infoVars, pushed>>

Addresses == {1, 2}

SchedInit ==
  /\ Init
  /\ scheduled \in BOOLEAN
  /\ steps = 0 /\ sought = {} /\ todo = <<>> /\ phase = "idle" /\ applied = FALSE /\ changed = FALSE
  /\ built = FALSE /\ seek = [r \in Rules |-> TRUE]
  /\ heap = [a \in Addresses |-> [r \in Rules |-> {}]]
  /\ reader = 1 /\ writer = 1
  /\ ban = [r \in Rules |-> 0] /\ factor = [r \in Rules |-> 1]
  /\ pushed = <<>>

-----------------------------------------------------------------------------
(* A step: step_rules_with_scheduler.  calm is Rules when the report says can_stop. *)

\* The rules are split, the first time; the queries of those that seek are run, and collect_matches
\* appends what they find.
Query ==
  LET rs == {r \in Rules : seek[r]}
  IN  /\ phase = "idle" /\ steps < MaxSteps
      /\ heap' = [heap EXCEPT ![writer] = [r \in Rules |-> @[r] \cup (IF r \in rs THEN Found(r, last[r]) ELSE {})]]
      /\ last' = RanAt(rs)
      /\ ts' = ts + 1
      /\ built' = TRUE
      /\ steps' = steps + 1 /\ sought' = rs /\ todo' = Order /\ phase' = "step"
      /\ applied' = FALSE /\ changed' = FALSE /\ calm' = {}
      /\ UNCHANGED <<rows, canon, cursor, owed, done, lost, events, seek, reader, writer, ban, factor>>

Nodes == Cardinality(DOMAIN rows)

TooMany(r) == Cardinality(heap[reader][r]) > MatchLimit * factor[r]

\* What filter_matches finds: still banned, too many matches, at the node limit, or none of these.
Verdict(r) ==
  CASE ban[r] > 1 -> "banned"
    [] ban[r] <= 1 /\ TooMany(r) -> "ban"
    [] ban[r] <= 1 /\ ~TooMany(r) -> IF Nodes >= NodeLimit THEN "limit" ELSE "all"

\* Mutant: matches that are not chosen are dropped.
KeptNot(r) == {}

\* The residual matches.
Kept(r) == IF Verdict(r) = "all" THEN {} ELSE heap[reader][r]

Count(r) ==
  /\ ban' = [ban EXCEPT ![r] = IF Verdict(r) = "ban" THEN BanLength * factor[r]
                               ELSE IF @ > 0 THEN @ - 1 ELSE 0]
  /\ factor' = [factor EXCEPT ![r] = IF Verdict(r) = "ban" THEN 2 * @ ELSE @]

\* Choosing none, or choosing all of none: no action is run.
Skip(r) ==
  /\ Verdict(r) # "all" \/ heap[reader][r] = {}
  /\ todo' = Tail(todo)
  /\ UNCHANGED <<vars, phase, applied, changed>>

\* A panic: the database is rebuilt, and the step ends without a report.
Abort(table, c) ==
  /\ Rebuild(table, c, ts + 1)
  /\ phase' = "idle" /\ todo' = <<>>
  /\ UNCHANGED <<calm, applied, changed>>

\* The chosen matches are written to the table of decided matches, at one time, and the
\* action is run for them at the next.  After a panic the table is cleared and the step ends.
Apply(r) ==
  LET chosen == [s \in {r} |-> heap[reader][r]]
  IN  /\ Verdict(r) = "all" /\ chosen[r] # {}
      /\ \E tried \in Attempts(chosen) :
           LET table == Written(tried, ts + 1)
               c == United(tried)
           IN  /\ \/ /\ tried = chosen
                     /\ rows' = table /\ canon' = c /\ ts' = ts + 2
                     /\ owed' = TRUE
                     /\ todo' = Tail(todo) /\ applied' = TRUE
                     /\ changed' = (changed \/ ~Same(table, c))
                     /\ UNCHANGED <<cursor, phase, calm>>
                  \/ tried # chosen /\ Abort(table, c)
               /\ Tried(chosen, tried)
      /\ UNCHANGED last

Filter ==
  /\ phase = "step" /\ todo # <<>>
  /\ LET r == Head(todo)
     IN  /\ Count(r)
         /\ seek' = [seek EXCEPT ![r] = (Verdict(r) = "all")]
         /\ heap' = [heap EXCEPT ![reader][r] = Kept(r)]
         /\ Skip(r) \/ Apply(r)
  /\ UNCHANGED <<steps, sought, built, reader, writer>>

Banned == {r \in Rules : ban[r] > 0}

\* can_stop, when nothing changed: at the node limit, or when no rule is banned.  Otherwise
\* the least ban is over, and the counts of the rules that are not banned start again.
CanStop ==
  \/ changed /\ calm' = {} /\ UNCHANGED <<ban, factor>>
  \/ /\ ~changed /\ Cardinality(DOMAIN rows') >= NodeLimit
     /\ calm' = Rules
     /\ UNCHANGED <<ban, factor>>
  \/ /\ ~changed /\ Cardinality(DOMAIN rows') < NodeLimit
     /\ calm' = IF Banned = {} THEN Rules ELSE {}
     /\ ban' = [r \in Rules |-> IF r \in Banned THEN ban[r] - Min({ban[s] : s \in Banned}) ELSE 0]
     /\ factor' = [r \in Rules |-> IF r \in Banned THEN factor[r] ELSE 1]

EndStep ==
  /\ phase = "step" /\ todo = <<>>
  /\ \/ applied /\ Rebuild(rows, canon, ts)
     \/ ~applied /\ UNCHANGED <<rows, ts, cursor, canon, owed>>
  /\ CanStop
  /\ done' = [r \in Rules |-> done[r] \cap Matches(r)']
  /\ lost' = [r \in Rules |-> lost[r] \cap Matches(r)']
  /\ phase' = "idle"
  /\ UNCHANGED <<last, events, steps, sought, todo, applied, changed, built, seek, heap, reader, writer>>

-----------------------------------------------------------------------------
(* push and pop *)

\* If the rules were split, the clone's SchedulerRuleInfo shares the match list, while its
\* CollectMatches has a copy of its own.
Push ==
  /\ phase = "idle" /\ pushed = <<>> /\ reader = writer
  /\ events < MaxEvents /\ events' = events + 1
  /\ LET copy == 3 - writer
     IN  /\ heap' = [heap EXCEPT ![copy] = heap[writer]]
         /\ pushed' = <<[ts |-> ts, rows |-> rows, canon |-> canon, cursor |-> cursor, last |-> last,
                         owed |-> owed, done |-> done, lost |-> lost,
                         built |-> built, seek |-> seek, ban |-> ban, factor |-> factor,
                         reader |-> IF built THEN reader ELSE copy, writer |-> copy]>>
  /\ UNCHANGED <<ts, rows, canon, cursor, last, owed, calm, done, lost>>
  /\ UNCHANGED <<stepVars, built, seek, reader, writer, ban, factor>>

Pop ==
  /\ phase = "idle" /\ pushed # <<>>
  /\ LET egraph == pushed[1]
     IN  /\ ts' = egraph.ts /\ rows' = egraph.rows /\ canon' = egraph.canon /\ cursor' = egraph.cursor
         /\ last' = egraph.last /\ owed' = egraph.owed /\ calm' = {}
         /\ done' = egraph.done /\ lost' = egraph.lost
         /\ built' = egraph.built /\ seek' = egraph.seek /\ ban' = egraph.ban /\ factor' = egraph.factor
         /\ reader' = egraph.reader /\ writer' = egraph.writer
  /\ pushed' = <<>>
  /\ UNCHANGED <<events, stepVars, heap>>

SchedNext ==
  \/ ~scheduled /\ Next /\ UNCHANGED schedVars
  \/ /\ scheduled
     /\ \/ (Query \/ Filter \/ EndStep) /\ UNCHANGED pushed
        \/ phase = "idle" /\ RunCommand /\ UNCHANGED <<stepVars, infoVars, pushed>>
        \/ Push \/ Pop
     /\ UNCHANGED scheduled

SchedSpec == SchedInit /\ [][SchedNext]_<<vars, schedVars>>

-----------------------------------------------------------------------------
(* Properties *)

\* Semi-naive evaluation leaves nothing out: what a rule no longer looks at it was run for,
\* though rows were merged, deleted, written again, rebuilt and restamped in between.
OldMatchesWereSeen == ~scheduled => SeenBut([r \in Rules |-> {}])

\* The queries of a run share no match and together find each match with a new row.
VariantsPartition ==
  \A r \in Rules : LET mid == last[r] IN
    /\ \A i, j \in Foci(r, mid) : i # j => Variant(r, i, mid) \cap Variant(r, j, mid) = {}
    /\ Atoms[r] # <<>> => Found(r, mid) =
         {env \in Matches(r) : \E i \in DOMAIN Atoms[r] : Stamp(env, Atoms[r][i]) >= mid}

\* (saturate ...) of one ruleset or of several in turn stops after an iteration without
\* effect: every rule then holds of the database.
SaturatedIsFixpoint == ~scheduled /\ calm = Rules => Closed

\* Unless a rebuild is owed, no row mentions a displaced id.
RowsCanonical == ~scheduled /\ ~owed => Canonical

\* The scheduler drops no match: what the query no longer looks at was applied or waits,
\* though rules are banned, others panic, and rows are restamped under the matches kept.
NoMatchDropped == scheduled /\ reader = writer => SeenBut(heap[reader])

\* When a step that ran every query reports that the schedule can stop, and not because of
\* the node limit, every rule holds of the database, for the matches held back too.
StopAfterSeeking ==
  scheduled /\ calm = Rules /\ Nodes < NodeLimit /\ sought = Rules /\ reader = writer => Closed

\* The same of every step: "Whether or not the rules can be considered as saturated".
StopIsDone == scheduled /\ calm = Rules /\ Nodes < NodeLimit /\ reader = writer => Closed

\* The same after a pop: a scheduler that was there before the push works on.
PopKeepsScheduler == scheduled /\ calm = Rules /\ Nodes < NodeLimit /\ sought = Rules => Closed

\* "Canonicalize the database after deferred-rebuild runs": between the steps of a
\* scheduler no row mentions a displaced id.
StepLeavesCanonical == scheduled /\ phase = "idle" => Canonical

\* Semi-naive evaluation is complete: its queries divide the new matches, and the old ones were
\* seen.
SeminaiveComplete == OldMatchesWereSeen /\ VariantsPartition

\* What a schedule may rely on between iterations: canonical rows, and a fixpoint once saturated.
SaturatedIsRight == SaturatedIsFixpoint /\ RowsCanonical

\* Held-back matches are kept, and count before the schedule may stop.
MatchesAreKept == NoMatchDropped /\ StopAfterSeeking
=============================================================================
