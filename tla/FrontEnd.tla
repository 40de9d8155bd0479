------------------------------- MODULE FrontEnd -------------------------------
(***************************************************************************)
(* The driver of egglog programs, without proofs: every command is         *)
(* desugared, typechecked (which registers its names), checked for         *)
(* shadowing, rid of globals and only then run, and an error anywhere      *)
(* leaves behind what was done before it.  Closed constructor actions,     *)
(* (C 1) and (union (C 1) (D)), skip all that: they are prepared from      *)
(* cached metadata and queued, and a batch is executed at once later.      *)
(*                                                                         *)
(* An e-graph is a record, which push clones and pop restores.  All        *)
(* constructors take nothing or one literal, and the same one, so that a   *)
(* table holds one row or none; all globals have one sort and so share one *)
(* table.                                                                  *)
(***************************************************************************)
EXTENDS Integers, Sequences, SequencesExt

CONSTANTS
  Names,        \* names a program gives to sorts, constructors and globals
  SortNames,    \* names that it gives to sorts only
  None,
  MaxBatch,     \* GroundActionBatch: a longer batch is flushed
  MaxTables,    \* bound on the tables of an e-graph
  MaxDepth,     \* bound on pushed e-graphs
  MaxCommands   \* bound on the commands of a behaviour

FrontEndAssumption ==
  /\ MaxBatch \in Nat \ {0} /\ MaxTables \in Nat /\ MaxDepth \in Nat
  /\ MaxCommands \in Nat
  /\ None \notin Names \cup SortNames /\ Names \cap SortNames = {}

VARIABLES
  egraph,       \* the current e-graph
  pushed,       \* pushed_egraph: the chain of snapshots, the last pushed first
  pending,      \* GroundActionBatch.pending: the tables to insert a row in
  calls,        \* GroundActionBatch.calls: name -> what constructor_call answered
  panicked,     \* the name a Rust panic was about, or None
  commands      \* history: how many commands were read

feVars == <<egraph, pushed, pending, calls, panicked, commands>>

\* A signature is the number of arguments and the sort of the result; Undefined is the
\* number when an argument is of no known sort.
Undefined == 2
Arities == {0, 1}

(* sorts, sigs (func_types), globals (global_sorts), bindings: TypeInfo; names: Names::seen;
   functions: name -> its table and the arity it was declared with; next: peek_next_function_id; globalTable:
   whether the table of globals exists; rows, globalRows: the database.  Two fields are
   of the specification: want, the constructors with a row if every action were executed
   when it is read, and refused, the names of commands that failed. *)
EmptyGraph ==
  [sorts |-> {}, sigs |-> <<>>, globals |-> {}, bindings |-> {}, names |-> {},
   functions |-> <<>>, next |-> 1, globalTable |-> FALSE, rows |-> {}, globalRows |-> {},
   want |-> {}, refused |-> {}]

FEInit ==
  /\ egraph = EmptyGraph
  /\ pushed = <<>>
  /\ pending = <<>>
  /\ calls = <<>>
  /\ panicked = None
  /\ commands = 0

With(f, x, y) == [z \in DOMAIN f \cup {x} |-> IF z = x THEN y ELSE f[z]]

-----------------------------------------------------------------------------
(* Batches of ground actions *)

\* flush_ground_actions: the e-graph once the batch is executed.
Flushed == [egraph EXCEPT !.rows = @ \cup ToSet(pending)]

\* constructor_call without the cache: the table and the signature, if they agree.
ConstructorCall(g, f) ==
  IF /\ f \in DOMAIN g.sigs \cap DOMAIN g.functions
     /\ g.functions[f].arity = g.sigs[f].args
  THEN [table |-> g.functions[f].table, sig |-> g.sigs[f]] ELSE None

\* prepare_ground_action of the calls cs, each [name, args], with the cache known: the walk
\* ends at the first call it declines, and caches every answer it was given.
Prepare(g, known, cs) ==
  LET call(f) == IF f \in DOMAIN known THEN known[f] ELSE ConstructorCall(g, f)
      admitted(i) == call(cs[i].name) # None /\ call(cs[i].name).sig.args = cs[i].args
      walked == {i \in DOMAIN cs : \A j \in 1..(i - 1) : admitted(j)}
      seen == {cs[i].name : i \in walked} IN
  [ok |-> /\ \A i \in DOMAIN cs : admitted(i)
          /\ \A i, j \in DOMAIN cs : call(cs[i].name).sig.out = call(cs[j].name).sig.out,
   tables |-> [i \in walked |-> IF call(cs[i].name) = None THEN 0 ELSE call(cs[i].name).table],
   calls |-> [f \in DOMAIN known \cup seen |-> call(f)]]

\* Mutant: the cache outlives the batch.
KeepCalls(known) == known

\* commit_ground_actions: metadata expires when the batch is flushed for a command that may
\* replace it.
Expired(known) == <<>>

\* What queue_ground_action leaves of the e-graph and of the batch: a union is executed
\* alone, after a flush; insertions wait until the batch is full.
Queued(g, batch, tables) ==
  IF Len(tables) = 2 \/ Len(batch) + 1 >= MaxBatch
  THEN [g |-> [g EXCEPT !.rows = @ \cup ToSet(batch \o tables)], batch |-> <<>>]
  ELSE [g |-> g, batch |-> batch \o tables]

-----------------------------------------------------------------------------
(* Declarations.  Every pass goes through the desugared commands and stops at the first
   that it refuses; an outcome says how far it got.  A panic is kept as the name it is
   about. *)

Done(g) == [ok |-> TRUE, g |-> g, panic |-> None]
Refused(g) == [ok |-> FALSE, g |-> g, panic |-> None]
Panics(g, n) == [ok |-> FALSE, g |-> g, panic |-> n]
Outcome(ok, g) == IF ok THEN Done(g) ELSE Refused(g)

Then(Do(_, _), o, cs, i) == IF o.ok /\ i \in DOMAIN cs THEN Do(o.g, cs[i]) ELSE o

\* No command of FENext is desugared into more than three.
Pass(Do(_, _), start, cs) == Then(Do, Then(Do, Then(Do, start, cs, 1), cs, 2), cs, 3)

\* typecheck_command: a sort and a global are registered, and so is the signature of a
\* function, which replaces an earlier one before the function is found to be bound.
Typecheck(g, c) ==
  CASE c.kind = "sort" ->
         Outcome(c.name \notin DOMAIN g.sigs \cup g.sorts,
                 IF c.name \in DOMAIN g.sigs THEN g ELSE [g EXCEPT !.sorts = @ \cup {c.name}])
    [] c.kind = "function" ->
         IF c.name \in g.sorts \/ c.sig.args = Undefined \/ c.sig.out \notin g.sorts
         THEN Refused(g)
         ELSE Outcome(c.name \notin DOMAIN g.sigs,
                      [g EXCEPT !.sigs = With(@, c.name, c.sig)])
    [] c.kind = "let" -> Done([g EXCEPT !.globals = @ \cup {c.name}])

\* Names::check_shadowing.
CheckShadowing(g, c) ==
  Outcome(c.name \notin g.names, [g EXCEPT !.names = @ \cup {c.name}])

Lets(cs) == {cs[i].name : i \in {i \in DOMAIN cs : cs[i].kind = "let"}}

\* Mutant: only the let that declares the table is bound.
BindFirst(g, cs) == [g EXCEPT !.bindings = @ \cup IF g.globalTable THEN {} ELSE Lets(cs)]

\* GlobalRemover::bind.
Bind(g, cs) == [g EXCEPT !.bindings = @ \cup Lets(cs)]

\* run_command of a declaration.  The first let declares the table of globals before its
\* set; evaluating the value may fail.
RunDeclaration(g, c) ==
  CASE c.kind = "sort" -> Done(g)
    [] c.kind = "function" ->
         IF c.name \in DOMAIN g.functions THEN Panics(g, c.name)
         ELSE Done([g EXCEPT !.functions = With(@, c.name, [table |-> g.next, arity |-> c.sig.args]),
                             !.next = @ + 1])
    [] c.kind = "let" ->
         LET h == IF g.globalTable THEN g
                  ELSE [g EXCEPT !.globalTable = TRUE, !.next = @ + 1] IN
         Outcome(~c.fails, IF c.fails THEN h ELSE [h EXCEPT !.globalRows = @ \cup {c.name}])

\* resolve_command, and the loop that runs the commands it returns.
Declare(g, cs) ==
  LET named == Pass(CheckShadowing, Pass(Typecheck, Done(g), cs), cs) IN
  IF ~named.ok THEN named
  ELSE Pass(RunDeclaration, Done(Bind(named.g, cs)), cs)

-----------------------------------------------------------------------------
(* Commands that use names *)

\* typecheck_command of a call.
WellTyped(g, c) == c.name \in DOMAIN g.sigs /\ g.sigs[c.name].args = c.args

\* typecheck_command of an action: what is united is of one sort.
WellTypedAction(g, cs) ==
  /\ \A i \in DOMAIN cs : WellTyped(g, cs[i])
  /\ \A i, j \in DOMAIN cs : g.sigs[cs[i].name].out = g.sigs[cs[j].name].out

\* eval_actions of a call that could not be prepared: RuleTranslator::func indexes the
\* functions, and the rule builder refuses keys of the wrong number.
Compile(g, c) ==
  IF c.name \notin DOMAIN g.functions THEN Panics(g, c.name)
  ELSE Outcome(g.functions[c.name].arity = c.args,
               [g EXCEPT !.rows = IF g.functions[c.name].arity = c.args
                                  THEN @ \cup {g.functions[c.name].table} ELSE @])

\* check_facts: the query builder asserts the number of columns.
CheckFacts(g, c) ==
  IF c.name \notin DOMAIN g.functions \/ g.functions[c.name].arity # c.args
  THEN Panics(g, c.name)
  ELSE Outcome(g.functions[c.name].table \in g.rows, g)

\* run_command of one call without a batch.
RunAlone(g, c) ==
  LET p == Prepare(g, <<>>, <<c>>) IN
  IF p.ok THEN Done([g EXCEPT !.rows = @ \cup ToSet(p.tables)]) ELSE Compile(g, c)

-----------------------------------------------------------------------------
(* The driver *)

\* How a command ends; names are those it declares.  An error ends the program, whose batch
\* is then empty and goes with its cache, and the next program finds what is left.
Finish(o, names) ==
  /\ panicked' = o.panic
  /\ egraph' = IF o.ok THEN o.g ELSE [o.g EXCEPT !.refused = @ \cup names]

\* A command that is not prepared: the batch is committed before it is resolved and run.
Committed(o, names) ==
  /\ pending' = <<>>
  /\ calls' = Expired(calls)
  /\ Finish(o, names)

\* A datatype is a sort and its constructors; a constructor is one function of a sort.
DeclareCommand(cs) ==
  /\ egraph.next + Len(SelectSeq(cs, LAMBDA c : c.kind # "sort")) <= MaxTables + 1
  /\ Committed(Declare(Flushed, cs), {cs[i].name : i \in DOMAIN cs})
  /\ UNCHANGED pushed

Want(g, cs) == [g EXCEPT !.want = @ \cup {cs[i].name : i \in DOMAIN cs}]

\* A closed action that is prepared.
ActPrepared(cs) ==
  LET p == Prepare(egraph, calls, cs)
      q == Queued(egraph, pending, p.tables) IN
  /\ p.ok
  /\ egraph' = Want(q.g, cs)
  /\ pending' = q.batch
  /\ calls' = p.calls
  /\ UNCHANGED <<pushed, panicked>>

\* A closed action that is declined is resolved; run_command tries to prepare it again.
ActResolved(cs) ==
  LET again == Prepare(Flushed, Expired(calls), cs)
      q == Queued(Flushed, <<>>, again.tables)
      o == Pass(Compile, Done(Flushed), cs) IN
  /\ ~Prepare(egraph, calls, cs).ok
  /\ IF ~WellTypedAction(Flushed, cs)
     THEN Committed(Refused(Flushed), {})
     ELSE IF again.ok
     THEN /\ egraph' = Want(q.g, cs)
          /\ pending' = q.batch
          /\ calls' = again.calls
          /\ UNCHANGED panicked
     ELSE Committed(IF o.ok THEN Done(Want(o.g, cs)) ELSE [o EXCEPT !.g = Flushed], {})
  /\ UNCHANGED pushed

\* (check (C 1)).
CheckCommand(c) ==
  /\ Committed(IF WellTyped(Flushed, c) THEN CheckFacts(Flushed, c) ELSE Refused(Flushed), {})
  /\ UNCHANGED pushed

\* (extract $x): a global is read through its binding.
ReadGlobal(x) ==
  /\ Committed(IF x \notin egraph.globals THEN Refused(Flushed)
               ELSE IF x \notin egraph.bindings THEN Panics(Flushed, x)
               ELSE Outcome(x \in egraph.globalRows, Flushed), {})
  /\ UNCHANGED pushed

\* Mutant: a fail leaves its effects.
NotRestored(before, after) == after

\* push before the commands of a fail, and pop after them.
Restored(before, after) == before

\* (fail (C 1) (check (D))) runs in a scope of its own and fails if nothing in it does.
FailCommand(cs, c) ==
  LET o == Pass(RunAlone, Done(Flushed), cs)
      last == IF o.ok THEN CheckFacts(o.g, c) ELSE o
      end == Restored(Flushed, last.g) IN
  /\ Committed(IF \E d \in ToSet(cs) \cup {c} : ~WellTyped(Flushed, d) THEN Refused(Flushed)
               ELSE IF last.panic # None THEN [last EXCEPT !.g = end]
               ELSE Outcome(~last.ok, end), {})
  /\ UNCHANGED pushed

Push ==
  /\ Len(pushed) < MaxDepth
  /\ Committed(Done(Flushed), {})
  /\ pushed' = <<Flushed>> \o pushed

Pop ==
  \/ /\ pushed # <<>>
     /\ Committed(Done(Head(pushed)), {})
     /\ pushed' = Tail(pushed)
  \/ /\ pushed = <<>>
     /\ Committed(Refused(Flushed), {})
     /\ UNCHANGED pushed

\* The end of a program, after which the next begins with a batch of its own.
EndProgram ==
  /\ pending # <<>> \/ calls # <<>>
  /\ Committed(Done(Flushed), {})
  /\ UNCHANGED pushed

-----------------------------------------------------------------------------
Call(f, n) == [name |-> f, args |-> n]
Sort(s) == [kind |-> "sort", name |-> s]
Function(f, n, s) == [kind |-> "function", name |-> f, sig |-> [args |-> n, out |-> s]]
Let(x, fails) == [kind |-> "let", name |-> x, fails |-> fails]
AnyArity == Arities \cup {Undefined}

FENext ==
  /\ panicked = None
  /\ commands < MaxCommands
  /\ commands' = commands + 1
  /\ \/ \E s \in Names \cup SortNames, f \in Names, n \in AnyArity :
          DeclareCommand(<<Sort(s), Function(f, n, s)>>)
     \/ \E s \in Names \cup SortNames, f, h \in Names, n \in {0, Undefined} :
          DeclareCommand(<<Sort(s), Function(f, 0, s), Function(h, n, s)>>)
     \/ \E s \in Names \cup SortNames, f \in Names, n \in Arities :
          DeclareCommand(<<Function(f, n, s)>>)
     \/ \E x \in Names, fails \in BOOLEAN : DeclareCommand(<<Let(x, fails)>>)
     \/ \E f \in Names, n \in Arities :
          ActPrepared(<<Call(f, n)>>) \/ ActResolved(<<Call(f, n)>>) \/ CheckCommand(Call(f, n))
     \/ \E f, h \in Names :
          LET cs == <<Call(f, 0), Call(h, 0)>> IN ActPrepared(cs) \/ ActResolved(cs)
     \/ \E x \in Names : ReadGlobal(x)
     \/ \E h \in Names, n \in Arities : FailCommand(<<>>, Call(h, n))
     \/ \E f, h \in Names : FailCommand(<<Call(f, 0)>>, Call(h, 0))
     \/ Push
     \/ Pop
     \/ EndProgram

FESpec == FEInit /\ [][FENext]_feVars

-----------------------------------------------------------------------------
(* Properties *)

\* The constructors that have their row.
Present(g) == {f \in DOMAIN g.functions : g.functions[f].table \in g.rows}

\* Batching cannot be observed: whenever no action waits, and in every snapshot, the
\* database is what executing each action when it was read would have made of it
\* (GroundActionBatch, flush_ground_actions before every other command).
BatchIsSequential ==
  /\ pending = <<>> => Present(egraph) = egraph.want
  /\ \A g \in ToSet(pushed) : Present(g) = g.want

\* The cache never outlives what it was read from: no command sees the metadata of a table
\* that a declaration or a pop has replaced, and no queued action names a table other than
\* the one its constructor has (the comment on GroundActionCache: entries expire before any
\* command can change a signature or table ID).
CacheIsCurrent ==
  /\ \A f \in DOMAIN calls : calls[f] = ConstructorCall(egraph, f)
  /\ ToSet(pending) \subseteq {egraph.functions[f].table : f \in egraph.want}

\* A name that typechecks can be used: a signature has a table of its arity and a global has
\* its binding, except for names of a command that was refused after typechecking had
\* registered them; no command panics about another name.
DeclaredIsUsable ==
  /\ \A f \in DOMAIN egraph.sigs \ egraph.refused :
       f \in DOMAIN egraph.functions /\ egraph.functions[f].arity = egraph.sigs[f].args
  /\ egraph.globals \ egraph.refused \subseteq egraph.bindings
  /\ panicked \in egraph.refused \cup {None}

\* A name means one thing: what has a table is neither a global nor a sort, whichever
\* commands were refused before (typechecking and Names::check_shadowing together).
OneMeaning ==
  DOMAIN egraph.functions \cap (egraph.bindings \cup egraph.sorts) = {}

\* Names are sound: each means one thing, and one that typechecks can be used.
NamesAreSound == DeclaredIsUsable /\ OneMeaning
=============================================================================
