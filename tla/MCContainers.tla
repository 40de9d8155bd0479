----------------------------- MODULE MCContainers -----------------------------
(***************************************************************************)
(* Containers and extraction for model checking.  Extraction only reads    *)
(* the database and has its own here: a behaviour exercises one of the     *)
(* two, which the variable part names, and the variables of the other keep *)
(* their first values.                                                     *)
(***************************************************************************)
EXTENDS Containers

CONSTANTS
  Parts,                \* of "containers" and "extract", what behaviours exercise
  MaxNodes, MaxCost     \* Extraction

VARIABLES
  part,
  decl, graph, stage, funcs, costs, rank, dirty, at, sweep, edge

extractVars == <<decl, graph, stage, funcs, costs, rank, dirty, at, sweep, edge>>

\* Two sorts: two classes of S and one of T.
MCClasses == 1..3
MCSortOf == <<"S", "S", "T">>

Constructor(args, out, cost) == [args |-> args, out |-> out, cost |-> cost]
MCHeads == [
  a |-> Constructor(<<>>, "S", 1),
  b |-> Constructor(<<>>, "T", 3),
  f |-> Constructor(<<"S">>, "S", 0),
  g |-> Constructor(<<"S", "T">>, "S", 1),
  k |-> Constructor(<<"S">>, "T", 1)]

\* Without k, the sort T leads to b only.
AllHeads == <<"a", "b", "f", "g", "k">>
MCDecls == {AllHeads, <<"g", "f", "b", "a">>}

X == INSTANCE Extraction WITH
       Classes <- MCClasses, SortOf <- MCSortOf, Heads <- MCHeads, Decls <- MCDecls,
       MaxRows <- MaxNodes, rows <- graph, phase <- stage, cursor <- sweep

ASSUME
  /\ Parts \subseteq {"containers", "extract"}
  /\ X!ExtractionAssumption

MCInit ==
  /\ part \in Parts
  /\ Init /\ X!Init
  /\ part # "extract" => decl = AllHeads

MCNext ==
  /\ part' = part
  /\ \/ part = "containers" /\ Next /\ UNCHANGED extractVars
     \/ part = "extract" /\ X!Next /\ UNCHANGED vars

MCSpec == MCInit /\ [][MCNext]_<<part, vars, extractVars>>

-----------------------------------------------------------------------------
(* The properties of Extraction *)

\* A row that is not dirty has nothing to offer its class: rows are marked whenever a cost
\* they read has changed, before or behind the cursor of the sweep.  When no row is dirty, a
\* class has the cost of its cheapest term.
CostsSettle == X!CostsSettle

\* Every class that has a cost has a term of just that cost, and variants from that cost on.
TermsCostTheLeast == X!TermsCostTheLeast
=============================================================================
