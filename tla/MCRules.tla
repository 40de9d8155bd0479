------------------------------- MODULE MCRules -------------------------------
(***************************************************************************)
(* Rules and programs for model checking.  The driver of programs has an   *)
(* e-graph of its own here: a behaviour exercises either the rules, plain  *)
(* or scheduled, or the driver, which the variable part names, and the     *)
(* variables of the other keep their first values.                         *)
(***************************************************************************)
EXTENDS Scheduler

CONSTANTS
  Names, SortNames, None, MaxBatch, MaxTables, MaxDepth, MaxCommands     \* FrontEnd

VARIABLES
  part,
  egraph, snapshots, pending, calls, panicked, commands

programVars == <<egraph, snapshots, pending, calls, panicked, commands>>

F == INSTANCE FrontEnd WITH pushed <- snapshots

ASSUME F!FrontEndAssumption

MCInit ==
  /\ part \in {"rules", "program"}
  /\ SchedInit /\ F!FEInit
  /\ part = "program" => rows = <<>> /\ ~scheduled

MCNext ==
  /\ part' = part
  /\ \/ part = "rules" /\ SchedNext /\ UNCHANGED programVars
     \/ part = "program" /\ F!FENext /\ UNCHANGED <<vars, schedVars>>

MCSpec == MCInit /\ [][MCNext]_<<part, vars, schedVars, programVars>>

-----------------------------------------------------------------------------
(* The properties of FrontEnd *)

\* Batching closed actions cannot be observed.
BatchIsSequential == F!BatchIsSequential

\* No cached metadata outlives the tables and signatures it was read from.
CacheIsCurrent == F!CacheIsCurrent

\* A name that typechecks can be used, unless a refused command declared it, and what has a table
\* is neither a global nor a sort.
NamesAreSound == F!NamesAreSound
=============================================================================
