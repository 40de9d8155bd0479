------------------------ MODULE MCConcurrentUnionFind ------------------------
(***************************************************************************)
(* The union-find for model checking: a behaviour has the calls of one of  *)
(* two programs, which the variable program names.                         *)
(***************************************************************************)
EXTENDS ConcurrentUnionFind

VARIABLE program

\* Every pair of the first three ids, in both orders.
AllPairs == {p \in (0..2) \X (0..2) : p[1] # p[2]}

\* Enough unions to join three ids in any shape, each in one order.
ThreePairs == {<<1, 0>>, <<2, 1>>, <<0, 2>>}

Calls == [
  change |-> [kinds |-> {"merge", "find", "copy", "reset"}, pairs |-> AllPairs],
  compare |-> [kinds |-> {"merge", "same_set"}, pairs |-> ThreePairs]]

Allowed(call) ==
  \/ call.kind = "none"
  \/ /\ call.kind \in Calls[program].kinds
     /\ call.kind \in {"merge", "same_set"} => <<call.l, call.r>> \in Calls[program].pairs

MCInit == Init /\ program \in DOMAIN Calls
MCNext == Next /\ program' = program /\ \A t \in Threads : Allowed(op'[t])
MCSpec == MCInit /\ [][MCNext]_<<vars, program>>
=============================================================================
