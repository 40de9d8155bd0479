---------------------------- MODULE UnionFindSpec ----------------------------
(***************************************************************************)
(* What egglog asks of a union-find, whoever implements it: a map from     *)
(* every id to the canonical id of its class.  A thread asks for a union   *)
(* and is answered only once the two ids share a class.  Classes are       *)
(* joined for no other reason than a pending request, under the smaller of *)
(* their canonical ids, and nothing but a reset separates them again.      *)
(***************************************************************************)
EXTENDS Integers

CONSTANTS Ids, Threads

VARIABLES rep,   \* rep[i] is the canonical id of the class of i
          ask    \* ask[t] is the union thread t is waiting for, if any

Smaller(a, b) == IF a <= b THEN a ELSE b
Nothing == <<>>

Init ==
  /\ rep = [i \in Ids |-> i]
  /\ ask = [t \in Threads |-> Nothing]

Ask(t) ==
  /\ ask[t] = Nothing
  /\ \E a, b \in Ids : ask' = [ask EXCEPT ![t] = <<a, b>>]
  /\ rep' = rep

\* The classes of the two ids t asked about become one.
Union(t) ==
  /\ ask[t] # Nothing
  /\ LET a == rep[ask[t][1]]
         b == rep[ask[t][2]]
     IN  /\ a # b
         /\ rep' = [i \in Ids |-> IF rep[i] \in {a, b} THEN Smaller(a, b) ELSE rep[i]]
  /\ ask' = ask

Answer(t) ==
  /\ ask[t] # Nothing
  /\ rep[ask[t][1]] = rep[ask[t][2]]
  /\ ask' = [ask EXCEPT ![t] = Nothing]
  /\ rep' = rep

Reset ==
  /\ rep' = [i \in Ids |-> i]
  /\ ask' = ask

Next == Reset \/ \E t \in Threads : Ask(t) \/ Union(t) \/ Answer(t)

Spec == Init /\ [][Next]_<<rep, ask>>
=============================================================================
