------------------------- MODULE ConcurrentUnionFind -------------------------
(***************************************************************************)
(* The lock-free union-find of union-find/src/concurrent: threads find,    *)
(* compare, merge and copy over one array of atomic parent links, while    *)
(* the array may be grown or reset under the write side of the buffer's    *)
(* lock.  Every load and compare-exchange of find_impl, merge_impl and     *)
(* same_set is a step of its own.                                          *)
(*                                                                         *)
(* Loads need not return the latest link.  mem[i] keeps every value slot i *)
(* has held, each with the view its writer released, and view[t] is the    *)
(* newest value of each slot that thread t is bound to see.  A load        *)
(* returns any value no older than the thread's view; an acquire load      *)
(* also takes over the view attached to the value, a relaxed load (the     *)
(* Scoped access of AtomicUnionFindAccess) does not.  Because links only   *)
(* decrease, "newer" is "smaller" and a view is a function from ids to     *)
(* ids.                                                                    *)
(***************************************************************************)
EXTENDS Integers, Sequences

CONSTANTS Threads,   \* the threads sharing the structure
          MaxBits,   \* ids are the numbers below 2^MaxBits
          InitLen,   \* length of the parent array at the start
          Scoped,    \* TRUE: the relaxed, fixed-length view of a serial UnionFind
          Kinds,     \* the operations threads may call
          Pairs,     \* the pairs of ids they pass
          None       \* no thread

PowersOfTwo == {2^k : k \in 0..MaxBits}
Capacity == 2^MaxBits
Ids == 0..(Capacity - 1)

ASSUME SizeAssumption ==
  /\ MaxBits \in Nat
  /\ PowersOfTwo \subseteq Nat \ {0}
  /\ InitLen \in 1..Capacity
ASSUME ThreadAssumption == None \notin Threads
ASSUME ModeAssumption ==
  /\ Scoped \in BOOLEAN
  /\ Kinds \subseteq {"find", "same_set", "merge", "reset", "copy"}
  /\ Pairs \subseteq Ids \X Ids
  /\ Scoped => Kinds = {"merge"} /\ InitLen = Capacity

VARIABLES
  len,      \* length of the parent array
  parent,   \* parent[i]: the latest link of slot i
  mem,      \* mem[i]: every value slot i has held, with the view released with it
  view,     \* view[t][i]: thread t reads nothing older than this from slot i
  wlock,    \* the thread inside the buffer lock's write side
  pc,       \* where each thread is
  op,       \* the call each thread is in: kind and arguments
  reg,      \* the local variables of that call; at "done", its result in l and r
  copy,     \* the links deep_copy has loaded so far
  start,    \* history: the thread's view when its call got access to the buffer
  rep,      \* history: the canonical id of every id
  returned  \* history: how many merges have returned an id as their child

vars == <<len, parent, mem, view, wlock, pc, op, reg, copy, start, rep, returned>>
memory == <<len, parent, mem, rep, returned>>

Slots == 0..(len - 1)
View == [Ids -> Ids]
Fresh == [i \in Ids |-> i]
Smallest(a, b) == IF a <= b THEN a ELSE b
Largest(a, b) == IF a <= b THEN b ELSE a
Join(v, w) == [i \in Ids |-> Smallest(v[i], w[i])]

NoOp == [kind |-> "none", l |-> 0, r |-> 0]
NoReg == [side |-> "l", l |-> 0, r |-> 0, cur |-> 0, next |-> 0, grand |-> 0]

\* The steps in which a thread holds a reader of the buffer lock.
Inside == {"next", "grand", "split", "link", "check", "copy", "done"}
Readers == {t \in Threads : pc[t] \in Inside}

Init ==
  /\ len = InitLen
  /\ parent = [i \in 0..(InitLen - 1) |-> i]
  /\ mem = [i \in 0..(InitLen - 1) |-> {[val |-> i, view |-> Fresh]}]
  /\ view = [t \in Threads |-> Fresh]
  /\ wlock = None
  /\ pc = [t \in Threads |-> "idle"]
  /\ op = [t \in Threads |-> NoOp]
  /\ reg = [t \in Threads |-> NoReg]
  /\ copy = [t \in Threads |-> <<>>]
  /\ start = [t \in Threads |-> Fresh]
  /\ rep = Fresh
  /\ returned = [i \in Ids |-> 0]

-----------------------------------------------------------------------------
(* Atomic accesses *)

Visible(t, i) == {m \in mem[i] : m.val <= view[t][i]}

\* What t is bound to see once it has read m from slot i.
Observe(t, i, m) ==
  IF Scoped THEN [view[t] EXCEPT ![i] = m.val] ELSE Join(view[t], m.view)

\* A successful compare-exchange of slot i, which always reads the latest value.
Swap(t, i, new) ==
  \E m \in mem[i] :
    LET seen == [Observe(t, i, m) EXCEPT ![i] = new]
    IN  /\ m.val = parent[i]
        /\ parent' = [parent EXCEPT ![i] = new]
        /\ mem' = [mem EXCEPT ![i] =
                     @ \cup {[val |-> new, view |-> IF Scoped THEN Fresh ELSE seen]}]
        /\ view' = [view EXCEPT ![t] = seen]

\* A failed one is a load of some other value.
CasFails(t, i, current) ==
  /\ \E m \in Visible(t, i) :
       /\ m.val # current
       /\ view' = [view EXCEPT ![t] = Observe(t, i, m)]
  /\ UNCHANGED <<parent, mem>>

-----------------------------------------------------------------------------
(* Entering and leaving an operation *)

\* A thread calls an operation.  What led to the call may have synchronised it
\* with another thread, whose view it then shares.
Begin(t) ==
  /\ pc[t] = "idle"
  /\ \E u \in Threads : view' = [view EXCEPT ![t] = Join(view[t], view[u])]
  /\ \E k \in Kinds, p \in Pairs :
       /\ op' = [op EXCEPT ![t] =
                   [kind |-> k,
                    l |-> IF k \in {"reset", "copy"} THEN 0 ELSE p[1],
                    r |-> IF k \in {"reset", "copy"} THEN 0
                          ELSE IF k = "find" THEN p[1] ELSE p[2]]]
       /\ pc' = [pc EXCEPT ![t] = IF k = "reset" THEN "claim" ELSE "access"]
  /\ UNCHANGED <<memory, wlock, reg, copy, start>>

\* The buffer length a call needs; deep_copy takes the buffer as it is.
Needed(t) == IF op[t].kind = "copy" THEN 0 ELSE Largest(op[t].l, op[t].r) + 1

\* Buffer::with_access takes a reader and runs the call, or, when the buffer is
\* too short, drops the reader and goes for the write lock.
Access(t) ==
  /\ pc[t] = "access"
  /\ wlock = None
  /\ IF len >= Needed(t)
     THEN /\ pc' = [pc EXCEPT ![t] = IF op[t].kind = "copy" THEN "copy" ELSE "next"]
          /\ reg' = [reg EXCEPT ![t] = [NoReg EXCEPT !.l = op[t].l, !.r = op[t].r,
                                                     !.cur = op[t].l]]
          /\ start' = [start EXCEPT ![t] = view[t]]
     ELSE /\ pc' = [pc EXCEPT ![t] = "claim"]
          /\ UNCHANGED <<reg, start>>
  /\ UNCHANGED <<memory, view, wlock, op, copy>>

\* The write lock's token is replaced: no new reader gets in.
Claim(t) ==
  /\ pc[t] = "claim"
  /\ wlock = None
  /\ wlock' = t
  /\ pc' = [pc EXCEPT ![t] = "drain"]
  /\ UNCHANGED <<memory, view, op, reg, copy, start>>

\* Everything done under the write lock happened before everything after it.
Publish(links) ==
  /\ parent' = links
  /\ mem' = [i \in DOMAIN links |->
               {[val |-> links[i], view |-> [j \in Ids |-> IF j \in DOMAIN links
                                                           THEN links[j] ELSE j]]}]
  /\ view' = [t \in Threads |-> [j \in Ids |-> IF j \in DOMAIN links
                                               THEN links[j] ELSE j]]
  /\ wlock' = None

\* Mutant: a resize initialises the old slots too.
GrowForgets(t) ==
  /\ pc[t] = "drain" /\ op[t].kind # "reset" /\ Readers = {}
  /\ \E p \in PowersOfTwo :
       /\ p >= Needed(t) /\ p >= len
       /\ \A q \in PowersOfTwo : q >= Needed(t) => p <= q
       /\ len' = p
       /\ Publish([i \in 0..(p - 1) |-> i])
  /\ pc' = [pc EXCEPT ![t] = "access"]
  /\ UNCHANGED <<op, reg, copy, start, rep, returned>>

\* Mutant: the new slots are there, the length is not updated.
GrowKeepsLen(t) ==
  /\ pc[t] = "drain" /\ op[t].kind # "reset" /\ Readers = {}
  /\ len' = len
  /\ Publish([i \in Ids |-> IF i < len THEN parent[i] ELSE i])
  /\ pc' = [pc EXCEPT ![t] = "access"]
  /\ UNCHANGED <<op, reg, copy, start, rep, returned>>

\* with_access resizes, unless another thread did so in the meantime, and retries.
Grow(t) ==
  /\ pc[t] = "drain"
  /\ op[t].kind # "reset"
  /\ Readers = {}
  /\ IF len < Needed(t)
     THEN \E p \in PowersOfTwo :
            /\ p >= Needed(t)
            /\ \A q \in PowersOfTwo : q >= Needed(t) => p <= q
            /\ len' = p
            /\ Publish([i \in 0..(p - 1) |-> IF i < len THEN parent[i] ELSE i])
     ELSE len' = len /\ Publish(parent)
  /\ pc' = [pc EXCEPT ![t] = "access"]
  /\ UNCHANGED <<op, reg, copy, start, rep, returned>>

\* reset: every element points to itself again.
ReInit(t) ==
  /\ pc[t] = "drain"
  /\ op[t].kind = "reset"
  /\ Readers = {}
  /\ Publish([i \in Slots |-> i])
  /\ rep' = Fresh
  /\ returned' = [i \in Ids |-> 0]
  /\ pc' = [pc EXCEPT ![t] = "idle"]
  /\ op' = [op EXCEPT ![t] = NoOp]
  /\ UNCHANGED <<len, reg, copy, start>>

\* The call returns and drops its reader.
Return(t) ==
  /\ pc[t] = "done"
  /\ pc' = [pc EXCEPT ![t] = "idle"]
  /\ op' = [op EXCEPT ![t] = NoOp]
  /\ reg' = [reg EXCEPT ![t] = NoReg]
  /\ copy' = [copy EXCEPT ![t] = <<>>]
  /\ start' = [start EXCEPT ![t] = Fresh]
  /\ UNCHANGED <<memory, view, wlock>>

-----------------------------------------------------------------------------
(* find_impl: walk to the root, splitting the path *)

FindNext(t) ==
  /\ pc[t] = "next"
  /\ \E m \in Visible(t, reg[t].cur) :
       /\ reg' = [reg EXCEPT ![t].next = m.val]
       /\ view' = [view EXCEPT ![t] = Observe(t, reg[t].cur, m)]
  /\ pc' = [pc EXCEPT ![t] = "grand"]
  /\ UNCHANGED <<memory, wlock, op, copy, start>>

\* Where the call goes when both its finds are over, with roots l and r.
AfterFinds(t, l, r) ==
  IF l = r \/ op[t].kind = "find" THEN "done"
  ELSE IF op[t].kind = "merge" THEN "link" ELSE "check"

\* find_impl has found the root x of the side it was called for.
Found(t, x) ==
  IF reg[t].side = "l" /\ op[t].kind # "find"
  THEN /\ reg' = [reg EXCEPT ![t] = [NoReg EXCEPT !.side = "r", !.l = x, !.r = reg[t].r,
                                                  !.cur = reg[t].r]]
       /\ pc' = [pc EXCEPT ![t] = "next"]
  ELSE LET l == IF op[t].kind = "find" THEN x ELSE reg[t].l
       IN  /\ reg' = [reg EXCEPT ![t] = [NoReg EXCEPT !.l = l, !.r = x]]
           /\ pc' = [pc EXCEPT ![t] = AfterFinds(t, l, x)]

FindGrand(t) ==
  /\ pc[t] = "grand"
  /\ \E m \in Visible(t, reg[t].next) :
       /\ view' = [view EXCEPT ![t] = Observe(t, reg[t].next, m)]
       /\ IF m.val = reg[t].next
          THEN Found(t, reg[t].next)
          ELSE /\ reg' = [reg EXCEPT ![t].grand = m.val]
               /\ pc' = [pc EXCEPT ![t] = "split"]
  /\ UNCHANGED <<memory, wlock, op, copy, start>>

\* Mutant: the splitting write is a plain store.
SplitByStore(t) ==
  /\ pc[t] = "split"
  /\ Swap(t, reg[t].cur, reg[t].grand)
  /\ reg' = [reg EXCEPT ![t] = [@ EXCEPT !.cur = reg[t].next, !.next = 0, !.grand = 0]]
  /\ pc' = [pc EXCEPT ![t] = "next"]
  /\ UNCHANGED <<len, wlock, op, copy, start, rep, returned>>

\* The outcome of the splitting compare-exchange is ignored.
Split(t) ==
  /\ pc[t] = "split"
  /\ \/ /\ parent[reg[t].cur] = reg[t].next
        /\ Swap(t, reg[t].cur, reg[t].grand)
     \/ CasFails(t, reg[t].cur, reg[t].next)
  /\ reg' = [reg EXCEPT ![t] = [@ EXCEPT !.cur = reg[t].next, !.next = 0, !.grand = 0]]
  /\ pc' = [pc EXCEPT ![t] = "next"]
  /\ UNCHANGED <<len, wlock, op, copy, start, rep, returned>>

-----------------------------------------------------------------------------
(* merge_impl and same_set *)

\* Both finds run again, from the roots found last.
Again(t) ==
  /\ reg' = [reg EXCEPT ![t] = [@ EXCEPT !.side = "l", !.cur = reg[t].l]]
  /\ pc' = [pc EXCEPT ![t] = "next"]

\* A link of child under above that needs no root: the shape of the mutants below.
LinkStep(t, above, child, checked) ==
  /\ pc[t] = "link"
  /\ checked => parent[child] = child
  /\ Swap(t, child, above)
  /\ reg' = [reg EXCEPT ![t] = [NoReg EXCEPT !.l = above, !.r = child]]
  /\ pc' = [pc EXCEPT ![t] = "done"]
  /\ rep' = [i \in Ids |-> IF rep[i] = child THEN rep[above] ELSE rep[i]]
  /\ returned' = [returned EXCEPT ![child] = @ + 1]
  /\ UNCHANGED <<len, wlock, op, copy, start>>

\* Mutant: the link is a plain store.
LinkByStore(t) == LinkStep(t, Smallest(reg[t].l, reg[t].r), Largest(reg[t].l, reg[t].r), FALSE)

\* Mutant: union by max.
LinkByMax(t) == LinkStep(t, Largest(reg[t].l, reg[t].r), Smallest(reg[t].l, reg[t].r), TRUE)

\* Mutant: a failed compare-exchange is taken for a union somebody else made.
LinkGivesUp(t) ==
  \/ LinkStep(t, Smallest(reg[t].l, reg[t].r), Largest(reg[t].l, reg[t].r), TRUE)
  \/ /\ pc[t] = "link"
     /\ CasFails(t, Largest(reg[t].l, reg[t].r), Largest(reg[t].l, reg[t].r))
     /\ pc' = [pc EXCEPT ![t] = "done"]
     /\ UNCHANGED <<len, wlock, op, reg, copy, start, rep, returned>>

\* merge_impl links the larger root under the smaller one, or starts over.
Link(t) ==
  LET above == Smallest(reg[t].l, reg[t].r)
      child == Largest(reg[t].l, reg[t].r)
  IN  /\ pc[t] = "link"
      /\ \/ /\ parent[child] = child
            /\ Swap(t, child, above)
            /\ reg' = [reg EXCEPT ![t] = [NoReg EXCEPT !.l = above, !.r = child]]
            /\ pc' = [pc EXCEPT ![t] = "done"]
            /\ rep' = [i \in Ids |-> IF rep[i] = child THEN rep[above] ELSE rep[i]]
            /\ returned' = [returned EXCEPT ![child] = @ + 1]
         \/ /\ CasFails(t, child, child)
            /\ Again(t)
            /\ UNCHANGED <<rep, returned>>
      /\ UNCHANGED <<len, wlock, op, copy, start>>

\* Mutant: same_set reads the stale root again instead of looking for the new one.
CheckSpins(t) ==
  /\ pc[t] = "check"
  /\ \E m \in Visible(t, reg[t].l) :
       /\ view' = [view EXCEPT ![t] = Observe(t, reg[t].l, m)]
       /\ pc' = [pc EXCEPT ![t] = IF m.val = reg[t].l THEN "done" ELSE "check"]
  /\ UNCHANGED <<memory, wlock, op, reg, copy, start>>

\* Mutant: same_set answers "no" as soon as the roots differ.
CheckNothing(t) ==
  /\ pc[t] = "check"
  /\ pc' = [pc EXCEPT ![t] = "done"]
  /\ UNCHANGED <<memory, view, wlock, op, reg, copy, start>>

\* same_set answers "no" only if l is still a root after r was found.
Check(t) ==
  /\ pc[t] = "check"
  /\ \E m \in Visible(t, reg[t].l) :
       /\ view' = [view EXCEPT ![t] = Observe(t, reg[t].l, m)]
       /\ IF m.val = reg[t].l
          THEN pc' = [pc EXCEPT ![t] = "done"] /\ reg' = reg
          ELSE Again(t)
  /\ UNCHANGED <<memory, wlock, op, copy, start>>

\* deep_copy loads the links one after the other, in index order.
CopyNext(t) ==
  /\ pc[t] = "copy"
  /\ LET i == reg[t].cur
     IN IF i < len
        THEN /\ \E m \in Visible(t, i) :
                  /\ copy' = [copy EXCEPT ![t] = Append(@, m.val)]
                  /\ view' = [view EXCEPT ![t] = Observe(t, i, m)]
             /\ reg' = [reg EXCEPT ![t].cur = i + 1]
             /\ pc' = pc
        ELSE /\ pc' = [pc EXCEPT ![t] = "done"]
             /\ UNCHANGED <<copy, view, reg>>
  /\ UNCHANGED <<memory, wlock, op, start>>

-----------------------------------------------------------------------------
(* The specification *)

FindStep(t) == FindNext(t) \/ FindGrand(t) \/ Split(t)
LockStep(t) == Access(t) \/ Claim(t) \/ Grow(t) \/ ReInit(t)
Step(t) == LockStep(t) \/ FindStep(t) \/ Link(t) \/ Check(t) \/ CopyNext(t) \/ Return(t)

Next == \E t \in Threads : Begin(t) \/ Step(t)

Spec == Init /\ [][Next]_vars

\* Threads are scheduled by the operating system: one that can step does so.
FairSpec == Spec /\ \A t \in Threads : WF_vars(Step(t))

-----------------------------------------------------------------------------
(* Properties *)

\* The local variables of a call, as bound by find_impl and merge_impl.
TypeOK ==
  /\ len \in 1..Capacity
  /\ parent \in [Slots -> Slots]
  /\ mem \in [Slots -> SUBSET [val : Slots, view : View]]
  /\ view \in [Threads -> View]
  /\ wlock \in Threads \cup {None}
  /\ pc \in [Threads -> Inside \cup {"idle", "access", "claim", "drain"}]
  /\ op \in [Threads -> [kind : Kinds \cup {"none"}, l : Ids, r : Ids]]
  /\ reg \in [Threads -> [side : {"l", "r"}, l : Ids, r : Ids, cur : 0..Capacity,
                          next : Ids, grand : Ids]]
  /\ copy \in [Threads -> Seq(Ids)]
  /\ start \in [Threads -> View]
  /\ rep \in [Ids -> Ids]
  /\ returned \in [Ids -> Nat]

\* The end of the walk from every id along a set of links.
RootOf(links) ==
  LET root[i \in DOMAIN links] == IF links[i] = i THEN i ELSE root[links[i]]
  IN  root

\* Following the links in memory leads to the canonical id: neither splitting,
\* nor linking, nor growing ever moves an id to another class, and the links
\* form no cycle (uf.rs, find_impl and merge_impl; buffer.rs, with_access).
LinksLeadToRep == \A i \in Ids : rep[i] = IF i \in Slots THEN RootOf(parent)[i] ELSE i

\* "A stale load is still a same-component ancestor" (lib.rs, AtomicUnionFindAccess).
StaleLoadsHarmless ==
  \A i \in Slots : \A m \in mem[i] : m.val <= i /\ rep[m.val] = rep[i]

\* An id is returned as the child of a merge by exactly one merge, and only if
\* it stopped being a root: callers record a displaced id once per such answer.
ChildReturnedOnce == \A i \in Slots : returned[i] = IF parent[i] = i THEN 0 ELSE 1

\* same_set says "yes" only of ids in one class, and "no" only of ids that the
\* links the caller was bound to know did not connect when it was called: the
\* "ground truth" its documentation promises.
SameSetIsTruth ==
  \A t \in Threads : pc[t] = "done" /\ op[t].kind = "same_set" =>
    IF reg[t].l = reg[t].r
    THEN rep[op[t].l] = rep[op[t].r]
    ELSE RootOf(start[t])[op[t].l] # RootOf(start[t])[op[t].r]

\* find returns a member of the class at least as canonical as any the caller
\* was bound to know of.
FindIsCanonical ==
  \A t \in Threads : pc[t] = "done" /\ op[t].kind = "find" =>
    /\ rep[reg[t].l] = rep[op[t].l]
    /\ reg[t].l <= RootOf(start[t])[op[t].l]

\* deep_copy is not a snapshot: a merge that runs meanwhile may be half in it.
\* But its links are a forest, it joins nothing that is not joined, and every id
\* is at least as canonical in it as the caller was bound to know.
CopyIsForest ==
  \A t \in Threads : pc[t] = "done" /\ op[t].kind = "copy" =>
    LET links == [i \in 0..(Len(copy[t]) - 1) |-> copy[t][i + 1]]
    IN  \A i \in DOMAIN links :
          /\ rep[RootOf(links)[i]] = rep[i]
          /\ RootOf(links)[i] <= RootOf(start[t])[i]

\* The inductive invariant behind the theorems, in parts: the canonical ids; the
\* array and every value a load may return from it; the children returned so far;
\* and the local variables of each call.
RepsOK ==
  \A i \in Ids : /\ rep[i] <= i
                 /\ rep[rep[i]] = rep[i]
                 /\ i \notin Slots => rep[i] = i /\ returned[i] = 0

SlotOK(i) ==
  /\ parent[i] = i => rep[i] = i
  /\ \E m \in mem[i] : m.val = parent[i]
  /\ \A m \in mem[i] : parent[i] <= m.val /\ m.val <= i /\ rep[m.val] = rep[i]
  /\ returned[i] = IF parent[i] = i THEN 0 ELSE 1

Target(t) == IF reg[t].side = "l" THEN op[t].l ELSE op[t].r

CallOK(t) ==
  /\ pc[t] = "idle" <=> op[t].kind = "none"
  /\ pc[t] = "link" => op[t].kind = "merge"
  /\ pc[t] = "check" => op[t].kind = "same_set"
  /\ op[t].kind = "find" => op[t].l = op[t].r
  /\ pc[t] \in Inside \cup {"access"} => op[t].kind # "reset"
  /\ pc[t] \in Inside /\ op[t].kind # "copy" =>
       /\ op[t].l \in Slots /\ op[t].r \in Slots
       /\ reg[t].l \in Slots /\ rep[reg[t].l] = rep[op[t].l]
       /\ reg[t].r \in Slots /\ rep[reg[t].r] = rep[op[t].r]
  /\ pc[t] = "copy" => op[t].kind = "copy"
  /\ pc[t] \in {"next", "grand", "split"} =>
       op[t].kind # "copy" /\ reg[t].cur \in Slots /\ rep[reg[t].cur] = rep[Target(t)]
  /\ pc[t] \in {"grand", "split"} =>
       reg[t].next \in Slots /\ reg[t].next <= reg[t].cur /\ rep[reg[t].next] = rep[reg[t].cur]
  /\ pc[t] = "split" =>
       /\ reg[t].grand \in Slots /\ rep[reg[t].grand] = rep[reg[t].next]
       /\ parent[reg[t].next] <= reg[t].grand /\ reg[t].grand < reg[t].next
  /\ pc[t] \in {"link", "check"} => reg[t].l # reg[t].r /\ op[t].kind # "copy"
  /\ pc[t] = "done" /\ op[t].kind = "merge" => rep[op[t].l] = rep[op[t].r]

IInv ==
  /\ TypeOK
  /\ RepsOK
  /\ \A i \in Slots : SlotOK(i)
  /\ \A t \in Threads : CallOK(t)

\* "Links never increase" (lib.rs, AtomicUnionFindAccess), a reset excepted.
LinksNeverIncrease ==
  [][\/ \E t \in Threads : op[t].kind = "reset" /\ pc[t] = "drain"
     \/ \A i \in Slots : parent'[i] <= parent[i]]_vars

\* Every union seen by a caller is one some thread asked for, and every merge is
\* answered only when its two arguments share a class.
Abstract == INSTANCE UnionFindSpec WITH
  ask <- [t \in Threads |-> IF op[t].kind = "merge" THEN <<op[t].l, op[t].r>> ELSE <<>>]
ImplementsUnionFind == Abstract!Spec

\* No operation loops or waits forever.
OperationsReturn == \A t \in Threads : pc[t] = "access" ~> pc[t] = "idle"

\* Every answer is true of some state between the call and the return: what same_set, find and
\* deep_copy say is neither more than the classes of now nor less than the links the caller was
\* bound to know.
AnswersAreTrue == SameSetIsTruth /\ FindIsCanonical /\ CopyIsForest
=============================================================================
