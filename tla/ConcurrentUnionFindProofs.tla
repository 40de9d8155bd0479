---------------------- MODULE ConcurrentUnionFindProofs ----------------------
(***************************************************************************)
(* Proofs about ConcurrentUnionFind, for any threads and any power-of-two  *)
(* number of ids, with stale loads and with both memory orderings: first   *)
(* the links, and then that what find, same_set and deep_copy answer is    *)
(* true.  The links decrease, so facts about roots are proved by induction *)
(* on ids.                                                                 *)
(***************************************************************************)
EXTENDS ConcurrentUnionFind, WellFoundedInduction, TLAPS

\* Ids are the numbers below a positive capacity, itself a power of two.
LEMMA Sizes ==
  /\ Capacity \in Nat \ {0}
  /\ Capacity \in PowersOfTwo
  /\ PowersOfTwo \subseteq Nat \ {0}
  /\ InitLen \in 1..Capacity
  /\ 0 \in Ids
  /\ Ids \subseteq 0..Capacity
  /\ Ids \subseteq Int
<1>1. Capacity \in PowersOfTwo
  BY SizeAssumption DEF Capacity, PowersOfTwo
<1>2. PowersOfTwo \subseteq Nat \ {0} /\ InitLen \in 1..Capacity
  BY SizeAssumption
<1>3. Capacity \in Nat \ {0}
  BY <1>1, <1>2
<1>4. 0 \in Ids /\ Ids \subseteq 0..Capacity /\ Ids \subseteq Int
  BY <1>3 DEF Ids
<1> QED BY <1>1, <1>2, <1>3, <1>4

\* Ids are integers.
LEMMA IdsAreInts == \A x \in Ids : x \in Int
BY Sizes DEF Ids

\* Every slot of the array is an id.
LEMMA SlotsAreIds ==
  ASSUME len \in 1..Capacity
  PROVE  Slots \subseteq Ids /\ 0 \in Slots
BY Sizes DEF Slots, Ids

\* Joining views gives a view.
LEMMA JoinIsView ==
  ASSUME NEW v \in View, NEW w \in View
  PROVE  Join(v, w) \in View
BY DEF Join, View, Smallest

\* What a thread is bound to see after a load is again a view.
LEMMA ObserveIsView ==
  ASSUME TypeOK, NEW t \in Threads, NEW i \in Slots, NEW m \in mem[i]
  PROVE  Observe(t, i, m) \in View
<1>a. Slots \subseteq Ids
  BY SlotsAreIds DEF TypeOK
<1>b. m \in [val : Slots, view : View] /\ view[t] \in View
  BY DEF TypeOK
<1>1. m.val \in Ids /\ m.view \in View /\ view[t] \in View /\ i \in Ids
  BY <1>a, <1>b
<1>2. Join(view[t], m.view) \in View
  BY <1>1, JoinIsView
<1>3. [view[t] EXCEPT ![i] = m.val] \in View
  BY <1>1 DEF View
<1> QED BY <1>2, <1>3 DEF Observe

\* The array and all calls start out in order.
LEMMA InitIInv == Init => IInv
<1> SUFFICES ASSUME Init PROVE IInv
  OBVIOUS
<1> USE Sizes
<1>1. Slots = 0..(InitLen - 1) /\ Slots \subseteq Ids /\ Fresh \in View
  BY DEF Init, Slots, Ids, Fresh, View
<1>2. TypeOK
  <2>1. mem \in [Slots -> SUBSET [val : Slots, view : View]]
    BY <1>1 DEF Init
  <2>2. op \in [Threads -> [kind : Kinds \cup {"none"}, l : Ids, r : Ids]]
    BY DEF Init, NoOp
  <2>3. reg \in [Threads -> [side : {"l", "r"}, l : Ids, r : Ids, cur : 0..Capacity,
                             next : Ids, grand : Ids]]
    BY DEF Init, NoReg, Ids
  <2>4. rep \in [Ids -> Ids] /\ view \in [Threads -> View] /\ start \in [Threads -> View]
    BY <1>1 DEF Init, Fresh
  <2>5. copy \in [Threads -> Seq(Ids)]
    BY DEF Init
  <2> QED BY <1>1, <2>1, <2>2, <2>3, <2>4, <2>5 DEF Init, TypeOK
<1>3. RepsOK
  BY <1>1 DEF Init, RepsOK, Fresh, Ids
<1>4. \A i \in Slots : SlotOK(i)
  <2> SUFFICES ASSUME NEW i \in Slots PROVE SlotOK(i)
    OBVIOUS
  <2>1. /\ mem[i] = {[val |-> i, view |-> Fresh]} /\ parent[i] = i /\ rep[i] = i
        /\ returned[i] = 0 /\ i <= i
    BY <1>1 DEF Init, Fresh
  <2> QED BY <2>1 DEF SlotOK
<1>5. \A t \in Threads : CallOK(t)
  BY DEF Init, CallOK, NoOp, Inside
<1> QED BY <1>2, <1>3, <1>4, <1>5 DEF IInv

-----------------------------------------------------------------------------
(* What a step of one thread leaves true *)

\* The parts of the type invariant a step's locals belong to.
RegType == [side : {"l", "r"}, l : Ids, r : Ids, cur : 0..Capacity, next : Ids, grand : Ids]
OpType == [kind : Kinds \cup {"none"}, l : Ids, r : Ids]
PcType == Inside \cup {"idle", "access", "claim", "drain"}

\* The locals at the start of a find, and at the end of a call, have their types.
LEMMA RegOfPair ==
  ASSUME NEW l \in Ids, NEW r \in Ids
  PROVE  /\ [NoReg EXCEPT !.l = l, !.r = r] \in RegType
         /\ \A c \in Ids : [NoReg EXCEPT !.l = l, !.r = r, !.cur = c] \in RegType
         /\ \A c \in Ids : [NoReg EXCEPT !.side = "r", !.l = l, !.r = r, !.cur = c] \in RegType
BY Sizes DEF NoReg, RegType

\* So have the locals when the finds start over.
LEMMA RegAgain ==
  ASSUME NEW g \in RegType
  PROVE  [g EXCEPT !.side = "l", !.cur = g.l] \in RegType
<1>1. g.l \in Ids /\ g.l \in 0..Capacity
  BY Sizes DEF RegType
<1> QED BY <1>1 DEF RegType

\* A call stays in order while others merge classes and shorten links.
LEMMA OtherCall ==
  ASSUME IInv, NEW u \in Threads,
         pc'[u] = pc[u], op'[u] = op[u], reg'[u] = reg[u], len' = len,
         \A i, j \in Ids : rep[i] = rep[j] => rep'[i] = rep'[j],
         \A i \in Slots : parent'[i] \in Ids /\ parent'[i] <= parent[i]
  PROVE  CallOK(u)'
<1>1. op[u] \in OpType /\ reg[u] \in RegType /\ Slots \subseteq Ids /\ Slots' = Slots
  BY SlotsAreIds DEF IInv, TypeOK, OpType, RegType, Slots
<1>2. /\ op[u].l \in Ids /\ op[u].r \in Ids /\ reg[u].l \in Ids /\ reg[u].r \in Ids
      /\ reg[u].next \in Ids /\ reg[u].grand \in Ids /\ Target(u) \in Ids
  BY <1>1 DEF OpType, RegType, Target
<1>3. Target(u)' = Target(u)
  BY DEF Target
<1>4. CallOK(u)
  BY DEF IInv
<1>5. pc[u] = "split" => parent'[reg[u].next] <= reg[u].grand
  <2> SUFFICES ASSUME pc[u] = "split" PROVE parent'[reg[u].next] <= reg[u].grand
    OBVIOUS
  <2>1. reg[u].next \in Slots /\ parent[reg[u].next] <= reg[u].grand
    BY <1>4 DEF CallOK
  <2>2. parent[reg[u].next] \in Ids
    BY <2>1, <1>1 DEF IInv, TypeOK
  <2> QED BY <1>2, <2>1, <2>2 DEF Ids
<1> QED BY <1>1, <1>2, <1>3, <1>4, <1>5 DEF CallOK

\* A step that leaves the array and the classes alone only has to answer for the
\* types and for its own call.
LEMMA LocalStep ==
  ASSUME IInv, NEW t \in Threads, UNCHANGED memory, TypeOK', CallOK(t)',
         \A u \in Threads \ {t} : pc'[u] = pc[u] /\ op'[u] = op[u] /\ reg'[u] = reg[u]
  PROVE  IInv'
<1>1. RepsOK' /\ Slots' = Slots
  BY DEF IInv, RepsOK, Slots, memory
<1>2. \A i \in Slots : SlotOK(i)'
  BY DEF IInv, SlotOK, memory
<1>3. \A i \in Slots : parent[i] \in Ids /\ parent[i] <= parent[i]
  <2> SUFFICES ASSUME NEW i \in Slots PROVE parent[i] \in Ids /\ parent[i] <= parent[i]
    OBVIOUS
  <2>1. parent[i] \in Ids
    BY SlotsAreIds DEF IInv, TypeOK
  <2>2. parent[i] \in Int
    BY <2>1, Sizes DEF Ids
  <2> QED BY <2>1, <2>2
<1>4. \A u \in Threads \ {t} : CallOK(u)'
  BY <1>3, OtherCall DEF memory
<1> QED BY <1>1, <1>2, <1>4 DEF IInv

\* Begin starts a call in order.
LEMMA BeginStep ==
  ASSUME IInv, NEW t \in Threads, Begin(t)
  PROVE  IInv'
<1> USE DEF Begin
<1>1. view' \in [Threads -> View]
  BY JoinIsView DEF IInv, TypeOK
<1>2. PICK k \in Kinds, p \in Pairs :
        /\ op' = [op EXCEPT ![t] =
                   [kind |-> k,
                    l |-> IF k \in {"reset", "copy"} THEN 0 ELSE p[1],
                    r |-> IF k \in {"reset", "copy"} THEN 0
                          ELSE IF k = "find" THEN p[1] ELSE p[2]]]
        /\ pc' = [pc EXCEPT ![t] = IF k = "reset" THEN "claim" ELSE "access"]
  OBVIOUS
<1>3. p[1] \in Ids /\ p[2] \in Ids /\ k # "none"
  BY ModeAssumption
<1>4. op' \in [Threads -> OpType]
  <2>1. op \in [Threads -> OpType]
    BY DEF IInv, TypeOK, OpType
  <2>2. \A x, y \in Ids : [kind |-> k, l |-> x, r |-> y] \in OpType
    BY DEF OpType
  <2> QED BY <1>2, <1>3, <2>1, <2>2, Sizes
<1>5. TypeOK'
  BY <1>1, <1>2, <1>4 DEF IInv, TypeOK, OpType, memory, Slots
<1>6. CallOK(t)'
  BY <1>2, <1>3 DEF IInv, TypeOK, CallOK, Inside
<1> QED BY <1>2, <1>5, <1>6, LocalStep DEF IInv, TypeOK

\* Access leads into the call only when the array is long enough for it.
LEMMA AccessStep ==
  ASSUME IInv, NEW t \in Threads, Access(t)
  PROVE  IInv'
<1> USE DEF Access
<1>1. op[t] \in OpType /\ reg \in [Threads -> RegType] /\ pc \in [Threads -> PcType]
  BY DEF IInv, TypeOK, OpType, RegType, PcType
<1>2. op[t].l \in Ids /\ op[t].r \in Ids /\ op[t].kind # "none"
  BY <1>1 DEF OpType, IInv, CallOK
<1>3. CASE len >= Needed(t)
  <2>1. reg' = [reg EXCEPT ![t] = [NoReg EXCEPT !.l = op[t].l, !.r = op[t].r,
                                                !.cur = op[t].l]]
    BY <1>3
  <2>2. reg' \in [Threads -> RegType]
    BY <1>1, <1>2, <2>1, RegOfPair
  <2>3. TypeOK'
    <3>1. pc' \in [Threads -> PcType]
      BY <1>1, <1>3 DEF PcType, Inside
    <3>2. start' \in [Threads -> View]
      BY <1>3 DEF IInv, TypeOK
    <3>3. UNCHANGED <<len, parent, mem, rep, returned, view, wlock, op, copy>>
      BY DEF memory
    <3> QED BY <2>2, <3>1, <3>2, <3>3 DEF IInv, TypeOK, RegType, PcType, Slots
  <2>4. op[t].kind # "copy" => op[t].l \in Slots /\ op[t].r \in Slots
    <3> SUFFICES ASSUME op[t].kind # "copy" PROVE op[t].l \in Slots /\ op[t].r \in Slots
      OBVIOUS
    <3>1. Largest(op[t].l, op[t].r) + 1 <= len
      BY <1>3 DEF Needed
    <3>2. len \in Int
      BY Sizes DEF IInv, TypeOK
    <3> QED BY <1>2, <3>1, <3>2 DEF Largest, Slots, Ids
  <2>5. reg'[t].l = op[t].l /\ reg'[t].r = op[t].r /\ reg'[t].cur = op[t].l /\ reg'[t].side = "l"
    BY <2>1, <1>1 DEF NoReg
  <2>6. CallOK(t)'
    BY <1>1, <1>2, <1>3, <2>4, <2>5 DEF CallOK, Inside, Target, memory, Slots, IInv
  <2> QED BY <2>1, <2>3, <2>6, <1>3, <1>1, LocalStep
<1>4. CASE ~(len >= Needed(t))
  <2>1. TypeOK'
    BY <1>4, <1>1 DEF IInv, TypeOK, PcType, memory, Slots
  <2>2. CallOK(t)'
    BY <1>1, <1>2, <1>4 DEF CallOK, Inside, IInv
  <2> QED BY <2>1, <2>2, <1>4, <1>1, LocalStep
<1> QED BY <1>3, <1>4

\* Claiming the write lock changes no call.
LEMMA ClaimStep ==
  ASSUME IInv, NEW t \in Threads, Claim(t)
  PROVE  IInv'
<1> USE DEF Claim
<1>1. TypeOK'
  BY DEF IInv, TypeOK, memory, Slots
<1>2. CallOK(t)'
  BY DEF IInv, TypeOK, CallOK, Inside
<1> QED BY <1>1, <1>2, LocalStep DEF IInv, TypeOK

\* Returning forgets the call.
LEMMA ReturnStep ==
  ASSUME IInv, NEW t \in Threads, Return(t)
  PROVE  IInv'
<1> USE DEF Return
<1>1. op' \in [Threads -> OpType]
  BY Sizes DEF IInv, TypeOK, NoOp, OpType
<1>2. reg' \in [Threads -> RegType]
  BY Sizes DEF IInv, TypeOK, NoReg, RegType, Ids
<1>3. start' \in [Threads -> View] /\ copy' \in [Threads -> Seq(Ids)]
  BY DEF IInv, TypeOK, Fresh, View
<1>4. TypeOK'
  BY <1>1, <1>2, <1>3 DEF IInv, TypeOK, OpType, RegType, memory, Slots
<1>5. CallOK(t)'
  BY DEF IInv, TypeOK, CallOK, Inside, NoOp
<1> QED BY <1>4, <1>5, LocalStep DEF IInv, TypeOK

\* A value a load may return from slot i: in the class of i, not above it, and
\* not below the latest link.
LEMMA LoadedValue ==
  ASSUME IInv, NEW i \in Slots, NEW t \in Threads, NEW m \in Visible(t, i)
  PROVE  /\ m \in mem[i] /\ m.val \in Slots /\ m.val <= i /\ parent[i] <= m.val
         /\ rep[m.val] = rep[i]
         /\ [view EXCEPT ![t] = Observe(t, i, m)] \in [Threads -> View]
<1>1. m \in mem[i]
  BY DEF Visible
<1>2. m \in [val : Slots, view : View]
  BY <1>1 DEF IInv, TypeOK
<1>3. SlotOK(i)
  BY DEF IInv
<1>4. Observe(t, i, m) \in View
  BY <1>1, ObserveIsView DEF IInv
<1> QED BY <1>1, <1>2, <1>3, <1>4 DEF SlotOK, IInv, TypeOK

\* find_impl's first load of a round stays in the class.
LEMMA FindNextStep ==
  ASSUME IInv, NEW t \in Threads, FindNext(t)
  PROVE  IInv'
<1> USE DEF FindNext
<1>1. op[t] \in OpType /\ reg \in [Threads -> RegType] /\ pc \in [Threads -> PcType]
      /\ CallOK(t) /\ Slots \subseteq Ids
  BY SlotsAreIds DEF IInv, TypeOK, OpType, RegType, PcType
<1>2. reg[t].cur \in Slots
  BY <1>1 DEF CallOK
<1>3. PICK m \in Visible(t, reg[t].cur) :
        /\ reg' = [reg EXCEPT ![t].next = m.val]
        /\ view' = [view EXCEPT ![t] = Observe(t, reg[t].cur, m)]
  OBVIOUS
<1>4. /\ m.val \in Slots /\ m.val <= reg[t].cur /\ rep[m.val] = rep[reg[t].cur]
      /\ view' \in [Threads -> View]
  BY <1>2, <1>3, LoadedValue
<1>5. reg' \in [Threads -> RegType] /\ reg'[t] = [reg[t] EXCEPT !.next = m.val]
  BY <1>1, <1>3, <1>4 DEF RegType
<1>6. TypeOK'
  BY <1>1, <1>4, <1>5 DEF IInv, TypeOK, RegType, PcType, Inside, memory, Slots
<1>7. /\ reg'[t].next = m.val /\ reg'[t].cur = reg[t].cur /\ reg'[t].l = reg[t].l
      /\ reg'[t].r = reg[t].r /\ reg'[t].side = reg[t].side
  BY <1>1, <1>5 DEF RegType
<1>8. CallOK(t)'
  BY <1>1, <1>4, <1>7 DEF CallOK, Target, Inside, memory, Slots, PcType
<1> QED BY <1>1, <1>3, <1>6, <1>8, LocalStep

\* The end of one find hands its root to the call.
LEMMA FoundStep ==
  ASSUME IInv, NEW t \in Threads, NEW x \in Slots,
         pc[t] = "grand", rep[x] = rep[Target(t)], Found(t, x),
         UNCHANGED <<memory, op>>
  PROVE  /\ reg' \in [Threads -> RegType] /\ pc' \in [Threads -> PcType]
         /\ CallOK(t)'
         /\ \A u \in Threads \ {t} : pc'[u] = pc[u] /\ reg'[u] = reg[u]
<1> USE DEF Found
<1>1. op[t] \in OpType /\ reg \in [Threads -> RegType] /\ pc \in [Threads -> PcType]
      /\ CallOK(t) /\ Slots \subseteq Ids /\ Slots' = Slots /\ rep' = rep
  BY SlotsAreIds DEF IInv, TypeOK, OpType, RegType, PcType, memory, Slots
<1>2. /\ op[t].l \in Slots /\ op[t].r \in Slots /\ op[t].kind # "copy"
      /\ reg[t].l \in Slots /\ rep[reg[t].l] = rep[op[t].l]
      /\ reg[t].r \in Slots /\ rep[reg[t].r] = rep[op[t].r]
      /\ op[t].kind # "none"
  BY <1>1 DEF CallOK, Inside
<1>3. CASE reg[t].side = "l" /\ op[t].kind # "find"
  <2>1. reg' = [reg EXCEPT ![t] = [NoReg EXCEPT !.side = "r", !.l = x, !.r = reg[t].r,
                                                !.cur = reg[t].r]]
        /\ pc' = [pc EXCEPT ![t] = "next"]
    BY <1>3
  <2>2. /\ reg'[t].side = "r" /\ reg'[t].l = x /\ reg'[t].r = reg[t].r
        /\ reg'[t].cur = reg[t].r
    BY <2>1, <1>1 DEF NoReg
  <2>3. reg' \in [Threads -> RegType]
    BY <1>1, <1>2, <2>1, RegOfPair
  <2>4. CallOK(t)'
    BY <1>1, <1>2, <1>3, <2>1, <2>2 DEF CallOK, Inside, Target
  <2> QED BY <1>1, <2>1, <2>3, <2>4 DEF PcType, Inside
<1>4. CASE ~(reg[t].side = "l" /\ op[t].kind # "find")
  <2> DEFINE l == IF op[t].kind = "find" THEN x ELSE reg[t].l
  <2>1. reg' = [reg EXCEPT ![t] = [NoReg EXCEPT !.l = l, !.r = x]]
        /\ pc' = [pc EXCEPT ![t] = AfterFinds(t, l, x)]
    BY <1>4
  <2>2. reg'[t].l = l /\ reg'[t].r = x
    BY <2>1, <1>1 DEF NoReg
  <2>3. reg' \in [Threads -> RegType]
    BY <1>1, <1>2, <2>1, RegOfPair
  <2>4. /\ op[t].kind = "find" => op[t].l = op[t].r
        /\ op[t].kind # "reset"
        /\ op[t].kind \in {"find", "same_set", "merge"}
    BY <1>1, <1>2, ModeAssumption DEF CallOK, Inside, OpType
  <2>5. l \in Slots /\ rep[l] = rep[op[t].l] /\ rep[x] = rep[op[t].r]
    BY <1>1, <1>2, <1>4, <2>4 DEF Target, RegType
  <2>6. pc'[t] = AfterFinds(t, l, x) /\ pc'[t] \in {"done", "link", "check"}
    BY <2>1, <1>1 DEF AfterFinds
  <2>7. /\ pc'[t] = "link" => op[t].kind = "merge"
        /\ pc'[t] = "check" => op[t].kind = "same_set"
        /\ pc'[t] \in {"link", "check"} => l # x
        /\ pc'[t] = "done" /\ op[t].kind = "merge" => l = x
    BY <2>4, <2>6 DEF AfterFinds
  <2>8. CallOK(t)'
    BY <1>1, <1>2, <2>2, <2>5, <2>6, <2>7, <2>4 DEF CallOK, Inside
  <2> QED BY <1>1, <2>1, <2>3, <2>6, <2>8 DEF PcType, Inside
<1> QED BY <1>3, <1>4

\* find_impl's second load of a round ends the find or leads to a split.
LEMMA FindGrandStep ==
  ASSUME IInv, NEW t \in Threads, FindGrand(t)
  PROVE  IInv'
<1> USE DEF FindGrand
<1>1. op[t] \in OpType /\ reg \in [Threads -> RegType] /\ pc \in [Threads -> PcType]
      /\ CallOK(t) /\ Slots \subseteq Ids
  BY SlotsAreIds DEF IInv, TypeOK, OpType, RegType, PcType
<1>2. /\ reg[t].next \in Slots /\ reg[t].cur \in Slots /\ reg[t].next <= reg[t].cur
      /\ rep[reg[t].next] = rep[reg[t].cur] /\ rep[reg[t].cur] = rep[Target(t)]
  BY <1>1 DEF CallOK
<1>3. PICK m \in Visible(t, reg[t].next) :
        /\ view' = [view EXCEPT ![t] = Observe(t, reg[t].next, m)]
        /\ IF m.val = reg[t].next
           THEN Found(t, reg[t].next)
           ELSE /\ reg' = [reg EXCEPT ![t].grand = m.val]
                /\ pc' = [pc EXCEPT ![t] = "split"]
  OBVIOUS
<1>4. /\ m.val \in Slots /\ m.val <= reg[t].next /\ parent[reg[t].next] <= m.val
      /\ rep[m.val] = rep[reg[t].next]
      /\ view' \in [Threads -> View]
  BY <1>2, <1>3, LoadedValue
<1>5. CASE m.val = reg[t].next
  <2>1. /\ reg' \in [Threads -> RegType] /\ pc' \in [Threads -> PcType]
        /\ CallOK(t)'
        /\ \A u \in Threads \ {t} : pc'[u] = pc[u] /\ reg'[u] = reg[u]
    BY <1>2, <1>3, <1>5, FoundStep
  <2>2. TypeOK'
    BY <1>1, <1>4, <2>1 DEF IInv, TypeOK, RegType, PcType, memory, Slots
  <2> QED BY <2>1, <2>2, LocalStep
<1>6. CASE m.val # reg[t].next
  <2>1. reg' \in [Threads -> RegType] /\ reg'[t] = [reg[t] EXCEPT !.grand = m.val]
    BY <1>1, <1>3, <1>4, <1>6 DEF RegType
  <2>2. /\ reg'[t].grand = m.val /\ reg'[t].cur = reg[t].cur /\ reg'[t].l = reg[t].l
        /\ reg'[t].r = reg[t].r /\ reg'[t].side = reg[t].side /\ reg'[t].next = reg[t].next
    BY <1>1, <2>1 DEF RegType
  <2>3. TypeOK'
    BY <1>1, <1>3, <1>4, <1>6, <2>1 DEF IInv, TypeOK, RegType, PcType, Inside, memory, Slots
  <2>4. m.val < reg[t].next
    BY <1>1, <1>2, <1>4, <1>6 DEF Ids
  <2>5. CallOK(t)'
    BY <1>1, <1>2, <1>3, <1>4, <1>6, <2>2, <2>4
       DEF CallOK, Target, Inside, memory, Slots, PcType
  <2> QED BY <1>1, <1>3, <1>6, <2>3, <2>5, LocalStep
<1> QED BY <1>5, <1>6

\* same_set's check ends the call or starts the finds over.
LEMMA CheckStep ==
  ASSUME IInv, NEW t \in Threads, Check(t)
  PROVE  IInv'
<1> USE DEF Check
<1>1. op[t] \in OpType /\ reg \in [Threads -> RegType] /\ pc \in [Threads -> PcType]
      /\ CallOK(t) /\ Slots \subseteq Ids
  BY SlotsAreIds DEF IInv, TypeOK, OpType, RegType, PcType
<1>2. reg[t].l \in Slots /\ rep[reg[t].l] = rep[op[t].l] /\ op[t].kind # "copy"
      /\ op[t].kind # "merge"
  BY <1>1 DEF CallOK, Inside
<1>3. PICK m \in Visible(t, reg[t].l) :
        /\ view' = [view EXCEPT ![t] = Observe(t, reg[t].l, m)]
        /\ IF m.val = reg[t].l
           THEN pc' = [pc EXCEPT ![t] = "done"] /\ reg' = reg
           ELSE Again(t)
  OBVIOUS
<1>4. view' \in [Threads -> View]
  BY <1>2, <1>3, LoadedValue
<1>5. CASE m.val = reg[t].l
  <2>1. TypeOK'
    BY <1>1, <1>3, <1>4, <1>5 DEF IInv, TypeOK, RegType, PcType, Inside, memory, Slots
  <2>2. CallOK(t)'
    BY <1>1, <1>2, <1>3, <1>5 DEF CallOK, Target, Inside, memory, Slots
  <2> QED BY <1>1, <1>3, <1>5, <2>1, <2>2, LocalStep
<1>6. CASE m.val # reg[t].l
  <2>1. reg' = [reg EXCEPT ![t] = [@ EXCEPT !.side = "l", !.cur = reg[t].l]]
        /\ pc' = [pc EXCEPT ![t] = "next"]
    BY <1>3, <1>6 DEF Again
  <2>2. reg' \in [Threads -> RegType]
    BY <1>1, <1>2, <2>1, RegAgain
  <2>3. /\ reg'[t].cur = reg[t].l /\ reg'[t].l = reg[t].l
        /\ reg'[t].r = reg[t].r /\ reg'[t].side = "l"
    BY <1>1, <2>1 DEF RegType
  <2>4. TypeOK'
    BY <1>1, <1>4, <2>1, <2>2 DEF IInv, TypeOK, RegType, PcType, Inside, memory, Slots
  <2>5. CallOK(t)'
    BY <1>1, <1>2, <2>1, <2>3 DEF CallOK, Target, Inside, memory, Slots
  <2> QED BY <1>1, <2>1, <2>4, <2>5, LocalStep
<1> QED BY <1>5, <1>6

\* deep_copy reads links and appends them.
LEMMA CopyNextStep ==
  ASSUME IInv, NEW t \in Threads, CopyNext(t)
  PROVE  IInv'
<1> USE DEF CopyNext
<1>1. op[t] \in OpType /\ reg \in [Threads -> RegType] /\ pc \in [Threads -> PcType]
      /\ CallOK(t) /\ Slots \subseteq Ids /\ reg[t].cur \in 0..Capacity
      /\ len \in 1..Capacity /\ Capacity \in Nat
  BY SlotsAreIds, Sizes DEF IInv, TypeOK, OpType, RegType, PcType
<1>2. op[t].kind = "copy"
  BY <1>1 DEF CallOK
<1>3. CASE reg[t].cur < len
  <2>1. PICK m \in Visible(t, reg[t].cur) :
          /\ copy' = [copy EXCEPT ![t] = Append(@, m.val)]
          /\ view' = [view EXCEPT ![t] = Observe(t, reg[t].cur, m)]
    BY <1>3
  <2>2. reg[t].cur \in Slots
    BY <1>1, <1>3 DEF Slots
  <2>3. m.val \in Ids /\ view' \in [Threads -> View]
    BY <1>1, <2>1, <2>2, LoadedValue
  <2>4. copy' \in [Threads -> Seq(Ids)]
    BY <2>1, <2>3 DEF IInv, TypeOK
  <2>5. reg' = [reg EXCEPT ![t].cur = reg[t].cur + 1] /\ pc' = pc
    BY <1>3
  <2>6. reg' \in [Threads -> RegType]
    <3>1. reg[t].cur + 1 \in 0..Capacity
      BY <1>1, <1>3
    <3> QED BY <1>1, <2>5, <3>1 DEF RegType
  <2>7. TypeOK'
    BY <2>3, <2>4, <2>5, <2>6 DEF IInv, TypeOK, RegType, memory, Slots
  <2>8. CallOK(t)'
    BY <1>1, <1>2, <2>5 DEF CallOK, Inside
  <2> QED BY <1>1, <2>5, <2>7, <2>8, LocalStep
<1>4. CASE ~(reg[t].cur < len)
  <2>1. pc' = [pc EXCEPT ![t] = "done"] /\ UNCHANGED <<copy, view, reg>>
    BY <1>4
  <2>2. TypeOK'
    BY <1>1, <2>1 DEF IInv, TypeOK, PcType, Inside, memory, Slots
  <2>3. CallOK(t)'
    BY <1>1, <1>2, <2>1 DEF CallOK, Inside
  <2> QED BY <1>1, <2>1, <2>2, <2>3, LocalStep
<1> QED BY <1>3, <1>4

-----------------------------------------------------------------------------
(* Writes to the array *)

\* A compare-exchange keeps the types of the array, and adds one value to one slot.
LEMMA SwapTypes ==
  ASSUME IInv, NEW t \in Threads, NEW i \in Slots, NEW new \in Slots,
         Swap(t, i, new)
  PROVE  /\ parent' = [parent EXCEPT ![i] = new]
         /\ parent' \in [Slots -> Slots]
         /\ mem' \in [Slots -> SUBSET [val : Slots, view : View]]
         /\ view' \in [Threads -> View]
         /\ \A j \in Slots \ {i} : mem'[j] = mem[j]
         /\ \A n \in mem'[i] : n \in mem[i] \/ n.val = new
         /\ \E n \in mem'[i] : n.val = new
<1>1. PICK m \in mem[i] :
        LET seen == [Observe(t, i, m) EXCEPT ![i] = new]
        IN  /\ m.val = parent[i]
            /\ parent' = [parent EXCEPT ![i] = new]
            /\ mem' = [mem EXCEPT ![i] =
                         @ \cup {[val |-> new, view |-> IF Scoped THEN Fresh ELSE seen]}]
            /\ view' = [view EXCEPT ![t] = seen]
  BY DEF Swap
<1> DEFINE seen == [Observe(t, i, m) EXCEPT ![i] = new]
           message == [val |-> new, view |-> IF Scoped THEN Fresh ELSE seen]
<1>2. Slots \subseteq Ids /\ mem \in [Slots -> SUBSET [val : Slots, view : View]]
      /\ parent \in [Slots -> Slots] /\ view \in [Threads -> View]
  BY SlotsAreIds DEF IInv, TypeOK
<1>3. Observe(t, i, m) \in View
  BY ObserveIsView DEF IInv
<1>4. seen \in View /\ Fresh \in View
  BY <1>2, <1>3 DEF View, Fresh
<1>5. message \in [val : Slots, view : View] /\ message.val = new
  BY <1>4
<1>6. mem' = [mem EXCEPT ![i] = @ \cup {message}] /\ view' = [view EXCEPT ![t] = seen]
      /\ parent' = [parent EXCEPT ![i] = new]
  BY <1>1
<1> HIDE DEF seen, message
<1>7. mem'[i] = mem[i] \cup {message} /\ \A j \in Slots \ {i} : mem'[j] = mem[j]
  BY <1>2, <1>6
<1>8. mem' \in [Slots -> SUBSET [val : Slots, view : View]]
  BY <1>2, <1>5, <1>6
<1>9. view' \in [Threads -> View] /\ parent' \in [Slots -> Slots]
  BY <1>2, <1>4, <1>6
<1> QED BY <1>5, <1>6, <1>7, <1>8, <1>9

\* A splitting step moves a slot to a smaller id of its class, or changes nothing.
LEMMA SplitStep ==
  ASSUME IInv, NEW t \in Threads, Split(t)
  PROVE  IInv'
<1> USE DEF Split
<1> DEFINE cur == reg[t].cur
           next == reg[t].next
           grand == reg[t].grand
<1>1. op[t] \in OpType /\ reg \in [Threads -> RegType] /\ pc \in [Threads -> PcType]
      /\ CallOK(t) /\ Slots \subseteq Ids /\ Slots' = Slots /\ rep' = rep
      /\ returned' = returned /\ parent \in [Slots -> Slots] /\ RepsOK
  BY SlotsAreIds DEF IInv, TypeOK, OpType, RegType, PcType, Slots
<1>2. /\ cur \in Slots /\ next \in Slots /\ grand \in Slots
      /\ next <= cur /\ grand < next /\ parent[next] <= grand
      /\ rep[next] = rep[cur] /\ rep[grand] = rep[next] /\ rep[cur] = rep[Target(t)]
  BY <1>1 DEF CallOK
<1>3. cur \in Int /\ next \in Int /\ grand \in Int
  BY <1>1, <1>2, Sizes DEF Ids
<1>4. /\ reg' \in [Threads -> RegType]
      /\ reg'[t].cur = next /\ reg'[t].l = reg[t].l /\ reg'[t].r = reg[t].r
      /\ reg'[t].side = reg[t].side
      /\ \A u \in Threads \ {t} : reg'[u] = reg[u]
  <2>1. next \in Ids /\ next \in 0..Capacity /\ 0 \in Ids
    BY <1>1, <1>2, Sizes
  <2> QED BY <1>1, <2>1 DEF RegType
<1>5. CASE parent[cur] = next /\ Swap(t, cur, grand)
  <2>1. /\ parent' = [parent EXCEPT ![cur] = grand]
        /\ parent' \in [Slots -> Slots]
        /\ mem' \in [Slots -> SUBSET [val : Slots, view : View]]
        /\ view' \in [Threads -> View]
        /\ \A j \in Slots \ {cur} : mem'[j] = mem[j]
        /\ \A n \in mem'[cur] : n \in mem[cur] \/ n.val = grand
        /\ \E n \in mem'[cur] : n.val = grand
    BY <1>2, <1>5, SwapTypes
  <2>2. TypeOK'
    BY <1>1, <1>4, <2>1 DEF IInv, TypeOK, RegType, PcType, Inside
  <2>3. RepsOK'
    BY <1>1 DEF RepsOK
  <2>4. next # cur
    BY <1>2, <1>3, <1>5
  <2>5. ASSUME NEW j \in Slots, j = cur PROVE SlotOK(j)'
    <3>1. parent'[cur] = grand /\ grand # cur /\ returned[cur] = 1
      BY <1>1, <1>2, <1>3, <1>5, <2>1, <2>4 DEF IInv, SlotOK
    <3>2. \A n \in mem'[cur] : grand <= n.val /\ n.val <= cur /\ rep[n.val] = rep[cur]
      <4> SUFFICES ASSUME NEW n \in mem'[cur]
                   PROVE  grand <= n.val /\ n.val <= cur /\ rep[n.val] = rep[cur]
        OBVIOUS
      <4>1. CASE n.val = grand
        BY <1>2, <1>3, <4>1
      <4>2. CASE n \in mem[cur]
        <5>1. next <= n.val /\ n.val <= cur /\ rep[n.val] = rep[cur]
          BY <1>2, <1>5, <4>2 DEF IInv, SlotOK
        <5>2. n.val \in Slots
          BY <1>2, <2>1
        <5>3. n.val \in Int
          BY <1>1, <5>2 DEF Ids
        <5> QED BY <1>2, <1>3, <5>1, <5>3
      <4> QED BY <2>1, <4>1, <4>2
    <3> QED BY <1>1, <2>1, <2>5, <3>1, <3>2 DEF SlotOK
  <2>6. \A j \in Slots \ {cur} : SlotOK(j)'
    BY <1>1, <1>2, <2>1 DEF IInv, SlotOK
  <2>7. \A j \in Slots : parent'[j] \in Ids /\ parent'[j] <= parent[j]
    <3> SUFFICES ASSUME NEW j \in Slots PROVE parent'[j] \in Ids /\ parent'[j] <= parent[j]
      OBVIOUS
    <3>1. parent[j] \in Int /\ parent'[j] \in Ids
      BY <1>1, <2>1 DEF Ids
    <3>2. CASE j = cur
      BY <1>1, <1>2, <1>3, <1>5, <2>1, <3>1, <3>2
    <3>3. CASE j # cur
      BY <1>1, <2>1, <3>1, <3>3
    <3> QED BY <3>2, <3>3
  <2>8. \A u \in Threads \ {t} : CallOK(u)'
    BY <1>1, <1>4, <2>7, OtherCall
  <2>9. CallOK(t)'
    BY <1>1, <1>2, <1>4 DEF CallOK, Target, Inside
  <2> QED BY <1>1, <2>2, <2>3, <2>5, <2>6, <2>8, <2>9 DEF IInv
<1>6. CASE CasFails(t, cur, next)
  <2>1. parent' = parent /\ mem' = mem /\ view' \in [Threads -> View]
    BY <1>2, <1>6, LoadedValue DEF CasFails
  <2>2. TypeOK'
    BY <1>1, <1>4, <2>1 DEF IInv, TypeOK, RegType, PcType, Inside
  <2>3. CallOK(t)'
    BY <1>1, <1>2, <1>4 DEF CallOK, Target, Inside
  <2> QED BY <1>1, <1>4, <2>1, <2>2, <2>3, LocalStep DEF memory
<1> QED BY <1>5, <1>6

\* A link puts the class of a root under a smaller id; a failed one changes nothing.
LEMMA LinkStepOK ==
  ASSUME IInv, NEW t \in Threads, Link(t)
  PROVE  IInv'
<1> DEFINE above == Smallest(reg[t].l, reg[t].r)
           child == Largest(reg[t].l, reg[t].r)
<1>1. op[t] \in OpType /\ reg \in [Threads -> RegType] /\ pc \in [Threads -> PcType]
      /\ CallOK(t) /\ Slots \subseteq Ids /\ Slots' = Slots /\ pc[t] = "link"
      /\ parent \in [Slots -> Slots] /\ RepsOK /\ op' = op /\ len' = len
      /\ rep \in [Ids -> Ids] /\ returned \in [Ids -> Nat]
      /\ UNCHANGED <<wlock, copy, start>>
  BY SlotsAreIds DEF IInv, TypeOK, OpType, RegType, PcType, Slots, Link
<1>2. /\ reg[t].l \in Slots /\ reg[t].r \in Slots /\ reg[t].l # reg[t].r
      /\ rep[reg[t].l] = rep[op[t].l] /\ rep[reg[t].r] = rep[op[t].r]
      /\ op[t].l \in Slots /\ op[t].r \in Slots /\ op[t].kind = "merge"
  BY <1>1 DEF CallOK, Inside
<1>3. reg[t].l \in Int /\ reg[t].r \in Int
  BY <1>1, <1>2, IdsAreInts
<1>4. /\ above \in Slots /\ child \in Slots /\ above < child
      /\ {above, child} = {reg[t].l, reg[t].r} /\ above \in Int /\ child \in Int
  BY <1>2, <1>3 DEF Smallest, Largest
<1>5. CASE /\ parent[child] = child
           /\ Swap(t, child, above)
           /\ reg' = [reg EXCEPT ![t] = [NoReg EXCEPT !.l = above, !.r = child]]
           /\ pc' = [pc EXCEPT ![t] = "done"]
           /\ rep' = [i \in Ids |-> IF rep[i] = child THEN rep[above] ELSE rep[i]]
           /\ returned' = [returned EXCEPT ![child] = @ + 1]
  <2> HIDE DEF above, child
  <2>1. /\ parent' = [parent EXCEPT ![child] = above]
        /\ parent' \in [Slots -> Slots]
        /\ mem' \in [Slots -> SUBSET [val : Slots, view : View]]
        /\ view' \in [Threads -> View]
        /\ \A j \in Slots \ {child} : mem'[j] = mem[j]
        /\ \A n \in mem'[child] : n \in mem[child] \/ n.val = above
        /\ \E n \in mem'[child] : n.val = above
    BY <1>4, <1>5, SwapTypes
  <2>2. child \in Ids /\ above \in Ids /\ rep[child] = child /\ returned[child] = 0
    BY <1>1, <1>4, <1>5 DEF IInv, SlotOK
  <2>3. rep[above] \in Ids /\ rep[above] <= above /\ rep[above] # child
        /\ rep[rep[above]] = rep[above] /\ rep[above] \in Int
    <3>1. rep[above] \in Ids /\ rep[above] <= above /\ rep[rep[above]] = rep[above]
      BY <1>1, <2>2 DEF RepsOK
    <3>2. rep[above] \in Int
      BY <3>1 DEF Ids
    <3> QED BY <1>4, <3>1, <3>2
  <2>4. \A i \in Ids : rep'[i] = IF rep[i] = child THEN rep[above] ELSE rep[i]
    BY <1>5
  <2>5. rep' \in [Ids -> Ids] /\ returned' \in [Ids -> Nat]
    BY <1>1, <1>5, <2>2, <2>3
  <2>6. /\ reg' \in [Threads -> RegType] /\ reg'[t].l = above /\ reg'[t].r = child
        /\ \A u \in Threads \ {t} : reg'[u] = reg[u]
    <3>1. [NoReg EXCEPT !.l = above, !.r = child] \in RegType
      BY <2>2, RegOfPair
    <3> QED BY <1>1, <1>5, <3>1 DEF NoReg
  <2>7. TypeOK'
    BY <1>1, <1>5, <2>1, <2>5, <2>6 DEF IInv, TypeOK, RegType, PcType, Inside
  <2>8. RepsOK'
    <3> SUFFICES ASSUME NEW i \in Ids
                 PROVE  /\ rep'[i] <= i
                        /\ rep'[rep'[i]] = rep'[i]
                        /\ i \notin Slots => rep'[i] = i /\ returned'[i] = 0
      BY <1>1 DEF RepsOK
    <3>1. /\ rep[i] \in Ids /\ rep[i] <= i /\ rep[rep[i]] = rep[i] /\ rep[i] \in Int /\ i \in Int
          /\ i \notin Slots => rep[i] = i /\ returned[i] = 0
      BY <1>1 DEF RepsOK, Ids
    <3>2. CASE rep[i] = child
      <4>1. rep'[i] = rep[above] /\ rep[above] <= i
        BY <1>4, <2>3, <2>4, <3>1, <3>2
      <4>2. rep'[rep[above]] = rep[above]
        BY <2>3, <2>4
      <4>3. i \in Slots
        BY <1>4, <3>1, <3>2
      <4> QED BY <4>1, <4>2, <4>3
    <3>3. CASE rep[i] # child
      <4>1. rep'[i] = rep[i] /\ rep'[rep[i]] = rep[i]
        BY <2>4, <3>1, <3>3
      <4>2. i # child
        BY <2>2, <3>3
      <4>3. returned'[i] = returned[i]
        BY <1>1, <1>5, <4>2
      <4> QED BY <3>1, <4>1, <4>3
    <3> QED BY <3>2, <3>3
  <2>9. \A i, j \in Ids : rep[i] = rep[j] => rep'[i] = rep'[j]
    BY <2>4
  <2>10. \A j \in Slots : parent'[j] \in Ids /\ parent'[j] <= parent[j]
    <3> SUFFICES ASSUME NEW j \in Slots PROVE parent'[j] \in Ids /\ parent'[j] <= parent[j]
      OBVIOUS
    <3>1. parent[j] \in Int /\ parent'[j] \in Ids
      BY <1>1, <2>1, IdsAreInts
    <3>2. CASE j = child
      BY <1>1, <1>4, <1>5, <2>1, <3>1, <3>2
    <3>3. CASE j # child
      BY <1>1, <2>1, <3>1, <3>3
    <3> QED BY <3>2, <3>3
  <2>11. ASSUME NEW j \in Slots, j = child PROVE SlotOK(j)'
    <3>1. parent'[j] = above /\ above # j /\ returned'[j] = 1
      BY <1>1, <1>4, <1>5, <2>1, <2>2, <2>11
    <3>2. rep'[above] = rep'[j]
      BY <2>2, <2>3, <2>4, <2>11
    <3>3. \A n \in mem'[j] : above <= n.val /\ n.val <= j /\ rep'[n.val] = rep'[j]
      <4> SUFFICES ASSUME NEW n \in mem'[j]
                   PROVE  above <= n.val /\ n.val <= j /\ rep'[n.val] = rep'[j]
        OBVIOUS
      <4>1. CASE n.val = above
        BY <1>4, <2>11, <3>2, <4>1
      <4>2. CASE n \in mem[j]
        <5>1. child <= n.val /\ n.val <= j /\ rep[n.val] = rep[j]
          BY <1>5, <2>11, <4>2 DEF IInv, SlotOK
        <5>2. n.val \in Slots
          BY <2>1
        <5>3. n.val \in Int /\ n.val \in Ids /\ j \in Ids
          BY <1>1, <5>2, IdsAreInts
        <5>4. rep'[n.val] = rep'[j]
          BY <2>9, <5>1, <5>3
        <5> QED BY <1>4, <5>1, <5>3, <5>4
      <4> QED BY <2>1, <2>11, <4>1, <4>2
    <3> QED BY <2>1, <2>11, <3>1, <3>3 DEF SlotOK
  <2>12. ASSUME NEW j \in Slots, j # child PROVE SlotOK(j)'
    <3>1. SlotOK(j) /\ parent'[j] = parent[j] /\ mem'[j] = mem[j] /\ returned'[j] = returned[j]
          /\ j \in Ids
      BY <1>1, <1>5, <2>1, <2>12 DEF IInv
    <3>2. rep[j] = j => rep'[j] = j
      BY <2>4, <2>12, <3>1
    <3>3. \A n \in mem[j] : rep'[n.val] = rep'[j]
      <4> SUFFICES ASSUME NEW n \in mem[j] PROVE rep'[n.val] = rep'[j]
        OBVIOUS
      <4>1. n.val \in Slots
        BY <2>1, <3>1
      <4> QED BY <1>1, <2>9, <3>1, <4>1 DEF SlotOK
    <3> QED BY <3>1, <3>2, <3>3 DEF SlotOK
  <2>13. \A u \in Threads \ {t} : CallOK(u)'
    BY <1>1, <1>5, <2>6, <2>9, <2>10, OtherCall
  <2>14. CallOK(t)'
    <3>1. rep'[child] = rep'[above]
      BY <2>2, <2>3, <2>4
    <3>2. /\ op[t].l \in Ids /\ op[t].r \in Ids /\ reg[t].l \in Ids /\ reg[t].r \in Ids
          /\ rep'[op[t].l] = rep'[reg[t].l] /\ rep'[op[t].r] = rep'[reg[t].r]
      BY <1>1, <1>2, <2>9
    <3>3. /\ rep'[op[t].l] = rep'[above] /\ rep'[op[t].r] = rep'[child]
          /\ rep'[op[t].l] = rep'[op[t].r]
      BY <1>4, <3>1, <3>2
    <3> QED BY <1>1, <1>2, <1>4, <1>5, <2>6, <3>3 DEF CallOK, Inside
  <2> QED BY <1>1, <2>7, <2>8, <2>11, <2>12, <2>13, <2>14 DEF IInv
<1>6. CASE CasFails(t, child, child) /\ Again(t) /\ UNCHANGED <<rep, returned>>
  <2>1. parent' = parent /\ mem' = mem /\ view' \in [Threads -> View]
    BY <1>4, <1>6, LoadedValue DEF CasFails
  <2>2. reg' = [reg EXCEPT ![t] = [@ EXCEPT !.side = "l", !.cur = reg[t].l]]
        /\ pc' = [pc EXCEPT ![t] = "next"]
    BY <1>6 DEF Again
  <2>3. reg' \in [Threads -> RegType]
    BY <1>1, <1>2, <2>2, RegAgain
  <2>4. /\ reg'[t].cur = reg[t].l /\ reg'[t].l = reg[t].l
        /\ reg'[t].r = reg[t].r /\ reg'[t].side = "l"
    BY <1>1, <2>2 DEF RegType
  <2>5. TypeOK'
    BY <1>1, <1>6, <2>1, <2>2, <2>3 DEF IInv, TypeOK, RegType, PcType, Inside
  <2>6. CallOK(t)'
    BY <1>1, <1>2, <1>6, <2>2, <2>4 DEF CallOK, Target, Inside
  <2> QED BY <1>1, <1>6, <2>1, <2>2, <2>5, <2>6, LocalStep DEF memory
<1> QED BY <1>5, <1>6 DEF Link

\* What the write lock publishes is an array in order, and no call is inside.
LEMMA PublishOK ==
  ASSUME IInv, NEW n \in 1..Capacity, len' = n,
         NEW links \in [0..(n - 1) -> 0..(n - 1)], Publish(links)
  PROVE  /\ parent' \in [Slots' -> Slots']
         /\ mem' \in [Slots' -> SUBSET [val : Slots', view : View]]
         /\ view' \in [Threads -> View]
         /\ wlock' \in Threads \cup {None}
         /\ \A i \in Slots' : parent'[i] = links[i] /\ \A m \in mem'[i] : m.val = links[i]
         /\ \A i \in Slots' : \E m \in mem'[i] : m.val = links[i]
<1>1. Slots' = 0..(n - 1) /\ Slots' \subseteq Ids /\ DOMAIN links = Slots'
  BY Sizes DEF Slots, Ids
<1> DEFINE latest == [j \in Ids |-> IF j \in DOMAIN links THEN links[j] ELSE j]
<1>2. latest \in View
  BY <1>1 DEF View
<1>3. mem' = [i \in Slots' |-> {[val |-> links[i], view |-> latest]}]
      /\ view' = [t \in Threads |-> latest] /\ parent' = links /\ wlock' = None
  BY <1>1 DEF Publish
<1> HIDE DEF latest
<1>4. \A i \in Slots' : [val |-> links[i], view |-> latest] \in [val : Slots', view : View]
  BY <1>1, <1>2
<1>5. \A i \in Slots' : mem'[i] = {[val |-> links[i], view |-> latest]} /\ parent'[i] = links[i]
  BY <1>3
<1>6. \A i \in Slots' : \A m \in mem'[i] : m.val = links[i]
  BY <1>5
<1>7. \A i \in Slots' : \E m \in mem'[i] : m.val = links[i]
  BY <1>5
<1>8. mem' \in [Slots' -> SUBSET [val : Slots', view : View]]
  BY <1>3, <1>4
<1>9. parent' \in [Slots' -> Slots'] /\ view' \in [Threads -> View]
  BY <1>1, <1>2, <1>3
<1> QED BY <1>3, <1>5, <1>6, <1>7, <1>8, <1>9

\* With no call inside, a thread that leaves the lock has nothing to answer for.
LEMMA NobodyInside ==
  ASSUME IInv, NEW u \in Threads, Readers = {},
         pc'[u] = pc[u] /\ op'[u] = op[u]
  PROVE  CallOK(u)'
<1>1. pc[u] \notin Inside
  BY DEF Readers
<1>2. CallOK(u)
  BY DEF IInv
<1> QED BY <1>1, <1>2 DEF CallOK, Inside

\* Growing keeps every link and adds roots.
LEMMA GrowStep ==
  ASSUME IInv, NEW t \in Threads, Grow(t)
  PROVE  IInv'
<1> USE DEF Grow
<1>1. op[t] \in OpType /\ op \in [Threads -> OpType] /\ pc \in [Threads -> PcType]
      /\ parent \in [Slots -> Slots] /\ len \in 1..Capacity /\ CallOK(t) /\ RepsOK
      /\ Capacity \in Nat /\ Slots \subseteq Ids
  BY SlotsAreIds, Sizes DEF IInv, TypeOK, OpType, PcType
<1>2. \E n \in 1..Capacity : \E links \in [0..(n - 1) -> 0..(n - 1)] :
        /\ len' = n /\ len <= n /\ Publish(links)
        /\ \A i \in 0..(n - 1) : links[i] = IF i \in Slots THEN parent[i] ELSE i
  <2>1. CASE len < Needed(t)
    <3>1. PICK p \in PowersOfTwo :
            /\ p >= Needed(t)
            /\ \A q \in PowersOfTwo : q >= Needed(t) => p <= q
            /\ len' = p
            /\ Publish([i \in 0..(p - 1) |-> IF i < len THEN parent[i] ELSE i])
      BY <2>1
    <3>2. Needed(t) \in Nat /\ Needed(t) <= Capacity
      BY <1>1, Sizes DEF Needed, Largest, OpType, Ids
    <3>3. p \in Nat \ {0} /\ p <= Capacity /\ len <= p
      BY <1>1, <2>1, <3>1, <3>2, Sizes
    <3>4. p \in 1..Capacity
      BY <1>1, <3>3
    <3> DEFINE longer == [i \in 0..(p - 1) |-> IF i < len THEN parent[i] ELSE i]
    <3>5. longer \in [0..(p - 1) -> 0..(p - 1)]
      BY <1>1, <3>3 DEF Slots
    <3>6. \A i \in 0..(p - 1) : longer[i] = IF i \in Slots THEN parent[i] ELSE i
      BY <1>1 DEF Slots
    <3>7. Publish(longer) /\ len' = p
      BY <3>1
    <3> HIDE DEF longer
    <3> QED BY <3>3, <3>4, <3>5, <3>6, <3>7
  <2>2. CASE ~(len < Needed(t))
    <3>1. len' = len /\ Publish(parent) /\ len <= len
      BY <1>1, <2>2
    <3>2. parent \in [0..(len - 1) -> 0..(len - 1)]
          /\ \A i \in 0..(len - 1) : parent[i] = IF i \in Slots THEN parent[i] ELSE i
      BY <1>1 DEF Slots
    <3> QED BY <1>1, <3>1, <3>2
  <2> QED BY <2>1, <2>2
<1>3. PICK n \in 1..Capacity : \E links \in [0..(n - 1) -> 0..(n - 1)] :
        /\ len' = n /\ len <= n /\ Publish(links)
        /\ \A i \in 0..(n - 1) : links[i] = IF i \in Slots THEN parent[i] ELSE i
  BY <1>2
<1>4. PICK links \in [0..(n - 1) -> 0..(n - 1)] :
        /\ len' = n /\ len <= n /\ Publish(links)
        /\ \A i \in 0..(n - 1) : links[i] = IF i \in Slots THEN parent[i] ELSE i
  BY <1>3
<1>6. /\ parent' \in [Slots' -> Slots']
      /\ mem' \in [Slots' -> SUBSET [val : Slots', view : View]]
      /\ view' \in [Threads -> View]
      /\ wlock' \in Threads \cup {None}
      /\ \A i \in Slots' : parent'[i] = links[i] /\ \A m \in mem'[i] : m.val = links[i]
      /\ \A i \in Slots' : \E m \in mem'[i] : m.val = links[i]
  BY <1>4, PublishOK
<1>7. TypeOK'
  BY <1>1, <1>4, <1>6 DEF IInv, TypeOK, PcType
<1>8. Slots \subseteq Slots' /\ Slots' = 0..(n - 1) /\ Slots' \subseteq Ids
  BY <1>1, <1>4 DEF Slots, Ids
<1>9. RepsOK'
  BY <1>8 DEF RepsOK, IInv
<1>10. \A i \in Slots' : SlotOK(i)'
  <2> SUFFICES ASSUME NEW i \in Slots' PROVE SlotOK(i)'
    OBVIOUS
  <2>1. /\ parent'[i] = links[i] /\ \A m \in mem'[i] : m.val = links[i]
        /\ \E m \in mem'[i] : m.val = links[i] /\ rep' = rep /\ returned' = returned
    BY <1>6
  <2>2. i \in Int /\ links[i] \in Int
    BY <1>8
  <2>3. CASE i \in Slots
    <3>1. links[i] = parent[i] /\ SlotOK(i)
      BY <1>4, <1>8, <2>3 DEF IInv
    <3> QED BY <2>1, <2>2, <3>1 DEF SlotOK
  <2>4. CASE i \notin Slots
    <3>1. links[i] = i /\ rep[i] = i /\ returned[i] = 0
      BY <1>1, <1>4, <1>8, <2>4 DEF RepsOK
    <3> QED BY <2>1, <2>2, <3>1 DEF SlotOK
  <2> QED BY <2>3, <2>4
<1>11. CallOK(t)'
  BY <1>1 DEF CallOK, Inside
<1>12. \A u \in Threads \ {t} : CallOK(u)'
  BY <1>1, NobodyInside
<1> QED BY <1>7, <1>9, <1>10, <1>11, <1>12 DEF IInv

\* A reset makes every id a root again.
LEMMA ReInitStep ==
  ASSUME IInv, NEW t \in Threads, ReInit(t)
  PROVE  IInv'
<1> USE DEF ReInit
<1>1. op \in [Threads -> OpType] /\ pc \in [Threads -> PcType]
      /\ len \in 1..Capacity /\ Slots \subseteq Ids /\ Capacity \in Nat
  BY SlotsAreIds, Sizes DEF IInv, TypeOK, OpType, PcType
<1> DEFINE links == [i \in 0..(len - 1) |-> i]
<1>2. links \in [0..(len - 1) -> 0..(len - 1)] /\ Publish(links) /\ Slots' = Slots
      /\ \A i \in Slots : links[i] = i
  BY DEF Slots
<1> HIDE DEF links
<1>3. /\ parent' \in [Slots' -> Slots']
      /\ mem' \in [Slots' -> SUBSET [val : Slots', view : View]]
      /\ view' \in [Threads -> View]
      /\ wlock' \in Threads \cup {None}
      /\ \A i \in Slots' : parent'[i] = links[i] /\ \A m \in mem'[i] : m.val = links[i]
      /\ \A i \in Slots' : \E m \in mem'[i] : m.val = links[i]
  BY <1>1, <1>2, PublishOK
<1>4. op' \in [Threads -> OpType]
  BY <1>1, Sizes DEF NoOp, OpType
<1>5. TypeOK'
  BY <1>1, <1>3, <1>4 DEF IInv, TypeOK, OpType, PcType, Fresh
<1>6. \A i \in Ids : rep'[i] = i /\ returned'[i] = 0 /\ i <= i
  BY IdsAreInts DEF Fresh
<1>7. RepsOK'
  BY <1>6 DEF RepsOK
<1>8. \A i \in Slots' : SlotOK(i)'
  <2> SUFFICES ASSUME NEW i \in Slots' PROVE SlotOK(i)'
    OBVIOUS
  <2>1. i \in Ids /\ links[i] = i
    BY <1>1, <1>2
  <2> QED BY <1>3, <1>6, <2>1 DEF SlotOK
<1>9. CallOK(t)'
  BY <1>1 DEF CallOK, Inside, NoOp
<1>10. \A u \in Threads \ {t} : CallOK(u)'
  BY <1>1, NobodyInside
<1> QED BY <1>5, <1>7, <1>8, <1>9, <1>10 DEF IInv

-----------------------------------------------------------------------------
(* The theorems *)

\* Every step of every thread preserves the invariant.
LEMMA NextIInv == IInv /\ [Next]_vars => IInv'
<1> SUFFICES ASSUME IInv, [Next]_vars PROVE IInv'
  OBVIOUS
<1>1. CASE Next
  <2>1. PICK t \in Threads : Begin(t) \/ Step(t)
    BY <1>1 DEF Next
  <2>2. CASE Begin(t)
    BY <2>2, BeginStep
  <2>3. CASE Access(t)
    BY <2>3, AccessStep
  <2>4. CASE Claim(t)
    BY <2>4, ClaimStep
  <2>5. CASE Grow(t)
    BY <2>5, GrowStep
  <2>6. CASE ReInit(t)
    BY <2>6, ReInitStep
  <2>7. CASE FindNext(t)
    BY <2>7, FindNextStep
  <2>8. CASE FindGrand(t)
    BY <2>8, FindGrandStep
  <2>9. CASE Split(t)
    BY <2>9, SplitStep
  <2>10. CASE Link(t)
    BY <2>10, LinkStepOK
  <2>11. CASE Check(t)
    BY <2>11, CheckStep
  <2>12. CASE CopyNext(t)
    BY <2>12, CopyNextStep
  <2>13. CASE Return(t)
    BY <2>13, ReturnStep
  <2> QED BY <2>1, <2>2, <2>3, <2>4, <2>5, <2>6, <2>7, <2>8, <2>9, <2>10, <2>11, <2>12,
             <2>13 DEF Step, LockStep, FindStep
<1>2. CASE UNCHANGED vars
  <2>1. TypeOK'
    BY <1>2 DEF IInv, TypeOK, vars, Slots
  <2>2. RepsOK' /\ \A i \in Slots' : SlotOK(i)'
    BY <1>2 DEF IInv, RepsOK, SlotOK, vars, Slots
  <2>3. \A t \in Threads : CallOK(t)'
    BY <1>2 DEF IInv, CallOK, Target, vars, Slots
  <2> QED BY <2>1, <2>2, <2>3 DEF IInv
<1> QED BY <1>1, <1>2

\* The invariant holds in every reachable state.
THEOREM InvariantHolds == Spec => []IInv
<1> QED BY InitIInv, NextIInv, PTL DEF Spec

\* Calls only ever hold ids of the array: no load or compare-exchange of
\* find_impl, merge_impl or same_set is out of bounds.
THEOREM TypeCorrect == Spec => []TypeOK
<1>1. IInv => TypeOK
  BY DEF IInv
<1> QED BY <1>1, InvariantHolds, PTL

\* Whatever value a relaxed or acquire load may still return is an ancestor in
\* the same class, as AtomicUnionFindAccess's documentation argues.
THEOREM StaleLoads == Spec => []StaleLoadsHarmless
<1>1. IInv => StaleLoadsHarmless
  BY DEF IInv, SlotOK, StaleLoadsHarmless
<1> QED BY <1>1, InvariantHolds, PTL

\* No two merges return the same child, and every id that lost its root status
\* was returned.
THEOREM ChildOnce == Spec => []ChildReturnedOnce
<1>1. IInv => ChildReturnedOnce
  BY DEF IInv, SlotOK, ChildReturnedOnce
<1> QED BY <1>1, InvariantHolds, PTL

-----------------------------------------------------------------------------
(* Refinement *)

Asked == [t \in Threads |-> IF op[t].kind = "merge" THEN <<op[t].l, op[t].r>> ELSE <<>>]

\* A call that is not a merge asks for nothing, and a step that changes neither
\* the classes nor the calls is a stuttering step.
LEMMA QuietStep ==
  ASSUME rep' = rep, op' = op
  PROVE  Asked' = Asked
BY DEF Asked

\* A link joins the classes of the two ids the call was asked to join.
LEMMA LinkRefines ==
  ASSUME IInv, NEW t \in Threads, Link(t)
  PROVE  Abstract!Union(t) \/ (rep' = rep /\ op' = op)
<1> DEFINE above == Smallest(reg[t].l, reg[t].r)
           child == Largest(reg[t].l, reg[t].r)
<1>1. op' = op /\ pc[t] = "link" /\ CallOK(t) /\ Slots \subseteq Ids /\ RepsOK
      /\ rep \in [Ids -> Ids]
  BY SlotsAreIds DEF Link, IInv, TypeOK
<1>2. /\ reg[t].l \in Slots /\ reg[t].r \in Slots /\ reg[t].l # reg[t].r
      /\ rep[reg[t].l] = rep[op[t].l] /\ rep[reg[t].r] = rep[op[t].r]
      /\ op[t].l \in Slots /\ op[t].r \in Slots /\ op[t].kind = "merge"
  BY <1>1 DEF CallOK, Inside
<1>3. reg[t].l \in Int /\ reg[t].r \in Int
  BY <1>1, <1>2, IdsAreInts
<1>4. /\ above \in Slots /\ child \in Slots /\ above < child
      /\ \/ above = reg[t].l /\ child = reg[t].r
         \/ above = reg[t].r /\ child = reg[t].l
  BY <1>2, <1>3 DEF Smallest, Largest
<1>5. CASE /\ parent[child] = child
           /\ rep' = [i \in Ids |-> IF rep[i] = child THEN rep[above] ELSE rep[i]]
  <2> HIDE DEF above, child
  <2>1. rep[child] = child /\ rep[above] \in Ids /\ rep[above] <= above
        /\ above \in Int /\ child \in Int /\ rep[above] \in Int
    BY <1>1, <1>4, <1>5, IdsAreInts DEF IInv, SlotOK, RepsOK
  <2>2. rep[above] < child
    BY <1>4, <2>1
  <2> DEFINE a == rep[op[t].l]
             b == rep[op[t].r]
  <2>3. {a, b} = {rep[above], child} /\ a # b /\ Abstract!Smaller(a, b) = rep[above]
    <3>1. CASE above = reg[t].l /\ child = reg[t].r
      BY <1>2, <2>1, <2>2, <3>1 DEF Abstract!Smaller
    <3>2. CASE above = reg[t].r /\ child = reg[t].l
      BY <1>2, <2>1, <2>2, <3>2 DEF Abstract!Smaller
    <3> QED BY <1>4, <3>1, <3>2
  <2>4. rep' = [i \in Ids |-> IF rep[i] \in {a, b} THEN Abstract!Smaller(a, b) ELSE rep[i]]
    BY <1>5, <2>3
  <2>5. Asked[t] = <<op[t].l, op[t].r>> /\ Asked[t][1] = op[t].l /\ Asked[t][2] = op[t].r
        /\ Asked[t] # <<>> /\ Asked' = Asked
    BY <1>1, <1>2 DEF Asked
  <2> QED BY <2>3, <2>4, <2>5 DEF Abstract!Union, Abstract!Nothing, Asked
<1> QED BY <1>1, <1>5 DEF Link

\* Calling an operation asks for a union or for nothing.
LEMMA BeginRefines ==
  ASSUME IInv, NEW t \in Threads, Begin(t)
  PROVE  Abstract!Ask(t) \/ (rep' = rep /\ Asked' = Asked)
<1>1. PICK k \in Kinds, l \in Ids, r \in Ids :
        op' = [op EXCEPT ![t] = [kind |-> k, l |-> l, r |-> r]]
  BY Sizes, ModeAssumption DEF Begin
<1>2. rep' = rep /\ op \in [Threads -> OpType] /\ op[t].kind = "none"
  BY DEF Begin, memory, IInv, TypeOK, OpType, CallOK
<1>3. CASE k = "merge"
  <2>1. Asked[t] = <<>> /\ Asked' = [Asked EXCEPT ![t] = <<l, r>>]
    BY <1>1, <1>2, <1>3 DEF Asked
  <2> QED BY <1>2, <2>1 DEF Abstract!Ask, Abstract!Nothing, Asked
<1>4. CASE k # "merge"
  BY <1>1, <1>2, <1>4 DEF Asked
<1> QED BY <1>3, <1>4

\* A merge returns only when its two ids share a class.
LEMMA ReturnRefines ==
  ASSUME IInv, NEW t \in Threads, Return(t)
  PROVE  Abstract!Answer(t) \/ (rep' = rep /\ Asked' = Asked)
<1>1. /\ rep' = rep /\ op \in [Threads -> OpType] /\ pc[t] = "done" /\ CallOK(t)
      /\ op' = [op EXCEPT ![t] = NoOp]
  BY DEF Return, memory, IInv, TypeOK, OpType
<1>2. CASE op[t].kind = "merge"
  <2>1. rep[op[t].l] = rep[op[t].r]
    BY <1>1, <1>2 DEF CallOK
  <2>2. /\ Asked[t] # <<>> /\ Asked[t][1] = op[t].l /\ Asked[t][2] = op[t].r
        /\ Asked' = [Asked EXCEPT ![t] = <<>>]
    BY <1>1, <1>2 DEF Asked, NoOp
  <2> QED BY <1>1, <2>1, <2>2 DEF Abstract!Answer, Abstract!Nothing, Asked
<1>3. CASE op[t].kind # "merge"
  BY <1>1, <1>3 DEF Asked, NoOp
<1> QED BY <1>2, <1>3

\* A reset resets.
LEMMA ReInitRefines ==
  ASSUME IInv, NEW t \in Threads, ReInit(t)
  PROVE  Abstract!Reset
<1>1. op \in [Threads -> OpType] /\ op' = [op EXCEPT ![t] = NoOp] /\ op[t].kind = "reset"
      /\ rep' = Fresh
  BY DEF ReInit, IInv, TypeOK, OpType
<1>2. Asked' = Asked
  BY <1>1 DEF Asked, NoOp
<1> QED BY <1>1, <1>2 DEF Abstract!Reset, Fresh, Asked

\* Every step of the lock-free structure is a step of the abstract one, or none.
LEMMA NextRefines ==
  IInv /\ [Next]_vars => [Abstract!Next]_<<rep, Asked>>
<1> SUFFICES ASSUME IInv, [Next]_vars
             PROVE  Abstract!Next \/ (rep' = rep /\ Asked' = Asked)
  OBVIOUS
<1>1. CASE UNCHANGED vars
  BY <1>1, QuietStep DEF vars
<1>2. CASE Next
  <2>1. PICK t \in Threads : Begin(t) \/ Step(t)
    BY <1>2 DEF Next
  <2>2. CASE Begin(t)
    BY <2>2, BeginRefines DEF Abstract!Next
  <2>3. CASE Link(t)
    BY <2>3, LinkRefines, QuietStep DEF Abstract!Next
  <2>4. CASE Return(t)
    BY <2>4, ReturnRefines DEF Abstract!Next
  <2>5. CASE ReInit(t)
    BY <2>5, ReInitRefines DEF Abstract!Next
  <2>6. CASE Access(t) \/ Claim(t) \/ Grow(t)
    BY <2>6, QuietStep DEF Access, Claim, Grow, memory
  <2>7. CASE FindNext(t) \/ FindGrand(t) \/ Split(t) \/ Check(t) \/ CopyNext(t)
    BY <2>7, QuietStep DEF FindNext, FindGrand, Split, Check, CopyNext, memory
  <2> QED BY <2>1, <2>2, <2>3, <2>4, <2>5, <2>6, <2>7 DEF Step, LockStep, FindStep
<1> QED BY <1>1, <1>2

\* The lock-free union-find implements the abstract one: unions happen only on
\* request, join exactly the two requested classes under the smaller canonical
\* id, and are never undone; a merge returns only when its arguments are joined.
THEOREM Refinement == Spec => ImplementsUnionFind
<1>1. Init => Abstract!Init
  BY DEF Init, Abstract!Init, Abstract!Nothing, Fresh, NoOp
<1>2. IInv /\ [Next]_vars => [Abstract!Next]_<<rep, Asked>>
  BY NextRefines
<1>3. Asked = [t \in Threads |-> IF op[t].kind = "merge" THEN <<op[t].l, op[t].r>> ELSE <<>>]
  BY DEF Asked
<1> QED BY <1>1, <1>2, InvariantHolds, PTL DEF Spec, ImplementsUnionFind, Abstract!Spec, Asked

\* No step but a reset ever makes a link longer, so no compare-exchange can
\* mistake an old link for a current one.
THEOREM LinksDecrease == Spec => LinksNeverIncrease
<1> DEFINE Down == \/ \E t \in Threads : op[t].kind = "reset" /\ pc[t] = "drain"
                   \/ \A i \in Slots : parent'[i] <= parent[i]
<1>1. IInv /\ [Next]_vars => [Down]_vars
  <2> SUFFICES ASSUME IInv, Next PROVE Down
    OBVIOUS
  <2>1. PICK t \in Threads : Begin(t) \/ Step(t)
    BY DEF Next
  <2>2. parent \in [Slots -> Slots] /\ Slots \subseteq Ids
    BY SlotsAreIds DEF IInv, TypeOK
  <2>3. \A i \in Slots : parent[i] \in Int /\ parent[i] <= parent[i]
    BY <2>2, IdsAreInts
  <2>4. CASE parent' = parent
    BY <2>3, <2>4
  <2>5. CASE ReInit(t)
    BY <2>5 DEF ReInit
  <2>6. CASE Grow(t)
    <3>1. \A i \in Slots : parent'[i] = parent[i]
      <4> SUFFICES ASSUME NEW i \in Slots PROVE parent'[i] = parent[i]
        OBVIOUS
      <4>1. CASE len < Needed(t)
        <5>1. PICK p \in PowersOfTwo :
                p >= Needed(t) /\ parent' = [j \in 0..(p - 1) |-> IF j < len THEN parent[j] ELSE j]
          BY <2>6, <4>1 DEF Grow, Publish
        <5>2. p \in Int /\ len \in Int /\ Needed(t) \in Int
          <6>1. p \in Int /\ len \in Int
            BY <5>1, Sizes DEF IInv, TypeOK
          <6>2. op[t].l \in Ids /\ op[t].r \in Ids
            BY DEF IInv, TypeOK
          <6>3. Needed(t) \in Int
            BY <6>2, IdsAreInts DEF Needed, Largest
          <6> QED BY <6>1, <6>3
        <5> QED BY <4>1, <5>1, <5>2 DEF Slots
      <4>2. CASE ~(len < Needed(t))
        BY <2>6, <4>2 DEF Grow, Publish
      <4> QED BY <4>1, <4>2
    <3> QED BY <2>3, <3>1
  <2>7. CASE Split(t)
    <3>1. CallOK(t) /\ pc[t] = "split"
      BY <2>7 DEF IInv, Split
    <3>2. /\ reg[t].cur \in Slots /\ reg[t].next \in Slots /\ reg[t].grand \in Slots
          /\ reg[t].grand < reg[t].next
      BY <3>1 DEF CallOK
    <3>3. CASE parent[reg[t].cur] = reg[t].next /\ Swap(t, reg[t].cur, reg[t].grand)
      <4>1. parent' = [parent EXCEPT ![reg[t].cur] = reg[t].grand]
        BY <3>3 DEF Swap
      <4>2. reg[t].next \in Int /\ reg[t].grand \in Int
        BY <2>2, <3>2, IdsAreInts
      <4> QED BY <2>2, <2>3, <3>2, <3>3, <4>1, <4>2
    <3>4. CASE CasFails(t, reg[t].cur, reg[t].next)
      BY <2>4, <3>4 DEF CasFails
    <3> QED BY <2>7, <3>3, <3>4 DEF Split
  <2>8. CASE Link(t)
    <3>1. CallOK(t) /\ pc[t] = "link"
      BY <2>8 DEF IInv, Link
    <3>2. reg[t].l \in Slots /\ reg[t].r \in Slots
      BY <3>1 DEF CallOK, Inside
    <3> DEFINE above == Smallest(reg[t].l, reg[t].r)
               child == Largest(reg[t].l, reg[t].r)
    <3>3. above <= child /\ child \in Slots
      BY <2>2, <3>2, IdsAreInts DEF Smallest, Largest
    <3>4. CASE parent[child] = child /\ Swap(t, child, above)
      <4>1. parent' = [parent EXCEPT ![child] = above]
        BY <3>4 DEF Swap
      <4> QED BY <2>2, <2>3, <3>3, <3>4, <4>1
    <3>5. CASE CasFails(t, child, child)
      BY <2>4, <3>5 DEF CasFails
    <3> QED BY <2>8, <3>4, <3>5 DEF Link
  <2>9. Begin(t) \/ Access(t) \/ Claim(t) \/ FindNext(t) \/ FindGrand(t) \/ Check(t)
          \/ CopyNext(t) \/ Return(t) => parent' = parent
    BY DEF Begin, Access, Claim, FindNext, FindGrand, Check, CopyNext, Return, memory
  <2> QED BY <2>1, <2>4, <2>5, <2>6, <2>7, <2>8, <2>9 DEF Step, LockStep, FindStep
<1> QED BY <1>1, InvariantHolds, PTL DEF Spec, LinksNeverIncrease

-----------------------------------------------------------------------------
(* Forests *)

\* Links that never lead upwards.
Forest(n) == {f \in [0..(n - 1) -> Nat] : \A i \in 0..(n - 1) : f[i] <= i}

\* A set of naturals has a least element.
LEMMA LeastOf ==
  ASSUME NEW T \in SUBSET Nat, T # {}
  PROVE  \E x \in T : \A y \in T : x <= y
<1>1. IsWellFoundedOn(OpToRel(<, Nat), Nat)
  BY NatLessThanWellFounded
<1>2. PICK x \in T : \A y \in T : ~ (<<y, x>> \in OpToRel(<, Nat))
  BY <1>1, WFMin
<1> HIDE <1>1
<1>3. \A y \in T : ~ (y < x)
  BY <1>2 DEF OpToRel
<1> QED
  BY <1>3

\* Strong induction, for a set instead of a predicate.
LEMMA AllBelow ==
  ASSUME NEW n \in Nat, NEW S,
         \A i \in 0..(n - 1) : (\A j \in 0..(n - 1) : j < i => j \in S) => i \in S
  PROVE  \A i \in 0..(n - 1) : i \in S
<1> DEFINE Bad == 0..(n - 1) \ S
<1> SUFFICES ASSUME Bad # {} PROVE FALSE
  OBVIOUS
<1>1. Bad \in SUBSET Nat
  OBVIOUS
<1>2. PICK k \in Bad : \A y \in Bad : k <= y
  BY <1>1, LeastOf
<1> QED
  BY <1>2

\* g follows the links of the first k ids to their ends.
Follows(links, k, g) ==
  /\ g \in [0..(k - 1) -> Nat]
  /\ \A i \in 0..(k - 1) : g[i] = IF links[i] = i THEN i ELSE g[links[i]]

\* The walks along the links of a forest end.
LEMMA WalksEnd ==
  ASSUME NEW n \in Nat, NEW links \in Forest(n)
  PROVE  \E g : Follows(links, n, g)
<1> DEFINE Bad == {k \in 0..n : ~ \E g : Follows(links, k, g)}
<1> SUFFICES ASSUME Bad # {} PROVE FALSE
  <2>1. n \in 0..n
    OBVIOUS
  <2> QED
    BY <2>1
<1>1. Bad \in SUBSET Nat
  OBVIOUS
<1>2. PICK k \in Bad : \A y \in Bad : k <= y
  BY <1>1, LeastOf
<1>3. k # 0
  <2>1. Follows(links, 0, [i \in 0..(0 - 1) |-> 0])
    BY DEF Follows
  <2> QED
    BY <2>1
<1>4. k - 1 \in 0..n /\ k - 1 \notin Bad
  BY <1>2, <1>3
<1>5. PICK g : Follows(links, k - 1, g)
  BY <1>4
<1> DEFINE h == [i \in 0..(k - 1) |-> IF i < k - 1 THEN g[i]
                                      ELSE IF links[i] = i THEN i ELSE g[links[i]]]
<1>6. Follows(links, k, h)
  <2>1. \A i \in 0..(k - 1) : links[i] \in Nat /\ links[i] <= i
    BY <1>2 DEF Forest
  <2>2. \A i \in 0..(k - 1) : h[i] \in Nat
    BY <1>5, <2>1 DEF Follows
  <2>3. \A i \in 0..(k - 1) : h[i] = IF links[i] = i THEN i ELSE h[links[i]]
    BY <1>5, <2>1 DEF Follows
  <2> QED
    BY <2>2, <2>3 DEF Follows
<1> QED
  BY <1>2, <1>6

\* RootOf does what its recursive definition says.
LEMMA RootUnfold ==
  ASSUME NEW n \in Nat, NEW links \in Forest(n)
  PROVE  /\ RootOf(links) \in [0..(n - 1) -> Nat]
         /\ \A i \in 0..(n - 1) :
              /\ RootOf(links)[i] = IF links[i] = i THEN i ELSE RootOf(links)[links[i]]
              /\ RootOf(links)[i] \in 0..i
              /\ links[RootOf(links)[i]] = RootOf(links)[i]
<1>0. DOMAIN links = 0..(n - 1) /\ \A i \in 0..(n - 1) : links[i] \in Nat /\ links[i] <= i
  BY DEF Forest
<1>1. PICK g : Follows(links, n, g)
  BY WalksEnd
<1>2. g = [i \in DOMAIN links |-> IF links[i] = i THEN i ELSE g[links[i]]]
  BY <1>0, <1>1 DEF Follows
<1> DEFINE Unfold(r) == r = [i \in DOMAIN links |-> IF links[i] = i THEN i ELSE r[links[i]]]
<1>3. Unfold(CHOOSE r : Unfold(r))
  BY <1>2, Zenon
<1>4. RootOf(links) = CHOOSE r : Unfold(r)
  BY Zenon DEF RootOf
<1>5. Unfold(RootOf(links))
  BY <1>3, <1>4
<1> DEFINE R == RootOf(links)
<1>9. R = [i \in 0..(n - 1) |-> R[i]]
  BY <1>0, <1>5
<1>6. \A i \in 0..(n - 1) : R[i] = IF links[i] = i THEN i ELSE R[links[i]]
  BY <1>0, <1>5
<1> DEFINE S == {i \in 0..(n - 1) : R[i] \in 0..i /\ links[R[i]] = R[i]}
<1> HIDE DEF R
<1>7. ASSUME NEW i \in 0..(n - 1), \A j \in 0..(n - 1) : j < i => j \in S
      PROVE  i \in S
  <2>1. CASE links[i] = i
    BY <2>1, <1>0, <1>6
  <2>2. CASE links[i] # i
    <3>1. links[i] \in 0..(n - 1) /\ links[i] < i
      BY <2>2, <1>0
    <3>2. links[i] \in S /\ R[i] = R[links[i]]
      BY <3>1, <1>6, <1>7
    <3> QED
      BY <3>1, <3>2
  <2> QED
    BY <2>1, <2>2
<1>8. \A i \in 0..(n - 1) : i \in S
  <2> HIDE DEF S
  <2> QED
    BY <1>7, AllBelow
<1>10. R \in [0..(n - 1) -> Nat]
  BY <1>8, <1>9
<1> QED
  BY <1>6, <1>8, <1>10 DEF R

\* What links keep, for the first k ids, roots keep.
LEMMA KeptByRoots ==
  ASSUME NEW n \in Nat, NEW links \in Forest(n), NEW f \in [0..(n - 1) -> Nat],
         NEW k \in 0..n,
         \A i \in 0..(k - 1) : f[links[i]] = f[i]
  PROVE  \A i \in 0..(k - 1) : f[RootOf(links)[i]] = f[i]
<1>0. \A i \in 0..(n - 1) : links[i] \in Nat /\ links[i] <= i
  BY DEF Forest
<1>1. \A i \in 0..(n - 1) :
        RootOf(links)[i] = IF links[i] = i THEN i ELSE RootOf(links)[links[i]]
  BY RootUnfold
<1> DEFINE S == {i \in 0..(k - 1) : f[RootOf(links)[i]] = f[i]}
<1>2. ASSUME NEW i \in 0..(k - 1), \A j \in 0..(k - 1) : j < i => j \in S
      PROVE  i \in S
  <2>1. CASE links[i] = i
    BY <2>1, <1>1
  <2>2. CASE links[i] # i
    <3>1. links[i] \in 0..(k - 1) /\ links[i] < i /\ i \in 0..(n - 1)
      BY <2>2, <1>0
    <3>2. f[RootOf(links)[links[i]]] = f[links[i]]
      BY <3>1, <1>2
    <3> QED
      BY <2>2, <3>1, <3>2, <1>1
  <2> QED
    BY <2>1, <2>2
<1> QED
  <2> HIDE DEF S
  <2>0. k \in Nat
    OBVIOUS
  <2>1. \A i \in 0..(k - 1) : i \in S
    BY <1>2, <2>0, AllBelow
  <2> QED
    BY <2>1 DEF S

-----------------------------------------------------------------------------
(* The links in memory *)

\* Ids are naturals.
LEMMA IdsAreNats == \A x \in Ids : x \in Nat
BY Sizes DEF Ids

\* Following the links in memory from an id leads to the canonical id of its class.
THEOREM LinksLead == Spec => []LinksLeadToRep
<1>1. IInv => LinksLeadToRep
  <2> SUFFICES ASSUME IInv, NEW i \in Ids
               PROVE  rep[i] = IF i \in Slots THEN RootOf(parent)[i] ELSE i
    BY DEF LinksLeadToRep
  <2>1. CASE i \notin Slots
    BY <2>1 DEF IInv, RepsOK
  <2>2. CASE i \in Slots
    <3>1. len \in Nat /\ Slots = 0..(len - 1) /\ parent \in [Slots -> Slots]
      BY Sizes DEF IInv, TypeOK, Slots
    <3>2. \A j \in Slots : parent[j] <= j /\ rep[parent[j]] = rep[j]
      BY DEF IInv, SlotOK
    <3>3. parent \in Forest(len)
      BY <3>1, <3>2 DEF Forest
    <3>4. RootOf(parent)[i] \in Slots /\ parent[RootOf(parent)[i]] = RootOf(parent)[i]
      <4>1. \A j \in 0..(len - 1) :
              RootOf(parent)[j] \in 0..j /\ parent[RootOf(parent)[j]] = RootOf(parent)[j]
        BY <3>1, <3>3, RootUnfold
      <4> QED
        BY <2>2, <3>1, <4>1
    <3>5. rep[RootOf(parent)[i]] = rep[i]
      <4> DEFINE f == [j \in 0..(len - 1) |-> rep[j]]
      <4>1. f \in [0..(len - 1) -> Nat] /\ len \in 0..len
        <5>1. rep \in [Ids -> Ids] /\ Slots \subseteq Ids
          BY SlotsAreIds DEF IInv, TypeOK
        <5>2. \A j \in 0..(len - 1) : rep[j] \in Nat
          BY <3>1, <5>1, IdsAreNats
        <5> QED
          BY <3>1, <5>2
      <4>2. \A j \in 0..(len - 1) : f[parent[j]] = f[j]
        BY <3>1, <3>2
      <4> HIDE DEF f
      <4>3. \A j \in 0..(len - 1) : f[RootOf(parent)[j]] = f[j]
        BY <3>1, <3>3, <4>1, <4>2, KeptByRoots
      <4> QED
        BY <2>2, <3>1, <3>4, <4>3 DEF f
    <3>6. rep[RootOf(parent)[i]] = RootOf(parent)[i]
      BY <3>4 DEF IInv, SlotOK
    <3> QED
      BY <2>2, <3>5, <3>6
  <2> QED
    BY <2>1, <2>2
<1> QED
  BY <1>1, InvariantHolds, PTL

-----------------------------------------------------------------------------
(* Views *)

\* Every value an id's slot has held since the array was last written as a whole.
History == [i \in Ids |-> IF i \in Slots THEN {m.val : m \in mem[i]} ELSE {i}]

\* A view is sound if an id is joined in it to every older value of its slot: whoever
\* is bound to see a link is bound to see what made the link it replaced redundant.
Sound(H, v) ==
  \A i \in Ids : /\ v[i] \in H[i]
                 /\ \A w \in H[i] : w >= v[i] => RootOf(v)[w] = RootOf(v)[i]

Below(v, w) == \A i \in Ids : v[i] <= w[i]

\* A value is the first to replace the id itself, or it was read from the slot of an
\* earlier value by the find that split the path.
Chained(H) ==
  \A i \in Ids : \A w \in H[i] : w # i =>
    \/ \A u \in H[i] : u <= w \/ u = i
    \/ \E x \in H[i] : w < x /\ x < i /\ w \in H[x]

ViewsOK ==
  /\ \A t \in Threads : Sound(History, view[t])
  /\ \A i \in Slots : \A m \in mem[i] :
       /\ Sound(History, m.view)
       /\ m.view[i] = m.val
       /\ m.val = i => \A t \in Threads : Below(view[t], m.view)

Linked(t, x, y) == RootOf(view[t])[x] = RootOf(view[t])[y]

\* What a call knows: what it was bound to know when it began, where the links it holds
\* come from, how its ids are joined in its view, and what it has copied.
StartKnown(t) == pc[t] \in Inside => Sound(History, start[t]) /\ Below(view[t], start[t])

LinksKnown(t) ==
  /\ pc[t] \in {"grand", "split"} =>
       reg[t].next \in History[reg[t].cur] /\ view[t][reg[t].cur] <= reg[t].next
  /\ pc[t] = "split" =>
       reg[t].grand \in History[reg[t].next] /\ view[t][reg[t].next] <= reg[t].grand

ClassKnown(t) ==
  pc[t] \in Inside /\ op[t].kind \in {"find", "same_set"} =>
    /\ Linked(t, reg[t].l, op[t].l) /\ Linked(t, reg[t].r, op[t].r)
    /\ pc[t] \in {"next", "grand", "split"} => Linked(t, reg[t].cur, Target(t))
    /\ pc[t] \in {"check", "done"} => view[t][reg[t].r] = reg[t].r
    /\ pc[t] = "done" /\ op[t].kind = "find" => reg[t].l = reg[t].r
    /\ pc[t] = "done" => reg[t].l = reg[t].r \/ view[t][reg[t].l] = reg[t].l

CopyKnown(t) ==
  /\ op[t].kind = "copy" => op[t].l = 0
  /\ pc[t] \notin {"copy", "done"} => copy[t] = <<>>
  /\ pc[t] \in {"copy", "done"} /\ op[t].kind = "copy" =>
       /\ Len(copy[t]) = reg[t].cur /\ reg[t].cur <= len
       /\ \A i \in 0..(reg[t].cur - 1) :
            copy[t][i + 1] \in History[i] /\ copy[t][i + 1] <= start[t][i]

KnowsOK(t) == StartKnown(t) /\ LinksKnown(t) /\ ClassKnown(t) /\ CopyKnown(t)

Know == Chained(History) /\ ViewsOK /\ \A t \in Threads : KnowsOK(t)

\* With the relaxed loads of a scoped access a view says nothing about other slots, and
\* only merges are called.
KInv == Scoped \/ Know

-----------------------------------------------------------------------------
(* Lemmas about views *)

\* Values of a slot are ids no larger than its own.
IsHistory(H) == H \in [Ids -> SUBSET Ids] /\ \A i \in Ids : \A w \in H[i] : w <= i

Extended(H, i, new) == [H EXCEPT ![i] = @ \cup {new}]

\* The roots of a view whose links are values of their slots.
LEMMA ViewRoots ==
  ASSUME NEW H, IsHistory(H), NEW v \in View, \A i \in Ids : v[i] \in H[i]
  PROVE  /\ v \in Forest(Capacity) /\ RootOf(v) \in [0..(Capacity - 1) -> Nat]
         /\ \A i \in Ids : /\ RootOf(v)[i] \in Ids /\ RootOf(v)[i] <= i
                           /\ RootOf(v)[v[i]] = RootOf(v)[i]
                           /\ v[i] = i => RootOf(v)[i] = i
                           /\ v[RootOf(v)[i]] = RootOf(v)[i]
<1>1. Capacity \in Nat /\ Ids = 0..(Capacity - 1)
  BY Sizes DEF Ids
<1>2. \A i \in Ids : v[i] \in Ids /\ v[i] <= i
  BY DEF IsHistory, View
<1>3. v \in [0..(Capacity - 1) -> Nat]
  BY <1>1 DEF View
<1>4. v \in Forest(Capacity)
  BY <1>1, <1>2, <1>3 DEF Forest
<1>5. /\ RootOf(v) \in [0..(Capacity - 1) -> Nat]
      /\ \A i \in 0..(Capacity - 1) :
           /\ RootOf(v)[i] = IF v[i] = i THEN i ELSE RootOf(v)[v[i]]
           /\ RootOf(v)[i] \in 0..i
           /\ v[RootOf(v)[i]] = RootOf(v)[i]
  BY <1>1, <1>4, RootUnfold
<1>6. \A i \in Ids : RootOf(v)[i] \in Ids /\ RootOf(v)[i] <= i
  BY <1>1, <1>5
<1> QED
  BY <1>1, <1>4, <1>5, <1>6

\* What a function does not tell apart across a view's links it does not tell apart across
\* the view's classes.
LEMMA KeptByView ==
  ASSUME NEW H, IsHistory(H), NEW v \in View, \A i \in Ids : v[i] \in H[i],
         NEW f \in [0..(Capacity - 1) -> Nat], NEW k \in 0..Capacity,
         \A i \in Ids : i < k => f[v[i]] = f[i]
  PROVE  \A i \in Ids : i < k => f[RootOf(v)[i]] = f[i]
<1>1. Capacity \in Nat /\ Ids = 0..(Capacity - 1) /\ k \in Nat
  BY Sizes DEF Ids
<1>2. v \in Forest(Capacity)
  BY ViewRoots
<1>3. \A i \in 0..(k - 1) : f[v[i]] = f[i]
  BY <1>1
<1>4. \A i \in 0..(k - 1) : f[RootOf(v)[i]] = f[i]
  BY <1>1, <1>2, <1>3, KeptByRoots
<1> QED
  BY <1>1, <1>4

\* A sound view keeps what a view with older links joins.
LEMMA Coarser ==
  ASSUME NEW H, IsHistory(H), NEW v \in View, \A i \in Ids : v[i] \in H[i],
         NEW w \in View, Sound(H, w), Below(w, v),
         NEW x \in Ids, NEW y \in Ids, RootOf(v)[x] = RootOf(v)[y]
  PROVE  RootOf(w)[x] = RootOf(w)[y]
<1>1. \A i \in Ids : w[i] \in H[i]
  BY DEF Sound
<1>2. RootOf(w) \in [0..(Capacity - 1) -> Nat]
  BY <1>1, ViewRoots
<1>3. \A i \in Ids : v[i] \in Int /\ w[i] \in Int /\ w[i] <= v[i]
  BY IdsAreInts DEF View, Below
<1>4. \A i \in Ids : RootOf(w)[v[i]] = RootOf(w)[i]
  BY <1>3 DEF Sound
<1>5. Capacity \in 0..Capacity /\ \A i \in Ids : i < Capacity
  BY Sizes DEF Ids
<1>6. \A i \in Ids : RootOf(w)[RootOf(v)[i]] = RootOf(w)[i]
  BY <1>2, <1>4, <1>5, KeptByView
<1> QED
  BY <1>6

\* Joining two sound views is sound: the link that is kept in a slot is the newer one, and
\* the view it comes from joins the older one.
LEMMA JoinSound ==
  ASSUME NEW H, IsHistory(H), NEW a \in View, NEW b \in View, Sound(H, a), Sound(H, b)
  PROVE  Sound(H, Join(a, b))
<1> DEFINE v == Join(a, b)
           R == RootOf(v)
<1>1. v \in View /\ \A i \in Ids : v[i] = Smallest(a[i], b[i])
  BY JoinIsView DEF Join
<1>2. /\ \A i \in Ids : a[i] \in Ids /\ b[i] \in Ids /\ v[i] \in Ids
      /\ \A i \in Ids : a[i] \in H[i] /\ b[i] \in H[i]
  BY <1>1 DEF View, Sound
<1>3. \A i \in Ids : /\ v[i] \in H[i] /\ (v[i] = a[i] \/ v[i] = b[i])
                     /\ v[i] <= a[i] /\ v[i] <= b[i]
  BY <1>1, <1>2, IdsAreInts DEF Smallest
<1> HIDE DEF v
<1>4. /\ R \in [0..(Capacity - 1) -> Nat]
      /\ \A i \in Ids : R[v[i]] = R[i]
  BY <1>1, <1>3, ViewRoots
<1> HIDE DEF R
<1> DEFINE S == {i \in Ids : \A w \in H[i] : w >= v[i] => R[w] = R[i]}
<1>5. ASSUME NEW i \in Ids, \A j \in Ids : j < i => j \in S,
             NEW c \in View, Sound(H, c), v[i] = c[i], \A j \in Ids : v[j] <= c[j],
             NEW w \in H[i], w >= v[i]
      PROVE  R[w] = R[i]
  <2>0. w \in Ids /\ w <= i /\ c[i] \in Ids /\ c[i] <= w /\ c[i] <= i
    BY <1>5 DEF IsHistory, View, Sound
  <2>1. CASE w = i
    BY <2>1
  <2>2. CASE w # i
    <3>1. w < i /\ c[i] < i
      BY <2>0, <2>2, IdsAreInts
    <3>2. \A j \in Ids : c[j] \in H[j]
      BY <1>5 DEF Sound
    <3>8. \A j \in Ids : j < i => R[c[j]] = R[j]
      <4>1. \A j \in Ids : c[j] \in Int /\ v[j] \in Int /\ v[j] <= c[j]
        BY <1>2, <1>5, IdsAreInts DEF View
      <4> QED
        BY <1>5, <3>2, <4>1
    <3>3. i \in 0..Capacity
      BY Sizes
    <3>4. \A j \in Ids : j < i => R[RootOf(c)[j]] = R[j]
      BY <1>4, <3>2, <3>3, <3>8, KeptByView
    <3>5. RootOf(c)[w] = RootOf(c)[i]
      BY <1>5 DEF Sound
    <3>6. RootOf(c)[c[i]] = RootOf(c)[i]
      BY <3>2, ViewRoots
    <3>7. R[w] = R[c[i]]
      BY <2>0, <3>1, <3>4, <3>5, <3>6
    <3> QED
      BY <1>4, <1>5, <3>7
  <2> QED
    BY <2>1, <2>2
<1>6. ASSUME NEW i \in Ids, \A j \in Ids : j < i => j \in S
      PROVE  i \in S
  <2> SUFFICES ASSUME NEW w \in H[i], w >= v[i] PROVE R[w] = R[i]
    OBVIOUS
  <2>1. CASE v[i] = a[i]
    BY <1>3, <1>5, <1>6, <2>1
  <2>2. CASE v[i] = b[i]
    BY <1>3, <1>5, <1>6, <2>2
  <2> QED
    BY <1>3, <2>1, <2>2
<1>7. \A i \in Ids : i \in S
  <2> HIDE DEF S
  <2>1. Capacity \in Nat /\ Ids = 0..(Capacity - 1)
    BY Sizes DEF Ids
  <2> QED
    BY <1>6, <2>1, AllBelow
<1> QED
  BY <1>3, <1>7 DEF Sound, R, v

\* A newer value of a slot makes no view unsound that does not have it.
LEMMA OlderSound ==
  ASSUME NEW H, IsHistory(H), NEW v \in View, Sound(H, v),
         NEW i \in Ids, NEW new \in Ids, \A w \in H[i] : new < w
  PROVE  Sound(Extended(H, i, new), v)
<1>1. /\ Extended(H, i, new)[i] = H[i] \cup {new}
      /\ \A j \in Ids \ {i} : Extended(H, i, new)[j] = H[j]
  BY DEF Extended, IsHistory
<1>2. new < v[i] /\ v[i] \in Ids
  BY DEF Sound, View
<1>3. ~ (new >= v[i])
  BY <1>2, IdsAreInts
<1> QED
  BY <1>1, <1>3 DEF Sound

\* A slot's link is replaced, in the newest view there is of that slot, by one that leads
\* to the same root, or it was a root.
LEMMA ReplacedSound ==
  ASSUME NEW H, IsHistory(H), NEW o \in View, Sound(H, o),
         NEW i \in Ids, NEW new \in Ids, new < o[i], \A w \in H[i] : w >= o[i],
         o[i] = i \/ RootOf(o)[new] = RootOf(o)[o[i]],
         NEW seen \in View, seen[i] = new, \A j \in Ids \ {i} : seen[j] = o[j]
  PROVE  /\ Sound(Extended(H, i, new), seen)
         /\ \A x, y \in Ids : RootOf(o)[x] = RootOf(o)[y] => RootOf(seen)[x] = RootOf(seen)[y]
<1> DEFINE G == Extended(H, i, new)
           R == RootOf(seen)
<1>0. /\ \A j \in Ids : o[j] \in H[j] /\ o[j] \in Ids /\ o[j] <= j
  BY DEF Sound, IsHistory, View
<1>1. /\ G[i] = H[i] \cup {new} /\ \A j \in Ids \ {i} : G[j] = H[j]
      /\ seen[i] = new /\ \A j \in Ids \ {i} : seen[j] = o[j]
      /\ seen \in View /\ G \in [Ids -> SUBSET Ids]
  BY DEF Extended, IsHistory, View
<1>2. new < i
  BY <1>0, IdsAreInts
<1> HIDE DEF G
<1>3. IsHistory(G) /\ \A j \in Ids : seen[j] \in G[j]
  BY <1>0, <1>1, <1>2, IdsAreInts DEF IsHistory
<1>4. /\ R \in [0..(Capacity - 1) -> Nat]
      /\ \A j \in Ids : R[seen[j]] = R[j]
  BY <1>1, <1>3, ViewRoots
<1> HIDE DEF R
<1>5. \A j \in Ids \ {i} : R[o[j]] = R[j]
  BY <1>1, <1>4
<1>6. R[o[i]] = R[i]
  <2>1. CASE o[i] = i
    BY <2>1
  <2>2. CASE o[i] # i
    <3>1. o[i] < i /\ RootOf(o)[new] = RootOf(o)[o[i]]
      BY <1>0, <2>2, IdsAreInts
    <3>2. \A j \in Ids : j < i => R[o[j]] = R[j]
      BY <1>5, IdsAreInts
    <3>3. i \in 0..Capacity
      BY Sizes
    <3>6. \A j \in Ids : o[j] \in H[j]
      BY <1>0
    <3>4. \A j \in Ids : j < i => R[RootOf(o)[j]] = R[j]
      BY <1>4, <3>2, <3>3, <3>6, KeptByView
    <3>5. R[new] = R[o[i]]
      BY <1>0, <1>2, <3>1, <3>4
    <3> QED
      BY <1>1, <1>4, <3>5
  <2> QED
    BY <2>1, <2>2
<1>7. Capacity \in 0..Capacity /\ \A j \in Ids : j < Capacity
  BY Sizes DEF Ids
<1>8. \A j \in Ids : R[RootOf(o)[j]] = R[j]
  <2>1. \A j \in Ids : j < Capacity => R[o[j]] = R[j]
    BY <1>5, <1>6
  <2>2. \A j \in Ids : o[j] \in H[j]
    BY <1>0
  <2>3. \A j \in Ids : j < Capacity => R[RootOf(o)[j]] = R[j]
    BY <1>4, <1>7, <2>1, <2>2, KeptByView
  <2> QED
    BY <1>7, <2>3
<1>9. \A x, y \in Ids : RootOf(o)[x] = RootOf(o)[y] => R[x] = R[y]
  BY <1>8
<1>10. ASSUME NEW j \in Ids, NEW w \in G[j], w >= seen[j]
       PROVE  R[w] = R[j]
  <2>1. CASE j = i /\ w = new
    BY <1>1, <1>4, <2>1
  <2>2. CASE w \in H[j] /\ w >= o[j]
    <3>1. w \in Ids /\ RootOf(o)[w] = RootOf(o)[j]
      BY <2>2 DEF Sound, IsHistory
    <3> QED
      BY <1>9, <3>1
  <2> QED
    BY <1>1, <1>10, <2>1, <2>2
<1> QED
  BY <1>3, <1>9, <1>10 DEF Sound, R, G

\* Splitting and linking extend the chain of values of a slot.
LEMMA ExtendedChained ==
  ASSUME NEW H, IsHistory(H), Chained(H),
         NEW i \in Ids, NEW new \in Ids, \A w \in H[i] : new < w,
         H[i] = {i} \/ \E x \in H[i] : x < i /\ new \in H[x]
  PROVE  Chained(Extended(H, i, new))
<1> DEFINE G == Extended(H, i, new)
<1>1. G[i] = H[i] \cup {new} /\ \A j \in Ids \ {i} : G[j] = H[j]
  BY DEF Extended, IsHistory
<1>2. \A j \in Ids : H[j] \subseteq Ids /\ H[j] \subseteq G[j]
  BY <1>1 DEF IsHistory
<1> HIDE DEF G
<1> SUFFICES ASSUME NEW j \in Ids, NEW w \in G[j], w # j
             PROVE  \/ \A u \in G[j] : u <= w \/ u = j
                    \/ \E x \in G[j] : w < x /\ x < j /\ w \in G[x]
  BY DEF Chained, G
<1>3. CASE j = i /\ w = new
  BY <1>1, <1>2, <1>3, IdsAreInts
<1>4. CASE w \in H[j]
  <2>1. CASE \A u \in H[j] : u <= w \/ u = j
    BY <1>1, <1>2, <1>4, <2>1, IdsAreInts
  <2>2. CASE \E x \in H[j] : w < x /\ x < j /\ w \in H[x]
    BY <1>2, <2>2
  <2> QED
    BY <1>4, <2>1, <2>2 DEF Chained
<1> QED
  BY <1>1, <1>3, <1>4

\* In a sound view no value of a slot, older or newer, has a larger root than its id.
LEMMA RootsBelow ==
  ASSUME NEW H, IsHistory(H), Chained(H), NEW v \in View, Sound(H, v)
  PROVE  \A i \in Ids : \A w \in H[i] : RootOf(v)[w] <= RootOf(v)[i]
<1> DEFINE R == RootOf(v)
<1>0. \A i \in Ids : v[i] \in H[i] /\ v[i] \in Ids /\ H[i] \subseteq Ids
  BY DEF Sound, View, IsHistory
<1>1. \A i \in Ids : R[i] \in Ids /\ R[i] <= i /\ (v[i] = i => R[i] = i)
  BY <1>0, ViewRoots
<1>2. \A i \in Ids : \A w \in H[i] : w >= v[i] => R[w] = R[i]
  BY DEF Sound
<1> HIDE DEF R
<1>3. Capacity \in Nat /\ Ids = 0..(Capacity - 1)
  BY Sizes DEF Ids
<1> DEFINE S == {i \in Ids : \A w \in H[i] : R[w] <= R[i]}
<1>4. ASSUME NEW i \in Ids, \A j \in Ids : j < i => j \in S
      PROVE  i \in S
  <2> DEFINE D == {d \in Ids : \A w \in H[i] : i - w = d => R[w] <= R[i]}
  <2>1. ASSUME NEW d \in Ids, \A e \in Ids : e < d => e \in D
        PROVE  d \in D
    <3> SUFFICES ASSUME NEW w \in H[i], i - w = d PROVE R[w] <= R[i]
      OBVIOUS
    <3>1. w \in Ids /\ R[w] \in Int /\ R[i] \in Int
      BY <1>0, <1>1, IdsAreInts
    <3>2. CASE w >= v[i]
      BY <1>2, <3>1, <3>2
    <3>3. CASE ~ (w >= v[i])
      <4>1. w < v[i] /\ v[i] <= i /\ w # i
        BY <1>0, <3>1, <3>3, IdsAreInts DEF IsHistory
      <4>2. CASE \A u \in H[i] : u <= w \/ u = i
        <5>1. v[i] = i
          BY <1>0, <3>1, <4>1, <4>2, IdsAreInts
        <5>2. R[i] = i /\ R[w] <= w
          BY <1>1, <3>1, <5>1
        <5> QED
          BY <3>1, <4>1, <5>1, <5>2, IdsAreInts
      <4>3. CASE \E x \in H[i] : w < x /\ x < i /\ w \in H[x]
        <5>1. PICK x \in H[i] : w < x /\ x < i /\ w \in H[x]
          BY <4>3
        <5>2. x \in Ids /\ i - x \in Ids /\ i - x < d
          BY <1>0, <1>3, <3>1, <5>1
        <5>3. R[x] <= R[i]
          BY <2>1, <5>2
        <5>4. R[w] <= R[x]
          BY <1>4, <5>1, <5>2
        <5> QED
          BY <1>1, <3>1, <5>2, <5>3, <5>4, IdsAreInts
      <4> QED
        BY <4>1, <4>2, <4>3 DEF Chained
    <3> QED
      BY <3>2, <3>3
  <2>2. \A d \in Ids : d \in D
    <3> HIDE DEF D
    <3> QED
      BY <1>3, <2>1, AllBelow
  <2>3. \A w \in H[i] : i - w \in Ids
    BY <1>0, <1>3 DEF IsHistory
  <2> QED
    BY <2>2, <2>3
<1>5. \A i \in Ids : i \in S
  <2> HIDE DEF S
  <2> QED
    BY <1>3, <1>4, AllBelow
<1> QED
  BY <1>5 DEF R

\* A view all of whose links are the only values of their slots.
LEMMA PublishedSound ==
  ASSUME NEW v \in View, \A i \in Ids : v[i] <= i, NEW H, H = [i \in Ids |-> {v[i]}]
  PROVE  IsHistory(H) /\ Sound(H, v) /\ Chained(H)
<1>1. IsHistory(H) /\ \A i \in Ids : v[i] \in H[i]
  BY DEF IsHistory, View
<1>2. \A i \in Ids : RootOf(v)[v[i]] = RootOf(v)[i]
  BY <1>1, ViewRoots
<1>3. Sound(H, v)
  BY <1>2 DEF Sound
<1>4. Chained(H)
  BY IdsAreInts DEF Chained, View
<1> QED
  BY <1>1, <1>3, <1>4

-----------------------------------------------------------------------------
(* Steps *)

\* The values in memory are a history, to which each slot's latest link belongs.
LEMMA HistoryOK ==
  ASSUME IInv
  PROVE  /\ IsHistory(History)
         /\ \A i \in Slots : /\ i \in Ids /\ History[i] = {m.val : m \in mem[i]}
                             /\ parent[i] \in History[i]
                             /\ \A w \in History[i] : parent[i] <= w
         /\ \A i \in Ids \ Slots : History[i] = {i}
<1>1. Slots \subseteq Ids
  BY SlotsAreIds DEF IInv, TypeOK
<1>2. \A i \in Slots : /\ mem[i] \subseteq [val : Slots, view : View]
                       /\ \E m \in mem[i] : m.val = parent[i]
                       /\ \A m \in mem[i] : parent[i] <= m.val /\ m.val <= i
  BY DEF IInv, TypeOK, SlotOK
<1>3. \A i \in Slots : History[i] = {m.val : m \in mem[i]}
  BY <1>1 DEF History
<1>4. \A i \in Ids \ Slots : History[i] = {i}
  BY DEF History
<1>5. \A i \in Slots : \A w \in History[i] : w \in Slots /\ w <= i /\ parent[i] <= w
  BY <1>2, <1>3
<1>6. \A i \in Ids : History[i] \subseteq Ids /\ \A w \in History[i] : w <= i
  BY <1>1, <1>4, <1>5, IdsAreInts
<1>7. IsHistory(History)
  <2>1. DOMAIN History = Ids /\ History = [i \in Ids |-> History[i]]
    BY DEF History
  <2> HIDE DEF History
  <2> QED
    BY <1>6, <2>1 DEF IsHistory
<1> QED
  BY <1>1, <1>2, <1>3, <1>4, <1>5, <1>7

\* What a call relies on is not disturbed by a step of another thread: slots only gain
\* newer values.
LEMMA OtherKnows ==
  ASSUME IInv, NEW u \in Threads, KnowsOK(u),
         view'[u] = view[u], pc'[u] = pc[u], op'[u] = op[u], reg'[u] = reg[u],
         copy'[u] = copy[u], start'[u] = start[u], len' = len,
         History' = History \/ \E i \in Ids, new \in Ids :
           (\A w \in History[i] : new < w) /\ History' = Extended(History, i, new)
  PROVE  KnowsOK(u)'
<1>1. IsHistory(History) /\ start[u] \in View
  BY HistoryOK DEF IInv, TypeOK
<1>2. Sound(History, start[u]) => Sound(History', start[u])
  BY <1>1, OlderSound
<1>3. \A i \in Ids : History[i] \subseteq History'[i]
  BY <1>1 DEF Extended, IsHistory
<1>4. /\ pc[u] \in {"grand", "split"} => reg[u].cur \in Ids /\ reg[u].next \in Ids
      /\ pc[u] \in {"copy", "done"} /\ op[u].kind = "copy" =>
           (reg[u].cur <= len => \A i \in 0..(reg[u].cur - 1) : i \in Ids)
  <2>1. Slots \subseteq Ids /\ CallOK(u) /\ reg[u].cur \in 0..Capacity /\ len \in 1..Capacity
    BY SlotsAreIds DEF IInv, TypeOK
  <2>2. pc[u] \in {"grand", "split"} => reg[u].cur \in Ids /\ reg[u].next \in Ids
    BY <2>1 DEF CallOK
  <2>3. \A i \in 0..(reg[u].cur - 1) : i \in Ids
    BY <2>1, Sizes DEF Ids
  <2> QED
    BY <2>2, <2>3
<1>5. StartKnown(u)'
  BY <1>2 DEF KnowsOK, StartKnown, Below
<1>6. LinksKnown(u)'
  BY <1>3, <1>4 DEF KnowsOK, LinksKnown
<1>7. ClassKnown(u)'
  BY DEF KnowsOK, ClassKnown, Linked, Target
<1>8. CopyKnown(u)'
  BY <1>3, <1>4 DEF KnowsOK, CopyKnown
<1> QED
  BY <1>5, <1>6, <1>7, <1>8 DEF KnowsOK

\* A thread's view moves down to another sound view.
LEMMA ViewMoves ==
  ASSUME IInv, ViewsOK, Chained(History), UNCHANGED memory, NEW t \in Threads,
         NEW v \in View, view' = [view EXCEPT ![t] = v], Sound(History, v), Below(v, view[t])
  PROVE  /\ History' = History /\ Chained(History') /\ ViewsOK'
         /\ view'[t] = v
         /\ \A u \in Threads \ {t} : view'[u] = view[u]
         /\ \A x, y \in Ids : Linked(t, x, y) => RootOf(v)[x] = RootOf(v)[y]
<1>1. History' = History /\ Slots' = Slots /\ mem' = mem
  BY DEF History, memory, Slots
<1>2. view'[t] = v /\ \A u \in Threads \ {t} : view'[u] = view[u]
  BY DEF IInv, TypeOK
<1>3. \A u \in Threads : Sound(History, view'[u])
  BY <1>2 DEF ViewsOK
<1>4. ASSUME NEW i \in Slots, NEW m \in mem[i], m.val = i, NEW u \in Threads
      PROVE  Below(view'[u], m.view)
  <2>1. m \in [val : Slots, view : View] /\ view[u] \in View /\ view[t] \in View
    BY <1>4 DEF IInv, TypeOK
  <2>2. \A j \in Ids : m.view[j] \in Int /\ view[u][j] \in Int /\ view[t][j] \in Int
                       /\ v[j] \in Int
    BY <2>1, IdsAreInts DEF View
  <2>3. Below(view[u], m.view) /\ Below(view[t], m.view)
    BY <1>4 DEF ViewsOK
  <2> QED
    BY <1>2, <2>2, <2>3 DEF Below
<1>5. ViewsOK'
  BY <1>1, <1>3, <1>4 DEF ViewsOK
<1>6. ASSUME NEW x \in Ids, NEW y \in Ids, Linked(t, x, y)
      PROVE  RootOf(v)[x] = RootOf(v)[y]
  <2>1. view[t] \in View /\ \A i \in Ids : view[t][i] \in History[i]
    BY DEF IInv, TypeOK, ViewsOK, Sound
  <2>2. IsHistory(History)
    BY HistoryOK
  <2> QED
    BY <1>6, <2>1, <2>2, Coarser DEF Linked
<1> QED
  BY <1>1, <1>2, <1>5, <1>6

\* What a load tells the thread.
LEMMA LoadKnows ==
  ASSUME IInv, ~Scoped, ViewsOK, NEW t \in Threads, NEW i \in Slots, NEW m \in Visible(t, i)
  PROVE  /\ Observe(t, i, m) \in View
         /\ Sound(History, Observe(t, i, m)) /\ Below(Observe(t, i, m), view[t])
         /\ m.val \in History[i] /\ Observe(t, i, m)[i] <= m.val /\ m.val <= view[t][i]
         /\ RootOf(Observe(t, i, m))[m.val] = RootOf(Observe(t, i, m))[i]
         /\ m.val = i => Observe(t, i, m) = view[t] /\ view[t][i] = i
<1>1. /\ m \in mem[i] /\ m.val <= view[t][i] /\ m \in [val : Slots, view : View]
      /\ m.view \in View /\ view[t] \in View
  BY DEF Visible, IInv, TypeOK
<1>2. i \in Ids /\ m.val \in Ids /\ m.val \in History[i] /\ IsHistory(History) /\ m.val <= i
  <2>1. Slots \subseteq Ids
    BY SlotsAreIds DEF IInv, TypeOK
  <2>2. m.val \in Slots /\ m.val <= i
    BY <1>1 DEF IInv, SlotOK
  <2>3. m.val \in History[i] /\ IsHistory(History)
    BY <1>1, HistoryOK
  <2> QED
    BY <2>1, <2>2, <2>3
<1>3. Sound(History, m.view) /\ m.view[i] = m.val /\ Sound(History, view[t])
  BY <1>1 DEF ViewsOK
<1> DEFINE v == Join(view[t], m.view)
<1>4. Observe(t, i, m) = v /\ v \in View
  BY <1>1, JoinIsView DEF Observe
<1>5. Sound(History, v)
  BY <1>1, <1>2, <1>3, JoinSound
<1>6. \A j \in Ids : /\ v[j] = Smallest(view[t][j], m.view[j])
                     /\ view[t][j] \in Int /\ m.view[j] \in Int
  BY <1>1, IdsAreInts DEF Join, View
<1> HIDE DEF v
<1>7. Below(v, view[t]) /\ v[i] <= m.val
  BY <1>2, <1>3, <1>6 DEF Below, Smallest
<1>8. v[i] \in Int /\ m.val \in Int
  BY <1>2, <1>4, IdsAreInts DEF View
<1>9. RootOf(v)[m.val] = RootOf(v)[i]
  BY <1>2, <1>5, <1>7, <1>8 DEF Sound
<1>10. m.val = i => v = view[t] /\ view[t][i] = i
  <2> SUFFICES ASSUME m.val = i PROVE v = view[t] /\ view[t][i] = i
    OBVIOUS
  <2>1. Below(view[t], m.view)
    BY <1>1 DEF ViewsOK
  <2>2. \A j \in Ids : v[j] = view[t][j]
    BY <1>6, <2>1 DEF Below, Smallest
  <2>3. view[t][i] <= i /\ view[t][i] \in Int
    BY <1>2, <1>3, <1>6 DEF Sound, IsHistory
  <2> QED
    BY <1>1, <1>2, <1>4, <2>2, <2>3, IdsAreInts DEF View
<1> QED
  BY <1>1, <1>2, <1>4, <1>5, <1>7, <1>9, <1>10

\* A view below a view below a third is below it.
LEMMA BelowBelow ==
  ASSUME NEW a \in View, NEW b \in View, NEW c \in View, Below(a, b), Below(b, c)
  PROVE  Below(a, c)
<1>1. \A i \in Ids : a[i] \in Int /\ b[i] \in Int /\ c[i] \in Int
  BY IdsAreInts DEF View
<1> QED
  BY <1>1 DEF Below

\* A step of one thread.
LEMMA ThreadKnow ==
  ASSUME IInv, Know, NEW t \in Threads, len' = len, Chained(History'), ViewsOK', KnowsOK(t)',
         \A u \in Threads \ {t} :
           /\ view'[u] = view[u] /\ pc'[u] = pc[u] /\ op'[u] = op[u] /\ reg'[u] = reg[u]
           /\ copy'[u] = copy[u] /\ start'[u] = start[u],
         History' = History \/ \E i \in Ids, new \in Ids :
           (\A w \in History[i] : new < w) /\ History' = Extended(History, i, new)
  PROVE  Know'
<1>1. ASSUME NEW u \in Threads \ {t} PROVE KnowsOK(u)'
  BY OtherKnows DEF Know
<1> QED
  BY <1>1 DEF Know

\* A thread outside of the array knows nothing that could be disturbed.
LEMMA OutsideKnows ==
  ASSUME NEW t \in Threads, pc'[t] \in {"idle", "access", "claim", "drain"},
         copy'[t] = <<>>, op'[t].kind = "copy" => op'[t].l = 0
  PROVE  KnowsOK(t)'
BY DEF KnowsOK, StartKnown, LinksKnown, ClassKnown, CopyKnown, Inside

\* A call begins, perhaps with the view of another thread.
LEMMA BeginKnow ==
  ASSUME IInv, Know, ~Scoped, NEW t \in Threads, Begin(t)
  PROVE  Know'
<1>1. PICK u \in Threads : view' = [view EXCEPT ![t] = Join(view[t], view[u])]
  BY DEF Begin
<1>2. /\ UNCHANGED <<memory, wlock, reg, copy, start>>
      /\ pc[t] = "idle" /\ pc'[t] \in {"access", "claim"}
      /\ op'[t].kind = "copy" => op'[t].l = 0
      /\ \A x \in Threads \ {t} : pc'[x] = pc[x] /\ op'[x] = op[x]
  BY DEF Begin, IInv, TypeOK
<1> DEFINE v == Join(view[t], view[u])
<1>3. v \in View /\ view[t] \in View /\ view[u] \in View
  BY JoinIsView DEF IInv, TypeOK
<1>4. Sound(History, v)
  BY <1>3, HistoryOK, JoinSound DEF Know, ViewsOK
<1>5. Below(v, view[t])
  BY <1>3, IdsAreInts DEF Below, Join, Smallest, View
<1> HIDE DEF v
<1>6. /\ History' = History /\ Chained(History') /\ ViewsOK'
      /\ \A x \in Threads \ {t} : view'[x] = view[x]
  BY <1>1, <1>2, <1>3, <1>4, <1>5, ViewMoves DEF Know, v
<1>7. KnowsOK(t)'
  BY <1>2, OutsideKnows DEF Know, KnowsOK, CopyKnown
<1> QED
  BY <1>2, <1>6, <1>7, ThreadKnow DEF memory

\* Steps that leave memory and views alone.
LEMMA QuietViews ==
  ASSUME Know, UNCHANGED <<memory, view>>
  PROVE  History' = History /\ Chained(History') /\ ViewsOK' /\ len' = len
<1>1. History' = History /\ Slots' = Slots /\ mem' = mem /\ view' = view /\ len' = len
  BY DEF History, memory, Slots
<1> QED
  BY <1>1 DEF Know, ViewsOK

\* Waiting for the lock, and returning.
LEMMA OutsideKnow ==
  ASSUME IInv, Know, NEW t \in Threads, Claim(t) \/ Return(t)
  PROVE  Know'
<1>1. /\ UNCHANGED <<memory, view>> /\ pc'[t] \in {"drain", "idle"}
      /\ \A u \in Threads \ {t} : /\ pc'[u] = pc[u] /\ op'[u] = op[u] /\ reg'[u] = reg[u]
                                 /\ copy'[u] = copy[u] /\ start'[u] = start[u]
  BY DEF Claim, Return, IInv, TypeOK
<1>2. copy'[t] = <<>> /\ (op'[t].kind = "copy" => op'[t].l = 0)
  BY DEF Claim, Return, IInv, TypeOK, NoOp, Know, KnowsOK, CopyKnown
<1>3. KnowsOK(t)'
  BY <1>1, <1>2, OutsideKnows
<1> QED
  BY <1>1, <1>3, QuietViews, ThreadKnow

\* A call gets its reader: what it is bound to know is its view.
LEMMA AccessKnow ==
  ASSUME IInv, Know, NEW t \in Threads, Access(t)
  PROVE  Know'
<1>1. /\ UNCHANGED <<memory, view, op, copy>> /\ pc[t] = "access"
      /\ \A u \in Threads \ {t} : pc'[u] = pc[u] /\ reg'[u] = reg[u] /\ start'[u] = start[u]
  BY DEF Access, IInv, TypeOK
<1>2. /\ History' = History /\ Chained(History') /\ ViewsOK' /\ len' = len
  BY <1>1, QuietViews
<1>3. CASE ~(len >= Needed(t))
  <2>1. pc'[t] = "claim"
    BY <1>3 DEF Access, IInv, TypeOK
  <2>2. KnowsOK(t)'
    BY <1>1, <2>1, OutsideKnows DEF Know, KnowsOK, CopyKnown
  <2> QED
    BY <1>1, <1>2, <2>2, ThreadKnow
<1>4. CASE len >= Needed(t)
  <2>1. /\ pc'[t] = IF op[t].kind = "copy" THEN "copy" ELSE "next"
        /\ reg'[t] = [NoReg EXCEPT !.l = op[t].l, !.r = op[t].r, !.cur = op[t].l]
        /\ start'[t] = view[t]
    BY <1>4 DEF Access, IInv, TypeOK
  <2>2. /\ reg'[t].l = op[t].l /\ reg'[t].r = op[t].r /\ reg'[t].cur = op[t].l
        /\ reg'[t].side = "l"
    BY <2>1 DEF NoReg
  <2>3. StartKnown(t)'
    <3>1. view[t] \in View
      BY DEF IInv, TypeOK
    <3>2. Below(view[t], view[t])
      BY <3>1, IdsAreInts DEF Below, View
    <3>3. Sound(History, view[t])
      BY DEF Know, ViewsOK
    <3> QED
      BY <1>1, <1>2, <2>1, <3>2, <3>3 DEF StartKnown
  <2>4. LinksKnown(t)'
    BY <2>1 DEF LinksKnown
  <2>5. ClassKnown(t)'
    BY <1>1, <2>1, <2>2 DEF ClassKnown, Linked, Target
  <2>6. CopyKnown(t)'
    <3>1. copy[t] = <<>> /\ (op[t].kind = "copy" => op[t].l = 0)
      BY <1>1 DEF Know, KnowsOK, CopyKnown
    <3>2. Len(copy[t]) = 0
      BY <3>1
    <3>3. len \in Nat
      BY Sizes DEF IInv, TypeOK
    <3> QED
      BY <1>1, <1>2, <2>1, <2>2, <3>1, <3>2, <3>3 DEF CopyKnown
  <2>7. KnowsOK(t)'
    BY <2>3, <2>4, <2>5, <2>6 DEF KnowsOK
  <2> QED
    BY <1>1, <1>2, <2>7, ThreadKnow
<1> QED
  BY <1>3, <1>4

\* After a load: memory as before, the thread's view sound and no older, and everything it
\* knew to be joined still joined.
LEMMA LoadKnow ==
  ASSUME IInv, Know, ~Scoped, NEW t \in Threads, NEW i \in Slots, NEW m \in Visible(t, i),
         view' = [view EXCEPT ![t] = Observe(t, i, m)], UNCHANGED <<memory, op, start>>,
         pc[t] \in Inside
  PROVE  /\ History' = History /\ Chained(History') /\ ViewsOK' /\ len' = len
         /\ \A u \in Threads \ {t} : view'[u] = view[u]
         /\ \A x, y \in Ids : Linked(t, x, y) => Linked(t, x, y)'
         /\ \A x \in Ids : view'[t][x] <= view[t][x] /\ view'[t][x] \in Int /\ view[t][x] \in Int
         /\ Linked(t, m.val, i)' /\ m.val \in History[i] /\ m.val \in Ids
         /\ view'[t][i] <= m.val /\ m.val <= view[t][i]
         /\ StartKnown(t)'
<1>1. /\ Observe(t, i, m) \in View
      /\ Sound(History, Observe(t, i, m)) /\ Below(Observe(t, i, m), view[t])
      /\ m.val \in History[i] /\ Observe(t, i, m)[i] <= m.val /\ m.val <= view[t][i]
      /\ RootOf(Observe(t, i, m))[m.val] = RootOf(Observe(t, i, m))[i]
      /\ m.val = i => Observe(t, i, m) = view[t] /\ view[t][i] = i
  BY LoadKnows DEF Know
<1>2. PICK v \in View : v = Observe(t, i, m)
  BY <1>1
<1>3. /\ History' = History /\ Chained(History') /\ ViewsOK'
      /\ view'[t] = v
      /\ \A u \in Threads \ {t} : view'[u] = view[u]
      /\ \A x, y \in Ids : Linked(t, x, y) => RootOf(v)[x] = RootOf(v)[y]
  BY <1>1, <1>2, ViewMoves DEF Know
<1>4. len' = len /\ m.val \in Ids /\ view[t] \in View /\ start[t] \in View
  BY <1>1, HistoryOK, SlotsAreIds DEF memory, IInv, TypeOK, IsHistory
<1>5. \A x \in Ids : v[x] <= view[t][x] /\ v[x] \in Int /\ view[t][x] \in Int
  BY <1>1, <1>2, <1>4, IdsAreInts DEF Below, View
<1>6. Sound(History, start[t]) /\ Below(view[t], start[t])
  BY DEF Know, KnowsOK, StartKnown
<1>7. Below(v, start[t])
  BY <1>1, <1>2, <1>4, <1>6, BelowBelow
<1>8. StartKnown(t)'
  BY <1>3, <1>6, <1>7 DEF StartKnown
<1> QED
  BY <1>1, <1>2, <1>3, <1>4, <1>5, <1>8 DEF Linked

\* A load of an id from its own slot tells the thread nothing new: the id is a root of its view.
LEMMA RootLoad ==
  ASSUME IInv, Know, ~Scoped, NEW t \in Threads, NEW i \in Slots, NEW m \in Visible(t, i),
         view' = [view EXCEPT ![t] = Observe(t, i, m)], m.val = i
  PROVE  view'[t] = view[t] /\ view[t][i] = i
<1>1. Observe(t, i, m) = view[t] /\ view[t][i] = i
  BY LoadKnows DEF Know
<1>2. view \in [Threads -> View]
  BY DEF IInv, TypeOK
<1> QED
  BY <1>1, <1>2

\* find_impl loads a parent.
LEMMA FindNextKnow ==
  ASSUME IInv, Know, ~Scoped, NEW t \in Threads, FindNext(t)
  PROVE  Know'
<1> USE DEF FindNext
<1>1. /\ op[t] \in OpType /\ reg \in [Threads -> RegType] /\ pc \in [Threads -> PcType]
      /\ CallOK(t) /\ Slots \subseteq Ids /\ pc[t] \in Inside
  BY SlotsAreIds DEF IInv, TypeOK, OpType, RegType, PcType, Inside
<1>2. reg[t].cur \in Slots /\ op[t].kind # "copy" /\ Target(t) \in Ids
  BY <1>1 DEF CallOK, Target, OpType
<1>3. PICK m \in Visible(t, reg[t].cur) :
        /\ reg' = [reg EXCEPT ![t].next = m.val]
        /\ view' = [view EXCEPT ![t] = Observe(t, reg[t].cur, m)]
  OBVIOUS
<1>4. /\ History' = History /\ Chained(History') /\ ViewsOK' /\ len' = len
      /\ \A u \in Threads \ {t} : view'[u] = view[u]
      /\ \A x, y \in Ids : Linked(t, x, y) => Linked(t, x, y)'
      /\ m.val \in History[reg[t].cur] /\ m.val \in Ids /\ view'[t][reg[t].cur] <= m.val
      /\ StartKnown(t)'
  BY <1>1, <1>2, <1>3, LoadKnow
<1>5. reg'[t] = [reg[t] EXCEPT !.next = m.val] /\ pc'[t] = "grand"
  BY <1>1, <1>3
<1>6. /\ reg'[t].next = m.val /\ reg'[t].cur = reg[t].cur /\ reg'[t].l = reg[t].l
      /\ reg'[t].r = reg[t].r /\ reg'[t].side = reg[t].side
  BY <1>1, <1>5 DEF RegType
<1>7. LinksKnown(t)'
  BY <1>4, <1>5, <1>6 DEF LinksKnown
<1>8. ClassKnown(t)'
  <2>1. reg[t].l \in Ids /\ reg[t].r \in Ids /\ op[t].l \in Ids /\ op[t].r \in Ids
    BY <1>1 DEF RegType, OpType
  <2>2. Target(t)' = Target(t)
    BY <1>6 DEF Target
  <2>3. ClassKnown(t)
    BY DEF Know, KnowsOK
  <2> QED
    BY <1>1, <1>2, <1>4, <1>5, <1>6, <2>1, <2>2, <2>3 DEF ClassKnown, Linked
<1>9. CopyKnown(t)'
  BY <1>2, <1>5 DEF CopyKnown, Know, KnowsOK
<1>10. KnowsOK(t)'
  BY <1>4, <1>7, <1>8, <1>9 DEF KnowsOK
<1> QED
  BY <1>1, <1>3, <1>4, <1>10, ThreadKnow

\* The links a call holds join their ends in its view.
LEMMA HeldLinks ==
  ASSUME IInv, Know, NEW t \in Threads, pc[t] \in {"grand", "split"}
  PROVE  /\ Linked(t, reg[t].next, reg[t].cur)
         /\ pc[t] = "split" => Linked(t, reg[t].grand, reg[t].next)
<1>1. reg[t].cur \in Ids /\ reg[t].next \in Ids /\ reg[t].grand \in Ids /\ view[t] \in View
  BY SlotsAreIds DEF IInv, TypeOK, CallOK
<1>2. /\ reg[t].next \in History[reg[t].cur] /\ view[t][reg[t].cur] <= reg[t].next
      /\ pc[t] = "split" => /\ reg[t].grand \in History[reg[t].next]
                            /\ view[t][reg[t].next] <= reg[t].grand
  BY DEF Know, KnowsOK, LinksKnown
<1>3. /\ reg[t].next >= view[t][reg[t].cur]
      /\ pc[t] = "split" => reg[t].grand >= view[t][reg[t].next]
  BY <1>1, <1>2, IdsAreInts DEF View
<1> QED
  BY <1>1, <1>2, <1>3 DEF Know, ViewsOK, Sound, Linked

\* A find ends at a root x of the thread's view.
LEMMA FoundKnow ==
  ASSUME IInv, Know, NEW t \in Threads, NEW x \in Ids, pc[t] = "grand", Found(t, x),
         view'[t] = view[t], view[t][x] = x, Linked(t, x, Target(t)),
         UNCHANGED <<op, copy>>
  PROVE  LinksKnown(t)' /\ ClassKnown(t)' /\ CopyKnown(t)'
<1> USE DEF Found
<1>1. /\ op[t] \in OpType /\ reg \in [Threads -> RegType] /\ pc \in [Threads -> PcType]
      /\ CallOK(t) /\ op[t].kind \notin {"copy", "none", "reset"}
      /\ op[t].kind = "find" => op[t].l = op[t].r
  BY DEF IInv, TypeOK, OpType, RegType, PcType, CallOK, Inside
<1>2. op[t].kind \in {"find", "same_set"} =>
        Linked(t, reg[t].l, op[t].l) /\ Linked(t, reg[t].r, op[t].r)
  BY DEF Know, KnowsOK, ClassKnown, Inside
<1>3. CASE reg[t].side = "l" /\ op[t].kind # "find"
  <2>1. /\ reg'[t] = [NoReg EXCEPT !.side = "r", !.l = x, !.r = reg[t].r, !.cur = reg[t].r]
        /\ pc'[t] = "next"
    BY <1>1, <1>3
  <2>2. reg'[t].side = "r" /\ reg'[t].l = x /\ reg'[t].r = reg[t].r /\ reg'[t].cur = reg[t].r
    BY <2>1 DEF NoReg
  <2>3. LinksKnown(t)'
    BY <2>1 DEF LinksKnown
  <2>4. ClassKnown(t)'
    BY <1>2, <1>3, <2>1, <2>2 DEF ClassKnown, Linked, Target
  <2>5. CopyKnown(t)'
    BY <1>1, <2>1 DEF CopyKnown, Know, KnowsOK
  <2> QED
    BY <2>3, <2>4, <2>5
<1>4. CASE ~(reg[t].side = "l" /\ op[t].kind # "find")
  <2> DEFINE l == IF op[t].kind = "find" THEN x ELSE reg[t].l
  <2>1. /\ reg'[t] = [NoReg EXCEPT !.l = l, !.r = x]
        /\ pc'[t] = AfterFinds(t, l, x)
    BY <1>1, <1>4
  <2>2. reg'[t].l = l /\ reg'[t].r = x
    BY <2>1 DEF NoReg
  <2>3. /\ pc'[t] \in {"done", "link", "check"}
        /\ op[t].kind = "find" => pc'[t] = "done"
        /\ pc'[t] = "done" /\ op[t].kind = "same_set" => l = x
    BY <2>1 DEF AfterFinds
  <2>4. op[t].kind \in {"find", "same_set"} => Linked(t, x, op[t].r) /\ Linked(t, l, op[t].l)
    BY <1>1, <1>2, <1>4 DEF Target, RegType
  <2>5. LinksKnown(t)'
    BY <2>3 DEF LinksKnown
  <2>6. ClassKnown(t)'
    BY <2>2, <2>3, <2>4 DEF ClassKnown, Linked
  <2>7. CopyKnown(t)'
    BY <1>1, <2>3 DEF CopyKnown, Know, KnowsOK
  <2> QED
    BY <2>5, <2>6, <2>7
<1> QED
  BY <1>3, <1>4

\* find_impl loads a grandparent.
LEMMA FindGrandKnow ==
  ASSUME IInv, Know, ~Scoped, NEW t \in Threads, FindGrand(t)
  PROVE  Know'
<1>0. pc[t] = "grand" /\ UNCHANGED <<memory, op, start>> /\ UNCHANGED copy
  BY DEF FindGrand
<1> USE <1>0
<1>1. /\ op[t] \in OpType /\ reg \in [Threads -> RegType] /\ pc \in [Threads -> PcType]
      /\ CallOK(t) /\ Slots \subseteq Ids /\ pc[t] \in Inside
  BY SlotsAreIds DEF IInv, TypeOK, OpType, RegType, PcType, Inside
<1>2. /\ reg[t].next \in Slots /\ reg[t].cur \in Slots /\ op[t].kind # "copy"
      /\ Target(t) \in Ids
  BY <1>1 DEF CallOK, Target, OpType
<1>3. PICK m \in Visible(t, reg[t].next) :
        /\ view' = [view EXCEPT ![t] = Observe(t, reg[t].next, m)]
        /\ IF m.val = reg[t].next
           THEN Found(t, reg[t].next)
           ELSE /\ reg' = [reg EXCEPT ![t].grand = m.val]
                /\ pc' = [pc EXCEPT ![t] = "split"]
  BY DEF FindGrand
<1>8. view' = [view EXCEPT ![t] = Observe(t, reg[t].next, m)]
  BY <1>3
<1>4. /\ History' = History /\ Chained(History') /\ ViewsOK' /\ len' = len
      /\ \A u \in Threads \ {t} : view'[u] = view[u]
      /\ \A x, y \in Ids : Linked(t, x, y) => Linked(t, x, y)'
      /\ \A x \in Ids : view'[t][x] <= view[t][x] /\ view'[t][x] \in Int /\ view[t][x] \in Int
      /\ m.val \in History[reg[t].next] /\ view'[t][reg[t].next] <= m.val
      /\ StartKnown(t)'
  BY <1>0, <1>1, <1>2, <1>8, LoadKnow
<1>5. Linked(t, reg[t].next, reg[t].cur)
  BY HeldLinks
<1>6. CASE m.val = reg[t].next
  <2>1. op[t].kind \in {"find", "same_set"} => Linked(t, reg[t].cur, Target(t))
    BY <1>1 DEF Know, KnowsOK, ClassKnown
  <2>2. \A u \in Threads \ {t} : pc'[u] = pc[u] /\ reg'[u] = reg[u]
    BY <1>1, <1>3, <1>6 DEF Found
  <2>3. CASE op[t].kind \in {"find", "same_set"}
    <3>1. Linked(t, reg[t].next, Target(t))
      BY <1>5, <2>1, <2>3 DEF Linked
    <3>2. view'[t] = view[t] /\ view[t][reg[t].next] = reg[t].next
      BY <1>2, <1>6, <1>8, RootLoad
    <3>3. LinksKnown(t)' /\ ClassKnown(t)' /\ CopyKnown(t)'
      BY <1>1, <1>2, <1>3, <1>6, <3>1, <3>2, FoundKnow
    <3> QED
      BY <1>4, <2>2, <3>3, ThreadKnow DEF KnowsOK
  <2>4. CASE op[t].kind \notin {"find", "same_set"}
    <3>1. pc'[t] \in {"next", "done", "link", "check"}
      BY <1>1, <1>3, <1>6 DEF Found, AfterFinds
    <3>2. LinksKnown(t)' /\ ClassKnown(t)'
      BY <2>4, <3>1 DEF LinksKnown, ClassKnown
    <3>3. CopyKnown(t)'
      BY <1>2, <3>1 DEF CopyKnown, Know, KnowsOK
    <3> QED
      BY <1>4, <2>2, <3>2, <3>3, ThreadKnow DEF KnowsOK
  <2> QED
    BY <2>3, <2>4
<1>7. CASE m.val # reg[t].next
  <2>1. reg'[t] = [reg[t] EXCEPT !.grand = m.val] /\ pc'[t] = "split"
    BY <1>1, <1>3, <1>7
  <2>2. /\ reg'[t].grand = m.val /\ reg'[t].cur = reg[t].cur /\ reg'[t].l = reg[t].l
        /\ reg'[t].r = reg[t].r /\ reg'[t].side = reg[t].side /\ reg'[t].next = reg[t].next
    BY <1>1, <2>1 DEF RegType
  <2>3. LinksKnown(t)'
    <3>1. reg[t].next \in History[reg[t].cur] /\ view[t][reg[t].cur] <= reg[t].next
      BY DEF Know, KnowsOK, LinksKnown
    <3>2. view'[t][reg[t].cur] <= reg[t].next
      BY <1>1, <1>2, <1>4, <3>1, IdsAreInts
    <3> QED
      BY <1>4, <2>1, <2>2, <3>1, <3>2 DEF LinksKnown
  <2>4. ClassKnown(t)'
    <3>1. /\ reg[t].l \in Ids /\ reg[t].r \in Ids /\ op[t].l \in Ids /\ op[t].r \in Ids
          /\ Target(t)' = Target(t) /\ ClassKnown(t)
      BY <1>1, <2>2 DEF RegType, OpType, Target, Know, KnowsOK
    <3> QED
      BY <1>1, <1>2, <1>4, <2>1, <2>2, <3>1 DEF ClassKnown, Linked
  <2>5. CopyKnown(t)'
    BY <1>2, <2>1 DEF CopyKnown, Know, KnowsOK
  <2>6. \A u \in Threads \ {t} : pc'[u] = pc[u] /\ reg'[u] = reg[u]
    BY <1>1, <1>3, <1>7
  <2> QED
    BY <1>4, <2>3, <2>4, <2>5, <2>6, ThreadKnow DEF KnowsOK
<1> QED
  BY <1>6, <1>7

\* same_set loads the left root again: if it is still its own parent, both roots are roots of
\* one view.
LEMMA CheckKnow ==
  ASSUME IInv, Know, ~Scoped, NEW t \in Threads, Check(t)
  PROVE  Know'
<1>0. pc[t] = "check" /\ UNCHANGED <<memory, op, start>> /\ UNCHANGED copy
  BY DEF Check
<1> USE <1>0
<1>1. /\ op[t] \in OpType /\ reg \in [Threads -> RegType] /\ pc \in [Threads -> PcType]
      /\ CallOK(t) /\ Slots \subseteq Ids /\ pc[t] \in Inside
  BY SlotsAreIds DEF IInv, TypeOK, OpType, RegType, PcType, Inside
<1>2. reg[t].l \in Slots /\ op[t].kind = "same_set"
  BY <1>1 DEF CallOK
<1>3. PICK m \in Visible(t, reg[t].l) :
        /\ view' = [view EXCEPT ![t] = Observe(t, reg[t].l, m)]
        /\ IF m.val = reg[t].l
           THEN pc' = [pc EXCEPT ![t] = "done"] /\ reg' = reg
           ELSE Again(t)
  BY DEF Check
<1>9. view' = [view EXCEPT ![t] = Observe(t, reg[t].l, m)]
  BY <1>3
<1>4. /\ History' = History /\ Chained(History') /\ ViewsOK' /\ len' = len
      /\ \A u \in Threads \ {t} : view'[u] = view[u]
      /\ \A x, y \in Ids : Linked(t, x, y) => Linked(t, x, y)'
      /\ StartKnown(t)'
  BY <1>0, <1>1, <1>2, <1>9, LoadKnow
<1>5. /\ reg[t].l \in Ids /\ reg[t].r \in Ids /\ op[t].l \in Ids /\ op[t].r \in Ids
      /\ Linked(t, reg[t].l, op[t].l) /\ Linked(t, reg[t].r, op[t].r)
      /\ view[t][reg[t].r] = reg[t].r
  BY <1>1, <1>2 DEF RegType, OpType, Know, KnowsOK, ClassKnown
<1>6. \A u \in Threads \ {t} : pc'[u] = pc[u] /\ reg'[u] = reg[u]
  BY <1>1, <1>3 DEF Again
<1>7. CASE m.val = reg[t].l
  <2>1. pc'[t] = "done" /\ reg' = reg
    BY <1>1, <1>3, <1>7
  <2>2. LinksKnown(t)' /\ CopyKnown(t)'
    BY <1>2, <2>1 DEF LinksKnown, CopyKnown
  <2>3. view'[t] = view[t] /\ view[t][reg[t].l] = reg[t].l
    BY <1>2, <1>7, <1>9, RootLoad
  <2>4. ClassKnown(t)'
    BY <1>2, <1>5, <2>1, <2>3 DEF ClassKnown, Linked
  <2> QED
    BY <1>4, <1>6, <2>2, <2>4, ThreadKnow DEF KnowsOK
<1>8. CASE m.val # reg[t].l
  <2>1. /\ reg'[t] = [reg[t] EXCEPT !.side = "l", !.cur = reg[t].l]
        /\ pc'[t] = "next"
    BY <1>1, <1>3, <1>8 DEF Again
  <2>2. /\ reg'[t].cur = reg[t].l /\ reg'[t].l = reg[t].l
        /\ reg'[t].r = reg[t].r /\ reg'[t].side = "l"
    BY <1>1, <2>1 DEF RegType
  <2>3. LinksKnown(t)'
    BY <2>1 DEF LinksKnown
  <2>4. CopyKnown(t)'
    BY <1>2, <2>1 DEF CopyKnown, Know, KnowsOK
  <2>5. ClassKnown(t)'
    BY <1>2, <1>4, <1>5, <2>1, <2>2 DEF ClassKnown, Linked, Target
  <2> QED
    BY <1>4, <1>6, <2>3, <2>4, <2>5, ThreadKnow DEF KnowsOK
<1> QED
  BY <1>7, <1>8

\* A compare-exchange replaces the latest link of a slot by a smaller one: an older parent of
\* that link which the thread is bound to know, or, at a root, any smaller id.
LEMMA SwapKnow ==
  ASSUME IInv, Know, ~Scoped, NEW t \in Threads, NEW i \in Slots, NEW new \in Slots,
         Swap(t, i, new), UNCHANGED <<len, op, start>>, pc[t] \in Inside, pc'[t] \in Inside,
         new < parent[i],
         parent[i] # i => new \in History[parent[i]] /\ view[t][parent[i]] <= new
  PROVE  /\ History' = Extended(History, i, new) /\ (\A w \in History[i] : new < w)
         /\ Chained(History') /\ ViewsOK' /\ StartKnown(t)'
         /\ \A u \in Threads \ {t} : view'[u] = view[u]
         /\ \A x, y \in Ids : Linked(t, x, y) => Linked(t, x, y)'
<1>1. /\ Slots \subseteq Ids /\ mem \in [Slots -> SUBSET [val : Slots, view : View]]
      /\ view \in [Threads -> View] /\ parent[i] \in Slots /\ IsHistory(History)
      /\ parent[i] \in History[i] /\ \A w \in History[i] : parent[i] <= w
  BY SlotsAreIds, HistoryOK DEF IInv, TypeOK
<1>2. i \in Ids /\ new \in Ids /\ parent[i] \in Ids /\ view[t] \in View
  BY <1>1
<1>3. PICK m \in mem[i] :
        /\ m.val = parent[i]
        /\ mem' = [mem EXCEPT ![i] =
             @ \cup {[val |-> new, view |-> [Observe(t, i, m) EXCEPT ![i] = new]]}]
        /\ view' = [view EXCEPT ![t] = [Observe(t, i, m) EXCEPT ![i] = new]]
  BY DEF Swap
<1>4. Sound(History, view[t])
  BY DEF Know, ViewsOK
<1>5. m \in Visible(t, i)
  BY <1>1, <1>2, <1>3, <1>4 DEF Visible, Sound
<1>6. PICK o \in View :
        /\ o = Observe(t, i, m) /\ Sound(History, o) /\ Below(o, view[t]) /\ o[i] <= m.val
  BY <1>5, LoadKnows DEF Know
<1>7. o[i] = parent[i] /\ \A j \in Ids : o[j] \in Ids /\ o[j] \in History[j] /\ o[j] <= view[t][j]
  <2>1. \A j \in Ids : o[j] \in Ids /\ o[j] \in History[j] /\ o[j] <= view[t][j]
    BY <1>6 DEF Sound, Below, View
  <2> QED
    BY <1>1, <1>2, <1>3, <1>6, <2>1, IdsAreInts
<1>8. PICK seen \in View : seen = [o EXCEPT ![i] = new]
  BY <1>2 DEF View
<1>9. /\ mem' = [mem EXCEPT ![i] = @ \cup {[val |-> new, view |-> seen]}]
      /\ view' = [view EXCEPT ![t] = seen]
  BY <1>3, <1>6, <1>8
<1>10. \A w \in History[i] : new < w /\ w >= o[i]
  <2>1. \A w \in History[i] : w \in Int
    BY <1>1, <1>2, IdsAreInts DEF IsHistory
  <2> QED
    BY <1>1, <1>2, <1>7, <2>1, IdsAreInts
<1>11. o[i] = i \/ RootOf(o)[new] = RootOf(o)[o[i]]
  <2> SUFFICES ASSUME parent[i] # i PROVE RootOf(o)[new] = RootOf(o)[parent[i]]
    BY <1>7
  <2>1. view[t][parent[i]] \in Ids /\ o[parent[i]] <= view[t][parent[i]] /\ o[parent[i]] \in Ids
    BY <1>2, <1>7 DEF View
  <2>2. new >= o[parent[i]] /\ new \in History[parent[i]]
    BY <1>2, <2>1, IdsAreInts
  <2> QED
    BY <1>2, <1>6, <2>2 DEF Sound
<1>12. /\ Sound(Extended(History, i, new), seen)
       /\ \A x, y \in Ids : RootOf(o)[x] = RootOf(o)[y] => RootOf(seen)[x] = RootOf(seen)[y]
  <2>1. new < o[i] /\ \A w \in History[i] : w >= o[i]
    BY <1>7, <1>10
  <2>2. IsHistory(History) /\ Sound(History, o)
    BY <1>1, <1>6
  <2>3. seen[i] = new /\ \A j \in Ids \ {i} : seen[j] = o[j]
    BY <1>2, <1>8 DEF View
  <2> QED
    BY <1>2, <1>11, <2>1, <2>2, <2>3, ReplacedSound
<1>13. History' = Extended(History, i, new) /\ Slots' = Slots
  <2>1. Slots' = Slots
    BY DEF Slots
  <2>2. \A j \in Slots : mem'[j] = IF j = i THEN mem[i] \cup {[val |-> new, view |-> seen]}
                                            ELSE mem[j]
    BY <1>1, <1>9
  <2>3. \A j \in Ids : (History')[j] = IF j \in Slots THEN {n.val : n \in mem'[j]} ELSE {j}
    BY <2>1 DEF History
  <2>4. \A j \in Ids : History[j] = IF j \in Slots THEN {n.val : n \in mem[j]} ELSE {j}
    BY DEF History
  <2>5. (History')[i] = History[i] \cup {new}
    <3> DEFINE r == [val |-> new, view |-> seen]
    <3>1. mem'[i] = mem[i] \cup {r} /\ r.val = new
      BY <2>2
    <3>2. (History')[i] = {n.val : n \in mem'[i]} /\ History[i] = {n.val : n \in mem[i]}
      BY <1>2, <2>3, <2>4
    <3> HIDE DEF r
    <3> QED
      BY <3>1, <3>2
  <2>6. \A j \in Ids \ {i} : (History')[j] = History[j]
    BY <2>2, <2>3, <2>4
  <2>7. History' = [j \in Ids |-> (History')[j]] /\ History = [j \in Ids |-> History[j]]
    BY <2>1 DEF History
  <2> QED
    BY <1>2, <2>1, <2>5, <2>6, <2>7 DEF Extended
<1>14. \A v \in View : Sound(History, v) => Sound(History', v)
  BY <1>1, <1>2, <1>10, <1>13, OlderSound
<1>15. Chained(History')
  <2>1. parent[i] = i => History[i] = {i}
    <3>1. \A w \in History[i] : w <= i /\ w \in Int
      BY <1>1, <1>2, IdsAreInts DEF IsHistory
    <3> QED
      BY <1>1, <1>2, <3>1, IdsAreInts
  <2>2. parent[i] # i => parent[i] < i
    BY <1>1, <1>2, IdsAreInts DEF IsHistory
  <2>3. History[i] = {i} \/ \E x \in History[i] : x < i /\ new \in History[x]
    BY <1>1, <2>1, <2>2
  <2>4. \A w \in History[i] : new < w
    BY <1>10
  <2> QED
    BY <1>1, <1>2, <1>13, <2>3, <2>4, ExtendedChained DEF Know
<1>16. Below(seen, o) /\ Below(seen, view[t])
  <2>1. Below(seen, o)
    BY <1>2, <1>7, <1>8, IdsAreInts DEF Below, View
  <2> QED
    BY <1>2, <1>6, <2>1, BelowBelow
<1>17. view'[t] = seen /\ \A u \in Threads \ {t} : view'[u] = view[u]
  BY <1>1, <1>9
<1>18. ViewsOK'
  <2>1. ASSUME NEW u \in Threads PROVE Sound(History', view'[u])
    BY <1>1, <1>12, <1>13, <1>14, <1>17 DEF Know, ViewsOK
  <2>2. ASSUME NEW j \in Slots, NEW n \in mem'[j]
        PROVE  /\ Sound(History', n.view) /\ n.view[j] = n.val
               /\ n.val = j => \A u \in Threads : Below(view'[u], n.view)
    <3>1. CASE n \in mem[j]
      <4>1. n.view \in View
        BY <1>1, <3>1
      <4>2. /\ Sound(History, n.view) /\ n.view[j] = n.val
            /\ n.val = j => \A u \in Threads : Below(view[u], n.view)
        BY <3>1 DEF Know, ViewsOK
      <4>3. Below(view[t], n.view) => Below(seen, n.view)
        BY <1>2, <1>16, <4>1, BelowBelow
      <4> QED
        BY <1>14, <1>17, <4>1, <4>2, <4>3
    <3>2. CASE n \notin mem[j]
      <4>1. j = i /\ n = [val |-> new, view |-> seen]
        BY <1>1, <1>9, <3>2
      <4>2. n.val = new /\ n.view = seen
        BY <4>1
      <4>3. new # i /\ seen[i] = new
        BY <1>1, <1>2, <1>8, IdsAreInts DEF IsHistory, View
      <4> QED
        BY <1>12, <1>13, <4>1, <4>2, <4>3
    <3> QED
      BY <3>1, <3>2
  <2> QED
    BY <1>13, <2>1, <2>2 DEF ViewsOK
<1>19. ASSUME NEW x \in Ids, NEW y \in Ids, Linked(t, x, y) PROVE Linked(t, x, y)'
  <2>1. \A j \in Ids : view[t][j] \in History[j]
    BY <1>4 DEF Sound
  <2>2. RootOf(o)[x] = RootOf(o)[y]
    BY <1>1, <1>2, <1>6, <1>19, <2>1, Coarser DEF Linked
  <2> QED
    BY <1>12, <1>17, <2>2 DEF Linked
<1>20. StartKnown(t)'
  <2>1. start[t] \in View /\ Sound(History, start[t]) /\ Below(view[t], start[t])
    BY DEF Know, KnowsOK, StartKnown, IInv, TypeOK
  <2>2. Below(seen, start[t])
    BY <1>2, <1>16, <2>1, BelowBelow
  <2> QED
    BY <1>14, <1>17, <2>1, <2>2 DEF StartKnown
<1> QED
  BY <1>10, <1>13, <1>15, <1>17, <1>18, <1>19, <1>20

\* A failed compare-exchange is a load.
LEMMA CasFailsKnow ==
  ASSUME IInv, Know, ~Scoped, NEW t \in Threads, NEW i \in Slots, NEW c, CasFails(t, i, c),
         UNCHANGED <<len, op, start, rep, returned>>, pc[t] \in Inside
  PROVE  /\ History' = History /\ Chained(History') /\ ViewsOK' /\ StartKnown(t)'
         /\ \A u \in Threads \ {t} : view'[u] = view[u]
         /\ \A x, y \in Ids : Linked(t, x, y) => Linked(t, x, y)'
<1>1. PICK m \in Visible(t, i) : view' = [view EXCEPT ![t] = Observe(t, i, m)]
  BY DEF CasFails
<1>2. UNCHANGED <<memory, op, start>>
  BY DEF CasFails, memory
<1> QED
  BY <1>1, <1>2, LoadKnow

\* find_impl splits the path, or fails to.
LEMMA SplitKnow ==
  ASSUME IInv, Know, ~Scoped, NEW t \in Threads, Split(t)
  PROVE  Know'
<1>0. /\ pc[t] = "split" /\ UNCHANGED <<len, op, start, rep, returned>> /\ UNCHANGED copy
      /\ reg' = [reg EXCEPT ![t] = [@ EXCEPT !.cur = reg[t].next, !.next = 0, !.grand = 0]]
      /\ pc' = [pc EXCEPT ![t] = "next"]
  BY DEF Split
<1>1. /\ op[t] \in OpType /\ reg \in [Threads -> RegType] /\ pc \in [Threads -> PcType]
      /\ CallOK(t) /\ Slots \subseteq Ids /\ pc[t] \in Inside
  BY <1>0, SlotsAreIds DEF IInv, TypeOK, OpType, RegType, PcType, Inside
<1>2. /\ reg[t].next \in Slots /\ reg[t].cur \in Slots /\ reg[t].grand \in Slots
      /\ reg[t].grand < reg[t].next /\ op[t].kind # "copy" /\ Target(t) \in Ids
  BY <1>0, <1>1 DEF CallOK, Target, OpType
<1>3. reg[t].grand \in History[reg[t].next] /\ view[t][reg[t].next] <= reg[t].grand
  BY <1>0 DEF Know, KnowsOK, LinksKnown
<1>4. pc'[t] = "next" /\ pc'[t] \in Inside
  BY <1>0, <1>1 DEF Inside
<1>5. /\ History' = History \/ \E i \in Ids, new \in Ids :
           (\A w \in History[i] : new < w) /\ History' = Extended(History, i, new)
      /\ Chained(History') /\ ViewsOK' /\ StartKnown(t)'
      /\ \A u \in Threads \ {t} : view'[u] = view[u]
      /\ \A x, y \in Ids : Linked(t, x, y) => Linked(t, x, y)'
  <2>1. CASE parent[reg[t].cur] = reg[t].next /\ Swap(t, reg[t].cur, reg[t].grand)
    <3>1. PICK i \in Slots, new \in Slots : i = reg[t].cur /\ new = reg[t].grand
      BY <1>2
    <3>2. /\ Swap(t, i, new) /\ new < parent[i]
          /\ parent[i] # i => new \in History[parent[i]] /\ view[t][parent[i]] <= new
      BY <1>2, <1>3, <2>1, <3>1
    <3>3. UNCHANGED <<len, op, start>>
      BY <1>0
    <3>4. /\ History' = Extended(History, i, new) /\ (\A w \in History[i] : new < w)
          /\ Chained(History') /\ ViewsOK' /\ StartKnown(t)'
          /\ \A u \in Threads \ {t} : view'[u] = view[u]
          /\ \A x, y \in Ids : Linked(t, x, y) => Linked(t, x, y)'
      BY <1>1, <1>4, <3>2, <3>3, SwapKnow
    <3> QED
      BY <1>1, <3>4
  <2>2. CASE CasFails(t, reg[t].cur, reg[t].next)
    BY <1>0, <1>1, <1>2, <2>2, CasFailsKnow
  <2> QED
    BY <2>1, <2>2 DEF Split
<1>6. reg'[t] = [reg[t] EXCEPT !.cur = reg[t].next, !.next = 0, !.grand = 0]
  BY <1>0, <1>1
<1>7. /\ reg'[t].cur = reg[t].next /\ reg'[t].l = reg[t].l
      /\ reg'[t].r = reg[t].r /\ reg'[t].side = reg[t].side
  BY <1>1, <1>6 DEF RegType
<1>8. LinksKnown(t)'
  BY <1>4 DEF LinksKnown
<1>9. CopyKnown(t)'
  BY <1>0, <1>2, <1>4 DEF CopyKnown, Know, KnowsOK
<1>10. ClassKnown(t)'
  <2>1. /\ reg[t].l \in Ids /\ reg[t].r \in Ids /\ op[t].l \in Ids /\ op[t].r \in Ids
        /\ Target(t)' = Target(t)
    BY <1>0, <1>1, <1>7 DEF RegType, OpType, Target
  <2>2. Linked(t, reg[t].next, reg[t].cur)
    BY <1>0, HeldLinks
  <2>3. op[t].kind \in {"find", "same_set"} =>
          /\ Linked(t, reg[t].l, op[t].l) /\ Linked(t, reg[t].r, op[t].r)
          /\ Linked(t, reg[t].next, Target(t))
    BY <1>0, <1>1, <2>2 DEF Know, KnowsOK, ClassKnown, Linked
  <2>4. op[t].kind \in {"find", "same_set"} =>
          /\ Linked(t, reg[t].l, op[t].l)' /\ Linked(t, reg[t].r, op[t].r)'
          /\ Linked(t, reg[t].cur, Target(t))'
    BY <1>0, <1>1, <1>2, <1>5, <1>7, <2>1, <2>3 DEF Linked
  <2> QED
    BY <1>0, <1>4, <2>4 DEF ClassKnown
<1>11. \A u \in Threads \ {t} : pc'[u] = pc[u] /\ reg'[u] = reg[u]
  BY <1>0, <1>1
<1>12. KnowsOK(t)'
  BY <1>5, <1>8, <1>9, <1>10 DEF KnowsOK
<1> QED
  BY <1>0, <1>5, <1>11, <1>12, ThreadKnow

\* merge_impl links two roots, or starts over.
LEMMA LinkKnow ==
  ASSUME IInv, Know, ~Scoped, NEW t \in Threads, Link(t)
  PROVE  Know'
<1> DEFINE above == Smallest(reg[t].l, reg[t].r)
           child == Largest(reg[t].l, reg[t].r)
<1>0. pc[t] = "link" /\ UNCHANGED <<len, op, start>> /\ UNCHANGED copy
  BY DEF Link
<1>1. /\ reg \in [Threads -> RegType] /\ pc \in [Threads -> PcType]
      /\ CallOK(t) /\ Slots \subseteq Ids /\ pc[t] \in Inside
  BY <1>0, SlotsAreIds DEF IInv, TypeOK, RegType, PcType, Inside
<1>2. reg[t].l \in Slots /\ reg[t].r \in Slots /\ op[t].kind = "merge" /\ reg[t].l # reg[t].r
  BY <1>0, <1>1 DEF CallOK
<1>3. above \in Slots /\ child \in Slots /\ above < child
  BY <1>1, <1>2, IdsAreInts DEF Smallest, Largest
<1> HIDE DEF above, child
<1>4. /\ pc'[t] \in {"done", "next"} /\ pc'[t] \in Inside
      /\ \A u \in Threads \ {t} : pc'[u] = pc[u] /\ reg'[u] = reg[u]
  BY <1>1 DEF Link, Again, Inside
<1>5. /\ History' = History \/ \E i \in Ids, new \in Ids :
           (\A w \in History[i] : new < w) /\ History' = Extended(History, i, new)
      /\ Chained(History') /\ ViewsOK' /\ StartKnown(t)'
      /\ \A u \in Threads \ {t} : view'[u] = view[u]
  <2>1. CASE parent[child] = child /\ Swap(t, child, above)
    <3>1. PICK i \in Slots, new \in Slots : i = child /\ new = above
      BY <1>3
    <3>2. Swap(t, i, new) /\ new < parent[i] /\ parent[i] = i
      BY <1>3, <2>1, <3>1
    <3>3. /\ History' = Extended(History, i, new) /\ (\A w \in History[i] : new < w)
          /\ Chained(History') /\ ViewsOK' /\ StartKnown(t)'
          /\ \A u \in Threads \ {t} : view'[u] = view[u]
      BY <1>0, <1>1, <1>4, <3>2, SwapKnow
    <3> QED
      BY <1>1, <3>3
  <2>2. CASE CasFails(t, child, child) /\ UNCHANGED <<rep, returned>>
    <3>1. UNCHANGED <<len, op, start, rep, returned>>
      BY <1>0, <2>2
    <3> QED
      BY <1>1, <1>3, <2>2, <3>1, CasFailsKnow
  <2> QED
    BY <2>1, <2>2 DEF Link, above, child
<1>6. LinksKnown(t)' /\ ClassKnown(t)'
  BY <1>0, <1>2, <1>4 DEF LinksKnown, ClassKnown
<1>7. CopyKnown(t)'
  BY <1>0, <1>2, <1>4 DEF CopyKnown, Know, KnowsOK
<1>8. KnowsOK(t)'
  BY <1>5, <1>6, <1>7 DEF KnowsOK
<1> QED
  BY <1>0, <1>4, <1>5, <1>8, ThreadKnow

\* deep_copy loads the next link.
LEMMA CopyNextKnow ==
  ASSUME IInv, Know, ~Scoped, NEW t \in Threads, CopyNext(t)
  PROVE  Know'
<1>0. pc[t] = "copy" /\ UNCHANGED <<memory, op, start>>
  BY DEF CopyNext
<1>1. /\ reg \in [Threads -> RegType] /\ pc \in [Threads -> PcType]
      /\ CallOK(t) /\ Slots \subseteq Ids /\ pc[t] \in Inside /\ op[t].kind = "copy"
      /\ copy \in [Threads -> Seq(Ids)] /\ reg[t].cur \in Nat /\ len \in Nat
  <2>1. reg \in [Threads -> RegType] /\ pc \in [Threads -> PcType] /\ CallOK(t)
    BY DEF IInv, TypeOK, RegType, PcType
  <2>2. op[t].kind = "copy" /\ pc[t] \in Inside /\ Slots \subseteq Ids
    BY <1>0, <2>1, SlotsAreIds DEF CallOK, Inside, IInv, TypeOK
  <2>3. copy \in [Threads -> Seq(Ids)] /\ reg[t].cur \in Nat /\ len \in Nat
    BY Sizes DEF IInv, TypeOK
  <2> QED
    BY <2>1, <2>2, <2>3
<1>2. /\ op[t].l = 0 /\ Len(copy[t]) = reg[t].cur /\ reg[t].cur <= len
      /\ \A i \in 0..(reg[t].cur - 1) :
           copy[t][i + 1] \in History[i] /\ copy[t][i + 1] <= start[t][i]
  BY <1>0, <1>1 DEF Know, KnowsOK, CopyKnown
<1>3. CASE ~(reg[t].cur < len)
  <2>1. /\ UNCHANGED <<memory, view>> /\ UNCHANGED <<copy, reg>> /\ pc'[t] = "done"
        /\ \A u \in Threads \ {t} : pc'[u] = pc[u]
    BY <1>0, <1>1, <1>3 DEF CopyNext
  <2>2. History' = History /\ Chained(History') /\ ViewsOK' /\ len' = len
    BY <2>1, QuietViews
  <2>3. StartKnown(t)'
    BY <1>0, <1>1, <2>1, <2>2 DEF Know, KnowsOK, StartKnown
  <2>4. LinksKnown(t)' /\ ClassKnown(t)'
    BY <1>0, <1>1, <2>1 DEF LinksKnown, ClassKnown
  <2>5. CopyKnown(t)'
    BY <1>0, <1>1, <1>2, <2>1, <2>2 DEF CopyKnown
  <2> QED
    BY <1>0, <2>1, <2>2, <2>3, <2>4, <2>5, ThreadKnow DEF KnowsOK
<1>4. CASE reg[t].cur < len
  <2>1. PICK i \in Slots : i = reg[t].cur
    BY <1>1, <1>4 DEF Slots
  <2>2. PICK m \in Visible(t, i) :
          /\ copy' = [copy EXCEPT ![t] = Append(@, m.val)]
          /\ view' = [view EXCEPT ![t] = Observe(t, i, m)]
    BY <1>4, <2>1 DEF CopyNext
  <2>3. reg' = [reg EXCEPT ![t].cur = i + 1] /\ pc' = pc
    BY <1>4, <2>1 DEF CopyNext
  <2>4. /\ History' = History /\ Chained(History') /\ ViewsOK' /\ len' = len
        /\ \A u \in Threads \ {t} : view'[u] = view[u]
        /\ m.val \in History[i] /\ m.val \in Ids /\ m.val <= view[t][i] /\ StartKnown(t)'
    BY <1>0, <1>1, <2>2, LoadKnow
  <2>5. reg'[t].cur = i + 1
    BY <1>1, <2>3 DEF RegType
  <2>6. m.val <= start[t][i]
    <3>1. Below(view[t], start[t]) /\ start[t] \in View /\ view[t] \in View
      BY <1>1 DEF Know, KnowsOK, StartKnown, IInv, TypeOK
    <3>2. i \in Ids /\ start[t][i] \in Int /\ view[t][i] \in Int /\ view[t][i] <= start[t][i]
      BY <1>1, <3>1, IdsAreInts DEF View, Below
    <3> QED
      BY <2>4, <3>2, IdsAreInts
  <2>7. /\ copy'[t] = Append(copy[t], m.val)
        /\ \A u \in Threads \ {t} : copy'[u] = copy[u] /\ reg'[u] = reg[u] /\ pc'[u] = pc[u]
    BY <1>1, <2>2, <2>3
  <2>8. /\ Len(copy'[t]) = i + 1 /\ copy'[t][i + 1] = m.val
        /\ \A j \in 0..(i - 1) : copy'[t][j + 1] = copy[t][j + 1]
    <3>1. copy[t] \in Seq(Ids) /\ Len(copy[t]) = i /\ i \in Nat /\ m.val \in Ids
      BY <1>1, <1>2, <2>1, <2>4
    <3> QED
      BY <2>7, <3>1
  <2>9. CopyKnown(t)'
    <3>1. i \in Nat /\ i + 1 <= len
      BY <1>1, <1>4, <2>1
    <3>2. \A j \in 0..i : copy'[t][j + 1] \in History[j] /\ copy'[t][j + 1] <= start[t][j]
      <4>1. \A j \in 0..(i - 1) : copy'[t][j + 1] \in History[j] /\ copy'[t][j + 1] <= start[t][j]
        BY <1>2, <2>1, <2>8
      <4>2. \A j \in 0..i : j = i \/ j \in 0..(i - 1)
        BY <3>1
      <4> QED
        BY <2>4, <2>6, <2>8, <4>1, <4>2
    <3>3. (i + 1) - 1 = i
      BY <3>1
    <3> QED
      BY <1>0, <1>1, <1>2, <2>3, <2>4, <2>5, <2>8, <3>1, <3>2, <3>3 DEF CopyKnown
  <2>10. LinksKnown(t)' /\ ClassKnown(t)'
    BY <1>0, <1>1, <2>3 DEF LinksKnown, ClassKnown
  <2> QED
    BY <1>0, <2>3, <2>4, <2>7, <2>9, <2>10, ThreadKnow DEF KnowsOK
<1> QED
  BY <1>3, <1>4

\* The array is written as a whole, with no call inside: every slot has one value and every
\* thread sees all of them.
LEMMA PublishKnow ==
  ASSUME IInv, IInv', Know, NEW t \in Threads, Readers = {}, NEW links, Publish(links),
         UNCHANGED copy, pc'[t] \in {"access", "idle"}, op'[t].kind = "copy" => op'[t].l = 0,
         \A u \in Threads \ {t} : pc'[u] = pc[u] /\ op'[u] = op[u]
  PROVE  Know'
<1>1. Slots' \subseteq Ids
  <2>1. len' \in 1..Capacity
    BY DEF IInv, TypeOK
  <2>2. PICK n \in 1..Capacity : n = len'
    BY <2>1
  <2>3. Slots' = 0..(n - 1)
    BY <2>2 DEF Slots
  <2> QED
    BY <2>3, Sizes DEF Ids
<1>2. parent' = links /\ parent' \in [Slots' -> Slots'] /\ DOMAIN links = Slots'
  BY DEF Publish, IInv, TypeOK
<1> DEFINE latest == [j \in Ids |-> IF j \in DOMAIN links THEN links[j] ELSE j]
<1>3. PICK v \in View : v = latest
  BY <1>1, <1>2 DEF View
<1>4. /\ mem' = [i \in Slots' |-> {[val |-> links[i], view |-> v]}]
      /\ view' = [u \in Threads |-> v]
  BY <1>2, <1>3 DEF Publish
<1>5. \A i \in Ids : v[i] = IF i \in Slots' THEN links[i] ELSE i
  BY <1>2, <1>3
<1> HIDE DEF latest
<1>6. \A i \in Slots' : mem'[i] = {[val |-> v[i], view |-> v]}
  BY <1>1, <1>4, <1>5
<1>7. \A i \in Slots' : \A m \in mem'[i] : m.val = v[i] /\ m.view = v
  BY <1>6
<1>8. \A i \in Ids : v[i] <= i
  <2>1. \A i \in Slots' : \A m \in mem'[i] : m.val <= i
    BY DEF IInv, SlotOK
  <2>2. \A i \in Slots' : \E m \in mem'[i] : TRUE
    BY <1>6
  <2> QED
    BY <1>5, <1>7, <2>1, <2>2, IdsAreInts
<1>9. History' = [i \in Ids |-> {v[i]}]
  <2>1. \A i \in Slots' : {m.val : m \in mem'[i]} = {v[i]}
    <3> SUFFICES ASSUME NEW i \in Slots' PROVE {m.val : m \in mem'[i]} = {v[i]}
      OBVIOUS
    <3>1. PICK r : r = [val |-> v[i], view |-> v]
      OBVIOUS
    <3>2. r.val = v[i] /\ mem'[i] = {r}
      BY <1>6, <3>1
    <3> QED
      BY <3>2
  <2>2. History' = [i \in Ids |-> IF i \in Slots' THEN {m.val : m \in mem'[i]} ELSE {i}]
    BY DEF History
  <2> QED
    BY <1>5, <2>1, <2>2
<1>10. Sound(History', v) /\ Chained(History')
  BY <1>8, <1>9, PublishedSound
<1>11. Below(v, v)
  BY IdsAreInts DEF Below, View
<1>12. ViewsOK'
  BY <1>4, <1>7, <1>10, <1>11 DEF ViewsOK
<1>13. ASSUME NEW u \in Threads PROVE KnowsOK(u)'
  <2>1. pc[u] \notin Inside /\ pc[u] \in Inside \cup {"idle", "access", "claim", "drain"}
    BY DEF Readers, IInv, TypeOK
  <2>2. CopyKnown(u) /\ pc[u] \notin {"copy", "done"}
    BY <2>1 DEF Know, KnowsOK, Inside
  <2>3. copy'[u] = <<>>
    BY <2>2 DEF CopyKnown
  <2>4. op'[u].kind = "copy" => op'[u].l = 0
    BY <2>2 DEF CopyKnown
  <2>5. pc'[u] \in {"idle", "access", "claim", "drain"}
    BY <2>1
  <2> QED
    BY <2>3, <2>4, <2>5, OutsideKnows
<1> QED
  BY <1>10, <1>12, <1>13 DEF Know

\* Growing the array, and resetting it.
LEMMA WholeKnow ==
  ASSUME IInv, Know, NEW t \in Threads, Grow(t) \/ ReInit(t)
  PROVE  Know'
<1>1. IInv'
  BY GrowStep, ReInitStep
<1>2. Readers = {} /\ UNCHANGED copy /\ \E links : Publish(links)
  BY DEF Grow, ReInit
<1>3. PICK links : Publish(links)
  BY <1>2
<1>4. op \in [Threads -> OpType] /\ pc \in [Threads -> PcType] /\ CopyKnown(t)
  BY DEF IInv, TypeOK, OpType, PcType, Know, KnowsOK
<1>5. /\ pc'[t] \in {"access", "idle"}
      /\ \A u \in Threads \ {t} : pc'[u] = pc[u] /\ op'[u] = op[u]
  BY <1>4 DEF Grow, ReInit
<1>6. op'[t].kind = "copy" => op'[t].l = 0
  BY <1>4 DEF Grow, ReInit, NoOp, CopyKnown
<1> QED
  BY <1>1, <1>2, <1>3, <1>5, <1>6, PublishKnow

-----------------------------------------------------------------------------
(* The theorems *)

\* At the start every id is its own only value.
LEMMA InitKnow == Init => KInv
<1> SUFFICES ASSUME Init PROVE Know
  BY DEF KInv
<1> USE DEF Init
<1>1. Slots = 0..(InitLen - 1) /\ Slots \subseteq Ids
  BY Sizes DEF Slots, Ids
<1>2. Fresh \in View /\ \A i \in Ids : Fresh[i] = i /\ Fresh[i] <= i
  BY IdsAreInts DEF Fresh, View
<1>3. \A i \in Slots : mem[i] = {[val |-> i, view |-> Fresh]}
  BY <1>1
<1>4. \A i \in Slots : \A m \in mem[i] : m.val = i /\ m.view = Fresh
  BY <1>3
<1>5. History = [i \in Ids |-> {Fresh[i]}]
  <2>1. \A i \in Slots : {m.val : m \in mem[i]} = {i}
    <3> SUFFICES ASSUME NEW i \in Slots PROVE {m.val : m \in mem[i]} = {i}
      OBVIOUS
    <3>1. PICK r : r = [val |-> i, view |-> Fresh]
      OBVIOUS
    <3>2. r.val = i /\ mem[i] = {r}
      BY <1>3, <3>1
    <3> QED
      BY <3>2
  <2> QED
    BY <1>2, <2>1 DEF History
<1>6. Sound(History, Fresh) /\ Chained(History)
  BY <1>2, <1>5, PublishedSound
<1>7. Below(Fresh, Fresh)
  BY <1>2 DEF Below
<1>8. ViewsOK
  BY <1>1, <1>2, <1>4, <1>6, <1>7 DEF ViewsOK
<1>9. \A t \in Threads : KnowsOK(t)
  BY DEF KnowsOK, StartKnown, LinksKnown, ClassKnown, CopyKnown, Inside, NoOp
<1> QED
  BY <1>6, <1>8, <1>9 DEF Know

\* Every step of every thread keeps what the threads know.
LEMMA NextKnow == IInv /\ KInv /\ [Next]_vars => KInv'
<1> SUFFICES ASSUME IInv, Know, ~Scoped, [Next]_vars PROVE Know'
  BY ModeAssumption DEF KInv
<1>1. CASE Next
  <2>1. PICK t \in Threads : Begin(t) \/ Step(t)
    BY <1>1 DEF Next
  <2>2. CASE Begin(t)
    BY <2>2, BeginKnow
  <2>3. CASE Access(t)
    BY <2>3, AccessKnow
  <2>4. CASE Claim(t) \/ Return(t)
    BY <2>4, OutsideKnow
  <2>5. CASE Grow(t) \/ ReInit(t)
    BY <2>5, WholeKnow
  <2>6. CASE FindNext(t)
    BY <2>6, FindNextKnow
  <2>7. CASE FindGrand(t)
    BY <2>7, FindGrandKnow
  <2>8. CASE Split(t)
    BY <2>8, SplitKnow
  <2>9. CASE Link(t)
    BY <2>9, LinkKnow
  <2>10. CASE Check(t)
    BY <2>10, CheckKnow
  <2>11. CASE CopyNext(t)
    BY <2>11, CopyNextKnow
  <2> QED
    BY <2>1, <2>2, <2>3, <2>4, <2>5, <2>6, <2>7, <2>8, <2>9, <2>10, <2>11
       DEF Step, LockStep, FindStep
<1>2. CASE UNCHANGED vars
  <2>1. UNCHANGED <<memory, view>> /\ UNCHANGED <<pc, op, reg, copy, start>>
    BY <1>2 DEF vars, memory
  <2>2. History' = History /\ Chained(History') /\ ViewsOK' /\ len' = len
    BY <2>1, QuietViews
  <2>3. \A u \in Threads : KnowsOK(u)'
    BY <2>1, <2>2, OtherKnows DEF Know
  <2> QED
    BY <2>2, <2>3 DEF Know
<1> QED
  BY <1>1, <1>2

\* Whoever is bound to see a link is bound to see what replaced the links before it: the view
\* of every thread joins an id to all older values of its slot, and a call's ids are joined in
\* its view as they were when it got its reader.
THEOREM ViewsSound == Spec => []KInv
<1>1. Init => IInv /\ KInv
  BY InitIInv, InitKnow
<1>2. IInv /\ KInv /\ [Next]_vars => (IInv /\ KInv)'
  BY NextIInv, NextKnow
<1> QED
  BY <1>1, <1>2, PTL DEF Spec

\* same_set: a "no" is an answer about one view in which both ids were roots.
LEMMA SameSetTrue ==
  ASSUME IInv, Know, NEW t \in Threads, pc[t] = "done", op[t].kind = "same_set"
  PROVE  IF reg[t].l = reg[t].r
         THEN rep[op[t].l] = rep[op[t].r]
         ELSE RootOf(start[t])[op[t].l] # RootOf(start[t])[op[t].r]
<1>1. CASE reg[t].l = reg[t].r
  BY <1>1 DEF IInv, CallOK, Inside
<1>2. CASE reg[t].l # reg[t].r
  <2>1. /\ Linked(t, reg[t].l, op[t].l) /\ Linked(t, reg[t].r, op[t].r)
        /\ view[t][reg[t].r] = reg[t].r /\ view[t][reg[t].l] = reg[t].l
    BY <1>2 DEF Know, KnowsOK, ClassKnown, Inside
  <2>2. /\ reg[t].l \in Ids /\ reg[t].r \in Ids /\ op[t].l \in Ids /\ op[t].r \in Ids
        /\ view[t] \in View /\ start[t] \in View
    BY DEF IInv, TypeOK
  <2>3. Sound(History, view[t]) /\ Sound(History, start[t]) /\ Below(view[t], start[t])
    BY DEF Know, ViewsOK, KnowsOK, StartKnown, Inside
  <2>4. IsHistory(History)
    BY HistoryOK
  <2>5. \A i \in Ids : view[t][i] \in History[i]
    BY <2>3 DEF Sound
  <2>6. \A i \in Ids : start[t][i] \in History[i]
    BY <2>3 DEF Sound
  <2>7. RootOf(view[t])[reg[t].l] = reg[t].l /\ RootOf(view[t])[reg[t].r] = reg[t].r
    BY <2>1, <2>2, <2>4, <2>5, ViewRoots
  <2>8. RootOf(view[t])[op[t].l] # RootOf(view[t])[op[t].r]
    BY <1>2, <2>1, <2>7 DEF Linked
  <2>9. RootOf(start[t])[op[t].l] # RootOf(start[t])[op[t].r]
    BY <2>2, <2>3, <2>4, <2>6, <2>8, Coarser
  <2> QED
    BY <1>2, <2>9
<1> QED
  BY <1>1, <1>2

\* find: the root that was canonical when the call began is joined to the answer.
LEMMA FindTrue ==
  ASSUME IInv, Know, NEW t \in Threads, pc[t] = "done", op[t].kind = "find"
  PROVE  rep[reg[t].l] = rep[op[t].l] /\ reg[t].l <= RootOf(start[t])[op[t].l]
<1>1. rep[reg[t].l] = rep[op[t].l]
  BY DEF IInv, CallOK, Inside
<1>2. /\ Linked(t, reg[t].l, op[t].l) /\ reg[t].l = reg[t].r /\ view[t][reg[t].r] = reg[t].r
      /\ reg[t].l \in Ids /\ op[t].l \in Ids /\ view[t] \in View /\ start[t] \in View
  BY DEF Know, KnowsOK, ClassKnown, Inside, IInv, TypeOK
<1>3. Sound(History, view[t]) /\ Sound(History, start[t]) /\ Below(view[t], start[t])
  BY DEF Know, ViewsOK, KnowsOK, StartKnown, Inside
<1>4. IsHistory(History)
  BY HistoryOK
<1>5. \A i \in Ids : view[t][i] \in History[i]
  BY <1>3 DEF Sound
<1>6. \A i \in Ids : start[t][i] \in History[i]
  BY <1>3 DEF Sound
<1>7. PICK x \in Ids : x = RootOf(start[t])[op[t].l]
  BY <1>2, <1>4, <1>6, ViewRoots
<1>8. RootOf(start[t])[x] = RootOf(start[t])[op[t].l]
  <2>1. start[t][x] = x
    BY <1>2, <1>4, <1>6, <1>7, ViewRoots
  <2>2. RootOf(start[t])[x] = x
    BY <1>2, <1>4, <1>6, <2>1, ViewRoots
  <2> QED
    BY <1>7, <2>2
<1>9. RootOf(view[t])[x] = RootOf(view[t])[op[t].l]
  BY <1>2, <1>3, <1>4, <1>6, <1>8, Coarser
<1>10. RootOf(view[t])[x] <= x /\ RootOf(view[t])[reg[t].l] = reg[t].l
  BY <1>2, <1>4, <1>5, ViewRoots
<1> QED
  BY <1>1, <1>2, <1>7, <1>9, <1>10 DEF Linked

\* deep_copy: the links it loaded at different moments lead from every id to a member of its
\* class, no larger than its root when the call began.
LEMMA CopyTrue ==
  ASSUME IInv, Know, NEW t \in Threads, Sound(History, start[t]), start[t] \in View,
         NEW n \in Nat, n <= len, NEW links \in [0..(n - 1) -> Ids],
         \A j \in 0..(n - 1) : links[j] \in History[j] /\ links[j] <= start[t][j],
         NEW i \in 0..(n - 1)
  PROVE  rep[RootOf(links)[i]] = rep[i] /\ RootOf(links)[i] <= RootOf(start[t])[i]
<1>1. rep \in [Ids -> Ids] /\ len \in 1..Capacity /\ Capacity \in Nat
  BY Sizes DEF IInv, TypeOK
<1>4. 0..(n - 1) \subseteq Slots /\ Slots \subseteq Ids
  BY <1>1, SlotsAreIds DEF Slots
<1>5. \A j \in 0..(n - 1) : links[j] \in History[j] /\ links[j] <= start[t][j]
  OBVIOUS
<1>6. \A j \in 0..(n - 1) : links[j] \in Ids /\ links[j] <= j /\ rep[links[j]] = rep[j]
  <2>1. \A j \in Slots : History[j] = {m.val : m \in mem[j]}
    BY HistoryOK
  <2>2. \A j \in Slots : \A m \in mem[j] : m.val \in Slots /\ m.val <= j /\ rep[m.val] = rep[j]
    BY DEF IInv, SlotOK, TypeOK
  <2>3. \A j \in Slots : \A w \in History[j] : w \in Slots /\ w <= j /\ rep[w] = rep[j]
    BY <2>1, <2>2
  <2> QED
    BY <1>4, <1>5, <2>3
<1>7. links \in Forest(n)
  <2>1. \A j \in 0..(n - 1) : links[j] \in Nat /\ links[j] <= j
    BY <1>6, IdsAreNats
  <2> QED
    BY <2>1 DEF Forest
<1>8. /\ \A j \in 0..(n - 1) :
           RootOf(links)[j] = IF links[j] = j THEN j ELSE RootOf(links)[links[j]]
      /\ \A j \in 0..(n - 1) : RootOf(links)[j] \in 0..j
  BY <1>7, RootUnfold
<1>9. rep[RootOf(links)[i]] = rep[i]
  <2> DEFINE f == [j \in 0..(n - 1) |-> rep[j]]
  <2>1. f \in [0..(n - 1) -> Nat] /\ n \in 0..n
    BY <1>1, <1>4, IdsAreNats
  <2>2. \A j \in 0..(n - 1) : f[links[j]] = f[j]
    <3>1. \A j \in 0..(n - 1) : links[j] \in 0..(n - 1)
      BY <1>7 DEF Forest
    <3> QED
      BY <1>6, <3>1
  <2>3. \A j \in 0..(n - 1) : RootOf(links)[j] \in 0..(n - 1)
    <3>1. \A j \in 0..(n - 1) : RootOf(links)[j] \in 0..j
      BY <1>8
    <3> HIDE DEF f
    <3> QED
      BY <3>1
  <2> HIDE DEF f
  <2>4. \A j \in 0..(n - 1) : f[RootOf(links)[j]] = f[j]
    BY <1>7, <2>1, <2>2, KeptByRoots
  <2> QED
    BY <2>3, <2>4 DEF f
<1>10. RootOf(links)[i] <= RootOf(start[t])[i]
  <2>1. Sound(History, start[t]) /\ IsHistory(History) /\ Chained(History)
    BY HistoryOK DEF Know, KnowsOK, StartKnown, Inside
  <2>2. \A j \in Ids : start[t][j] \in History[j]
    BY <2>1 DEF Sound
  <2> DEFINE R == RootOf(start[t])
  <2>3. \A j \in Ids : R[j] \in Ids /\ (start[t][j] = j => R[j] = j)
    BY <1>1, <2>1, <2>2, ViewRoots
  <2>4. \A j \in Ids : \A w \in History[j] : R[w] <= R[j]
    BY <1>1, <2>1, RootsBelow
  <2> HIDE DEF R
  <2> DEFINE S == {j \in 0..(n - 1) : RootOf(links)[j] <= R[j]}
  <2>5. ASSUME NEW j \in 0..(n - 1), \A k \in 0..(n - 1) : k < j => k \in S
        PROVE  j \in S
    <3>1. j \in Ids /\ j \in Nat /\ links[j] \in Ids /\ links[j] \in Nat /\ links[j] <= j
      BY <1>4, <1>6, IdsAreNats
    <3>2. CASE links[j] = j
      <4>1. start[t][j] \in Int /\ start[t][j] <= j /\ j <= start[t][j]
        BY <1>1, <1>5, <2>1, <2>2, <3>1, <3>2, IdsAreInts DEF View, IsHistory
      <4>2. start[t][j] = j
        BY <3>1, <4>1
      <4>3. R[j] = j
        BY <2>3, <3>1, <4>2
      <4> QED
        BY <1>8, <3>1, <3>2, <4>3
    <3>3. CASE links[j] # j
      <4>1. links[j] \in 0..(n - 1) /\ links[j] < j
        BY <3>1, <3>3
      <4>2. RootOf(links)[links[j]] <= R[links[j]]
        BY <2>5, <4>1
      <4>3. R[links[j]] <= R[j]
        BY <1>5, <2>4, <3>1
      <4>4. R[links[j]] \in Int /\ R[j] \in Int
        BY <2>3, <3>1, IdsAreInts
      <4>5. RootOf(links)[links[j]] \in Int /\ RootOf(links)[j] = RootOf(links)[links[j]]
        BY <1>8, <3>3, <4>1
      <4> QED
        BY <4>2, <4>3, <4>4, <4>5
    <3> QED
      BY <3>2, <3>3
  <2>6. \A j \in 0..(n - 1) : j \in S
    <3> HIDE DEF S
    <3> QED
      BY <2>5, AllBelow
  <2> QED
    BY <2>6 DEF R
<1> QED
  BY <1>9, <1>10

\* What find, same_set and deep_copy answer is true, although all their loads may be stale: a
\* "yes" is a class of now, and no answer falls behind the links its caller was bound to know
\* when it got its reader.
THEOREM Answers == Spec => []AnswersAreTrue
<1>1. IInv /\ KInv => AnswersAreTrue
  <2> SUFFICES ASSUME IInv, KInv PROVE AnswersAreTrue
    OBVIOUS
  <2>1. CASE Scoped
    <3>1. \A t \in Threads : op[t].kind \in {"merge", "none"}
      BY <2>1, ModeAssumption DEF IInv, TypeOK
    <3> QED
      BY <3>1 DEF AnswersAreTrue, SameSetIsTruth, FindIsCanonical, CopyIsForest
  <2>2. CASE Know
    <3>1. SameSetIsTruth
      BY <2>2, SameSetTrue DEF SameSetIsTruth
    <3>2. FindIsCanonical
      BY <2>2, FindTrue DEF FindIsCanonical
    <3>3. ASSUME NEW t \in Threads, pc[t] = "done" /\ op[t].kind = "copy",
                 NEW links, links = [i \in 0..(Len(copy[t]) - 1) |-> copy[t][i + 1]]
          PROVE  \A i \in DOMAIN links : /\ rep[RootOf(links)[i]] = rep[i]
                                         /\ RootOf(links)[i] <= RootOf(start[t])[i]
      <4>1. copy[t] \in Seq(Ids) /\ start[t] \in View
        BY DEF IInv, TypeOK
      <4>2. PICK n \in Nat : n = Len(copy[t])
        BY <4>1
      <4>3. /\ n <= len /\ Sound(History, start[t])
            /\ \A j \in 0..(n - 1) :
                 copy[t][j + 1] \in History[j] /\ copy[t][j + 1] <= start[t][j]
        BY <2>2, <3>3, <4>2 DEF Know, KnowsOK, StartKnown, CopyKnown, Inside
      <4>4. \A j \in 0..(n - 1) : copy[t][j + 1] \in Ids
        BY <4>1, <4>2
      <4>5. links \in [0..(n - 1) -> Ids] /\ DOMAIN links = 0..(n - 1)
        BY <3>3, <4>2, <4>4
      <4>6. \A j \in 0..(n - 1) : links[j] \in History[j] /\ links[j] <= start[t][j]
        BY <3>3, <4>2, <4>3
      <4> HIDE <3>3
      <4> QED
        BY <2>2, <4>1, <4>3, <4>5, <4>6, CopyTrue
    <3>4. CopyIsForest
      BY <3>3 DEF CopyIsForest
    <3> QED
      BY <3>1, <3>2, <3>4 DEF AnswersAreTrue
  <2> QED
    BY <2>1, <2>2 DEF KInv
<1> QED
  BY <1>1, InvariantHolds, ViewsSound, PTL
=============================================================================
