--------------------------- MODULE ThreadPoolProofs ---------------------------
(***************************************************************************)
(* The promises behind the erased lifetimes of the thread pool, for any    *)
(* number of threads, scopes, jobs and levels of help.                     *)
(***************************************************************************)
EXTENDS ThreadPool, FiniteSetTheorems, TLAPS

-----------------------------------------------------------------------------
(* Where the callbacks of a scope are *)

Pcs == {"run", "record", "count", "signal", "wait", "poll", "local", "global", "stall", "select",
        "wake", "leave", "deep", "hire", "sleep", "block", "rise", "fire", "join", "take"}
FrameSet == [kind : {"loop", "job", "root"}, scope : 0..MaxScopes, pc : Pcs, bad : BOOLEAN]

\* The callback of a frame has not counted itself yet.
Uncounted(f) ==
  \/ f.kind = "job" /\ f.pc \in {"run", "wake", "record", "count"}
  \/ f.kind = "root" /\ f.pc \in {"run", "count"}

\* A wait has taken the completion message, or its own thread sent it.
Told(f) == f.kind = "root" /\ f.pc \in {"wake", "leave", "rise", "fire", "join", "take"}

\* The place <<w, t, i>> is taken by a callback of s that is queued or not yet counted; g, l, o
\* and k are the shared queue, the deques, the outgoing jobs and the stacks.
HeldAt(g, l, o, k, s, w, t, i) ==
  \/ w = "global" /\ t = Main /\ i \in 1..Len(g) /\ g[i] = s
  \/ w = "local" /\ i \in 1..Len(l[t]) /\ l[t][i] = s
  \/ w = "out" /\ i \in 1..Len(o[t]) /\ o[t][i] = s
  \/ w = "stack" /\ i \in 1..Len(k[t]) /\ k[t][i].scope = s /\ Uncounted(k[t][i])

Place == {"global", "local", "out", "stack"} \X Threads \X Nat
Held(g, l, o, k, s) == {p \in Place : HeldAt(g, l, o, k, s, p[1], p[2], p[3])}
Pending(s) == Held(global, local, out, stack, s)

-----------------------------------------------------------------------------
(* The invariant *)

PoolTypeOK ==
  /\ stack \in [Threads -> Seq(FrameSet)]
  /\ local \in [Threads -> Seq(Scopes)]
  /\ out \in [Threads -> Seq(Scopes)]
  /\ global \in Seq(Scopes)
  /\ boss \in [Backups -> Threads \cup {None}]
  /\ counts \in [Scopes -> [expected : Nat, completed : Nat]]
  /\ done \in [Scopes -> Nat]
  /\ parent \in [Scopes -> 0..MaxScopes]
  /\ outcome \in [Scopes -> {"unborn", "open", "ok", "panic"}]

\* A stack begins with a worker's loop, or with a scope of the main thread.  A scope is opened by
\* a running callback of its parent, a job is run by a loop or by a wait that helps.
FrameOK(t, i) ==
  LET f == stack[t][i]
      below == stack[t][i - 1]
  IN  /\ f.kind = "loop" => i = 1 /\ t # Main /\ f.pc \in {"local", "global", "stall", "select"}
      /\ i = 1 => f.kind = "loop" \/ (t = Main /\ parent[f.scope] = 0)
      /\ f.kind # "loop" => f.scope \in Scopes
      /\ f.kind = "job" => f.pc \in {"run", "wake", "record", "count", "signal"}
      /\ f.kind = "root" => f.pc # "record"
      /\ t = Main => f.kind = "root" /\ f.pc \in {"run", "count", "signal", "wait", "block", "take"}
      /\ i > 1 /\ f.kind = "root" => /\ below.kind # "loop" /\ below.pc = "run"
                                     /\ below.scope = parent[f.scope]
      /\ i > 1 /\ f.kind = "job" => 
              below.kind = "loop" \/ (below.kind = "root" /\ below.pc = "poll")

StacksOK == \A t \in Threads : \A i \in 1..Len(stack[t]) : FrameOK(t, i)

BackupsOK == \A b \in Backups : boss[b] = None => stack[b] = <<>>

\* A scope that still expects a callback, or is still to be told, is open, ...
RootAt(s, t, i) == i \in 1..Len(stack[t]) /\ stack[t][i].kind = "root" /\ stack[t][i].scope = s
SenderAt(s, t, i) == /\ i \in 1..Len(stack[t]) /\ stack[t][i].kind # "loop"
                     /\ stack[t][i].pc = "signal" /\ stack[t][i].scope = s
Full(s) == counts[s].completed = counts[s].expected
OpenOK ==
  \A s \in Scopes :
    /\ ~Full(s) => outcome[s] = "open"
    /\ \A t \in Threads : \A i \in Nat : RootAt(s, t, i) \/ SenderAt(s, t, i) => outcome[s] = "open"

\* ... and a scope is open because its wait is on exactly one stack.
RootsOK ==
  \A s \in Scopes :
    /\ outcome[s] = "open" => \E t \in Threads : \E i \in Nat : RootAt(s, t, i)
    /\ \A t, u \in Threads : \A i, j \in Nat : RootAt(s, t, i) /\ RootAt(s, u, j) => t = u /\ i = j

\* A scope expects the callbacks that have counted themselves and those that will.
CountsOK ==
  \A s \in Scopes :
    /\ IsFiniteSet(Pending(s))
    /\ counts[s].expected = counts[s].completed + Cardinality(Pending(s))

\* The completion message: about to be sent by one thread, in the channel, or received.
SignalsOK ==
  \A s \in Scopes :
    /\ done[s] \in {0, 1}
    /\ done[s] = 1 => Full(s) /\ outcome[s] = "open"
    /\ \A t \in Threads : \A i \in Nat : SenderAt(s, t, i) => Full(s) /\ done[s] = 0
    /\ \A t, u \in Threads : \A i, j \in Nat :
         SenderAt(s, t, i) /\ SenderAt(s, u, j) => t = u /\ i = j
    /\ \A t \in Threads : \A i \in Nat : RootAt(s, t, i) /\ Told(stack[t][i]) =>
         Full(s) /\ \A u \in Threads : \A j \in Nat : ~SenderAt(s, u, j)

PoolInv == /\ PoolTypeOK /\ StacksOK /\ BackupsOK /\ OpenOK /\ RootsOK /\ CountsOK /\ SignalsOK

-----------------------------------------------------------------------------
(* Counting *)

\* Places and their contents, before and after, for the lemmas below.
Same(A, B) == IsFiniteSet(A) => IsFiniteSet(B) /\ Cardinality(B) = Cardinality(A)
OneLess(A, B) == IsFiniteSet(A) => IsFiniteSet(B) /\ Cardinality(A) = Cardinality(B) + 1
OneMore(A, B) == IsFiniteSet(A) => IsFiniteSet(B) /\ Cardinality(B) = Cardinality(A) + 1

Queues == [Threads -> Seq(Scopes)]
Stacks == [Threads -> Seq(FrameSet)]

\* A one-to-one map onto the other set shows that two sets have the same number of elements.
LEMMA Mapped ==
  ASSUME NEW A, NEW B, NEW f \in [A -> B],
         \A x, y \in A : f[x] = f[y] => x = y,
         \A y \in B : \E x \in A : f[x] = y
  PROVE  Same(A, B)
<1>1. f \in Bijection(A, B)
  BY DEF Bijection, Injection, Surjection, IsInjective
<1>2. ExistsBijection(A, B)
  BY <1>1 DEF ExistsBijection
<1> QED
  BY <1>2, FS_Bijection DEF Same

\* One element more.
LEMMA Added ==
  ASSUME NEW A, NEW B, NEW p, p \notin A, B = A \cup {p}
  PROVE  OneMore(A, B)
BY FS_AddElement DEF OneMore

\* One element less.
LEMMA Removed ==
  ASSUME NEW A, NEW B, NEW p, p \in A, B = A \ {p}
  PROVE  OneLess(A, B)
<1> SUFFICES ASSUME IsFiniteSet(A) PROVE IsFiniteSet(B) /\ Cardinality(A) = Cardinality(B) + 1
  BY DEF OneLess
<1>1. IsFiniteSet(B) /\ Cardinality(B) = Cardinality(A) - 1
  BY FS_RemoveElement
<1>2. Cardinality(A) \in Nat
  BY FS_CardinalityType
<1> QED
  BY <1>1, <1>2

\* A job is put into an empty list of outgoing jobs.
LEMMA OutAdds ==
  ASSUME NEW g, NEW l, NEW o \in Queues, NEW k, NEW t \in Threads, NEW e \in Scopes, o[t] = <<>>,
         NEW o2, o2 = [o EXCEPT ![t] = <<e>>], NEW s
  PROVE  /\ s = e => OneMore(Held(g, l, o, k, s), Held(g, l, o2, k, s))
         /\ s # e => Same(Held(g, l, o, k, s), Held(g, l, o2, k, s))
<1> DEFINE A == Held(g, l, o, k, s)
           B == Held(g, l, o2, k, s)
           p == <<"out", t, 1>>
<1>1. o2[t] = <<e>> /\ \A u \in Threads \ {t} : o2[u] = o[u]
  BY DEF Queues
<1>2. ASSUME NEW q \in Place PROVE q \in B <=> q \in A \/ (q = p /\ s = e)
  <2>1. PICK w \in {"global", "local", "out", "stack"}, u \in Threads, i \in Nat : q = <<w, u, i>>
    BY DEF Place
  <2>2. CASE w # "out" \/ u # t
    BY <1>1, <2>1, <2>2 DEF Held, HeldAt
  <2>3. CASE w = "out" /\ u = t
    <3>1. q \notin A
      BY <2>1, <2>3 DEF Held, HeldAt
    <3>2. Len(o2[t]) = 1 /\ o2[t][1] = e
      BY <1>1
    <3>3. q \in B <=> i \in 1..1 /\ o2[t][i] = s
      BY <2>1, <2>3, <3>2 DEF Held, HeldAt
    <3> QED
      BY <2>1, <2>3, <3>1, <3>2, <3>3
  <2> QED
    BY <2>2, <2>3
<1>3. p \in Place /\ A \subseteq Place /\ B \subseteq Place /\ p \notin A
  BY DEF Place, Held, HeldAt
<1>4. s = e => B = A \cup {p}
  BY <1>2, <1>3
<1>5. s # e => B = A
  BY <1>2, <1>3
<1> QED
  BY <1>3, <1>4, <1>5, Added DEF Same

\* A job is put at the end of a deque.
PutAt(l, l2, t, e) == l2[t] = Append(l[t], e) /\ \A u \in Threads \ {t} : l2[u] = l[u]

\* A job is put at the back of a deque.
LEMMA LocalAdds ==
  ASSUME NEW g, NEW l \in Queues, NEW o, NEW k, NEW t \in Threads, NEW e \in Scopes,
         NEW l2, PutAt(l, l2, t, e), NEW s
  PROVE  /\ s = e => /\ OneMore(Held(g, l, o, k, s), Held(g, l2, o, k, s))
                     /\ OneLess(Held(g, l2, o, k, s), Held(g, l, o, k, s))
         /\ s # e => /\ Same(Held(g, l, o, k, s), Held(g, l2, o, k, s))
                     /\ Same(Held(g, l2, o, k, s), Held(g, l, o, k, s))
<1> DEFINE A == Held(g, l, o, k, s)
           B == Held(g, l2, o, k, s)
<1>0. PICK n \in Nat : n = Len(l[t]) + 1
  BY DEF Queues
<1> DEFINE p == <<"local", t, n>>
<1>1. /\ Len(l2[t]) = n /\ l2[t][n] = e /\ \A i \in 1..n - 1 : l2[t][i] = l[t][i]
      /\ \A u \in Threads \ {t} : l2[u] = l[u]
  BY <1>0 DEF Queues, PutAt
<1>2. ASSUME NEW q \in Place PROVE q \in B <=> q \in A \/ (q = p /\ s = e)
  <2>1. PICK w \in {"global", "local", "out", "stack"}, u \in Threads, i \in Nat : q = <<w, u, i>>
    BY DEF Place
  <2>2. CASE w # "local" \/ u # t
    BY <1>1, <2>1, <2>2 DEF Held, HeldAt
  <2>3. CASE w = "local" /\ u = t
    <3>1. q \in A <=> i \in 1..n - 1 /\ l[t][i] = s
      BY <1>0, <2>1, <2>3 DEF Held, HeldAt, Queues
    <3>2. q \in B <=> i \in 1..n /\ l2[t][i] = s
      BY <1>1, <2>1, <2>3 DEF Held, HeldAt
    <3>3. CASE i = n
      <4>1. n \in 1..n /\ n \notin 1..n - 1
        BY <1>0 DEF Queues
      <4> QED
        BY <1>1, <2>1, <2>3, <3>1, <3>2, <3>3, <4>1
    <3>4. CASE i # n
      BY <1>1, <2>1, <3>1, <3>2, <3>4
    <3> QED
      BY <3>3, <3>4
  <2> QED
    BY <2>2, <2>3
<1>3. p \in Place /\ A \subseteq Place /\ B \subseteq Place /\ p \notin A
  BY <1>0 DEF Place, Held, HeldAt, Queues
<1>4. s = e => B = A \cup {p} /\ p \in B /\ A = B \ {p}
  BY <1>2, <1>3
<1>5. s # e => B = A
  BY <1>2, <1>3
<1> QED
  BY <1>3, <1>4, <1>5, Added, Removed DEF Same

\* The newest job is taken from a deque.
LEMMA LocalDrops ==
  ASSUME NEW g, NEW l \in Queues, NEW o, NEW k, NEW t \in Threads, l[t] # <<>>,
         NEW l2, l2 = [l EXCEPT ![t] = Front(@)], NEW s
  PROVE  /\ l2 \in Queues
         /\ s = Last(l[t]) => OneLess(Held(g, l, o, k, s), Held(g, l2, o, k, s))
         /\ s # Last(l[t]) => Same(Held(g, l, o, k, s), Held(g, l2, o, k, s))
<1>1. PICK e \in Scopes : e = Last(l[t])
  BY DEF Queues, Last
<1>2. l2 \in Queues /\ l2[t] = Front(l[t])
  BY DEF Queues, Front
<1>3. l[t] = Append(l2[t], e)
  BY <1>1, <1>2 DEF Queues, Front, Last
<1>4. PutAt(l2, l, t, e)
  BY <1>3 DEF Queues, PutAt
<1>5. /\ s = e => OneLess(Held(g, l, o, k, s), Held(g, l2, o, k, s))
      /\ s # e => Same(Held(g, l, o, k, s), Held(g, l2, o, k, s))
  BY <1>2, <1>3, <1>4, LocalAdds
<1> QED
  BY <1>1, <1>2, <1>5

\* Jobs of a deque are handed over for sending, the oldest first.
LEMMA Split ==
  ASSUME NEW g, NEW l \in Queues, NEW o \in Queues, NEW k, NEW t \in Threads, o[t] = <<>>,
         NEW d \in 0..Len(l[t]),
         NEW l2, l2[t] = SubSeq(l[t], d + 1, Len(l[t])), \A u \in Threads \ {t} : l2[u] = l[u],
         NEW o2, o2[t] = SubSeq(l[t], 1, d), \A u \in Threads \ {t} : o2[u] = o[u], NEW s
  PROVE  Same(Held(g, l, o, k, s), Held(g, l2, o2, k, s))
<1> DEFINE A == Held(g, l, o, k, s)
           B == Held(g, l2, o2, k, s)
           f == [p \in A |-> IF p[1] # "local" \/ p[2] # t THEN p
                             ELSE IF p[3] <= d THEN <<"out", t, p[3]>>
                             ELSE <<"local", t, p[3] - d>>]
<1>1. PICK n \in Nat : n = Len(l[t])
  BY DEF Queues
<1>2. d \in Nat /\ d <= n
  BY <1>1
<1>3. /\ Len(o2[t]) = d /\ \A i \in 1..d : o2[t][i] = l[t][i]
      /\ Len(l2[t]) = n - d /\ \A i \in 1..n - d : l2[t][i] = l[t][i + d]
  BY <1>1, <1>2 DEF Queues
<1>4. ASSUME NEW w \in {"global", "local", "out", "stack"}, NEW u \in Threads, NEW i \in Nat,
             w \notin {"local", "out"} \/ u # t
      PROVE  <<w, u, i>> \in A <=> <<w, u, i>> \in B
  BY <1>4 DEF Held, HeldAt, Place
<1>5. ASSUME NEW i \in Nat
      PROVE  /\ <<"out", t, i>> \notin A
             /\ <<"local", t, i>> \in A <=> i \in 1..n /\ l[t][i] = s
             /\ <<"out", t, i>> \in B <=> i \in 1..d /\ l[t][i] = s
             /\ <<"local", t, i>> \in B <=> i \in 1..n - d /\ l[t][i + d] = s
  <2>1. /\ <<"out", t, i>> \in Place /\ <<"local", t, i>> \in Place
    BY DEF Place
  <2>2. <<"out", t, i>> \notin A
    BY <2>1 DEF Held, HeldAt
  <2>3. <<"local", t, i>> \in A <=> i \in 1..n /\ l[t][i] = s
    BY <1>1, <2>1 DEF Held, HeldAt
  <2>4. <<"out", t, i>> \in B <=> i \in 1..d /\ o2[t][i] = s
    BY <1>3, <2>1 DEF Held, HeldAt
  <2>5. <<"local", t, i>> \in B <=> i \in 1..n - d /\ l2[t][i] = s
    BY <1>3, <2>1 DEF Held, HeldAt
  <2> QED
    BY <1>3, <2>2, <2>3, <2>4, <2>5
<1>6. \A p \in A : \E w \in {"global", "local", "out", "stack"}, u \in Threads, i \in Nat :
                     p = <<w, u, i>> /\ (u = t => w # "out")
  <2>1. ASSUME NEW p \in A
        PROVE  \E w \in {"global", "local", "out", "stack"}, u \in Threads, i \in Nat :
                 p = <<w, u, i>> /\ (u = t => w # "out")
    <3>1. PICK w \in {"global", "local", "out", "stack"}, u \in Threads, i \in Nat : p = <<w, u, i>>
      BY DEF Held, Place
    <3> QED
      BY <1>5, <3>1
  <2> QED
    BY <2>1
<1>7. \A y \in B : \E w \in {"global", "local", "out", "stack"}, u \in Threads, i \in Nat : y = <<w, u, i>>
  BY DEF Held, Place
<1> HIDE DEF A, B
<1>8. ASSUME NEW w \in {"global", "local", "out", "stack"}, NEW u \in Threads, NEW i \in Nat,
             <<w, u, i>> \in A
      PROVE  /\ w # "local" \/ u # t => f[<<w, u, i>>] = <<w, u, i>>
             /\ w = "local" /\ u = t /\ i <= d => f[<<w, u, i>>] = <<"out", t, i>>
             /\ w = "local" /\ u = t /\ ~ (i <= d) => f[<<w, u, i>>] = <<"local", t, i - d>>
  BY <1>8
<1>9. f = [p \in A |-> f[p]]
  OBVIOUS
<1> HIDE DEF f
<1>10. ASSUME NEW p \in A PROVE f[p] \in B
  <2>1. PICK w \in {"global", "local", "out", "stack"}, u \in Threads, i \in Nat :
          p = <<w, u, i>> /\ (u = t => w # "out")
    BY <1>6
  <2>2. CASE w # "local" \/ u # t
    <3>1. f[p] = <<w, u, i>>
      BY <1>8, <2>1, <2>2
    <3>2. <<w, u, i>> \in B
      BY <1>4, <2>1, <2>2
    <3> QED
      BY <3>1, <3>2
  <2>3. CASE w = "local" /\ u = t
    <3>1. i \in 1..n /\ l[t][i] = s
      BY <1>5, <2>1, <2>3
    <3>2. CASE i <= d
      <4>1. i \in 1..d
        BY <1>2, <3>1, <3>2
      <4>2. <<"out", t, i>> \in B
        BY <1>5, <3>1, <4>1
      <4>3. f[p] = <<"out", t, i>>
        BY <1>8, <2>1, <2>3, <3>2
      <4> QED
        BY <4>2, <4>3
    <3>3. CASE ~ (i <= d)
      <4>1. PICK j \in Nat : j = i - d
        BY <1>2, <3>3
      <4>2. j \in 1..n - d /\ l[t][j + d] = s
        BY <1>2, <3>1, <3>3, <4>1
      <4>3. <<"local", t, j>> \in B
        BY <1>5, <4>2
      <4>4. f[p] = <<"local", t, j>>
        BY <1>8, <2>1, <2>3, <3>3, <4>1
      <4> QED
        BY <4>3, <4>4
    <3> QED
      BY <3>2, <3>3
  <2> QED
    BY <2>2, <2>3
<1>11. f \in [A -> B]
  BY <1>9, <1>10
<1>12. ASSUME NEW x \in A, NEW y \in A, f[x] = f[y] PROVE x = y
  <2>1. PICK w \in {"global", "local", "out", "stack"}, u \in Threads, i \in Nat :
          x = <<w, u, i>> /\ (u = t => w # "out")
    BY <1>6
  <2>2. PICK v \in {"global", "local", "out", "stack"}, z \in Threads, j \in Nat :
          y = <<v, z, j>> /\ (z = t => v # "out")
    BY <1>6
  <2>3. /\ w # "local" \/ u # t => f[<<w, u, i>>] = <<w, u, i>>
        /\ w = "local" /\ u = t /\ i <= d => f[<<w, u, i>>] = <<"out", t, i>>
        /\ w = "local" /\ u = t /\ ~ (i <= d) => f[<<w, u, i>>] = <<"local", t, i - d>>
    <3>1. <<w, u, i>> \in A
      BY <2>1
    <3> QED
      BY <1>8, <3>1
  <2>4. /\ v # "local" \/ z # t => f[<<v, z, j>>] = <<v, z, j>>
        /\ v = "local" /\ z = t /\ j <= d => f[<<v, z, j>>] = <<"out", t, j>>
        /\ v = "local" /\ z = t /\ ~ (j <= d) => f[<<v, z, j>>] = <<"local", t, j - d>>
    <3>1. <<v, z, j>> \in A
      BY <2>2
    <3> QED
      BY <1>8, <3>1
  <2>5. CASE w # "local" \/ u # t
    BY <1>12, <2>1, <2>2, <2>3, <2>4, <2>5
  <2>6. CASE w = "local" /\ u = t /\ i <= d
    <3>1. f[<<v, z, j>>] = <<"out", t, i>>
      BY <1>12, <2>1, <2>2, <2>3, <2>6
    <3>2. CASE v # "local" \/ z # t
      BY <2>2, <2>4, <3>1, <3>2
    <3>3. CASE v = "local" /\ z = t /\ j <= d
      <4>1. <<"out", t, i>> = <<"out", t, j>>
        BY <2>4, <3>1, <3>3
      <4> QED
        BY <2>1, <2>2, <2>6, <3>3, <4>1
    <3>4. CASE v = "local" /\ z = t /\ ~ (j <= d)
      BY <2>4, <3>1, <3>4
    <3> QED
      BY <3>2, <3>3, <3>4
  <2>7. CASE w = "local" /\ u = t /\ ~ (i <= d)
    <3>1. f[<<v, z, j>>] = <<"local", t, i - d>>
      BY <1>12, <2>1, <2>2, <2>3, <2>7
    <3>2. CASE v # "local" \/ z # t
      BY <2>2, <2>4, <3>1, <3>2
    <3>3. CASE v = "local" /\ z = t /\ j <= d
      BY <2>4, <3>1, <3>3
    <3>4. CASE v = "local" /\ z = t /\ ~ (j <= d)
      <4>1. i - d = j - d
        BY <2>4, <3>1, <3>4
      <4>2. i = j
        BY <1>2, <4>1
      <4> QED
        BY <2>1, <2>2, <2>7, <3>4, <4>2
    <3> QED
      BY <3>2, <3>3, <3>4
  <2> QED
    BY <2>5, <2>6, <2>7
<1>13. ASSUME NEW y \in B PROVE \E x \in A : f[x] = y
  <2>1. PICK w \in {"global", "local", "out", "stack"}, u \in Threads, i \in Nat : y = <<w, u, i>>
    BY <1>7
  <2>2. CASE w \notin {"local", "out"} \/ u # t
    <3>1. y \in A
      BY <1>4, <2>1, <2>2
    <3> QED
      BY <1>8, <2>1, <2>2, <3>1
  <2>3. CASE w = "out" /\ u = t
    <3>1. <<"local", t, i>> \in A /\ i <= d
      BY <1>2, <1>5, <2>1, <2>3
    <3> QED
      BY <1>8, <2>1, <2>3, <3>1
  <2>4. CASE w = "local" /\ u = t
    <3>1. i \in 1..n - d /\ l[t][i + d] = s
      BY <1>5, <2>1, <2>4
    <3>2. PICK j \in Nat : j = i + d
      BY <1>2
    <3>3. j \in 1..n /\ l[t][j] = s /\ j - d = i /\ ~ (j <= d)
      BY <1>2, <3>1, <3>2
    <3>4. <<"local", t, j>> \in A
      BY <1>5, <3>3
    <3> QED
      BY <1>8, <2>1, <2>4, <3>3, <3>4
  <2> QED
    BY <2>2, <2>3, <2>4
<1>14. Same(A, B)
  BY <1>11, <1>12, <1>13, Mapped
<1> QED
  BY <1>14 DEF A, B

\* The first element of a sequence is left out: those behind it move up by one.
LEMMA Shifted ==
  ASSUME NEW A \in SUBSET Place, NEW B \in SUBSET Place,
         NEW w \in {"global", "local", "out", "stack"}, NEW t \in Threads,
         \A v \in {"global", "local", "out", "stack"}, u \in Threads, i \in Nat :
           v # w \/ u # t => (<<v, u, i>> \in A <=> <<v, u, i>> \in B),
         \A i \in Nat : <<w, t, i>> \in A => i # 0,
         \A i \in Nat : <<w, t, i>> \in B => i # 0,
         \A i, j \in Nat : i # 0 /\ j = i + 1 => (<<w, t, i>> \in B <=> <<w, t, j>> \in A)
  PROVE  Same(A \ {<<w, t, 1>>}, B)
<1> DEFINE C == A \ {<<w, t, 1>>}
           f == [p \in C |-> IF p[1] # w \/ p[2] # t THEN p ELSE <<w, t, p[3] - 1>>]
<1>1. \A p \in Place : \E v \in {"global", "local", "out", "stack"}, u \in Threads, i \in Nat :
                         p = <<v, u, i>>
  BY DEF Place
<1>2. C \in SUBSET A /\ <<w, t, 1>> \notin C /\ \A p \in A : p \in C \/ p = <<w, t, 1>>
  OBVIOUS
<1> HIDE DEF C
<1>3. ASSUME NEW v \in {"global", "local", "out", "stack"}, NEW u \in Threads, NEW i \in Nat,
             <<v, u, i>> \in C
      PROVE  /\ v # w \/ u # t => f[<<v, u, i>>] = <<v, u, i>>
             /\ v = w /\ u = t => f[<<v, u, i>>] = <<w, t, i - 1>> /\ i - 1 \in Nat /\ i - 1 # 0
  <2>1. /\ v # w \/ u # t => f[<<v, u, i>>] = <<v, u, i>>
        /\ v = w /\ u = t => f[<<v, u, i>>] = <<w, t, i - 1>>
    BY <1>3
  <2>2. v = w /\ u = t => i # 0 /\ i # 1
    BY <1>2, <1>3
  <2> QED
    BY <2>1, <2>2
<1>4. f = [p \in C |-> f[p]]
  OBVIOUS
<1> HIDE DEF f
<1>5. ASSUME NEW p \in C PROVE f[p] \in B
  <2>1. PICK v \in {"global", "local", "out", "stack"}, u \in Threads, i \in Nat : p = <<v, u, i>>
    BY <1>1, <1>2
  <2>2. CASE v # w \/ u # t
    <3>1. <<v, u, i>> \in B /\ <<v, u, i>> \in C
      BY <1>2, <2>1, <2>2
    <3> QED
      BY <1>3, <2>1, <2>2, <3>1
  <2>3. CASE v = w /\ u = t
    <3>1. PICK j \in Nat : j = i - 1 /\ j # 0 /\ i = j + 1
      BY <1>3, <2>1, <2>3
    <3>2. <<w, t, j>> \in B
      BY <1>2, <2>1, <2>3, <3>1
    <3> QED
      BY <1>3, <2>1, <2>3, <3>1, <3>2
  <2> QED
    BY <2>2, <2>3
<1>6. f \in [C -> B]
  BY <1>4, <1>5
<1>7. ASSUME NEW x \in C, NEW y \in C, f[x] = f[y] PROVE x = y
  <2>1. PICK v \in {"global", "local", "out", "stack"}, u \in Threads, i \in Nat : x = <<v, u, i>>
    BY <1>1, <1>2
  <2>2. PICK v2 \in {"global", "local", "out", "stack"}, u2 \in Threads, i2 \in Nat :
          y = <<v2, u2, i2>>
    BY <1>1, <1>2
  <2>3. /\ v # w \/ u # t => f[<<v, u, i>>] = <<v, u, i>>
        /\ v = w /\ u = t => f[<<v, u, i>>] = <<w, t, i - 1>>
    BY <1>3, <2>1
  <2>4. /\ v2 # w \/ u2 # t => f[<<v2, u2, i2>>] = <<v2, u2, i2>>
        /\ v2 = w /\ u2 = t => f[<<v2, u2, i2>>] = <<w, t, i2 - 1>>
    BY <1>3, <2>2
  <2>5. f[<<v, u, i>>] = f[<<v2, u2, i2>>]
    BY <1>7, <2>1, <2>2
  <2>6. CASE v # w \/ u # t
    <3>1. CASE v2 # w \/ u2 # t
      BY <2>1, <2>2, <2>3, <2>4, <2>5, <2>6, <3>1
    <3>2. CASE v2 = w /\ u2 = t
      BY <2>3, <2>4, <2>5, <2>6, <3>2
    <3> QED
      BY <3>1, <3>2
  <2>7. CASE v = w /\ u = t
    <3>1. CASE v2 # w \/ u2 # t
      BY <2>3, <2>4, <2>5, <2>7, <3>1
    <3>2. CASE v2 = w /\ u2 = t
      <4>1. i - 1 = i2 - 1
        BY <2>3, <2>4, <2>5, <2>7, <3>2
      <4>2. i = i2
        BY <4>1
      <4> QED
        BY <2>1, <2>2, <2>7, <3>2, <4>2
    <3> QED
      BY <3>1, <3>2
  <2> QED
    BY <2>6, <2>7
<1>8. ASSUME NEW y \in B PROVE \E x \in C : f[x] = y
  <2>1. PICK v \in {"global", "local", "out", "stack"}, u \in Threads, i \in Nat : y = <<v, u, i>>
    BY <1>1
  <2>2. CASE v # w \/ u # t
    <3>1. <<v, u, i>> \in C
      BY <1>2, <2>1, <2>2
    <3> QED
      BY <1>3, <2>1, <2>2, <3>1
  <2>3. CASE v = w /\ u = t
    <3>1. PICK j \in Nat : j = i + 1 /\ j - 1 = i
      OBVIOUS
    <3>2. i # 0 /\ j # 1
      BY <2>1, <2>3, <3>1
    <3>3. <<w, t, j>> \in C
      BY <1>2, <2>1, <2>3, <3>1, <3>2
    <3> QED
      BY <1>3, <2>1, <2>3, <3>1, <3>3
  <2> QED
    BY <2>2, <2>3
<1>9. Same(C, B)
  BY <1>6, <1>7, <1>8, Mapped
<1> QED
  BY <1>9 DEF C

\* What that means for the number of elements.
LEMMA Shortened ==
  ASSUME NEW A, NEW B, NEW p, Same(A \ {p}, B)
  PROVE  (p \in A => OneLess(A, B)) /\ (p \notin A => Same(A, B))
<1>1. ASSUME p \in A PROVE OneLess(A, B)
  <2>1. OneLess(A, A \ {p})
    BY <1>1, Removed
  <2> QED
    BY <2>1 DEF OneLess, Same
<1>2. p \notin A => A \ {p} = A
  OBVIOUS
<1> QED
  BY <1>1, <1>2

\* The first job is taken from the shared queue.
LEMMA GlobalDrops ==
  ASSUME NEW g \in Seq(Scopes), g # <<>>, NEW l, NEW o, NEW k,
         NEW g2, g2 = Tail(g), NEW e, e = Head(g), NEW s
  PROVE  /\ s = e => OneLess(Held(g, l, o, k, s), Held(g2, l, o, k, s))
         /\ s # e => Same(Held(g, l, o, k, s), Held(g2, l, o, k, s))
<1> DEFINE A == Held(g, l, o, k, s)
           B == Held(g2, l, o, k, s)
<1>1. PICK n \in Nat : n = Len(g) /\ n # 0
  OBVIOUS
<1>2. Len(g2) = n - 1 /\ \A i \in 1..n - 1 : g2[i] = g[i + 1]
  BY <1>1
<1>3. Main \in Threads
  BY DEF Threads
<1>4. ASSUME NEW i \in Nat
      PROVE  /\ <<"global", Main, i>> \in A <=> i \in 1..n /\ g[i] = s
             /\ <<"global", Main, i>> \in B <=> i \in 1..n - 1 /\ g2[i] = s
  <2>1. <<"global", Main, i>> \in Place
    BY <1>3 DEF Place
  <2> QED
    BY <1>1, <1>2, <2>1 DEF Held, HeldAt
<1>5. \A i, j \in Nat : i # 0 /\ j = i + 1 =>
        (<<"global", Main, i>> \in B <=> <<"global", Main, j>> \in A)
  <2>1. \A i, j \in Nat : i # 0 /\ j = i + 1 => (i \in 1..n - 1 <=> j \in 1..n)
    BY <1>1
  <2>2. \A i, j \in Nat : i \in 1..n - 1 /\ j = i + 1 => g2[i] = g[j]
    BY <1>2
  <2> QED
    BY <1>4, <2>1, <2>2
<1>6. \A v \in {"global", "local", "out", "stack"}, u \in Threads, i \in Nat :
        v # "global" \/ u # Main => (<<v, u, i>> \in A <=> <<v, u, i>> \in B)
  BY DEF Held, HeldAt, Place
<1>7. /\ \A i \in Nat : <<"global", Main, i>> \in A => i # 0
      /\ \A i \in Nat : <<"global", Main, i>> \in B => i # 0
  BY <1>1, <1>4
<1>8. A \in SUBSET Place /\ B \in SUBSET Place
  BY DEF Held
<1>9. <<"global", Main, 1>> \in A <=> s = e
  BY <1>1, <1>4
<1> HIDE DEF A, B
<1>10. Same(A \ {<<"global", Main, 1>>}, B)
  BY <1>3, <1>5, <1>6, <1>7, <1>8, Shifted
<1>11. (s = e => OneLess(A, B)) /\ (s # e => Same(A, B))
  BY <1>9, <1>10, Shortened
<1> QED
  BY <1>11 DEF A, B

\* The first of the outgoing jobs is sent.
LEMMA OutDrops ==
  ASSUME NEW g, NEW l, NEW o \in Queues, NEW k, NEW t \in Threads, o[t] # <<>>,
         NEW o2, o2[t] = Tail(o[t]), \A u \in Threads \ {t} : o2[u] = o[u],
         NEW e, e = Head(o[t]), NEW s
  PROVE  /\ s = e => OneLess(Held(g, l, o, k, s), Held(g, l, o2, k, s))
         /\ s # e => Same(Held(g, l, o, k, s), Held(g, l, o2, k, s))
<1> DEFINE A == Held(g, l, o, k, s)
           B == Held(g, l, o2, k, s)
<1>1. PICK n \in Nat : n = Len(o[t]) /\ n # 0
  BY DEF Queues
<1>2. /\ Len(o2[t]) = n - 1 /\ \A i \in 1..n - 1 : o2[t][i] = o[t][i + 1]
      /\ o[t][1] = e
  BY <1>1 DEF Queues
<1>4. ASSUME NEW i \in Nat
      PROVE  /\ <<"out", t, i>> \in A <=> i \in 1..n /\ o[t][i] = s
             /\ <<"out", t, i>> \in B <=> i \in 1..n - 1 /\ o2[t][i] = s
  <2>1. <<"out", t, i>> \in Place
    BY DEF Place
  <2> QED
    BY <1>1, <1>2, <2>1 DEF Held, HeldAt
<1>5. \A i, j \in Nat : i # 0 /\ j = i + 1 => (<<"out", t, i>> \in B <=> <<"out", t, j>> \in A)
  <2>1. ASSUME NEW i \in Nat, NEW j \in Nat, i # 0, j = i + 1
        PROVE  <<"out", t, i>> \in B <=> <<"out", t, j>> \in A
    <3>1. i \in 1..n - 1 <=> j \in 1..n
      BY <1>1, <2>1
    <3>2. i \in 1..n - 1 => o2[t][i] = o[t][j]
      BY <1>2, <2>1
    <3>3. <<"out", t, i>> \in B <=> i \in 1..n - 1 /\ o2[t][i] = s
      BY <1>4
    <3>4. <<"out", t, j>> \in A <=> j \in 1..n /\ o[t][j] = s
      BY <1>4
    <3> QED
      BY <3>1, <3>2, <3>3, <3>4
  <2> QED
    BY <2>1
<1>6. \A v \in {"global", "local", "out", "stack"}, u \in Threads, i \in Nat :
        v # "out" \/ u # t => (<<v, u, i>> \in A <=> <<v, u, i>> \in B)
  BY DEF Held, HeldAt, Place
<1>7. /\ \A i \in Nat : <<"out", t, i>> \in A => i # 0
      /\ \A i \in Nat : <<"out", t, i>> \in B => i # 0
  BY <1>1, <1>4
<1>8. A \in SUBSET Place /\ B \in SUBSET Place
  BY DEF Held
<1>9. <<"out", t, 1>> \in A <=> s = e
  BY <1>1, <1>2, <1>4
<1> HIDE DEF A, B
<1>10. Same(A \ {<<"out", t, 1>>}, B)
  BY <1>5, <1>6, <1>7, <1>8, Shifted
<1>11. (s = e => OneLess(A, B)) /\ (s # e => Same(A, B))
  BY <1>9, <1>10, Shortened
<1> QED
  BY <1>11 DEF A, B

\* A job is put at the end of the shared queue.
LEMMA GlobalAdds ==
  ASSUME NEW g \in Seq(Scopes), NEW l, NEW o, NEW k, NEW e \in Scopes,
         NEW g2, g2 = Append(g, e), NEW s
  PROVE  /\ s = e => OneMore(Held(g, l, o, k, s), Held(g2, l, o, k, s))
         /\ s # e => Same(Held(g, l, o, k, s), Held(g2, l, o, k, s))
<1> DEFINE A == Held(g, l, o, k, s)
           B == Held(g2, l, o, k, s)
<1>1. PICK n \in Nat : n = Len(g) + 1
  OBVIOUS
<1> DEFINE p == <<"global", Main, n>>
<1>2. Len(g2) = n /\ g2[n] = e /\ \A i \in 1..n - 1 : g2[i] = g[i]
  BY <1>1
<1>3. ASSUME NEW q \in Place PROVE q \in B <=> q \in A \/ (q = p /\ s = e)
  <2>1. PICK w \in {"global", "local", "out", "stack"}, u \in Threads, i \in Nat : q = <<w, u, i>>
    BY DEF Place
  <2>2. CASE w # "global" \/ u # Main
    BY <2>1, <2>2 DEF Held, HeldAt
  <2>3. CASE w = "global" /\ u = Main
    <3>1. q \in A <=> i \in 1..n - 1 /\ g[i] = s
      BY <1>1, <2>1, <2>3 DEF Held, HeldAt
    <3>2. q \in B <=> i \in 1..n /\ g2[i] = s
      BY <1>2, <2>1, <2>3 DEF Held, HeldAt
    <3>3. CASE i = n
      <4>1. n \in 1..n /\ n \notin 1..n - 1
        BY <1>1
      <4> QED
        BY <1>2, <2>1, <2>3, <3>1, <3>2, <3>3, <4>1
    <3>4. CASE i # n
      BY <1>2, <2>1, <3>1, <3>2, <3>4
    <3> QED
      BY <3>3, <3>4
  <2> QED
    BY <2>2, <2>3
<1>4. p \in Place /\ A \subseteq Place /\ B \subseteq Place /\ p \notin A
  BY <1>1 DEF Place, Held, HeldAt, Threads
<1>5. s = e => B = A \cup {p}
  BY <1>3, <1>4
<1>6. s # e => B = A
  BY <1>3, <1>4
<1> QED
  BY <1>4, <1>5, <1>6, Added DEF Same

\* A send moves one job.
LEMMA Sent ==
  ASSUME NEW g \in Seq(Scopes), NEW l, NEW o \in Queues, NEW k, NEW t \in Threads, o[t] # <<>>,
         NEW g2, g2 = Append(g, Head(o[t])),
         NEW o2, o2[t] = Tail(o[t]), \A u \in Threads \ {t} : o2[u] = o[u], NEW s
  PROVE  Same(Held(g, l, o, k, s), Held(g2, l, o2, k, s))
<1>1. PICK e \in Scopes : e = Head(o[t])
  BY DEF Queues
<1>2. g2 = Append(g, e)
  BY <1>1
<1> DEFINE A == Held(g, l, o, k, s)
           B == Held(g, l, o2, k, s)
           C == Held(g2, l, o2, k, s)
<1>3. (s = e => OneLess(A, B)) /\ (s # e => Same(A, B))
  BY <1>1, OutDrops
<1>4. (s = e => OneMore(B, C)) /\ (s # e => Same(B, C))
  BY <1>2, GlobalAdds
<1> HIDE DEF A, B, C
<1>5. Same(A, C)
  BY <1>3, <1>4 DEF Same, OneMore, OneLess
<1> QED
  BY <1>5 DEF A, C

\* Two stacks agree on the callbacks of s, but for the one at place i of t.
AlikeBut(k, k2, s, t, i) ==
  \A u \in Threads : \A j \in Nat :
    u # t \/ j # i =>
      (/\ j \in 1..Len(k[u]) /\ k[u][j].scope = s /\ Uncounted(k[u][j]))
        <=> (/\ j \in 1..Len(k2[u]) /\ k2[u][j].scope = s /\ Uncounted(k2[u][j]))

\* What one frame adds or takes away.
LEMMA FrameCounts ==
  ASSUME NEW g, NEW l, NEW o, NEW k, NEW k2, NEW s, NEW t \in Threads, NEW n \in Nat,
         AlikeBut(k, k2, s, t, n)
  PROVE  LET had == n \in 1..Len(k[t]) /\ k[t][n].scope = s /\ Uncounted(k[t][n])
             has == n \in 1..Len(k2[t]) /\ k2[t][n].scope = s /\ Uncounted(k2[t][n])
             A == Held(g, l, o, k, s)
             B == Held(g, l, o, k2, s)
         IN  /\ (had <=> has) => Same(A, B)
             /\ had /\ ~has => OneLess(A, B)
             /\ ~had /\ has => OneMore(A, B)
<1> DEFINE had == n \in 1..Len(k[t]) /\ k[t][n].scope = s /\ Uncounted(k[t][n])
           has == n \in 1..Len(k2[t]) /\ k2[t][n].scope = s /\ Uncounted(k2[t][n])
           A == Held(g, l, o, k, s)
           B == Held(g, l, o, k2, s)
           p == <<"stack", t, n>>
<1>1. p \in Place /\ A \subseteq Place /\ B \subseteq Place
  BY DEF Place, Held
<1>2. (p \in A <=> had) /\ (p \in B <=> has)
  BY <1>1 DEF Held, HeldAt
<1>3. ASSUME NEW q \in Place, q # p PROVE q \in A <=> q \in B
  <2>1. PICK w \in {"global", "local", "out", "stack"}, u \in Threads, i \in Nat : q = <<w, u, i>>
    BY DEF Place
  <2>2. CASE w # "stack"
    BY <2>1, <2>2 DEF Held, HeldAt
  <2>3. CASE w = "stack"
    <3>1. u # t \/ i # n
      BY <1>3, <2>1, <2>3
    <3> QED
      BY <2>1, <2>3, <3>1 DEF Held, HeldAt, AlikeBut
  <2> QED
    BY <2>2, <2>3
<1> HIDE DEF had, has, A, B, p
<1>4. (had <=> has) => A = B
  BY <1>1, <1>2, <1>3
<1>5. had /\ ~has => p \in A /\ B = A \ {p}
  BY <1>1, <1>2, <1>3
<1>6. ~had /\ has => p \notin A /\ B = A \cup {p}
  BY <1>1, <1>2, <1>3
<1>7. /\ (had <=> has) => Same(A, B)
      /\ had /\ ~has => OneLess(A, B)
      /\ ~had /\ has => OneMore(A, B)
  BY <1>4, <1>5, <1>6, Added, Removed DEF Same
<1> QED
  BY <1>7 DEF had, has, A, B

-----------------------------------------------------------------------------
(* Steps that replace the frame on top of a stack *)

\* The places a frame of thread t may be at.
PcOK(t, f) ==
  /\ f.kind = "loop" => f.pc \in {"local", "global", "stall", "select"}
  /\ f.kind = "job" => f.pc \in {"run", "wake", "record", "count", "signal"}
  /\ f.kind = "root" => f.pc # "record"
  /\ t = Main => f.pc \in {"run", "count", "signal", "wait", "block", "take"}

\* The stack of t has f on top, for a frame of the same kind and scope.
Replaced(t, f) ==
  /\ stack' \in Stacks /\ f \in FrameSet
  /\ Len(stack[t]) \in Nat /\ Len(stack[t]) # 0
  /\ Len(stack'[t]) = Len(stack[t]) /\ stack'[t][Len(stack[t])] = f
  /\ f.kind = stack[t][Len(stack[t])].kind /\ f.scope = stack[t][Len(stack[t])].scope
  /\ \A i \in 1..Len(stack[t]) - 1 : stack'[t][i] = stack[t][i]
  /\ \A u \in Threads \ {t} : stack'[u] = stack[u]

\* A frame put on top.
LEMMA PushedIs ==
  ASSUME NEW q \in Seq(FrameSet), NEW f \in FrameSet, NEW r, r = Append(q, f)
  PROVE  /\ r \in Seq(FrameSet) /\ Len(r) = Len(q) + 1 /\ r[Len(q) + 1] = f
         /\ \A i \in 1..Len(q) : r[i] = q[i]
OBVIOUS

\* The frame on top taken away.
LEMMA PoppedIs ==
  ASSUME NEW q \in Seq(FrameSet), q # <<>>, NEW r, r = Front(q)
  PROVE  /\ r \in Seq(FrameSet) /\ Len(r) = Len(q) - 1
         /\ \A i \in 1..Len(q) - 1 : r[i] = q[i]
<1>1. PICK n \in Nat : Len(q) = n /\ n # 0
  OBVIOUS
<1> QED
  BY <1>1 DEF Front

\* r is q with f for the frame on top.
OnTop(q, f) == Append(Front(q), f)
TopIs(q, r, f) == /\ r \in Seq(FrameSet) /\ Len(r) = Len(q) /\ r[Len(q)] = f
                  /\ \A i \in 1..Len(q) - 1 : r[i] = q[i]

\* What Moved does to a stack.
LEMMA MovedIs ==
  ASSUME NEW q \in Seq(FrameSet), q # <<>>, NEW f \in FrameSet
  PROVE  TopIs(q, OnTop(q, f), f)
<1>1. PICK n \in Nat : Len(q) = n /\ n # 0
  OBVIOUS
<1>2. PICK p \in Seq(FrameSet) : p = Front(q) /\ Len(p) = n - 1 /\ \A i \in 1..n - 1 : p[i] = q[i]
  <2>1. PICK p : p = Front(q)
    OBVIOUS
  <2>2. p \in Seq(FrameSet) /\ Len(p) = n - 1 /\ \A i \in 1..n - 1 : p[i] = q[i]
    BY <1>1, <2>1, PoppedIs
  <2> QED
    BY <2>1, <2>2
<1>3. PICK r : r = OnTop(q, f)
  OBVIOUS
<1>4. r \in Seq(FrameSet) /\ Len(r) = Len(p) + 1 /\ r[Len(p) + 1] = f /\ \A i \in 1..Len(p) : r[i] = p[i]
  <2>1. r = Append(p, f)
    BY <1>2, <1>3 DEF OnTop
  <2> QED
    BY <2>1, PushedIs
<1>5. Len(p) + 1 = n /\ 1..Len(p) = 1..n - 1
  BY <1>1, <1>2
<1>6. TopIs(q, r, f)
  BY <1>1, <1>2, <1>4, <1>5 DEF TopIs
<1> QED
  BY <1>3, <1>6

\* A frame replaced in a state that fits the types.
LEMMA ReplaceIs ==
  ASSUME PoolTypeOK, NEW t \in Threads, stack[t] # <<>>, NEW f \in FrameSet,
         f.kind = Top(t).kind, f.scope = Top(t).scope, NEW r, r = OnTop(stack[t], f),
         stack' = [stack EXCEPT ![t] = r]
  PROVE  Replaced(t, f)
<1>1. stack[t] \in Seq(FrameSet) /\ Len(stack[t]) \in Nat /\ Len(stack[t]) # 0
  BY DEF PoolTypeOK
<1>2. TopIs(stack[t], r, f)
  BY <1>1, MovedIs
<1>3. stack' \in Stacks /\ stack'[t] = r /\ \A u \in Threads \ {t} : stack'[u] = stack[u]
  BY <1>2 DEF PoolTypeOK, Stacks, TopIs
<1> QED
  BY <1>1, <1>2, <1>3 DEF Replaced, Top, Last, TopIs

\* Goto moves the frame on top to another place.
LEMMA GotoIs ==
  ASSUME PoolTypeOK, NEW t \in Threads, stack[t] # <<>>, NEW place \in Pcs, Goto(t, place)
  PROVE  \E f \in FrameSet : Replaced(t, f) /\ f.pc = place /\ f.bad = Top(t).bad
<1>1. PICK n \in Nat : n = Len(stack[t]) /\ n # 0
  BY DEF PoolTypeOK
<1>2. Top(t) \in FrameSet
  BY <1>1 DEF PoolTypeOK, Top, Last
<1>3. PICK f \in FrameSet : /\ f = [Top(t) EXCEPT !.pc = place]
                           /\ f.kind = Top(t).kind /\ f.scope = Top(t).scope
                           /\ f.pc = place /\ f.bad = Top(t).bad
  <2>1. PICK g : g = Top(t)
    OBVIOUS
  <2>2. PICK f : f = [g EXCEPT !.pc = place]
    OBVIOUS
  <2>3. g \in FrameSet
    BY <1>2, <2>1
  <2>4. /\ f \in FrameSet /\ f.kind = g.kind /\ f.scope = g.scope
        /\ f.pc = place /\ f.bad = g.bad
    BY <2>2, <2>3 DEF FrameSet
  <2> QED
    BY <2>1, <2>2, <2>4
<1>4. stack' = [stack EXCEPT ![t] = OnTop(stack[t], f)]
  BY <1>3 DEF Goto, Moved, OnTop
<1> QED
  BY <1>3, <1>4, ReplaceIs

\* Replacing a frame keeps the shape of the stacks, and the places of the waits.
LEMMA ReplacedFrames ==
  ASSUME PoolTypeOK, StacksOK, NEW t \in Threads, NEW f, Replaced(t, f), UNCHANGED parent, PcOK(t, f)
  PROVE  /\ StacksOK'
         /\ \A s \in Scopes : \A u \in Threads : \A i \in Nat : RootAt(s, u, i)' <=> RootAt(s, u, i)
         /\ \A s \in Scopes : \A u \in Threads : \A i \in Nat : u # t \/ i # Len(stack[t]) =>
              (SenderAt(s, u, i)' <=> SenderAt(s, u, i))
         /\ \A s \in Scopes : AlikeBut(stack, stack', s, t, Len(stack[t]))
<1>1. PICK n \in Nat : n = Len(stack[t]) /\ n # 0
  BY DEF Replaced
<1>2. /\ Len(stack'[t]) = n /\ stack'[t][n] = f
      /\ f.kind = stack[t][n].kind /\ f.scope = stack[t][n].scope
      /\ \A i \in 1..n - 1 : stack'[t][i] = stack[t][i]
      /\ \A u \in Threads \ {t} : stack'[u] = stack[u]
  BY <1>1 DEF Replaced
<1>3. ASSUME NEW u \in Threads, NEW i \in 1..Len(stack'[u]) PROVE FrameOK(u, i)'
  <2>1. CASE u # t
    BY <1>2, <2>1 DEF StacksOK, FrameOK
  <2>2. CASE u = t /\ i # n
    <3>1. i \in 1..n - 1 /\ i \in 1..n /\ (i > 1 => i - 1 \in 1..n - 1)
      BY <1>1, <1>2, <2>2
    <3>2. stack'[t][i] = stack[t][i] /\ (i > 1 => stack'[t][i - 1] = stack[t][i - 1])
      BY <1>2, <3>1
    <3>3. FrameOK(t, i)
      BY <1>1, <3>1 DEF StacksOK
    <3> QED
      BY <2>2, <3>2, <3>3 DEF FrameOK
  <2>3. CASE u = t /\ i = n
    <3>1. n \in 1..n /\ (n > 1 => n - 1 \in 1..n - 1)
      BY <1>1
    <3>2. FrameOK(t, n) /\ (n > 1 => stack'[t][n - 1] = stack[t][n - 1])
      BY <1>1, <1>2, <3>1 DEF StacksOK
    <3> QED
      BY <1>2, <2>3, <3>2 DEF FrameOK, PcOK
  <2> QED
    BY <2>1, <2>2, <2>3
<1>4. StacksOK'
  BY <1>3 DEF StacksOK
<1>5. ASSUME NEW u \in Threads, NEW i \in Nat
      PROVE  /\ i \in 1..Len(stack'[u]) <=> i \in 1..Len(stack[u])
             /\ (u # t \/ i # n) /\ i \in 1..Len(stack[u]) => stack'[u][i] = stack[u][i]
  <2>1. CASE u # t
    BY <1>2, <2>1
  <2>2. CASE u = t
    BY <1>1, <1>2, <2>2
  <2> QED
    BY <2>1, <2>2
<1>6. ASSUME NEW s \in Scopes, NEW u \in Threads, NEW i \in Nat
      PROVE  RootAt(s, u, i)' <=> RootAt(s, u, i)
  BY <1>2, <1>5 DEF RootAt
<1>7. ASSUME NEW s \in Scopes, NEW u \in Threads, NEW i \in Nat, u # t \/ i # n
      PROVE  SenderAt(s, u, i)' <=> SenderAt(s, u, i)
  BY <1>5, <1>7 DEF SenderAt
<1>8. ASSUME NEW s \in Scopes PROVE AlikeBut(stack, stack', s, t, n)
  BY <1>5 DEF AlikeBut
<1> QED
  BY <1>1, <1>4, <1>6, <1>7, <1>8

\* A step that leaves the counts of the scopes, and what has become of them, alone.
LEMMA QuietStep ==
  ASSUME PoolInv, PoolTypeOK', StacksOK', BackupsOK', UNCHANGED <<counts, outcome>>,
         \A s \in Scopes : done'[s] = done[s] \/ done'[s] = 0,
         \A s \in Scopes : \A u \in Threads : \A i \in Nat :
           /\ RootAt(s, u, i)' <=> RootAt(s, u, i)
           /\ SenderAt(s, u, i)' <=> SenderAt(s, u, i)
           /\ RootAt(s, u, i) /\ Told(stack'[u][i]) => Told(stack[u][i]) \/ done[s] = 1,
         \A s \in Scopes : Same(Pending(s), Pending(s)')
  PROVE  PoolInv'
<1>1. \A s \in Scopes : Full(s)' <=> Full(s)
  BY DEF Full
<1>2. OpenOK'
  BY <1>1 DEF PoolInv, OpenOK
<1>3. RootsOK'
  BY DEF PoolInv, RootsOK
<1>4. CountsOK'
  <2>1. ASSUME NEW s \in Scopes
        PROVE  /\ IsFiniteSet(Pending(s)')
               /\ counts'[s].expected = counts'[s].completed + Cardinality(Pending(s)')
    BY DEF PoolInv, CountsOK, Same
  <2> QED
    BY <2>1 DEF CountsOK
<1>5. SignalsOK'
  <2>1. ASSUME NEW s \in Scopes, NEW t \in Threads, NEW i \in Nat,
               RootAt(s, t, i)', Told(stack'[t][i])
        PROVE  Full(s) /\ \A u \in Threads : \A j \in Nat : ~SenderAt(s, u, j)
    <3>1. Told(stack[t][i]) \/ done[s] = 1
      BY <2>1
    <3>2. RootAt(s, t, i)
      BY <2>1
    <3>3. CASE Told(stack[t][i])
      BY <3>2, <3>3 DEF PoolInv, SignalsOK
    <3>4. CASE done[s] = 1
      BY <3>4 DEF PoolInv, SignalsOK
    <3> QED
      BY <3>1, <3>3, <3>4
  <2>2. ASSUME NEW s \in Scopes
        PROVE  /\ done'[s] \in {0, 1}
               /\ done'[s] = 1 => Full(s)' /\ outcome'[s] = "open"
               /\ \A t \in Threads : \A i \in Nat : SenderAt(s, t, i)' => Full(s)' /\ done'[s] = 0
               /\ \A t, u \in Threads : \A i, j \in Nat :
                    SenderAt(s, t, i)' /\ SenderAt(s, u, j)' => t = u /\ i = j
    BY <1>1 DEF PoolInv, SignalsOK
  <2>3. \A s \in Scopes : \A t \in Threads : \A i \in Nat : RootAt(s, t, i)' /\ Told(stack'[t][i]) =>
          Full(s)' /\ \A u \in Threads : \A j \in Nat : ~SenderAt(s, u, j)'
    BY <1>1, <2>1
  <2> QED
    BY <2>2, <2>3 DEF SignalsOK
<1> QED
  BY <1>2, <1>3, <1>4, <1>5 DEF PoolInv

\* A thread goes on to another place, and jobs may change hands.
LEMMA QuietMove ==
  ASSUME PoolInv, NEW t \in Threads, NEW f, Replaced(t, f), PcOK(t, f),
         UNCHANGED <<counts, parent, outcome>>,
         local' \in Queues, out' \in Queues, global' \in Seq(Scopes),
         boss' \in [Backups -> Threads \cup {None}], done' \in [Scopes -> Nat],
         \A s \in Scopes : done'[s] = done[s] \/ done'[s] = 0,
         \A b \in Backups : boss'[b] = None => boss[b] = None \/ stack[b] = <<>>,
         Top(t).pc # "signal", f.pc # "signal",
         Uncounted(f) <=> Uncounted(Top(t)),
         Told(f) => Told(Top(t)) \/ done[f.scope] = 1,
         \A s \in Scopes :
           Same(Held(global, local, out, stack, s), Held(global', local', out', stack, s))
  PROVE  PoolInv'
<1>1. PICK n \in Nat : n = Len(stack[t]) /\ n # 0
  BY DEF Replaced
<1>2. /\ Len(stack'[t]) = n /\ stack'[t][n] = f /\ Top(t) = stack[t][n]
      /\ f.kind = stack[t][n].kind /\ f.scope = stack[t][n].scope
      /\ \A i \in 1..n - 1 : stack'[t][i] = stack[t][i]
      /\ \A u \in Threads \ {t} : stack'[u] = stack[u]
  BY <1>1 DEF Replaced, Top, Last
<1>3. /\ StacksOK'
      /\ \A s \in Scopes : \A u \in Threads : \A i \in Nat : RootAt(s, u, i)' <=> RootAt(s, u, i)
      /\ \A s \in Scopes : \A u \in Threads : \A i \in Nat : u # t \/ i # n =>
           (SenderAt(s, u, i)' <=> SenderAt(s, u, i))
      /\ \A s \in Scopes : AlikeBut(stack, stack', s, t, n)
  BY <1>1, ReplacedFrames DEF PoolInv
<1>4. PoolTypeOK'
  BY DEF PoolInv, PoolTypeOK, Replaced, Queues, Stacks
<1>5. BackupsOK'
  <2>1. ASSUME NEW b \in Backups, boss'[b] = None PROVE stack'[b] = <<>>
    <3>1. stack[b] = <<>>
      BY <2>1 DEF PoolInv, BackupsOK
    <3>2. b # t
      BY <1>1, <3>1
    <3> QED
      BY <1>2, <3>1, <3>2 DEF Threads
  <2> QED
    BY <2>1 DEF BackupsOK
<1>6. ASSUME NEW s \in Scopes, NEW u \in Threads, NEW i \in Nat
      PROVE  /\ RootAt(s, u, i)' <=> RootAt(s, u, i)
             /\ SenderAt(s, u, i)' <=> SenderAt(s, u, i)
             /\ RootAt(s, u, i) /\ Told(stack'[u][i]) => Told(stack[u][i]) \/ done[s] = 1
  <2>1. CASE u = t /\ i = n
    <3>1. ~SenderAt(s, u, i)' /\ ~SenderAt(s, u, i)
      BY <1>2, <2>1 DEF SenderAt
    <3>2. RootAt(s, u, i) => f.scope = s
      BY <1>2, <2>1 DEF RootAt
    <3> QED
      BY <1>2, <1>3, <2>1, <3>1, <3>2
  <2>2. CASE u # t \/ i # n
    <3>1. RootAt(s, u, i) => stack'[u][i] = stack[u][i]
      BY <1>1, <1>2, <2>2 DEF RootAt
    <3> QED
      BY <1>3, <2>2, <3>1
  <2> QED
    BY <2>1, <2>2
<1>7. ASSUME NEW s \in Scopes PROVE Same(Pending(s), Pending(s)')
  <2> DEFINE A == Held(global, local, out, stack, s)
             B == Held(global', local', out', stack, s)
             C == Held(global', local', out', stack', s)
  <2>1. Same(A, B)
    OBVIOUS
  <2>2. (n \in 1..Len(stack[t]) /\ stack[t][n].scope = s /\ Uncounted(stack[t][n]))
          <=> (n \in 1..Len(stack'[t]) /\ stack'[t][n].scope = s /\ Uncounted(stack'[t][n]))
    BY <1>1, <1>2
  <2>3. AlikeBut(stack, stack', s, t, n)
    BY <1>3
  <2>4. Same(B, C)
    BY <2>2, <2>3, FrameCounts
  <2> HIDE DEF A, B, C
  <2>5. Same(A, C)
    BY <2>1, <2>4 DEF Same
  <2>6. Same(Pending(s), C)
    BY <2>5 DEF A, Pending
  <2> QED
    BY <2>6 DEF C, Pending
<1> QED
  BY <1>3, <1>4, <1>5, <1>6, <1>7, QuietStep

\* The frame on top.
LEMMA TopIsFrame ==
  ASSUME PoolInv, NEW t \in Threads, stack[t] # <<>>
  PROVE  /\ Top(t) \in FrameSet /\ PcOK(t, Top(t))
         /\ Top(t).kind # "loop" => Top(t).scope \in Scopes
<1>1. PICK n \in Nat : n = Len(stack[t]) /\ n # 0 /\ n \in 1..n
  BY DEF PoolInv, PoolTypeOK
<1>2. Top(t) = stack[t][n] /\ stack[t][n] \in FrameSet
  BY <1>1 DEF PoolInv, PoolTypeOK, Top, Last
<1>3. FrameOK(t, n)
  BY <1>1 DEF PoolInv, StacksOK
<1> QED
  BY <1>2, <1>3 DEF FrameOK, PcOK

\* A thread goes on to another place in the same callback or wait.
LEMMA GotoStep ==
  ASSUME PoolInv, NEW t \in Threads, stack[t] # <<>>, NEW place \in Pcs, Goto(t, place),
         UNCHANGED <<counts, parent, outcome>>,
         local' \in Queues, out' \in Queues, global' \in Seq(Scopes),
         boss' \in [Backups -> Threads \cup {None}], done' \in [Scopes -> Nat],
         \A s \in Scopes : done'[s] = done[s] \/ done'[s] = 0,
         \A b \in Backups : boss'[b] = None => boss[b] = None \/ stack[b] = <<>>,
         Top(t).pc # "signal", place # "signal",
         \A f \in FrameSet : f.kind = Top(t).kind /\ f.scope = Top(t).scope /\ f.pc = place =>
           /\ PcOK(t, f)
           /\ Uncounted(f) <=> Uncounted(Top(t))
           /\ Told(f) => Told(Top(t)) \/ done[f.scope] = 1,
         \A s \in Scopes :
           Same(Held(global, local, out, stack, s), Held(global', local', out', stack, s))
  PROVE  PoolInv'
<1>1. PICK f \in FrameSet : Replaced(t, f) /\ f.pc = place
  BY GotoIs DEF PoolInv
<1>2. f.kind = Top(t).kind /\ f.scope = Top(t).scope
  BY <1>1 DEF Replaced, Top, Last
<1>3. PcOK(t, f) /\ (Uncounted(f) <=> Uncounted(Top(t))) /\ (Told(f) => Told(Top(t)) \/ done[f.scope] = 1)
  BY <1>1, <1>2
<1>4. f.pc # "signal"
  BY <1>1
<1> QED
  BY <1>1, <1>3, <1>4, QuietMove

\* The same when no job changes hands.
LEMMA GotoAlone ==
  ASSUME PoolInv, NEW t \in Threads, stack[t] # <<>>, NEW place \in Pcs, Goto(t, place),
         UNCHANGED <<counts, parent, outcome, local, out, global, boss, done>>,
         Top(t).pc # "signal", place # "signal",
         \A f \in FrameSet : f.kind = Top(t).kind /\ f.scope = Top(t).scope /\ f.pc = place =>
           PcOK(t, f) /\ (Uncounted(f) <=> Uncounted(Top(t))) /\ (Told(f) => Told(Top(t)))
  PROVE  PoolInv'
<1>1. /\ local' \in Queues /\ out' \in Queues /\ global' \in Seq(Scopes)
      /\ boss' \in [Backups -> Threads \cup {None}] /\ done' \in [Scopes -> Nat]
  BY DEF PoolInv, PoolTypeOK, Queues
<1>2. \A s \in Scopes :
        Same(Held(global, local, out, stack, s), Held(global', local', out', stack, s))
  BY DEF Same
<1>3. /\ \A s \in Scopes : done'[s] = done[s] \/ done'[s] = 0
      /\ \A b \in Backups : boss'[b] = None => boss[b] = None \/ stack[b] = <<>>
  OBVIOUS
<1>4. \A f \in FrameSet : f.kind = Top(t).kind /\ f.scope = Top(t).scope /\ f.pc = place =>
           /\ PcOK(t, f)
           /\ Uncounted(f) <=> Uncounted(Top(t))
           /\ Told(f) => Told(Top(t)) \/ done[f.scope] = 1
  OBVIOUS
<1> QED
  BY <1>1, <1>2, <1>3, <1>4, GotoStep

-----------------------------------------------------------------------------
(* Steps of a wait, and of a worker that looks for work *)

\* Steps that only go on.
LEMMA GoesOn ==
  ASSUME PoolInv, NEW t \in Threads,
         \/ RecordPanic(t) \/ Wait(t) \/ BeginStall(t) \/ EndStall(t) \/ Leave(t) \/ Sleep(t)
         \/ Rise(t) \/ Fire(t)
  PROVE  PoolInv'
<1> USE DEF At, pool, help, scopes
<1>1. CASE RecordPanic(t)
  <2>1. stack[t] # <<>> /\ Top(t).kind = "job" /\ Top(t).pc = "record" /\ Goto(t, "count")
    BY <1>1 DEF RecordPanic
  <2>2. PcOK(t, Top(t))
    BY <2>1, TopIsFrame
  <2>3. \A f \in FrameSet : f.kind = Top(t).kind /\ f.scope = Top(t).scope /\ f.pc = "count" =>
          PcOK(t, f) /\ (Uncounted(f) <=> Uncounted(Top(t))) /\ (Told(f) => Told(Top(t)))
    BY <2>1, <2>2 DEF PcOK, Uncounted, Told
  <2>4. UNCHANGED <<counts, parent, outcome, local, out, global, boss, done>>
    BY <1>1 DEF RecordPanic
  <2>5. "count" \in Pcs
    BY DEF Pcs
  <2> QED
    BY <2>1, <2>3, <2>4, <2>5, GotoAlone
<1>2. CASE Wait(t)
  <2>1. stack[t] # <<>> /\ Top(t).kind = "root" /\ Top(t).pc = "wait"
    BY <1>2 DEF Wait
  <2>2. PICK place \in {"block", "poll", "deep"} : Goto(t, place) /\ (t = Main => place = "block")
    BY <1>2 DEF Wait
  <2>3. \A f \in FrameSet : f.kind = Top(t).kind /\ f.scope = Top(t).scope /\ f.pc = place =>
          PcOK(t, f) /\ (Uncounted(f) <=> Uncounted(Top(t))) /\ (Told(f) => Told(Top(t)))
    BY <2>1, <2>2 DEF PcOK, Uncounted, Told
  <2>4. UNCHANGED <<counts, parent, outcome, local, out, global, boss, done>>
    BY <1>2 DEF Wait
  <2>5. place \in Pcs /\ place # "signal"
    BY DEF Pcs
  <2> QED
    BY <2>1, <2>2, <2>3, <2>4, <2>5, GotoAlone
<1>3. CASE BeginStall(t)
  <2>1. stack[t] # <<>> /\ Top(t).kind \in {"loop", "root"} /\ Top(t).pc = "stall" /\ Goto(t, "select")
    BY <1>3 DEF BeginStall
  <2>2. PcOK(t, Top(t))
    BY <2>1, TopIsFrame
  <2>3. \A f \in FrameSet : f.kind = Top(t).kind /\ f.scope = Top(t).scope /\ f.pc = "select" =>
          PcOK(t, f) /\ (Uncounted(f) <=> Uncounted(Top(t))) /\ (Told(f) => Told(Top(t)))
    BY <2>1, <2>2 DEF PcOK, Uncounted, Told
  <2>4. UNCHANGED <<counts, parent, outcome, local, out, global, boss, done>>
    BY <1>3 DEF BeginStall
  <2>5. "select" \in Pcs
    BY DEF Pcs
  <2> QED
    BY <2>1, <2>3, <2>4, <2>5, GotoAlone
<1>4. CASE EndStall(t)
  <2>1. stack[t] # <<>> /\ Top(t).kind \in {"job", "root"} /\ Top(t).pc = "wake"
    BY <1>4 DEF EndStall
  <2>2. PICK place \in {"run", "leave"} :
          Goto(t, place) /\ (place = "run" <=> Top(t).kind = "job")
    BY <1>4 DEF EndStall
  <2>3. PcOK(t, Top(t))
    BY <2>1, TopIsFrame
  <2>4. \A f \in FrameSet : f.kind = Top(t).kind /\ f.scope = Top(t).scope /\ f.pc = place =>
          PcOK(t, f) /\ (Uncounted(f) <=> Uncounted(Top(t))) /\ (Told(f) => Told(Top(t)))
    BY <2>1, <2>2, <2>3 DEF PcOK, Uncounted, Told
  <2>5. UNCHANGED <<counts, parent, outcome, local, out, global, boss, done>>
    BY <1>4 DEF EndStall
  <2>6. place \in Pcs /\ place # "signal"
    BY DEF Pcs
  <2> QED
    BY <2>1, <2>2, <2>4, <2>5, <2>6, GotoAlone
<1>5. CASE Leave(t) \/ Sleep(t) \/ Rise(t) \/ Fire(t)
  <2>1. PICK place \in {"take", "block", "fire", "join"} :
          /\ stack[t] # <<>> /\ Top(t).kind = "root" /\ Goto(t, place)
          /\ place = "take" => Top(t).pc = "leave"
          /\ place = "block" => Top(t).pc = "sleep"
          /\ place = "fire" => Top(t).pc = "rise"
          /\ place = "join" => Top(t).pc = "fire"
    BY <1>5 DEF Leave, Sleep, Rise, Fire
  <2>2. PcOK(t, Top(t))
    BY <2>1, TopIsFrame
  <2>3. \A f \in FrameSet : f.kind = Top(t).kind /\ f.scope = Top(t).scope /\ f.pc = place =>
          PcOK(t, f) /\ (Uncounted(f) <=> Uncounted(Top(t))) /\ (Told(f) => Told(Top(t)))
    BY <2>1, <2>2 DEF PcOK, Uncounted, Told
  <2>4. UNCHANGED <<counts, parent, outcome, local, out, global, boss, done>>
    BY <1>5 DEF Leave, Sleep, Rise, Fire
  <2>5. place \in Pcs /\ place # "signal" /\ Top(t).pc # "signal"
    BY <2>1 DEF Pcs
  <2> QED
    BY <2>1, <2>3, <2>4, <2>5, GotoAlone
<1> QED
  BY <1>1, <1>2, <1>3, <1>4, <1>5

\* The message of a scope is taken from its channel.
LEMMA ReceivesMessage ==
  ASSUME PoolInv, NEW t \in Threads, stack[t] # <<>>, Top(t).kind = "root",
         NEW from \in {"poll", "select", "block"}, Top(t).pc = from,
         NEW place \in {"leave", "wake", "take", "rise"}, Goto(t, place),
         t = Main => place = "take",
         Received(Top(t).scope),
         UNCHANGED <<counts, parent, outcome, local, out, global, boss>>
  PROVE  PoolInv'
<1>1. PICK s \in Scopes : s = Top(t).scope
  BY TopIsFrame
<1>2. done[s] > 0 /\ done' = [done EXCEPT ![s] = done[s] - 1]
  BY <1>1 DEF Received
<1>3. done[s] = 1 /\ done' = [done EXCEPT ![s] = 0]
  <2>1. done[s] \in {0, 1}
    BY DEF PoolInv, SignalsOK
  <2>2. done[s] = 1
    BY <1>2, <2>1
  <2> QED
    BY <1>2, <2>2
<1>4. /\ done' \in [Scopes -> Nat] /\ \A r \in Scopes : done'[r] = done[r] \/ done'[r] = 0
      /\ local' \in Queues /\ out' \in Queues /\ global' \in Seq(Scopes)
      /\ boss' \in [Backups -> Threads \cup {None}]
      /\ \A b \in Backups : boss'[b] = None => boss[b] = None \/ stack[b] = <<>>
  BY <1>3 DEF PoolInv, PoolTypeOK, Queues
<1>5. \A f \in FrameSet : f.kind = Top(t).kind /\ f.scope = Top(t).scope /\ f.pc = place =>
           /\ PcOK(t, f)
           /\ Uncounted(f) <=> Uncounted(Top(t))
           /\ Told(f) => Told(Top(t)) \/ done[f.scope] = 1
  BY <1>1, <1>3 DEF PcOK, Uncounted
<1>6. \A r \in Scopes :
        Same(Held(global, local, out, stack, r), Held(global', local', out', stack, r))
  BY DEF Same
<1>7. place \in Pcs /\ place # "signal" /\ Top(t).pc # "signal"
  BY DEF Pcs
<1> QED
  BY <1>4, <1>5, <1>6, <1>7, GotoStep

\* Steps that look into the channel.
LEMMA PollOK ==
  ASSUME PoolInv, NEW t \in Threads, Poll(t)
  PROVE  PoolInv'
<1>1. /\ stack[t] # <<>> /\ Top(t).kind = "root" /\ Top(t).pc = "poll"
      /\ UNCHANGED <<counts, parent, outcome, local, out, global, boss>>
  BY DEF Poll, At, pool, help
<1>2. t # Main
  BY <1>1, TopIsFrame DEF PcOK
<1>3. CASE Received(Top(t).scope) /\ Goto(t, "leave")
  BY <1>1, <1>2, <1>3, ReceivesMessage
<1>4. CASE done' = done /\ Goto(t, "local")
  <2>1. \A f \in FrameSet : f.kind = Top(t).kind /\ f.scope = Top(t).scope /\ f.pc = "local" =>
          PcOK(t, f) /\ (Uncounted(f) <=> Uncounted(Top(t))) /\ (Told(f) => Told(Top(t)))
    BY <1>1, <1>2 DEF PcOK, Uncounted, Told
  <2>2. "local" \in Pcs
    BY DEF Pcs
  <2>3. UNCHANGED <<counts, parent, outcome, local, out, global, boss, done>>
    BY <1>1, <1>4
  <2> QED
    BY <1>1, <1>4, <2>1, <2>2, <2>3, GotoAlone
<1> QED
  BY <1>3, <1>4 DEF Poll

\* receive takes the message only, and its scope is the one waited for.
LEMMA ReceiveOK ==
  ASSUME PoolInv, NEW t \in Threads, Receive(t)
  PROVE  PoolInv'
<1>1. /\ stack[t] # <<>> /\ Top(t).kind = "root" /\ Top(t).pc = "block"
      /\ UNCHANGED <<counts, parent, outcome, local, out, global, boss>>
      /\ Received(Top(t).scope)
  BY DEF Receive, At, pool, help
<1>2. PICK place \in {"take", "rise"} : Goto(t, place) /\ (t = Main => place = "take")
  BY DEF Receive
<1> QED
  BY <1>1, <1>2, ReceivesMessage

\* wait_for_completion that joins its backup worker goes on to return or to help again.
LEMMA JoinOK ==
  ASSUME PoolInv, NEW t \in Threads, Join(t)
  PROVE  PoolInv'
<1>1. /\ stack[t] # <<>> /\ Top(t).kind = "root" /\ Top(t).pc = "join" /\ Goto(t, "take")
      /\ UNCHANGED <<counts, parent, outcome, local, out, global, done>>
  BY DEF Join, At, pool, scopes
<1>2. PICK b \in Backups : stack[b] = <<>> /\ boss' = [boss EXCEPT ![b] = None]
  BY DEF Join
<1>3. /\ local' \in Queues /\ out' \in Queues /\ global' \in Seq(Scopes) /\ done' \in [Scopes -> Nat]
      /\ boss' \in [Backups -> Threads \cup {None}]
      /\ \A c \in Backups : boss'[c] = None => boss[c] = None \/ stack[c] = <<>>
      /\ \A s \in Scopes : done'[s] = done[s] \/ done'[s] = 0
  BY <1>1, <1>2 DEF PoolInv, PoolTypeOK, Queues
<1>4. PcOK(t, Top(t))
  BY <1>1, TopIsFrame
<1>5. \A f \in FrameSet : f.kind = Top(t).kind /\ f.scope = Top(t).scope /\ f.pc = "take" =>
           /\ PcOK(t, f)
           /\ Uncounted(f) <=> Uncounted(Top(t))
           /\ Told(f) => Told(Top(t)) \/ done[f.scope] = 1
  BY <1>1, <1>4 DEF PcOK, Uncounted, Told
<1>6. \A s \in Scopes :
        Same(Held(global, local, out, stack, s), Held(global', local', out', stack, s))
  BY <1>1 DEF Same
<1>7. "take" \in Pcs
  BY DEF Pcs
<1> QED
  BY <1>1, <1>3, <1>5, <1>6, <1>7, GotoStep

\* A private queue is handed over whole.
LEMMA DonateAllOK ==
  ASSUME PoolInv, NEW t \in Threads, DonateAll(t)
  PROVE  PoolInv'
<1>1. /\ stack[t] # <<>> /\ out[t] = <<>>
      /\ Top(t).kind = "root" /\ Top(t).pc = "deep" /\ Goto(t, "hire")
      /\ UNCHANGED <<counts, parent, outcome, global, boss, done>>
  BY DEF DonateAll, At, help, scopes
<1>2. local \in Queues /\ out \in Queues /\ out' \in Queues /\ local' \in Queues
  BY DEF PoolInv, PoolTypeOK, Queues, DonateAll
<1>3. PICK d \in 0..Len(local[t]) : d = Len(local[t])
  BY <1>2 DEF Queues
<1>4. /\ local'[t] = SubSeq(local[t], d + 1, Len(local[t]))
      /\ out'[t] = SubSeq(local[t], 1, d)
  <2>1. PICK q \in Seq(Scopes) : q = local[t]
    BY <1>2 DEF Queues
  <2>2. SubSeq(q, 1, Len(q)) = q /\ SubSeq(q, Len(q) + 1, Len(q)) = <<>>
    BY <2>1
  <2>3. local'[t] = <<>> /\ out'[t] = q
    BY <1>2, <2>1 DEF DonateAll, Queues
  <2> QED
    BY <1>3, <2>1, <2>2, <2>3
<1>5. /\ \A u \in Threads \ {t} : local'[u] = local[u]
      /\ \A u \in Threads \ {t} : out'[u] = out[u]
  BY <1>2 DEF DonateAll, Queues
<1>6. \A s \in Scopes :
        Same(Held(global, local, out, stack, s), Held(global', local', out', stack, s))
  <2>1. ASSUME NEW s \in Scopes
        PROVE  Same(Held(global, local, out, stack, s), Held(global, local', out', stack, s))
    BY <1>1, <1>2, <1>4, <1>5, Split
  <2> QED
    BY <1>1, <2>1
<1>7. PcOK(t, Top(t))
  BY <1>1, TopIsFrame
<1>8. \A f \in FrameSet : f.kind = Top(t).kind /\ f.scope = Top(t).scope /\ f.pc = "hire" =>
           /\ PcOK(t, f)
           /\ Uncounted(f) <=> Uncounted(Top(t))
           /\ Told(f) => Told(Top(t)) \/ done[f.scope] = 1
  BY <1>1, <1>7 DEF PcOK, Uncounted, Told
<1>9. "hire" \in Pcs /\ global' \in Seq(Scopes) /\ boss' \in [Backups -> Threads \cup {None}]
      /\ done' \in [Scopes -> Nat]
      /\ (\A b \in Backups : boss'[b] = None => boss[b] = None \/ stack[b] = <<>>)
      /\ (\A s \in Scopes : done'[s] = done[s] \/ done'[s] = 0)
  BY <1>1 DEF PoolInv, PoolTypeOK, Pcs
<1> QED
  BY <1>1, <1>2, <1>6, <1>8, <1>9, GotoStep

\* Nothing to do in the private queue, or in the shared one.
LEMMA NothingToRun ==
  ASSUME PoolInv, NEW t \in Threads,
         \/ PopLocal(t) /\ local[t] = <<>>
         \/ TryRecv(t) /\ global = <<>>
  PROVE  PoolInv'
<1>1. CASE PopLocal(t) /\ local[t] = <<>>
  <2>1. /\ stack[t] # <<>> /\ out[t] = <<>> /\ Top(t).kind \in {"loop", "root"} /\ Top(t).pc = "local"
        /\ UNCHANGED <<counts, parent, outcome, global, boss, done>>
        /\ local' = local /\ Goto(t, "global")
    BY <1>1 DEF PopLocal, At, help, scopes
  <2>2. out' = out
    <3>1. SubSeq(local[t], 1, Donated(local[t])) = <<>>
      BY <1>1 DEF Donated
    <3>2. out' = [out EXCEPT ![t] = <<>>]
      BY <1>1, <3>1 DEF PopLocal
    <3> QED
      BY <2>1, <3>2 DEF PoolInv, PoolTypeOK
  <2>3. PcOK(t, Top(t))
    BY <2>1, TopIsFrame
  <2>4. \A f \in FrameSet : f.kind = Top(t).kind /\ f.scope = Top(t).scope /\ f.pc = "global" =>
          PcOK(t, f) /\ (Uncounted(f) <=> Uncounted(Top(t))) /\ (Told(f) => Told(Top(t)))
    BY <2>1, <2>3 DEF PcOK, Uncounted, Told
  <2>5. "global" \in Pcs /\ UNCHANGED <<counts, parent, outcome, local, out, global, boss, done>>
    BY <2>1, <2>2 DEF Pcs
  <2> QED
    BY <2>1, <2>4, <2>5, GotoAlone
<1>2. CASE TryRecv(t) /\ global = <<>>
  <2>1. /\ stack[t] # <<>> /\ Top(t).kind \in {"loop", "root"} /\ Top(t).pc = "global"
        /\ Goto(t, "stall")
        /\ UNCHANGED <<counts, parent, outcome, local, out, global, boss, done>>
    BY <1>2 DEF TryRecv, At, help, scopes
  <2>2. PcOK(t, Top(t))
    BY <2>1, TopIsFrame
  <2>3. \A f \in FrameSet : f.kind = Top(t).kind /\ f.scope = Top(t).scope /\ f.pc = "stall" =>
          PcOK(t, f) /\ (Uncounted(f) <=> Uncounted(Top(t))) /\ (Told(f) => Told(Top(t)))
    BY <2>1, <2>2 DEF PcOK, Uncounted, Told
  <2>4. "stall" \in Pcs
    BY DEF Pcs
  <2> QED
    BY <2>1, <2>3, <2>4, GotoAlone
<1> QED
  BY <1>1, <1>2

-----------------------------------------------------------------------------
(* Steps that run a job *)

\* A thread with a job of scope e at place on top of what it was doing.
Ran(t, e, place) ==
  /\ stack' \in Stacks
  /\ Len(stack[t]) \in Nat /\ Len(stack[t]) # 0 /\ Len(stack'[t]) = Len(stack[t]) + 1
  /\ stack'[t][Len(stack[t])].kind = Top(t).kind
  /\ stack'[t][Len(stack[t])].scope = Top(t).scope
  /\ stack'[t][Len(stack[t])].bad = Top(t).bad
  /\ stack'[t][Len(stack[t])].pc = Again(t)
  /\ stack'[t][Len(stack[t]) + 1] = Frame("job", e, place)
  /\ \A i \in 1..Len(stack[t]) - 1 : stack'[t][i] = stack[t][i]
  /\ \A u \in Threads \ {t} : stack'[u] = stack[u]

\* What Run does to the stacks: the job is on top of what a loop or a wait goes back to.
LEMMA RunIs ==
  ASSUME PoolInv, NEW t \in Threads, stack[t] # <<>>, NEW e \in Scopes,
         NEW place \in {"run", "wake"}, RunJob(t, e, place)
  PROVE  Ran(t, e, place)
<1>1. PICK n \in Nat : n = Len(stack[t]) /\ n # 0 /\ n \in 1..n
  BY DEF PoolInv, PoolTypeOK
<1>2. PICK g \in FrameSet : g = Top(t)
  BY TopIsFrame
<1>3. PICK f : f = [g EXCEPT !.pc = Again(t)]
  OBVIOUS
<1>4. Again(t) \in Pcs
  BY DEF Again, Pcs
<1>5. /\ f \in FrameSet /\ f.kind = g.kind /\ f.scope = g.scope
      /\ f.bad = g.bad /\ f.pc = Again(t)
  BY <1>2, <1>3, <1>4 DEF FrameSet
<1>6. PICK q : q = OnTop(stack[t], f)
  OBVIOUS
<1>7. q \in Seq(FrameSet) /\ Len(q) = n /\ q[n] = f /\ \A i \in 1..n - 1 : q[i] = stack[t][i]
  <2>1. stack[t] \in Seq(FrameSet)
    BY DEF PoolInv, PoolTypeOK
  <2>2. TopIs(stack[t], q, f)
    BY <1>5, <1>6, <2>1, MovedIs
  <2> QED
    BY <1>1, <2>2 DEF TopIs
<1>8. PICK h : h = Frame("job", e, place)
  OBVIOUS
<1>9. h \in FrameSet
  <2>1. e \in 0..MaxScopes
    BY PoolAssumption DEF Scopes
  <2> QED
    BY <1>8, <2>1 DEF Frame, FrameSet, Pcs
<1>10. PICK r : r = Append(q, h)
  OBVIOUS
<1>11. /\ r \in Seq(FrameSet) /\ Len(r) = n + 1 /\ r[n + 1] = h
       /\ \A i \in 1..n : r[i] = q[i]
  BY <1>7, <1>9, <1>10, PushedIs
<1>12. stack' = [stack EXCEPT ![t] = r]
  <2>1. Moved(t, Again(t)) = q
    BY <1>2, <1>3, <1>6 DEF Moved, OnTop
  <2> QED
    BY <1>8, <1>10, <2>1 DEF RunJob
<1>13. stack' \in Stacks /\ stack'[t] = r /\ \A u \in Threads \ {t} : stack'[u] = stack[u]
  BY <1>11, <1>12 DEF PoolInv, PoolTypeOK, Stacks
<1>14. r[n] = f /\ \A i \in 1..n - 1 : r[i] = stack[t][i]
  BY <1>1, <1>7, <1>11
<1> QED
  BY <1>1, <1>2, <1>5, <1>8, <1>11, <1>13, <1>14 DEF Ran

\* The stacks then.
LEMMA RanFrames ==
  ASSUME PoolInv, NEW t \in Threads, stack[t] # <<>>, Top(t).kind \in {"loop", "root"},
         Top(t).pc \in {"local", "global", "select"}, NEW e \in Scopes,
         NEW place \in {"run", "wake"}, Ran(t, e, place), UNCHANGED parent
  PROVE  /\ StacksOK'
         /\ \A s \in Scopes : \A u \in Threads : \A i \in Nat :
              /\ RootAt(s, u, i)' <=> RootAt(s, u, i)
              /\ SenderAt(s, u, i)' <=> SenderAt(s, u, i)
              /\ RootAt(s, u, i) /\ Told(stack'[u][i]) => Told(stack[u][i])
         /\ \A s \in Scopes : AlikeBut(stack, stack', s, t, Len(stack[t]) + 1)
<1>1. PICK n \in Nat : n = Len(stack[t]) /\ n # 0 /\ n \in 1..n
  BY DEF Ran
<1>2. PICK m \in Nat : m = n + 1 /\ m \notin 1..n /\ m > 1 /\ m - 1 = n
  BY <1>1
<1>3. PICK f \in FrameSet : f = stack'[t][n]
  BY <1>1 DEF Ran, Stacks
<1>4. /\ Len(stack'[t]) = m /\ stack'[t][n] = f /\ Top(t) = stack[t][n]
      /\ f.kind = stack[t][n].kind /\ f.scope = stack[t][n].scope /\ f.pc = Again(t)
      /\ \A i \in 1..n - 1 : stack'[t][i] = stack[t][i]
      /\ \A u \in Threads \ {t} : stack'[u] = stack[u]
      /\ stack'[t][m] = Frame("job", e, place)
  BY <1>1, <1>2, <1>3 DEF Ran, Top, Last
<1>5. t # Main
  BY TopIsFrame DEF PcOK
<1>6. /\ f.kind = "root" => f.pc = "poll"
      /\ f.kind = "loop" => f.pc \in {"local", "select"}
      /\ f.kind \in {"root", "loop"}
  BY <1>4 DEF Again
<1>7. ASSUME NEW u \in Threads, NEW i \in 1..Len(stack'[u]) PROVE FrameOK(u, i)'
  <2>1. CASE u # t
    BY <1>4, <2>1 DEF PoolInv, StacksOK, FrameOK
  <2>2. CASE u = t /\ i # n /\ i # m
    <3>1. i \in 1..n - 1 /\ i \in 1..n /\ (i > 1 => i - 1 \in 1..n - 1)
      BY <1>1, <1>2, <1>4, <2>2
    <3>2. stack'[t][i] = stack[t][i] /\ (i > 1 => stack'[t][i - 1] = stack[t][i - 1])
      BY <1>4, <3>1
    <3>3. FrameOK(t, i)
      BY <1>1, <3>1 DEF PoolInv, StacksOK
    <3> QED
      BY <2>2, <3>2, <3>3 DEF FrameOK
  <2>3. CASE u = t /\ i = n
    <3>1. n > 1 => n - 1 \in 1..n - 1
      BY <1>1
    <3>2. FrameOK(t, n) /\ (n > 1 => stack'[t][n - 1] = stack[t][n - 1])
      BY <1>1, <1>4, <3>1 DEF PoolInv, StacksOK
    <3> QED
      BY <1>4, <1>5, <1>6, <2>3, <3>2 DEF FrameOK
  <2>4. CASE u = t /\ i = m
    BY <1>2, <1>4, <1>5, <1>6, <2>4 DEF FrameOK, Frame
  <2> QED
    BY <2>1, <2>2, <2>3, <2>4
<1>8. StacksOK'
  BY <1>7 DEF StacksOK
<1>9. ASSUME NEW u \in Threads, NEW i \in Nat
      PROVE  /\ i \in 1..Len(stack'[u]) <=> i \in 1..Len(stack[u]) \/ (u = t /\ i = m)
             /\ (u # t \/ i # n) /\ i \in 1..Len(stack[u]) => stack'[u][i] = stack[u][i]
  <2>1. CASE u # t
    BY <1>4, <2>1
  <2>2. CASE u = t
    BY <1>1, <1>2, <1>4, <2>2
  <2> QED
    BY <2>1, <2>2
<1>10. ASSUME NEW s \in Scopes, NEW u \in Threads, NEW i \in Nat
       PROVE  /\ RootAt(s, u, i)' <=> RootAt(s, u, i)
              /\ SenderAt(s, u, i)' <=> SenderAt(s, u, i)
              /\ RootAt(s, u, i) /\ Told(stack'[u][i]) => Told(stack[u][i])
  <2>1. CASE u = t /\ i = m
    BY <1>1, <1>2, <1>4, <2>1 DEF RootAt, SenderAt, Frame
  <2>2. CASE u = t /\ i = n
    BY <1>1, <1>4, <1>6, <1>9, <2>2 DEF RootAt, SenderAt, Told
  <2>3. CASE u # t \/ (i # m /\ i # n)
    BY <1>9, <2>3 DEF RootAt, SenderAt
  <2> QED
    BY <2>1, <2>2, <2>3
<1>11. ASSUME NEW s \in Scopes PROVE AlikeBut(stack, stack', s, t, m)
  <2>1. ~Uncounted(f) /\ ~Uncounted(stack[t][n])
    BY <1>4, <1>6 DEF Uncounted
  <2>2. ASSUME NEW u \in Threads, NEW j \in Nat, u # t \/ j # m
        PROVE  (/\ j \in 1..Len(stack[u]) /\ stack[u][j].scope = s /\ Uncounted(stack[u][j]))
                 <=> (/\ j \in 1..Len(stack'[u]) /\ stack'[u][j].scope = s /\ Uncounted(stack'[u][j]))
    <3>1. CASE u = t /\ j = n
      BY <1>4, <2>1, <3>1
    <3>2. CASE u # t \/ j # n
      BY <1>9, <2>2, <3>2
    <3> QED
      BY <3>1, <3>2
  <2> QED
    BY <2>2 DEF AlikeBut
<1> QED
  BY <1>1, <1>2, <1>8, <1>10, <1>11

\* A job found in a queue is run.
LEMMA RunStep ==
  ASSUME PoolInv, NEW t \in Threads, stack[t] # <<>>, Top(t).kind \in {"loop", "root"},
         Top(t).pc \in {"local", "global", "select"}, NEW e \in Scopes,
         NEW place \in {"run", "wake"}, RunJob(t, e, place),
         UNCHANGED <<counts, parent, outcome, boss, done>>,
         local' \in Queues, out' \in Queues, global' \in Seq(Scopes),
         \A s \in Scopes :
           /\ s = e => OneLess(Held(global, local, out, stack, s), Held(global', local', out', stack, s))
           /\ s # e => Same(Held(global, local, out, stack, s), Held(global', local', out', stack, s))
  PROVE  PoolInv'
<1>1. Ran(t, e, place)
  BY RunIs
<1>2. /\ StacksOK'
      /\ \A s \in Scopes : \A u \in Threads : \A i \in Nat :
           /\ RootAt(s, u, i)' <=> RootAt(s, u, i)
           /\ SenderAt(s, u, i)' <=> SenderAt(s, u, i)
           /\ RootAt(s, u, i) /\ Told(stack'[u][i]) => Told(stack[u][i])
      /\ \A s \in Scopes : AlikeBut(stack, stack', s, t, Len(stack[t]) + 1)
  BY <1>1, RanFrames
<1>3. PoolTypeOK'
  BY <1>1 DEF PoolInv, PoolTypeOK, Ran, Queues, Stacks
<1>4. BackupsOK'
  <2>1. ASSUME NEW b \in Backups, boss'[b] = None PROVE stack'[b] = <<>>
    <3>1. stack[b] = <<>>
      BY <2>1 DEF PoolInv, BackupsOK
    <3>2. b # t
      BY <3>1
    <3> QED
      BY <1>1, <3>1, <3>2 DEF Threads, Ran
  <2> QED
    BY <2>1 DEF BackupsOK
<1>5. ASSUME NEW s \in Scopes PROVE Same(Pending(s), Pending(s)')
  <2> DEFINE A == Held(global, local, out, stack, s)
             B == Held(global', local', out', stack, s)
             C == Held(global', local', out', stack', s)
  <2>1. (s = e => OneLess(A, B)) /\ (s # e => Same(A, B))
    OBVIOUS
  <2>2. PICK n \in Nat : n = Len(stack[t])
    BY <1>1 DEF Ran
  <2>3. PICK m \in Nat : m = n + 1 /\ m \notin 1..n /\ m \in 1..m
    BY <2>2
  <2>4. AlikeBut(stack, stack', s, t, m)
    BY <1>2, <2>2, <2>3
  <2>5. ~(m \in 1..Len(stack[t]) /\ stack[t][m].scope = s /\ Uncounted(stack[t][m]))
    BY <2>2, <2>3
  <2>6. (m \in 1..Len(stack'[t]) /\ stack'[t][m].scope = s /\ Uncounted(stack'[t][m])) <=> s = e
    BY <1>1, <2>2, <2>3 DEF Ran, Frame, Uncounted
  <2>7. (s = e => OneMore(B, C)) /\ (s # e => Same(B, C))
    BY <2>4, <2>5, <2>6, FrameCounts
  <2> HIDE DEF A, B, C
  <2>8. Same(A, C)
    BY <2>1, <2>7 DEF Same, OneMore, OneLess
  <2>9. Same(Pending(s), C)
    BY <2>8 DEF A, Pending
  <2> QED
    BY <2>9 DEF C, Pending
<1> QED
  BY <1>2, <1>3, <1>4, <1>5, QuietStep

\* What is left of a queue.
Parts(q, r, d) == /\ Len(r) = Len(q) - 1 /\ r \in Seq(Scopes)
                  /\ SubSeq(r, d + 1, Len(r)) = SubSeq(q, d + 1, Len(q) - 1)
                  /\ SubSeq(r, 1, d) = SubSeq(q, 1, d)

\* A sequence is its first element and the rest.
LEMMA FrontParts ==
  ASSUME NEW q \in Seq(Scopes), q # <<>>, NEW d \in 0..Len(q) - 1
  PROVE  Parts(q, Front(q), d)
<1>1. PICK n \in Nat : n = Len(q) /\ n # 0
  OBVIOUS
<1>2. PICK r : r = Front(q)
  OBVIOUS
<1>3. r \in Seq(Scopes) /\ Len(r) = n - 1 /\ \A i \in 1..n - 1 : r[i] = q[i]
  BY <1>1, <1>2 DEF Front
<1>4. Parts(q, r, d)
  BY <1>1, <1>3 DEF Parts
<1> QED
  BY <1>2, <1>4

\* pop_local of the newest job runs it.
LEMMA PopLocalOK ==
  ASSUME PoolInv, NEW t \in Threads, PopLocal(t)
  PROVE  PoolInv'
<1>1. /\ stack[t] # <<>> /\ out[t] = <<>> /\ Top(t).kind \in {"loop", "root"} /\ Top(t).pc = "local"
      /\ UNCHANGED <<counts, parent, outcome, global, boss, done>>
  BY DEF PopLocal, At, help, scopes
<1>2. CASE local[t] = <<>>
  BY <1>2, NothingToRun
<1>3. CASE local[t] # <<>>
  <2>1. PICK q \in Seq(Scopes) : q = local[t]
    BY DEF PoolInv, PoolTypeOK
  <2>2. PICK n \in Nat : n = Len(q) /\ n # 0
    BY <1>3, <2>1
  <2>3. PICK d \in Nat : d = Donated(q) /\ d <= n - 1
    BY <2>2 DEF Donated
  <2>4. PICK e \in Scopes : e = Last(q)
    BY <2>2 DEF Last
  <2>5. /\ local' = [local EXCEPT ![t] = SubSeq(q, d + 1, n - 1)]
        /\ out' = [out EXCEPT ![t] = SubSeq(q, 1, d)]
        /\ RunJob(t, e, "run")
    BY <1>3, <2>1, <2>2, <2>3, <2>4 DEF PopLocal
  <2>6. PICK l : l = [local EXCEPT ![t] = Front(@)]
    OBVIOUS
  <2>7. local \in Queues /\ out \in Queues /\ global \in Seq(Scopes)
    BY DEF PoolInv, PoolTypeOK, Queues
  <2>8. /\ l \in Queues
        /\ \A s \in Scopes :
             /\ s = e => OneLess(Held(global, local, out, stack, s), Held(global, l, out, stack, s))
             /\ s # e => Same(Held(global, local, out, stack, s), Held(global, l, out, stack, s))
    BY <1>3, <2>1, <2>4, <2>6, <2>7, LocalDrops
  <2>9. PICK r : r = Front(q)
    OBVIOUS
  <2>10. /\ Len(r) = n - 1 /\ r \in Seq(Scopes)
         /\ SubSeq(r, d + 1, n - 1) = SubSeq(q, d + 1, n - 1)
         /\ SubSeq(r, 1, d) = SubSeq(q, 1, d)
    <3>1. d \in 0..Len(q) - 1 /\ q # <<>>
      BY <1>3, <2>1, <2>2, <2>3
    <3>2. Parts(q, r, d)
      BY <2>9, <3>1, FrontParts
    <3> QED
      BY <2>2, <3>2 DEF Parts
  <2>11. l[t] = r /\ \A u \in Threads \ {t} : l[u] = local[u]
    BY <2>1, <2>6, <2>7, <2>9 DEF Queues
  <2>12. /\ SubSeq(q, d + 1, n - 1) \in Seq(Scopes) /\ SubSeq(q, 1, d) \in Seq(Scopes)
    BY <2>2, <2>3
  <2>13. /\ local'[t] = SubSeq(l[t], d + 1, Len(l[t])) /\ out'[t] = SubSeq(l[t], 1, d)
         /\ \A u \in Threads \ {t} : local'[u] = l[u]
         /\ \A u \in Threads \ {t} : out'[u] = out[u]
    BY <2>5, <2>7, <2>10, <2>11 DEF Queues
  <2>14. d \in 0..Len(l[t])
    BY <2>2, <2>3, <2>10, <2>11
  <2>15. ASSUME NEW s \in Scopes
         PROVE  Same(Held(global, l, out, stack, s), Held(global, local', out', stack, s))
    BY <1>1, <2>7, <2>8, <2>13, <2>14, Split
  <2>16. ASSUME NEW s \in Scopes
         PROVE  /\ s = e => OneLess(Held(global, local, out, stack, s), Held(global', local', out', stack, s))
                /\ s # e => Same(Held(global, local, out, stack, s), Held(global', local', out', stack, s))
    <3> DEFINE A == Held(global, local, out, stack, s)
               B == Held(global, l, out, stack, s)
               C == Held(global, local', out', stack, s)
    <3>1. (s = e => OneLess(A, B)) /\ (s # e => Same(A, B)) /\ Same(B, C)
      BY <2>8, <2>15
    <3> HIDE DEF A, B, C
    <3>2. (s = e => OneLess(A, C)) /\ (s # e => Same(A, C))
      BY <3>1 DEF Same, OneLess
    <3>3. global' = global
      BY <1>1
    <3> QED
      BY <3>2, <3>3 DEF A, C
  <2>17. local' \in Queues /\ out' \in Queues /\ global' \in Seq(Scopes)
    BY <1>1, <2>5, <2>7, <2>12 DEF Queues
  <2> QED
    BY <1>1, <2>5, <2>16, <2>17, RunStep
<1> QED
  BY <1>2, <1>3

\* A job is taken from the shared queue.
LEMMA TakesJob ==
  ASSUME PoolInv, NEW t \in Threads, stack[t] # <<>>, Top(t).kind \in {"loop", "root"},
         Top(t).pc \in {"global", "select"}, global # <<>>, global' = Tail(global),
         NEW place \in {"run", "wake"}, RunJob(t, Head(global), place),
         UNCHANGED <<counts, parent, outcome, local, out, boss, done>>
  PROVE  PoolInv'
<1>1. local \in Queues /\ out \in Queues /\ global \in Seq(Scopes)
  BY DEF PoolInv, PoolTypeOK, Queues
<1>2. PICK e \in Scopes : e = Head(global)
  BY <1>1
<1>3. RunJob(t, e, place) /\ global' \in Seq(Scopes) /\ local' \in Queues /\ out' \in Queues
  BY <1>1, <1>2
<1>4. ASSUME NEW s \in Scopes
      PROVE  /\ s = e => OneLess(Held(global, local, out, stack, s), Held(global', local, out, stack, s))
             /\ s # e => Same(Held(global, local, out, stack, s), Held(global', local, out, stack, s))
  <2>1. PICK g \in Seq(Scopes) : g = global /\ g # <<>> /\ e = Head(g)
    BY <1>1, <1>2
  <2>2. PICK g2 : g2 = Tail(g) /\ g2 = global'
    BY <2>1
  <2>3. /\ s = e => OneLess(Held(g, local, out, stack, s), Held(g2, local, out, stack, s))
        /\ s # e => Same(Held(g, local, out, stack, s), Held(g2, local, out, stack, s))
    BY <2>1, <2>2, GlobalDrops
  <2> QED
    BY <2>1, <2>2, <2>3
<1>5. ASSUME NEW s \in Scopes
      PROVE  /\ s = e => OneLess(Held(global, local, out, stack, s), Held(global', local', out', stack, s))
             /\ s # e => Same(Held(global, local, out, stack, s), Held(global', local', out', stack, s))
  BY <1>4
<1> QED
  BY <1>3, <1>5, RunStep

\* try_recv of the shared queue runs the oldest job.
LEMMA TryRecvOK ==
  ASSUME PoolInv, NEW t \in Threads, TryRecv(t)
  PROVE  PoolInv'
<1>1. CASE global = <<>>
  BY <1>1, NothingToRun
<1>2. CASE global # <<>>
  BY <1>2, TakesJob DEF TryRecv, At, help, scopes
<1> QED
  BY <1>1, <1>2

\* The select of an idle worker runs the oldest job.
LEMMA SelectOK ==
  ASSUME PoolInv, NEW t \in Threads, Select(t)
  PROVE  PoolInv'
<1>1. /\ stack[t] # <<>> /\ Top(t).kind \in {"loop", "root"} /\ Top(t).pc = "select"
      /\ UNCHANGED <<counts, parent, outcome, local, out, boss>>
  BY DEF Select, At, help
<1>2. t # Main
  BY <1>1, TopIsFrame DEF PcOK
<1>3. CASE Top(t).kind = "root" /\ Received(Top(t).scope) /\ global' = global /\ Goto(t, "wake")
  BY <1>1, <1>2, <1>3, ReceivesMessage
<1>4. CASE /\ global # <<>> /\ global' = Tail(global) /\ done' = done
           /\ RunJob(t, Head(global), "wake")
  BY <1>1, <1>4, TakesJob
<1> QED
  BY <1>3, <1>4 DEF Select

-----------------------------------------------------------------------------
(* Steps of the shared queue, of backup workers, and the end of a callback *)

\* Steps that leave the stacks alone and let jobs change hands.
LEMMA StacksAlone ==
  ASSUME PoolInv, UNCHANGED <<stack, counts, parent, outcome, boss, done, local>>,
         out' \in Queues, global' \in Seq(Scopes),
         \A s \in Scopes :
           Same(Held(global, local, out, stack, s), Held(global', local, out', stack, s))
  PROVE  PoolInv'
<1>1. PoolTypeOK' /\ StacksOK' /\ BackupsOK'
  BY DEF PoolInv, PoolTypeOK, StacksOK, FrameOK, BackupsOK, Queues
<1>2. \A s \in Scopes : \A u \in Threads : \A i \in Nat :
        /\ RootAt(s, u, i)' <=> RootAt(s, u, i)
        /\ SenderAt(s, u, i)' <=> SenderAt(s, u, i)
        /\ RootAt(s, u, i) /\ Told(stack'[u][i]) => Told(stack[u][i])
  BY DEF RootAt, SenderAt
<1>3. ASSUME NEW s \in Scopes PROVE Same(Pending(s), Pending(s)')
  BY DEF Pending
<1> QED
  BY <1>1, <1>2, <1>3, QuietStep

\* A send moves the oldest outgoing job to the shared queue.
LEMMA SendOK ==
  ASSUME PoolInv, NEW t \in Threads, Send(t)
  PROVE  PoolInv'
<1>1. /\ UNCHANGED <<stack, counts, parent, outcome, boss, done, local>>
      /\ out[t] # <<>> /\ global' = Append(global, Head(out[t]))
      /\ out' = [out EXCEPT ![t] = Tail(out[t])]
  BY DEF Send, help, scopes
<1>2. global \in Seq(Scopes) /\ out \in Queues
  BY DEF PoolInv, PoolTypeOK, Queues
<1>3. PICK e \in Scopes : e = Head(out[t])
  BY <1>1, <1>2 DEF Queues
<1>4. Tail(out[t]) \in Seq(Scopes)
  BY <1>1, <1>2 DEF Queues
<1>5. out' \in Queues /\ global' \in Seq(Scopes)
  BY <1>1, <1>2, <1>3, <1>4 DEF Queues
<1>6. out'[t] = Tail(out[t]) /\ \A u \in Threads \ {t} : out'[u] = out[u]
  BY <1>1, <1>2 DEF Queues
<1>7. ASSUME NEW s \in Scopes
      PROVE  Same(Held(global, local, out, stack, s), Held(global', local, out', stack, s))
  BY <1>1, <1>2, <1>6, Sent
<1> QED
  BY <1>1, <1>5, <1>7, StacksAlone

\* Dropping the pool disconnects the queue and touches no scope.
LEMMA DropOK ==
  ASSUME PoolInv, Drop
  PROVE  PoolInv'
<1>1. UNCHANGED <<stack, counts, parent, outcome, boss, done, local, out, global>>
  BY DEF Drop, pool, scopes
<1>2. out' \in Queues /\ global' \in Seq(Scopes)
  BY <1>1 DEF PoolInv, PoolTypeOK, Queues
<1>3. \A s \in Scopes :
        Same(Held(global, local, out, stack, s), Held(global', local, out', stack, s))
  BY <1>1 DEF Same
<1> QED
  BY <1>1, <1>2, <1>3, StacksAlone

\* A callback that is over counts itself next, or records its panic first.
LEMMA FinishOK ==
  ASSUME PoolInv, NEW t \in Threads, Finish(t)
  PROVE  PoolInv'
<1>1. /\ stack[t] # <<>> /\ Top(t).kind \in {"job", "root"} /\ Top(t).pc = "run"
      /\ UNCHANGED <<counts, parent, outcome, local, global, out, boss, done>>
  BY DEF Finish, At, pool, help
<1>2. PICK bad \in BOOLEAN : stack' = [stack EXCEPT ![t] = Over(stack[t], bad)]
  BY PoolAssumption DEF Finish
<1>3. PICK g \in FrameSet : g = Top(t)
  BY <1>1, TopIsFrame
<1>4. PICK place \in {"record", "count"} :
        place = IF bad /\ g.kind = "job" THEN "record" ELSE "count"
  OBVIOUS
<1>5. PICK f : f = [g EXCEPT !.bad = bad, !.pc = place]
  OBVIOUS
<1>6. f \in FrameSet /\ f.kind = g.kind /\ f.scope = g.scope /\ f.pc = place
  BY <1>3, <1>4, <1>5 DEF FrameSet, Pcs
<1>7. PICK r : r = OnTop(stack[t], f)
  OBVIOUS
<1>8. stack' = [stack EXCEPT ![t] = r]
  <2>1. Over(stack[t], bad) = r
    BY <1>3, <1>4, <1>5, <1>7 DEF Over, OnTop, Top
  <2> QED
    BY <1>2, <2>1
<1>9. Replaced(t, f)
  BY <1>1, <1>3, <1>6, <1>7, <1>8, ReplaceIs DEF PoolInv
<1>10. PcOK(t, Top(t))
  BY <1>1, TopIsFrame
<1>11. /\ PcOK(t, f) /\ Top(t).pc # "signal" /\ f.pc # "signal"
       /\ Uncounted(f) <=> Uncounted(Top(t))
       /\ Told(f) => Told(Top(t)) \/ done[f.scope] = 1
  <2>1. t = Main => g.kind = "root"
    BY <1>1, <1>3 DEF PoolInv, StacksOK, FrameOK, Top, Last, PoolTypeOK
  <2> QED
    BY <1>1, <1>3, <1>4, <1>6, <1>10, <2>1 DEF PcOK, Uncounted, Told
<1>12. /\ local' \in Queues /\ out' \in Queues /\ global' \in Seq(Scopes)
       /\ boss' \in [Backups -> Threads \cup {None}] /\ done' \in [Scopes -> Nat]
       /\ \A s \in Scopes : done'[s] = done[s] \/ done'[s] = 0
       /\ \A b \in Backups : boss'[b] = None => boss[b] = None \/ stack[b] = <<>>
  BY <1>1 DEF PoolInv, PoolTypeOK, Queues
<1>13. \A s \in Scopes :
         Same(Held(global, local, out, stack, s), Held(global', local', out', stack, s))
  BY <1>1 DEF Same
<1> QED
  BY <1>1, <1>9, <1>11, <1>12, <1>13, QuietMove

\* The stack of t with its wait asleep, and the loop of a new backup worker b.
Hired(t, b) ==
  /\ stack' \in Stacks /\ stack[b] = <<>> /\ b # t
  /\ Len(stack[t]) \in Nat /\ Len(stack[t]) # 0 /\ Len(stack'[t]) = Len(stack[t])
  /\ stack'[t][Len(stack[t])].kind = Top(t).kind
  /\ stack'[t][Len(stack[t])].scope = Top(t).scope
  /\ stack'[t][Len(stack[t])].bad = Top(t).bad
  /\ stack'[t][Len(stack[t])].pc = "sleep"
  /\ \A i \in 1..Len(stack[t]) - 1 : stack'[t][i] = stack[t][i]
  /\ Len(stack'[b]) = 1 /\ stack'[b][1].kind = "loop" /\ stack'[b][1].pc = "select"
  /\ \A u \in Threads : u # t /\ u # b => stack'[u] = stack[u]

\* What Hire does to the stacks.
LEMMA HireIs ==
  ASSUME PoolInv, NEW t \in Threads, stack[t] # <<>>, NEW b \in Backups, boss[b] = None,
         stack' = [stack EXCEPT ![t] = Moved(t, "sleep"), ![b] = <<Frame("loop", 0, "select")>>]
  PROVE  Hired(t, b)
<1>1. stack[b] = <<>> /\ b # t /\ b \in Threads
  BY DEF PoolInv, BackupsOK, Threads
<1>2. PICK n \in Nat : n = Len(stack[t]) /\ n # 0 /\ n \in 1..n
  BY DEF PoolInv, PoolTypeOK
<1>3. PICK g \in FrameSet : g = Top(t)
  BY TopIsFrame
<1>4. PICK f \in FrameSet : /\ f = [g EXCEPT !.pc = "sleep"]
                           /\ f.kind = g.kind /\ f.scope = g.scope /\ f.bad = g.bad /\ f.pc = "sleep"
  <2>1. PICK f : f = [g EXCEPT !.pc = "sleep"]
    OBVIOUS
  <2>2. f \in FrameSet /\ f.kind = g.kind /\ f.scope = g.scope /\ f.bad = g.bad /\ f.pc = "sleep"
    BY <2>1 DEF FrameSet, Pcs
  <2> QED
    BY <2>1, <2>2
<1>5. PICK q : q = Moved(t, "sleep")
  OBVIOUS
<1>6. /\ q \in Seq(FrameSet) /\ Len(q) = n /\ q[n] = f
      /\ \A i \in 1..n - 1 : q[i] = stack[t][i]
  <2>1. q = OnTop(stack[t], f)
    BY <1>3, <1>4, <1>5 DEF Moved, OnTop
  <2>2. stack[t] \in Seq(FrameSet)
    BY DEF PoolInv, PoolTypeOK
  <2>3. TopIs(stack[t], q, f)
    BY <2>1, <2>2, MovedIs
  <2> QED
    BY <1>2, <2>3 DEF TopIs
<1>7. PICK h \in FrameSet : h = Frame("loop", 0, "select") /\ h.kind = "loop" /\ h.pc = "select"
  <2>1. 0 \in 0..MaxScopes
    BY PoolAssumption
  <2>2. PICK h : h = Frame("loop", 0, "select")
    OBVIOUS
  <2>3. h \in FrameSet /\ h.kind = "loop" /\ h.pc = "select"
    BY <2>1, <2>2 DEF Frame, FrameSet, Pcs
  <2> QED
    BY <2>2, <2>3
<1>8. PICK r \in Seq(FrameSet) : r = <<h>> /\ Len(r) = 1 /\ r[1] = h
  <2>1. PICK r : r = <<h>>
    OBVIOUS
  <2>2. r \in Seq(FrameSet) /\ Len(r) = 1 /\ r[1] = h
    BY <2>1
  <2> QED
    BY <2>1, <2>2
<1>9. /\ stack' \in Stacks /\ stack'[t] = q /\ stack'[b] = r
      /\ \A u \in Threads : u # t /\ u # b => stack'[u] = stack[u]
  BY <1>1, <1>5, <1>6, <1>7, <1>8 DEF PoolInv, PoolTypeOK, Stacks
<1> QED
  BY <1>1, <1>2, <1>3, <1>4, <1>6, <1>7, <1>8, <1>9 DEF Hired

\* A thread goes to sleep behind a new backup worker.
LEMMA HireOK ==
  ASSUME PoolInv, NEW t \in Threads, Hire(t)
  PROVE  PoolInv'
<1>1. /\ stack[t] # <<>> /\ Top(t).kind = "root" /\ Top(t).pc = "hire"
      /\ UNCHANGED <<counts, parent, outcome, local, global, out, done>>
  BY DEF Hire, At, pool, scopes
<1>2. PICK b \in Backups :
        /\ boss[b] = None /\ boss' = [boss EXCEPT ![b] = t]
        /\ stack' = [stack EXCEPT ![t] = Moved(t, "sleep"), ![b] = <<Frame("loop", 0, "select")>>]
  BY DEF Hire
<1>3. Hired(t, b) /\ stack[b] = <<>> /\ b # t /\ b # Main /\ b \in Threads
  <2>1. Hired(t, b)
    BY <1>1, <1>2, HireIs
  <2> QED
    BY <2>1, PoolAssumption DEF Hired, Threads
<1>4. PICK n \in Nat : n = Len(stack[t]) /\ n # 0 /\ n \in 1..n
  BY <1>1 DEF PoolInv, PoolTypeOK
<1>5. PICK g \in FrameSet : g = Top(t) /\ g = stack[t][n] /\ g.scope \in Scopes /\ PcOK(t, g)
  BY <1>1, <1>4, TopIsFrame DEF Top, Last
<1>6. PICK f \in FrameSet : /\ f = stack'[t][n]
                           /\ f.kind = "root" /\ f.scope = g.scope /\ f.pc = "sleep"
  BY <1>1, <1>3, <1>4, <1>5 DEF Hired, Stacks
<1>7. PICK h \in FrameSet : h = stack'[b][1] /\ h.kind = "loop" /\ h.pc = "select"
  <2>1. stack'[b] \in Seq(FrameSet) /\ Len(stack'[b]) = 1
    BY <1>3 DEF Hired, Stacks
  <2>2. stack'[b][1] \in FrameSet
    BY <2>1
  <2> QED
    BY <1>3, <2>2 DEF Hired
<1>8. /\ stack' \in Stacks
      /\ \A u \in Threads : u # t /\ u # b => stack'[u] = stack[u]
  BY <1>3 DEF Hired
<1>9. /\ Len(stack'[t]) = n /\ stack'[t][n] = f /\ stack[t][n] = g
      /\ \A i \in 1..n - 1 : stack'[t][i] = stack[t][i]
      /\ Len(stack'[b]) = 1 /\ stack'[b][1] = h /\ Len(stack[b]) = 0
  BY <1>3, <1>4, <1>5, <1>6, <1>7 DEF Hired
<1>10. PoolTypeOK'
  <2>1. boss' \in [Backups -> Threads \cup {None}]
    BY <1>2 DEF PoolInv, PoolTypeOK
  <2> QED
    BY <1>1, <1>8, <2>1 DEF PoolInv, PoolTypeOK, Stacks
<1>11. BackupsOK'
  <2>1. ASSUME NEW c \in Backups, boss'[c] = None PROVE stack'[c] = <<>>
    <3>1. t # None
      BY PoolAssumption
    <3>2. c # b /\ boss[c] = None
      BY <1>2, <2>1, <3>1 DEF PoolInv, PoolTypeOK
    <3>3. stack[c] = <<>> /\ c # t /\ c \in Threads
      BY <1>1, <3>2 DEF PoolInv, BackupsOK, Threads
    <3> QED
      BY <1>8, <3>2, <3>3
  <2> QED
    BY <2>1 DEF BackupsOK
<1>12. ASSUME NEW u \in Threads, NEW i \in 1..Len(stack'[u]) PROVE FrameOK(u, i)'
  <2>1. CASE u # t /\ u # b
    BY <1>1, <1>8, <2>1 DEF PoolInv, StacksOK, FrameOK
  <2>2. CASE u = t /\ i # n
    <3>1. i \in 1..n - 1 /\ i \in 1..n /\ (i > 1 => i - 1 \in 1..n - 1)
      BY <1>4, <1>9, <2>2
    <3>2. stack'[t][i] = stack[t][i] /\ (i > 1 => stack'[t][i - 1] = stack[t][i - 1])
      BY <1>9, <3>1
    <3>3. FrameOK(t, i)
      BY <1>4, <3>1 DEF PoolInv, StacksOK
    <3> QED
      BY <1>1, <2>2, <3>2, <3>3 DEF FrameOK
  <2>3. CASE u = t /\ i = n
    <3>1. n > 1 => n - 1 \in 1..n - 1
      BY <1>4
    <3>2. FrameOK(t, n) /\ (n > 1 => stack'[t][n - 1] = stack[t][n - 1])
      BY <1>4, <1>9, <3>1 DEF PoolInv, StacksOK
    <3>3. t # Main
      BY <1>1, <1>5 DEF PcOK
    <3> QED
      BY <1>1, <1>5, <1>6, <1>9, <2>3, <3>2, <3>3 DEF FrameOK
  <2>4. CASE u = b
    <3>0. Len(stack'[u]) = 1
      BY <1>9, <2>4
    <3>1. i \in 1..1
      BY <3>0
    <3> QED
      BY <1>3, <1>7, <1>9, <2>4, <3>1 DEF FrameOK
  <2> QED
    BY <2>1, <2>2, <2>3, <2>4
<1>13. StacksOK'
  BY <1>12 DEF StacksOK
<1>14. ASSUME NEW u \in Threads, NEW i \in Nat
       PROVE  /\ i \in 1..Len(stack'[u]) <=> i \in 1..Len(stack[u]) \/ (u = b /\ i = 1)
              /\ (u # t \/ i # n) /\ i \in 1..Len(stack[u]) => stack'[u][i] = stack[u][i]
              /\ ~(b = u /\ i \in 1..Len(stack[u]))
  <2>1. CASE u # t /\ u # b
    BY <1>8, <2>1
  <2>2. CASE u = t
    BY <1>3, <1>4, <1>9, <2>2
  <2>3. CASE u = b
    <3>1. (i \in 1..1 <=> i = 1) /\ i \notin 1..0
      OBVIOUS
    <3>2. Len(stack'[u]) = 1 /\ Len(stack[u]) = 0
      BY <1>9, <2>3
    <3>3. (i \in 1..Len(stack'[u]) <=> i = 1) /\ i \notin 1..Len(stack[u])
      BY <3>1, <3>2
    <3> QED
      BY <1>3, <2>3, <3>3
  <2> QED
    BY <2>1, <2>2, <2>3
<1>15. ASSUME NEW s \in Scopes, NEW u \in Threads, NEW i \in Nat
       PROVE  /\ RootAt(s, u, i)' <=> RootAt(s, u, i)
              /\ SenderAt(s, u, i)' <=> SenderAt(s, u, i)
              /\ RootAt(s, u, i) /\ Told(stack'[u][i]) => Told(stack[u][i])
  <2>1. CASE u = b /\ i = 1
    BY <1>3, <1>7, <1>9, <1>14, <2>1 DEF RootAt, SenderAt
  <2>2. CASE u = t /\ i = n
    <3>1. i \in 1..Len(stack[t]) /\ i \in 1..Len(stack'[t])
      BY <1>4, <1>9, <2>2
    <3>2. g.kind = "root" /\ g.pc = "hire"
      BY <1>1, <1>5
    <3>3. (RootAt(s, u, i) <=> g.scope = s) /\ ~SenderAt(s, u, i)
      BY <1>9, <2>2, <3>1, <3>2 DEF RootAt, SenderAt
    <3>4. (RootAt(s, u, i)' <=> f.scope = s) /\ ~SenderAt(s, u, i)'
      BY <1>6, <1>9, <2>2, <3>1 DEF RootAt, SenderAt
    <3>5. ~Told(stack'[u][i])
      BY <1>6, <1>9, <2>2 DEF Told
    <3> QED
      BY <1>6, <3>3, <3>4, <3>5
  <2>3. CASE (u # b \/ i # 1) /\ (u # t \/ i # n)
    BY <1>14, <2>3 DEF RootAt, SenderAt
  <2> QED
    BY <2>1, <2>2, <2>3
<1>16. ASSUME NEW s \in Scopes PROVE Same(Pending(s), Pending(s)')
  <2>1. ~Uncounted(f) /\ ~Uncounted(g) /\ ~Uncounted(h)
    BY <1>1, <1>5, <1>6, <1>7 DEF Uncounted
  <2>2. ASSUME NEW u \in Threads, NEW j \in Nat
        PROVE  (/\ j \in 1..Len(stack[u]) /\ stack[u][j].scope = s /\ Uncounted(stack[u][j]))
                 <=> (/\ j \in 1..Len(stack'[u]) /\ stack'[u][j].scope = s /\ Uncounted(stack'[u][j]))
    <3>1. CASE u = t /\ j = n
      BY <1>9, <2>1, <3>1
    <3>2. CASE u = b
      <4>1. j \notin 1..Len(stack[u]) /\ (j \in 1..Len(stack'[u]) => j = 1)
        BY <1>14, <1>3, <3>2
      <4>2. stack'[u][1] = h
        BY <1>9, <3>2
      <4> QED
        BY <2>1, <4>1, <4>2
    <3>3. CASE u # b /\ (u # t \/ j # n)
      BY <1>14, <3>3
    <3> QED
      BY <3>1, <3>2, <3>3
  <2>3. AlikeBut(stack, stack', s, t, n)
    BY <2>2 DEF AlikeBut
  <2>4. (n \in 1..Len(stack[t]) /\ stack[t][n].scope = s /\ Uncounted(stack[t][n]))
          <=> (n \in 1..Len(stack'[t]) /\ stack'[t][n].scope = s /\ Uncounted(stack'[t][n]))
    BY <2>2
  <2>5. Same(Held(global, local, out, stack, s), Held(global, local, out, stack', s))
    BY <2>3, <2>4, FrameCounts
  <2> QED
    BY <1>1, <2>5 DEF Pending
<1> QED
  BY <1>1, <1>10, <1>11, <1>13, <1>15, <1>16, QuietStep

\* A thread ends: all it had was its loop.
LEMMA ExitOK ==
  ASSUME PoolInv, NEW t \in Threads, Exit(t)
  PROVE  PoolInv'
<1>1. /\ stack[t] # <<>> /\ Top(t).kind = "loop"
      /\ UNCHANGED <<counts, parent, outcome, local, global, out, done, boss>>
      /\ stack' = [stack EXCEPT ![t] = <<>>]
  BY DEF Exit, At, help, scopes
<1>2. PICK n \in Nat : n = Len(stack[t]) /\ n # 0 /\ n \in 1..n
  BY <1>1 DEF PoolInv, PoolTypeOK
<1>3. Top(t) = stack[t][n] /\ FrameOK(t, n)
  BY <1>2 DEF PoolInv, StacksOK, Top, Last
<1>4. n = 1 /\ stack[t][1].kind = "loop"
  BY <1>1, <1>3 DEF FrameOK
<1>5. /\ stack' \in Stacks /\ stack'[t] = <<>> /\ Len(stack'[t]) = 0
      /\ \A u \in Threads \ {t} : stack'[u] = stack[u]
  BY <1>1 DEF PoolInv, PoolTypeOK, Stacks
<1>6. PoolTypeOK'
  BY <1>1, <1>5 DEF PoolInv, PoolTypeOK, Stacks
<1>7. BackupsOK'
  BY <1>1, <1>5 DEF PoolInv, BackupsOK, Threads
<1>8. ASSUME NEW u \in Threads, NEW i \in 1..Len(stack'[u]) PROVE FrameOK(u, i)'
  <2>1. u # t
    BY <1>5
  <2> QED
    BY <1>1, <1>5, <2>1 DEF PoolInv, StacksOK, FrameOK
<1>9. StacksOK'
  BY <1>8 DEF StacksOK
<1>10. ASSUME NEW u \in Threads, NEW i \in Nat
       PROVE  /\ i \in 1..Len(stack'[u]) <=> i \in 1..Len(stack[u]) /\ u # t
              /\ i \in 1..Len(stack'[u]) => stack'[u][i] = stack[u][i]
              /\ u = t /\ i \in 1..Len(stack[u]) => i = 1
  <2>1. CASE u # t
    BY <1>5, <2>1
  <2>2. CASE u = t
    <3>1. i \notin 1..0 /\ (i \in 1..1 <=> i = 1)
      OBVIOUS
    <3> QED
      BY <1>2, <1>4, <1>5, <2>2, <3>1
  <2> QED
    BY <2>1, <2>2
<1>11. ASSUME NEW s \in Scopes, NEW u \in Threads, NEW i \in Nat
       PROVE  /\ RootAt(s, u, i)' <=> RootAt(s, u, i)
              /\ SenderAt(s, u, i)' <=> SenderAt(s, u, i)
              /\ RootAt(s, u, i) /\ Told(stack'[u][i]) => Told(stack[u][i])
  BY <1>4, <1>10 DEF RootAt, SenderAt
<1>12. ASSUME NEW s \in Scopes PROVE Same(Pending(s), Pending(s)')
  <2>1. ASSUME NEW u \in Threads, NEW j \in Nat
        PROVE  (/\ j \in 1..Len(stack[u]) /\ stack[u][j].scope = s /\ Uncounted(stack[u][j]))
                 <=> (/\ j \in 1..Len(stack'[u]) /\ stack'[u][j].scope = s /\ Uncounted(stack'[u][j]))
    BY <1>4, <1>10 DEF Uncounted
  <2>2. AlikeBut(stack, stack', s, t, 1)
    BY <2>1 DEF AlikeBut
  <2>3. (1 \in 1..Len(stack[t]) /\ stack[t][1].scope = s /\ Uncounted(stack[t][1]))
          <=> (1 \in 1..Len(stack'[t]) /\ stack'[t][1].scope = s /\ Uncounted(stack'[t][1]))
    BY <2>1
  <2>4. Same(Held(global, local, out, stack, s), Held(global, local, out, stack', s))
    BY <2>2, <2>3, FrameCounts
  <2> QED
    BY <1>1, <2>4 DEF Pending
<1> QED
  BY <1>1, <1>6, <1>7, <1>9, <1>11, <1>12, QuietStep

-----------------------------------------------------------------------------
(* Steps that count a callback, and that tell its scope *)

\* The stack of t without the frame on top.
Popped(t) ==
  /\ stack' \in Stacks
  /\ Len(stack[t]) \in Nat /\ Len(stack[t]) # 0
  /\ Len(stack'[t]) = Len(stack[t]) - 1
  /\ \A i \in 1..Len(stack[t]) - 1 : stack'[t][i] = stack[t][i]
  /\ \A u \in Threads \ {t} : stack'[u] = stack[u]

\* What Pop does to the stacks: the frame on top is gone, the rest is as it was.
LEMMA PopIs ==
  ASSUME PoolTypeOK, NEW t \in Threads, stack[t] # <<>>, stack' = [stack EXCEPT ![t] = Front(stack[t])]
  PROVE  Popped(t)
<1>1. stack[t] \in Seq(FrameSet) /\ Len(stack[t]) \in Nat /\ Len(stack[t]) # 0
  BY DEF PoolTypeOK
<1>2. PICK q \in Seq(FrameSet) : q = stack[t] /\ q # <<>>
  BY <1>1
<1>3. PICK r : r = Front(q)
  OBVIOUS
<1>4. r \in Seq(FrameSet) /\ Len(r) = Len(q) - 1 /\ \A i \in 1..Len(q) - 1 : r[i] = q[i]
  BY <1>2, <1>3, PoppedIs
<1>5. stack' \in Stacks /\ stack'[t] = r /\ \A u \in Threads \ {t} : stack'[u] = stack[u]
  BY <1>2, <1>3, <1>4 DEF PoolTypeOK, Stacks
<1> QED
  BY <1>1, <1>2, <1>4, <1>5 DEF Popped

\* A job that leaves the stack takes nothing with it.
LEMMA PoppedFrames ==
  ASSUME PoolInv, NEW t \in Threads, Top(t).kind = "job", Popped(t), UNCHANGED parent,
         NEW n \in Nat, n = Len(stack[t])
  PROVE  /\ StacksOK'
         /\ \A s \in Scopes : \A u \in Threads : \A i \in Nat :
              /\ RootAt(s, u, i)' <=> RootAt(s, u, i)
              /\ u # t \/ i # n => (SenderAt(s, u, i)' <=> SenderAt(s, u, i))
              /\ RootAt(s, u, i) /\ Told(stack'[u][i]) => Told(stack[u][i])
         /\ \A s \in Scopes : ~SenderAt(s, t, n)'
         /\ \A s \in Scopes : AlikeBut(stack, stack', s, t, n)
         /\ n \notin 1..Len(stack'[t])
<1>1. n = Len(stack[t]) /\ n # 0 /\ n \in 1..n
  BY DEF Popped
<1>2. /\ Len(stack'[t]) = n - 1 /\ Top(t) = stack[t][n] /\ stack[t][n].kind = "job"
      /\ \A i \in 1..n - 1 : stack'[t][i] = stack[t][i]
      /\ \A u \in Threads \ {t} : stack'[u] = stack[u]
  BY <1>1 DEF Popped, Top, Last
<1>3. ASSUME NEW u \in Threads, NEW i \in 1..Len(stack'[u]) PROVE FrameOK(u, i)'
  <2>1. CASE u # t
    BY <1>2, <2>1 DEF PoolInv, StacksOK, FrameOK
  <2>2. CASE u = t
    <3>1. i \in 1..n - 1 /\ i \in 1..n /\ (i > 1 => i - 1 \in 1..n - 1)
      BY <1>1, <1>2, <2>2
    <3>2. stack'[t][i] = stack[t][i] /\ (i > 1 => stack'[t][i - 1] = stack[t][i - 1])
      BY <1>2, <3>1
    <3>3. FrameOK(t, i)
      BY <1>1, <3>1 DEF PoolInv, StacksOK
    <3> QED
      BY <2>2, <3>2, <3>3 DEF FrameOK
  <2> QED
    BY <2>1, <2>2
<1>4. StacksOK'
  BY <1>3 DEF StacksOK
<1>5. ASSUME NEW u \in Threads, NEW i \in Nat
      PROVE  /\ i \in 1..Len(stack'[u]) <=> i \in 1..Len(stack[u]) /\ (u # t \/ i # n)
             /\ i \in 1..Len(stack'[u]) => stack'[u][i] = stack[u][i]
  <2>1. CASE u # t
    BY <1>2, <2>1
  <2>2. CASE u = t
    BY <1>1, <1>2, <2>2
  <2> QED
    BY <2>1, <2>2
<1>6. ASSUME NEW s \in Scopes, NEW u \in Threads, NEW i \in Nat
      PROVE  /\ RootAt(s, u, i)' <=> RootAt(s, u, i)
             /\ u # t \/ i # n => (SenderAt(s, u, i)' <=> SenderAt(s, u, i))
             /\ RootAt(s, u, i) /\ Told(stack'[u][i]) => Told(stack[u][i])
  BY <1>2, <1>5 DEF RootAt, SenderAt
<1>7. n \notin 1..Len(stack'[t])
  BY <1>1, <1>5
<1>8. \A s \in Scopes : ~SenderAt(s, t, n)'
  BY <1>7 DEF SenderAt
<1>9. ASSUME NEW s \in Scopes PROVE AlikeBut(stack, stack', s, t, n)
  BY <1>5 DEF AlikeBut
<1> QED
  BY <1>1, <1>4, <1>6, <1>7, <1>8, <1>9

\* A scope with a callback that has not counted itself is waiting for it.
LEMMA PendingIsOpen ==
  ASSUME PoolInv, NEW s \in Scopes, NEW p \in Pending(s)
  PROVE  /\ ~Full(s) /\ outcome[s] = "open" /\ done[s] = 0
         /\ \A t \in Threads : \A i \in Nat :
              /\ ~SenderAt(s, t, i)
              /\ RootAt(s, t, i) => ~Told(stack[t][i])
<1>1. /\ IsFiniteSet(Pending(s))
      /\ counts[s].expected = counts[s].completed + Cardinality(Pending(s))
      /\ counts[s].expected \in Nat /\ counts[s].completed \in Nat
  BY DEF PoolInv, CountsOK, PoolTypeOK
<1>2. Cardinality(Pending(s)) \in Nat /\ Cardinality(Pending(s)) # 0
  BY <1>1, FS_CardinalityType, FS_EmptySet
<1>3. ~Full(s)
  BY <1>1, <1>2 DEF Full
<1> QED
  BY <1>3 DEF PoolInv, OpenOK, SignalsOK

\* What a thread's own callback amounts to.
LEMMA TopIsPending ==
  ASSUME PoolInv, NEW t \in Threads, stack[t] # <<>>, Uncounted(Top(t))
  PROVE  <<"stack", t, Len(stack[t])>> \in Pending(Top(t).scope)
<1>1. PICK n \in Nat : n = Len(stack[t]) /\ n # 0 /\ n \in 1..n
  BY DEF PoolInv, PoolTypeOK
<1>2. Top(t) = stack[t][n]
  BY <1>1 DEF Top, Last
<1>3. <<"stack", t, n>> \in Place
  BY DEF Place
<1> QED
  BY <1>1, <1>2, <1>3 DEF Pending, Held, HeldAt

\* A callback of s counts itself, and goes to tell the scope if it is the last.
LEMMA Counted ==
  ASSUME PoolInv, NEW t \in Threads, stack[t] # <<>>, Uncounted(Top(t)),
         NEW s \in Scopes, s = Top(t).scope, NEW n \in Nat, n = Len(stack[t]),
         PoolTypeOK', StacksOK', BackupsOK', UNCHANGED <<outcome, done>>,
         counts'[s].expected = counts[s].expected,
         counts'[s].completed = counts[s].completed + 1,
         \A r \in Scopes \ {s} : counts'[r] = counts[r],
         \A r \in Scopes : \A u \in Threads : \A i \in Nat :
           /\ RootAt(r, u, i)' <=> RootAt(r, u, i)
           /\ u # t \/ i # n => (SenderAt(r, u, i)' <=> SenderAt(r, u, i))
           /\ RootAt(r, u, i) /\ Told(stack'[u][i]) => Told(stack[u][i]),
         \A r \in Scopes : ~SenderAt(r, t, n),
         \A r \in Scopes : SenderAt(r, t, n)' => r = s /\ Full(s)',
         OneLess(Pending(s), Pending(s)'),
         \A r \in Scopes \ {s} : Same(Pending(r), Pending(r)')
  PROVE  PoolInv'
<1>1. /\ ~Full(s) /\ outcome[s] = "open" /\ done[s] = 0
      /\ \A u \in Threads : \A i \in Nat : /\ ~SenderAt(s, u, i)
                                           /\ RootAt(s, u, i) => ~Told(stack[u][i])
  <2>1. PICK p : p = <<"stack", t, Len(stack[t])>>
    OBVIOUS
  <2>2. p \in Pending(s)
    BY <2>1, TopIsPending
  <2> QED
    BY <2>2, PendingIsOpen
<1>2. \A r \in Scopes \ {s} : Full(r)' <=> Full(r)
  BY DEF Full
<1>3. \A u \in Threads : \A i \in Nat : SenderAt(s, u, i)' => u = t /\ i = n /\ Full(s)'
  BY <1>1
<1>4. \A r \in Scopes \ {s} : \A u \in Threads : \A i \in Nat : SenderAt(r, u, i)' <=> SenderAt(r, u, i)
  OBVIOUS
<1>5. \A u \in Threads : \A i \in Nat : RootAt(s, u, i)' => ~Told(stack'[u][i])
  BY <1>1
<1>6. OpenOK'
  BY <1>1, <1>2, <1>3, <1>4 DEF PoolInv, OpenOK
<1>7. RootsOK'
  BY DEF PoolInv, RootsOK
<1>8. CountsOK'
  <2>1. IsFiniteSet(Pending(s)') /\ counts'[s].expected = counts'[s].completed + Cardinality(Pending(s)')
    <3>1. /\ IsFiniteSet(Pending(s))
          /\ counts[s].expected = counts[s].completed + Cardinality(Pending(s))
          /\ counts[s].completed \in Nat
      BY DEF PoolInv, CountsOK, PoolTypeOK
    <3>2. IsFiniteSet(Pending(s)') /\ Cardinality(Pending(s)) = Cardinality(Pending(s)') + 1
      BY <3>1 DEF OneLess
    <3>3. Cardinality(Pending(s)') \in Nat
      BY <3>2, FS_CardinalityType
    <3> QED
      BY <3>1, <3>2, <3>3
  <2>2. ASSUME NEW r \in Scopes \ {s}
        PROVE  /\ IsFiniteSet(Pending(r)')
               /\ counts'[r].expected = counts'[r].completed + Cardinality(Pending(r)')
    BY DEF PoolInv, CountsOK, Same
  <2>3. ASSUME NEW r \in Scopes
        PROVE  /\ IsFiniteSet(Pending(r)')
               /\ counts'[r].expected = counts'[r].completed + Cardinality(Pending(r)')
    BY <2>1, <2>2
  <2> QED
    BY <2>3 DEF CountsOK
<1>9. SignalsOK'
  <2>1. ASSUME NEW r \in Scopes \ {s}
        PROVE  /\ done'[r] \in {0, 1}
               /\ done'[r] = 1 => Full(r)' /\ outcome'[r] = "open"
               /\ \A u \in Threads : \A i \in Nat : SenderAt(r, u, i)' => Full(r)' /\ done'[r] = 0
               /\ \A u, v \in Threads : \A i, j \in Nat :
                    SenderAt(r, u, i)' /\ SenderAt(r, v, j)' => u = v /\ i = j
               /\ \A u \in Threads : \A i \in Nat : RootAt(r, u, i)' /\ Told(stack'[u][i]) =>
                    Full(r)' /\ \A v \in Threads : \A j \in Nat : ~SenderAt(r, v, j)'
    BY <1>2, <1>4 DEF PoolInv, SignalsOK
  <2>2. /\ done'[s] \in {0, 1}
        /\ done'[s] = 1 => Full(s)' /\ outcome'[s] = "open"
        /\ \A u \in Threads : \A i \in Nat : SenderAt(s, u, i)' => Full(s)' /\ done'[s] = 0
        /\ \A u, v \in Threads : \A i, j \in Nat :
             SenderAt(s, u, i)' /\ SenderAt(s, v, j)' => u = v /\ i = j
        /\ \A u \in Threads : \A i \in Nat : RootAt(s, u, i)' /\ Told(stack'[u][i]) =>
             Full(s)' /\ \A v \in Threads : \A j \in Nat : ~SenderAt(s, v, j)'
    BY <1>1, <1>3, <1>5
  <2>3. ASSUME NEW r \in Scopes
        PROVE  /\ done'[r] \in {0, 1}
               /\ done'[r] = 1 => Full(r)' /\ outcome'[r] = "open"
               /\ \A u \in Threads : \A i \in Nat : SenderAt(r, u, i)' => Full(r)' /\ done'[r] = 0
               /\ \A u, v \in Threads : \A i, j \in Nat :
                    SenderAt(r, u, i)' /\ SenderAt(r, v, j)' => u = v /\ i = j
               /\ \A u \in Threads : \A i \in Nat : RootAt(r, u, i)' /\ Told(stack'[u][i]) =>
                    Full(r)' /\ \A v \in Threads : \A j \in Nat : ~SenderAt(r, v, j)'
    BY <2>1, <2>2
  <2> QED
    BY <2>3 DEF SignalsOK
<1> QED
  BY <1>6, <1>7, <1>8, <1>9 DEF PoolInv

\* complete_one lowers the count of its scope by the callback that ends.
LEMMA CompleteOneOK ==
  ASSUME PoolInv, NEW t \in Threads, CompleteOne(t)
  PROVE  PoolInv'
<1>1. /\ stack[t] # <<>> /\ Top(t).kind \in {"job", "root"} /\ Top(t).pc = "count"
      /\ UNCHANGED <<local, global, out, boss, done, parent, outcome>>
  BY DEF CompleteOne, At, pool, help
<1>2. PICK s \in Scopes : s = Top(t).scope
  BY <1>1, TopIsFrame
<1>3. PICK last \in BOOLEAN : last = (counts[s].completed + 1 = counts[s].expected)
  OBVIOUS
<1>4. /\ counts' = [counts EXCEPT ![s].completed = @ + 1]
      /\ stack' = [stack EXCEPT ![t] =
           IF last THEN Moved(t, "signal")
           ELSE IF Top(t).kind = "job" THEN Front(stack[t]) ELSE Moved(t, "wait")]
  BY <1>2, <1>3 DEF CompleteOne
<1>5. PICK n \in Nat : n = Len(stack[t]) /\ n # 0 /\ n \in 1..n
  BY <1>1 DEF PoolInv, PoolTypeOK
<1>6. Top(t) = stack[t][n] /\ PcOK(t, Top(t)) /\ Uncounted(Top(t))
  BY <1>1, <1>5, TopIsFrame DEF Top, Last, Uncounted
<1>7. /\ counts' \in [Scopes -> [expected : Nat, completed : Nat]]
      /\ counts'[s].expected = counts[s].expected
      /\ counts'[s].completed = counts[s].completed + 1
      /\ \A r \in Scopes \ {s} : counts'[r] = counts[r]
  <2>1. PICK c \in [expected : Nat, completed : Nat] : c = counts[s]
    BY DEF PoolInv, PoolTypeOK
  <2>2. PICK d : d = [c EXCEPT !.completed = @ + 1]
    OBVIOUS
  <2>3. /\ d \in [expected : Nat, completed : Nat]
        /\ d.expected = c.expected /\ d.completed = c.completed + 1
    BY <2>2
  <2>4. counts' = [counts EXCEPT ![s] = d]
    BY <1>4, <2>1, <2>2
  <2> QED
    BY <2>1, <2>3, <2>4 DEF PoolInv, PoolTypeOK
<1>8. (last <=> Full(s)') /\ \A r \in Scopes : ~SenderAt(r, t, n)
  BY <1>1, <1>3, <1>6, <1>7 DEF Full, SenderAt
<1>9. n \in 1..Len(stack[t]) /\ stack[t][n].scope = s /\ Uncounted(stack[t][n])
  BY <1>2, <1>5, <1>6
<1>10. CASE last \/ Top(t).kind = "root"
  <2>1. PICK place \in {"signal", "wait"} :
          /\ Goto(t, place) /\ (place = "signal" <=> last)
          /\ place = "wait" => Top(t).kind = "root"
    BY <1>4, <1>10 DEF Goto
  <2>2. PICK f \in FrameSet : Replaced(t, f) /\ f.pc = place
    <3>1. place \in Pcs
      BY DEF Pcs
    <3> QED
      BY <1>1, <2>1, <3>1, GotoIs DEF PoolInv
  <2>3. f.kind = Top(t).kind /\ f.scope = s
    BY <1>2, <2>2 DEF Replaced, Top, Last
  <2>4. Replaced(t, f) /\ PcOK(t, f) /\ ~Uncounted(f) /\ ~Told(f)
    <3>1. PcOK(t, f)
      BY <1>1, <1>6, <2>1, <2>2, <2>3 DEF PcOK
    <3> QED
      BY <2>1, <2>2, <3>1 DEF Uncounted, Told
  <2>5. /\ stack' \in Stacks /\ Len(stack'[t]) = n /\ stack'[t][n] = f
        /\ \A i \in 1..n - 1 : stack'[t][i] = stack[t][i]
        /\ \A u \in Threads \ {t} : stack'[u] = stack[u]
    BY <1>5, <2>2 DEF Replaced
  <2>6. /\ StacksOK'
        /\ \A r \in Scopes : \A u \in Threads : \A i \in Nat : RootAt(r, u, i)' <=> RootAt(r, u, i)
        /\ \A r \in Scopes : \A u \in Threads : \A i \in Nat : u # t \/ i # n =>
             (SenderAt(r, u, i)' <=> SenderAt(r, u, i))
        /\ \A r \in Scopes : AlikeBut(stack, stack', r, t, n)
    BY <1>1, <1>5, <2>4, ReplacedFrames DEF PoolInv
  <2>7. PoolTypeOK' /\ BackupsOK'
    <3>1. PoolTypeOK'
      BY <1>1, <1>7, <2>5 DEF PoolInv, PoolTypeOK, Stacks
    <3>2. \A b \in Backups : boss'[b] = None => stack'[b] = <<>>
      BY <1>1, <2>5 DEF PoolInv, BackupsOK, Threads
    <3> QED
      BY <3>1, <3>2 DEF BackupsOK
  <2>8. \A r \in Scopes : \A u \in Threads : \A i \in Nat :
          RootAt(r, u, i) /\ Told(stack'[u][i]) => Told(stack[u][i])
    <3>1. ASSUME NEW r \in Scopes, NEW u \in Threads, NEW i \in Nat, RootAt(r, u, i), Told(stack'[u][i])
          PROVE  Told(stack[u][i])
      <4>1. CASE u = t /\ i = n
        BY <2>4, <2>5, <3>1, <4>1
      <4>2. CASE u # t \/ i # n
        <5>1. stack'[u][i] = stack[u][i]
          BY <1>5, <2>5, <3>1, <4>2 DEF RootAt
        <5> QED
          BY <3>1, <5>1
      <4> QED
        BY <4>1, <4>2
    <3> QED
      BY <3>1
  <2>9. \A r \in Scopes : SenderAt(r, t, n)' => r = s /\ Full(s)'
    BY <1>8, <2>1, <2>2, <2>3, <2>5 DEF SenderAt
  <2>10. ~(n \in 1..Len(stack'[t]) /\ stack'[t][n].scope = s /\ Uncounted(stack'[t][n]))
    BY <2>4, <2>5
  <2>11. OneLess(Pending(s), Pending(s)')
    <3>1. AlikeBut(stack, stack', s, t, n)
      BY <2>6
    <3>2. OneLess(Held(global, local, out, stack, s), Held(global, local, out, stack', s))
      BY <1>9, <2>10, <3>1, FrameCounts
    <3> QED
      BY <1>1, <3>2 DEF Pending
  <2>12. ASSUME NEW r \in Scopes \ {s} PROVE Same(Pending(r), Pending(r)')
    <3>1. AlikeBut(stack, stack', r, t, n)
      BY <2>6
    <3>2. /\ ~(n \in 1..Len(stack'[t]) /\ stack'[t][n].scope = r /\ Uncounted(stack'[t][n]))
          /\ ~(n \in 1..Len(stack[t]) /\ stack[t][n].scope = r /\ Uncounted(stack[t][n]))
      BY <1>9, <2>4, <2>5
    <3>3. Same(Held(global, local, out, stack, r), Held(global, local, out, stack', r))
      BY <3>1, <3>2, FrameCounts
    <3> QED
      BY <1>1, <3>3 DEF Pending
  <2>13. \A r \in Scopes : \A u \in Threads : \A i \in Nat :
           /\ RootAt(r, u, i)' <=> RootAt(r, u, i)
           /\ u # t \/ i # n => (SenderAt(r, u, i)' <=> SenderAt(r, u, i))
           /\ RootAt(r, u, i) /\ Told(stack'[u][i]) => Told(stack[u][i])
    BY <2>6, <2>8
  <2> QED
    BY <1>1, <1>2, <1>5, <1>6, <1>7, <1>8, <2>6, <2>7, <2>9, <2>11, <2>12, <2>13, Counted
<1>11. CASE ~last /\ Top(t).kind # "root"
  <2>1. Top(t).kind = "job" /\ stack' = [stack EXCEPT ![t] = Front(stack[t])]
    BY <1>1, <1>4, <1>11
  <2>2. Popped(t)
    BY <1>1, <2>1, PopIs DEF PoolInv
  <2>3. /\ StacksOK'
        /\ \A r \in Scopes : \A u \in Threads : \A i \in Nat :
             /\ RootAt(r, u, i)' <=> RootAt(r, u, i)
             /\ u # t \/ i # n => (SenderAt(r, u, i)' <=> SenderAt(r, u, i))
             /\ RootAt(r, u, i) /\ Told(stack'[u][i]) => Told(stack[u][i])
        /\ \A r \in Scopes : ~SenderAt(r, t, n)'
        /\ \A r \in Scopes : AlikeBut(stack, stack', r, t, n)
        /\ n \notin 1..Len(stack'[t])
    BY <1>1, <1>5, <2>1, <2>2, PoppedFrames
  <2>4. PoolTypeOK' /\ BackupsOK'
    <3>1. PoolTypeOK'
      BY <1>1, <1>7, <2>2 DEF PoolInv, PoolTypeOK, Stacks, Popped
    <3>2. \A b \in Backups : boss'[b] = None => stack'[b] = <<>>
      BY <1>1, <2>2 DEF PoolInv, BackupsOK, Threads, Popped
    <3> QED
      BY <3>1, <3>2 DEF BackupsOK
  <2>5. OneLess(Pending(s), Pending(s)')
    <3>1. AlikeBut(stack, stack', s, t, n)
      BY <2>3
    <3>2. OneLess(Held(global, local, out, stack, s), Held(global, local, out, stack', s))
      BY <1>9, <2>3, <3>1, FrameCounts
    <3> QED
      BY <1>1, <3>2 DEF Pending
  <2>6. ASSUME NEW r \in Scopes \ {s} PROVE Same(Pending(r), Pending(r)')
    <3>1. AlikeBut(stack, stack', r, t, n)
      BY <2>3
    <3>2. ~(n \in 1..Len(stack[t]) /\ stack[t][n].scope = r /\ Uncounted(stack[t][n]))
      BY <1>9
    <3>3. Same(Held(global, local, out, stack, r), Held(global, local, out, stack', r))
      BY <2>3, <3>1, <3>2, FrameCounts
    <3> QED
      BY <1>1, <3>3 DEF Pending
  <2>7. \A r \in Scopes : SenderAt(r, t, n)' => r = s /\ Full(s)'
    BY <2>3
  <2> QED
    BY <1>1, <1>2, <1>5, <1>6, <1>7, <1>8, <2>3, <2>4, <2>5, <2>6, <2>7, Counted
<1> QED
  BY <1>10, <1>11

\* The last callback of s tells its scope.
LEMMA Signalled ==
  ASSUME PoolInv, NEW t \in Threads, NEW s \in Scopes, NEW n \in Nat, SenderAt(s, t, n),
         PoolTypeOK', StacksOK', BackupsOK', UNCHANGED <<counts, outcome>>,
         done'[s] = done[s] + 1,
         \A r \in Scopes \ {s} : done'[r] = done[r],
         \A r \in Scopes : \A u \in Threads : \A i \in Nat :
           /\ RootAt(r, u, i)' <=> RootAt(r, u, i)
           /\ u # t \/ i # n => (SenderAt(r, u, i)' <=> SenderAt(r, u, i))
           /\ RootAt(r, u, i) /\ Told(stack'[u][i]) => Told(stack[u][i]) \/ r = s,
         \A r \in Scopes : ~SenderAt(r, t, n)',
         \A r \in Scopes : Same(Pending(r), Pending(r)')
  PROVE  PoolInv'
<1>1. Full(s) /\ outcome[s] = "open" /\ done[s] = 0
  BY DEF PoolInv, OpenOK, SignalsOK
<1>2. \A u \in Threads : \A i \in Nat : SenderAt(s, u, i) => u = t /\ i = n
  BY DEF PoolInv, SignalsOK
<1>3. \A r \in Scopes : Full(r)' <=> Full(r)
  BY DEF Full
<1>4. \A u \in Threads : \A i \in Nat : ~SenderAt(s, u, i)'
  BY <1>2
<1>5. \A r \in Scopes \ {s} : ~SenderAt(r, t, n)
  BY DEF SenderAt
<1>6. \A r \in Scopes \ {s} : \A u \in Threads : \A i \in Nat : SenderAt(r, u, i)' <=> SenderAt(r, u, i)
  BY <1>5
<1>7. OpenOK'
  BY <1>1, <1>3, <1>4, <1>6 DEF PoolInv, OpenOK
<1>8. RootsOK'
  BY DEF PoolInv, RootsOK
<1>9. CountsOK'
  <2>1. ASSUME NEW r \in Scopes
        PROVE  /\ IsFiniteSet(Pending(r)')
               /\ counts'[r].expected = counts'[r].completed + Cardinality(Pending(r)')
    BY DEF PoolInv, CountsOK, Same
  <2> QED
    BY <2>1 DEF CountsOK
<1>10. SignalsOK'
  <2>1. ASSUME NEW r \in Scopes \ {s}
        PROVE  /\ done'[r] \in {0, 1}
               /\ done'[r] = 1 => Full(r)' /\ outcome'[r] = "open"
               /\ \A u \in Threads : \A i \in Nat : SenderAt(r, u, i)' => Full(r)' /\ done'[r] = 0
               /\ \A u, v \in Threads : \A i, j \in Nat :
                    SenderAt(r, u, i)' /\ SenderAt(r, v, j)' => u = v /\ i = j
               /\ \A u \in Threads : \A i \in Nat : RootAt(r, u, i)' /\ Told(stack'[u][i]) =>
                    Full(r)' /\ \A v \in Threads : \A j \in Nat : ~SenderAt(r, v, j)'
    BY <1>3, <1>6 DEF PoolInv, SignalsOK
  <2>2. /\ done'[s] \in {0, 1}
        /\ done'[s] = 1 => Full(s)' /\ outcome'[s] = "open"
        /\ \A u \in Threads : \A i \in Nat : SenderAt(s, u, i)' => Full(s)' /\ done'[s] = 0
        /\ \A u, v \in Threads : \A i, j \in Nat :
             SenderAt(s, u, i)' /\ SenderAt(s, v, j)' => u = v /\ i = j
        /\ \A u \in Threads : \A i \in Nat : RootAt(s, u, i)' /\ Told(stack'[u][i]) =>
             Full(s)' /\ \A v \in Threads : \A j \in Nat : ~SenderAt(s, v, j)'
    BY <1>1, <1>3, <1>4
  <2>3. ASSUME NEW r \in Scopes
        PROVE  /\ done'[r] \in {0, 1}
               /\ done'[r] = 1 => Full(r)' /\ outcome'[r] = "open"
               /\ \A u \in Threads : \A i \in Nat : SenderAt(r, u, i)' => Full(r)' /\ done'[r] = 0
               /\ \A u, v \in Threads : \A i, j \in Nat :
                    SenderAt(r, u, i)' /\ SenderAt(r, v, j)' => u = v /\ i = j
               /\ \A u \in Threads : \A i \in Nat : RootAt(r, u, i)' /\ Told(stack'[u][i]) =>
                    Full(r)' /\ \A v \in Threads : \A j \in Nat : ~SenderAt(r, v, j)'
    BY <2>1, <2>2
  <2> QED
    BY <2>3 DEF SignalsOK
<1> QED
  BY <1>7, <1>8, <1>9, <1>10 DEF PoolInv

\* The callback that brought the count to zero sends the message of its scope.
LEMMA SignalOK ==
  ASSUME PoolInv, NEW t \in Threads, Signal(t)
  PROVE  PoolInv'
<1>1. /\ stack[t] # <<>> /\ Top(t).kind \in {"job", "root"} /\ Top(t).pc = "signal"
      /\ UNCHANGED <<local, global, out, boss, counts, parent, outcome>>
  BY DEF Signal, At, pool, help
<1>2. PICK s \in Scopes : s = Top(t).scope
  BY <1>1, TopIsFrame
<1>3. PICK n \in Nat : n = Len(stack[t]) /\ n # 0 /\ n \in 1..n
  BY <1>1 DEF PoolInv, PoolTypeOK
<1>4. Top(t) = stack[t][n] /\ PcOK(t, Top(t)) /\ ~Uncounted(Top(t)) /\ SenderAt(s, t, n)
  BY <1>1, <1>2, <1>3, TopIsFrame DEF Top, Last, Uncounted, SenderAt
<1>5. /\ done' \in [Scopes -> Nat] /\ done'[s] = done[s] + 1
      /\ \A r \in Scopes \ {s} : done'[r] = done[r]
  BY <1>2 DEF PoolInv, PoolTypeOK, Signal
<1>6. \A r \in Scopes : ~(n \in 1..Len(stack[t]) /\ stack[t][n].scope = r /\ Uncounted(stack[t][n]))
  BY <1>4
<1>7. CASE Top(t).kind = "root"
  <2>1. Goto(t, "take")
    BY <1>1, <1>7 DEF Goto, Signal
  <2>2. PICK f \in FrameSet : Replaced(t, f) /\ f.pc = "take"
    <3>1. "take" \in Pcs
      BY DEF Pcs
    <3> QED
      BY <1>1, <2>1, <3>1, GotoIs DEF PoolInv
  <2>3. f.kind = "root" /\ f.scope = s
    BY <1>2, <1>7, <2>2 DEF Replaced, Top, Last
  <2>4. Replaced(t, f) /\ PcOK(t, f) /\ ~Uncounted(f)
    BY <1>4, <2>2, <2>3 DEF PcOK, Uncounted
  <2>5. /\ stack' \in Stacks /\ Len(stack'[t]) = n /\ stack'[t][n] = f
        /\ \A i \in 1..n - 1 : stack'[t][i] = stack[t][i]
        /\ \A u \in Threads \ {t} : stack'[u] = stack[u]
    BY <1>3, <2>2 DEF Replaced
  <2>6. /\ StacksOK'
        /\ \A r \in Scopes : \A u \in Threads : \A i \in Nat : RootAt(r, u, i)' <=> RootAt(r, u, i)
        /\ \A r \in Scopes : \A u \in Threads : \A i \in Nat : u # t \/ i # n =>
             (SenderAt(r, u, i)' <=> SenderAt(r, u, i))
        /\ \A r \in Scopes : AlikeBut(stack, stack', r, t, n)
    BY <1>1, <1>3, <2>4, ReplacedFrames DEF PoolInv
  <2>7. PoolTypeOK' /\ BackupsOK'
    <3>1. PoolTypeOK'
      BY <1>1, <1>5, <2>5 DEF PoolInv, PoolTypeOK, Stacks
    <3>2. \A b \in Backups : boss'[b] = None => stack'[b] = <<>>
      BY <1>1, <2>5 DEF PoolInv, BackupsOK, Threads
    <3> QED
      BY <3>1, <3>2 DEF BackupsOK
  <2>8. \A r \in Scopes : \A u \in Threads : \A i \in Nat :
          RootAt(r, u, i) /\ Told(stack'[u][i]) => Told(stack[u][i]) \/ r = s
    <3>1. ASSUME NEW r \in Scopes, NEW u \in Threads, NEW i \in Nat, RootAt(r, u, i), Told(stack'[u][i])
          PROVE  Told(stack[u][i]) \/ r = s
      <4>1. CASE u = t /\ i = n
        BY <1>2, <1>4, <3>1, <4>1 DEF RootAt
      <4>2. CASE u # t \/ i # n
        <5>1. stack'[u][i] = stack[u][i]
          BY <1>3, <2>5, <3>1, <4>2 DEF RootAt
        <5> QED
          BY <3>1, <5>1
      <4> QED
        BY <4>1, <4>2
    <3> QED
      BY <3>1
  <2>9. \A r \in Scopes : ~SenderAt(r, t, n)'
    BY <2>2, <2>5 DEF SenderAt
  <2>10. ASSUME NEW r \in Scopes PROVE Same(Pending(r), Pending(r)')
    <3>1. AlikeBut(stack, stack', r, t, n)
      BY <2>6
    <3>2. ~(n \in 1..Len(stack'[t]) /\ stack'[t][n].scope = r /\ Uncounted(stack'[t][n]))
      BY <2>4, <2>5
    <3>3. Same(Held(global, local, out, stack, r), Held(global, local, out, stack', r))
      BY <1>6, <3>1, <3>2, FrameCounts
    <3> QED
      BY <1>1, <3>3 DEF Pending
  <2>11. \A r \in Scopes : \A u \in Threads : \A i \in Nat :
           /\ RootAt(r, u, i)' <=> RootAt(r, u, i)
           /\ u # t \/ i # n => (SenderAt(r, u, i)' <=> SenderAt(r, u, i))
           /\ RootAt(r, u, i) /\ Told(stack'[u][i]) => Told(stack[u][i]) \/ r = s
    BY <2>6, <2>8
  <2> QED
    BY <1>1, <1>4, <1>5, <2>6, <2>7, <2>9, <2>10, <2>11, Signalled
<1>8. CASE Top(t).kind = "job"
  <2>1. stack' = [stack EXCEPT ![t] = Front(stack[t])]
    BY <1>1, <1>8 DEF Signal
  <2>2. Popped(t)
    BY <1>1, <2>1, PopIs DEF PoolInv
  <2>3. /\ StacksOK'
        /\ \A r \in Scopes : \A u \in Threads : \A i \in Nat :
             /\ RootAt(r, u, i)' <=> RootAt(r, u, i)
             /\ u # t \/ i # n => (SenderAt(r, u, i)' <=> SenderAt(r, u, i))
             /\ RootAt(r, u, i) /\ Told(stack'[u][i]) => Told(stack[u][i])
        /\ \A r \in Scopes : ~SenderAt(r, t, n)'
        /\ \A r \in Scopes : AlikeBut(stack, stack', r, t, n)
        /\ n \notin 1..Len(stack'[t])
    BY <1>1, <1>3, <1>8, <2>2, PoppedFrames
  <2>4. PoolTypeOK' /\ BackupsOK'
    <3>1. PoolTypeOK'
      BY <1>1, <1>5, <2>2 DEF PoolInv, PoolTypeOK, Stacks, Popped
    <3>2. \A b \in Backups : boss'[b] = None => stack'[b] = <<>>
      BY <1>1, <2>2 DEF PoolInv, BackupsOK, Threads, Popped
    <3> QED
      BY <3>1, <3>2 DEF BackupsOK
  <2>5. ASSUME NEW r \in Scopes PROVE Same(Pending(r), Pending(r)')
    <3>1. AlikeBut(stack, stack', r, t, n)
      BY <2>3
    <3>2. Same(Held(global, local, out, stack, r), Held(global, local, out, stack', r))
      BY <1>6, <2>3, <3>1, FrameCounts
    <3> QED
      BY <1>1, <3>2 DEF Pending
  <2>6. \A r \in Scopes : \A u \in Threads : \A i \in Nat :
           /\ RootAt(r, u, i)' <=> RootAt(r, u, i)
           /\ u # t \/ i # n => (SenderAt(r, u, i)' <=> SenderAt(r, u, i))
           /\ RootAt(r, u, i) /\ Told(stack'[u][i]) => Told(stack[u][i]) \/ r = s
    BY <2>3
  <2> QED
    BY <1>1, <1>4, <1>5, <2>3, <2>4, <2>5, <2>6, Signalled
<1> QED
  BY <1>1, <1>7, <1>8

-----------------------------------------------------------------------------
(* Spawning *)

\* A callback of r is running on some stack.
Runs(r) == \E t \in Threads : \E i \in Nat :
             /\ i \in 1..Len(stack[t]) /\ stack[t][i].kind # "loop" /\ stack[t][i].pc = "run"
             /\ stack[t][i].scope = r

\* A scope with a running callback is opened by one, or by the main thread.
LEMMA AroundRuns ==
  ASSUME PoolInv, NEW r \in Scopes, Runs(r)
  PROVE  /\ \E p : p \in Pending(r)
         /\ parent[r] = 0 \/ (parent[r] \in Scopes /\ Runs(parent[r]))
<1>1. PICK t \in Threads, i \in Nat :
        /\ i \in 1..Len(stack[t]) /\ stack[t][i].kind # "loop" /\ stack[t][i].pc = "run"
        /\ stack[t][i].scope = r
  BY DEF Runs
<1>2. stack[t][i] \in FrameSet
  BY <1>1 DEF PoolInv, PoolTypeOK
<1>3. Uncounted(stack[t][i])
  BY <1>1, <1>2 DEF Uncounted, FrameSet
<1>4. <<"stack", t, i>> \in Pending(r)
  BY <1>1, <1>3 DEF Pending, Held, HeldAt, Place
<1>5. PICK p : p = <<"stack", t, i>>
  OBVIOUS
<1>6. p \in Pending(r)
  BY <1>4, <1>5
<1>7. outcome[r] = "open"
  BY <1>6, PendingIsOpen
<1>8. PICK u \in Threads, j \in Nat : RootAt(r, u, j)
  BY <1>7 DEF PoolInv, RootsOK
<1>9. j \in 1..Len(stack[u]) /\ stack[u][j].kind = "root" /\ stack[u][j].scope = r
  BY <1>8 DEF RootAt
<1>10. FrameOK(u, j)
  BY <1>9 DEF PoolInv, StacksOK
<1>11. CASE j = 1
  BY <1>6, <1>9, <1>10, <1>11 DEF FrameOK
<1>12. CASE j # 1
  <2>1. PICK n \in Nat : n = Len(stack[u])
    BY DEF PoolInv, PoolTypeOK
  <2>2. PICK k \in Nat : k = j - 1 /\ k \in 1..Len(stack[u]) /\ j > 1
    BY <1>9, <1>12, <2>1
  <2>3. stack[u][k].kind # "loop" /\ stack[u][k].pc = "run" /\ stack[u][k].scope = parent[r]
    BY <1>9, <1>10, <2>2 DEF FrameOK
  <2>4. FrameOK(u, k)
    BY <2>2 DEF PoolInv, StacksOK
  <2>5. parent[r] \in Scopes
    BY <2>3, <2>4 DEF FrameOK
  <2> QED
    BY <1>6, <2>2, <2>3, <2>5 DEF Runs
<1> QED
  BY <1>11, <1>12

\* So every scope a running callback can name still expects a callback.
LEMMA EnclosingRuns ==
  ASSUME PoolInv, NEW r \in Scopes, Runs(r), NEW s \in Enclosing(r)
  PROVE  s \in Scopes /\ \E p : p \in Pending(s)
<1> DEFINE A == {q \in Scopes : Runs(q)}
<1>1. A \in SUBSET Scopes /\ r \in A
  OBVIOUS
<1>2. \A q \in A : parent[q] \in A \cup {0}
  BY AroundRuns
<1>3. s \in A /\ s \in Scopes
  BY <1>1, <1>2 DEF Enclosing
<1> QED
  BY <1>3, AroundRuns

\* A scope that expects a callback expects one more.
LEMMA Expected ==
  ASSUME PoolInv, NEW s \in Scopes, \E p : p \in Pending(s), PoolTypeOK',
         UNCHANGED <<stack, boss, parent, outcome, done>>,
         counts'[s].expected = counts[s].expected + 1,
         counts'[s].completed = counts[s].completed,
         \A r \in Scopes \ {s} : counts'[r] = counts[r],
         OneMore(Pending(s), Pending(s)'),
         \A r \in Scopes \ {s} : Same(Pending(r), Pending(r)')
  PROVE  PoolInv'
<1>1. /\ ~Full(s) /\ outcome[s] = "open" /\ done[s] = 0
      /\ \A u \in Threads : \A i \in Nat : /\ ~SenderAt(s, u, i)
                                           /\ RootAt(s, u, i) => ~Told(stack[u][i])
  BY PendingIsOpen
<1>2. \A r \in Scopes \ {s} : Full(r)' <=> Full(r)
  BY DEF Full
<1>3. \A r \in Scopes : \A u \in Threads : \A i \in Nat :
        (RootAt(r, u, i)' <=> RootAt(r, u, i)) /\ (SenderAt(r, u, i)' <=> SenderAt(r, u, i))
  BY DEF RootAt, SenderAt
<1>4. OpenOK'
  BY <1>1, <1>2, <1>3 DEF PoolInv, OpenOK
<1>5. RootsOK'
  BY <1>3 DEF PoolInv, RootsOK
<1>6. StacksOK' /\ BackupsOK'
  BY DEF PoolInv, StacksOK, FrameOK, BackupsOK
<1>7. CountsOK'
  <2>1. IsFiniteSet(Pending(s)') /\ counts'[s].expected = counts'[s].completed + Cardinality(Pending(s)')
    <3>1. /\ IsFiniteSet(Pending(s))
          /\ counts[s].expected = counts[s].completed + Cardinality(Pending(s))
          /\ counts[s].completed \in Nat
      BY DEF PoolInv, CountsOK, PoolTypeOK
    <3>2. IsFiniteSet(Pending(s)') /\ Cardinality(Pending(s)') = Cardinality(Pending(s)) + 1
      BY <3>1 DEF OneMore
    <3>3. Cardinality(Pending(s)) \in Nat
      BY <3>1, FS_CardinalityType
    <3> QED
      BY <3>1, <3>2, <3>3
  <2>2. ASSUME NEW r \in Scopes \ {s}
        PROVE  /\ IsFiniteSet(Pending(r)')
               /\ counts'[r].expected = counts'[r].completed + Cardinality(Pending(r)')
    BY DEF PoolInv, CountsOK, Same
  <2>3. ASSUME NEW r \in Scopes
        PROVE  /\ IsFiniteSet(Pending(r)')
               /\ counts'[r].expected = counts'[r].completed + Cardinality(Pending(r)')
    BY <2>1, <2>2
  <2> QED
    BY <2>3 DEF CountsOK
<1>8. SignalsOK'
  <2>1. ASSUME NEW r \in Scopes
        PROVE  /\ done'[r] \in {0, 1}
               /\ done'[r] = 1 => Full(r)' /\ outcome'[r] = "open"
               /\ \A u \in Threads : \A i \in Nat : SenderAt(r, u, i)' => Full(r)' /\ done'[r] = 0
               /\ \A u, v \in Threads : \A i, j \in Nat :
                    SenderAt(r, u, i)' /\ SenderAt(r, v, j)' => u = v /\ i = j
               /\ \A u \in Threads : \A i \in Nat : RootAt(r, u, i)' /\ Told(stack'[u][i]) =>
                    Full(r)' /\ \A v \in Threads : \A j \in Nat : ~SenderAt(r, v, j)'
    <3>1. CASE r # s
      BY <1>2, <1>3, <3>1 DEF PoolInv, SignalsOK
    <3>2. CASE r = s
      BY <1>1, <1>3, <3>2
    <3> QED
      BY <3>1, <3>2
  <2> QED
    BY <2>1 DEF SignalsOK
<1> QED
  BY <1>4, <1>5, <1>6, <1>7, <1>8 DEF PoolInv

\* spawn counts its job before it queues it, in a scope that a running callback keeps open.
LEMMA SpawnOK ==
  ASSUME PoolInv, NEW t \in Threads, Spawn(t)
  PROVE  PoolInv'
<1>1. /\ stack[t] # <<>> /\ out[t] = <<>> /\ Top(t).kind \in {"job", "root"} /\ Top(t).pc = "run"
      /\ UNCHANGED <<stack, global, boss, done, parent, outcome>>
  BY DEF Spawn, At, help
<1>2. PICK n \in Nat : n = Len(stack[t]) /\ n # 0 /\ n \in 1..n
  BY <1>1 DEF PoolInv, PoolTypeOK
<1>3. PICK r \in Scopes : r = Top(t).scope
  BY <1>1, TopIsFrame
<1>4. Runs(r)
  BY <1>1, <1>2, <1>3 DEF Runs, Top, Last
<1>5. PICK s \in Enclosing(r) :
        /\ ExpectOne(s)
        /\ \/ /\ out' = [out EXCEPT ![t] = <<s>>]
              /\ local' = local
           \/ LET q == Append(local[t], s)
              IN  /\ out' = [out EXCEPT ![t] = SubSeq(q, 1, Donated(q))]
                  /\ local' = [local EXCEPT ![t] = SubSeq(q, Donated(q) + 1, Len(q))]
  BY <1>3 DEF Spawn
<1>6. s \in Scopes /\ \E p : p \in Pending(s)
  BY <1>4, EnclosingRuns
<1>7. local \in Queues /\ out \in Queues /\ global \in Seq(Scopes)
  BY DEF PoolInv, PoolTypeOK, Queues
<1>8. /\ counts' \in [Scopes -> [expected : Nat, completed : Nat]]
      /\ counts'[s].expected = counts[s].expected + 1
      /\ counts'[s].completed = counts[s].completed
      /\ \A q \in Scopes \ {s} : counts'[q] = counts[q]
  <2>1. PICK c \in [expected : Nat, completed : Nat] : c = counts[s]
    BY <1>6 DEF PoolInv, PoolTypeOK
  <2>2. PICK d : d = [c EXCEPT !.expected = @ + 1]
    OBVIOUS
  <2>3. /\ d \in [expected : Nat, completed : Nat]
        /\ d.expected = c.expected + 1 /\ d.completed = c.completed
    BY <2>2
  <2>4. counts' = [counts EXCEPT ![s] = d]
    BY <1>5, <2>1, <2>2 DEF ExpectOne
  <2> QED
    BY <1>6, <2>1, <2>3, <2>4 DEF PoolInv, PoolTypeOK
<1>9. /\ local' \in Queues /\ out' \in Queues
      /\ \A q \in Scopes :
           /\ q = s => OneMore(Held(global, local, out, stack, q), Held(global, local', out', stack, q))
           /\ q # s => Same(Held(global, local, out, stack, q), Held(global, local', out', stack, q))
  <2>1. CASE out' = [out EXCEPT ![t] = <<s>>] /\ local' = local
    <3>1. ASSUME NEW q \in Scopes
          PROVE  /\ q = s => OneMore(Held(global, local, out, stack, q), Held(global, local, out', stack, q))
                 /\ q # s => Same(Held(global, local, out, stack, q), Held(global, local, out', stack, q))
      BY <1>1, <1>6, <1>7, <2>1, OutAdds
    <3>2. out' \in Queues
      BY <1>6, <1>7, <2>1 DEF Queues
    <3> QED
      BY <1>7, <2>1, <3>1, <3>2
  <2>2. CASE LET q == Append(local[t], s)
             IN  /\ out' = [out EXCEPT ![t] = SubSeq(q, 1, Donated(q))]
                 /\ local' = [local EXCEPT ![t] = SubSeq(q, Donated(q) + 1, Len(q))]
    <3>1. PICK q \in Seq(Scopes) : q = Append(local[t], s)
      <4>1. PICK p \in Seq(Scopes) : p = local[t]
        BY <1>7 DEF Queues
      <4>2. PICK q : q = Append(p, s)
        OBVIOUS
      <4>3. q \in Seq(Scopes)
        BY <1>6, <4>2
      <4> QED
        BY <4>1, <4>2, <4>3
    <3>2. PICK m \in Nat : m = Len(q)
      BY <3>1
    <3>3. PICK d \in Nat : d = Donated(q) /\ d <= m
      BY <3>2 DEF Donated
    <3>4. /\ out' = [out EXCEPT ![t] = SubSeq(q, 1, d)]
          /\ local' = [local EXCEPT ![t] = SubSeq(q, d + 1, m)]
      BY <2>2, <3>1, <3>2, <3>3
    <3>5. PICK l : l = [local EXCEPT ![t] = q]
      OBVIOUS
    <3>6. l \in Queues /\ l[t] = q /\ \A u \in Threads \ {t} : l[u] = local[u]
      BY <1>7, <3>1, <3>5 DEF Queues
    <3>7. l[t] = Append(local[t], s)
      BY <3>1, <3>6
    <3>8. SubSeq(q, 1, d) \in Seq(Scopes) /\ SubSeq(q, d + 1, m) \in Seq(Scopes)
      BY <3>2, <3>3
    <3>9. local' \in Queues /\ out' \in Queues
      BY <1>7, <3>4, <3>8 DEF Queues
    <3>10. /\ local'[t] = SubSeq(l[t], d + 1, Len(l[t])) /\ out'[t] = SubSeq(l[t], 1, d)
           /\ \A u \in Threads \ {t} : local'[u] = l[u]
           /\ \A u \in Threads \ {t} : out'[u] = out[u]
      BY <1>7, <3>2, <3>4, <3>6 DEF Queues
    <3>11. d \in 0..Len(l[t])
      BY <3>2, <3>3, <3>6
    <3>12. ASSUME NEW e \in Scopes
           PROVE  /\ e = s => OneMore(Held(global, local, out, stack, e), Held(global, local', out', stack, e))
                  /\ e # s => Same(Held(global, local, out, stack, e), Held(global, local', out', stack, e))
      <4> DEFINE A == Held(global, local, out, stack, e)
                 B == Held(global, l, out, stack, e)
                 C == Held(global, local', out', stack, e)
      <4>1. (e = s => OneMore(A, B)) /\ (e # s => Same(A, B))
        <5>1. PICK k \in Queues : k = local
          BY <1>7
        <5>2. PutAt(k, l, t, s)
          BY <3>6, <3>7, <5>1 DEF PutAt
        <5>3. /\ e = s => OneMore(Held(global, k, out, stack, e), Held(global, l, out, stack, e))
              /\ e # s => Same(Held(global, k, out, stack, e), Held(global, l, out, stack, e))
          BY <1>6, <5>2, LocalAdds
        <5> QED
          BY <5>1, <5>3
      <4>2. Same(B, C)
        BY <1>1, <1>7, <3>6, <3>10, <3>11, Split
      <4> HIDE DEF A, B, C
      <4>3. (e = s => OneMore(A, C)) /\ (e # s => Same(A, C))
        BY <4>1, <4>2 DEF Same, OneMore
      <4> QED
        BY <4>3 DEF A, C
    <3> QED
      BY <3>9, <3>12
  <2> QED
    BY <1>5, <2>1, <2>2
<1>10. OneMore(Pending(s), Pending(s)')
  BY <1>1, <1>6, <1>9 DEF Pending
<1>11. \A q \in Scopes \ {s} : Same(Pending(q), Pending(q)')
  BY <1>1, <1>9 DEF Pending
<1>12. PoolTypeOK'
  BY <1>1, <1>7, <1>8, <1>9 DEF PoolInv, PoolTypeOK, Queues
<1> QED
  BY <1>1, <1>6, <1>8, <1>10, <1>11, <1>12, Expected

-----------------------------------------------------------------------------
(* Opening a scope *)

\* A scope that is not open has nothing left to do.
LEMMA NotOpen ==
  ASSUME PoolInv, NEW s \in Scopes, outcome[s] # "open"
  PROVE  /\ IsFiniteSet(Pending(s)) /\ Cardinality(Pending(s)) = 0 /\ done[s] = 0
         /\ \A t \in Threads : \A i \in Nat : ~RootAt(s, t, i) /\ ~SenderAt(s, t, i)
<1>1. Full(s)
  BY DEF PoolInv, OpenOK
<1>2. /\ IsFiniteSet(Pending(s))
      /\ counts[s].expected = counts[s].completed + Cardinality(Pending(s))
      /\ counts[s].expected \in Nat /\ counts[s].completed \in Nat
  BY DEF PoolInv, CountsOK, PoolTypeOK
<1>3. Cardinality(Pending(s)) \in Nat
  BY <1>2, FS_CardinalityType
<1>4. Cardinality(Pending(s)) = 0
  BY <1>1, <1>2, <1>3 DEF Full
<1> QED
  BY <1>2, <1>4 DEF PoolInv, OpenOK, SignalsOK

\* The stack of t with the root callback of s on top of what it had.
Opened(t, s) ==
  /\ stack' \in Stacks /\ Len(stack[t]) \in Nat
  /\ Len(stack'[t]) = Len(stack[t]) + 1
  /\ \A f \in FrameSet : f = stack'[t][Len(stack[t]) + 1] =>
       f.kind = "root" /\ f.scope = s /\ f.pc = "run" /\ ~f.bad
  /\ \A i \in 1..Len(stack[t]) : stack'[t][i] = stack[t][i]
  /\ \A u \in Threads \ {t} : stack'[u] = stack[u]

\* What OpenScope does to the stacks.
LEMMA OpenIs ==
  ASSUME PoolInv, NEW t \in Threads, NEW s \in Scopes,
         stack' = [stack EXCEPT ![t] = Append(@, Frame("root", s, "run"))]
  PROVE  Opened(t, s)
<1>1. PICK f \in FrameSet : /\ f = Frame("root", s, "run")
                           /\ f.kind = "root" /\ f.scope = s /\ f.pc = "run" /\ ~f.bad
  <2>1. PICK f : f = Frame("root", s, "run")
    OBVIOUS
  <2>2. s \in 0..MaxScopes
    BY PoolAssumption DEF Scopes
  <2>3. f \in FrameSet /\ f.kind = "root" /\ f.scope = s /\ f.pc = "run" /\ ~f.bad
    BY <2>1, <2>2 DEF Frame, FrameSet, Pcs
  <2> QED
    BY <2>1, <2>3
<1>2. PICK q \in Seq(FrameSet) : q = stack[t] /\ Len(q) \in Nat
  BY DEF PoolInv, PoolTypeOK
<1>3. PICK r : r = Append(q, f)
  OBVIOUS
<1>4. r \in Seq(FrameSet) /\ Len(r) = Len(q) + 1 /\ r[Len(q) + 1] = f /\ \A i \in 1..Len(q) : r[i] = q[i]
  BY <1>2, <1>3, PushedIs
<1>5. stack' = [stack EXCEPT ![t] = r]
  BY <1>1, <1>2, <1>3
<1>6. stack' \in Stacks /\ stack'[t] = r /\ \A u \in Threads \ {t} : stack'[u] = stack[u]
  BY <1>4, <1>5 DEF PoolInv, PoolTypeOK, Stacks
<1> QED
  BY <1>1, <1>2, <1>4, <1>6 DEF Opened

\* scope_wait starts a scope with its root callback, which is counted.
LEMMA OpenScopeOK ==
  ASSUME PoolInv, NEW t \in Threads, OpenScope(t)
  PROVE  PoolInv'
<1>1. PICK s \in Scopes :
        /\ outcome[s] = "unborn"
        /\ outcome' = [outcome EXCEPT ![s] = "open"]
        /\ counts' = [counts EXCEPT ![s] = [expected |-> 1, completed |-> 0]]
        /\ parent' = [parent EXCEPT ![s] = IF stack[t] = <<>> THEN 0 ELSE Top(t).scope]
        /\ stack' = [stack EXCEPT ![t] = Append(@, Frame("root", s, "run"))]
  BY DEF OpenScope
<1>2. UNCHANGED <<local, global, out, boss, done>>
  BY DEF OpenScope, pool, help
<1>3. \/ t = Main /\ stack[t] = <<>>
      \/ stack[t] # <<>> /\ Top(t).kind \in {"job", "root"} /\ Top(t).pc = "run"
  BY DEF OpenScope, At
<1>4. /\ IsFiniteSet(Pending(s)) /\ Cardinality(Pending(s)) = 0 /\ done[s] = 0
      /\ \A u \in Threads : \A i \in Nat : ~RootAt(s, u, i) /\ ~SenderAt(s, u, i)
  BY <1>1, NotOpen
<1>5. PICK n \in Nat : n = Len(stack[t]) /\ (n = 0 <=> stack[t] = <<>>)
  <2>1. PICK q \in Seq(FrameSet) : q = stack[t]
    BY DEF PoolInv, PoolTypeOK
  <2>2. PICK n : n = Len(q)
    OBVIOUS
  <2>3. n \in Nat /\ (n = 0 <=> q = <<>>)
    BY <2>2
  <2> QED
    BY <2>1, <2>2, <2>3
<1>6. PICK m \in Nat : m = n + 1 /\ m \notin 1..n /\ m \in 1..m
  BY <1>5
<1>7. Opened(t, s)
  BY <1>1, OpenIs
<1>8. /\ stack' \in Stacks /\ Len(stack'[t]) = m
      /\ \A i \in 1..n : stack'[t][i] = stack[t][i]
      /\ \A u \in Threads \ {t} : stack'[u] = stack[u]
  BY <1>5, <1>6, <1>7 DEF Opened
<1>7a. PICK f \in FrameSet : stack'[t][m] = f /\ f.kind = "root" /\ f.scope = s /\ f.pc = "run"
  <2>1. stack'[t][m] \in FrameSet
    BY <1>6, <1>8 DEF Stacks
  <2>2. PICK f \in FrameSet : stack'[t][m] = f
    BY <2>1
  <2>3. f.kind = "root" /\ f.scope = s /\ f.pc = "run"
    BY <1>5, <1>6, <1>7, <2>2 DEF Opened
  <2> QED
    BY <2>2, <2>3
<1>9. /\ outcome' \in [Scopes -> {"unborn", "open", "ok", "panic"}] /\ outcome'[s] = "open"
      /\ \A r \in Scopes \ {s} : outcome'[r] = outcome[r]
      /\ counts' \in [Scopes -> [expected : Nat, completed : Nat]]
      /\ counts'[s].expected = 1 /\ counts'[s].completed = 0
      /\ \A r \in Scopes \ {s} : counts'[r] = counts[r]
  <2>1. PICK c : c = [expected |-> 1, completed |-> 0]
    OBVIOUS
  <2>2. c \in [expected : Nat, completed : Nat] /\ c.expected = 1 /\ c.completed = 0
    BY <2>1
  <2>3. counts' = [counts EXCEPT ![s] = c]
    BY <1>1, <2>1
  <2>4. /\ counts' \in [Scopes -> [expected : Nat, completed : Nat]] /\ counts'[s] = c
        /\ \A r \in Scopes \ {s} : counts'[r] = counts[r]
    BY <2>2, <2>3 DEF PoolInv, PoolTypeOK
  <2>5. /\ outcome' \in [Scopes -> {"unborn", "open", "ok", "panic"}] /\ outcome'[s] = "open"
        /\ \A r \in Scopes \ {s} : outcome'[r] = outcome[r]
    BY <1>1 DEF PoolInv, PoolTypeOK
  <2> QED
    BY <2>2, <2>4, <2>5
<1>10. /\ parent' \in [Scopes -> 0..MaxScopes]
       /\ \A r \in Scopes \ {s} : parent'[r] = parent[r]
       /\ n = 0 => parent'[s] = 0 /\ t = Main
       /\ n # 0 => /\ parent'[s] = stack[t][n].scope /\ stack[t][n].kind \in {"job", "root"}
                   /\ stack[t][n].pc = "run" /\ (t = Main => stack[t][n].kind = "root")
  <2>1. CASE n = 0
    <3>1. parent' = [parent EXCEPT ![s] = 0]
      BY <1>1, <1>5, <2>1
    <3>2. 0 \in 0..MaxScopes
      BY PoolAssumption
    <3> QED
      BY <1>3, <1>5, <2>1, <3>1, <3>2 DEF PoolInv, PoolTypeOK
  <2>2. CASE n # 0
    <3>1. Top(t) = stack[t][n] /\ n \in 1..n
      BY <1>5, <2>2 DEF Top, Last
    <3>2. PICK p \in Scopes : p = Top(t).scope
      BY <1>3, <1>5, <2>2, TopIsFrame
    <3>3. parent' = [parent EXCEPT ![s] = p] /\ p \in 0..MaxScopes
      BY <1>1, <1>5, <2>2, <3>2, PoolAssumption DEF Scopes
    <3>4. FrameOK(t, n)
      BY <1>5, <3>1 DEF PoolInv, StacksOK
    <3>5. parent' \in [Scopes -> 0..MaxScopes] /\ parent'[s] = p /\ \A r \in Scopes \ {s} : parent'[r] = parent[r]
      BY <3>3 DEF PoolInv, PoolTypeOK
    <3>6. t = Main => stack[t][n].kind = "root"
      BY <3>4 DEF FrameOK
    <3> QED
      BY <1>3, <1>5, <2>2, <3>1, <3>2, <3>5, <3>6
  <2> QED
    BY <2>1, <2>2
<1>11. PoolTypeOK'
  BY <1>2, <1>8, <1>9, <1>10 DEF PoolInv, PoolTypeOK, Stacks
<1>12. BackupsOK'
  <2>1. ASSUME NEW b \in Backups, boss'[b] = None PROVE stack'[b] = <<>>
    <3>1. stack[b] = <<>>
      BY <1>2, <2>1 DEF PoolInv, BackupsOK
    <3>2. b # t
      BY <1>3, <3>1, PoolAssumption
    <3> QED
      BY <1>8, <3>1, <3>2 DEF Threads
  <2> QED
    BY <2>1 DEF BackupsOK
<1>13. ASSUME NEW u \in Threads, NEW i \in Nat
       PROVE  /\ i \in 1..Len(stack'[u]) <=> i \in 1..Len(stack[u]) \/ (u = t /\ i = m)
              /\ ~(u = t /\ i = m) /\ i \in 1..Len(stack[u]) => stack'[u][i] = stack[u][i]
              /\ i \in 1..Len(stack[u]) => ~(u = t /\ i = m)
  <2>1. CASE u # t
    BY <1>8, <2>1
  <2>2. CASE u = t
    BY <1>5, <1>6, <1>8, <2>2
  <2> QED
    BY <2>1, <2>2
<1>14. ASSUME NEW u \in Threads, NEW i \in 1..Len(stack'[u]) PROVE FrameOK(u, i)'
  <2>1. CASE u = t /\ i = m
    <3>1. CASE n = 0
      <4>1. m = 1
        BY <1>6, <3>1
      <4> QED
        BY <1>8, <1>10, <1>7a, <2>1, <3>1, <4>1 DEF FrameOK
    <3>2. CASE n # 0
      <4>1. m > 1 /\ m - 1 = n /\ n \in 1..n
        BY <1>5, <1>6, <3>2
      <4>2. stack'[t][m - 1] = stack[t][n]
        BY <1>8, <4>1
      <4>3. stack[t][n].kind # "loop" /\ stack[t][n].pc = "run" /\ stack[t][n].scope = parent'[s]
        BY <1>10, <3>2
      <4> QED
        BY <1>8, <1>7a, <2>1, <4>1, <4>2, <4>3 DEF FrameOK
    <3> QED
      BY <3>1, <3>2
  <2>2. CASE ~(u = t /\ i = m)
    <3>1. PICK j \in Nat : j = i /\ j # 0
      BY <1>8 DEF Stacks
    <3>2. j \in 1..Len(stack[u]) /\ stack'[u][j] = stack[u][j]
      BY <1>13, <2>2, <3>1
    <3>3. FrameOK(u, j)
      BY <3>2 DEF PoolInv, StacksOK
    <3>4. j > 1 => stack'[u][j - 1] = stack[u][j - 1]
      <4>1. SUFFICES ASSUME j > 1 PROVE stack'[u][j - 1] = stack[u][j - 1]
        OBVIOUS
      <4>2. PICK l \in Nat : l = Len(stack[u])
        BY DEF PoolInv, PoolTypeOK
      <4>3. PICK k \in Nat : k = j - 1 /\ k \in 1..l
        BY <3>2, <4>1, <4>2
      <4>4. k \in 1..Len(stack[u])
        BY <4>2, <4>3
      <4>5. stack'[u][k] = stack[u][k]
        BY <1>13, <4>4
      <4> QED
        BY <4>3, <4>5
    <3>5. stack[u][j].kind = "root" => parent'[stack[u][j].scope] = parent[stack[u][j].scope]
      <4>1. SUFFICES ASSUME stack[u][j].kind = "root"
                     PROVE  parent'[stack[u][j].scope] = parent[stack[u][j].scope]
        OBVIOUS
      <4>2. stack[u][j].scope \in Scopes
        BY <3>3, <4>1 DEF FrameOK
      <4>3. stack[u][j].scope # s
        BY <1>4, <3>2, <4>1 DEF RootAt
      <4> QED
        BY <1>10, <4>2, <4>3
    <3>6. FrameOK(u, j)'
      BY <3>2, <3>3, <3>4, <3>5 DEF FrameOK
    <3> QED
      BY <3>1, <3>6
  <2> QED
    BY <2>1, <2>2
<1>15. StacksOK'
  BY <1>14 DEF StacksOK
<1>16. ASSUME NEW r \in Scopes, NEW u \in Threads, NEW i \in Nat
       PROVE  /\ RootAt(r, u, i)' <=> RootAt(r, u, i) \/ (r = s /\ u = t /\ i = m)
              /\ SenderAt(r, u, i)' <=> SenderAt(r, u, i)
              /\ RootAt(r, u, i)' /\ Told(stack'[u][i]) => RootAt(r, u, i) /\ Told(stack[u][i])
  <2>1. CASE u = t /\ i = m
    BY <1>8, <1>13, <1>7a, <2>1 DEF RootAt, SenderAt, Told
  <2>2. CASE ~(u = t /\ i = m)
    BY <1>13, <2>2 DEF RootAt, SenderAt
  <2> QED
    BY <2>1, <2>2
<1>17. \A r \in Scopes \ {s} : Full(r)' <=> Full(r)
  BY <1>9 DEF Full
<1>18. OpenOK'
  <2>1. ASSUME NEW r \in Scopes
        PROVE  /\ ~Full(r)' => outcome'[r] = "open"
               /\ \A u \in Threads : \A i \in Nat :
                    RootAt(r, u, i)' \/ SenderAt(r, u, i)' => outcome'[r] = "open"
    <3>1. CASE r # s
      BY <1>9, <1>16, <1>17, <3>1 DEF PoolInv, OpenOK
    <3>2. CASE r = s
      BY <1>9, <3>2
    <3> QED
      BY <3>1, <3>2
  <2> QED
    BY <2>1 DEF OpenOK
<1>19. RootsOK'
  <2>1. ASSUME NEW r \in Scopes
        PROVE  /\ outcome'[r] = "open" => \E u \in Threads : \E i \in Nat : RootAt(r, u, i)'
               /\ \A u, v \in Threads : \A i, j \in Nat :
                    RootAt(r, u, i)' /\ RootAt(r, v, j)' => u = v /\ i = j
    <3>1. CASE r # s
      BY <1>9, <1>16, <3>1 DEF PoolInv, RootsOK
    <3>2. CASE r = s
      BY <1>4, <1>16, <3>2
    <3> QED
      BY <3>1, <3>2
  <2> QED
    BY <2>1 DEF RootsOK
<1>20. ASSUME NEW r \in Scopes
       PROVE  /\ r = s => OneMore(Pending(r), Pending(r)')
              /\ r # s => Same(Pending(r), Pending(r)')
  <2>1. AlikeBut(stack, stack', r, t, m)
    BY <1>13 DEF AlikeBut
  <2>2. ~(m \in 1..Len(stack[t]) /\ stack[t][m].scope = r /\ Uncounted(stack[t][m]))
    BY <1>13
  <2>3. (m \in 1..Len(stack'[t]) /\ stack'[t][m].scope = r /\ Uncounted(stack'[t][m])) <=> r = s
    BY <1>6, <1>8, <1>7a DEF Uncounted
  <2>4. /\ r = s => OneMore(Held(global, local, out, stack, r), Held(global, local, out, stack', r))
        /\ r # s => Same(Held(global, local, out, stack, r), Held(global, local, out, stack', r))
    BY <2>1, <2>2, <2>3, FrameCounts
  <2> QED
    BY <1>2, <2>4 DEF Pending
<1>21. CountsOK'
  <2>1. ASSUME NEW r \in Scopes
        PROVE  /\ IsFiniteSet(Pending(r)')
               /\ counts'[r].expected = counts'[r].completed + Cardinality(Pending(r)')
    <3>1. CASE r # s
      BY <1>9, <1>20, <3>1 DEF PoolInv, CountsOK, Same
    <3>2. CASE r = s
      BY <1>4, <1>9, <1>20, <3>2 DEF OneMore
    <3> QED
      BY <3>1, <3>2
  <2> QED
    BY <2>1 DEF CountsOK
<1>22. SignalsOK'
  <2>1. ASSUME NEW r \in Scopes
        PROVE  /\ done'[r] \in {0, 1}
               /\ done'[r] = 1 => Full(r)' /\ outcome'[r] = "open"
               /\ \A u \in Threads : \A i \in Nat : SenderAt(r, u, i)' => Full(r)' /\ done'[r] = 0
               /\ \A u, v \in Threads : \A i, j \in Nat :
                    SenderAt(r, u, i)' /\ SenderAt(r, v, j)' => u = v /\ i = j
               /\ \A u \in Threads : \A i \in Nat : RootAt(r, u, i)' /\ Told(stack'[u][i]) =>
                    Full(r)' /\ \A v \in Threads : \A j \in Nat : ~SenderAt(r, v, j)'
    <3>1. CASE r # s
      <4>1. done'[r] = done[r] /\ outcome'[r] = outcome[r] /\ (Full(r)' <=> Full(r))
        BY <1>2, <1>9, <1>17, <3>1
      <4>2. \A u \in Threads : \A i \in Nat : SenderAt(r, u, i)' <=> SenderAt(r, u, i)
        BY <1>16
      <4>3. /\ done'[r] \in {0, 1}
            /\ done'[r] = 1 => Full(r)' /\ outcome'[r] = "open"
            /\ \A u \in Threads : \A i \in Nat : SenderAt(r, u, i)' => Full(r)' /\ done'[r] = 0
            /\ \A u, v \in Threads : \A i, j \in Nat :
                 SenderAt(r, u, i)' /\ SenderAt(r, v, j)' => u = v /\ i = j
        BY <4>1, <4>2 DEF PoolInv, SignalsOK
      <4>4. ASSUME NEW u \in Threads, NEW i \in Nat, RootAt(r, u, i)', Told(stack'[u][i])
            PROVE  Full(r)' /\ \A v \in Threads : \A j \in Nat : ~SenderAt(r, v, j)'
        <5>1. RootAt(r, u, i) /\ Told(stack[u][i])
          BY <1>16, <4>4
        <5> QED
          BY <4>1, <4>2, <5>1 DEF PoolInv, SignalsOK
      <4> QED
        BY <4>3, <4>4
    <3>2. CASE r = s
      BY <1>2, <1>4, <1>16, <3>2
    <3> QED
      BY <3>1, <3>2
  <2> QED
    BY <2>1 DEF SignalsOK
<1> QED
  BY <1>11, <1>12, <1>15, <1>18, <1>19, <1>21, <1>22 DEF PoolInv

-----------------------------------------------------------------------------
(* Returning from a scope *)

\* The stack of t without the wait on top; a panic goes on in the callback below it.
Returned(t, n, bad) ==
  /\ stack' \in Stacks /\ n \in Nat /\ Len(stack[t]) = n + 1 /\ Len(stack'[t]) = n
  /\ \A i \in 1..n - 1 : stack'[t][i] = stack[t][i]
  /\ n # 0 /\ ~bad => stack'[t][n] = stack[t][n]
  /\ n # 0 /\ bad =>
       /\ stack'[t][n].kind = stack[t][n].kind /\ stack'[t][n].scope = stack[t][n].scope
       /\ stack'[t][n].bad
       /\ stack'[t][n].pc = IF stack[t][n].kind = "job" THEN "record" ELSE "count"
  /\ \A u \in Threads \ {t} : stack'[u] = stack[u]

\* What Return does to the stacks.
LEMMA ReturnIs ==
  ASSUME PoolInv, NEW t \in Threads, stack[t] # <<>>, NEW bad \in BOOLEAN,
         stack' = [stack EXCEPT ![t] = IF bad /\ Front(stack[t]) # <<>> THEN Over(Front(stack[t]), TRUE)
                                       ELSE Front(stack[t])]
  PROVE  \E m \in Nat : Returned(t, m, bad)
<1>1. PICK n \in Nat : n = Len(stack[t]) /\ n # 0
  BY DEF PoolInv, PoolTypeOK
<1>2. PICK m \in Nat : m = n - 1 /\ n = m + 1
  <2>1. n - 1 \in Nat /\ n = (n - 1) + 1
    BY <1>1
  <2> QED
    BY <2>1
<1>3. PICK q \in Seq(FrameSet) : /\ q = Front(stack[t]) /\ Len(q) = m
                                /\ \A i \in 1..m : q[i] = stack[t][i]
  <2>1. PICK p \in Seq(FrameSet) : p = stack[t] /\ p # <<>> /\ Len(p) = n
    BY <1>1 DEF PoolInv, PoolTypeOK
  <2>2. PICK q : q = Front(p)
    OBVIOUS
  <2>3. q \in Seq(FrameSet) /\ Len(q) = Len(p) - 1 /\ \A i \in 1..Len(p) - 1 : q[i] = p[i]
    BY <2>1, <2>2, PoppedIs
  <2> QED
    BY <1>2, <2>1, <2>2, <2>3
<1>4. q = <<>> <=> m = 0
  BY <1>3
<1>5. CASE bad /\ m # 0
  <2>1. PICK g \in FrameSet : g = stack[t][m] /\ g = q[m] /\ q # <<>>
    <3>1. m \in 1..m
      BY <1>5
    <3> QED
      BY <1>3, <1>4, <1>5, <3>1
  <2>2. PICK place \in {"record", "count"} : place = IF TRUE /\ g.kind = "job" THEN "record" ELSE "count"
    OBVIOUS
  <2>3. PICK f : f = [g EXCEPT !.bad = TRUE, !.pc = place]
    OBVIOUS
  <2>4. f \in FrameSet /\ f.kind = g.kind /\ f.scope = g.scope /\ f.pc = place /\ f.bad
    BY <2>1, <2>3 DEF FrameSet, Pcs
  <2>5. PICK r : r = OnTop(q, f)
    OBVIOUS
  <2>6. Over(q, TRUE) = r
    <3>1. Last(q) = g
      BY <1>3, <2>1 DEF Last
    <3> QED
      BY <2>2, <2>3, <2>5, <3>1 DEF Over, OnTop
  <2>7. TopIs(q, r, f)
    BY <2>1, <2>4, <2>5, MovedIs
  <2>8. stack' = [stack EXCEPT ![t] = r]
    BY <1>3, <1>5, <2>1, <2>6
  <2>9. r \in Seq(FrameSet) /\ Len(r) = m /\ r[m] = f /\ \A i \in 1..m - 1 : r[i] = q[i]
    BY <1>3, <2>7 DEF TopIs
  <2>10. \A i \in 1..m - 1 : r[i] = stack[t][i]
    BY <1>3, <2>9
  <2>11. stack' \in Stacks /\ stack'[t] = r /\ \A u \in Threads \ {t} : stack'[u] = stack[u]
    BY <2>8, <2>9 DEF PoolInv, PoolTypeOK, Stacks
  <2>12. stack'[t][m] = f /\ stack[t][m] = g /\ Len(stack'[t]) = m /\ Len(stack[t]) = m + 1
    BY <1>1, <1>2, <2>1, <2>9, <2>11
  <2>13. \A i \in 1..m - 1 : stack'[t][i] = stack[t][i]
    BY <2>10, <2>11
  <2>14. Returned(t, m, bad)
    BY <1>5, <2>2, <2>4, <2>11, <2>12, <2>13 DEF Returned
  <2> QED
    BY <2>14
<1>6. CASE ~(bad /\ m # 0)
  <2>1. stack' = [stack EXCEPT ![t] = q]
    BY <1>3, <1>4, <1>6
  <2>2. stack' \in Stacks /\ stack'[t] = q /\ \A u \in Threads \ {t} : stack'[u] = stack[u]
    BY <2>1 DEF PoolInv, PoolTypeOK, Stacks
  <2>3. m # 0 => q[m] = stack[t][m]
    BY <1>3
  <2>4. m # 0 => ~bad /\ stack'[t][m] = stack[t][m]
    BY <1>6, <2>2, <2>3
  <2>5. \A i \in 1..m - 1 : stack'[t][i] = stack[t][i]
    <3>1. \A i \in 1..m - 1 : i \in 1..m
      BY <1>2
    <3> QED
      BY <1>3, <2>2, <3>1
  <2>6. Len(stack'[t]) = m /\ Len(stack[t]) = m + 1
    BY <1>1, <1>2, <1>3, <2>2
  <2>7. Returned(t, m, bad)
    BY <2>2, <2>4, <2>5, <2>6 DEF Returned
  <2> QED
    BY <2>7
<1> QED
  BY <1>5, <1>6

\* A scope returns after its message, when nothing of it is left.
LEMMA ReturnOK ==
  ASSUME PoolInv, NEW t \in Threads, ReturnFromScope(t)
  PROVE  PoolInv'
<1>1. /\ stack[t] # <<>> /\ Top(t).kind = "root" /\ Top(t).pc = "take"
      /\ UNCHANGED <<local, global, out, boss, counts, parent>>
  BY DEF ReturnFromScope, At, pool, help
<1>2. PICK s \in Scopes : s = Top(t).scope
  BY <1>1, TopIsFrame
<1>3. PICK bad \in BOOLEAN : bad = (Top(t).bad \/ slot[s])
  OBVIOUS
<1>4. /\ outcome' = [outcome EXCEPT ![s] = IF bad THEN "panic" ELSE "ok"]
      /\ done' = [done EXCEPT ![s] = 0]
      /\ stack' = [stack EXCEPT ![t] = IF bad /\ Front(stack[t]) # <<>> THEN Over(Front(stack[t]), TRUE)
                                       ELSE Front(stack[t])]
  BY <1>2, <1>3 DEF ReturnFromScope
<1>5. PICK n \in Nat : n = Len(stack[t]) /\ n # 0 /\ n \in 1..n
  BY <1>1 DEF PoolInv, PoolTypeOK
<1>6. Top(t) = stack[t][n] /\ FrameOK(t, n) /\ RootAt(s, t, n) /\ Told(stack[t][n])
      /\ ~Uncounted(stack[t][n])
  BY <1>1, <1>2, <1>5 DEF PoolInv, StacksOK, Top, Last, RootAt, Told, Uncounted
<1>7. Full(s) /\ \A u \in Threads : \A j \in Nat : ~SenderAt(s, u, j)
  BY <1>6 DEF PoolInv, SignalsOK
<1>8. \A u \in Threads : \A j \in Nat : RootAt(s, u, j) => u = t /\ j = n
  BY <1>6 DEF PoolInv, RootsOK
<1>9. PICK m \in Nat : m = n - 1 /\ n = m + 1 /\ (n > 1 <=> m # 0) /\ m # n
  <2>1. PICK k \in Nat : k = n
    OBVIOUS
  <2>2. k # 0
    BY <1>5, <2>1
  <2>3. k - 1 \in Nat
    BY <2>2
  <2>4. PICK m \in Nat : m = k - 1
    BY <2>3
  <2> QED
    BY <2>1, <2>2, <2>4
<1>10. m # 0 => /\ m \in 1..Len(stack[t]) /\ stack[t][m] \in FrameSet /\ FrameOK(t, m)
                /\ stack[t][m].kind \in {"job", "root"} /\ stack[t][m].pc = "run"
  <2>1. SUFFICES ASSUME m # 0
                 PROVE  /\ m \in 1..Len(stack[t]) /\ stack[t][m] \in FrameSet /\ FrameOK(t, m)
                        /\ stack[t][m].kind \in {"job", "root"} /\ stack[t][m].pc = "run"
    OBVIOUS
  <2>2. m \in 1..Len(stack[t])
    BY <1>5, <1>9, <2>1
  <2>3. stack[t][m] \in FrameSet /\ FrameOK(t, m)
    BY <2>2 DEF PoolInv, PoolTypeOK, StacksOK
  <2>4. stack[t][m].kind # "loop" /\ stack[t][m].pc = "run"
    BY <1>1, <1>6, <1>9, <2>1 DEF FrameOK
  <2> QED
    BY <2>2, <2>3, <2>4 DEF FrameSet
<1>11. Returned(t, m, bad)
  <2>1. PICK k \in Nat : Returned(t, k, bad)
    BY <1>1, <1>4, ReturnIs
  <2>2. k = m
    BY <1>5, <1>9, <2>1 DEF Returned
  <2> QED
    BY <2>1, <2>2
<1>13. /\ stack' \in Stacks /\ Len(stack'[t]) = m
       /\ \A i \in 1..m - 1 : stack'[t][i] = stack[t][i]
       /\ \A u \in Threads \ {t} : stack'[u] = stack[u]
       /\ m # 0 => /\ stack'[t][m].kind = stack[t][m].kind /\ stack'[t][m].scope = stack[t][m].scope
                   /\ stack'[t][m].pc \in {"run", "record", "count"}
                   /\ stack'[t][m].pc = "record" => stack[t][m].kind = "job"
  BY <1>5, <1>9, <1>10, <1>11 DEF Returned
<1>14. /\ outcome' \in [Scopes -> {"unborn", "open", "ok", "panic"}] /\ outcome'[s] # "open"
       /\ \A r \in Scopes \ {s} : outcome'[r] = outcome[r]
       /\ done' \in [Scopes -> Nat] /\ done'[s] = 0 /\ \A r \in Scopes \ {s} : done'[r] = done[r]
  BY <1>4 DEF PoolInv, PoolTypeOK
<1>15. PoolTypeOK' /\ BackupsOK'
  <2>1. PoolTypeOK'
    BY <1>1, <1>13, <1>14 DEF PoolInv, PoolTypeOK, Stacks
  <2>2. ASSUME NEW b \in Backups, boss'[b] = None PROVE stack'[b] = <<>>
    <3>1. stack[b] = <<>> /\ b # t
      BY <1>1, <2>2 DEF PoolInv, BackupsOK
    <3> QED
      BY <1>13, <3>1 DEF Threads
  <2> QED
    BY <2>1, <2>2 DEF BackupsOK
<1>16. ASSUME NEW u \in Threads, NEW i \in Nat
       PROVE  /\ i \in 1..Len(stack'[u]) <=> i \in 1..Len(stack[u]) /\ ~(u = t /\ i = n)
              /\ i \in 1..Len(stack'[u]) /\ ~(u = t /\ i = m) => stack'[u][i] = stack[u][i]
              /\ u = t /\ i = m /\ i \in 1..Len(stack'[u]) => m # 0
  <2>1. CASE u # t
    BY <1>13, <2>1
  <2>2. CASE u = t
    <3>1. i \in 1..m <=> i \in 1..n /\ i # n
      BY <1>9
    <3>2. i \in 1..m /\ i # m => i \in 1..m - 1
      OBVIOUS
    <3>3. m \in 1..m => m # 0
      OBVIOUS
    <3> QED
      BY <1>5, <1>13, <2>2, <3>1, <3>2, <3>3
  <2> QED
    BY <2>1, <2>2
<1>17. ASSUME NEW u \in Threads, NEW i \in 1..Len(stack'[u]) PROVE FrameOK(u, i)'
  <2>1. CASE u # t
    BY <1>1, <1>13, <2>1 DEF PoolInv, StacksOK, FrameOK
  <2>2. CASE u = t /\ i # m
    <3>1. i \in 1..m - 1 /\ i \in 1..n /\ (i > 1 => i - 1 \in 1..m - 1)
      BY <1>9, <1>13, <2>2
    <3>2. stack'[t][i] = stack[t][i] /\ (i > 1 => stack'[t][i - 1] = stack[t][i - 1])
      BY <1>13, <3>1
    <3>3. FrameOK(t, i)
      BY <1>5, <3>1 DEF PoolInv, StacksOK
    <3> QED
      BY <1>1, <2>2, <3>2, <3>3 DEF FrameOK
  <2>3. CASE u = t /\ i = m
    <3>1. m # 0 /\ (m > 1 => m - 1 \in 1..m - 1)
      BY <1>13, <2>3
    <3>2. m > 1 => stack'[t][m - 1] = stack[t][m - 1]
      BY <1>13, <3>1
    <3>3. FrameOK(t, m)
      BY <1>10, <3>1
    <3> QED
      BY <1>1, <1>10, <1>13, <2>3, <3>1, <3>2, <3>3 DEF FrameOK
  <2> QED
    BY <2>1, <2>2, <2>3
<1>18. StacksOK'
  BY <1>17 DEF StacksOK
<1>19. ASSUME NEW r \in Scopes, NEW u \in Threads, NEW i \in Nat
       PROVE  /\ RootAt(r, u, i)' <=> RootAt(r, u, i) /\ r # s
              /\ SenderAt(r, u, i)' <=> SenderAt(r, u, i)
              /\ RootAt(r, u, i)' /\ Told(stack'[u][i]) => Told(stack[u][i])
  <2>1. CASE u = t /\ i = n
    <3>1. i \notin 1..Len(stack'[u])
      BY <1>16, <2>1
    <3>2. ~RootAt(r, u, i)' /\ ~SenderAt(r, u, i)'
      BY <3>1 DEF RootAt, SenderAt
    <3>3. RootAt(r, u, i) => r = s
      BY <1>2, <1>6, <2>1 DEF RootAt
    <3>4. ~SenderAt(r, u, i)
      BY <1>1, <1>6, <2>1 DEF SenderAt
    <3> QED
      BY <3>2, <3>3, <3>4
  <2>2. CASE u = t /\ i = m
    <3>1. i \in 1..Len(stack'[u]) <=> i \in 1..Len(stack[u])
      BY <1>9, <1>16, <2>2
    <3>2. RootAt(r, u, i) => r # s
      BY <1>8, <1>9, <2>2
    <3>3. i \in 1..Len(stack[u]) =>
            /\ stack'[t][m].kind = stack[t][m].kind /\ stack'[t][m].scope = stack[t][m].scope
            /\ stack'[t][m].pc \in {"run", "record", "count"} /\ stack[t][m].pc = "run"
      BY <1>10, <1>13, <1>16, <2>2, <3>1
    <3>4. RootAt(r, u, i)' <=> RootAt(r, u, i)
      BY <2>2, <3>1, <3>3 DEF RootAt
    <3>5. ~SenderAt(r, u, i)' /\ ~SenderAt(r, u, i)
      BY <2>2, <3>1, <3>3 DEF SenderAt
    <3>6. RootAt(r, u, i)' => ~Told(stack'[u][i])
      BY <2>2, <3>1, <3>3 DEF RootAt, Told
    <3> QED
      BY <3>2, <3>4, <3>5, <3>6
  <2>3. CASE ~(u = t /\ i = n) /\ ~(u = t /\ i = m)
    <3>1. RootAt(r, u, i) => r # s
      BY <1>8, <2>3
    <3> QED
      BY <1>16, <2>3, <3>1 DEF RootAt, SenderAt
  <2> QED
    BY <2>1, <2>2, <2>3
<1>20. \A r \in Scopes : Full(r)' <=> Full(r)
  BY <1>1 DEF Full
<1>21. OpenOK'
  <2>1. ASSUME NEW r \in Scopes
        PROVE  /\ ~Full(r)' => outcome'[r] = "open"
               /\ \A u \in Threads : \A i \in Nat :
                    RootAt(r, u, i)' \/ SenderAt(r, u, i)' => outcome'[r] = "open"
    <3>1. CASE r # s
      BY <1>14, <1>19, <1>20, <3>1 DEF PoolInv, OpenOK
    <3>2. CASE r = s
      BY <1>7, <1>19, <1>20, <3>2
    <3> QED
      BY <3>1, <3>2
  <2> QED
    BY <2>1 DEF OpenOK
<1>22. RootsOK'
  <2>1. ASSUME NEW r \in Scopes
        PROVE  /\ outcome'[r] = "open" => \E u \in Threads : \E i \in Nat : RootAt(r, u, i)'
               /\ \A u, v \in Threads : \A i, j \in Nat :
                    RootAt(r, u, i)' /\ RootAt(r, v, j)' => u = v /\ i = j
    <3>1. CASE r # s
      BY <1>14, <1>19, <3>1 DEF PoolInv, RootsOK
    <3>2. CASE r = s
      BY <1>14, <1>19, <3>2
    <3> QED
      BY <3>1, <3>2
  <2> QED
    BY <2>1 DEF RootsOK
<1>23. ASSUME NEW r \in Scopes PROVE Same(Pending(r), Pending(r)')
  <2>1. ASSUME NEW u \in Threads, NEW j \in Nat
        PROVE  (/\ j \in 1..Len(stack[u]) /\ stack[u][j].scope = r /\ Uncounted(stack[u][j]))
                 <=> (/\ j \in 1..Len(stack'[u]) /\ stack'[u][j].scope = r /\ Uncounted(stack'[u][j]))
    <3>1. CASE u = t /\ j = n
      BY <1>6, <1>16, <3>1
    <3>2. CASE u = t /\ j = m
      <4>1. j \in 1..Len(stack'[u]) <=> j \in 1..Len(stack[u])
        BY <1>9, <1>16, <3>2
      <4>2. j \in 1..Len(stack[u]) =>
              /\ stack'[t][m].scope = stack[t][m].scope
              /\ Uncounted(stack'[t][m]) /\ Uncounted(stack[t][m])
        BY <1>10, <1>13, <1>16, <3>2, <4>1 DEF Uncounted
      <4> QED
        BY <3>2, <4>1, <4>2
    <3>3. CASE ~(u = t /\ j = n) /\ ~(u = t /\ j = m)
      BY <1>16, <3>3
    <3> QED
      BY <3>1, <3>2, <3>3
  <2>2. AlikeBut(stack, stack', r, t, n)
    BY <2>1 DEF AlikeBut
  <2>3. (n \in 1..Len(stack[t]) /\ stack[t][n].scope = r /\ Uncounted(stack[t][n]))
          <=> (n \in 1..Len(stack'[t]) /\ stack'[t][n].scope = r /\ Uncounted(stack'[t][n]))
    BY <2>1
  <2>4. Same(Held(global, local, out, stack, r), Held(global, local, out, stack', r))
    BY <2>2, <2>3, FrameCounts
  <2> QED
    BY <1>1, <2>4 DEF Pending
<1>24. CountsOK'
  <2>1. ASSUME NEW r \in Scopes
        PROVE  /\ IsFiniteSet(Pending(r)')
               /\ counts'[r].expected = counts'[r].completed + Cardinality(Pending(r)')
    BY <1>1, <1>23 DEF PoolInv, CountsOK, Same
  <2> QED
    BY <2>1 DEF CountsOK
<1>25. SignalsOK'
  <2>1. ASSUME NEW r \in Scopes
        PROVE  /\ done'[r] \in {0, 1}
               /\ done'[r] = 1 => Full(r)' /\ outcome'[r] = "open"
               /\ \A u \in Threads : \A i \in Nat : SenderAt(r, u, i)' => Full(r)' /\ done'[r] = 0
               /\ \A u, v \in Threads : \A i, j \in Nat :
                    SenderAt(r, u, i)' /\ SenderAt(r, v, j)' => u = v /\ i = j
               /\ \A u \in Threads : \A i \in Nat : RootAt(r, u, i)' /\ Told(stack'[u][i]) =>
                    Full(r)' /\ \A v \in Threads : \A j \in Nat : ~SenderAt(r, v, j)'
    <3>1. CASE r # s
      <4>1. done'[r] = done[r] /\ outcome'[r] = outcome[r] /\ (Full(r)' <=> Full(r))
        BY <1>14, <1>20, <3>1
      <4>2. \A u \in Threads : \A i \in Nat : SenderAt(r, u, i)' <=> SenderAt(r, u, i)
        BY <1>19
      <4>3. /\ done'[r] \in {0, 1}
            /\ done'[r] = 1 => Full(r)' /\ outcome'[r] = "open"
            /\ \A u \in Threads : \A i \in Nat : SenderAt(r, u, i)' => Full(r)' /\ done'[r] = 0
            /\ \A u, v \in Threads : \A i, j \in Nat :
                 SenderAt(r, u, i)' /\ SenderAt(r, v, j)' => u = v /\ i = j
        BY <4>1, <4>2 DEF PoolInv, SignalsOK
      <4>4. ASSUME NEW u \in Threads, NEW i \in Nat, RootAt(r, u, i)', Told(stack'[u][i])
            PROVE  Full(r)' /\ \A v \in Threads : \A j \in Nat : ~SenderAt(r, v, j)'
        <5>1. RootAt(r, u, i) /\ Told(stack[u][i])
          BY <1>19, <4>4
        <5> QED
          BY <4>1, <4>2, <5>1 DEF PoolInv, SignalsOK
      <4> QED
        BY <4>3, <4>4
    <3>2. CASE r = s
      BY <1>7, <1>14, <1>19, <3>2
    <3> QED
      BY <3>1, <3>2
  <2> QED
    BY <2>1 DEF SignalsOK
<1> QED
  BY <1>15, <1>18, <1>21, <1>22, <1>24, <1>25 DEF PoolInv

-----------------------------------------------------------------------------
(* The invariant *)

\* Before anything has happened.
LEMMA PoolStarts ==
  ASSUME Init
  PROVE  PoolInv
<1>1. PICK l \in FrameSet : l = Frame("loop", 0, "local") /\ l.kind = "loop" /\ l.pc = "local"
  <2>1. PICK l : l = Frame("loop", 0, "local")
    OBVIOUS
  <2>2. 0 \in 0..MaxScopes
    BY PoolAssumption
  <2>3. l \in FrameSet /\ l.kind = "loop" /\ l.pc = "local"
    BY <2>1, <2>2 DEF Frame, FrameSet, Pcs
  <2> QED
    BY <2>1, <2>3
<1>2. PICK k \in Seq(FrameSet) : k = <<l>> /\ Len(k) = 1 /\ k[1] = l
  <2>1. PICK k : k = <<l>>
    OBVIOUS
  <2>2. k \in Seq(FrameSet) /\ Len(k) = 1 /\ k[1] = l
    BY <2>1
  <2> QED
    BY <2>1, <2>2
<1>3. PICK e \in Seq(FrameSet) : e = <<>> /\ Len(e) = 0
  <2>1. PICK e : e = <<>>
    OBVIOUS
  <2>2. e \in Seq(FrameSet) /\ Len(e) = 0
    BY <2>1
  <2> QED
    BY <2>1, <2>2
<1>4. stack = [t \in Threads |-> IF t \in Workers THEN k ELSE e]
  BY <1>1, <1>2, <1>3 DEF Init
<1>5. ASSUME NEW t \in Threads
      PROVE  /\ stack[t] \in Seq(FrameSet)
             /\ t \in Workers => Len(stack[t]) = 1 /\ stack[t][1] = l
             /\ t \notin Workers => Len(stack[t]) = 0 /\ stack[t] = <<>>
             /\ \A i \in Nat : i \in 1..Len(stack[t]) => i = 1 /\ t \in Workers
  BY <1>2, <1>3, <1>4
<1>6. PoolTypeOK
  <2>1. stack \in [Threads -> Seq(FrameSet)]
    BY <1>2, <1>3, <1>4
  <2>2. PICK c \in [expected : Nat, completed : Nat] : c = [expected |-> 0, completed |-> 0]
    <3>1. [expected |-> 0, completed |-> 0] \in [expected : Nat, completed : Nat]
      OBVIOUS
    <3> QED
      BY <3>1
  <2>3. counts \in [Scopes -> [expected : Nat, completed : Nat]]
    BY <2>2 DEF Init
  <2>4. PICK o \in Seq(Scopes) : o = <<>>
    <3>1. <<>> \in Seq(Scopes)
      OBVIOUS
    <3> QED
      BY <3>1
  <2>5. /\ local \in [Threads -> Seq(Scopes)] /\ out \in [Threads -> Seq(Scopes)]
        /\ global \in Seq(Scopes)
    BY <2>4 DEF Init
  <2>6. parent \in [Scopes -> 0..MaxScopes]
    <3>1. 0 \in 0..MaxScopes
      BY PoolAssumption
    <3> QED
      BY <3>1 DEF Init
  <2> QED
    BY <2>1, <2>3, <2>5, <2>6 DEF Init, PoolTypeOK
<1>7. StacksOK
  <2>1. ASSUME NEW t \in Threads, NEW i \in 1..Len(stack[t]) PROVE FrameOK(t, i)
    <3>1. i = 1 /\ t \in Workers /\ stack[t][i] = l
      BY <1>5
    <3>2. t # Main
      BY <3>1, PoolAssumption
    <3> QED
      BY <1>1, <3>1, <3>2 DEF FrameOK
  <2> QED
    BY <2>1 DEF StacksOK
<1>8. BackupsOK
  <2>1. \A b \in Backups : b \in Threads /\ b \notin Workers
    BY PoolAssumption DEF Threads
  <2> QED
    BY <1>5, <2>1 DEF BackupsOK
<1>9. ASSUME NEW s \in Scopes, NEW t \in Threads, NEW i \in Nat
      PROVE  ~RootAt(s, t, i) /\ ~SenderAt(s, t, i)
  BY <1>1, <1>5 DEF RootAt, SenderAt
<1>10. ASSUME NEW s \in Scopes
       PROVE  /\ counts[s].expected = 0 /\ counts[s].completed = 0
              /\ done[s] = 0 /\ outcome[s] = "unborn"
  BY DEF Init
<1>11. OpenOK /\ RootsOK /\ SignalsOK
  BY <1>9, <1>10 DEF OpenOK, RootsOK, SignalsOK, Full
<1>12. ASSUME NEW s \in Scopes PROVE Pending(s) = {}
  <2>1. ASSUME NEW p \in Pending(s) PROVE FALSE
    <3>1. PICK w \in {"global", "local", "out", "stack"}, t \in Threads, i \in Nat :
            p = <<w, t, i>> /\ HeldAt(global, local, out, stack, s, w, t, i)
      BY <2>1 DEF Pending, Held, Place
    <3>2. w = "stack" /\ i \in 1..Len(stack[t]) /\ Uncounted(stack[t][i])
      BY <3>1 DEF HeldAt, Init
    <3> QED
      BY <1>1, <1>5, <3>2 DEF Uncounted
  <2> QED
    BY <2>1
<1>13. CountsOK
  <2>1. ASSUME NEW s \in Scopes
        PROVE  /\ IsFiniteSet(Pending(s))
               /\ counts[s].expected = counts[s].completed + Cardinality(Pending(s))
    <3>1. PICK A : A = Pending(s) /\ A = {}
      BY <1>12
    <3>2. IsFiniteSet(A) /\ Cardinality(A) = 0
      BY <3>1, FS_EmptySet
    <3> QED
      BY <1>10, <3>1, <3>2
  <2> QED
    BY <2>1 DEF CountsOK
<1> QED
  BY <1>6, <1>7, <1>8, <1>11, <1>13 DEF PoolInv

\* Every step keeps the invariant.
LEMMA PoolKeeps ==
  ASSUME PoolInv, [Next]_vars
  PROVE  PoolInv'
<1>1. CASE UNCHANGED vars
  <2>1. UNCHANGED <<stack, counts, parent, outcome, boss, done, local, out, global>>
    BY <1>1 DEF vars, pool, help, scopes
  <2>2. out' \in Queues /\ global' \in Seq(Scopes)
    BY <2>1 DEF PoolInv, PoolTypeOK, Queues
  <2>3. \A s \in Scopes :
          Same(Held(global, local, out, stack, s), Held(global', local, out', stack, s))
    BY <2>1 DEF Same
  <2> QED
    BY <2>1, <2>2, <2>3, StacksAlone
<1>2. ASSUME NEW t \in Threads, Step(t) PROVE PoolInv'
  <2>1. CASE Callback(t)
    BY <2>1, OpenScopeOK, SpawnOK, FinishOK, GoesOn, CompleteOneOK, SignalOK, ReturnOK DEF Callback
  <2>2. CASE Waiting(t)
    BY <2>2, GoesOn, PollOK, PopLocalOK, TryRecvOK, SelectOK, DonateAllOK, HireOK, ReceiveOK, JoinOK
       DEF Waiting
  <2> QED
    BY <1>2, <2>1, <2>2, SendOK, ExitOK, DropOK DEF Step
<1> QED
  BY <1>1, <1>2 DEF Next

\* The invariant holds of every state the pool can be in: a scope's counts differ by the callbacks
\* that are queued or not over, and its wait is the only one and is told once.
THEOREM PoolHolds == Spec => []PoolInv
<1>1. Init => PoolInv
  BY PoolStarts
<1>2. PoolInv /\ [Next]_vars => PoolInv'
  BY PoolKeeps
<1> QED
  BY <1>1, <1>2, PTL DEF Spec

-----------------------------------------------------------------------------
(* The promises *)

\* What is queued or on a stack belongs to an open scope.
LEMMA NoJobOutlives ==
  ASSUME PoolInv
  PROVE  ScopeOutlivesJobs
<1>1. ASSUME NEW s \in Queued PROVE outcome[s] = "open"
  <2>1. \/ s \in Range(global)
        \/ \E t \in Threads : s \in Range(local[t]) \/ s \in Range(out[t])
    BY DEF Queued
  <2>2. CASE s \in Range(global)
    <3>1. PICK i \in DOMAIN global : global[i] = s
      BY <2>2 DEF Range
    <3>2. global \in Seq(Scopes)
      BY DEF PoolInv, PoolTypeOK
    <3>3. i \in Nat /\ i \in 1..Len(global) /\ s \in Scopes
      BY <3>1, <3>2
    <3>4. PICK p \in Place : p = <<"global", Main, i>>
      BY <3>3 DEF Place, Threads
    <3>5. p \in Pending(s)
      BY <3>1, <3>3, <3>4 DEF Pending, Held, HeldAt
    <3> QED
      BY <3>3, <3>5, PendingIsOpen
  <2>3. ASSUME NEW t \in Threads, s \in Range(local[t]) PROVE outcome[s] = "open"
    <3>1. PICK i \in DOMAIN local[t] : local[t][i] = s
      BY <2>3 DEF Range
    <3>2. local[t] \in Seq(Scopes)
      BY DEF PoolInv, PoolTypeOK
    <3>3. i \in Nat /\ i \in 1..Len(local[t]) /\ s \in Scopes
      BY <3>1, <3>2
    <3>4. PICK p \in Place : p = <<"local", t, i>>
      BY <3>3 DEF Place
    <3>5. p \in Pending(s)
      BY <3>1, <3>3, <3>4 DEF Pending, Held, HeldAt
    <3> QED
      BY <3>3, <3>5, PendingIsOpen
  <2>4. ASSUME NEW t \in Threads, s \in Range(out[t]) PROVE outcome[s] = "open"
    <3>1. PICK i \in DOMAIN out[t] : out[t][i] = s
      BY <2>4 DEF Range
    <3>2. out[t] \in Seq(Scopes)
      BY DEF PoolInv, PoolTypeOK
    <3>3. i \in Nat /\ i \in 1..Len(out[t]) /\ s \in Scopes
      BY <3>1, <3>2
    <3>4. PICK p \in Place : p = <<"out", t, i>>
      BY <3>3 DEF Place
    <3>5. p \in Pending(s)
      BY <3>1, <3>3, <3>4 DEF Pending, Held, HeldAt
    <3> QED
      BY <3>3, <3>5, PendingIsOpen
  <2> QED
    BY <2>1, <2>2, <2>3, <2>4
<1>2. ASSUME NEW t \in Threads, NEW f \in Frames(t), f.kind # "loop" PROVE outcome[f.scope] = "open"
  <2>1. PICK i \in DOMAIN stack[t] : stack[t][i] = f
    BY DEF Frames, Range
  <2>2. stack[t] \in Seq(FrameSet)
    BY DEF PoolInv, PoolTypeOK
  <2>3. i \in Nat /\ i \in 1..Len(stack[t])
    BY <2>1, <2>2
  <2>4. FrameOK(t, i) /\ f \in FrameSet
    BY <2>1, <2>2, <2>3 DEF PoolInv, StacksOK
  <2>5. f.scope \in Scopes
    BY <1>2, <2>1, <2>4 DEF FrameOK
  <2>6. CASE f.kind = "root"
    <3>1. RootAt(f.scope, t, i)
      BY <2>1, <2>3, <2>6 DEF RootAt
    <3> QED
      BY <2>3, <2>5, <3>1 DEF PoolInv, OpenOK
  <2>7. CASE f.kind = "job" /\ f.pc = "signal"
    <3>1. SenderAt(f.scope, t, i)
      BY <2>1, <2>3, <2>7 DEF SenderAt
    <3> QED
      BY <2>3, <2>5, <3>1 DEF PoolInv, OpenOK
  <2>8. CASE f.kind = "job" /\ f.pc # "signal"
    <3>1. Uncounted(f)
      BY <2>1, <2>4, <2>8 DEF FrameOK, Uncounted
    <3>2. PICK p \in Place : p = <<"stack", t, i>>
      BY <2>3 DEF Place
    <3>3. p \in Pending(f.scope)
      BY <2>1, <2>3, <3>1, <3>2 DEF Pending, Held, HeldAt
    <3> QED
      BY <2>5, <3>3, PendingIsOpen
  <2> QED
    BY <1>2, <2>4, <2>6, <2>7, <2>8 DEF FrameSet
<1>3. \A s \in Scopes : outcome[s] \in {"ok", "panic"} => counts[s].completed = counts[s].expected
  BY DEF PoolInv, OpenOK, Full
<1> QED
  BY <1>1, <1>2, <1>3 DEF ScopeOutlivesJobs

\* One thread at most is about to send, and then nothing is in the channel.
LEMMA OneSignal ==
  ASSUME PoolInv
  PROVE  SignalledOnce
<1> SUFFICES ASSUME NEW s \in Scopes
             PROVE  LET senders == {t \in Threads : \E f \in Frames(t) : f.scope = s /\ f.pc = "signal"}
                        signals == Cardinality(senders) + done[s]
                    IN  /\ signals <= 1
                        /\ signals = 1 => counts[s].completed = counts[s].expected
  BY DEF SignalledOnce
<1> DEFINE senders == {t \in Threads : \E f \in Frames(t) : f.scope = s /\ f.pc = "signal"}
<1>1. ASSUME NEW t \in senders PROVE \E i \in Nat : SenderAt(s, t, i)
  <2>1. PICK f \in Frames(t) : f.scope = s /\ f.pc = "signal"
    OBVIOUS
  <2>2. PICK i \in DOMAIN stack[t] : stack[t][i] = f
    BY <2>1 DEF Frames, Range
  <2>3. stack[t] \in Seq(FrameSet)
    BY DEF PoolInv, PoolTypeOK
  <2>4. i \in Nat /\ i \in 1..Len(stack[t])
    BY <2>2, <2>3
  <2>5. FrameOK(t, i)
    BY <2>4 DEF PoolInv, StacksOK
  <2>6. SenderAt(s, t, i)
    BY <2>1, <2>2, <2>4, <2>5 DEF FrameOK, SenderAt
  <2> QED
    BY <2>4, <2>6
<1>2. senders \subseteq Threads
  OBVIOUS
<1> HIDE DEF senders
<1>3. CASE senders = {}
  <2>1. Cardinality(senders) = 0 /\ done[s] \in {0, 1} /\ (done[s] = 1 => Full(s))
    BY <1>3, FS_EmptySet DEF PoolInv, SignalsOK
  <2>2. Cardinality(senders) + done[s] <= 1 /\ (Cardinality(senders) + done[s] = 1 => done[s] = 1)
    BY <2>1
  <2> QED
    BY <2>1, <2>2 DEF Full, senders
<1>4. CASE senders # {}
  <2>1. PICK t \in Threads : t \in senders
    BY <1>2, <1>4
  <2>2. PICK i \in Nat : SenderAt(s, t, i)
    BY <1>1, <2>1
  <2>3. Full(s) /\ done[s] = 0
    BY <2>2 DEF PoolInv, SignalsOK
  <2>4. \A u \in senders : u = t
    <3>1. ASSUME NEW u \in senders PROVE u = t
      <4>1. PICK j \in Nat : SenderAt(s, u, j)
        BY <1>1
      <4>2. u \in Threads
        BY <1>2
      <4> QED
        BY <2>2, <4>1, <4>2 DEF PoolInv, SignalsOK
    <3> QED
      BY <3>1
  <2>5. senders = {t}
    BY <2>1, <2>4
  <2>6. Cardinality(senders) = 1
    BY <2>5, FS_Singleton
  <2>7. Cardinality(senders) + done[s] <= 1
    BY <2>3, <2>6
  <2> QED
    BY <2>3, <2>7 DEF Full, senders
<1> QED
  BY <1>3, <1>4

\* No job is queued, run or counted for a scope that has returned, no scope returns before all its
\* callbacks have counted themselves, and its wait is told once: scope waits before it returns, and
\* complete_one lets one callback send.
THEOREM ScopesKept == Spec => []ScopesAreSafe
<1>1. PoolInv => ScopesAreSafe
  BY NoJobOutlives, OneSignal DEF ScopesAreSafe
<1> QED
  BY <1>1, PoolHolds, PTL

-----------------------------------------------------------------------------
(* Panics, help and backup workers: the invariant *)

Napping == {"sleep", "block", "rise", "fire", "join"}
HelpPcs == {"poll", "local", "global", "stall", "select", "wake", "leave"}

\* The wait on top of the stack of u blocks behind a backup worker, or is about to join it.
AsleepIn(k, u) == u # Main /\ k[u] # <<>> /\ Last(k[u]).pc \in Napping
Asleep(u) == AsleepIn(stack, u)

\* A backup worker belongs to a wait that is asleep, and no two to the same.
BossOK ==
  /\ \A b \in Backups : boss[b] # None => Asleep(boss[b])
  /\ \A b, c \in Backups : boss[b] # None /\ boss[b] = boss[c] => b = c

\* A wait that helps.
HelpAt(u, i) == /\ i \in 1..Len(stack[u]) /\ stack[u][i].kind = "root"
                /\ stack[u][i].pc \in HelpPcs
HelpOK == depth \in [Threads -> Nat] /\ HelpDepthExact

\* A panic of scope s that its wait will find: its own, or that of a job about to record it.
MarkAt(s, u, i) == /\ i \in 1..Len(stack[u]) /\ stack[u][i].scope = s
                   /\ \/ stack[u][i].kind = "root" /\ stack[u][i].bad
                      \/ stack[u][i].kind = "job" /\ stack[u][i].pc = "record"
Marked(s) == \E u \in Threads : \E i \in Nat : MarkAt(s, u, i)
Faulted(s) == slot[s] \/ Marked(s)

\* A callback that runs has not panicked.
CalmAt(u, i) ==
  i \in 1..Len(stack[u]) =>
    (stack[u][i].pc = "run" \/ (stack[u][i].kind = "job" /\ stack[u][i].pc = "wake") => ~stack[u][i].bad)

PanicOK ==
  /\ slot \in [Scopes -> BOOLEAN]
  /\ \A u \in Threads : \A i \in Nat : CalmAt(u, i)
  /\ \A s \in Scopes :
       /\ Faulted(s) => s \in panicked
       /\ s \in panicked => outcome[s] \in {"open", "panic"}
       /\ s \in panicked /\ outcome[s] = "open" => Faulted(s)
       /\ outcome[s] = "panic" => s \in panicked

CareInv == BossOK /\ HelpOK /\ PanicOK

-----------------------------------------------------------------------------
(* What each step leaves of the panics, the helpers and the sleepers *)

\* A position of a stack is as it was, for the help, the panics and the calm of its frame.
Kept(u, i) == /\ HelpAt(u, i)' <=> HelpAt(u, i)
              /\ \A s \in Scopes : MarkAt(s, u, i)' <=> MarkAt(s, u, i)
              /\ CalmAt(u, i) => CalmAt(u, i)'
Rests == \A u \in Threads : Asleep(u) => Asleep(u)'
AllKept == \A u \in Threads : \A i \in Nat : Kept(u, i)
Gentle == Rests /\ AllKept

\* A frame that does not change.
LEMMA SameFrame ==
  ASSUME NEW u \in Threads, NEW i \in Nat, i \in 1..Len(stack'[u]) <=> i \in 1..Len(stack[u]),
         i \in 1..Len(stack[u]) => stack'[u][i] = stack[u][i]
  PROVE  Kept(u, i)
BY DEF Kept, HelpAt, MarkAt, CalmAt

\* A stack that does not change.
LEMMA SameStack ==
  ASSUME NEW u \in Threads, stack'[u] = stack[u]
  PROVE  (Asleep(u) => Asleep(u)') /\ \A i \in Nat : Kept(u, i)
<1>1. Asleep(u) => Asleep(u)'
  BY DEF Asleep, AsleepIn, Top
<1>2. \A i \in Nat : Kept(u, i)
  BY SameFrame
<1> QED
  BY <1>1, <1>2

\* The frames below a frame that is replaced.
LEMMA BesideReplaced ==
  ASSUME NEW t \in Threads, NEW f, Replaced(t, f), NEW u \in Threads, NEW i \in Nat,
         u # t \/ i # Len(stack[t])
  PROVE  Kept(u, i)
<1>1. PICK n \in Nat : n = Len(stack[t])
  BY DEF Replaced
<1>2. CASE u # t
  <2>1. stack'[u] = stack[u]
    BY <1>2 DEF Replaced
  <2> QED
    BY <2>1, SameStack
<1>3. CASE u = t
  <2>1. Len(stack'[t]) = n /\ \A j \in 1..n - 1 : stack'[t][j] = stack[t][j]
    BY <1>1 DEF Replaced
  <2>2. i # n
    BY <1>1, <1>3
  <2>3. i \in 1..n => stack'[t][i] = stack[t][i]
    <3>1. i \in 1..n => i \in 1..n - 1
      BY <2>2
    <3> QED
      BY <2>1, <3>1
  <2> QED
    BY <1>1, <1>3, <2>1, <2>3, SameFrame
<1> QED
  BY <1>2, <1>3

\* The replaced frame itself.
LEMMA TopReplaced ==
  ASSUME NEW t \in Threads, NEW f, Replaced(t, f), NEW n \in Nat, n = Len(stack[t])
  PROVE  /\ n \in 1..Len(stack[t]) /\ n \in 1..Len(stack'[t])
         /\ Top(t) = stack[t][n] /\ stack'[t][n] = f /\ Last(stack'[t]) = f
         /\ f.kind = Top(t).kind /\ f.scope = Top(t).scope
         /\ stack[t] # <<>> /\ stack'[t] # <<>>
<1>1. n # 0 /\ Len(stack'[t]) = n /\ stack'[t][n] = f
  BY DEF Replaced
<1>2. n \in 1..n
  BY <1>1
<1>3. stack[t] # <<>> /\ stack'[t] # <<>>
  BY <1>1
<1>4. Top(t) = stack[t][n] /\ Last(stack'[t]) = f
  BY <1>1 DEF Top, Last
<1> QED
  BY <1>1, <1>2, <1>3, <1>4 DEF Replaced

\* A wait, loop or callback that goes on without panicking, or helping more or less.
LEMMA MoveKeeps ==
  ASSUME PoolInv, NEW t \in Threads, stack[t] # <<>>, NEW place \in Pcs, Goto(t, place),
         place # "record", Top(t).pc # "record",
         Top(t).kind = "root" => (place \in HelpPcs <=> Top(t).pc \in HelpPcs),
         place = "run" \/ (Top(t).kind = "job" /\ place = "wake") =>
           Top(t).kind = "job" /\ Top(t).pc = "wake"
  PROVE  /\ AllKept
         /\ \A u \in Threads \ {t} : stack'[u] = stack[u]
         /\ stack'[t] # <<>> /\ Last(stack'[t]).pc = place
<1>1. PICK f \in FrameSet : Replaced(t, f) /\ f.pc = place /\ f.bad = Top(t).bad
  BY GotoIs DEF PoolInv
<1>2. PICK n \in Nat : n = Len(stack[t])
  BY <1>1 DEF Replaced
<1>3. /\ n \in 1..Len(stack[t]) /\ n \in 1..Len(stack'[t])
      /\ Top(t) = stack[t][n] /\ stack'[t][n] = f /\ Last(stack'[t]) = f
      /\ f.kind = Top(t).kind /\ f.scope = Top(t).scope
      /\ stack[t] # <<>> /\ stack'[t] # <<>>
  BY <1>1, <1>2, TopReplaced
<1>4. Kept(t, n)
  <2>1. HelpAt(t, n)' <=> HelpAt(t, n)
    BY <1>1, <1>3 DEF HelpAt
  <2>2. \A s \in Scopes : MarkAt(s, t, n)' <=> MarkAt(s, t, n)
    BY <1>1, <1>3 DEF MarkAt
  <2>3. CalmAt(t, n) => CalmAt(t, n)'
    BY <1>1, <1>3 DEF CalmAt
  <2> QED
    BY <2>1, <2>2, <2>3 DEF Kept
<1>5. AllKept
  BY <1>1, <1>2, <1>4, BesideReplaced DEF AllKept
<1> QED
  BY <1>1, <1>3, <1>5 DEF Replaced

\* When no sleeper wakes up either.
LEMMA MoveIsGentle ==
  ASSUME PoolInv, NEW t \in Threads, stack[t] # <<>>, NEW place \in Pcs, Goto(t, place),
         place # "record", Top(t).pc # "record",
         Top(t).kind = "root" => (place \in HelpPcs <=> Top(t).pc \in HelpPcs),
         place = "run" \/ (Top(t).kind = "job" /\ place = "wake") =>
           Top(t).kind = "job" /\ Top(t).pc = "wake",
         t # Main /\ Top(t).pc \in Napping => place \in Napping
  PROVE  Gentle
<1>1. /\ AllKept
      /\ \A u \in Threads \ {t} : stack'[u] = stack[u]
      /\ stack'[t] # <<>> /\ Last(stack'[t]).pc = place
  BY MoveKeeps
<1>2. ASSUME NEW u \in Threads, Asleep(u) PROVE Asleep(u)'
  <2>1. CASE u # t
    <3>1. stack'[u] = stack[u]
      BY <1>1, <2>1
    <3> QED
      BY <1>2, <3>1, SameStack
  <2>2. CASE u = t
    BY <1>1, <1>2, <2>2 DEF Asleep, AsleepIn, Top
  <2> QED
    BY <2>1, <2>2
<1> QED
  BY <1>1, <1>2 DEF Gentle, Rests

\* A stack whose top does not sleep may change as it likes without waking a sleeper.
LEMMA NobodyWakes ==
  ASSUME NEW t \in Threads, stack[t] # <<>> => Top(t).pc \notin Napping,
         \A u \in Threads : u # t /\ stack[u] # <<>> => stack'[u] = stack[u]
  PROVE  Rests
<1>1. ASSUME NEW u \in Threads, Asleep(u) PROVE Asleep(u)'
  <2>1. u # t /\ stack[u] # <<>>
    BY <1>1 DEF Asleep, AsleepIn, Top
  <2>2. stack'[u] = stack[u]
    BY <2>1
  <2> QED
    BY <1>1, <2>2, SameStack
<1> QED
  BY <1>1 DEF Rests

\* Running a job on top of a loop or of a wait that helps.
LEMMA RanIsGentle ==
  ASSUME PoolInv, NEW t \in Threads, stack[t] # <<>>, Top(t).kind \in {"loop", "root"},
         Top(t).pc \in {"local", "global", "select"}, NEW e \in Scopes,
         NEW place \in {"run", "wake"}, Ran(t, e, place)
  PROVE  Gentle
<1>1. PICK n \in Nat : n = Len(stack[t]) /\ n # 0 /\ n \in 1..n
  BY DEF Ran
<1>2. PICK m \in Nat : m = n + 1 /\ m \notin 1..n /\ m \in 1..m /\ n \in 1..m
  BY <1>1
<1>3. PICK f \in FrameSet : f = stack'[t][n]
  BY <1>1 DEF Ran, Stacks
<1>4. PICK h : h = Frame("job", e, place)
  OBVIOUS
<1>5. h.kind = "job" /\ h.pc = place /\ ~h.bad
  BY <1>4 DEF Frame
<1>6. /\ Len(stack'[t]) = m /\ stack'[t][n] = f /\ stack'[t][m] = h /\ Top(t) = stack[t][n]
      /\ f.kind = stack[t][n].kind /\ f.scope = stack[t][n].scope
      /\ f.bad = stack[t][n].bad /\ f.pc = Again(t)
      /\ \A i \in 1..n - 1 : stack'[t][i] = stack[t][i]
      /\ \A u \in Threads \ {t} : stack'[u] = stack[u]
  BY <1>1, <1>2, <1>3, <1>4 DEF Ran, Top, Last
<1>7. /\ f.kind = "root" => f.pc \in HelpPcs
      /\ Top(t).pc \in HelpPcs /\ Top(t).pc \notin Napping
      /\ f.pc \in {"poll", "select", "local"} /\ f.kind \in {"loop", "root"}
  BY <1>6 DEF Again, HelpPcs, Napping
<1>8. ASSUME NEW u \in Threads, NEW i \in Nat PROVE Kept(u, i)
  <2>1. CASE u # t
    BY <1>6, <2>1, SameStack
  <2>2. CASE u = t /\ i = m
    <3>1. i \notin 1..Len(stack[u]) /\ i \in 1..Len(stack'[u]) /\ stack'[u][i] = h
      BY <1>1, <1>2, <1>6, <2>2
    <3> QED
      BY <1>5, <3>1 DEF Kept, HelpAt, MarkAt, CalmAt
  <2>3. CASE u = t /\ i = n
    <3>1. /\ i \in 1..Len(stack[u]) /\ i \in 1..Len(stack'[u])
          /\ stack'[u][i] = f /\ stack[u][i] = Top(t)
      BY <1>1, <1>2, <1>6, <2>3
    <3>2. HelpAt(u, i)' <=> HelpAt(u, i)
      BY <1>6, <1>7, <3>1 DEF HelpAt
    <3>3. \A s \in Scopes : MarkAt(s, u, i)' <=> MarkAt(s, u, i)
      BY <1>6, <1>7, <3>1 DEF MarkAt
    <3>4. CalmAt(u, i)'
      BY <1>7, <3>1 DEF CalmAt
    <3> QED
      BY <3>2, <3>3, <3>4 DEF Kept
  <2>4. CASE u = t /\ i # n /\ i # m
    <3>1. i \in 1..m <=> i \in 1..n
      BY <1>2, <2>4
    <3>2. i \in 1..n => i \in 1..n - 1
      BY <2>4
    <3> QED
      BY <1>1, <1>6, <2>4, <3>1, <3>2, SameFrame
  <2> QED
    BY <2>1, <2>2, <2>3, <2>4
<1>9. Rests
  BY <1>6, <1>7, NobodyWakes
<1> QED
  BY <1>8, <1>9 DEF Gentle, AllKept

\* A job that leaves the stack.
LEMMA PoppedIsGentle ==
  ASSUME NEW t \in Threads, Popped(t), Top(t).kind = "job", Top(t).pc \in {"count", "signal"}
  PROVE  Gentle
<1>1. PICK n \in Nat : n = Len(stack[t]) /\ n # 0 /\ n \in 1..n
  BY DEF Popped
<1>2. PICK m \in Nat : m = n - 1
  <2>1. n - 1 \in Nat
    BY <1>1
  <2> QED
    BY <2>1
<1>3. /\ Len(stack'[t]) = m /\ \A i \in 1..m : stack'[t][i] = stack[t][i]
      /\ \A u \in Threads \ {t} : stack'[u] = stack[u] /\ Top(t) = stack[t][n]
  BY <1>1, <1>2 DEF Popped, Top, Last
<1>4. ASSUME NEW u \in Threads, NEW i \in Nat PROVE Kept(u, i)
  <2>1. CASE u # t
    BY <1>3, <2>1, SameStack
  <2>2. CASE u = t /\ i = n
    <3>1. i \in 1..Len(stack[u]) /\ i \notin 1..Len(stack'[u]) /\ stack[u][i] = Top(t)
      <4>1. n \notin 1..m
        BY <1>1, <1>2
      <4>2. Top(t) = stack[t][n]
        BY <1>1 DEF Top, Last
      <4> QED
        BY <1>1, <1>3, <2>2, <4>1, <4>2
    <3> QED
      BY <3>1 DEF Kept, HelpAt, MarkAt, CalmAt
  <2>3. CASE u = t /\ i # n
    <3>1. i \in 1..m <=> i \in 1..n
      BY <1>2, <2>3
    <3> QED
      BY <1>1, <1>3, <2>3, <3>1, SameFrame
  <2> QED
    BY <2>1, <2>2, <2>3
<1>5. Rests
  BY <1>3, NobodyWakes DEF Napping
<1> QED
  BY <1>4, <1>5 DEF Gentle, AllKept

\* The root callback of a new scope.
LEMMA OpenedIsGentle ==
  ASSUME NEW t \in Threads, NEW s, Opened(t, s), stack[t] = <<>> \/ Top(t).pc = "run"
  PROVE  Gentle
<1>1. PICK n \in Nat : n = Len(stack[t])
  BY DEF Opened
<1>2. PICK m \in Nat : m = n + 1 /\ m \notin 1..n /\ m \in 1..m
  BY <1>1
<1>3. /\ stack' \in Stacks /\ Len(stack'[t]) = m
      /\ \A i \in 1..n : stack'[t][i] = stack[t][i]
      /\ \A u \in Threads \ {t} : stack'[u] = stack[u]
  BY <1>1, <1>2 DEF Opened
<1>4. PICK f \in FrameSet : stack'[t][m] = f
  BY <1>2, <1>3 DEF Stacks
<1>5. f.kind = "root" /\ f.pc = "run" /\ ~f.bad
  BY <1>1, <1>2, <1>4 DEF Opened
<1>6. ASSUME NEW u \in Threads, NEW i \in Nat PROVE Kept(u, i)
  <2>1. CASE u # t
    BY <1>3, <2>1, SameStack
  <2>2. CASE u = t /\ i = m
    <3>1. i \notin 1..Len(stack[u]) /\ i \in 1..Len(stack'[u]) /\ stack'[u][i] = f
      BY <1>1, <1>2, <1>3, <1>4, <2>2
    <3> QED
      BY <1>5, <3>1 DEF Kept, HelpAt, MarkAt, CalmAt, HelpPcs
  <2>3. CASE u = t /\ i # m
    <3>1. i \in 1..m <=> i \in 1..n
      BY <1>2, <2>3
    <3> QED
      BY <1>1, <1>3, <2>3, <3>1, SameFrame
  <2> QED
    BY <2>1, <2>2, <2>3
<1>7. Rests
  BY <1>3, NobodyWakes DEF Napping
<1> QED
  BY <1>6, <1>7 DEF Gentle, AllKept

\* A wait that goes to sleep, and the loop of the backup worker.
LEMMA HiredIsGentle ==
  ASSUME NEW t \in Threads, NEW b \in Threads, Hired(t, b), Top(t).kind = "root", Top(t).pc = "hire"
  PROVE  Gentle
<1>1. PICK n \in Nat : n = Len(stack[t]) /\ n # 0 /\ n \in 1..n
  BY DEF Hired
<1>2. PICK f \in FrameSet : f = stack'[t][n]
  BY <1>1 DEF Hired, Stacks
<1>3. PICK h \in FrameSet : h = stack'[b][1]
  <2>1. stack'[b] \in Seq(FrameSet) /\ Len(stack'[b]) = 1
    BY DEF Hired, Stacks
  <2>2. stack'[b][1] \in FrameSet
    BY <2>1
  <2> QED
    BY <2>2
<1>4. /\ Len(stack'[t]) = n /\ Top(t) = stack[t][n]
      /\ f.kind = "root" /\ f.scope = Top(t).scope /\ f.bad = Top(t).bad /\ f.pc = "sleep"
      /\ \A i \in 1..n - 1 : stack'[t][i] = stack[t][i]
      /\ h.kind = "loop" /\ h.pc = "select" /\ stack[b] = <<>> /\ b # t /\ Len(stack'[b]) = 1
      /\ \A u \in Threads : u # t /\ u # b => stack'[u] = stack[u]
  BY <1>1, <1>2, <1>3 DEF Hired, Top, Last
<1>5. ASSUME NEW u \in Threads, NEW i \in Nat PROVE Kept(u, i)
  <2>1. CASE u # t /\ u # b
    BY <1>4, <2>1, SameStack
  <2>2. CASE u = b
    <3>1. Len(stack'[u]) = 1 /\ Len(stack[u]) = 0
      BY <1>4, <2>2
    <3>2. (i \in 1..Len(stack'[u]) => stack'[u][i] = h) /\ i \notin 1..Len(stack[u])
      BY <1>3, <2>2, <3>1
    <3> QED
      BY <1>4, <3>2 DEF Kept, HelpAt, MarkAt, CalmAt
  <2>3. CASE u = t /\ i = n
    <3>1. /\ i \in 1..Len(stack[u]) /\ i \in 1..Len(stack'[u])
          /\ stack'[u][i] = f /\ stack[u][i] = Top(t)
      BY <1>1, <1>2, <1>4, <2>3
    <3> QED
      BY <1>4, <3>1 DEF Kept, HelpAt, MarkAt, CalmAt, HelpPcs
  <2>4. CASE u = t /\ i # n
    <3>1. i \in 1..n => i \in 1..n - 1
      BY <2>4
    <3> QED
      BY <1>1, <1>4, <2>4, <3>1, SameFrame
  <2> QED
    BY <2>1, <2>2, <2>3, <2>4
<1>6. Rests
  <2>1. \A u \in Threads : u # t /\ stack[u] # <<>> => stack'[u] = stack[u]
    BY <1>4
  <2> QED
    BY <2>1, NobodyWakes DEF Napping
<1> QED
  BY <1>5, <1>6 DEF Gentle, AllKept

\* A thread that ends.
LEMMA ExitIsGentle ==
  ASSUME PoolInv, NEW t \in Threads, stack[t] # <<>>, Top(t).kind = "loop",
         stack' = [stack EXCEPT ![t] = <<>>]
  PROVE  Gentle
<1>1. PICK n \in Nat : n = Len(stack[t]) /\ n # 0 /\ n \in 1..n
  BY DEF PoolInv, PoolTypeOK
<1>2. Top(t) = stack[t][n] /\ FrameOK(t, n) /\ PcOK(t, Top(t))
  BY <1>1, TopIsFrame DEF PoolInv, StacksOK, Top, Last
<1>3. n = 1
  BY <1>2 DEF FrameOK
<1>4. /\ stack'[t] = <<>> /\ Len(stack'[t]) = 0
      /\ \A u \in Threads \ {t} : stack'[u] = stack[u]
  <2>1. PICK e \in Seq(FrameSet) : e = <<>> /\ Len(e) = 0
    <3>1. PICK e : e = <<>>
      OBVIOUS
    <3>2. e \in Seq(FrameSet) /\ Len(e) = 0
      BY <3>1
    <3> QED
      BY <3>1, <3>2
  <2> QED
    BY <2>1 DEF PoolInv, PoolTypeOK
<1>5. ASSUME NEW u \in Threads, NEW i \in Nat PROVE Kept(u, i)
  <2>1. CASE u # t
    BY <1>4, <2>1, SameStack
  <2>2. CASE u = t
    <3>1. Len(stack'[u]) = 0 /\ Len(stack[u]) = 1
      BY <1>1, <1>3, <1>4, <2>2
    <3>2. (i \in 1..Len(stack[u]) => stack[u][i] = Top(t)) /\ i \notin 1..Len(stack'[u])
      BY <1>2, <1>3, <2>2, <3>1
    <3> QED
      BY <3>2 DEF Kept, HelpAt, MarkAt, CalmAt
  <2> QED
    BY <2>1, <2>2
<1>6. Rests
  BY <1>2, <1>4, NobodyWakes DEF PcOK, Napping
<1> QED
  BY <1>5, <1>6 DEF Gentle, AllKept

-----------------------------------------------------------------------------
(* The gentle steps *)

\* Steps of a wait or a loop that go on, and the end of a stall.
LEMMA GoingOnIsGentle ==
  ASSUME PoolInv, NEW t \in Threads,
         \/ BeginStall(t) \/ EndStall(t) \/ DonateAll(t) \/ Sleep(t) \/ Receive(t) \/ Rise(t)
         \/ Fire(t) \/ Poll(t)
  PROVE  Gentle /\ UNCHANGED <<slot, outcome, panicked, depth, boss>>
<1>1. UNCHANGED <<slot, outcome, panicked, depth, boss>> /\ stack[t] # <<>>
  BY DEF BeginStall, EndStall, DonateAll, Sleep, Receive, Rise, Fire, Poll, At, help, scopes
<1>2. CASE BeginStall(t)
  <2>1. Top(t).kind \in {"loop", "root"} /\ Top(t).pc = "stall" /\ Goto(t, "select")
    BY <1>2 DEF BeginStall, At
  <2> QED
    BY <1>1, <2>1, MoveIsGentle DEF Pcs, HelpPcs, Napping
<1>3. CASE DonateAll(t)
  <2>1. Top(t).kind \in {"root"} /\ Top(t).pc = "deep" /\ Goto(t, "hire")
    BY <1>3 DEF DonateAll, At
  <2> QED
    BY <1>1, <2>1, MoveIsGentle DEF Pcs, HelpPcs, Napping
<1>4. CASE Sleep(t)
  <2>1. Top(t).kind \in {"root"} /\ Top(t).pc = "sleep" /\ Goto(t, "block")
    BY <1>4 DEF Sleep, At
  <2> QED
    BY <1>1, <2>1, MoveIsGentle DEF Pcs, HelpPcs, Napping
<1>5. CASE Rise(t)
  <2>1. Top(t).kind \in {"root"} /\ Top(t).pc = "rise" /\ Goto(t, "fire")
    BY <1>5 DEF Rise, At
  <2> QED
    BY <1>1, <2>1, MoveIsGentle DEF Pcs, HelpPcs, Napping
<1>6. CASE Fire(t)
  <2>1. Top(t).kind \in {"root"} /\ Top(t).pc = "fire" /\ Goto(t, "join")
    BY <1>6 DEF Fire, At
  <2> QED
    BY <1>1, <2>1, MoveIsGentle DEF Pcs, HelpPcs, Napping
<1>7. CASE EndStall(t)
  <2>1. /\ Top(t).kind \in {"job", "root"} /\ Top(t).pc = "wake"
        /\ Top(t).kind = "job" => Goto(t, "run")
        /\ Top(t).kind # "job" => Goto(t, "leave")
    BY <1>7 DEF EndStall, At
  <2>2. CASE Top(t).kind = "job"
    BY <1>1, <2>1, <2>2, MoveIsGentle DEF Pcs, HelpPcs, Napping
  <2>3. CASE Top(t).kind = "root"
    BY <1>1, <2>1, <2>3, MoveIsGentle DEF Pcs, HelpPcs, Napping
  <2> QED
    BY <2>1, <2>2, <2>3
<1>8. CASE Receive(t)
  <2>1. /\ Top(t).kind = "root" /\ Top(t).pc = "block"
        /\ t = Main => Goto(t, "take")
        /\ t # Main => Goto(t, "rise")
    BY <1>8 DEF Receive, At
  <2>2. CASE t = Main
    BY <1>1, <2>1, <2>2, MoveIsGentle DEF Pcs, HelpPcs, Napping
  <2>3. CASE t # Main
    BY <1>1, <2>1, <2>3, MoveIsGentle DEF Pcs, HelpPcs, Napping
  <2> QED
    BY <2>2, <2>3
<1>9. CASE Poll(t)
  <2>1. Top(t).kind = "root" /\ Top(t).pc = "poll" /\ (Goto(t, "leave") \/ Goto(t, "local"))
    BY <1>9 DEF Poll, At
  <2>2. CASE Goto(t, "leave")
    BY <1>1, <2>1, <2>2, MoveIsGentle DEF Pcs, HelpPcs, Napping
  <2>3. CASE Goto(t, "local")
    BY <1>1, <2>1, <2>3, MoveIsGentle DEF Pcs, HelpPcs, Napping
  <2> QED
    BY <2>1, <2>2, <2>3
<1> QED
  BY <1>2, <1>3, <1>4, <1>5, <1>6, <1>7, <1>8, <1>9

\* Looking for a job: the thread goes on looking, or runs the job.
LEMMA LookingIsGentle ==
  ASSUME PoolInv, NEW t \in Threads, PopLocal(t) \/ TryRecv(t) \/ Select(t)
  PROVE  Gentle /\ UNCHANGED <<slot, outcome, panicked, depth, boss>>
<1>1. /\ UNCHANGED <<slot, outcome, panicked, depth, boss>> /\ stack[t] # <<>>
      /\ Top(t).kind \in {"loop", "root"} /\ Top(t).pc \in {"local", "global", "select"}
  BY DEF PopLocal, TryRecv, Select, At, help, scopes
<1>2. /\ "global" \in Pcs /\ "stall" \in Pcs /\ "wake" \in Pcs
      /\ Top(t).pc \in HelpPcs /\ Top(t).pc \notin Napping
      /\ "global" \in HelpPcs /\ "stall" \in HelpPcs /\ "wake" \in HelpPcs
  BY <1>1 DEF Pcs, HelpPcs, Napping
<1>3. \/ Goto(t, "global") \/ Goto(t, "stall") \/ (Top(t).kind = "root" /\ Goto(t, "wake"))
      \/ \E e \in Scopes : \E place \in {"run", "wake"} : RunJob(t, e, place)
  <2>1. CASE PopLocal(t)
    <3>1. CASE local[t] = <<>>
      BY <2>1, <3>1 DEF PopLocal
    <3>2. CASE local[t] # <<>>
      <4>1. RunJob(t, Last(local[t]), "run")
        BY <2>1, <3>2 DEF PopLocal
      <4>2. Last(local[t]) \in Scopes
        BY <3>2 DEF PoolInv, PoolTypeOK, Last
      <4> QED
        BY <4>1, <4>2
    <3> QED
      BY <3>1, <3>2
  <2>2. global # <<>> => Head(global) \in Scopes
    BY DEF PoolInv, PoolTypeOK
  <2>3. CASE TryRecv(t)
    BY <2>2, <2>3 DEF TryRecv
  <2>4. CASE Select(t)
    BY <2>2, <2>4 DEF Select
  <2> QED
    BY <2>1, <2>3, <2>4
<1>4. CASE Goto(t, "global")
  BY <1>1, <1>2, <1>4, MoveIsGentle
<1>5. CASE Goto(t, "stall")
  BY <1>1, <1>2, <1>5, MoveIsGentle
<1>6. CASE Top(t).kind = "root" /\ Goto(t, "wake")
  BY <1>1, <1>2, <1>6, MoveIsGentle
<1>7. CASE \E e \in Scopes : \E place \in {"run", "wake"} : RunJob(t, e, place)
  <2>1. PICK e \in Scopes, place \in {"run", "wake"} : RunJob(t, e, place)
    BY <1>7
  <2>2. Ran(t, e, place)
    BY <1>1, <2>1, RunIs
  <2> QED
    BY <1>1, <2>2, RanIsGentle
<1> QED
  BY <1>3, <1>4, <1>5, <1>6, <1>7

\* A callback that counts itself, or tells its scope.
LEMMA CountingIsGentle ==
  ASSUME PoolInv, NEW t \in Threads, CompleteOne(t) \/ Signal(t)
  PROVE  Gentle /\ UNCHANGED <<slot, outcome, panicked, depth, boss>>
<1>1. /\ UNCHANGED <<slot, outcome, panicked, depth, boss>> /\ stack[t] # <<>>
      /\ Top(t).kind \in {"job", "root"} /\ Top(t).pc \in {"count", "signal"}
  BY DEF CompleteOne, Signal, At, help
<1>2. /\ "signal" \in Pcs /\ "wait" \in Pcs /\ "take" \in Pcs
      /\ Top(t).pc \notin HelpPcs /\ Top(t).pc \notin Napping
      /\ "signal" \notin HelpPcs /\ "wait" \notin HelpPcs /\ "take" \notin HelpPcs
  BY <1>1 DEF Pcs, HelpPcs, Napping
<1>3. \/ Goto(t, "signal") \/ Goto(t, "wait") \/ Goto(t, "take")
      \/ Top(t).kind = "job" /\ stack' = [stack EXCEPT ![t] = Front(stack[t])]
  BY DEF CompleteOne, Signal, Goto
<1>4. CASE Goto(t, "signal")
  BY <1>1, <1>2, <1>4, MoveIsGentle
<1>5. CASE Goto(t, "wait")
  BY <1>1, <1>2, <1>5, MoveIsGentle
<1>6. CASE Goto(t, "take")
  BY <1>1, <1>2, <1>6, MoveIsGentle
<1>7. CASE Top(t).kind = "job" /\ stack' = [stack EXCEPT ![t] = Front(stack[t])]
  <2>1. Popped(t)
    BY <1>1, <1>7, PopIs DEF PoolInv
  <2> QED
    BY <1>1, <1>7, <2>1, PoppedIsGentle
<1> QED
  BY <1>3, <1>4, <1>5, <1>6, <1>7

\* Steps that leave the stacks alone, and the end of a thread.
LEMMA RestIsGentle ==
  ASSUME PoolInv, NEW t \in Threads, Send(t) \/ Spawn(t) \/ Drop \/ Exit(t) \/ UNCHANGED vars
  PROVE  Gentle /\ UNCHANGED <<slot, outcome, panicked, depth, boss>>
<1>1. UNCHANGED <<slot, outcome, panicked, depth, boss>>
  BY DEF Send, Spawn, Drop, Exit, vars, help, scopes
<1>2. CASE UNCHANGED stack
  <2>1. \A u \in Threads : stack'[u] = stack[u]
    BY <1>2
  <2> QED
    BY <1>1, <2>1, SameStack DEF Gentle, Rests, AllKept
<1>3. CASE Exit(t)
  <2>1. stack[t] # <<>> /\ Top(t).kind = "loop" /\ stack' = [stack EXCEPT ![t] = <<>>]
    BY <1>3 DEF Exit, At
  <2> QED
    BY <1>1, <2>1, ExitIsGentle
<1>4. UNCHANGED stack \/ Exit(t)
  BY DEF Send, Spawn, Drop, vars
<1> QED
  BY <1>2, <1>3, <1>4

-----------------------------------------------------------------------------
(* The depth of help is exact *)

HelpersOf(k, u) == {i \in Nat : i \in 1..Len(k[u]) /\ k[u][i].kind = "root" /\ k[u][i].pc \in HelpPcs}
HelpFor(k, d) == /\ d \in [Threads -> Nat]
                 /\ \A u \in Threads : d[u] <= MaxDepth /\ d[u] = Cardinality(HelpersOf(k, u))

\* The waits that HelpDepthExact counts, of a thread with any stack.
LEMMA HelpersAre ==
  ASSUME NEW k \in [Threads -> Seq(FrameSet)], NEW u \in Threads
  PROVE  /\ HelpersOf(k, u) = {i \in DOMAIN k[u] :
              /\ k[u][i].kind = "root"
              /\ k[u][i].pc \in {"poll", "local", "global", "stall", "select", "wake", "leave"}}
         /\ IsFiniteSet(HelpersOf(k, u))
<1>1. PICK q \in Seq(FrameSet) : q = k[u]
  OBVIOUS
<1>2. DOMAIN q = 1..Len(q) /\ Len(q) \in Nat
  OBVIOUS
<1>3. \A i : i \in DOMAIN k[u] <=> i \in Nat /\ i \in 1..Len(k[u])
  BY <1>1, <1>2
<1>4. HelpersOf(k, u) \subseteq 1..Len(q) /\ IsFiniteSet(1..Len(q))
  <2>1. HelpersOf(k, u) \subseteq 1..Len(q)
    BY <1>1 DEF HelpersOf
  <2>2. IsFiniteSet(1..Len(q))
    BY <1>2, FS_Interval
  <2> QED
    BY <2>1, <2>2
<1>5. IsFiniteSet(HelpersOf(k, u))
  BY <1>4, FS_Subset
<1> QED
  BY <1>3, <1>5 DEF HelpersOf, HelpPcs

\* So the depth is exact when it is the number of these waits.
LEMMA HelpIs ==
  ASSUME PoolTypeOK
  PROVE  HelpOK <=> HelpFor(stack, depth)
<1>1. stack \in [Threads -> Seq(FrameSet)]
  BY DEF PoolTypeOK
<1> QED
  BY <1>1, HelpersAre DEF HelpOK, HelpFor, HelpDepthExact

\* The same after a step.
LEMMA HelpIsThen ==
  ASSUME PoolTypeOK'
  PROVE  HelpOK' <=> HelpFor(stack', depth')
<1>1. stack' \in [Threads -> Seq(FrameSet)]
  BY DEF PoolTypeOK
<1> QED
  BY <1>1, HelpersAre DEF HelpOK, HelpFor, HelpDepthExact

HelpSame == \A u \in Threads : \A i \in Nat : HelpAt(u, i)' <=> HelpAt(u, i)

\* Nobody helps more or less than before.
LEMMA HelpKept ==
  ASSUME PoolTypeOK, PoolTypeOK', HelpOK, HelpSame, depth' = depth
  PROVE  HelpOK'
<1>1. ASSUME NEW u \in Threads PROVE HelpersOf(stack', u) = HelpersOf(stack, u)
  BY DEF HelpSame, HelpAt, HelpersOf
<1> QED
  BY <1>1, HelpIs, HelpIsThen DEF HelpFor

\* One thread begins to help, or stops.
LEMMA HelpChanges ==
  ASSUME PoolTypeOK, PoolTypeOK', HelpOK, NEW t \in Threads, NEW f, Replaced(t, f),
         NEW d \in Nat, depth' = [depth EXCEPT ![t] = d], f.kind = "root",
         \/ /\ Top(t).pc \notin HelpPcs /\ f.pc \in HelpPcs /\ depth[t] < MaxDepth
            /\ d = depth[t] + 1
         \/ /\ Top(t).pc \in HelpPcs /\ f.pc \notin HelpPcs /\ d = depth[t] - 1
  PROVE  HelpOK'
<1>1. PICK n \in Nat : n = Len(stack[t])
  BY DEF Replaced
<1>2. /\ n \in 1..Len(stack[t]) /\ n \in 1..Len(stack'[t])
      /\ Top(t) = stack[t][n] /\ stack'[t][n] = f /\ f.kind = Top(t).kind
  BY <1>1, TopReplaced
<1>3. HelpFor(stack, depth)
  BY HelpIs
<1>4. \A u \in Threads : \A i \in Nat : u # t \/ i # n => (HelpAt(u, i)' <=> HelpAt(u, i))
  BY <1>1, BesideReplaced DEF Kept
<1>5. ASSUME NEW u \in Threads, u # t PROVE HelpersOf(stack', u) = HelpersOf(stack, u)
  BY <1>4, <1>5 DEF HelpAt, HelpersOf
<1>6. PICK A : A = HelpersOf(stack, t)
  OBVIOUS
<1>7. PICK B : B = HelpersOf(stack', t)
  OBVIOUS
<1>8. IsFiniteSet(A) /\ IsFiniteSet(B) /\ Cardinality(A) \in Nat /\ Cardinality(B) \in Nat
      /\ depth[t] = Cardinality(A) /\ depth[t] <= MaxDepth
  <2>1. stack \in [Threads -> Seq(FrameSet)] /\ stack' \in [Threads -> Seq(FrameSet)]
    BY DEF PoolTypeOK
  <2>2. IsFiniteSet(A) /\ IsFiniteSet(B)
    BY <1>6, <1>7, <2>1, HelpersAre
  <2> QED
    BY <1>3, <1>6, <2>2, FS_CardinalityType DEF HelpFor
<1>9. \A i \in Nat : i # n => (i \in B <=> i \in A)
  BY <1>4, <1>6, <1>7 DEF HelpAt, HelpersOf
<1>10. A \subseteq Nat /\ B \subseteq Nat
  BY <1>6, <1>7 DEF HelpersOf
<1>11. n \in A <=> Top(t).pc \in HelpPcs
  BY <1>2, <1>6 DEF HelpersOf
<1>12. n \in B <=> f.pc \in HelpPcs
  BY <1>2, <1>7 DEF HelpersOf
<1>13. d = Cardinality(B) /\ d <= MaxDepth
  <2>1. CASE n \notin A /\ n \in B
    <3>1. B = A \cup {n}
      BY <1>9, <1>10, <2>1
    <3>2. Cardinality(B) = Cardinality(A) + 1
      BY <1>8, <2>1, <3>1, Added DEF OneMore
    <3> QED
      BY <1>8, <1>11, <1>12, <2>1, <3>2, PoolAssumption
  <2>2. CASE n \in A /\ n \notin B
    <3>1. B = A \ {n}
      BY <1>9, <1>10, <2>2
    <3>2. Cardinality(A) = Cardinality(B) + 1
      BY <1>8, <2>2, <3>1, Removed DEF OneLess
    <3> QED
      BY <1>8, <1>11, <1>12, <2>2, <3>2, PoolAssumption
  <2> QED
    BY <1>11, <1>12, <2>1, <2>2
<1>14. /\ depth' \in [Threads -> Nat] /\ depth'[t] = d
       /\ \A u \in Threads : u # t => depth'[u] = depth[u]
  BY <1>3 DEF HelpFor
<1>15. ASSUME NEW u \in Threads
       PROVE  depth'[u] <= MaxDepth /\ depth'[u] = Cardinality(HelpersOf(stack', u))
  <2>1. CASE u = t
    BY <1>7, <1>13, <1>14, <2>1
  <2>2. CASE u # t
    BY <1>3, <1>5, <1>14, <2>2 DEF HelpFor
  <2> QED
    BY <2>1, <2>2
<1>16. HelpFor(stack', depth')
  BY <1>14, <1>15 DEF HelpFor
<1> QED
  BY <1>16, HelpIsThen

-----------------------------------------------------------------------------
(* Backup workers are joined *)

\* Sleepers that sleep on keep their backup workers.
LEMMA BossKept ==
  ASSUME PoolTypeOK, BossOK, Rests, boss' = boss
  PROVE  BossOK'
<1>1. ASSUME NEW b \in Backups, boss'[b] # None PROVE AsleepIn(stack', boss'[b])
  <2>1. PICK u \in Threads : u = boss[b] /\ u = boss'[b] /\ Asleep(u)
    BY <1>1 DEF PoolTypeOK, BossOK
  <2>2. Asleep(u)'
    BY <2>1 DEF Rests
  <2> QED
    BY <2>1, <2>2 DEF Asleep, AsleepIn, Top
<1>2. \A b, c \in Backups : boss'[b] # None /\ boss'[b] = boss'[c] => b = c
  BY DEF BossOK
<1> QED
  BY <1>1, <1>2 DEF BossOK, Asleep

\* A wait hires one backup worker, and had none.
LEMMA HireCares ==
  ASSUME PoolInv, PoolTypeOK', CareInv, NEW t \in Threads, Hire(t)
  PROVE  Gentle /\ BossOK' /\ UNCHANGED <<slot, outcome, panicked, depth>>
<1>1. /\ stack[t] # <<>> /\ Top(t).kind = "root" /\ Top(t).pc = "hire"
      /\ UNCHANGED <<slot, outcome, panicked, depth>>
  BY DEF Hire, At, scopes
<1>2. PICK b \in Backups :
        /\ boss[b] = None /\ boss' = [boss EXCEPT ![b] = t]
        /\ stack' = [stack EXCEPT ![t] = Moved(t, "sleep"), ![b] = <<Frame("loop", 0, "select")>>]
  BY DEF Hire
<1>3. b \in Threads /\ t # Main /\ t # None
  BY <1>1, TopIsFrame, PoolAssumption DEF Threads, PcOK
<1>4. Hired(t, b)
  BY <1>1, <1>2, HireIs
<1>5. Gentle
  BY <1>1, <1>3, <1>4, HiredIsGentle
<1>6. Asleep(t)'
  <2>1. PICK n \in Nat : n = Len(stack[t]) /\ n # 0 /\ Len(stack'[t]) = n /\ stack'[t][n].pc = "sleep"
    BY <1>4 DEF Hired
  <2>2. stack'[t] # <<>> /\ Last(stack'[t]).pc = "sleep"
    BY <2>1 DEF Last
  <2> QED
    BY <1>3, <2>2 DEF Asleep, AsleepIn, Top, Napping
<1>7. ~Asleep(t)
  BY <1>1 DEF Asleep, AsleepIn, Top, Napping
<1>8. \A c \in Backups : boss[c] # t
  BY <1>3, <1>7 DEF CareInv, BossOK
<1>9. boss'[b] = t /\ \A c \in Backups : c # b => boss'[c] = boss[c]
  BY <1>2 DEF PoolInv, PoolTypeOK
<1>10. ASSUME NEW c \in Backups, boss'[c] # None PROVE AsleepIn(stack', boss'[c])
  <2>1. CASE c = b
    <3>1. boss'[c] = t
      BY <1>9, <2>1
    <3> QED
      BY <1>6, <3>1 DEF Asleep, AsleepIn, Top
  <2>2. CASE c # b
    <3>1. PICK u \in Threads : u = boss[c] /\ u = boss'[c] /\ Asleep(u)
      BY <1>9, <1>10, <2>2 DEF PoolInv, PoolTypeOK, CareInv, BossOK
    <3>2. Asleep(u)'
      BY <1>5, <3>1 DEF Gentle, Rests
    <3> QED
      BY <3>1, <3>2 DEF Asleep, AsleepIn, Top
  <2> QED
    BY <2>1, <2>2
<1>11. ASSUME NEW c \in Backups, NEW e \in Backups, boss'[c] # None, boss'[c] = boss'[e]
       PROVE  c = e
  BY <1>8, <1>9, <1>11 DEF CareInv, BossOK
<1>12. BossOK'
  BY <1>10, <1>11 DEF BossOK, Asleep
<1> QED
  BY <1>1, <1>5, <1>12

\* The backup worker of a wait is joined, and the wait had no other.
LEMMA JoinCares ==
  ASSUME PoolInv, CareInv, NEW t \in Threads, Join(t)
  PROVE  AllKept /\ BossOK' /\ UNCHANGED <<slot, outcome, panicked, depth>>
<1>1. /\ stack[t] # <<>> /\ Top(t).kind = "root" /\ Top(t).pc = "join" /\ Goto(t, "take")
      /\ UNCHANGED <<slot, outcome, panicked, depth>>
  BY DEF Join, At, scopes
<1>2. PICK b \in Backups : boss[b] = t /\ boss' = [boss EXCEPT ![b] = None]
  BY DEF Join
<1>3. t # None
  BY PoolAssumption
<1>4. "take" \in Pcs /\ "take" \notin HelpPcs /\ "join" \notin HelpPcs
  BY DEF Pcs, HelpPcs
<1>5. AllKept /\ \A u \in Threads \ {t} : stack'[u] = stack[u]
  BY <1>1, <1>4, MoveKeeps
<1>6. boss'[b] = None /\ \A c \in Backups : c # b => boss'[c] = boss[c]
  BY <1>2 DEF PoolInv, PoolTypeOK
<1>7. ASSUME NEW c \in Backups, boss'[c] # None PROVE AsleepIn(stack', boss'[c])
  <2>1. PICK u \in Threads : u = boss[c] /\ u = boss'[c] /\ Asleep(u)
    BY <1>6, <1>7 DEF PoolInv, PoolTypeOK, CareInv, BossOK
  <2>2. u # t
    BY <1>2, <1>3, <1>6, <1>7, <2>1 DEF CareInv, BossOK
  <2>3. stack'[u] = stack[u]
    BY <1>5, <2>2
  <2>4. Asleep(u)'
    BY <2>1, <2>3, SameStack
  <2> QED
    BY <2>1, <2>4 DEF Asleep, AsleepIn, Top
<1>8. ASSUME NEW c \in Backups, NEW e \in Backups, boss'[c] # None, boss'[c] = boss'[e]
      PROVE  c = e
  BY <1>6, <1>8 DEF CareInv, BossOK
<1>9. BossOK'
  BY <1>7, <1>8 DEF BossOK, Asleep
<1> QED
  BY <1>1, <1>5, <1>9

\* What the invariant says of backup workers.
LEMMA AllAreJoined ==
  ASSUME PoolInv, BossOK
  PROVE  BackupsJoined
<1>1. ASSUME NEW b \in Backups, stack[b] # <<>>
      PROVE  /\ boss[b] # None
             /\ stack[boss[b]] # <<>>
             /\ Top(boss[b]).pc \in {"sleep", "block", "rise", "fire", "join"}
  BY <1>1 DEF PoolInv, BackupsOK, BossOK, Asleep, AsleepIn, Top, Napping
<1>2. ASSUME Ended, NEW b \in Backups PROVE boss[b] = None
  BY <1>2 DEF Ended, BossOK, Asleep, AsleepIn, Top, PoolInv, PoolTypeOK
<1> QED
  BY <1>1, <1>2 DEF BackupsJoined

-----------------------------------------------------------------------------
(* Panics arrive *)

\* A callback panics, or no scope has more or fewer panics than before.
LEMMA PanicStep ==
  ASSUME PanicOK, \A u \in Threads : \A i \in Nat : CalmAt(u, i)', slot' \in [Scopes -> BOOLEAN],
         \A s \in Scopes : outcome'[s] = outcome[s] \/ (outcome[s] = "unborn" /\ outcome'[s] = "open"),
         \A s \in Scopes :
           \/ /\ Faulted(s)' <=> Faulted(s)
              /\ s \in panicked' <=> s \in panicked
           \/ Faulted(s)' /\ s \in panicked' /\ outcome[s] = "open"
  PROVE  PanicOK'
<1>1. ASSUME NEW s \in Scopes
      PROVE  /\ Faulted(s)' => s \in panicked'
             /\ s \in panicked' => outcome'[s] \in {"open", "panic"}
             /\ s \in panicked' /\ outcome'[s] = "open" => Faulted(s)'
             /\ outcome'[s] = "panic" => s \in panicked'
  BY DEF PanicOK
<1> QED
  BY <1>1 DEF PanicOK

\* Steps that keep the frames' marks.
LEMMA MarksKept ==
  ASSUME PanicOK, AllKept, UNCHANGED <<slot, panicked>>,
         \A s \in Scopes : outcome'[s] = outcome[s] \/ (outcome[s] = "unborn" /\ outcome'[s] = "open")
  PROVE  PanicOK'
<1>1. ASSUME NEW s \in Scopes PROVE Faulted(s)' <=> Faulted(s)
  BY DEF AllKept, Kept, Marked, Faulted
<1>2. \A u \in Threads : \A i \in Nat : CalmAt(u, i)'
  BY DEF AllKept, Kept, PanicOK
<1>3. slot' \in [Scopes -> BOOLEAN]
  BY DEF PanicOK
<1> QED
  BY <1>1, <1>2, <1>3, PanicStep

\* A frame goes on to a place where it neither records a panic nor runs.
LEMMA MarksStay ==
  ASSUME PanicOK, NEW t \in Threads, NEW f, Replaced(t, f), NEW n \in Nat, n = Len(stack[t]),
         f.kind = "root", f.pc # "run", f.bad = Top(t).bad, UNCHANGED <<slot, outcome, panicked>>
  PROVE  PanicOK'
<1>1. /\ n \in 1..Len(stack[t]) /\ n \in 1..Len(stack'[t])
      /\ Top(t) = stack[t][n] /\ stack'[t][n] = f
      /\ f.kind = Top(t).kind /\ f.scope = Top(t).scope
  BY TopReplaced
<1>2. CalmAt(t, n)' /\ \A s \in Scopes : MarkAt(s, t, n)' <=> MarkAt(s, t, n)
  BY <1>1 DEF CalmAt, MarkAt
<1>3. \A u \in Threads : \A i \in Nat :
        /\ CalmAt(u, i)'
        /\ \A s \in Scopes : MarkAt(s, u, i)' <=> MarkAt(s, u, i)
  BY <1>2, BesideReplaced DEF Kept, PanicOK
<1>4. \A s \in Scopes : Faulted(s)' <=> Faulted(s)
  BY <1>3 DEF Faulted, Marked
<1>5. slot' \in [Scopes -> BOOLEAN]
  BY DEF PanicOK
<1> QED
  BY <1>3, <1>4, <1>5, PanicStep

\* The scope of a callback that has not counted itself is open.
LEMMA TopIsOpen ==
  ASSUME PoolInv, NEW t \in Threads, stack[t] # <<>>, Top(t).kind # "loop", Uncounted(Top(t))
  PROVE  Top(t).scope \in Scopes /\ outcome[Top(t).scope] = "open"
<1>1. PICK s \in Scopes : s = Top(t).scope
  BY TopIsFrame
<1>2. \E p : p \in Pending(s)
  BY <1>1, TopIsPending
<1> QED
  BY <1>1, <1>2, PendingIsOpen

\* What Finish does to the stacks.
LEMMA FinishIs ==
  ASSUME PoolInv, NEW t \in Threads, Finish(t)
  PROVE  \E bad \in BOOLEAN : \E f \in FrameSet :
           /\ Replaced(t, f) /\ f.bad = bad
           /\ f.pc = IF bad /\ Top(t).kind = "job" THEN "record" ELSE "count"
           /\ panicked' = IF bad THEN panicked \cup {Top(t).scope} ELSE panicked
<1>1. stack[t] # <<>>
  BY DEF Finish, At
<1>2. PICK bad \in BOOLEAN : /\ stack' = [stack EXCEPT ![t] = Over(stack[t], bad)]
                            /\ panicked' = IF bad THEN panicked \cup {Top(t).scope} ELSE panicked
  BY PoolAssumption DEF Finish
<1>3. PICK g \in FrameSet : g = Top(t)
  BY <1>1, TopIsFrame
<1>4. PICK place \in {"record", "count"} :
        place = IF bad /\ g.kind = "job" THEN "record" ELSE "count"
  OBVIOUS
<1>5. PICK f : f = [g EXCEPT !.bad = bad, !.pc = place]
  OBVIOUS
<1>6. f \in FrameSet /\ f.kind = g.kind /\ f.scope = g.scope /\ f.pc = place /\ f.bad = bad
  BY <1>3, <1>4, <1>5 DEF FrameSet, Pcs
<1>7. PICK r : r = OnTop(stack[t], f)
  OBVIOUS
<1>8. stack' = [stack EXCEPT ![t] = r]
  <2>1. Over(stack[t], bad) = r
    BY <1>3, <1>4, <1>5, <1>7 DEF Over, OnTop, Top
  <2> QED
    BY <1>2, <2>1
<1>9. Replaced(t, f)
  BY <1>1, <1>3, <1>6, <1>7, <1>8, ReplaceIs DEF PoolInv
<1> QED
  BY <1>2, <1>3, <1>4, <1>6, <1>9

\* A callback that panics marks its frame.
LEMMA FinishCares ==
  ASSUME PoolInv, PanicOK, NEW t \in Threads, Finish(t)
  PROVE  PanicOK' /\ HelpSame /\ Rests /\ UNCHANGED <<depth, boss>>
<1>1. /\ stack[t] # <<>> /\ Top(t).kind \in {"job", "root"} /\ Top(t).pc = "run"
      /\ UNCHANGED <<slot, outcome, depth, boss>>
  BY DEF Finish, At, help
<1>2. PICK bad \in BOOLEAN, f \in FrameSet :
        /\ Replaced(t, f) /\ f.bad = bad
        /\ f.pc = IF bad /\ Top(t).kind = "job" THEN "record" ELSE "count"
        /\ panicked' = IF bad THEN panicked \cup {Top(t).scope} ELSE panicked
  BY FinishIs
<1>3. PICK n \in Nat : n = Len(stack[t])
  BY <1>2 DEF Replaced
<1>4. /\ n \in 1..Len(stack[t]) /\ n \in 1..Len(stack'[t])
      /\ Top(t) = stack[t][n] /\ stack'[t][n] = f
      /\ f.kind = Top(t).kind /\ f.scope = Top(t).scope
  BY <1>2, <1>3, TopReplaced
<1>5. PICK p \in Scopes : p = Top(t).scope /\ outcome[p] = "open"
  BY <1>1, TopIsOpen DEF Uncounted
<1>6. \A u \in Threads : \A i \in Nat : u # t \/ i # n => Kept(u, i)
  BY <1>2, <1>3, BesideReplaced
<1>7. f.pc \in {"record", "count"}
  BY <1>2
<1>8. CalmAt(t, n)' /\ (HelpAt(t, n)' <=> HelpAt(t, n))
  BY <1>1, <1>4, <1>7 DEF CalmAt, HelpAt, HelpPcs
<1>9. \A s \in Scopes : ~MarkAt(s, t, n)
  <2>1. CalmAt(t, n)
    BY DEF PanicOK
  <2>2. ~Top(t).bad
    BY <1>1, <1>4, <2>1 DEF CalmAt
  <2> QED
    BY <1>1, <1>4, <2>2 DEF MarkAt
<1>10. \A s \in Scopes : MarkAt(s, t, n)' <=> bad /\ s = p
  <2>1. f.scope = p /\ f.bad = bad /\ f.kind \in {"job", "root"}
    BY <1>1, <1>2, <1>4, <1>5
  <2>2. f.kind = "job" => (f.pc = "record" <=> bad)
    BY <1>2, <1>4
  <2> QED
    BY <1>4, <2>1, <2>2 DEF MarkAt
<1>11. \A u \in Threads : \A i \in Nat : CalmAt(u, i)'
  BY <1>6, <1>8 DEF Kept, PanicOK
<1>12. ASSUME NEW s \in Scopes
       PROVE  \/ /\ Faulted(s)' <=> Faulted(s)
                 /\ s \in panicked' <=> s \in panicked
              \/ Faulted(s)' /\ s \in panicked' /\ outcome[s] = "open"
  <2>1. CASE bad /\ s = p
    <3>1. Marked(s)'
      BY <1>10, <2>1 DEF Marked
    <3>2. s \in panicked'
      BY <1>2, <1>5, <2>1
    <3> QED
      BY <1>5, <2>1, <3>1, <3>2 DEF Faulted
  <2>2. CASE ~(bad /\ s = p)
    <3>1. \A u \in Threads : \A i \in Nat : MarkAt(s, u, i)' <=> MarkAt(s, u, i)
      BY <1>6, <1>9, <1>10, <2>2 DEF Kept
    <3>2. Faulted(s)' <=> Faulted(s)
      BY <1>1, <3>1 DEF Marked, Faulted
    <3>3. s \in panicked' <=> s \in panicked
      BY <1>2, <1>5, <2>2
    <3> QED
      BY <3>2, <3>3
  <2> QED
    BY <2>1, <2>2
<1>13. slot' \in [Scopes -> BOOLEAN] /\ \A s \in Scopes : outcome'[s] = outcome[s]
  BY <1>1 DEF PanicOK
<1>14. PanicOK'
  BY <1>11, <1>12, <1>13, PanicStep
<1>15. HelpSame
  BY <1>6, <1>8 DEF HelpSame, Kept
<1>16. Rests
  <2>1. \A u \in Threads : u # t => stack'[u] = stack[u]
    BY <1>2 DEF Replaced
  <2> QED
    BY <1>1, <2>1, NobodyWakes DEF Napping
<1> QED
  BY <1>1, <1>14, <1>15, <1>16

\* The panic of a job moves from its frame to the slot of its scope.
LEMMA RecordCares ==
  ASSUME PoolInv, PanicOK, NEW t \in Threads, RecordPanic(t)
  PROVE  PanicOK' /\ HelpSame /\ Rests /\ UNCHANGED <<depth, boss>>
<1>1. /\ stack[t] # <<>> /\ Top(t).kind = "job" /\ Top(t).pc = "record" /\ Goto(t, "count")
      /\ slot' = [slot EXCEPT ![Top(t).scope] = TRUE]
      /\ UNCHANGED <<outcome, panicked, depth, boss>>
  BY DEF RecordPanic, At, help
<1>2. "count" \in Pcs
  BY DEF Pcs
<1>3. PICK f \in FrameSet : Replaced(t, f) /\ f.pc = "count"
  BY <1>1, <1>2, GotoIs DEF PoolInv
<1>4. PICK n \in Nat : n = Len(stack[t])
  BY <1>3 DEF Replaced
<1>5. /\ n \in 1..Len(stack[t]) /\ n \in 1..Len(stack'[t])
      /\ Top(t) = stack[t][n] /\ stack'[t][n] = f
      /\ f.kind = Top(t).kind /\ f.scope = Top(t).scope
  BY <1>3, <1>4, TopReplaced
<1>6. PICK p \in Scopes : p = Top(t).scope
  BY <1>1, TopIsFrame
<1>7. \A u \in Threads : \A i \in Nat : u # t \/ i # n => Kept(u, i)
  BY <1>3, <1>4, BesideReplaced
<1>8. CalmAt(t, n)' /\ (HelpAt(t, n)' <=> HelpAt(t, n))
  BY <1>1, <1>3, <1>5 DEF CalmAt, HelpAt
<1>9. \A s \in Scopes : (MarkAt(s, t, n) <=> s = p) /\ ~MarkAt(s, t, n)'
  BY <1>1, <1>3, <1>5, <1>6 DEF MarkAt
<1>10. \A u \in Threads : \A i \in Nat : CalmAt(u, i)'
  BY <1>7, <1>8 DEF Kept, PanicOK
<1>11. slot' \in [Scopes -> BOOLEAN] /\ slot'[p] /\ \A s \in Scopes : s # p => slot'[s] = slot[s]
  BY <1>1, <1>6 DEF PanicOK
<1>12. ASSUME NEW s \in Scopes PROVE Faulted(s)' <=> Faulted(s)
  <2>1. CASE s = p
    <3>1. Marked(s)
      BY <1>9, <2>1 DEF Marked
    <3> QED
      BY <1>11, <2>1, <3>1 DEF Faulted
  <2>2. CASE s # p
    <3>1. \A u \in Threads : \A i \in Nat : MarkAt(s, u, i)' <=> MarkAt(s, u, i)
      BY <1>7, <1>9, <2>2 DEF Kept
    <3> QED
      BY <1>11, <2>2, <3>1 DEF Marked, Faulted
  <2> QED
    BY <2>1, <2>2
<1>13. PanicOK'
  BY <1>1, <1>10, <1>11, <1>12, PanicStep
<1>14. HelpSame
  BY <1>7, <1>8 DEF HelpSame, Kept
<1>15. Rests
  <2>1. \A u \in Threads : u # t => stack'[u] = stack[u]
    BY <1>3 DEF Replaced
  <2> QED
    BY <1>1, <2>1, NobodyWakes DEF Napping
<1> QED
  BY <1>1, <1>13, <1>14, <1>15

\* When a scope returns, its wait knows exactly whether a callback has panicked.
LEMMA WaitKnows ==
  ASSUME PoolInv, PanicOK, NEW t \in Threads, stack[t] # <<>>, Top(t).kind = "root",
         Top(t).pc = "take", NEW s \in Scopes, s = Top(t).scope
  PROVE  /\ s \in panicked <=> Top(t).bad \/ slot[s]
         /\ \A p : p \notin Pending(s)
<1>1. PICK n \in Nat : n = Len(stack[t]) /\ n # 0 /\ n \in 1..n
  BY DEF PoolInv, PoolTypeOK
<1>2. Top(t) = stack[t][n] /\ RootAt(s, t, n) /\ Told(stack[t][n])
  BY <1>1 DEF Top, Last, RootAt, Told
<1>3. Full(s) /\ outcome[s] = "open"
  BY <1>2 DEF PoolInv, SignalsOK, OpenOK
<1>4. \A p : p \notin Pending(s)
  BY <1>3, PendingIsOpen
<1>5. ASSUME NEW u \in Threads, NEW i \in Nat, MarkAt(s, u, i) PROVE Top(t).bad
  <2>1. i \in 1..Len(stack[u]) /\ stack[u][i].scope = s
    BY <1>5 DEF MarkAt
  <2>2. CASE stack[u][i].kind = "job" /\ stack[u][i].pc = "record"
    <3>1. HeldAt(global, local, out, stack, s, "stack", u, i)
      BY <2>1, <2>2 DEF HeldAt, Uncounted
    <3>2. PICK p \in Place : p = <<"stack", u, i>>
      BY DEF Place
    <3>3. p \in Pending(s)
      BY <3>1, <3>2 DEF Pending, Held
    <3> QED
      BY <1>4, <3>3
  <2>3. CASE stack[u][i].kind = "root" /\ stack[u][i].bad
    <3>1. RootAt(s, u, i)
      BY <2>1, <2>3 DEF RootAt
    <3>2. u = t /\ i = n
      BY <1>2, <3>1 DEF PoolInv, RootsOK
    <3> QED
      BY <1>2, <2>3, <3>2
  <2> QED
    BY <1>5, <2>2, <2>3 DEF MarkAt
<1>6. Top(t).bad => Marked(s)
  BY <1>1, <1>2 DEF RootAt, MarkAt, Marked
<1>7. s \in panicked <=> Faulted(s)
  BY <1>3 DEF PanicOK
<1>8. Faulted(s) <=> Top(t).bad \/ slot[s]
  BY <1>5, <1>6 DEF Faulted, Marked
<1> QED
  BY <1>4, <1>7, <1>8

\* A scope returns, and its panic goes on in the callback that opened it.
LEMMA ReturnCares ==
  ASSUME PoolInv, PanicOK, NEW t \in Threads, ReturnFromScope(t)
  PROVE  PanicOK' /\ HelpSame /\ Rests /\ UNCHANGED <<depth, boss>>
<1>1. /\ stack[t] # <<>> /\ Top(t).kind = "root" /\ Top(t).pc = "take"
      /\ UNCHANGED <<depth, boss>>
  BY DEF ReturnFromScope, At, help
<1>2. PICK s \in Scopes : s = Top(t).scope
  BY <1>1, TopIsFrame
<1>3. PICK bad \in BOOLEAN : bad = (Top(t).bad \/ slot[s])
  OBVIOUS
<1>4. (s \in panicked <=> bad) /\ \A p : p \notin Pending(s)
  BY <1>1, <1>2, <1>3, WaitKnows
<1>5. /\ outcome' = [outcome EXCEPT ![s] = IF bad THEN "panic" ELSE "ok"]
      /\ slot' = [slot EXCEPT ![s] = FALSE]
      /\ stack' = [stack EXCEPT ![t] = IF bad /\ Front(stack[t]) # <<>> THEN Over(Front(stack[t]), TRUE)
                                       ELSE Front(stack[t])]
      /\ panicked' = IF bad /\ Front(stack[t]) # <<>> THEN panicked \cup {Last(Front(stack[t])).scope}
                     ELSE panicked
  BY <1>2, <1>3 DEF ReturnFromScope
<1>6. PICK m \in Nat : Returned(t, m, bad)
  BY <1>1, <1>5, ReturnIs
<1>7. PICK n \in Nat : n = m + 1 /\ n \notin 1..m /\ n \in 1..n /\ (m # 0 => m \in 1..n /\ m \in 1..m)
                       /\ (m # 0 => n > 1 /\ n - 1 = m)
  BY <1>6
<1>8. /\ stack' \in Stacks /\ Len(stack[t]) = n /\ Len(stack'[t]) = m
      /\ \A i \in 1..m - 1 : stack'[t][i] = stack[t][i]
      /\ \A u \in Threads \ {t} : stack'[u] = stack[u]
      /\ Top(t) = stack[t][n] /\ FrameOK(t, n)
  <2>1. Len(stack[t]) = n
    BY <1>6, <1>7 DEF Returned
  <2>2. Top(t) = stack[t][n] /\ FrameOK(t, n)
    BY <1>7, <2>1 DEF Top, Last, PoolInv, StacksOK
  <2> QED
    BY <1>6, <2>1, <2>2 DEF Returned
<1>9. Front(stack[t]) # <<>> <=> m # 0
  <2>1. PICK q \in Seq(FrameSet) : q = stack[t] /\ q # <<>> /\ Len(q) = n
    BY <1>1, <1>8 DEF PoolInv, PoolTypeOK
  <2>2. PICK r : r = Front(q)
    OBVIOUS
  <2>3. r \in Seq(FrameSet) /\ Len(r) = Len(q) - 1
    BY <2>1, <2>2, PoppedIs
  <2>4. Len(r) = m
    BY <1>7, <2>1, <2>3
  <2> QED
    BY <2>1, <2>2, <2>3, <2>4
<1>10. m # 0 => Last(Front(stack[t])) = stack[t][m]
  <2>1. PICK q \in Seq(FrameSet) : q = stack[t] /\ q # <<>> /\ Len(q) = n
    BY <1>1, <1>8 DEF PoolInv, PoolTypeOK
  <2>2. PICK r : r = Front(q)
    OBVIOUS
  <2>3. r \in Seq(FrameSet) /\ Len(r) = Len(q) - 1 /\ \A i \in 1..Len(q) - 1 : r[i] = q[i]
    BY <2>1, <2>2, PoppedIs
  <2>4. Len(r) = m /\ \A i \in 1..m : r[i] = q[i]
    BY <1>7, <2>1, <2>3
  <2> QED
    BY <1>7, <2>1, <2>2, <2>4 DEF Last
<1>11. m # 0 => /\ stack[t][m].kind \in {"job", "root"} /\ stack[t][m].pc = "run"
                /\ stack[t][m].scope \in Scopes
  <2>1. SUFFICES ASSUME m # 0
                 PROVE  /\ stack[t][m].kind \in {"job", "root"} /\ stack[t][m].pc = "run"
                        /\ stack[t][m].scope \in Scopes
    OBVIOUS
  <2>2. stack[t][m] \in FrameSet /\ FrameOK(t, m)
    BY <1>7, <1>8, <2>1 DEF PoolInv, PoolTypeOK, StacksOK
  <2>3. stack[t][m].kind # "loop" /\ stack[t][m].pc = "run"
    BY <1>1, <1>7, <1>8, <2>1 DEF FrameOK
  <2>4. stack[t][m].scope \in Scopes
    BY <2>2, <2>3 DEF FrameOK
  <2>5. stack[t][m].kind \in {"job", "root"}
    BY <2>2, <2>3 DEF FrameSet
  <2> QED
    BY <2>3, <2>4, <2>5
<1>12. m # 0 => stack[t][m].scope # s /\ outcome[stack[t][m].scope] = "open"
  <2>1. SUFFICES ASSUME m # 0 PROVE stack[t][m].scope # s /\ outcome[stack[t][m].scope] = "open"
    OBVIOUS
  <2>2. PICK p \in Scopes : p = stack[t][m].scope
    BY <1>11, <2>1
  <2>3. HeldAt(global, local, out, stack, p, "stack", t, m)
    BY <1>7, <1>8, <1>11, <2>1, <2>2 DEF HeldAt, Uncounted
  <2>4. PICK q \in Place : q = <<"stack", t, m>>
    BY DEF Place
  <2>5. q \in Pending(p)
    BY <2>3, <2>4 DEF Pending, Held
  <2>6. p # s /\ outcome[p] = "open"
    BY <1>4, <2>5, PendingIsOpen
  <2> QED
    BY <2>2, <2>6
<1>13. bad /\ m # 0 => /\ stack'[t][m].kind = stack[t][m].kind
                       /\ stack'[t][m].scope = stack[t][m].scope /\ stack'[t][m].bad
                       /\ stack'[t][m].pc \in {"record", "count"}
                       /\ stack[t][m].kind = "job" => stack'[t][m].pc = "record"
  BY <1>6 DEF Returned
<1>14. ~bad /\ m # 0 => stack'[t][m] = stack[t][m]
  BY <1>6 DEF Returned
<1>15. ASSUME NEW u \in Threads, NEW i \in Nat, u # t \/ (i # n /\ (i # m \/ ~bad))
       PROVE  Kept(u, i)
  <2>1. CASE u # t
    BY <1>8, <2>1, SameStack
  <2>2. CASE u = t
    <3>1. i # n /\ (i \in 1..n <=> i \in 1..m) /\ (i \in 1..m /\ i # m => i \in 1..m - 1)
      BY <1>7, <1>15, <2>2
    <3>2. i \in 1..m => stack'[t][i] = stack[t][i]
      <4>1. CASE i # m
        BY <1>8, <3>1, <4>1
      <4>2. CASE i = m
        <5>1. i \in 1..m => m # 0
          BY <4>2
        <5> QED
          BY <1>14, <1>15, <2>2, <4>2, <5>1
      <4> QED
        BY <4>1, <4>2
    <3> QED
      BY <1>8, <2>2, <3>1, <3>2, SameFrame
  <2> QED
    BY <2>1, <2>2
<1>16. /\ CalmAt(t, n)' /\ ~HelpAt(t, n) /\ ~HelpAt(t, n)'
       /\ \A r \in Scopes : (MarkAt(r, t, n) => r = s) /\ ~MarkAt(r, t, n)'
  <2>1. n \notin 1..Len(stack'[t])
    BY <1>7, <1>8
  <2> QED
    BY <1>1, <1>2, <1>8, <2>1 DEF CalmAt, HelpAt, MarkAt, HelpPcs
<1>17. ASSUME bad, m # 0
       PROVE  /\ CalmAt(t, m)' /\ ~HelpAt(t, m) /\ ~HelpAt(t, m)'
              /\ \A r \in Scopes : /\ ~MarkAt(r, t, m)
                                   /\ MarkAt(r, t, m)' <=> r = stack[t][m].scope
  <2>1. m \in 1..Len(stack[t]) /\ m \in 1..Len(stack'[t])
    BY <1>7, <1>8, <1>17
  <2>2. CalmAt(t, m)' /\ ~HelpAt(t, m) /\ ~HelpAt(t, m)'
    BY <1>11, <1>13, <1>17 DEF CalmAt, HelpAt, HelpPcs
  <2>3. ~stack[t][m].bad
    BY <1>11, <1>17, <2>1 DEF PanicOK, CalmAt
  <2>4. \A r \in Scopes : ~MarkAt(r, t, m)
    BY <1>11, <1>17, <2>3 DEF MarkAt
  <2>5. \A r \in Scopes : MarkAt(r, t, m)' <=> r = stack[t][m].scope
    BY <1>11, <1>13, <1>17, <2>1 DEF MarkAt
  <2> QED
    BY <2>2, <2>4, <2>5
<1>18. /\ slot' \in [Scopes -> BOOLEAN] /\ ~slot'[s]
       /\ \A r \in Scopes : r # s => slot'[r] = slot[r] /\ outcome'[r] = outcome[r]
       /\ outcome'[s] = IF bad THEN "panic" ELSE "ok"
  <2>1. /\ slot' \in [Scopes -> BOOLEAN] /\ ~slot'[s]
        /\ \A r \in Scopes : r # s => slot'[r] = slot[r]
    BY <1>5 DEF PanicOK
  <2>2. /\ \A r \in Scopes : r # s => outcome'[r] = outcome[r]
        /\ outcome'[s] = IF bad THEN "panic" ELSE "ok"
    BY <1>5 DEF PoolInv, PoolTypeOK
  <2> QED
    BY <2>1, <2>2
<1>19. /\ bad /\ m # 0 => panicked' = panicked \cup {stack[t][m].scope}
       /\ ~(bad /\ m # 0) => panicked' = panicked
  BY <1>5, <1>9, <1>10
<1>20. ASSUME NEW u \in Threads, NEW i \in Nat
       PROVE  CalmAt(u, i)' /\ (HelpAt(u, i)' <=> HelpAt(u, i))
  <2>1. CASE u # t \/ (i # n /\ (i # m \/ ~bad))
    BY <1>15, <2>1 DEF Kept, PanicOK
  <2>2. CASE u = t /\ i = n
    BY <1>16, <2>2
  <2>3. CASE u = t /\ i # n /\ i = m /\ bad /\ m # 0
    BY <1>17, <2>3
  <2>4. CASE u = t /\ i = 0
    <3>1. i \notin 1..Len(stack[u]) /\ i \notin 1..Len(stack'[u])
      BY <1>8, <2>4
    <3> QED
      BY <3>1 DEF CalmAt, HelpAt
  <2> QED
    BY <2>1, <2>2, <2>3, <2>4
<1>21. ASSUME NEW r \in Scopes, NEW u \in Threads, NEW i \in Nat, ~(bad /\ m # 0 /\ r = stack[t][m].scope)
       PROVE  /\ MarkAt(r, u, i)' => MarkAt(r, u, i)
              /\ r # s => (MarkAt(r, u, i)' <=> MarkAt(r, u, i))
  <2>1. CASE u # t \/ (i # n /\ (i # m \/ ~bad))
    BY <1>15, <2>1 DEF Kept
  <2>2. CASE u = t /\ i = n
    BY <1>16, <2>2
  <2>3. CASE u = t /\ i # n /\ i = m /\ bad /\ m # 0
    BY <1>17, <1>21, <2>3
  <2>4. CASE u = t /\ i = 0
    <3>1. i \notin 1..Len(stack[u]) /\ i \notin 1..Len(stack'[u])
      BY <1>8, <2>4
    <3> QED
      BY <3>1 DEF MarkAt
  <2> QED
    BY <2>1, <2>2, <2>3, <2>4
<1>22. ASSUME NEW r \in Scopes
       PROVE  /\ Faulted(r)' => r \in panicked'
              /\ r \in panicked' => outcome'[r] \in {"open", "panic"}
              /\ r \in panicked' /\ outcome'[r] = "open" => Faulted(r)'
              /\ outcome'[r] = "panic" => r \in panicked'
  <2>1. CASE bad /\ m # 0 /\ r = stack[t][m].scope
    <3>1. Marked(r)'
      BY <1>17, <2>1 DEF Marked
    <3>2. r \in panicked' /\ outcome'[r] = "open"
      BY <1>12, <1>18, <1>19, <2>1
    <3> QED
      BY <3>1, <3>2 DEF Faulted
  <2>2. CASE ~(bad /\ m # 0 /\ r = stack[t][m].scope) /\ r # s
    <3>1. Faulted(r)' <=> Faulted(r)
      BY <1>18, <1>21, <2>2 DEF Faulted, Marked
    <3>2. (r \in panicked' <=> r \in panicked) /\ outcome'[r] = outcome[r]
      BY <1>18, <1>19, <2>2
    <3> QED
      BY <3>1, <3>2 DEF PanicOK
  <2>3. CASE ~(bad /\ m # 0 /\ r = stack[t][m].scope) /\ r = s
    <3>1. Faulted(r)' => Faulted(r)
      BY <1>18, <1>21, <2>3 DEF Faulted, Marked
    <3>2. r \in panicked' <=> r \in panicked
      BY <1>19, <2>3
    <3> QED
      BY <1>4, <1>18, <2>3, <3>1, <3>2 DEF PanicOK
  <2> QED
    BY <1>12, <2>1, <2>2, <2>3
<1>23. PanicOK'
  BY <1>18, <1>20, <1>22 DEF PanicOK
<1>24. HelpSame
  BY <1>20 DEF HelpSame
<1>25. Rests
  BY <1>1, <1>8, NobodyWakes DEF Napping
<1> QED
  BY <1>1, <1>23, <1>24, <1>25

-----------------------------------------------------------------------------
(* Every step keeps all of it *)

\* Waits that begin to block, to help or to go deep.
LEMMA WaitCares ==
  ASSUME PoolInv, PoolTypeOK', CareInv, NEW t \in Threads, Wait(t)
  PROVE  CareInv'
<1>1. /\ stack[t] # <<>> /\ Top(t).kind = "root" /\ Top(t).pc = "wait"
      /\ UNCHANGED <<boss, slot, outcome, panicked>>
  BY DEF Wait, At, scopes
<1>2. /\ "block" \in Pcs /\ "poll" \in Pcs /\ "deep" \in Pcs /\ "block" \notin HelpPcs
      /\ "deep" \notin HelpPcs /\ "wait" \notin HelpPcs /\ "wait" \notin Napping /\ "poll" \in HelpPcs
  BY DEF Pcs, HelpPcs, Napping
<1>3. CASE depth' = depth /\ (Goto(t, "block") \/ Goto(t, "deep"))
  <2>1. Gentle
    BY <1>1, <1>2, <1>3, MoveIsGentle
  <2>2. HelpOK'
    BY <1>3, <2>1, HelpKept DEF Gentle, AllKept, Kept, HelpSame, CareInv, PoolInv
  <2>3. BossOK' /\ PanicOK'
    BY <1>1, <2>1, BossKept, MarksKept DEF Gentle, CareInv, PoolInv
  <2> QED
    BY <2>2, <2>3 DEF CareInv
<1>4. CASE depth[t] < MaxDepth /\ Goto(t, "poll") /\ depth' = [depth EXCEPT ![t] = depth[t] + 1]
  <2>1. PICK f \in FrameSet : Replaced(t, f) /\ f.pc = "poll" /\ f.bad = Top(t).bad
    BY <1>1, <1>2, <1>4, GotoIs DEF PoolInv
  <2>2. PICK n \in Nat : n = Len(stack[t])
    BY <2>1 DEF Replaced
  <2>3. /\ n \in 1..Len(stack[t]) /\ n \in 1..Len(stack'[t])
        /\ Top(t) = stack[t][n] /\ stack'[t][n] = f
        /\ f.kind = Top(t).kind /\ f.scope = Top(t).scope
    BY <2>1, <2>2, TopReplaced
  <2>4. PICK d \in Nat : d = depth[t] + 1
    BY DEF CareInv, HelpOK
  <2>5. HelpOK'
    BY <1>1, <1>2, <1>4, <2>1, <2>3, <2>4, HelpChanges DEF PoolInv, CareInv
  <2>6. Rests
    <3>1. \A u \in Threads : u # t => stack'[u] = stack[u]
      BY <2>1 DEF Replaced
    <3> QED
      BY <1>1, <1>2, <3>1, NobodyWakes
  <2>7. PanicOK'
    BY <1>1, <2>1, <2>2, <2>3, MarksStay DEF CareInv
  <2>8. BossOK'
    BY <1>1, <2>6, BossKept DEF CareInv, PoolInv
  <2> QED
    BY <2>5, <2>7, <2>8 DEF CareInv
<1> QED
  BY <1>3, <1>4 DEF Wait

\* A wait that helped no longer does.
LEMMA LeaveCares ==
  ASSUME PoolInv, PoolTypeOK', CareInv, NEW t \in Threads, Leave(t)
  PROVE  CareInv'
<1>1. /\ stack[t] # <<>> /\ Top(t).kind = "root" /\ Top(t).pc = "leave" /\ Goto(t, "take")
      /\ depth' = [depth EXCEPT ![t] = depth[t] - 1]
      /\ UNCHANGED <<boss, slot, outcome, panicked>>
  BY DEF Leave, At, scopes
<1>2. /\ "take" \in Pcs /\ "take" \notin HelpPcs /\ "leave" \in HelpPcs /\ "leave" \notin Napping
  BY DEF Pcs, HelpPcs, Napping
<1>3. PICK f \in FrameSet : Replaced(t, f) /\ f.pc = "take" /\ f.bad = Top(t).bad
  BY <1>1, <1>2, GotoIs DEF PoolInv
<1>4. PICK n \in Nat : n = Len(stack[t])
  BY <1>3 DEF Replaced
<1>5. /\ n \in 1..Len(stack[t]) /\ n \in 1..Len(stack'[t])
      /\ Top(t) = stack[t][n] /\ stack'[t][n] = f
      /\ f.kind = Top(t).kind /\ f.scope = Top(t).scope
  BY <1>3, <1>4, TopReplaced
<1>6. PICK d \in Nat : d = depth[t] - 1
  <2>1. HelpFor(stack, depth)
    BY HelpIs DEF CareInv, PoolInv
  <2>2. n \in HelpersOf(stack, t)
    BY <1>1, <1>2, <1>5 DEF HelpersOf
  <2>3. IsFiniteSet(HelpersOf(stack, t))
    BY HelpersAre DEF PoolInv, PoolTypeOK
  <2>4. Cardinality(HelpersOf(stack, t)) \in Nat /\ Cardinality(HelpersOf(stack, t)) # 0
    BY <2>2, <2>3, FS_CardinalityType, FS_EmptySet
  <2>5. PICK c \in Nat : c = depth[t] /\ c # 0
    BY <2>1, <2>4 DEF HelpFor
  <2>6. c - 1 \in Nat
    BY <2>5
  <2> QED
    BY <2>5, <2>6
<1>7. HelpOK'
  BY <1>1, <1>2, <1>3, <1>5, <1>6, HelpChanges DEF PoolInv, CareInv
<1>8. Rests
  <2>1. \A u \in Threads : u # t => stack'[u] = stack[u]
    BY <1>3 DEF Replaced
  <2> QED
    BY <1>1, <1>2, <2>1, NobodyWakes
<1>9. PanicOK'
  BY <1>1, <1>3, <1>4, <1>5, MarksStay DEF CareInv
<1>10. BossOK'
  BY <1>1, <1>8, BossKept DEF CareInv, PoolInv
<1> QED
  BY <1>7, <1>9, <1>10 DEF CareInv

\* scope_wait opens a scope in which nothing has panicked.
LEMMA OpenCares ==
  ASSUME PoolInv, PoolTypeOK', CareInv, NEW t \in Threads, OpenScope(t)
  PROVE  CareInv'
<1>1. UNCHANGED <<boss, depth, slot, panicked>>
  BY DEF OpenScope, help
<1>2. PICK s \in Scopes :
        /\ outcome[s] = "unborn"
        /\ outcome' = [outcome EXCEPT ![s] = "open"]
        /\ stack' = [stack EXCEPT ![t] = Append(@, Frame("root", s, "run"))]
  BY DEF OpenScope
<1>3. stack[t] = <<>> \/ Top(t).pc = "run"
  BY DEF OpenScope, At
<1>4. Gentle
  BY <1>2, <1>3, OpenIs, OpenedIsGentle
<1>5. \A r \in Scopes : outcome'[r] = outcome[r] \/ (outcome[r] = "unborn" /\ outcome'[r] = "open")
  BY <1>2 DEF PoolInv, PoolTypeOK
<1>6. PanicOK'
  BY <1>1, <1>4, <1>5, MarksKept DEF Gentle, CareInv
<1>7. BossOK' /\ HelpOK'
  BY <1>1, <1>4, BossKept, HelpKept DEF Gentle, AllKept, Kept, HelpSame, CareInv, PoolInv
<1> QED
  BY <1>6, <1>7 DEF CareInv

\* Every other step leaves the panics, the helpers and the backup workers as they are.
LEMMA GentleCares ==
  ASSUME PoolInv, PoolTypeOK', CareInv, Gentle, UNCHANGED <<slot, outcome, panicked, depth, boss>>
  PROVE  CareInv'
<1>1. PanicOK'
  BY MarksKept DEF Gentle, CareInv
<1>2. BossOK' /\ HelpOK'
  BY BossKept, HelpKept DEF Gentle, AllKept, Kept, HelpSame, CareInv, PoolInv
<1> QED
  BY <1>1, <1>2 DEF CareInv

\* Every step.
LEMMA CareKeeps ==
  ASSUME PoolInv, PoolInv', CareInv, [Next]_vars
  PROVE  CareInv'
<1>1. PoolTypeOK'
  BY DEF PoolInv
<1>2. CASE UNCHANGED vars
  <2>1. Main \in Threads
    BY DEF Threads
  <2>2. Gentle /\ UNCHANGED <<slot, outcome, panicked, depth, boss>>
    BY <1>2, <2>1, RestIsGentle
  <2> QED
    BY <1>1, <2>2, GentleCares
<1>3. ASSUME NEW t \in Threads, Step(t) PROVE CareInv'
  <2>1. CASE Send(t) \/ Spawn(t) \/ Drop \/ Exit(t)
    BY <1>1, <2>1, RestIsGentle, GentleCares
  <2>2. CASE CompleteOne(t) \/ Signal(t)
    BY <1>1, <2>2, CountingIsGentle, GentleCares
  <2>3. CASE PopLocal(t) \/ TryRecv(t) \/ Select(t)
    BY <1>1, <2>3, LookingIsGentle, GentleCares
  <2>4. CASE \/ BeginStall(t) \/ EndStall(t) \/ DonateAll(t) \/ Sleep(t) \/ Receive(t) \/ Rise(t)
             \/ Fire(t) \/ Poll(t)
    BY <1>1, <2>4, GoingOnIsGentle, GentleCares
  <2>5. CASE Finish(t) \/ RecordPanic(t) \/ ReturnFromScope(t)
    <3>1. PanicOK' /\ HelpSame /\ Rests /\ UNCHANGED <<depth, boss>>
      BY <2>5, FinishCares, RecordCares, ReturnCares DEF CareInv
    <3> QED
      BY <1>1, <3>1, BossKept, HelpKept DEF CareInv, PoolInv
  <2>6. CASE OpenScope(t)
    BY <1>1, <2>6, OpenCares
  <2>7. CASE Wait(t)
    BY <1>1, <2>7, WaitCares
  <2>8. CASE Leave(t)
    BY <1>1, <2>8, LeaveCares
  <2>9. CASE Hire(t)
    <3>1. Gentle /\ BossOK' /\ UNCHANGED <<slot, outcome, panicked, depth>>
      BY <1>1, <2>9, HireCares
    <3> QED
      BY <1>1, <3>1, MarksKept, HelpKept DEF Gentle, AllKept, Kept, HelpSame, CareInv, PoolInv
  <2>10. CASE Join(t)
    <3>1. AllKept /\ BossOK' /\ UNCHANGED <<slot, outcome, panicked, depth>>
      BY <2>10, JoinCares
    <3> QED
      BY <1>1, <3>1, MarksKept, HelpKept DEF AllKept, Kept, HelpSame, CareInv, PoolInv
  <2> QED
    BY <1>3, <2>1, <2>2, <2>3, <2>4, <2>5, <2>6, <2>7, <2>8, <2>9, <2>10
       DEF Step, Callback, Waiting
<1> QED
  BY <1>2, <1>3 DEF Next

\* A pool that starts has workers in their loops and nothing else.
LEMMA OnlyLoops ==
  ASSUME Init, NEW t \in Threads, NEW i \in Nat, i \in 1..Len(stack[t])
  PROVE  stack[t][i].kind = "loop" /\ stack[t][i].pc = "local"
<1>1. PICK l : l = Frame("loop", 0, "local")
  OBVIOUS
<1>2. l.kind = "loop" /\ l.pc = "local"
  BY <1>1 DEF Frame
<1>3. CASE t \in Workers
  <2>1. PICK k : k = <<l>> /\ Len(k) = 1 /\ k[1] = l
    <3>1. PICK k : k = <<l>>
      OBVIOUS
    <3>2. Len(k) = 1 /\ k[1] = l
      BY <3>1
    <3> QED
      BY <3>1, <3>2
  <2>2. stack[t] = k
    BY <1>1, <1>3, <2>1 DEF Init
  <2>3. i \in 1..1
    BY <2>1, <2>2
  <2>4. i = 1
    BY <2>3
  <2> QED
    BY <1>2, <2>1, <2>2, <2>4
<1>4. CASE t \notin Workers
  <2>1. PICK k : k = <<>> /\ Len(k) = 0
    <3>1. PICK k : k = <<>>
      OBVIOUS
    <3>2. Len(k) = 0
      BY <3>1
    <3> QED
      BY <3>1, <3>2
  <2>2. stack[t] = k
    BY <1>4, <2>1 DEF Init
  <2>3. i \in 1..0
    BY <2>1, <2>2
  <2> QED
    BY <2>3
<1> QED
  BY <1>3, <1>4

\* Before anything has happened.
LEMMA CareStarts ==
  ASSUME Init
  PROVE  CareInv
<1>1. PoolTypeOK
  BY PoolStarts DEF PoolInv
<1>2. BossOK
  BY DEF Init, BossOK
<1>3. HelpOK
  <2>1. ASSUME NEW u \in Threads
        PROVE  depth[u] <= MaxDepth /\ depth[u] = Cardinality(HelpersOf(stack, u))
    <3>1. HelpersOf(stack, u) = {}
      BY OnlyLoops DEF HelpersOf
    <3>2. Cardinality(HelpersOf(stack, u)) = 0
      BY <3>1, FS_EmptySet
    <3>3. depth[u] = 0
      BY DEF Init
    <3> QED
      BY <3>2, <3>3, PoolAssumption
  <2>2. depth \in [Threads -> Nat]
    BY DEF Init
  <2>3. HelpFor(stack, depth)
    BY <2>1, <2>2 DEF HelpFor
  <2> QED
    BY <1>1, <2>3, HelpIs
<1>4. PanicOK
  <2>1. slot \in [Scopes -> BOOLEAN] /\ panicked = {}
    BY DEF Init
  <2>2. ASSUME NEW s \in Scopes PROVE ~Faulted(s) /\ outcome[s] = "unborn"
    <3>1. \A u \in Threads : \A i \in Nat : ~MarkAt(s, u, i)
      BY OnlyLoops DEF MarkAt
    <3> QED
      BY <3>1 DEF Init, Faulted, Marked
  <2>3. \A u \in Threads : \A i \in Nat : CalmAt(u, i)
    BY OnlyLoops DEF CalmAt
  <2> QED
    BY <2>1, <2>2, <2>3 DEF PanicOK
<1> QED
  BY <1>2, <1>3, <1>4 DEF CareInv

\* The rest of the invariant: backup workers belong to sleeping waits, one each; the depth of help
\* is the number of helping waits; and a scope has panicked when its slot or a frame says so.
THEOREM CareHolds == Spec => [](PoolInv /\ CareInv)
<1>1. Init => PoolInv /\ CareInv
  BY PoolStarts, CareStarts
<1>2. PoolInv /\ CareInv /\ [Next]_vars => (PoolInv /\ CareInv)'
  BY PoolKeeps, CareKeeps
<1> QED
  BY <1>1, <1>2, PTL DEF Spec

\* The depth of help is exact and bounded on every thread, and a backup worker lives only while the
\* wait that hired it is blocked: what InlineScopeHelpGuard and BackupWorkerGuard begin they end.
THEOREM WaitsBalance == Spec => []WaitsAreBalanced
<1>1. PoolInv /\ CareInv => WaitsAreBalanced
  BY AllAreJoined DEF WaitsAreBalanced, CareInv, HelpOK
<1> QED
  BY <1>1, CareHolds, PTL

\* scope panics exactly when one of its callbacks did, those of nested scopes included, on
\* whichever thread they ran.
THEOREM PanicsReturn == Spec => []PanicsArrive
<1>1. PoolInv /\ CareInv => PanicsArrive
  BY DEF PanicsArrive, CareInv, PanicOK
<1> QED
  BY <1>1, CareHolds, PTL
=============================================================================
