------------------------------ MODULE Extraction ------------------------------
(***************************************************************************)
(* Tree extraction, egglog/src/extract.rs: from the sorts of the roots,    *)
(* find the constructors that matter, compute the least cost of a term for *)
(* each class by relaxing rows until no row is dirty, choose one row per   *)
(* class, and follow the choices to build terms.  Costs are those of       *)
(* AdditiveCostModel, with the constructors' own.  A container's cost is   *)
(* the sum over its elements and its rank their maximum, so a row stands   *)
(* here with the elements in place of the container.  Subsumed rows are    *)
(* left out from the start.                                                *)
(***************************************************************************)
EXTENDS Naturals, Sequences, FiniteSets, FiniteSetsExt, SequencesExt

CONSTANTS
  Classes,    \* ids of eq sorts, numbers
  SortOf,     \* the sort of each class
  Heads,      \* constructors: name |-> [args, a sequence of sorts, out, a sort, cost]
  Decls,      \* sequences of constructors, in the order of declaration
  MaxRows,    \* bound: rows of the e-graph
  MaxCost,    \* the largest cost, at which sums saturate
  None

ExtractionAssumption ==
  /\ Classes \subseteq Nat /\ MaxRows \in Nat /\ MaxCost \in Nat
  /\ \A decl \in Decls : Range(decl) \subseteq DOMAIN Heads

Sorts == {SortOf[c] : c \in Classes}
Of(sort) == {c \in Classes : SortOf[c] = sort}

VARIABLES
  decl,     \* egraph.functions: the constructors in the order of declaration
  rows,     \* of each constructor, its rows in scan order, each with children and class
  phase,    \* "build", "relax" or "done"
  funcs,    \* the constructors that matter, in the order in which they are swept
  costs,    \* of each class, None or its cost and rank
  rank,     \* topo_rnk_cnt
  dirty,    \* of each constructor, the dirty rows
  at,       \* where the sweep is in funcs
  cursor,   \* and in the rows of that constructor
  edge      \* parent_edge: of each class, None or its row

vars == <<decl, rows, phase, funcs, costs, rank, dirty, at, cursor, edge>>

-----------------------------------------------------------------------------
(* The e-graph and the constructors that matter *)

Init ==
  /\ decl \in Decls
  /\ rows = [h \in Range(decl) |-> <<>>]
  /\ phase = "build" /\ funcs = <<>>
  /\ costs = [c \in Classes |-> None] /\ rank = 0
  /\ dirty = <<>> /\ at = 1 /\ cursor = 1
  /\ edge = [c \in Classes |-> None]

KeysOf(h) == {key \in [DOMAIN Heads[h].args -> Classes] :
                \A i \in DOMAIN key : SortOf[key[i]] = Heads[h].args[i]}
Everything == UNION {Range(rows[h]) : h \in DOMAIN rows}

\* The program that makes the e-graph: a table has one row for a key.
AddRow(h, key, class) ==
  /\ phase = "build"
  /\ Cardinality(Everything) < MaxRows
  /\ \A r \in Range(rows[h]) : r.key # key
  /\ rows' = [rows EXCEPT ![h] = Append(@, [head |-> h, key |-> key, class |-> class])]
  /\ UNCHANGED <<decl, phase, funcs, costs, rank, dirty, at, cursor, edge>>

\* rev_index, and the sorts that have an entry, for when no roots are given.
Producers(sort) == SelectSeq(decl, LAMBDA h : Heads[h].out = sort)
Fresh(sorts, seen) == FoldLeft(LAMBDA q, s : IF s \in Range(q) \cup seen THEN q ELSE Append(q, s), <<>>, sorts)
AllSorts == Fresh([i \in DOMAIN decl |-> Heads[decl[i]].out], {})

\* A step of the search over sorts, which begins with the sorts of the roots.
Explore(search) ==
  LET hs == Producers(Head(search.queue))
      args == FlattenSeq([i \in DOMAIN hs |-> Heads[hs[i]].args])
      found == Fresh(args, search.seen)
  IN  [queue |-> Tail(search.queue) \o found,
       seen |-> search.seen \cup Range(found),
       funcs |-> search.funcs \o hs]

Reachable(roots) ==
  LET search[n \in 0..Cardinality(Sorts)] ==
        IF n = 0 THEN [queue |-> roots, seen |-> Range(roots), funcs |-> <<>>]
        ELSE IF search[n - 1].queue = <<>> THEN search[n - 1]
        ELSE Explore(search[n - 1])
  IN  search[Cardinality(Sorts)].funcs

\* compute_costs_from_rootsorts; at first every row is dirty.
Begin(roots) ==
  /\ phase = "build"
  /\ phase' = "relax"
  /\ funcs' = Reachable(roots)
  /\ dirty' = [h \in Range(funcs') |-> DOMAIN rows[h]]
  /\ UNCHANGED <<decl, rows, costs, rank, at, cursor, edge>>

-----------------------------------------------------------------------------
(* bellman_ford *)

\* combine, saturating_add.
Combine(a, b) == IF a + b > MaxCost THEN MaxCost ELSE a + b

\* row_cost: None while a child has no cost.
RowCost(r) ==
  IF \E i \in DOMAIN r.key : costs[r.key[i]] = None THEN None
  ELSE FoldLeft(LAMBDA sum, c : Combine(sum, costs[c].cost), Heads[r.head].cost, r.key)

\* ChildIndex: the rows that read a class.
ReadersOf(c, h) == {i \in DOMAIN rows[h] : c \in Range(rows[h][i].key)}

Better(cost, class) == cost # None /\ (costs[class] = None \/ cost < costs[class].cost)

\* Where the sweep goes on: the next dirty row of this constructor, of one after it, or, in
\* the next sweep, of the first that has one.
Dirty == {j \in DOMAIN funcs : dirty[funcs[j]] # {}}
Ahead == {i \in dirty[funcs[at]] : i >= cursor}
Later == {j \in Dirty : j > at}
NextAt == IF Ahead # {} THEN at ELSE IF Later # {} THEN Min(Later) ELSE Min(Dirty)
NextRow == IF Ahead # {} THEN Min(Ahead) ELSE Min(dirty[funcs[NextAt]])

\* Mutant: only the rows that come later in the sweep are marked.
MarkedAhead(old, c) ==
  [h \in DOMAIN old |-> old[h] \cup {i \in ReadersOf(c, h) :
     \E j \in DOMAIN funcs : funcs[j] = h /\ (j > NextAt \/ (j = NextAt /\ i > NextRow))}]

\* The rows that read a class whose cost was lowered are dirty again.
Marked(old, c) == [h \in DOMAIN old |-> old[h] \cup ReadersOf(c, h)]

Relax ==
  /\ phase = "relax" /\ Dirty # {}
  /\ at' = NextAt /\ cursor' = NextRow + 1
  /\ LET h == funcs[NextAt]
         r == rows[h][NextRow]
         cost == RowCost(r)
         clean == [dirty EXCEPT ![h] = @ \ {NextRow}]
     IN  IF Better(cost, r.class)
         THEN /\ rank' = rank + 1
              /\ costs' = [costs EXCEPT ![r.class] = [cost |-> cost, rank |-> rank']]
              /\ dirty' = Marked(clean, r.class)
         ELSE dirty' = clean /\ UNCHANGED <<costs, rank>>
  /\ UNCHANGED <<decl, rows, phase, funcs, edge>>

EdgeRank(r) == Max({0} \cup {costs[r.key[i]].rank : i \in DOMAIN r.key})

\* Mutant: any row of the best cost will do.
BestAny(r) == costs[r.class] # None /\ RowCost(r) = costs[r.class].cost

\* A row that costs what its class does and was there before its class had that cost.
Best(r) ==
  /\ costs[r.class] # None /\ RowCost(r) = costs[r.class].cost
  /\ costs[r.class].rank > EdgeRank(r)

Swept == FlattenSeq([i \in DOMAIN funcs |-> rows[funcs[i]]])

\* The first such row of each class.
SaveEdges ==
  /\ phase = "relax" /\ Dirty = {}
  /\ phase' = "done"
  /\ edge' = [c \in Classes |->
       LET best == SelectSeq(Swept, LAMBDA r : r.class = c /\ Best(r))
       IN  IF best = <<>> THEN None ELSE Head(best)]
  /\ UNCHANGED <<decl, rows, funcs, costs, rank, dirty, at, cursor>>

Next ==
  \/ \E h \in DOMAIN rows : \E key \in KeysOf(h), c \in Of(Heads[h].out) : AddRow(h, key, c)
  \/ \E roots \in {<<sort>> : sort \in Sorts} \cup {AllSorts} : Begin(roots)
  \/ Relax
  \/ SaveEdges

Spec == Init /\ [][Next]_vars

-----------------------------------------------------------------------------
(* Terms *)

\* reconstruct_termdag_node_helper: the cost of the term that the edges lead to, or None if
\* it meets a class without an edge, or does not end.
Depths == 0..Cardinality(Classes)
Sum(head, key, child) ==
  IF \E i \in DOMAIN key : child[key[i]] = None THEN None
  ELSE FoldLeft(LAMBDA sum, c : Combine(sum, child[c]), Heads[head].cost, key)
TermCost ==
  LET cost[n \in Depths] == [c \in Classes |->
        IF n = 0 \/ edge[c] = None THEN None ELSE Sum(edge[c].head, edge[c].key, cost[n - 1])]
  IN  cost[Cardinality(Classes)]

\* extract_variants_with_sort: the rows of a class, the cheapest first.
Variants(c) ==
  SetToSortSeq({r \in Range(Swept) : r.class = c /\ RowCost(r) # None},
               LAMBDA r, q : RowCost(r) < RowCost(q))

-----------------------------------------------------------------------------
(* Properties *)

\* The least cost of a term of each class, by depth: an optimal term repeats no class on a
\* path, so it is no deeper than there are classes.
LeastCost ==
  LET least[n \in Depths] == [c \in Classes |->
        LET sums == {Sum(r.head, r.key, least[n - 1]) : r \in {r \in Everything : r.class = c}} \ {None}
        IN  IF n = 0 \/ sums = {} THEN None ELSE Min(sums)]
  IN  least[Cardinality(Classes)]

\* A row that is not dirty has nothing to offer its class: rows are marked whenever a cost
\* they read has changed, before or behind the cursor.
CleanRowsRelaxed ==
  \A h \in Range(funcs) : \A i \in DOMAIN rows[h] \ dirty[h] :
    ~Better(RowCost(rows[h][i]), rows[h][i].class)

Reached == {c \in Classes : \E h \in Range(funcs) : SortOf[c] = Heads[h].out}

\* When no row is dirty, a class has the cost of its cheapest term, although only the
\* constructors that the sorts of the roots lead to were looked at.
CostsAreLeast ==
  phase = "done" => \A c \in Reached :
    (IF costs[c] = None THEN None ELSE costs[c].cost) = LeastCost[c]

\* Every class that has a cost has a term of just that cost, also where rows cost nothing and
\* classes contain themselves: no class is without an edge and no chain of edges is a cycle.
\* So do its variants, which begin with that cost.
TermsCostTheLeast ==
  phase = "done" => \A c \in Classes : costs[c] # None =>
    /\ TermCost[c] = costs[c].cost
    /\ Variants(c) # <<>> /\ RowCost(Variants(c)[1]) = costs[c].cost
    /\ \A r \in Range(Variants(c)) : Sum(r.head, r.key, TermCost) = RowCost(r)

\* The sweeps settle on the least costs: at their end, and for each clean row on the way.
CostsSettle == CostsAreLeast /\ CleanRowsRelaxed
=============================================================================
