------------------------------ MODULE Containers ------------------------------
(***************************************************************************)
(* Containers: core-relations/src/containers/mod.rs, with the loop of the  *)
(* bridge that rebuilds them and the tables whose rows mention them.  A    *)
(* container is a set of ids, which may be ids of containers; its own id   *)
(* comes from the id counter.  One environment keeps three maps:           *)
(*   to_id         from a container to its id,                             *)
(*   to_container  from an id to the hash of its container,                *)
(*   val_index     from an id to the ids of the containers that hold it.   *)
(* Rules intern containers from several threads at once.  Rebuilding has   *)
(* the maps to itself; it makes containers equal, whose ids it unites, and *)
(* changes others in place, so that rows that mention their ids mean       *)
(* something new without having been touched.                              *)
(***************************************************************************)
EXTENDS Integers, FiniteSets, FiniteSetsExt, Functions, TLC

CONSTANTS
  Threads,
  None,
  Elems,      \* the ids of an ordinary sort: 0..n
  Keys,       \* those of them that are keys of the function
  MaxId,      \* bound: the largest id, containers included
  MaxUnions,  \* bound: the unions that rules make
  MaxRows     \* bound: the rows that rules set

ASSUME ContainersAssumption ==
  /\ MaxId \in Nat /\ Keys \subseteq Elems /\ Elems \subseteq 0..MaxId
  /\ Elems = 0..(Cardinality(Elems) - 1)   \* the counter has given out these
  /\ None \notin 0..MaxId

Ids == 0..MaxId

VARIABLES
  canon,      \* the union-find table: each id's canonical id
  cursor,     \* the displaced ids before the containers' cursor (SubsetTracker)
  unions,     \* the unions staged
  next,       \* the id counter
  toId, toContainer, valIndex,
  rows,       \* the rows of a function from Elems to containers: value and whether new
  staged,     \* the rows staged for it
  pc, mine,   \* where each thread is, and the row and id it is busy with
  phase,      \* "rules", or the step of the rebuild loop
  queue,      \* the containers taken out and not yet reinserted
  summary,    \* ContainerRebuildSummary, and whether a table changed this round
  matched,    \* history: what each row meant when rules last matched
  made        \* history: the rows rules have made

env == <<toId, toContainer, valIndex>>
loop == <<phase, queue, summary>>
vars == <<canon, cursor, unions, next, env, rows, staged, pc, mine, loop, matched, made>>

Idle == [key |-> 0, set |-> {}, id |-> None]
NoSummary == [changed |-> FALSE, dirty |-> {}, rows |-> FALSE]

Init ==
  /\ canon = [i \in Ids |-> i]
  /\ cursor = {}
  /\ unions = {}
  /\ next = Cardinality(Elems)
  /\ toId = <<>> /\ toContainer = <<>>
  /\ valIndex = [i \in Ids |-> {}]
  /\ rows = <<>>
  /\ staged = {}
  /\ pc = [t \in Threads |-> "idle"]
  /\ mine = [t \in Threads |-> Idle]
  /\ phase = "rules" /\ queue = {} /\ summary = NoSummary
  /\ matched = <<>>
  /\ made = 0

Displaced == {i \in Ids : canon[i] # i}

\* get_container: the hash leads to a shard, where the entry is found by its id.
Holds(id, c) == c \in DOMAIN toId /\ toId[c] = id
Resolves(id) == id \in DOMAIN toContainer /\ Holds(id, toContainer[id])

\* The containers under an id, two levels deep.
Contents(id) == IF Resolves(id) THEN toContainer[id] ELSE {}
Meaning(id) == {IF v \in Elems THEN <<v, {}>> ELSE <<None, Contents(v)>> : v \in Contents(id)}

\* The map f, with x leading to y.
With(f, x, y) == [z \in DOMAIN f \cup {x} |-> IF z = x THEN y ELSE f[z]]

-----------------------------------------------------------------------------
(* Rules: set (f key) to a container of ids that rules see *)

\* Ids of containers without containers in them: two levels are enough to have a parent.
Flat == {toId[c] : c \in {c \in DOMAIN toId : c \subseteq Elems}}

\* register_val: get_or_insert begins.
CallIntern(t) ==
  /\ phase = "rules"
  /\ pc[t] = "idle"
  /\ made < MaxRows
  /\ made' = made + 1
  /\ \E key \in Keys \ Displaced, set \in SUBSET ((Elems \ Displaced) \cup Flat) :
       /\ Cardinality(set) \in 1..2
       /\ mine' = [mine EXCEPT ![t] = [key |-> key, set |-> set, id |-> None]]
  /\ pc' = [pc EXCEPT ![t] = "find"]
  /\ UNCHANGED <<canon, cursor, unions, next, env, rows, staged, loop, matched>>

Goto(t, place) == pc' = [pc EXCEPT ![t] = place]
Got(t, id) == mine' = [mine EXCEPT ![t].id = id]

\* The container is there, or the thread takes a fresh id for it.  It enters to_container
\* before the container enters to_id, where other threads find it.
FindContainer(t) ==
  /\ pc[t] = "find"
  /\ \/ /\ mine[t].set \in DOMAIN toId
        /\ Got(t, toId[mine[t].set])
        /\ Goto(t, "set")
        /\ UNCHANGED <<next, toContainer>>
     \/ /\ mine[t].set \notin DOMAIN toId
        /\ next <= MaxId
        /\ next' = next + 1
        /\ Got(t, next)
        /\ toContainer' = With(toContainer, next, mine[t].set)
        /\ Goto(t, "enter")
  /\ UNCHANGED <<canon, cursor, unions, toId, valIndex, rows, staged, loop, matched, made>>

\* Mutant: whoever comes last wins.
EnterOverwrites(t) ==
  /\ pc[t] = "enter"
  /\ toId' = With(toId, mine[t].set, mine[t].id)
  /\ Goto(t, "index")
  /\ UNCHANGED <<canon, cursor, unions, next, toContainer, valIndex, rows, staged, mine, loop,
                 matched, made>>

\* The entry of to_id, under its shard's lock.
Enter(t) ==
  /\ pc[t] = "enter"
  /\ \/ /\ mine[t].set \notin DOMAIN toId
        /\ toId' = With(toId, mine[t].set, mine[t].id)
        /\ Goto(t, "index")
     \/ /\ mine[t].set \in DOMAIN toId
        /\ Goto(t, "lost")
        /\ UNCHANGED toId
  /\ UNCHANGED <<canon, cursor, unions, next, toContainer, valIndex, rows, staged, mine, loop,
                 matched, made>>

Index(id, set, index) == [v \in Ids |-> IF v \in set THEN index[v] \cup {id} ELSE index[v]]

AddToIndex(t) ==
  /\ pc[t] = "index"
  /\ valIndex' = Index(mine[t].id, mine[t].set, valIndex)
  /\ Goto(t, "set")
  /\ UNCHANGED <<canon, cursor, unions, next, toId, toContainer, rows, staged, mine, loop,
                 matched, made>>

\* Another thread was first: its id is the answer, and the one taken is given up.
Lost(t) ==
  /\ pc[t] = "lost"
  /\ Got(t, toId[mine[t].set])
  /\ toContainer' = Restrict(toContainer, DOMAIN toContainer \ {mine[t].id})
  /\ Goto(t, "set")
  /\ UNCHANGED <<canon, cursor, unions, next, toId, valIndex, rows, staged, loop, matched, made>>

\* The rule stages its row.
SetRow(t) ==
  /\ pc[t] = "set"
  /\ staged' = staged \cup {[key |-> mine[t].key, val |-> mine[t].id]}
  /\ mine' = [mine EXCEPT ![t] = Idle]
  /\ Goto(t, "idle")
  /\ UNCHANGED <<canon, cursor, unions, next, env, rows, loop, matched, made>>

Intern(t) == CallIntern(t) \/ FindContainer(t) \/ Enter(t) \/ AddToIndex(t) \/ Lost(t) \/ SetRow(t)

\* The unions that an iteration may make: rules unite ids of ordinary sorts only.
NewUnions == {u \in SUBSET {p \in (Elems \ Displaced) \X (Elems \ Displaced) : p[1] < p[2]} :
                Cardinality(u) + Cardinality(Displaced \cap Elems) <= MaxUnions}

\* The iteration ends, with its unions staged.  What it has matched is no longer new.
EndRules ==
  /\ phase = "rules"
  /\ \A t \in Threads : pc[t] = "idle"
  /\ unions' \in NewUnions
  /\ unions' # {} \/ staged # {}
  /\ matched' = [k \in DOMAIN rows |-> Meaning(rows[k].val)]
  /\ rows' = [k \in DOMAIN rows |-> [rows[k] EXCEPT !.new = FALSE]]
  /\ phase' = "merge"
  /\ UNCHANGED <<canon, cursor, next, env, staged, pc, mine, queue, summary, made>>

-----------------------------------------------------------------------------
(* merge_all *)

\* Union-finds by their promise: the classes grow together along the pairs, and each id stands for
\* itself or a lesser one.  The sets of ends are those that no pair leads out of.
Join(c, pairs) ==
  LET ends == UNION {{c[p[1]], c[p[2]]} : p \in pairs}
      whole == {S \in SUBSET ends : \A p \in pairs : c[p[1]] \in S <=> c[p[2]] \in S}
  IN  [v \in Ids |-> Min({u \in ends \cup {c[v]} : \A S \in whole : u \in S <=> c[v] \in S})]

MergeUnions ==
  /\ phase \in {"merge", "merge tables"}
  /\ unions # {}
  /\ canon' = Join(canon, unions)
  /\ unions' = {}
  /\ summary' = [summary EXCEPT !.rows = @ \/ canon' # canon]
  /\ UNCHANGED <<cursor, next, env, rows, staged, pc, mine, phase, queue, matched, made>>

\* A row whose key has one already: :no-merge (AssertEq) keeps the old value, and panics if
\* the two differ (NoFalseClash is about when).
MergeRow ==
  /\ phase \in {"merge", "merge tables"}
  /\ \E row \in staged :
       /\ staged' = staged \ {row}
       /\ \/ /\ row.key \in DOMAIN rows
             /\ UNCHANGED <<rows, summary>>
          \/ /\ row.key \notin DOMAIN rows
             /\ rows' = With(rows, row.key, [val |-> row.val, new |-> TRUE])
             /\ summary' = [summary EXCEPT !.rows = TRUE]
  /\ UNCHANGED <<canon, cursor, unions, next, env, pc, mine, phase, queue, matched, made>>

Merged == unions = {} /\ staged = {}

\* No rebuild is needed when the union-find has not grown.
MergeDone ==
  /\ phase = "merge"
  /\ Merged
  /\ phase' = IF canon = [i \in Ids |-> i] \/ cursor = Displaced THEN "rules" ELSE "containers"
  /\ summary' = NoSummary
  /\ UNCHANGED <<canon, cursor, unions, next, env, rows, staged, pc, mine, queue, matched, made>>

-----------------------------------------------------------------------------
(* rebuild_containers *)

Canonical(set) == {canon[v] : v \in set}
Drop(f, keys) == Restrict(f, DOMAIN f \ keys)

\* apply_rebuild_nonincremental: entries whose container changes are taken out, to be put
\* back one by one; one that only has a new id keeps its place.
ScanAll ==
  /\ phase = "containers"
  /\ cursor' = Displaced
  /\ LET moved == {c \in DOMAIN toId : Canonical(c) # c}
         renamed == {c \in DOMAIN toId \ moved : canon[toId[c]] # toId[c]}
         kept == Drop(toContainer, {toId[c] : c \in moved \cup renamed})
     IN  /\ queue' = {[set |-> Canonical(c), old |-> toId[c], id |-> canon[toId[c]]] : c \in moved}
         /\ toId' = [c \in DOMAIN toId \ moved |-> canon[toId[c]]]
         /\ toContainer' = [i \in {canon[toId[c]] : c \in renamed} \cup DOMAIN kept |->
                              IF \E c \in renamed : canon[toId[c]] = i
                              THEN CHOOSE c \in renamed : canon[toId[c]] = i ELSE kept[i]]
         /\ summary' = [summary EXCEPT !.changed = moved \cup renamed # {}]
  /\ phase' = "reinsert"
  /\ UNCHANGED <<canon, unions, next, valIndex, rows, staged, pc, mine, matched, made>>

\* Mutant: the containers are found by their own ids only.
FoundNot(v) == {v}

\* The ids to rebuild for a displaced id: itself and those of the containers that hold it.
Found(v) == {v} \cup valIndex[v]

\* apply_rebuild_incremental: the containers that mention an id displaced since the cursor.
\* Each is taken out when its turn comes; queue holds their ids until then.
ScanRecent ==
  /\ phase = "containers"
  /\ cursor' = Displaced
  /\ queue' = {[set |-> {}, old |-> i, id |-> canon[i]] :
                 i \in {i \in UNION {Found(v) : v \in Displaced \ cursor} : Resolves(i)}}
  /\ phase' = "reinsert"
  /\ UNCHANGED <<canon, unions, next, env, rows, staged, pc, mine, summary, matched, made>>

\* insert_owned: the smaller id stays, and the two are united.
InsertOwned(set, id, ids, containers, index) ==
  LET old == ids[set]
      low == Min({old, id})
  IN  IF set \notin DOMAIN ids
      THEN [ids |-> With(ids, set, id), containers |-> With(containers, id, set),
            index |-> Index(id, set, index), id |-> id, unions |-> {}]
      ELSE [ids |-> With(ids, set, low),
            containers |-> IF low = old THEN containers
                           ELSE With(Drop(containers, {old}), low, set),
            index |-> IF low = old THEN index
                      ELSE [v \in Ids |-> IF v \in set THEN (index[v] \ {old}) \cup {low}
                                                       ELSE index[v]],
            id |-> low, unions |-> IF old = id THEN {} ELSE {<<old, id>>}]

\* Mutant: only containers that stay alone are noted.
DirtyNever(entry, actual, changed) == {}

\* note_dirty_id: the contents changed and the id did not.
Dirty(entry, actual, changed) ==
  IF changed /\ entry.id = entry.old /\ actual = entry.old THEN {entry.old} ELSE {}

Reinsert ==
  /\ phase = "reinsert"
  /\ \E entry \in queue :
       LET inPlace == entry.set = {}        \* incremental: the entry is still in the maps
           before == IF inPlace THEN Contents(entry.old) ELSE {}
           set == IF inPlace THEN Canonical(before) ELSE entry.set
           changed == ~inPlace \/ set # before
           ids == IF inPlace THEN Drop(toId, {before}) ELSE toId
           containers == IF inPlace /\ entry.id # entry.old
                         THEN Drop(toContainer, {entry.old}) ELSE toContainer
           res == InsertOwned(set, entry.id, ids, containers, valIndex)
       IN  /\ queue' = queue \ {entry}
           /\ IF inPlace /\ ~Resolves(entry.old)
              THEN UNCHANGED <<env, unions, summary>>
              ELSE /\ toId' = res.ids /\ toContainer' = res.containers /\ valIndex' = res.index
                   /\ unions' = unions \cup res.unions
                   /\ summary' = [summary EXCEPT
                        !.changed = @ \/ changed \/ entry.id # entry.old,
                        !.dirty = @ \cup Dirty(entry, res.id, changed)]
  /\ UNCHANGED <<canon, cursor, next, rows, staged, pc, mine, phase, matched, made>>

\* expand_dirty_id_closure, for the two levels there are.
Around(ids) == LET once == ids \cup UNION {valIndex[i] : i \in ids}
               IN  once \cup UNION {valIndex[i] : i \in once}

ContainersDone ==
  /\ phase = "reinsert"
  /\ queue = {}
  /\ summary' = [summary EXCEPT !.dirty = Around(@)]
  /\ phase' = "tables"
  /\ UNCHANGED <<canon, cursor, unions, next, env, rows, staged, pc, mine, queue, matched, made>>

-----------------------------------------------------------------------------
(* The rest of a round *)

\* apply_rebuild: rows that are not canonical are removed and staged again.
RebuildRows ==
  /\ phase = "tables"
  /\ LET moved == {k \in DOMAIN rows : canon[k] # k \/ canon[rows[k].val] # rows[k].val}
     IN  /\ staged' = {[key |-> canon[k], val |-> canon[rows[k].val]] : k \in moved}
         /\ rows' = Drop(rows, moved)
  /\ phase' = "merge tables"
  /\ UNCHANGED <<canon, cursor, unions, next, env, pc, mine, queue, summary, matched, made>>

\* refresh_rows_for_values, and the end of the round.
EndRound ==
  /\ phase = "merge tables"
  /\ Merged
  /\ LET dirty == {k \in DOMAIN rows : rows[k].val \in summary.dirty}
     IN  /\ rows' = [k \in DOMAIN rows |-> [rows[k] EXCEPT !.new = @ \/ k \in dirty]]
         /\ phase' = IF summary.changed \/ summary.rows \/ dirty # {} THEN "containers" ELSE "rules"
  /\ summary' = NoSummary
  /\ UNCHANGED <<canon, cursor, unions, next, env, staged, pc, mine, queue, matched, made>>

Next ==
  \/ EndRules
  \/ \E t \in Threads : Intern(t)
  \/ MergeUnions \/ MergeRow \/ MergeDone
  \/ ScanAll \/ ScanRecent \/ Reinsert \/ ContainersDone
  \/ RebuildRows \/ EndRound

Spec == Init /\ [][Next]_vars

Symmetry == Permutations(Threads)

-----------------------------------------------------------------------------
(* Properties *)

\* Interning under races: a thread that has its answer has the id every other thread gets
\* for that container, the id leads back to the container, and no two share one.
InternedRight ==
  /\ \A t \in Threads : pc[t] = "set" => Holds(mine[t].id, mine[t].set) /\ Resolves(mine[t].id)
  /\ phase = "rules" => \A c \in DOMAIN toId : Resolves(toId[c]) /\ toContainer[toId[c]] = c

\* The comment on val_index, the "set of ids of containers that contain that value": an
\* incremental rebuild finds containers by nothing else.
IndexCovers ==
  \A c \in DOMAIN toId : \A v \in c :
    toId[c] \in valIndex[v] \/ \E t \in Threads : pc[t] = "index" /\ mine[t].set = c

\* When rules run, no container and no row mentions a displaced id, whichever paths the
\* rounds took, and every row's container can be read.
AllCanonical ==
  phase = "rules" =>
    /\ \A c \in DOMAIN toId : Canonical(c) = c /\ canon[toId[c]] = toId[c]
    /\ \A k \in DOMAIN rows : canon[k] = k /\ Resolves(rows[k].val)

\* Seminaive evaluation matches only new rows: a row that is not new means what it meant when
\* it was last matched, though containers under it may have changed in place.
OldRowsMeanTheSame ==
  phase = "rules" => \A k \in DOMAIN rows :
    ~rows[k].new => k \in DOMAIN matched /\ matched[k] = Meaning(rows[k].val)

\* The comment on the order of the rebuild loop: containers are rebuilt first so that two
\* values which become equal in this round do not meet as different ids under one key.
NoFalseClash ==
  LET known == Join(canon, unions)
  IN  \A row \in staged :
        row.key \in DOMAIN rows /\ rows[row.key].val # row.val
          => known[rows[row.key].val] # known[row.val]

\* Containers are known by one id each, and the index by which they are found is complete.
ContainersKnown == InternedRight /\ IndexCovers
=============================================================================
