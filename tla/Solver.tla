------------------------------- MODULE Solver -------------------------------
(***************************************************************************)
(* installability/solver.py: solve_groups puts the items of a run into     *)
(* groups that seem to have to migrate together, and the groups into an    *)
(* order.  It works on the universe of UniverseBuilder: what each item     *)
(* adds and removes gives a relation on items, whose strongly connected    *)
(* components are found by an iterative variant of Tarjan's algorithm,     *)
(* merged, and emitted from a queue.                                       *)
(***************************************************************************)
EXTENDS UniverseBuilder, SequencesExt

CONSTANTS
  Items,  \* the items of the run, in the order of the dictionary
  Rank    \* the order of their names

ASSUME ItemsAssumption ==
  /\ Items \in Seq(Range(Items)) /\ IsInjective(Items)
  /\ Rank \in [Range(Items) -> Nat]
  /\ \A x, y \in Range(Items) : Rank[x] = Rank[y] => x = y

\* An archive also says what the tester has of the target suite, and which
\* packages each item adds to it and removes from it.
ASSUME GroupsAssumption ==
  \A a \in Archives : /\ a.target \subseteq Package
                      /\ a.adds \in [Range(Items) -> SUBSET Package]
                      /\ a.rms \in [Range(Items) -> SUBSET Package]

VARIABLES
  solving,     \* "waiting", "scc", "merge", "schedule", "emit", "done"
  order,       \* for each item, or component, those it comes before and after
  low,         \* of compute_scc: the number of each node met
  node_stack,
  work_stack,  \* of records: the node, its place on node_stack, its first number
  comps,       \* the set of the components found, each a sequence
  queue,       \* components to look at
  emitted,     \* of the queue: representatives of what is emitted
  result       \* the groups, in order

solver_vars == <<solving, order, low, node_stack, work_stack, comps, queue, emitted, result>>
vars == <<builder_vars, solver_vars>>

Item == Range(Items)

(***************************************************************************)
(* _compute_group_order: pairs of items of which the first comes before.   *)
(***************************************************************************)

Adds(x) == archive.adds[x]
Rms(x) == archive.rms[x]
GoingIn == UNION {Adds(x) : x \in Item}
GoingOut == UNION {Rms(x) : x \in Item}
PTable == GoingIn \cup GoingOut
ItemOf(p) ==
  LET i == CHOOSE i \in DOMAIN Items :
             /\ p \in Adds(Items[i]) \cup Rms(Items[i])
             /\ \A j \in i + 1 .. Len(Items) : p \notin Adds(Items[j]) \cup Rms(Items[j])
  IN  Items[i]

\* Mutant: what is about to leave counts.
SatisfiedForNow(clause) == clause \cap archive.target # {}

Satisfied(clause) == (clause \ GoingOut) \cap archive.target # {}
Negative(P) == UNION {relations[p].negative_dependencies : p \in P}

\* An item that removes a conflict with another comes before it.
ConflictOrder(x) ==
  {<<x, ItemOf(p)>> : p \in (Negative(Rms(x)) \ Negative(Adds(x))) \cap PTable}

\* What needs a package that is removed moves first, if it moves.
RemovalOrder(x) ==
  {<<ItemOf(r), x>> : r \in {r \in (UNION {relations[p].reverse_dependencies : p \in Rms(x)}) \cap PTable :
                               \E c \in relations[r].dependencies : ~Satisfied(c)}}

\* What satisfies the clause comes first, what removes it later; an item that
\* does both is left out.
Adders(clause) == {ItemOf(p) : p \in clause \cap GoingIn}
Removers(clause) == {ItemOf(p) : p \in clause \cap (GoingOut \ GoingIn)}
DependencyOrder(x) ==
  UNION {   {<<y, x>> : y \in Adders(c) \ Removers(c)}
       \cup {<<x, y>> : y \in Removers(c) \ Adders(c)} :
     c \in {c \in UNION {relations[p].dependencies : p \in Adds(x)} : ~Satisfied(c)}}

GroupOrder ==
  {e \in (Item \X Item)
            \cap (UNION {ConflictOrder(x) \cup RemovalOrder(x) \cup DependencyOrder(x) : x \in Item}) :
     e[1] # e[2]}

ComputeGroupOrder ==
  /\ building = "built" /\ solving = "waiting"
  /\ solving' = "scc"
  /\ LET edges == GroupOrder
     IN  order' = [x \in Item |-> [before |-> {e[2] : e \in {e \in edges : e[1] = x}},
                                  after  |-> {e[1] : e \in {e \in edges : e[2] = x}}]]
  /\ UNCHANGED <<low, node_stack, work_stack, comps, queue, emitted, result>>

(***************************************************************************)
(* compute_scc.                                                            *)
(***************************************************************************)

Seen == DOMAIN low
Isolated(x) == order[x].before = {} \/ order[x].after = {}
OutOfReach == Cardinality(Item) + 1
Numbered(xs, n) == [x \in Seen \cup xs |-> IF x \in xs THEN n ELSE low[x]]

\* _handle_succ goes through the successors from the last name to the first,
\* up to one that is to be visited: isolated ones are components of their own.
MustVisit(x) == x \notin Seen /\ ~Isolated(x)
ToVisit(x) == {y \in order[x].before : MustVisit(y)}
Passed(x) == {y \in order[x].before : \A z \in ToVisit(x) : Rank[z] < Rank[y]}
Fresh(x) == Passed(x) \ Seen
Singles(xs) == {<<x>> : x \in xs}

\* The first node of the dictionary that has not been met.
StartNode ==
  /\ solving = "scc" /\ work_stack = <<>>
  /\ \E i \in DOMAIN Items :
       LET x == Items[i]
       IN  /\ x \notin Seen /\ \A j \in 1..i-1 : Items[j] \in Seen
           /\ IF Isolated(x)
              THEN /\ comps' = comps \cup {<<x>>}
                   /\ low' = Numbered({x}, OutOfReach)
                   /\ UNCHANGED <<node_stack, work_stack>>
              ELSE /\ low' = Numbered({x}, Cardinality(Seen))
                   /\ work_stack' = <<[node |-> x, idx |-> Len(node_stack), num |-> Cardinality(Seen)]>>
                   /\ node_stack' = Append(node_stack, x)
                   /\ UNCHANGED comps
  /\ UNCHANGED <<solving, order, queue, emitted, result>>

Work == work_stack[Len(work_stack)]

\* Mutant: a node is not told how far back its successors reach.
LowAfterUntold(x) == Numbered(Fresh(x), OutOfReach)

\* The numbers after a look at the successors that need no visit.
Lowest(S) == CHOOSE n \in S : \A m \in S : n <= m
LowAfter(x) ==
  [Numbered(Fresh(x), OutOfReach) EXCEPT
     ![x] = Lowest({@} \cup {low[y] : y \in Passed(x) \cap Seen})]

Visit ==
  /\ solving = "scc" /\ work_stack # <<>>
  /\ LET x == Work.node
         numbers == LowAfter(x)
         n == Cardinality(DOMAIN numbers)
     IN  \E y \in ToVisit(x) :
           /\ \A z \in ToVisit(x) : Rank[z] <= Rank[y]
           /\ low' = [z \in DOMAIN numbers \cup {y} |-> IF z = y THEN n ELSE numbers[z]]
           /\ work_stack' = Append(work_stack, [node |-> y, idx |-> Len(node_stack), num |-> n])
           /\ node_stack' = Append(node_stack, y)
           /\ comps' = comps \cup Singles(Fresh(x))
  /\ UNCHANGED <<solving, order, queue, emitted, result>>

\* A node out of successors hands its number to its parent, or is the first of
\* a component: what is above it on the stack.
Leave ==
  /\ solving = "scc" /\ work_stack # <<>>
  /\ LET x == Work.node
         numbers == LowAfter(x)
         rest == Front(work_stack)
         parent == Last(rest).node
         above == SubSeq(node_stack, Work.idx + 1, Len(node_stack))
     IN  /\ ToVisit(x) = {}
         /\ work_stack' = rest
         /\ IF rest # <<>> /\ (numbers[x] <= numbers[parent] \/ numbers[x] # Work.num)
            THEN /\ low' = IF numbers[x] <= numbers[parent]
                           THEN [numbers EXCEPT ![parent] = numbers[x]] ELSE numbers
                 /\ comps' = comps \cup Singles(Fresh(x))
                 /\ UNCHANGED node_stack
            ELSE /\ low' = [z \in DOMAIN numbers |->
                              IF z \in ToSet(above) THEN OutOfReach ELSE numbers[z]]
                 /\ comps' = comps \cup Singles(Fresh(x)) \cup {above}
                 /\ node_stack' = SubSeq(node_stack, 1, Work.idx)
  /\ UNCHANGED <<solving, order, queue, emitted, result>>

\* assert not node_stack
FinishSCC ==
  /\ solving = "scc" /\ work_stack = <<>> /\ Seen = Item
  /\ solving' = IF node_stack = <<>> THEN "merge" ELSE "asserts"
  /\ UNCHANGED <<order, low, node_stack, work_stack, comps, queue, emitted, result>>

(***************************************************************************)
(* _merge_items_into_components: the first of a component stands for it.   *)
(***************************************************************************)

Heads == {Head(com) : com \in comps}
ComponentOf(h) == CHOOSE com \in comps : Head(com) = h
Merged(x) == CHOOSE h \in Heads : x \in ToSet(ComponentOf(h))

OthersMerged(h, S) == {Merged(x) : x \in S} \ {h}

Merge ==
  /\ solving = "merge"
  /\ solving' = "schedule"
  /\ LET node(h) == [before |-> OthersMerged(h, UNION {order[x].before : x \in ToSet(ComponentOf(h))}),
                     after  |-> OthersMerged(h, UNION {order[x].after : x \in ToSet(ComponentOf(h))})]
     IN  order' = [h \in Heads |->
                     [before |-> node(h).before \cup {g \in Heads : h \in node(g).after},
                      after  |-> node(h).after \cup {g \in Heads : h \in node(g).before}]]
  /\ UNCHANGED <<low, node_stack, work_stack, comps, queue, emitted, result>>

(***************************************************************************)
(* The rest of solve_groups.  What is put into the queue is sorted by the  *)
(* lengths of the names only: in any order here.                           *)
(***************************************************************************)

Orders(S) == SetToSeqs(S)

Schedule ==
  /\ solving = "schedule"
  /\ solving' = "emit"
  /\ queue' \in Orders({h \in DOMAIN order : order[h].after = {}})
  /\ UNCHANGED <<order, low, node_stack, work_stack, comps, emitted, result>>

IsReady(h) == h \notin emitted /\ order[h].after \subseteq emitted

\* Mutant: it is put at the end.
DroppedToEnd(h) == Append(Tail(queue), h)

\* A component that is not ready is dropped: the last one it waits for puts it
\* into the queue again.
Dropped(h) == Tail(queue)

Emit ==
  /\ solving = "emit" /\ queue # <<>>
  /\ LET h == Head(queue)
     IN  IF IsReady(h)
         THEN /\ emitted' = emitted \cup {h}
              /\ result' = Append(result, ComponentOf(h))
              /\ \E later \in Orders(order[h].before \ emitted') : queue' = Tail(queue) \o later
         ELSE queue' = Dropped(h) /\ UNCHANGED <<emitted, result>>
  /\ UNCHANGED <<solving, order, low, node_stack, work_stack, comps>>

Finish ==
  /\ solving = "emit" /\ queue = <<>>
  /\ solving' = "done"
  /\ UNCHANGED <<order, low, node_stack, work_stack, comps, queue, emitted, result>>

Init ==
  /\ BuilderInit
  /\ solving = "waiting"
  /\ order = <<>> /\ low = <<>> /\ node_stack = <<>> /\ work_stack = <<>>
  /\ comps = {} /\ queue = <<>> /\ emitted = {} /\ result = <<>>

Solve == \/ ComputeGroupOrder \/ StartNode \/ Visit \/ Leave \/ FinishSCC
         \/ Merge \/ Schedule \/ Emit \/ Finish

Next == \/ Build /\ UNCHANGED solver_vars
        \/ Solve /\ UNCHANGED builder_vars

\* One thread goes through it all.
Spec == Init /\ [][Next]_vars /\ WF_vars(Next)

-----------------------------------------------------------------------------
(***************************************************************************)
(* Properties.                                                             *)
(***************************************************************************)

\* Those that come before others, directly or by way of others: every set that
\* holds the first and all that comes after its members holds the second.
ComesBefore ==
  LET edges == GroupOrder
      closed == {S \in SUBSET Item : \A e \in edges : e[1] \in S => e[2] \in S}
  IN  {e \in Item \X Item : \A S \in closed : e[1] \in S => e[2] \in S}

Place(x) == CHOOSE i \in DOMAIN result : x \in ToSet(result[i])

\* "Each one of those components will become an easy hint": the groups are the
\* strongly connected components of the order, every item is in one of them
\* once, and no item migrates after one that it comes before.
GroupsAreRight ==
  solving = "done" =>
    /\ \A x \in Item : Cardinality({i \in DOMAIN result : x \in ToSet(result[i])}) = 1
    /\ \A i \in DOMAIN result : IsInjective(result[i]) /\ result[i] # <<>>
    /\ LET before == ComesBefore IN
         \A x, y \in Item :
           /\ Place(x) = Place(y) <=> <<x, y>> \in before /\ <<y, x>> \in before
           /\ <<x, y>> \in before => Place(x) <= Place(y)

\* The target suite after the first groups have migrated.
Moved(i) == UNION {ToSet(result[j]) : j \in 1..i}
SuiteAfter(i) ==
  (archive.target \ UNION {Rms(x) : x \in Moved(i)}) \cup UNION {Adds(x) : x \in Moved(i)}

Depends(p) == relations[p].dependencies

\* What the order is for: if all groups migrate one after the other, no package
\* of an item is without something it needs in the meantime.  A new one has at
\* once what it will have in the end, an old one keeps until it leaves what it
\* had, and no new one meets an old one it conflicts with, unless it is to
\* meet such a package in the end.
NothingMissingInBetween ==
  solving = "done" =>
    \A i \in DOMAIN result : LET now == SuiteAfter(i) IN
      \A x \in Item :
        IF x \in Moved(i)
        THEN /\ \A p \in Adds(x) : \A c \in Depends(p) :
                  c \cap SuiteAfter(Len(result)) # {} => c \cap now # {}
             /\ \A p \in Adds(x), y \in Item \ Moved(i) :
                  relations[p].negative_dependencies \cap Rms(y) # {} => p \in Negative(Adds(y))
        ELSE \A p \in Rms(x) : \A c \in Depends(p) :
               c \cap archive.target # {} => c \cap now # {}

\* Neither the search for components nor the queue goes on for ever, nor does
\* the assertion in between fail.
Solves == <>(solving = "done")

=============================================================================
