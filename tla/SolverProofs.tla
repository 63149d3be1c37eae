----------------------------- MODULE SolverProofs -----------------------------
(***************************************************************************)
(* Theorems about UniverseBuilder and Solver, for every archive and any    *)
(* number of items: first the universe allows what the archive allows,     *)
(* then the solver orders the groups, which are the strongly connected     *)
(* components of the order of items, and no package misses anything while  *)
(* one group after the other migrates.                                     *)
(***************************************************************************)
EXTENDS Solver, Induction, SequenceTheorems

\* Broken by themselves.
Hopeless == {p \in Package : {} \in archive.depends[p]}

\* Conflicts both ways.
Conflicts(p) == archive.conflicts[p] \cup {r \in Package : p \in archive.conflicts[r]}

ReverseTable(P) == [p \in P |-> ReverseRelations(archive, p)]

\* A table that has lost nothing but broken packages.
Reduced ==
  /\ \A p \in broken : package_table[p] = [deps |-> {{}}, con |-> {}]
  /\ \A p \in Package \ broken :
       /\ Conflicts(p) \ broken \subseteq package_table[p].con
       /\ package_table[p].con \subseteq Conflicts(p)
       /\ \A c \in archive.depends[p] : c \in package_table[p].deps \/ c \ broken \in package_table[p].deps
       /\ \A d \in package_table[p].deps : \E c \in archive.depends[p] : d = c \/ d = c \ broken

TablesOK ==
  /\ archive \in Archives
  /\ broken = Hopeless
  /\ building = "read" =>
       /\ package_table = PackageTable(archive)
       /\ reverse_package_table = ReverseTable(Referenced(archive))
       /\ check = broken
  /\ building = "merged" =>
       /\ package_table = [p \in Package |-> [deps |-> archive.depends[p], con |-> Conflicts(p)]]
       /\ reverse_package_table = ReverseTable(Referenced(archive))
       /\ check = broken
  /\ building = "expanded" =>
       /\ package_table = [p \in Package |-> [deps |-> archive.depends[p], con |-> Conflicts(p)]]
       /\ reverse_package_table = ReverseTable(Referenced(archive))
  /\ building = "reduced" =>
       /\ Reduced
       /\ reverse_package_table = ReverseTable(Referenced(archive) \ broken)

-----------------------------------------------------------------------------
\* What the archive is.
LEMMA ArchiveType ==
  ASSUME archive \in Archives
  PROVE  /\ archive.depends \in [Package -> SUBSET SUBSET Package]
         /\ archive.conflicts \in [Package -> SUBSET Package]
         /\ \A p \in Package : p \notin archive.conflicts[p]
BY ArchivesAssumption

LEMMA StepTables == TablesOK /\ [Build]_builder_vars => TablesOK'
<1> SUFFICES ASSUME TablesOK, [Build]_builder_vars PROVE TablesOK'
  OBVIOUS
<1>1. archive' = archive
  BY DEF Build, MergeConflicts, ExpandBroken, Reduce, BuildRelations, builder_vars
<1>2. /\ Hopeless' = Hopeless
      /\ \A p : Conflicts(p)' = Conflicts(p)
      /\ \A P : ReverseTable(P)' = ReverseTable(P)
  BY <1>1 DEF Hopeless, Conflicts, ReverseTable
<1>3. CASE MergeConflicts
  <2>1. /\ building = "read" /\ building' = "merged"
        /\ UNCHANGED <<reverse_package_table, broken, check>>
        /\ package_table' =
             [p \in Package |->
                IF p \in DOMAIN reverse_package_table
                THEN [package_table[p] EXCEPT !.con = @ \cup reverse_package_table[p].rcon]
                ELSE package_table[p]]
    BY <1>3 DEF MergeConflicts
  <2>2. package_table = PackageTable(archive) /\ reverse_package_table = ReverseTable(Referenced(archive))
    BY <2>1 DEF TablesOK
  <2>3. ASSUME NEW p \in Package
        PROVE  package_table'[p] = [deps |-> archive.depends[p], con |-> Conflicts(p)]
    <3>1. package_table[p] = [deps |-> archive.depends[p], con |-> archive.conflicts[p]]
      BY <2>2 DEF PackageTable
    <3>2. CASE p \in Referenced(archive)
      <4>1. reverse_package_table[p].rcon = {r \in Package : p \in archive.conflicts[r]}
        BY <2>2, <3>2 DEF ReverseTable, ReverseRelations
      <4>2. p \in DOMAIN reverse_package_table
        BY <2>2, <3>2 DEF ReverseTable
      <4>3. package_table'[p] =
              [package_table[p] EXCEPT !.con = @ \cup reverse_package_table[p].rcon]
        BY <2>1, <4>2
      <4>4. \A D, C, R : [[deps |-> D, con |-> C] EXCEPT !.con = @ \cup R] = [deps |-> D, con |-> C \cup R]
        OBVIOUS
      <4>5. package_table'[p] =
              [[deps |-> archive.depends[p], con |-> archive.conflicts[p]]
                 EXCEPT !.con = @ \cup {r \in Package : p \in archive.conflicts[r]}]
        BY <3>1, <4>1, <4>3
      <4> QED  BY <4>4, <4>5 DEF Conflicts
    <3>3. CASE p \notin Referenced(archive)
      <4>1. p \notin DOMAIN reverse_package_table
        BY <2>2, <3>3 DEF ReverseTable
      <4>2. Conflicts(p) = archive.conflicts[p]
        BY <3>3 DEF Conflicts, Referenced
      <4> QED  BY <2>1, <3>1, <4>1, <4>2
    <3> QED  BY <3>2, <3>3
  <2>4. package_table' = [p \in Package |-> [deps |-> archive.depends[p], con |-> Conflicts(p)]]
    BY <2>1, <2>3
  <2> QED  BY <1>1, <1>2, <2>1, <2>2, <2>4 DEF TablesOK
<1>4. CASE ExpandBroken
  <2>1. building = "merged" /\ check \ broken = {}
    BY <1>4 DEF ExpandBroken, TablesOK
  <2> QED  BY <1>1, <1>2, <1>4, <2>1 DEF ExpandBroken, TablesOK
<1>5. CASE Reduce
  <2> DEFINE seen == (UNION {Rdeps(b) : b \in broken \cap DOMAIN reverse_package_table}) \ broken
  <2>1. /\ building = "expanded" /\ building' = "reduced" /\ broken' = broken
        /\ package_table' =
             [p \in Package |->
                IF p \in broken THEN [deps |-> {{}}, con |-> {}]
                ELSE IF p \in seen
                THEN [deps |-> {c \ broken : c \in package_table[p].deps},
                      con  |-> package_table[p].con \ broken]
                ELSE package_table[p]]
        /\ reverse_package_table' =
             [p \in DOMAIN reverse_package_table \ broken |-> reverse_package_table[p]]
    BY <1>5 DEF Reduce
  <2>2. /\ package_table = [p \in Package |-> [deps |-> archive.depends[p], con |-> Conflicts(p)]]
        /\ reverse_package_table = ReverseTable(Referenced(archive))
    BY <2>1 DEF TablesOK
  <2> HIDE DEF seen
  <2>3. reverse_package_table' = ReverseTable(Referenced(archive) \ broken)
    BY <2>1, <2>2 DEF ReverseTable
  <2>4. \A p \in broken : package_table'[p] = [deps |-> {{}}, con |-> {}]
    BY <2>1 DEF TablesOK, Hopeless
  <2>5. ASSUME NEW p \in Package \ broken
        PROVE  /\ Conflicts(p) \ broken \subseteq package_table'[p].con
               /\ package_table'[p].con \subseteq Conflicts(p)
               /\ \A c \in archive.depends[p] :
                    c \in package_table'[p].deps \/ c \ broken \in package_table'[p].deps
               /\ \A d \in package_table'[p].deps :
                    \E c \in archive.depends[p] : d = c \/ d = c \ broken
    <3>1. package_table[p] = [deps |-> archive.depends[p], con |-> Conflicts(p)]
      BY <2>2
    <3>2. CASE p \in seen
      <4>1. package_table'[p] = [deps |-> {c \ broken : c \in archive.depends[p]},
                                 con  |-> Conflicts(p) \ broken]
        <5>1. package_table'[p] = [deps |-> {c \ broken : c \in package_table[p].deps},
                                   con  |-> package_table[p].con \ broken]
          BY <2>1, <3>2
        <5>2. package_table[p].deps = archive.depends[p] /\ package_table[p].con = Conflicts(p)
          BY <3>1
        <5> QED  BY <5>1, <5>2
      <4>2. /\ package_table'[p].deps = {c \ broken : c \in archive.depends[p]}
            /\ package_table'[p].con = Conflicts(p) \ broken
        BY <4>1
      <4>3. \A c \in archive.depends[p] : c \ broken \in package_table'[p].deps
        BY <4>2
      <4> QED  BY <4>2, <4>3
    <3>3. CASE p \notin seen
      <4>1. package_table'[p] = [deps |-> archive.depends[p], con |-> Conflicts(p)]
        BY <2>1, <3>1, <3>3
      <4> QED  BY <4>1
    <3> QED  BY <3>2, <3>3
  <2>6. Reduced'
    <3>1. broken' = broken /\ archive' = archive /\ \A q : Conflicts(q)' = Conflicts(q)
      BY <1>1, <1>2, <2>1
    <3>2. \A q \in broken' : package_table'[q] = [deps |-> {{}}, con |-> {}]
      BY <2>4, <3>1
    <3>3. ASSUME NEW q \in Package \ broken'
          PROVE  /\ Conflicts(q)' \ broken' \subseteq package_table'[q].con
                 /\ package_table'[q].con \subseteq Conflicts(q)'
                 /\ \A c \in archive'.depends[q] :
                      c \in package_table'[q].deps \/ c \ broken' \in package_table'[q].deps
                 /\ \A d \in package_table'[q].deps :
                      \E c \in archive'.depends[q] : d = c \/ d = c \ broken'
      BY <2>5, <3>1
    <3> QED  BY <3>2, <3>3 DEF Reduced
  <2> QED  BY <1>1, <1>2, <2>1, <2>3, <2>6 DEF TablesOK
<1>6. CASE BuildRelations
  BY <1>1, <1>2, <1>6 DEF BuildRelations, TablesOK
<1>7. CASE UNCHANGED builder_vars
  BY <1>1, <1>2, <1>7 DEF builder_vars, TablesOK, Reduced
<1> QED  BY <1>3, <1>4, <1>5, <1>6, <1>7 DEF Build

LEMMA InitTables == BuilderInit => TablesOK
BY DEF BuilderInit, TablesOK, Hopeless, ReverseTable

-----------------------------------------------------------------------------
(***************************************************************************)
(* A built universe, in terms of the archive.                              *)
(***************************************************************************)

Built ==
  /\ archive \in Archives
  /\ broken = Hopeless
  /\ \A p \in broken : relations[p].dependencies = {{}}
  /\ \A p \in Package \ broken :
       /\ Conflicts(p) \ broken \subseteq relations[p].negative_dependencies
       /\ relations[p].negative_dependencies \subseteq Conflicts(p)
       /\ \A c \in archive.depends[p] :
            c \in relations[p].dependencies \/ c \ broken \in relations[p].dependencies
       /\ \A d \in relations[p].dependencies : \E c \in archive.depends[p] : d = c \/ d = c \ broken
  /\ \A p \in Package : \A q \in relations[p].pkg_ids \ {p} :
       /\ p \in Package \ broken /\ q \in Package \ broken
       /\ relations[q].dependencies = relations[p].dependencies
       /\ relations[q].negative_dependencies = relations[p].negative_dependencies
       /\ \A r \in Package : \A c \in archive.depends[r] : p \in c => q \in c
  /\ \A p \in Package : \A c \in archive.depends[p] : \A q \in c \ broken :
       p \in relations[q].reverse_dependencies

LEMMA BuildIsBuilt ==
  ASSUME TablesOK, BuildRelations
  PROVE  Built'
<1>1. /\ building = "reduced" /\ UNCHANGED <<archive, package_table, reverse_package_table, broken>>
      /\ relations' =
           [p \in Package |->
              [pkg_ids |-> IF p \in Needed THEN {q \in Needed : Signature(q) = Signature(p)} ELSE {p},
               dependencies          |-> package_table[p].deps,
               negative_dependencies |-> package_table[p].con,
               reverse_dependencies  |-> IF p \in Needed THEN Rdeps(p) ELSE {}]]
  BY DEF BuildRelations
<1>2. /\ archive \in Archives /\ broken = Hopeless /\ Reduced
      /\ reverse_package_table = ReverseTable(Referenced(archive) \ broken)
  BY <1>1 DEF TablesOK
<1>3. /\ archive' = archive /\ broken' = broken /\ Hopeless' = Hopeless
      /\ \A p : Conflicts(p)' = Conflicts(p)
  BY <1>1 DEF Hopeless, Conflicts
<1>4. \A p \in Package : /\ relations'[p].dependencies = package_table[p].deps
                         /\ relations'[p].negative_dependencies = package_table[p].con
  BY <1>1
<1>5. \A p \in broken' : relations'[p].dependencies = {{}}
  BY <1>2, <1>3, <1>4 DEF Reduced, Hopeless
<1>6. ASSUME NEW p \in Package \ broken'
      PROVE  /\ Conflicts(p)' \ broken' \subseteq relations'[p].negative_dependencies
             /\ relations'[p].negative_dependencies \subseteq Conflicts(p)'
             /\ \A c \in archive'.depends[p] :
                  c \in relations'[p].dependencies \/ c \ broken' \in relations'[p].dependencies
             /\ \A d \in relations'[p].dependencies :
                  \E c \in archive'.depends[p] : d = c \/ d = c \ broken'
  BY <1>2, <1>3, <1>4 DEF Reduced
<1>7. Needed \subseteq Referenced(archive) \ broken
  BY <1>2 DEF Needed, ReverseTable
<1>8. \A p \in Referenced(archive) \ broken :
        /\ reverse_package_table[p].rdeps = Depending(archive, p)
        /\ reverse_package_table[p].rdep_relations =
             {c \in UNION {archive.depends[r] : r \in Package} : p \in c}
  BY <1>2 DEF ReverseTable, ReverseRelations
<1>9. ASSUME NEW p \in Package, NEW q \in relations'[p].pkg_ids \ {p}
      PROVE  /\ p \in Package \ broken' /\ q \in Package \ broken'
             /\ relations'[q].dependencies = relations'[p].dependencies
             /\ relations'[q].negative_dependencies = relations'[p].negative_dependencies
             /\ \A r \in Package : \A c \in archive'.depends[r] : p \in c => q \in c
  <2>1. p \in Needed /\ q \in Needed /\ Signature(q) = Signature(p)
    BY <1>1, <1>9
  <2>2. /\ package_table[q].deps = package_table[p].deps
        /\ package_table[q].con = package_table[p].con
        /\ reverse_package_table[q].rdep_relations = reverse_package_table[p].rdep_relations
    BY <2>1 DEF Signature
  <2>3. p \in Referenced(archive) \ broken /\ q \in Referenced(archive) \ broken
    BY <1>7, <2>1
  <2>4. ASSUME NEW r \in Package, NEW c \in archive.depends[r], p \in c  PROVE q \in c
    <3>1. c \in reverse_package_table[p].rdep_relations
      BY <1>8, <2>3, <2>4
    <3>2. c \in reverse_package_table[q].rdep_relations
      BY <2>2, <3>1
    <3> QED  BY <1>8, <2>3, <3>2
  <2> QED  BY <1>3, <1>4, <2>2, <2>3, <2>4 DEF Referenced
<1>10. ASSUME NEW p \in Package, NEW c \in archive.depends[p], NEW q \in c \ broken
       PROVE  p \in relations'[q].reverse_dependencies
  <2>1. q \in Package
    BY <1>2, ArchiveType
  <2>2. p \in Depending(archive, q)
    BY DEF Depending
  <2>3. q \in Referenced(archive) \ broken
    BY <2>1, <2>2 DEF Referenced
  <2>4. c \in reverse_package_table[q].rdep_relations
    BY <1>8, <2>3
  <2>5. q \in Needed
    BY <1>2, <2>3, <2>4 DEF Needed, ReverseTable
  <2> QED  BY <1>1, <1>8, <2>1, <2>2, <2>3, <2>5 DEF Rdeps
<1>11. /\ archive' \in Archives /\ broken' = Hopeless'
       /\ \A p \in Package : \A c \in archive'.depends[p] : \A q \in c \ broken' :
            p \in relations'[q].reverse_dependencies
  BY <1>2, <1>3, <1>10
<1> QED  BY <1>5, <1>6, <1>9, <1>11 DEF Built

\* Members of a set that can be installed together are not broken.
LEMMA NoneHopeless ==
  ASSUME Built, NEW S \in SUBSET Package, InArchive(S)
  PROVE  S \cap broken = {}
<1>1. ASSUME NEW p \in S, p \in broken  PROVE FALSE
  <2>1. {} \in archive.depends[p]
    BY <1>1 DEF Built, Hopeless
  <2>2. {} \cap S # {}
    BY <2>1 DEF InArchive
  <2> QED  BY <2>2
<1> QED  BY <1>1

LEMMA ArchiveInUniverse ==
  ASSUME Built, NEW S \in SUBSET Package, InArchive(S)
  PROVE  InUniverse(S)
<1>1. S \cap broken = {}
  BY NoneHopeless
<1>2. ASSUME NEW p \in S
      PROVE  /\ relations[p].negative_dependencies \cap S = {}
             /\ \A d \in relations[p].dependencies : d \cap S # {}
  <2>1. p \in Package \ broken
    BY <1>1
  <2>2. relations[p].negative_dependencies \subseteq Conflicts(p)
    BY <2>1 DEF Built
  <2>3. Conflicts(p) \cap S = {}
    BY DEF Conflicts, InArchive
  <2>4. \A d \in relations[p].dependencies : \E c \in archive.depends[p] : d = c \/ d = c \ broken
    BY <2>1 DEF Built
  <2>5. \A c \in archive.depends[p] : (c \ broken) \cap S # {}
    BY <1>1 DEF InArchive
  <2> QED  BY <2>2, <2>3, <2>4, <2>5
<1> QED  BY <1>2 DEF InUniverse

LEMMA UniverseInArchive ==
  ASSUME Built, NEW S \in SUBSET Package, InUniverse(S)
  PROVE  InArchive(S)
<1>1. S \cap broken = {}
  <2>1. ASSUME NEW p \in S, p \in broken  PROVE FALSE
    <3>1. {} \in relations[p].dependencies
      BY <2>1 DEF Built
    <3>2. {} \cap S # {}
      BY <3>1 DEF InUniverse
    <3> QED  BY <3>2
  <2> QED  BY <2>1
<1>2. ASSUME NEW p \in S
      PROVE  /\ archive.conflicts[p] \cap S = {}
             /\ \A c \in archive.depends[p] : c \cap S # {}
  <2>1. p \in Package \ broken
    BY <1>1
  <2>2. Conflicts(p) \ broken \subseteq relations[p].negative_dependencies
    BY <2>1 DEF Built
  <2>3. relations[p].negative_dependencies \cap S = {}
    BY DEF InUniverse
  <2>4. archive.conflicts[p] \cap S = {}
    BY <1>1, <2>2, <2>3 DEF Conflicts
  <2>5. \A c \in archive.depends[p] :
          c \in relations[p].dependencies \/ c \ broken \in relations[p].dependencies
    BY <2>1 DEF Built
  <2>6. \A c \in archive.depends[p] : c \cap S # {}
    BY <2>5 DEF InUniverse
  <2> QED  BY <2>4, <2>6
<1> QED  BY <1>2 DEF InArchive

\* A package of a set may be replaced by an equivalent one.
LEMMA EquivalentsSwap ==
  ASSUME Built, NEW S \in SUBSET Package, InArchive(S),
         NEW p \in S, NEW q \in relations[p].pkg_ids \ {p}
  PROVE  InArchive(Swapped(S, p, q))
<1>1. /\ p \in Package \ broken /\ q \in Package \ broken
      /\ relations[q].dependencies = relations[p].dependencies
      /\ relations[q].negative_dependencies = relations[p].negative_dependencies
      /\ \A r \in Package : \A c \in archive.depends[r] : p \in c => q \in c
  BY DEF Built
<1>2. S \cap broken = {}
  BY NoneHopeless
<1>3. CASE q \in S
  <2>1. Swapped(S, p, q) = S
    BY <1>3 DEF Swapped
  <2> QED  BY <2>1
<1>4. CASE q \notin S
  <2> DEFINE T == (S \ {p}) \cup {q}
  <2>1. Swapped(S, p, q) = T
    BY <1>4 DEF Swapped
  <2>2. Conflicts(p) \cap S = {}
    BY DEF Conflicts, InArchive
  <2>3. Conflicts(q) \ broken \subseteq Conflicts(p)
    BY <1>1 DEF Built
  <2>4. Conflicts(q) \cap (S \ {p}) = {}
    BY <1>2, <2>2, <2>3
  <2>5. ASSUME NEW r \in S \ {p}
        PROVE  /\ archive.conflicts[r] \cap T = {}
               /\ \A c \in archive.depends[r] : c \cap T # {}
    <3>1. archive.conflicts[r] \cap S = {}
      BY DEF InArchive
    <3>2. q \notin archive.conflicts[r]
      BY <1>1, <2>4 DEF Conflicts
    <3>3. \A c \in archive.depends[r] : c \cap S # {} /\ (p \in c => q \in c)
      BY <1>1 DEF InArchive
    <3> QED  BY <3>1, <3>2, <3>3
  <2>6. archive.conflicts[q] \cap T = {}
    <3>1. q \notin archive.conflicts[q]
      BY <1>1, ArchiveType DEF Built
    <3> QED  BY <2>4, <3>1 DEF Conflicts
  <2>7. ASSUME NEW c \in archive.depends[q]  PROVE c \cap T # {}
    <3>1. PICK d \in relations[p].dependencies : d \subseteq c
      <4>1. c \in relations[q].dependencies \/ c \ broken \in relations[q].dependencies
        BY <1>1 DEF Built
      <4> QED  BY <1>1, <4>1
    <3>2. d \cap S # {}
      BY ArchiveInUniverse DEF InUniverse
    <3>3. p \in c => q \in c
      BY <1>1
    <3> QED  BY <3>1, <3>2, <3>3
  <2>8. InArchive(T)
    BY <2>5, <2>6, <2>7 DEF InArchive
  <2> QED  BY <2>1, <2>8
<1> QED  BY <1>3, <1>4

LEMMA BuiltIsFaithful == Built => Faithful
<1> SUFFICES ASSUME Built, NEW S \in SUBSET Package
             PROVE  IF InArchive(S)
                    THEN /\ InUniverse(S)
                         /\ \A p \in S :
                              /\ \A q \in relations[p].pkg_ids \ {p} : InArchive(Swapped(S, p, q))
                              /\ \A c \in archive.depends[p] : \A q \in c \ broken :
                                   p \in relations[q].reverse_dependencies
                    ELSE ~InUniverse(S)
  BY DEF Faithful
<1>1. CASE InArchive(S)
  <2>1. \A p \in S : \A c \in archive.depends[p] : \A q \in c \ broken :
          p \in relations[q].reverse_dependencies
    BY DEF Built
  <2> QED  BY <1>1, <2>1, ArchiveInUniverse, EquivalentsSwap
<1>2. CASE ~InArchive(S)
  BY <1>2, UniverseInArchive
<1> QED  BY <1>1, <1>2

\* Whatever the archive, the universe that is built allows the same sets of
\* packages, equivalent packages can be exchanged in them, and reverse
\* dependencies are complete but for broken packages.
THEOREM UniverseAllowsTheSame == BuilderSpec => UniverseIsFaithful
<1>1. BuilderInit => TablesOK
  BY InitTables
<1>2. TablesOK /\ [Build]_builder_vars => TablesOK'
  BY StepTables
<1>3. TablesOK /\ [Build]_builder_vars => (building' = "built" => Faithful') \/ UNCHANGED building
  <2> SUFFICES ASSUME TablesOK, [Build]_builder_vars, building' = "built", building' # building
               PROVE  Faithful'
    OBVIOUS
  <2>1. BuildRelations
    BY DEF Build, MergeConflicts, ExpandBroken, Reduce, builder_vars
  <2>2. Built'
    BY <2>1, BuildIsBuilt
  <2>3. (Built => Faithful)'
    BY BuiltIsFaithful, PTL
  <2> QED  BY <2>2, <2>3
<1> QED  BY <1>1, <1>2, <1>3, PTL DEF BuilderSpec, UniverseIsFaithful

-----------------------------------------------------------------------------
\* The solver leaves the universe alone.
LEMMA SolvingBuilds == Spec => BuilderSpec
<1>1. Init => BuilderInit
  BY DEF Init
<1>2. [Next]_vars => [Build]_builder_vars
  BY DEF Next, vars
<1> QED  BY <1>1, <1>2, PTL DEF Spec, BuilderSpec

\* The universe allows the same sets of packages as the archive throughout the
\* building and the solving (build, _build_relations_and_eqv_packages_set).
THEOREM UniverseStaysFaithful == Spec => UniverseIsFaithful
BY SolvingBuilds, UniverseAllowsTheSame, PTL

-----------------------------------------------------------------------------
(***************************************************************************)
(* Items and the relation on them.                                         *)
(***************************************************************************)

OrderType == [before : SUBSET Item, after : SUBSET Item]

LEMMA ItemsAre ==
  /\ IsFiniteSet(Item)
  /\ \A i \in DOMAIN Items : Items[i] \in Item
  /\ \A x \in Item : Rank[x] \in Nat
<1>1. Items \in Seq(Range(Items)) /\ Len(Items) \in Nat /\ DOMAIN Items = 1..Len(Items)
  BY ItemsAssumption
<1>2. Items \in Surjection(1..Len(Items), Item)
  BY <1>1 DEF Surjection, Item, Range
<1>3. IsFiniteSet(1..Len(Items))
  BY <1>1, FS_Interval
<1> QED
  BY <1>1, <1>2, <1>3, FS_Surjection, ItemsAssumption DEF Item, Range

\* A set of items can be counted.
LEMMA ItemsCounted ==
  ASSUME NEW S \in SUBSET Item
  PROVE  Cardinality(S) \in Nat
BY ItemsAre, FS_Subset, FS_CardinalityType

LEMMA GroupOrderIs ==
  \A e \in GroupOrder : e[1] \in Item /\ e[2] \in Item /\ e[1] # e[2] /\ e = <<e[1], e[2]>>
BY DEF GroupOrder

\* All the sequences of a set go through all of it, once.
LEMMA OrdersAre ==
  ASSUME NEW S \in SUBSET Item, NEW s \in Orders(S)
  PROVE  s \in Seq(S) /\ ToSet(s) = S
<1> DEFINE n == Cardinality(S)
<1>1. IsFiniteSet(S) /\ n \in Nat
  BY ItemsAre, FS_Subset, ItemsCounted
<1>2. s \in Injection(1..n, S)
  <2>1. s \in {f \in [1..n -> S] : \A i, j \in 1..n : i # j => f[i] # f[j]}
    BY Zenon DEF Orders, SetToSeqs, n
  <2> HIDE DEF n
  <2> QED  BY <2>1 DEF Injection, IsInjective
<1>3. Cardinality(1..n) = n
  BY <1>1, FS_Interval
<1>4. s \in Surjection(1..n, S)
  <2> HIDE DEF n
  <2> QED  BY <1>1, <1>2, <1>3, FS_Injection DEF n
<1>5. s \in [1..n -> S] /\ \A y \in S : \E i \in 1..n : s[i] = y
  BY <1>4 DEF Surjection
<1> HIDE DEF n
<1> QED  BY <1>1, <1>5 DEF ToSet


-----------------------------------------------------------------------------
(***************************************************************************)
(* Chains: sequences that hold every item once at most.  Components and    *)
(* the stack are chains.                                                   *)
(***************************************************************************)

IsChain(s) == s \in Seq(Item) /\ IsInjective(s)

LEMMA EmptyChain == IsChain(<<>>) /\ ToSet(<<>>) = {}
BY DEF IsChain, IsInjective, ToSet

LEMMA SingleChain ==
  ASSUME NEW x \in Item
  PROVE  IsChain(<<x>>) /\ ToSet(<<x>>) = {x} /\ <<x>> # <<>>
BY DEF IsChain, IsInjective, ToSet

LEMMA ChainGrows ==
  ASSUME NEW s, IsChain(s), NEW x \in Item, x \notin ToSet(s)
  PROVE  IsChain(Append(s, x)) /\ ToSet(Append(s, x)) = ToSet(s) \cup {x}
<1>1. s \in Seq(Item) /\ Len(s) \in Nat /\ DOMAIN s = 1..Len(s)
  BY DEF IsChain
<1>2. /\ Append(s, x) \in Seq(Item)
      /\ DOMAIN Append(s, x) = 1..Len(s) + 1
      /\ \A i \in 1..Len(s) : Append(s, x)[i] = s[i]
      /\ Append(s, x)[Len(s) + 1] = x
  BY <1>1
<1>3. IsInjective(Append(s, x))
  BY <1>1, <1>2 DEF IsChain, IsInjective, ToSet
<1>4. ToSet(Append(s, x)) = ToSet(s) \cup {x}
  BY <1>1, <1>2 DEF ToSet
<1> QED  BY <1>2, <1>3, <1>4 DEF IsChain

LEMMA UpperPart ==
  ASSUME NEW S, NEW s \in Seq(S), NEW k \in Nat, k < Len(s)
  PROVE  LET above == SubSeq(s, k + 1, Len(s))
         IN  /\ above \in Seq(S) /\ Len(above) = Len(s) - k
             /\ DOMAIN above = 1..(Len(s) - k)
             /\ \A i \in 1..(Len(s) - k) : above[i] = s[i + k]
<1> DEFINE m == k + 1
           above == SubSeq(s, m, Len(s))
<1>1. /\ m \in Int /\ Len(s) \in Int /\ m <= Len(s) /\ Len(s) - m + 1 = Len(s) - k
      /\ \A i \in m..Len(s) : s[i] \in S
      /\ \A i \in 1..(Len(s) - k) : m + i - 1 = i + k
  OBVIOUS
<1> HIDE DEF m
<1>2. /\ above \in Seq(S) /\ Len(above) = Len(s) - k
      /\ \A i \in 1..(Len(s) - k) : above[i] = s[m + i - 1]
  BY <1>1, SubSeqProperties
<1> HIDE DEF above
<1>3. DOMAIN above = 1..(Len(s) - k)
  BY <1>2
<1> QED  BY <1>1, <1>2, <1>3 DEF above, m

\* A chain is cut in two.
LEMMA ChainIsCut ==
  ASSUME NEW s, IsChain(s), NEW k \in Nat, k < Len(s)
  PROVE  LET below == SubSeq(s, 1, k)
             above == SubSeq(s, k + 1, Len(s))
         IN  /\ IsChain(below) /\ IsChain(above)
             /\ Len(below) = k /\ above # <<>>
             /\ ToSet(below) \cup ToSet(above) = ToSet(s)
             /\ ToSet(below) \cap ToSet(above) = {}
<1> DEFINE below == SubSeq(s, 1, k)
           above == SubSeq(s, k + 1, Len(s))
<1>1. s \in Seq(Item) /\ Len(s) \in Nat /\ DOMAIN s = 1..Len(s)
  BY DEF IsChain
<1>2. /\ below \in Seq(Item) /\ Len(below) = k
      /\ DOMAIN below = 1..k
      /\ \A i \in 1..k : below[i] = s[i]
  BY <1>1
<1>3. /\ above \in Seq(Item) /\ Len(above) = Len(s) - k
      /\ DOMAIN above = 1..(Len(s) - k)
      /\ \A i \in 1..(Len(s) - k) : above[i] = s[i + k]
  BY <1>1, UpperPart DEF above
<1> HIDE DEF below, above
<1>4. IsInjective(below)
  BY <1>1, <1>2 DEF IsChain, IsInjective
<1>5. IsInjective(above)
  <2>1. \A i, j \in 1..(Len(s) - k) : above[i] = above[j] => i + k = j + k
    BY <1>1, <1>3 DEF IsChain, IsInjective
  <2> QED  BY <1>1, <1>3, <2>1 DEF IsInjective
<1>6. above # <<>>
  BY <1>1, <1>3
<1>7. ToSet(below) = {s[i] : i \in 1..k}
  BY <1>2 DEF ToSet
<1>8. ToSet(above) = {s[i] : i \in k + 1 .. Len(s)}
  <2>1. \A i \in k + 1 .. Len(s) : i - k \in 1..(Len(s) - k) /\ above[i - k] = s[i]
    BY <1>1, <1>3
  <2>2. \A i \in 1..(Len(s) - k) : i + k \in k + 1 .. Len(s) /\ above[i] = s[i + k]
    BY <1>1, <1>3
  <2> QED  BY <1>3, <2>1, <2>2 DEF ToSet
<1>9. ToSet(below) \cup ToSet(above) = ToSet(s)
  <2>1. 1..Len(s) = (1..k) \cup (k + 1 .. Len(s))
    BY <1>1
  <2>2. ToSet(s) = {s[i] : i \in (1..k) \cup (k + 1 .. Len(s))}
    BY <1>1, <2>1 DEF ToSet
  <2> QED  BY <1>7, <1>8, <2>2
<1>10. ToSet(below) \cap ToSet(above) = {}
  BY <1>1, <1>7, <1>8 DEF IsChain, IsInjective
<1> QED
  BY <1>2, <1>3, <1>4, <1>5, <1>6, <1>9, <1>10 DEF IsChain, below, above


-----------------------------------------------------------------------------
(***************************************************************************)
(* The inductive invariant.                                                *)
(***************************************************************************)

Stages == {"waiting", "scc", "asserts", "merge", "schedule", "emit", "done"}
HasComponents == solving \in {"merge", "schedule", "emit", "done"}
IsEmitting == solving \in {"emit", "done"}

\* Components are chains of their own.
ComponentsOK ==
  /\ \A com \in comps : IsChain(com) /\ com # <<>>
  /\ \A com, other \in comps : ToSet(com) \cap ToSet(other) # {} => com = other

\* What has been met is in a component or on the stack.
Covered == UNION {ToSet(com) : com \in comps}
StackOK ==
  /\ IsChain(node_stack)
  /\ Covered \cap ToSet(node_stack) = {}
  /\ DOMAIN low = Covered \cup ToSet(node_stack)

\* Nodes are left in the order of their places on the stack, the first of which
\* is the bottom.
WorkOK ==
  /\ work_stack \in Seq([node : Item, idx : Nat, num : Nat])
  /\ \A k \in DOMAIN work_stack : work_stack[k].idx < Len(node_stack)
  /\ \A k, l \in DOMAIN work_stack : k < l => work_stack[k].idx < work_stack[l].idx
  /\ work_stack # <<>> => work_stack[1].idx = 0
  /\ work_stack = <<>> => node_stack = <<>>

ItemOrder ==
  [x \in Item |-> [before |-> {e[2] : e \in {e \in GroupOrder : e[1] = x}},
                   after  |-> {e[1] : e \in {e \in GroupOrder : e[2] = x}}]]

\* The component of g comes before that of h.
Leads(g, h) == g # h /\ \E e \in GroupOrder : Merged(e[1]) = g /\ Merged(e[2]) = h
HeadOrder ==
  [h \in Heads |-> [before |-> {g \in Heads : Leads(h, g)},
                    after  |-> {g \in Heads : Leads(g, h)}]]

StageOK ==
  /\ solving \in Stages \ {"asserts"}
  /\ solving # "waiting" => building = "built"
  /\ solving \in {"scc", "merge"} => order = ItemOrder
  /\ solving = "schedule" \/ IsEmitting => order = HeadOrder
  /\ HasComponents => DOMAIN low = Item /\ node_stack = <<>> /\ work_stack = <<>>
  /\ solving = "done" => queue = <<>>
  /\ ~IsEmitting => queue = <<>> /\ emitted = {} /\ result = <<>>

\* What is emitted has been looked at once, after all it waits for; what waits
\* for nothing more is in the queue.
HeadOf(i) == Head(result[i])
EmittedOK ==
  /\ queue \in Seq(Heads)
  /\ result \in Seq(comps)
  /\ emitted = {HeadOf(i) : i \in DOMAIN result}
  /\ \A i, j \in DOMAIN result : HeadOf(i) = HeadOf(j) => i = j
  /\ \A i \in DOMAIN result : \A g \in Heads :
       Leads(g, HeadOf(i)) => \E j \in 1..i : HeadOf(j) = g
  /\ IsEmitting => \A h \in Heads \ emitted :
                     {g \in Heads : Leads(g, h)} \subseteq emitted => h \in ToSet(queue)

Inv == ComponentsOK /\ StackOK /\ WorkOK /\ StageOK /\ EmittedOK

LEMMA InitInv == Init => Inv
<1> SUFFICES ASSUME Init PROVE Inv
  OBVIOUS
<1> USE DEF Init
<1>1. ComponentsOK
  BY DEF ComponentsOK
<1>2. StackOK
  BY EmptyChain DEF StackOK, Covered
<1>3. WorkOK
  BY DEF WorkOK
<1>4. StageOK
  BY DEF StageOK, Stages, IsEmitting, HasComponents
<1>5. EmittedOK
  BY DEF EmittedOK, IsEmitting
<1> QED  BY <1>1, <1>2, <1>3, <1>4, <1>5 DEF Inv

\* The universe is built before the items are ordered, and then stays.
LEMMA BuildKeepsInv ==
  ASSUME Inv, Build, UNCHANGED solver_vars
  PROVE  Inv'
<1> USE DEF solver_vars
<1>1. building # "built"
  BY DEF Build, MergeConflicts, ExpandBroken, Reduce, BuildRelations
<1>2. solving = "waiting"
  BY <1>1 DEF Inv, StageOK
<1>3. ComponentsOK' /\ StackOK' /\ WorkOK'
  BY DEF Inv, ComponentsOK, StackOK, WorkOK, Covered
<1>4. StageOK'
  BY <1>2 DEF Inv, StageOK, Stages, IsEmitting, HasComponents
<1>5. EmittedOK'
  <2>1. queue = <<>> /\ emitted = {} /\ result = <<>>
    BY <1>2 DEF Inv, StageOK, IsEmitting
  <2> QED  BY <1>2, <2>1 DEF EmittedOK, IsEmitting
<1> QED  BY <1>3, <1>4, <1>5 DEF Inv

\* The relation on items, and on components, depends on the universe and the
\* components only.
LEMMA OrdersStay ==
  ASSUME UNCHANGED builder_vars
  PROVE  /\ GroupOrder' = GroupOrder /\ ItemOrder' = ItemOrder
         /\ UNCHANGED comps => /\ HeadOrder' = HeadOrder /\ Heads' = Heads
                               /\ \A g, h : Leads(g, h)' = Leads(g, h)
<1>1. GroupOrder' = GroupOrder
  BY DEF builder_vars, GroupOrder, ConflictOrder, RemovalOrder, DependencyOrder,
         Adders, Removers, Negative, Satisfied, PTable, GoingIn, GoingOut, ItemOf, Adds, Rms
<1>2. ItemOrder' = ItemOrder
  BY <1>1 DEF ItemOrder
<1>3. ASSUME UNCHANGED comps
      PROVE  HeadOrder' = HeadOrder /\ Heads' = Heads /\ \A g, h : Leads(g, h)' = Leads(g, h)
  <2>1. Heads' = Heads /\ \A h : ComponentOf(h)' = ComponentOf(h)
    BY <1>3 DEF Heads, ComponentOf
  <2>2. \A x : Merged(x)' = Merged(x)
    BY <2>1 DEF Merged
  <2>3. \A g, h : Leads(g, h)' = Leads(g, h)
    BY <1>1, <2>2 DEF Leads
  <2> QED  BY <2>1, <2>3 DEF HeadOrder
<1> QED  BY <1>1, <1>2, <1>3


LEMMA ComputeGroupOrderKeepsInv ==
  ASSUME Inv, ComputeGroupOrder, UNCHANGED builder_vars
  PROVE  Inv'
<1> USE DEF ComputeGroupOrder
<1>1. ComponentsOK' /\ StackOK' /\ WorkOK'
  BY DEF Inv, ComponentsOK, StackOK, WorkOK, Covered
<1>2. order' = ItemOrder'
  BY OrdersStay, Zenon DEF ItemOrder
<1>3. StageOK'
  BY <1>2 DEF Inv, StageOK, Stages, IsEmitting, HasComponents, builder_vars
<1>4. EmittedOK'
  <2>1. queue = <<>> /\ emitted = {} /\ result = <<>>
    BY DEF Inv, StageOK, IsEmitting
  <2> QED  BY <2>1 DEF EmittedOK, IsEmitting
<1> QED  BY <1>1, <1>3, <1>4 DEF Inv

\* What the search for components keeps of the rest.
LEMMA SearchKeepsTheRest ==
  ASSUME Inv, solving = "scc", UNCHANGED <<solving, order, queue, emitted, result>>,
         UNCHANGED builder_vars
  PROVE  StageOK' /\ EmittedOK'
<1>1. StageOK'
  BY OrdersStay DEF Inv, StageOK, Stages, IsEmitting, HasComponents, builder_vars
<1>2. EmittedOK'
  <2>1. queue = <<>> /\ emitted = {} /\ result = <<>>
    BY DEF Inv, StageOK, IsEmitting
  <2> QED  BY <2>1 DEF EmittedOK, IsEmitting
<1> QED  BY <1>1, <1>2

\* Successors are items, and those that are isolated have not been met.
LEMMA SuccessorsAre ==
  ASSUME Inv, solving = "scc", NEW x \in Item
  PROVE  /\ order[x].before \subseteq Item /\ order[x].after \subseteq Item
         /\ ToVisit(x) \subseteq Item \ Seen
         /\ Fresh(x) \subseteq Item \ Seen
         /\ ToVisit(x) \cap Fresh(x) = {}
<1>1. order[x].before \subseteq Item /\ order[x].after \subseteq Item
  BY GroupOrderIs DEF Inv, StageOK, ItemOrder
<1>2. ToVisit(x) \cap Fresh(x) = {}
  <2> SUFFICES ASSUME NEW y \in ToVisit(x), y \in Fresh(x) PROVE FALSE
    OBVIOUS
  <2>1. Rank[y] < Rank[y] /\ Rank[y] \in Nat
    BY <1>1, ItemsAre DEF Fresh, Passed, ToVisit
  <2> QED  BY <2>1
<1>3. ToVisit(x) \subseteq Item \ Seen /\ Fresh(x) \subseteq Item \ Seen
  BY <1>1 DEF ToVisit, Fresh, Passed, MustVisit
<1> QED  BY <1>1, <1>2, <1>3

\* Items that have not been met become components of their own.
LEMMA SinglesKeepComponents ==
  ASSUME Inv, NEW xs \in SUBSET (Item \ Seen)
  PROVE  LET grown == comps \cup Singles(xs)
         IN  /\ \A com \in grown : IsChain(com) /\ com # <<>>
             /\ \A com, other \in grown : ToSet(com) \cap ToSet(other) # {} => com = other
             /\ UNION {ToSet(com) : com \in grown} = Covered \cup xs
<1>1. \A com \in Singles(xs) : /\ IsChain(com) /\ com # <<>>
                               /\ \E x \in xs : com = <<x>> /\ ToSet(com) = {x}
  BY SingleChain DEF Singles
<1>2. \A com \in comps : ToSet(com) \subseteq Seen /\ IsChain(com) /\ com # <<>>
  BY DEF Inv, StackOK, ComponentsOK, Covered, Seen
<1>3. \A com \in comps, other \in Singles(xs) : ToSet(com) \cap ToSet(other) = {}
  BY <1>1, <1>2
<1>4. \A com, other \in Singles(xs) : ToSet(com) \cap ToSet(other) # {} => com = other
  BY <1>1
<1>5. \A com, other \in comps : ToSet(com) \cap ToSet(other) # {} => com = other
  BY DEF Inv, ComponentsOK
<1>6. UNION {ToSet(com) : com \in Singles(xs)} = xs
  <2>1. \A x \in xs : <<x>> \in Singles(xs) /\ ToSet(<<x>>) = {x}
    BY SingleChain DEF Singles
  <2>2. \A x \in xs : x \in UNION {ToSet(com) : com \in Singles(xs)}
    BY <2>1
  <2>3. \A x \in UNION {ToSet(com) : com \in Singles(xs)} : x \in xs
    BY <1>1
  <2> QED  BY <2>2, <2>3
<1>7. UNION {ToSet(com) : com \in comps \cup Singles(xs)} = Covered \cup xs
  BY <1>6 DEF Covered
<1> QED  BY <1>1, <1>2, <1>3, <1>4, <1>5, <1>7


\* Numbers are given to what has been met.
LEMMA NumbersAre ==
  /\ \A xs, n : DOMAIN Numbered(xs, n) = Seen \cup xs
  /\ \A x : DOMAIN LowAfter(x) = Seen \cup Fresh(x)
BY DEF Numbered, LowAfter

LEMMA StartNodeKeepsInv ==
  ASSUME Inv, StartNode, UNCHANGED builder_vars
  PROVE  Inv'
<1>1. StageOK' /\ EmittedOK'
  BY SearchKeepsTheRest DEF StartNode
<1>2. PICK i \in DOMAIN Items :
        /\ Items[i] \notin Seen
        /\ IF Isolated(Items[i])
           THEN /\ comps' = comps \cup {<<Items[i]>>}
                /\ low' = Numbered({Items[i]}, OutOfReach)
                /\ UNCHANGED <<node_stack, work_stack>>
           ELSE /\ low' = Numbered({Items[i]}, Cardinality(Seen))
                /\ work_stack' = <<[node |-> Items[i], idx |-> Len(node_stack),
                                    num |-> Cardinality(Seen)]>>
                /\ node_stack' = Append(node_stack, Items[i])
                /\ UNCHANGED comps
  BY DEF StartNode
<1> DEFINE x == Items[i]
<1>3. x \in Item \ Seen
  BY <1>2, ItemsAre
<1>4. node_stack = <<>> /\ work_stack = <<>>
  BY DEF StartNode, Inv, WorkOK
<1> HIDE DEF x
<1>5. CASE Isolated(x)
  <2>1. comps' = comps \cup Singles({x}) /\ UNCHANGED <<node_stack, work_stack>>
    BY <1>2, <1>5 DEF x, Singles
  <2>2. DOMAIN low' = Seen \cup {x}
    BY <1>2, <1>5, NumbersAre DEF x
  <2>3. ComponentsOK' /\ Covered' = Covered \cup {x}
    BY <1>3, <2>1, SinglesKeepComponents DEF ComponentsOK, Covered
  <2>4. StackOK'
    BY <1>3, <1>4, <2>1, <2>2, <2>3, EmptyChain DEF Inv, StackOK, Seen
  <2>5. WorkOK'
    BY <2>1 DEF Inv, WorkOK
  <2> QED  BY <1>1, <2>3, <2>4, <2>5 DEF Inv
<1>6. CASE ~Isolated(x)
  <2>1. /\ work_stack' = <<[node |-> x, idx |-> 0, num |-> Cardinality(Seen)]>>
        /\ node_stack' = <<x>> /\ comps' = comps
    BY <1>2, <1>4, <1>6 DEF x
  <2>2. DOMAIN low' = Seen \cup {x}
    BY <1>2, <1>6, NumbersAre DEF x
  <2>3. ComponentsOK' /\ Covered' = Covered
    BY <2>1 DEF Inv, ComponentsOK, Covered
  <2>4. StackOK'
    BY <1>3, <1>4, <2>1, <2>2, <2>3, SingleChain, EmptyChain DEF Inv, StackOK, Seen
  <2>5. WorkOK'
    <3>1. Seen \subseteq Item
      BY EmptyChain, <1>4 DEF Inv, StackOK, ComponentsOK, Covered, IsChain, ToSet, Seen
    <3>2. Cardinality(Seen) \in Nat
      BY <3>1, ItemsCounted
    <3> QED  BY <1>3, <2>1, <3>2 DEF WorkOK
  <2> QED  BY <1>1, <2>3, <2>4, <2>5 DEF Inv
<1> QED  BY <1>5, <1>6


LEMMA SeenAreItems ==
  ASSUME Inv
  PROVE  Seen \subseteq Item
<1>1. ToSet(node_stack) \subseteq Item
  BY DEF Inv, StackOK, IsChain, ToSet
<1>2. \A com \in comps : ToSet(com) \subseteq Item
  BY DEF Inv, ComponentsOK, IsChain, ToSet
<1> QED  BY <1>1, <1>2 DEF Inv, StackOK, Covered, Seen

\* The node that is worked on is above all others that are.
LEMMA WorkIs ==
  ASSUME Inv, work_stack # <<>>
  PROVE  /\ work_stack \in Seq([node : Item, idx : Nat, num : Nat])
         /\ Len(work_stack) \in Nat \ {0} /\ DOMAIN work_stack = 1..Len(work_stack)
         /\ Work \in [node : Item, idx : Nat, num : Nat]
         /\ work_stack[1].idx = 0
         /\ \A k \in 1..Len(work_stack) :
              work_stack[k].idx < Len(node_stack) /\ work_stack[k].idx \in Nat
         /\ \A k, l \in 1..Len(work_stack) : k < l => work_stack[k].idx < work_stack[l].idx
<1>1. WorkOK
  BY DEF Inv
<1>2. work_stack \in Seq([node : Item, idx : Nat, num : Nat])
  BY <1>1 DEF WorkOK
<1>3. Len(work_stack) \in Nat \ {0} /\ DOMAIN work_stack = 1..Len(work_stack)
  BY <1>2
<1>4. \A k \in 1..Len(work_stack) : work_stack[k] \in [node : Item, idx : Nat, num : Nat]
  BY <1>2, ElementOfSeq
<1>5. Work \in [node : Item, idx : Nat, num : Nat]
  BY <1>3, <1>4 DEF Work
<1>6. \A k \in 1..Len(work_stack) :
        work_stack[k].idx < Len(node_stack) /\ work_stack[k].idx \in Nat
  BY <1>1, <1>3, <1>4 DEF WorkOK
<1> QED
  BY <1>1, <1>2, <1>3, <1>5, <1>6 DEF WorkOK

LEMMA VisitKeepsInv ==
  ASSUME Inv, Visit, UNCHANGED builder_vars
  PROVE  Inv'
<1> DEFINE x == Work.node
           n == Cardinality(DOMAIN LowAfter(x))
<1>1. StageOK' /\ EmittedOK'
  BY SearchKeepsTheRest DEF Visit
<1>2. x \in Item
  BY WorkIs DEF Visit
<1>3. PICK y \in ToVisit(x) :
        /\ low' = [z \in DOMAIN LowAfter(x) \cup {y} |-> IF z = y THEN n ELSE LowAfter(x)[z]]
        /\ work_stack' = Append(work_stack, [node |-> y, idx |-> Len(node_stack), num |-> n])
        /\ node_stack' = Append(node_stack, y)
        /\ comps' = comps \cup Singles(Fresh(x))
  BY DEF Visit
<1> HIDE DEF x
<1>4. /\ y \in Item \ Seen /\ y \notin Fresh(x) /\ Fresh(x) \subseteq Item \ Seen
      /\ Seen \subseteq Item
  BY <1>2, SuccessorsAre, SeenAreItems DEF Visit
<1>5. n \in Nat
  BY <1>4, NumbersAre, ItemsCounted
<1> HIDE DEF n
<1>6. ComponentsOK' /\ Covered' = Covered \cup Fresh(x)
  BY <1>3, <1>4, SinglesKeepComponents DEF ComponentsOK, Covered
<1>7. IsChain(node_stack') /\ ToSet(node_stack') = ToSet(node_stack) \cup {y}
  BY <1>3, <1>4, ChainGrows DEF Inv, StackOK, Seen
<1>8. StackOK'
  <2>1. DOMAIN low' = Seen \cup Fresh(x) \cup {y}
    BY <1>3, NumbersAre
  <2> QED  BY <1>4, <1>6, <1>7, <2>1 DEF Inv, StackOK, Seen
<1>9. WorkOK'
  <2>1. /\ node_stack \in Seq(Item) /\ Len(node_stack) \in Nat
        /\ Len(node_stack') = Len(node_stack) + 1 /\ node_stack' # <<>>
    BY <1>3 DEF Inv, StackOK, IsChain
  <2> DEFINE m == Len(work_stack)
             w == [node |-> y, idx |-> Len(node_stack), num |-> n]
  <2>2. w \in [node : Item, idx : Nat, num : Nat] /\ w.idx = Len(node_stack)
    BY <1>4, <1>5, <2>1
  <2>3. /\ work_stack \in Seq([node : Item, idx : Nat, num : Nat])
        /\ m \in Nat \ {0} /\ DOMAIN work_stack = 1..m
        /\ work_stack[1].idx = 0
        /\ \A k \in 1..m : work_stack[k].idx < Len(node_stack) /\ work_stack[k].idx \in Nat
        /\ \A k, l \in 1..m : k < l => work_stack[k].idx < work_stack[l].idx
    BY WorkIs, Zenon DEF Visit, m
  <2> HIDE DEF w, m
  <2>4. /\ work_stack' \in Seq([node : Item, idx : Nat, num : Nat])
        /\ DOMAIN work_stack' = 1..m + 1
        /\ \A k \in 1..m : work_stack'[k] = work_stack[k]
        /\ work_stack'[m + 1] = w
    BY <1>3, <2>2, <2>3 DEF m, w
  <2>5. \A k \in 1..m + 1 : work_stack'[k].idx < Len(node_stack')
    BY <2>1, <2>2, <2>3, <2>4
  <2>6. \A k, l \in 1..m + 1 : k < l => work_stack'[k].idx < work_stack'[l].idx
    BY <2>1, <2>2, <2>3, <2>4
  <2>7. work_stack'[1].idx = 0 /\ work_stack' # <<>>
    BY <2>3, <2>4
  <2> QED  BY <2>4, <2>5, <2>6, <2>7 DEF WorkOK
<1> QED  BY <1>1, <1>6, <1>8, <1>9 DEF Inv


LEMMA FrontIs ==
  ASSUME NEW S, NEW s \in Seq(S), Len(s) # 0
  PROVE  /\ Front(s) \in Seq(S) /\ Len(Front(s)) = Len(s) - 1
         /\ \A k \in 1..Len(s) - 1 : Front(s)[k] = s[k]
<1> DEFINE n == Len(s) - 1
           front == SubSeq(s, 1, n)
<1>1. /\ n \in Nat /\ 1 \in Int /\ n \in Int /\ n - 1 + 1 = n /\ (1 <= n \/ n = 0)
      /\ \A i \in 1..n : s[i] \in S
      /\ \A i \in 1..n : 1 + i - 1 = i
  <2>1. Len(s) \in Nat /\ \A i \in 1..Len(s) : s[i] \in S
    BY LenProperties, ElementOfSeq
  <2>2. n \in Nat /\ \A i \in 1..n : i \in 1..Len(s)
    BY <2>1
  <2> HIDE DEF n
  <2>3. n - 1 + 1 = n /\ (1 <= n \/ n = 0) /\ \A i \in 1..n : 1 + i - 1 = i
    BY <2>2
  <2> QED  BY <2>1, <2>2, <2>3
<1>2. Front(s) = front
  BY DEF Front
<1> HIDE DEF n
<1>3. front \in Seq(S) /\ Len(front) = n /\ \A i \in 1..n : front[i] = s[1 + i - 1]
  BY <1>1, SubSeqProperties
<1> HIDE DEF front
<1> QED  BY <1>1, <1>2, <1>3 DEF n

\* The work that is left when the topmost node is: its stack reaches at least up
\* to where this one began.
LEMMA RestOfWork ==
  ASSUME Inv, work_stack # <<>>
  PROVE  LET rest == Front(work_stack)
         IN  /\ rest \in Seq([node : Item, idx : Nat, num : Nat])
             /\ \A k \in DOMAIN rest : rest[k].idx < Work.idx /\ rest[k].idx < Len(node_stack)
             /\ \A k, l \in DOMAIN rest : k < l => rest[k].idx < rest[l].idx
             /\ rest # <<>> => rest[1].idx = 0
             /\ rest = <<>> => Work.idx = 0
<1> DEFINE m == Len(work_stack)
           rest == Front(work_stack)
           Records == [node : Item, idx : Nat, num : Nat]
<1>1. /\ work_stack \in Seq(Records) /\ m \in Nat \ {0}
      /\ work_stack[1].idx = 0
      /\ \A k \in 1..m : work_stack[k].idx < Len(node_stack)
      /\ \A k, l \in 1..m : k < l => work_stack[k].idx < work_stack[l].idx
  BY WorkIs, Zenon
<1> HIDE DEF Records, m
<1>2. /\ rest \in Seq(Records) /\ Len(rest) = m - 1
      /\ \A k \in 1..m - 1 : rest[k] = work_stack[k]
  BY <1>1, FrontIs DEF m
<1> HIDE DEF rest
<1>3. DOMAIN rest = 1..m - 1
  BY <1>1, <1>2
<1>4. /\ \A k \in 1..m - 1 : k \in 1..m /\ m \in 1..m /\ k < m
      /\ rest # <<>> => 1 \in 1..m - 1
      /\ rest = <<>> => m = 1
  BY <1>1, <1>2
<1>5. Work = work_stack[m]
  BY DEF Work, m
<1> QED
  BY <1>1, <1>2, <1>3, <1>4, <1>5 DEF rest, Records

LEMMA LeaveKeepsInv ==
  ASSUME Inv, Leave, UNCHANGED builder_vars
  PROVE  Inv'
<1> DEFINE x == Work.node
           k == Work.idx
           rest == Front(work_stack)
           above == SubSeq(node_stack, k + 1, Len(node_stack))
           below == SubSeq(node_stack, 1, k)
           fresh == Fresh(x)
           single == comps \cup Singles(fresh)
<1>1. StageOK' /\ EmittedOK'
  BY SearchKeepsTheRest DEF Leave
<1>2. x \in Item /\ k \in Nat /\ k < Len(node_stack)
  <2>1. /\ Len(work_stack) \in Nat \ {0}
        /\ \A l \in 1..Len(work_stack) : work_stack[l].idx < Len(node_stack)
        /\ Work \in [node : Item, idx : Nat, num : Nat]
    BY WorkIs DEF Leave
  <2>2. Len(work_stack) \in 1..Len(work_stack)
    BY <2>1
  <2> QED  BY <2>1, <2>2 DEF Work
<1>3. work_stack' = rest
  BY DEF Leave
<1>4. \/ /\ rest # <<>> /\ DOMAIN low' = DOMAIN LowAfter(x)
         /\ comps' = single /\ UNCHANGED node_stack
      \/ /\ DOMAIN low' = DOMAIN LowAfter(x)
         /\ comps' = single \cup {above}
         /\ node_stack' = below
  BY Zenon DEF Leave
<1>5. /\ rest \in Seq([node : Item, idx : Nat, num : Nat])
      /\ \A i \in DOMAIN rest : rest[i].idx < k /\ rest[i].idx < Len(node_stack)
      /\ \A i, j \in DOMAIN rest : i < j => rest[i].idx < rest[j].idx
      /\ rest # <<>> => rest[1].idx = 0
      /\ rest = <<>> => k = 0
  BY RestOfWork, Zenon DEF Leave
<1>6. fresh \subseteq Item \ Seen
  BY <1>2, SuccessorsAre DEF Leave
<1>7. /\ \A com \in single : IsChain(com) /\ com # <<>>
      /\ \A com, other \in single : ToSet(com) \cap ToSet(other) # {} => com = other
      /\ UNION {ToSet(com) : com \in single} = Covered \cup fresh
  BY <1>6, SinglesKeepComponents, Zenon
<1>8. /\ IsChain(below) /\ IsChain(above)
      /\ Len(below) = k /\ above # <<>>
      /\ ToSet(below) \cup ToSet(above) = ToSet(node_stack)
      /\ ToSet(below) \cap ToSet(above) = {}
  BY <1>2, ChainIsCut DEF Inv, StackOK
<1>9. DOMAIN low' = Seen \cup fresh
  BY <1>4, NumbersAre
<1>10. /\ IsChain(node_stack) /\ Covered \cap ToSet(node_stack) = {}
       /\ Seen = Covered \cup ToSet(node_stack)
  BY DEF Inv, StackOK, Seen
<1> HIDE DEF x, k, rest, above, below, fresh, single
<1>11. CASE rest # <<>> /\ comps' = single /\ UNCHANGED node_stack
  <2>1. ComponentsOK' /\ Covered' = Covered \cup fresh
    BY <1>7, <1>11 DEF ComponentsOK, Covered
  <2>2. StackOK'
    BY <1>6, <1>9, <1>10, <1>11, <2>1 DEF StackOK
  <2>3. WorkOK'
    BY <1>3, <1>5, <1>11 DEF WorkOK
  <2> QED  BY <1>1, <2>1, <2>2, <2>3 DEF Inv
<1>12. CASE comps' = single \cup {above} /\ node_stack' = below
  <2>1. (Covered \cup fresh) \cap ToSet(above) = {}
    BY <1>6, <1>8, <1>10
  <2>2. \A com \in single : ToSet(com) \cap ToSet(above) = {}
    BY <1>7, <2>1
  <2>3. ComponentsOK'
    BY <1>7, <1>8, <1>12, <2>2 DEF ComponentsOK
  <2>4. Covered' = Covered \cup fresh \cup ToSet(above)
    BY <1>7, <1>12 DEF Covered
  <2>5. StackOK'
    BY <1>6, <1>8, <1>9, <1>10, <1>12, <2>4 DEF StackOK
  <2>6. WorkOK'
    <3>1. rest = <<>> => below = <<>>
      BY <1>5, <1>8 DEF IsChain
    <3> QED  BY <1>3, <1>5, <1>8, <1>12, <3>1 DEF WorkOK
  <2> QED  BY <1>1, <2>3, <2>5, <2>6 DEF Inv
<1> QED  BY <1>4, <1>11, <1>12

\* The assertion after the search holds.
LEMMA FinishSCCKeepsInv ==
  ASSUME Inv, FinishSCC, UNCHANGED builder_vars
  PROVE  Inv'
<1> USE DEF FinishSCC
<1>1. node_stack = <<>> /\ work_stack = <<>> /\ solving' = "merge"
  BY DEF Inv, WorkOK
<1>2. ComponentsOK' /\ StackOK' /\ WorkOK'
  BY DEF Inv, ComponentsOK, StackOK, WorkOK, Covered
<1>3. StageOK'
  BY <1>1, OrdersStay DEF Inv, StageOK, Stages, IsEmitting, HasComponents, Seen, builder_vars
<1>4. EmittedOK'
  <2>1. queue = <<>> /\ emitted = {} /\ result = <<>>
    BY DEF Inv, StageOK, IsEmitting
  <2> QED  BY <1>1, <2>1 DEF EmittedOK, IsEmitting
<1> QED  BY <1>2, <1>3, <1>4 DEF Inv


\* Components divide the items up, and their heads stand for them.
LEMMA ComponentsPartition ==
  ASSUME Inv, HasComponents
  PROVE  /\ \A com \in comps : Head(com) \in Heads /\ ComponentOf(Head(com)) = com
         /\ \A h \in Heads : /\ ComponentOf(h) \in comps
                             /\ Head(ComponentOf(h)) = h
                             /\ h \in ToSet(ComponentOf(h))
                             /\ ToSet(ComponentOf(h)) \subseteq Item
         /\ \A x \in Item : Merged(x) \in Heads /\ x \in ToSet(ComponentOf(Merged(x)))
         /\ \A h \in Heads : \A x \in ToSet(ComponentOf(h)) : Merged(x) = h
<1>1. \A com \in comps : Head(com) \in ToSet(com) /\ ToSet(com) \subseteq Item
  <2> SUFFICES ASSUME NEW com \in comps
               PROVE  Head(com) \in ToSet(com) /\ ToSet(com) \subseteq Item
    OBVIOUS
  <2>1. com \in Seq(Item) /\ com # <<>>
    BY DEF Inv, ComponentsOK, IsChain
  <2>2. 1 \in DOMAIN com /\ Head(com) = com[1] /\ \A i \in DOMAIN com : com[i] \in Item
    BY <2>1
  <2> QED  BY <2>2 DEF ToSet
<1>2. \A com, other \in comps : ToSet(com) \cap ToSet(other) # {} => com = other
  BY DEF Inv, ComponentsOK
<1>3. \A com, other \in comps : Head(com) = Head(other) => com = other
  BY <1>1, <1>2
<1>4. \A h \in Heads : ComponentOf(h) \in comps /\ Head(ComponentOf(h)) = h
  BY DEF Heads, ComponentOf
<1>5. \A com \in comps : Head(com) \in Heads
  BY DEF Heads
<1>6. \A com \in comps : ComponentOf(Head(com)) = com
  BY <1>3, <1>4, <1>5
<1>7. Item = Covered
  BY EmptyChain DEF Inv, StageOK, StackOK
<1>8. \A x \in Item : \E h \in Heads : x \in ToSet(ComponentOf(h))
  BY <1>5, <1>6, <1>7 DEF Covered
<1>9. \A x \in Item : Merged(x) \in Heads /\ x \in ToSet(ComponentOf(Merged(x)))
  BY <1>8 DEF Merged
<1>10. \A h \in Heads : \A x \in ToSet(ComponentOf(h)) : Merged(x) = h
  <2> SUFFICES ASSUME NEW h \in Heads, NEW x \in ToSet(ComponentOf(h))
               PROVE  Merged(x) = h
    OBVIOUS
  <2>1. x \in Item
    BY <1>1, <1>4
  <2>2. ComponentOf(Merged(x)) = ComponentOf(h)
    BY <1>2, <1>4, <1>9, <2>1
  <2> QED  BY <1>4, <1>9, <2>1, <2>2
<1> QED  BY <1>1, <1>4, <1>5, <1>6, <1>9, <1>10

LEMMA MergeKeepsInv ==
  ASSUME Inv, Merge, UNCHANGED builder_vars
  PROVE  Inv'
<1> DEFINE before(h) == OthersMerged(h, UNION {order[x].before : x \in ToSet(ComponentOf(h))})
           after(h) == OthersMerged(h, UNION {order[x].after : x \in ToSet(ComponentOf(h))})
<1>1. HasComponents /\ solving = "merge" /\ order = ItemOrder
  BY DEF Merge, HasComponents, Inv, StageOK
<1>2. \A x \in Item : /\ order[x].before = {e[2] : e \in {e \in GroupOrder : e[1] = x}}
                      /\ order[x].after = {e[1] : e \in {e \in GroupOrder : e[2] = x}}
  BY <1>1 DEF ItemOrder
<1>3. \A h \in Heads : \A x \in Item : x \in ToSet(ComponentOf(h)) <=> Merged(x) = h
  BY <1>1, ComponentsPartition
<1>4. \A h \in Heads : before(h) = {g \in Heads : Leads(h, g)}
  <2> SUFFICES ASSUME NEW h \in Heads
               PROVE  \A g : g \in before(h) <=> g \in Heads /\ Leads(h, g)
    OBVIOUS
  <2>1. \A y : y \in UNION {order[x].before : x \in ToSet(ComponentOf(h))}
               <=> \E e \in GroupOrder : Merged(e[1]) = h /\ e[2] = y
    BY <1>1, <1>2, <1>3, ComponentsPartition, GroupOrderIs
  <2>2. \A e \in GroupOrder : Merged(e[2]) \in Heads
    BY <1>1, ComponentsPartition, GroupOrderIs
  <2> QED  BY <2>1, <2>2 DEF OthersMerged, Leads
<1>5. \A h \in Heads : after(h) = {g \in Heads : Leads(g, h)}
  <2> SUFFICES ASSUME NEW h \in Heads
               PROVE  \A g : g \in after(h) <=> g \in Heads /\ Leads(g, h)
    OBVIOUS
  <2>1. \A y : y \in UNION {order[x].after : x \in ToSet(ComponentOf(h))}
               <=> \E e \in GroupOrder : Merged(e[2]) = h /\ e[1] = y
    BY <1>1, <1>2, <1>3, ComponentsPartition, GroupOrderIs
  <2>2. \A e \in GroupOrder : Merged(e[1]) \in Heads
    BY <1>1, ComponentsPartition, GroupOrderIs
  <2> QED  BY <2>1, <2>2 DEF OthersMerged, Leads
<1>6. order' = [h \in Heads |-> [before |-> before(h) \cup {g \in Heads : h \in after(g)},
                                 after  |-> after(h) \cup {g \in Heads : h \in before(g)}]]
  BY Zenon DEF Merge
<1> HIDE DEF before, after
<1>7. order' = HeadOrder
  <2>1. \A h \in Heads : /\ before(h) \cup {g \in Heads : h \in after(g)} = {g \in Heads : Leads(h, g)}
                         /\ after(h) \cup {g \in Heads : h \in before(g)} = {g \in Heads : Leads(g, h)}
    BY <1>4, <1>5
  <2> QED  BY <1>6, <2>1 DEF HeadOrder
<1>8. order' = HeadOrder'
  BY <1>7, OrdersStay DEF Merge
<1>9. ComponentsOK' /\ StackOK' /\ WorkOK'
  BY DEF Merge, Inv, ComponentsOK, StackOK, WorkOK, Covered
<1>10. StageOK'
  BY <1>8 DEF Merge, Inv, StageOK, Stages, IsEmitting, HasComponents, builder_vars
<1>11. EmittedOK'
  <2>1. queue = <<>> /\ emitted = {} /\ result = <<>>
    BY <1>1 DEF Inv, StageOK, IsEmitting
  <2> QED  BY <2>1 DEF Merge, EmittedOK, IsEmitting
<1> QED  BY <1>9, <1>10, <1>11 DEF Inv


\* A queue without its first element, and one with more at its end.
LEMMA QueueShrinks ==
  ASSUME NEW S, NEW q \in Seq(S), q # <<>>
  PROVE  /\ Head(q) \in S /\ Tail(q) \in Seq(S)
         /\ \A h \in ToSet(q) : h = Head(q) \/ h \in ToSet(Tail(q))
<1>1. /\ Head(q) \in S /\ Tail(q) \in Seq(S) /\ Len(Tail(q)) = Len(q) - 1
      /\ \A i \in 1..Len(Tail(q)) : Tail(q)[i] = q[i + 1]
  BY HeadTailProperties
<1>2. Head(q) = q[1] /\ Len(q) \in Nat /\ DOMAIN q = 1..Len(q)
  OBVIOUS
<1>3. \A i \in DOMAIN q : i = 1 \/ (i - 1 \in 1..Len(q) - 1 /\ (i - 1) + 1 = i)
  BY <1>2
<1>4. DOMAIN Tail(q) = 1..Len(q) - 1
  BY <1>1
<1>5. \A i \in DOMAIN q : q[i] = Head(q) \/ q[i] \in ToSet(Tail(q))
  BY <1>1, <1>2, <1>3, <1>4 DEF ToSet
<1> QED  BY <1>1, <1>5 DEF ToSet

LEMMA QueueGrows ==
  ASSUME NEW S, NEW q \in Seq(S), NEW r \in Seq(S)
  PROVE  q \o r \in Seq(S) /\ ToSet(q \o r) = ToSet(q) \cup ToSet(r)
<1>1. /\ q \o r \in Seq(S) /\ DOMAIN (q \o r) = 1..Len(q) + Len(r)
      /\ DOMAIN q = 1..Len(q) /\ DOMAIN r = 1..Len(r)
      /\ Len(q) \in Nat /\ Len(r) \in Nat
  OBVIOUS
<1>2. /\ \A i \in 1..Len(q) : i \in 1..Len(q) + Len(r) /\ (q \o r)[i] = q[i]
      /\ \A i \in 1..Len(r) : Len(q) + i \in 1..Len(q) + Len(r) /\ (q \o r)[Len(q) + i] = r[i]
  OBVIOUS
<1>3. \A i \in 1..Len(q) + Len(r) :
        i \in 1..Len(q) \/ (i - Len(q) \in 1..Len(r) /\ Len(q) + (i - Len(q)) = i)
  BY <1>1
<1>4. ToSet(q \o r) \subseteq ToSet(q) \cup ToSet(r)
  BY <1>1, <1>2, <1>3 DEF ToSet
<1>5. ToSet(q) \cup ToSet(r) \subseteq ToSet(q \o r)
  BY <1>1, <1>2 DEF ToSet
<1> QED  BY <1>1, <1>4, <1>5

\* What remains of the invariant when only the queue and the groups change.
LEMMA EmissionKeepsTheRest ==
  ASSUME Inv, solving = "schedule" \/ IsEmitting, IsEmitting',
         solving' = "emit" \/ queue' = <<>>,
         UNCHANGED <<order, low, node_stack, work_stack, comps>>, UNCHANGED builder_vars
  PROVE  ComponentsOK' /\ StackOK' /\ WorkOK' /\ StageOK'
<1>1. ComponentsOK' /\ StackOK' /\ WorkOK'
  BY DEF Inv, ComponentsOK, StackOK, WorkOK, Covered
<1>2. StageOK'
  BY OrdersStay DEF Inv, StageOK, Stages, IsEmitting, HasComponents, builder_vars
<1> QED  BY <1>1, <1>2

LEMMA ScheduleKeepsInv ==
  ASSUME Inv, Schedule, UNCHANGED builder_vars
  PROVE  Inv'
<1>1. order = HeadOrder /\ HasComponents /\ emitted = {} /\ result = <<>>
  BY DEF Schedule, Inv, StageOK, IsEmitting, HasComponents
<1>2. Heads \subseteq Item
  BY <1>1, ComponentsPartition
<1> DEFINE first == {h \in DOMAIN order : order[h].after = {}}
<1>3. first = {h \in Heads : {g \in Heads : Leads(g, h)} = {}}
  BY <1>1 DEF HeadOrder
<1>4. queue' \in Seq(Heads) /\ ToSet(queue') = first
  <2>1. queue' \in Orders(first) /\ first \subseteq Item
    BY <1>2, <1>3 DEF Schedule
  <2> HIDE DEF first
  <2>2. queue' \in Seq(first) /\ ToSet(queue') = first
    BY <2>1, OrdersAre
  <2>3. first \subseteq Heads
    BY <1>3
  <2> QED  BY <2>2, <2>3
<1>5. ComponentsOK' /\ StackOK' /\ WorkOK' /\ StageOK'
  BY EmissionKeepsTheRest DEF Schedule, IsEmitting
<1>6. EmittedOK'
  <2>1. Heads' = Heads /\ \A g, h : Leads(g, h)' = Leads(g, h)
    BY OrdersStay DEF Schedule
  <2>2. emitted' = {} /\ result' = <<>>
    BY <1>1 DEF Schedule
  <2> QED  BY <1>3, <1>4, <2>1, <2>2 DEF EmittedOK
<1> QED  BY <1>5, <1>6 DEF Inv

LEMMA FinishKeepsInv ==
  ASSUME Inv, Finish, UNCHANGED builder_vars
  PROVE  Inv'
<1>1. ComponentsOK' /\ StackOK' /\ WorkOK' /\ StageOK'
  BY EmissionKeepsTheRest DEF Finish, IsEmitting
<1>2. EmittedOK'
  <2>1. Heads' = Heads /\ \A g, h : Leads(g, h)' = Leads(g, h)
    BY OrdersStay DEF Finish
  <2>2. \A i : HeadOf(i)' = HeadOf(i)
    BY DEF Finish, HeadOf
  <2> QED  BY <2>1, <2>2 DEF Finish, Inv, EmittedOK, IsEmitting
<1> QED  BY <1>1, <1>2 DEF Inv


LEMMA EmitKeepsInv ==
  ASSUME Inv, Emit, UNCHANGED builder_vars
  PROVE  Inv'
<1> DEFINE h == Head(queue)
<1>1. order = HeadOrder /\ HasComponents /\ IsEmitting
  BY DEF Emit, Inv, StageOK, IsEmitting, HasComponents
<1>2. Heads \subseteq Item
  BY <1>1, ComponentsPartition
<1>3. EmittedOK /\ queue \in Seq(Heads) /\ queue # <<>>
  BY DEF Inv, EmittedOK, Emit
<1>4. /\ h \in Heads /\ Tail(queue) \in Seq(Heads)
      /\ \A g \in ToSet(queue) : g = h \/ g \in ToSet(Tail(queue))
  BY <1>3, QueueShrinks
<1>5. /\ order[h].before = {g \in Heads : Leads(h, g)}
      /\ order[h].after = {g \in Heads : Leads(g, h)}
  BY <1>1, <1>4 DEF HeadOrder
<1>6. ComponentsOK' /\ StackOK' /\ WorkOK' /\ StageOK'
  BY <1>1, EmissionKeepsTheRest DEF Emit, IsEmitting
<1>7. Heads' = Heads /\ comps' = comps /\ \A f, g : Leads(f, g)' = Leads(f, g)
  BY OrdersStay DEF Emit
<1>8. \A g \in Heads \ emitted : {f \in Heads : Leads(f, g)} \subseteq emitted => g \in ToSet(queue)
  BY <1>1, <1>3 DEF EmittedOK
<1> HIDE DEF h
<1>9. CASE ~IsReady(h)
  <2>1. queue' = Tail(queue) /\ UNCHANGED <<emitted, result>>
    BY <1>9 DEF Emit, Dropped, h
  <2>2. \A i : HeadOf(i)' = HeadOf(i)
    BY <2>1 DEF HeadOf
  <2>3. \A g \in Heads \ emitted :
          {f \in Heads : Leads(f, g)} \subseteq emitted => g \in ToSet(Tail(queue))
    BY <1>4, <1>5, <1>8, <1>9 DEF IsReady
  <2>4. EmittedOK'
    BY <1>3, <1>4, <1>7, <2>1, <2>2, <2>3 DEF EmittedOK
  <2> QED  BY <1>6, <2>4 DEF Inv
<1>10. CASE IsReady(h)
  <2>1. PICK later \in Orders(order[h].before \ (emitted \cup {h})) :
          /\ emitted' = emitted \cup {h}
          /\ result' = Append(result, ComponentOf(h))
          /\ queue' = Tail(queue) \o later
    BY <1>10, Zenon DEF Emit, h
  <2>2. ComponentOf(h) \in comps /\ Head(ComponentOf(h)) = h
    BY <1>1, <1>4, ComponentsPartition
  <2>3. later \in Seq(Heads) /\ ToSet(later) = order[h].before \ (emitted \cup {h})
    <3> DEFINE S == order[h].before \ (emitted \cup {h})
    <3>1. S \subseteq Heads /\ S \subseteq Item /\ later \in Orders(S)
      BY <1>2, <1>5
    <3> HIDE DEF S
    <3>2. later \in Seq(S) /\ ToSet(later) = S
      BY <3>1, OrdersAre
    <3>3. later \in Seq(Heads)
      BY <3>1, <3>2
    <3> QED  BY <3>2, <3>3 DEF S
  <2>4. queue' \in Seq(Heads) /\ ToSet(queue') = ToSet(Tail(queue)) \cup ToSet(later)
    <3>1. Tail(queue) \in Seq(Heads) /\ later \in Seq(Heads)
      BY <1>4, <2>3
    <3>2. /\ Tail(queue) \o later \in Seq(Heads)
          /\ ToSet(Tail(queue) \o later) = ToSet(Tail(queue)) \cup ToSet(later)
      BY <3>1, QueueGrows, Zenon
    <3> QED  BY <2>1, <3>2, Zenon
  <2>5. PICK n \in Nat : n = Len(result) /\ result \in Seq(comps) /\ DOMAIN result = 1..n
    BY <1>3 DEF EmittedOK
  <2>6. /\ result' \in Seq(comps) /\ DOMAIN result' = 1..n + 1
        /\ \A i \in 1..n : result'[i] = result[i]
        /\ result'[n + 1] = ComponentOf(h)
    BY <2>1, <2>2, <2>5
  <2>7. /\ \A i : HeadOf(i)' = Head(result'[i]) /\ HeadOf(i) = Head(result[i])
        /\ Head(result'[n + 1]) = h
        /\ \A i \in 1..n : Head(result'[i]) = HeadOf(i)
    BY <2>2, <2>6 DEF HeadOf
  <2>8. /\ h \notin emitted
        /\ {g \in Heads : Leads(g, h)} \subseteq emitted
        /\ emitted = {HeadOf(i) : i \in 1..n}
    BY <1>3, <1>5, <1>10, <2>5 DEF IsReady, EmittedOK
  <2>9. /\ \A i, j \in 1..n : HeadOf(i) = HeadOf(j) => i = j
        /\ \A i \in 1..n : \A g \in Heads :
             Leads(g, HeadOf(i)) => \E j \in 1..i : HeadOf(j) = g
    BY <1>3, <2>5 DEF EmittedOK
  <2>10. 1..n + 1 = (1..n) \cup {n + 1}
    BY <2>5
  <2>11. emitted' = {Head(result'[i]) : i \in 1..n + 1}
    <3>1. \A f \in emitted' : \E i \in 1..n + 1 : Head(result'[i]) = f
      BY <2>1, <2>7, <2>8, <2>10
    <3>2. \A i \in 1..n + 1 : Head(result'[i]) \in emitted'
      BY <2>1, <2>7, <2>8, <2>10
    <3> QED  BY <3>1, <3>2
  <2>12. \A i, j \in 1..n + 1 : Head(result'[i]) = Head(result'[j]) => i = j
    BY <2>7, <2>8, <2>9, <2>10
  <2>13. \A i \in 1..n + 1 : \A g \in Heads :
           Leads(g, Head(result'[i])) => \E j \in 1..i : Head(result'[j]) = g
    <3> SUFFICES ASSUME NEW i \in 1..n + 1, NEW g \in Heads, Leads(g, Head(result'[i]))
                 PROVE  \E j \in 1..i : Head(result'[j]) = g
      OBVIOUS
    <3>1. CASE i \in 1..n
      <4>1. PICK j \in 1..i : HeadOf(j) = g
        BY <2>7, <2>9, <3>1
      <4>2. j \in 1..n
        BY <2>5, <3>1
      <4> QED  BY <2>7, <4>1, <4>2
    <3>2. CASE i = n + 1
      <4>1. PICK j \in 1..n : HeadOf(j) = g
        BY <2>7, <2>8, <3>2
      <4>2. j \in 1..i
        BY <2>5, <3>2
      <4> QED  BY <2>7, <4>1, <4>2
    <3> QED  BY <2>10, <3>1, <3>2
  <2>14. \A g \in Heads \ emitted' :
           {f \in Heads : Leads(f, g)} \subseteq emitted' => g \in ToSet(queue')
    <3> SUFFICES ASSUME NEW g \in Heads, g \notin emitted',
                        {f \in Heads : Leads(f, g)} \subseteq emitted'
                 PROVE  g \in ToSet(queue')
      OBVIOUS
    <3>1. g \notin emitted /\ g # h
      BY <2>1
    <3>2. CASE Leads(h, g)
      BY <1>5, <2>3, <2>4, <3>1, <3>2
    <3>3. CASE ~Leads(h, g)
      <4>1. {f \in Heads : Leads(f, g)} \subseteq emitted
        BY <2>1, <3>3
      <4> QED  BY <1>4, <1>8, <2>4, <3>1, <4>1
    <3> QED  BY <3>2, <3>3
  <2>15. EmittedOK'
    BY <1>7, <2>4, <2>6, <2>7, <2>11, <2>12, <2>13, <2>14 DEF EmittedOK
  <2> QED  BY <1>6, <2>15 DEF Inv
<1> QED  BY <1>9, <1>10


LEMMA InvIsInductive == Inv /\ [Next]_vars => Inv'
<1> SUFFICES ASSUME Inv, [Next]_vars PROVE Inv'
  OBVIOUS
<1>1. CASE Build /\ UNCHANGED solver_vars
  BY <1>1, BuildKeepsInv
<1>2. CASE Solve /\ UNCHANGED builder_vars
  BY <1>2, ComputeGroupOrderKeepsInv, StartNodeKeepsInv, VisitKeepsInv, LeaveKeepsInv,
     FinishSCCKeepsInv, MergeKeepsInv, ScheduleKeepsInv, EmitKeepsInv, FinishKeepsInv DEF Solve
<1>3. CASE UNCHANGED vars
  <2>1. UNCHANGED builder_vars /\ UNCHANGED solver_vars
    BY <1>3 DEF vars
  <2>2. ComponentsOK' /\ StackOK' /\ WorkOK'
    BY <2>1 DEF solver_vars, Inv, ComponentsOK, StackOK, WorkOK, Covered
  <2>3. StageOK'
    BY <2>1, OrdersStay
    DEF solver_vars, builder_vars, Inv, StageOK, Stages, IsEmitting, HasComponents
  <2>4. EmittedOK'
    <3>1. Heads' = Heads /\ \A g, h : Leads(g, h)' = Leads(g, h)
      BY <2>1, OrdersStay DEF solver_vars
    <3>2. \A i : HeadOf(i)' = HeadOf(i)
      BY <2>1 DEF solver_vars, HeadOf
    <3> QED  BY <2>1, <3>1, <3>2 DEF solver_vars, Inv, EmittedOK, IsEmitting
  <2> QED  BY <2>2, <2>3, <2>4 DEF Inv
<1> QED  BY <1>1, <1>2, <1>3 DEF Next

LEMMA InvHolds == Spec => []Inv
BY InitInv, InvIsInductive, PTL DEF Spec

-----------------------------------------------------------------------------
(***************************************************************************)
(* Theorems.                                                               *)
(***************************************************************************)

\* The assertion of compute_scc, that nothing is left on its stack, holds.
AssertionHolds == solving # "asserts"

THEOREM SearchEndsClean == Spec => []AssertionHolds
<1>1. Inv => AssertionHolds
  BY DEF Inv, StageOK, AssertionHolds
<1> QED  BY <1>1, InvHolds, PTL

\* Groups are not empty, hold an item once, and none that another one holds: no
\* item is tried twice by the easy hints they become.
GroupsAreApart ==
  /\ \A i \in DOMAIN result : result[i] # <<>> /\ result[i] \in Seq(Item) /\ IsInjective(result[i])
  /\ \A i, j \in DOMAIN result : ToSet(result[i]) \cap ToSet(result[j]) # {} => i = j

LEMMA GroupsAreComponents ==
  ASSUME Inv
  PROVE  \A i \in DOMAIN result : result[i] \in comps
BY DEF Inv, EmittedOK

THEOREM NoItemTwice == Spec => []GroupsAreApart
<1>1. Inv => GroupsAreApart
  <2> SUFFICES ASSUME Inv PROVE GroupsAreApart
    OBVIOUS
  <2>1. \A i, j \in DOMAIN result : Head(result[i]) = Head(result[j]) => i = j
    BY DEF Inv, EmittedOK, HeadOf
  <2> QED
    BY <2>1, GroupsAreComponents DEF Inv, ComponentsOK, IsChain, GroupsAreApart
<1> QED  BY <1>1, InvHolds, PTL

\* No group comes before one with an item that one of its own is to follow.
EldersFirst ==
  \A e \in GroupOrder, i \in DOMAIN result :
    e[2] \in ToSet(result[i]) => \E j \in 1..i : e[1] \in ToSet(result[j])

THEOREM NoItemBeforeItsElders == Spec => []EldersFirst
<1>1. Inv => EldersFirst
  <2> SUFFICES ASSUME Inv, NEW e \in GroupOrder, NEW i \in DOMAIN result,
                      e[2] \in ToSet(result[i])
               PROVE  \E j \in 1..i : e[1] \in ToSet(result[j])
    BY DEF EldersFirst
  <2>1. HasComponents
    BY DEF Inv, StageOK, IsEmitting, HasComponents
  <2>2. \A j \in DOMAIN result : HeadOf(j) \in Heads /\ result[j] = ComponentOf(HeadOf(j))
    BY <2>1, GroupsAreComponents, ComponentsPartition DEF HeadOf
  <2>3. e[1] \in Item /\ e[2] \in Item
    BY GroupOrderIs
  <2>4. Merged(e[2]) = HeadOf(i)
    BY <2>1, <2>2, ComponentsPartition
  <2>5. Merged(e[1]) \in Heads /\ e[1] \in ToSet(ComponentOf(Merged(e[1])))
    BY <2>1, <2>3, ComponentsPartition
  <2>6. i \in 1..i /\ 1..i \subseteq DOMAIN result
    BY DEF Inv, EmittedOK
  <2>7. CASE Merged(e[1]) = HeadOf(i)
    BY <2>2, <2>5, <2>6, <2>7
  <2>8. CASE Merged(e[1]) # HeadOf(i)
    <3>1. Leads(Merged(e[1]), HeadOf(i))
      BY <2>4, <2>8 DEF Leads
    <3>2. PICK j \in 1..i : HeadOf(j) = Merged(e[1])
      BY <2>5, <3>1 DEF Inv, EmittedOK
    <3> QED  BY <2>2, <2>5, <2>6, <3>2
  <2> QED  BY <2>7, <2>8
<1> QED  BY <1>1, InvHolds, PTL

\* In the end every item is in a component, and one that is not emitted waits
\* for another one that is not: the queue forgets nothing that is ready.
LeftBehind == comps \ ToSet(result)
NothingForgotten ==
  solving = "done" =>
    /\ \A x \in Item : \E com \in comps : x \in ToSet(com)
    /\ \A com \in LeftBehind : \E other \in LeftBehind \ {com}, e \in GroupOrder :
         e[1] \in ToSet(other) /\ e[2] \in ToSet(com)

THEOREM QueueForgetsNothing == Spec => []NothingForgotten
<1>1. Inv => NothingForgotten
  <2> SUFFICES ASSUME Inv, solving = "done"
               PROVE  /\ \A x \in Item : \E com \in comps : x \in ToSet(com)
                      /\ \A com \in LeftBehind : \E other \in LeftBehind \ {com}, e \in GroupOrder :
                           e[1] \in ToSet(other) /\ e[2] \in ToSet(com)
    BY DEF NothingForgotten
  <2>1. HasComponents /\ IsEmitting /\ queue = <<>>
    BY DEF Inv, StageOK, HasComponents, IsEmitting
  <2>2. \A x \in Item : \E com \in comps : x \in ToSet(com)
    BY <2>1, ComponentsPartition
  <2>3. ASSUME NEW com \in LeftBehind
        PROVE  \E other \in LeftBehind \ {com}, e \in GroupOrder :
                 e[1] \in ToSet(other) /\ e[2] \in ToSet(com)
    <3>1. com \in comps /\ Head(com) \in Heads /\ ComponentOf(Head(com)) = com
      BY <2>1, ComponentsPartition DEF LeftBehind
    <3>2. Head(com) \notin emitted
      <4>1. \A i \in DOMAIN result : result[i] \in comps /\ result[i] # com
        BY GroupsAreComponents DEF LeftBehind, ToSet
      <4> QED  BY <2>1, <3>1, <4>1, ComponentsPartition DEF Inv, EmittedOK, HeadOf
    <3>3. PICK g \in Heads : Leads(g, Head(com)) /\ g \notin emitted
      BY <2>1, <3>1, <3>2, EmptyChain DEF Inv, EmittedOK
    <3>4. PICK e \in GroupOrder : Merged(e[1]) = g /\ Merged(e[2]) = Head(com)
      BY <3>3 DEF Leads
    <3>5. e[1] \in ToSet(ComponentOf(g)) /\ e[2] \in ToSet(com)
      BY <2>1, <3>1, <3>4, ComponentsPartition, GroupOrderIs
    <3>6. ComponentOf(g) \in comps /\ Head(ComponentOf(g)) = g /\ g # Head(com)
      BY <2>1, <3>3, ComponentsPartition DEF Leads
    <3>7. ComponentOf(g) \notin ToSet(result)
      BY <3>3, <3>6 DEF Inv, EmittedOK, HeadOf, ToSet
    <3> QED  BY <3>5, <3>6, <3>7 DEF LeftBehind
  <2> QED  BY <2>2, <2>3
<1> QED  BY <1>1, InvHolds, PTL

-----------------------------------------------------------------------------
(***************************************************************************)
(* The relation on items, and what is a component of it.                   *)
(***************************************************************************)

Closed(S) == \A e \in GroupOrder : e[1] \in S => e[2] \in S
Reaches(x, y) == \A S \in SUBSET Item : x \in S /\ Closed(S) => y \in S
IsComponent(com) ==
  \A x \in ToSet(com), y \in Item : y \in ToSet(com) <=> Reaches(x, y) /\ Reaches(y, x)

LEMMA ReachingIs ==
  /\ \A x : Reaches(x, x)
  /\ \A x, y, z : Reaches(x, y) /\ Reaches(y, z) => Reaches(x, z)
  /\ \A x, y \in Item : Reaches(x, y) <=> <<x, y>> \in ComesBefore
<1>1. \A x : Reaches(x, x)
  BY DEF Reaches
<1>2. \A x, y, z : Reaches(x, y) /\ Reaches(y, z) => Reaches(x, z)
  BY DEF Reaches
<1>3. \A x, y \in Item : Reaches(x, y) <=> <<x, y>> \in ComesBefore
  BY DEF Reaches, Closed, ComesBefore
<1> QED  BY <1>1, <1>2, <1>3

\* What the code calls before and after are the edges.
LEMMA OrderIs ==
  ASSUME order = ItemOrder
  PROVE  /\ \A x \in Item : order[x].before \subseteq Item /\ order[x].after \subseteq Item
         /\ \A x \in Item : \A y \in order[x].before : x \in order[y].after /\ Reaches(x, y)
         /\ \A S \in SUBSET Item : (\A x \in S : order[x].before \subseteq S) => Closed(S)
         /\ \A e \in GroupOrder : e[2] \in order[e[1]].before /\ e[1] \in order[e[2]].after
<1>1. \A x \in Item : /\ order[x].before = {e[2] : e \in {e \in GroupOrder : e[1] = x}}
                      /\ order[x].after = {e[1] : e \in {e \in GroupOrder : e[2] = x}}
  BY DEF ItemOrder
<1>2. \A e \in GroupOrder : e[1] \in Item /\ e[2] \in Item
  BY GroupOrderIs
<1>3. \A e \in GroupOrder : e[2] \in order[e[1]].before /\ e[1] \in order[e[2]].after
  BY <1>1, <1>2
<1>4. \A x \in Item : \A y \in order[x].before : \E e \in GroupOrder : e[1] = x /\ e[2] = y
  BY <1>1
<1>5. \A x \in Item : \A y \in order[x].before : x \in order[y].after /\ Reaches(x, y)
  <2> SUFFICES ASSUME NEW x \in Item, NEW y \in order[x].before
               PROVE  x \in order[y].after /\ Reaches(x, y)
    OBVIOUS
  <2>1. PICK e \in GroupOrder : e[1] = x /\ e[2] = y
    BY <1>4
  <2> QED  BY <1>3, <2>1 DEF Reaches, Closed
<1>6. \A S \in SUBSET Item : (\A x \in S : order[x].before \subseteq S) => Closed(S)
  BY <1>2, <1>3 DEF Closed
<1>7. \A x \in Item : order[x].before \subseteq Item /\ order[x].after \subseteq Item
  BY <1>1, <1>2
<1> QED  BY <1>3, <1>5, <1>6, <1>7

\* An item that leads to none, or that none leads to, is a component.
LEMMA IsolatedIsComponent ==
  ASSUME order = ItemOrder, NEW x \in Item, Isolated(x)
  PROVE  IsComponent(<<x>>)
<1>1. ToSet(<<x>>) = {x}
  BY SingleChain
<1> SUFFICES ASSUME NEW y \in Item, Reaches(x, y), Reaches(y, x) PROVE y = x
  BY <1>1, ReachingIs DEF IsComponent
<1>2. CASE order[x].before = {}
  <2>1. Closed({x})
    BY <1>2, OrderIs
  <2> QED  BY <2>1 DEF Reaches
<1>3. CASE order[x].after = {}
  <2>1. Closed(Item \ {x})
    <3>1. \A e \in GroupOrder : e[2] \in Item /\ e[2] # x
      BY <1>3, OrderIs, GroupOrderIs
    <3> QED  BY <3>1 DEF Closed
  <2> QED  BY <2>1 DEF Reaches
<1> QED  BY <1>2, <1>3 DEF Isolated

\* The lowest of some numbers.
LEMMA LowestIs ==
  ASSUME NEW S \in SUBSET Nat, S # {}
  PROVE  Lowest(S) \in S /\ \A n \in S : Lowest(S) <= n
<1>1. PICK n \in S : \A m \in S : <<m, n>> \notin OpToRel(<, Nat)
  BY NatLessThanWellFounded, WFMin
<1>2. \A m \in S : n <= m
  <2>1. ASSUME NEW m \in S PROVE ~(m < n)
    BY <1>1 DEF OpToRel
  <2> QED  BY <2>1
<1> QED  BY <1>2, Zenon DEF Lowest

-----------------------------------------------------------------------------
(***************************************************************************)
(* The invariant of the search: cov is what is in components, f the        *)
(* numbers, s the stack of nodes, w the stack of work.                     *)
(***************************************************************************)

Frame == [node : Item, idx : Nat, num : Nat]

StacksOK(cov, s, w) ==
  /\ cov \subseteq Item /\ IsChain(s) /\ cov \cap ToSet(s) = {}
  /\ w \in Seq(Frame)
  /\ \A k \in DOMAIN w : w[k].idx < Len(s) /\ w[k].node = s[w[k].idx + 1]
  /\ \A k, l \in DOMAIN w : k < l => w[k].idx < w[l].idx
  /\ w # <<>> => w[1].idx = 0

\* What is in a component leads to nothing outside of components, but for items
\* that nothing leads to.
DoneOK(cov) == \A x \in cov : order[x].after # {} => order[x].before \subseteq cov

\* Numbers are below all those of work further up.
NumbersOK(f, cov, s, w) ==
  /\ f \in [cov \cup ToSet(s) -> Nat]
  /\ \A x \in cov : f[x] = OutOfReach
  /\ \A p \in DOMAIN s : order[s[p]].after # {} /\ f[s[p]] < Cardinality(DOMAIN f)
  /\ \A k \in DOMAIN w : w[k].num < Cardinality(DOMAIN f) /\ f[w[k].node] <= w[k].num
  /\ \A k \in DOMAIN w, p \in DOMAIN s : p <= w[k].idx => f[s[p]] < w[k].num
  /\ \A k, l \in DOMAIN w : k < l => w[k].num < w[l].num

\* A node that is worked on reaches all above it, and each on the stack reaches
\* one that is worked on and that its number is not below.
ReachOK(f, s, w) ==
  /\ \A k \in DOMAIN w : \A p \in DOMAIN s : p > w[k].idx => Reaches(w[k].node, s[p])
  /\ \A p \in DOMAIN s : \E k \in DOMAIN w : w[k].num <= f[s[p]] /\ Reaches(s[p], w[k].node)

\* A node that has been left has seen its successors, is told how far down they
\* are, and has told the one it came from.
IsLeft(p, w) == \A k \in DOMAIN w : p # w[k].idx + 1
Saw(f, s, w, x) ==
  \A y \in order[x].before :
    /\ y \in DOMAIN f
    /\ \A q \in DOMAIN s, k \in DOMAIN w : s[q] = y /\ q <= w[k].idx => f[x] < w[k].num
LeftOK(f, s, w) ==
  \A p \in DOMAIN s : IsLeft(p, w) =>
    /\ Saw(f, s, w, s[p])
    /\ \A k \in DOMAIN w :
         w[k].idx < p /\ (\A l \in DOMAIN w : l > k => p <= w[l].idx) => f[w[k].node] <= f[s[p]]

Searching(f, cov, s, w) ==
  /\ StacksOK(cov, s, w) /\ DoneOK(cov)
  /\ NumbersOK(f, cov, s, w) /\ ReachOK(f, s, w) /\ LeftOK(f, s, w)

\* Types that follow.
LEMMA StacksAre ==
  ASSUME NEW cov, NEW s, NEW w, StacksOK(cov, s, w)
  PROVE  /\ Len(s) \in Nat /\ DOMAIN s = 1..Len(s) /\ Len(w) \in Nat /\ DOMAIN w = 1..Len(w)
         /\ \A p \in DOMAIN s : s[p] \in Item /\ s[p] \in ToSet(s) /\ s[p] \notin cov
         /\ \A p, q \in DOMAIN s : s[p] = s[q] => p = q
         /\ ToSet(s) \subseteq Item /\ \A x \in ToSet(s) : \E p \in DOMAIN s : x = s[p]
         /\ \A k \in DOMAIN w : /\ w[k] \in Frame /\ w[k].idx \in Nat /\ w[k].num \in Nat
                                /\ w[k].node \in Item /\ w[k].idx + 1 \in DOMAIN s
<1>1. /\ s \in Seq(Item) /\ Len(s) \in Nat /\ DOMAIN s = 1..Len(s)
      /\ w \in Seq(Frame) /\ Len(w) \in Nat /\ DOMAIN w = 1..Len(w)
  BY DEF StacksOK, IsChain
<1>2. \A k \in DOMAIN w : w[k] \in Frame
  BY <1>1, ElementOfSeq
<1>3. \A p \in DOMAIN s : s[p] \in Item /\ s[p] \in ToSet(s) /\ s[p] \notin cov
  BY <1>1, ElementOfSeq DEF ToSet, StacksOK
<1>4. \A k \in DOMAIN w : w[k].idx \in Nat /\ w[k].num \in Nat /\ w[k].node \in Item
  BY <1>2 DEF Frame
<1>5. \A k \in DOMAIN w : w[k].idx + 1 \in DOMAIN s
  BY <1>1, <1>4 DEF StacksOK
<1>6. \A p, q \in DOMAIN s : s[p] = s[q] => p = q
  BY DEF StacksOK, IsChain, IsInjective
<1>7. ToSet(s) \subseteq Item /\ \A x \in ToSet(s) : \E p \in DOMAIN s : x = s[p]
  BY <1>3 DEF ToSet
<1> QED  BY <1>1, <1>2, <1>3, <1>4, <1>5, <1>6, <1>7

\* There are more numbers than items.
LEMMA NumbersCounted ==
  ASSUME NEW cov, NEW s, NEW w, NEW f, StacksOK(cov, s, w), NumbersOK(f, cov, s, w)
  PROVE  /\ DOMAIN f = cov \cup ToSet(s) /\ DOMAIN f \subseteq Item
         /\ Cardinality(DOMAIN f) \in Nat /\ OutOfReach \in Nat
         /\ Cardinality(DOMAIN f) < OutOfReach
         /\ \A x \in DOMAIN f : f[x] \in Nat
<1>1. DOMAIN f = cov \cup ToSet(s) /\ \A x \in DOMAIN f : f[x] \in Nat
  BY DEF NumbersOK
<1>2. DOMAIN f \subseteq Item
  <2>1. cov \subseteq Item
    BY DEF StacksOK
  <2>2. ToSet(s) \subseteq Item
    BY StacksAre
  <2> QED  BY <1>1, <2>1, <2>2
<1>3. /\ Cardinality(DOMAIN f) \in Nat /\ Cardinality(Item) \in Nat
      /\ Cardinality(DOMAIN f) <= Cardinality(Item)
  BY <1>2, ItemsAre, ItemsCounted, FS_Subset
<1> QED  BY <1>1, <1>2, <1>3 DEF OutOfReach

\* A node hears from successors, some of which become components: its number
\* goes down to one of theirs.
LEMMA HearingKeeps ==
  ASSUME order = ItemOrder, NEW f, NEW cov, NEW s, NEW w, Searching(f, cov, s, w), w # <<>>,
         NEW x, x = w[Len(w)].node,
         NEW fresh \in SUBSET (Item \ DOMAIN f), \A y \in fresh : order[y].before = {},
         NEW heard \in SUBSET (order[x].before \cap DOMAIN f),
         NEW g \in [DOMAIN f \cup fresh -> Nat],
         \A y \in fresh : g[y] = OutOfReach, \A y \in DOMAIN f \ {x} : g[y] = f[y],
         g[x] <= f[x], g[x] = f[x] \/ \E y \in heard : g[x] = f[y]
  PROVE  Searching(g, cov \cup fresh, s, w)
<1>1. StacksOK(cov, s, w) /\ DoneOK(cov) /\ NumbersOK(f, cov, s, w) /\ ReachOK(f, s, w) /\ LeftOK(f, s, w)
  BY DEF Searching
<1>2. /\ Len(s) \in Nat /\ DOMAIN s = 1..Len(s) /\ Len(w) \in Nat /\ DOMAIN w = 1..Len(w)
      /\ \A p \in DOMAIN s : s[p] \in Item /\ s[p] \in ToSet(s) /\ s[p] \notin cov
      /\ \A p, q \in DOMAIN s : s[p] = s[q] => p = q
      /\ ToSet(s) \subseteq Item /\ \A y \in ToSet(s) : \E p \in DOMAIN s : y = s[p]
      /\ \A k \in DOMAIN w : /\ w[k].idx \in Nat /\ w[k].num \in Nat
                             /\ w[k].node \in Item /\ w[k].idx + 1 \in DOMAIN s
  BY <1>1, StacksAre
<1>3. /\ DOMAIN f = cov \cup ToSet(s) /\ DOMAIN f \subseteq Item
      /\ Cardinality(DOMAIN f) \in Nat /\ OutOfReach \in Nat
      /\ Cardinality(DOMAIN f) < OutOfReach
      /\ \A y \in DOMAIN f : f[y] \in Nat
  BY <1>1, NumbersCounted, Zenon
<1> DEFINE m == Len(w)
<1>4. m \in DOMAIN w /\ x = w[m].node /\ x = s[w[m].idx + 1] /\ w[m].idx + 1 \in DOMAIN s /\ x \in Item
  <2>1. w \in Seq(Frame) /\ Len(w) # 0
    BY <1>1 DEF StacksOK
  <2>2. m \in DOMAIN w
    BY <1>2, <2>1
  <2> QED  BY <1>1, <1>2, <2>2 DEF StacksOK
<1>5. \A y \in DOMAIN f : g[y] <= f[y] /\ g[y] \in Nat
  BY <1>3
<1>6. \A k \in DOMAIN w : w[k].node \in DOMAIN f /\ w[k].node \in ToSet(s)
  BY <1>1, <1>2, <1>3 DEF StacksOK
<1>7. \A p \in DOMAIN s : s[p] \in DOMAIN f
  BY <1>2, <1>3
<1>8. Cardinality(DOMAIN g) \in Nat /\ Cardinality(DOMAIN f) <= Cardinality(DOMAIN g)
  <2>1. DOMAIN g \subseteq Item /\ DOMAIN f \subseteq DOMAIN g
    BY <1>3
  <2> QED  BY <2>1, ItemsAre, ItemsCounted, FS_Subset
<1>9. StacksOK(cov \cup fresh, s, w)
  BY <1>1, <1>3 DEF StacksOK
<1>10. DoneOK(cov \cup fresh)
  BY <1>1 DEF DoneOK
<1>11. NumbersOK(g, cov \cup fresh, s, w)
  <2>1. g \in [(cov \cup fresh) \cup ToSet(s) -> Nat]
    BY <1>3
  <2>2. \A y \in cov \cup fresh : g[y] = OutOfReach
    BY <1>1, <1>2, <1>3, <1>4 DEF NumbersOK
  <2>3. \A p \in DOMAIN s : order[s[p]].after # {} /\ g[s[p]] < Cardinality(DOMAIN g)
    <3> SUFFICES ASSUME NEW p \in DOMAIN s
                 PROVE  order[s[p]].after # {} /\ g[s[p]] < Cardinality(DOMAIN g)
      OBVIOUS
    <3>1. order[s[p]].after # {} /\ f[s[p]] < Cardinality(DOMAIN f)
      BY <1>1 DEF NumbersOK
    <3>2. g[s[p]] <= f[s[p]] /\ g[s[p]] \in Nat /\ f[s[p]] \in Nat
      BY <1>3, <1>5, <1>7
    <3> QED  BY <1>3, <1>8, <3>1, <3>2
  <2>4. \A k \in DOMAIN w : w[k].num < Cardinality(DOMAIN g) /\ g[w[k].node] <= w[k].num
    <3> SUFFICES ASSUME NEW k \in DOMAIN w
                 PROVE  w[k].num < Cardinality(DOMAIN g) /\ g[w[k].node] <= w[k].num
      OBVIOUS
    <3>1. w[k].num < Cardinality(DOMAIN f) /\ f[w[k].node] <= w[k].num
      BY <1>1 DEF NumbersOK
    <3>2. g[w[k].node] <= f[w[k].node] /\ g[w[k].node] \in Nat /\ f[w[k].node] \in Nat
      BY <1>3, <1>5, <1>6
    <3>3. w[k].num \in Nat
      BY <1>2
    <3> QED  BY <1>3, <1>8, <3>1, <3>2, <3>3
  <2>5. \A k \in DOMAIN w, p \in DOMAIN s : p <= w[k].idx => g[s[p]] < w[k].num
    BY <1>1, <1>2, <1>3, <1>5, <1>7 DEF NumbersOK
  <2>6. \A k, l \in DOMAIN w : k < l => w[k].num < w[l].num
    BY <1>1 DEF NumbersOK
  <2> QED  BY <2>1, <2>2, <2>3, <2>4, <2>5, <2>6 DEF NumbersOK
<1>12. ReachOK(g, s, w)
  <2>1. \A k \in DOMAIN w : \A p \in DOMAIN s : p > w[k].idx => Reaches(w[k].node, s[p])
    BY <1>1 DEF ReachOK
  <2>2. ASSUME NEW p \in DOMAIN s
        PROVE  \E k \in DOMAIN w : w[k].num <= g[s[p]] /\ Reaches(s[p], w[k].node)
    <3>1. CASE g[s[p]] = f[s[p]]
      BY <1>1, <3>1 DEF ReachOK
    <3>2. CASE g[s[p]] # f[s[p]]
      <4>1. s[p] = x
        BY <1>7, <3>2
      <4>2. PICK y \in heard : g[x] = f[y]
        BY <3>2, <4>1
      <4>3. y \notin cov
        <5>1. f[x] < Cardinality(DOMAIN f)
          BY <1>1, <4>1 DEF NumbersOK
        <5>2. y \in cov => f[y] = OutOfReach
          BY <1>1 DEF NumbersOK
        <5>3. f[x] \in Nat
          BY <1>3, <1>7, <4>1
        <5> QED  BY <1>3, <4>2, <5>1, <5>2, <5>3
      <4>4. PICK q \in DOMAIN s : y = s[q]
        BY <1>2, <1>3, <4>3
      <4>5. PICK k \in DOMAIN w : w[k].num <= f[y] /\ Reaches(y, w[k].node)
        BY <1>1, <4>4 DEF ReachOK
      <4>6. Reaches(x, y)
        BY <1>4, OrderIs
      <4>7. Reaches(x, w[k].node)
        BY <4>5, <4>6, ReachingIs
      <4> QED  BY <4>1, <4>2, <4>5, <4>7
    <3> QED  BY <3>1, <3>2
  <2> QED  BY <2>1, <2>2 DEF ReachOK
<1>13. LeftOK(g, s, w)
  <2> SUFFICES ASSUME NEW p \in DOMAIN s, IsLeft(p, w)
               PROVE  /\ Saw(g, s, w, s[p])
                      /\ \A k \in DOMAIN w :
                           w[k].idx < p /\ (\A l \in DOMAIN w : l > k => p <= w[l].idx)
                             => g[w[k].node] <= g[s[p]]
    BY DEF LeftOK
  <2>1. s[p] # x
    BY <1>2, <1>4 DEF IsLeft
  <2>2. g[s[p]] = f[s[p]] /\ f[s[p]] \in Nat
    BY <1>3, <1>7, <2>1
  <2>3. Saw(g, s, w, s[p])
    <3>1. Saw(f, s, w, s[p])
      BY <1>1 DEF LeftOK
    <3> QED  BY <2>2, <3>1 DEF Saw
  <2>4. ASSUME NEW k \in DOMAIN w, w[k].idx < p, \A l \in DOMAIN w : l > k => p <= w[l].idx
        PROVE  g[w[k].node] <= g[s[p]]
    <3>1. f[w[k].node] <= f[s[p]]
      BY <1>1, <2>4 DEF LeftOK
    <3>2. g[w[k].node] <= f[w[k].node] /\ g[w[k].node] \in Nat /\ f[w[k].node] \in Nat
      BY <1>3, <1>5, <1>6
    <3> QED  BY <2>2, <3>1, <3>2
  <2> QED  BY <2>3, <2>4
<1> QED  BY <1>9, <1>10, <1>11, <1>12, <1>13 DEF Searching

\* The number after a look at the successors.
LEMMA HeardIs ==
  ASSUME order = ItemOrder, NEW x \in Seen, x \in Item, Seen \subseteq Item,
         low \in [Seen -> Nat], OutOfReach \in Nat
  PROVE  LET g == LowAfter(x)
             heard == Passed(x) \cap Seen
         IN  /\ Fresh(x) \subseteq Item \ Seen /\ \A y \in Fresh(x) : Isolated(y) /\ order[y].before = {}
             /\ heard \subseteq order[x].before \cap Seen
             /\ g \in [Seen \cup Fresh(x) -> Nat]
             /\ \A y \in Fresh(x) : g[y] = OutOfReach
             /\ \A y \in Seen \ {x} : g[y] = low[y]
             /\ g[x] <= low[x] /\ \A y \in heard : g[x] <= low[y]
             /\ g[x] = low[x] \/ \E y \in heard : g[x] = low[y]
<1> DEFINE g == LowAfter(x)
           heard == Passed(x) \cap Seen
           h == Numbered(Fresh(x), OutOfReach)
           S == {low[x]} \cup {low[y] : y \in heard}
<1>1. heard \subseteq order[x].before \cap Seen
  BY DEF Passed
<1>2. \A y \in Passed(x) : y \notin Seen => Isolated(y)
  <2> SUFFICES ASSUME NEW y \in Passed(x), y \notin Seen, ~Isolated(y) PROVE FALSE
    OBVIOUS
  <2>1. y \in ToVisit(x) /\ y \in Item
    BY OrderIs DEF Passed, ToVisit, MustVisit
  <2>2. Rank[y] < Rank[y] /\ Rank[y] \in Nat
    BY <2>1, ItemsAre DEF Passed
  <2> QED  BY <2>2
<1>3. Fresh(x) \subseteq Item \ Seen /\ Fresh(x) \subseteq order[x].before
  BY OrderIs DEF Fresh, Passed
<1>4. \A y \in Fresh(x) : Isolated(y) /\ order[y].before = {}
  <2> SUFFICES ASSUME NEW y \in Fresh(x) PROVE Isolated(y) /\ order[y].before = {}
    OBVIOUS
  <2>1. Isolated(y)
    BY <1>2 DEF Fresh
  <2>2. x \in order[y].after
    BY <1>3, OrderIs
  <2> QED  BY <2>1, <2>2 DEF Isolated
<1>5. /\ h \in [Seen \cup Fresh(x) -> Nat]
      /\ \A y \in Fresh(x) : h[y] = OutOfReach
      /\ \A y \in Seen : h[y] = low[y]
  BY <1>3 DEF Numbered
<1>6. g = [h EXCEPT ![x] = Lowest({h[x]} \cup {low[y] : y \in heard})]
  BY DEF LowAfter
<1> HIDE DEF g, h, heard
<1>7. g = [h EXCEPT ![x] = Lowest(S)]
  BY <1>5, <1>6
<1>8. Lowest(S) \in S /\ \A n \in S : Lowest(S) <= n
  <2>1. S \subseteq Nat /\ S # {}
    BY <1>1
  <2> HIDE DEF S
  <2> QED  BY <2>1, LowestIs
<1>9. g \in [Seen \cup Fresh(x) -> Nat] /\ g[x] = Lowest(S)
  <2>1. Lowest(S) \in Nat
    BY <1>1, <1>8
  <2> HIDE DEF S
  <2> QED  BY <1>5, <1>7, <2>1
<1>10. \A y \in (Seen \cup Fresh(x)) \ {x} : g[y] = h[y]
  BY <1>5, <1>7
<1>11. g[x] <= low[x] /\ \A y \in heard : g[x] <= low[y]
  BY <1>8, <1>9
<1>12. g[x] = low[x] \/ \E y \in heard : g[x] = low[y]
  BY <1>8, <1>9
<1> HIDE DEF S
<1>13. (\A y \in Fresh(x) : g[y] = OutOfReach) /\ \A y \in Seen \ {x} : g[y] = low[y]
  BY <1>3, <1>5, <1>10
<1> QED  BY <1>1, <1>3, <1>4, <1>9, <1>11, <1>12, <1>13 DEF g, heard

Pushed(g, s, w, y, h, t, v) ==
  LET n == Cardinality(DOMAIN g)
  IN  /\ h = [z \in DOMAIN g \cup {y} |-> IF z = y THEN n ELSE g[z]]
      /\ t = Append(s, y)
      /\ v = Append(w, [node |-> y, idx |-> Len(s), num |-> n])

\* A node that all that is worked on reaches is put on both stacks.
LEMMA PushingKeeps ==
  ASSUME order = ItemOrder, NEW g, NEW cov, NEW s, NEW w, Searching(g, cov, s, w), w = <<>> => s = <<>>,
         NEW y \in Item \ DOMAIN g, order[y].after # {}, \A k \in DOMAIN w : Reaches(w[k].node, y),
         NEW h, NEW t, NEW v, Pushed(g, s, w, y, h, t, v)
  PROVE  Searching(h, cov, t, v)
<1> DEFINE m == Len(w)
           d == Len(s)
           n == Cardinality(DOMAIN g)
           frame == [node |-> y, idx |-> d, num |-> n]
<1>1. StacksOK(cov, s, w) /\ DoneOK(cov) /\ NumbersOK(g, cov, s, w) /\ ReachOK(g, s, w) /\ LeftOK(g, s, w)
  BY DEF Searching
<1>2. /\ d \in Nat /\ DOMAIN s = 1..d /\ m \in Nat /\ DOMAIN w = 1..m
      /\ \A p \in DOMAIN s : s[p] \in Item /\ s[p] \in ToSet(s) /\ s[p] \notin cov
      /\ ToSet(s) \subseteq Item /\ \A z \in ToSet(s) : \E p \in DOMAIN s : z = s[p]
      /\ \A k \in DOMAIN w : /\ w[k].idx \in Nat /\ w[k].num \in Nat /\ w[k].idx < d
                             /\ w[k].node \in Item /\ w[k].idx + 1 \in DOMAIN s
  <2>1. \A k \in DOMAIN w : w[k].idx < d
    BY <1>1 DEF StacksOK
  <2>2. /\ d \in Nat /\ DOMAIN s = 1..d /\ m \in Nat /\ DOMAIN w = 1..m
        /\ \A p \in DOMAIN s : s[p] \in Item /\ s[p] \in ToSet(s) /\ s[p] \notin cov
        /\ ToSet(s) \subseteq Item /\ \A z \in ToSet(s) : \E p \in DOMAIN s : z = s[p]
        /\ \A k \in DOMAIN w : /\ w[k].idx \in Nat /\ w[k].num \in Nat
                               /\ w[k].node \in Item /\ w[k].idx + 1 \in DOMAIN s
    BY <1>1, StacksAre
  <2> QED  BY <2>1, <2>2
<1>3. /\ DOMAIN g = cov \cup ToSet(s) /\ DOMAIN g \subseteq Item
      /\ n \in Nat /\ n < OutOfReach /\ OutOfReach \in Nat
      /\ \A z \in DOMAIN g : g[z] \in Nat
  BY <1>1, NumbersCounted
<1>4. s \in Seq(Item) /\ w \in Seq(Frame)
  BY <1>1 DEF StacksOK, IsChain
<1>5. /\ h = [z \in DOMAIN g \cup {y} |-> IF z = y THEN n ELSE g[z]]
      /\ t = Append(s, y) /\ v = Append(w, frame)
  BY DEF Pushed
<1>6. /\ IsChain(t) /\ ToSet(t) = ToSet(s) \cup {y}
      /\ DOMAIN t = 1..d + 1 /\ Len(t) = d + 1 /\ t[d + 1] = y
      /\ \A p \in 1..d : t[p] = s[p]
      /\ \A p \in 1..d + 1 : p \in 1..d \/ p = d + 1
  <2>1. IsChain(t) /\ ToSet(t) = ToSet(s) \cup {y}
    BY <1>1, <1>3, <1>5, ChainGrows DEF StacksOK
  <2> QED  BY <1>2, <1>4, <1>5, <2>1
<1>7. frame \in Frame /\ frame.node = y /\ frame.idx = d /\ frame.num = n
  BY <1>2, <1>3 DEF Frame
<1> HIDE DEF frame
<1>8. /\ v \in Seq(Frame) /\ DOMAIN v = 1..m + 1 /\ v[m + 1] = frame
      /\ \A k \in 1..m : v[k] = w[k]
      /\ \A k \in 1..m + 1 : k \in 1..m \/ k = m + 1
  BY <1>2, <1>4, <1>5, <1>7
<1> HIDE DEF m, d, n
<1>9. Cardinality(DOMAIN h) = n + 1
  <2>1. IsFiniteSet(DOMAIN g)
    BY <1>3, ItemsAre, FS_Subset
  <2> QED  BY <1>5, <2>1, FS_AddElement DEF n
<1>10. /\ \A z \in DOMAIN g : h[z] = g[z] /\ z # y
       /\ h[y] = n /\ DOMAIN h = DOMAIN g \cup {y}
  BY <1>3, <1>5
<1>11. \A p \in 1..d : /\ s[p] \in DOMAIN g /\ g[s[p]] \in Nat /\ g[s[p]] < n
                       /\ h[s[p]] = g[s[p]] /\ order[s[p]].after # {}
  BY <1>1, <1>2, <1>3, <1>10 DEF NumbersOK, n
<1>12. /\ \A k \in 1..m : /\ w[k].node \in DOMAIN g /\ w[k].node = s[w[k].idx + 1]
                          /\ w[k].num < n /\ g[w[k].node] <= w[k].num /\ h[w[k].node] = g[w[k].node]
       /\ \A k, l \in 1..m : k < l => w[k].num < w[l].num /\ w[k].idx < w[l].idx
  <2>1. \A k \in 1..m : w[k].node \in DOMAIN g /\ w[k].node = s[w[k].idx + 1]
    BY <1>1, <1>2, <1>11 DEF StacksOK
  <2>2. \A k \in 1..m : w[k].num < n /\ g[w[k].node] <= w[k].num
    BY <1>1, <1>2 DEF NumbersOK, n
  <2>3. \A k, l \in 1..m : k < l => w[k].num < w[l].num /\ w[k].idx < w[l].idx
    BY <1>1, <1>2 DEF NumbersOK, StacksOK
  <2> QED  BY <1>10, <2>1, <2>2, <2>3
<1>13. StacksOK(cov, t, v)
  <2>1. cov \subseteq Item /\ cov \cap ToSet(t) = {}
    BY <1>1, <1>3, <1>6 DEF StacksOK
  <2>2. \A k \in DOMAIN v : v[k].idx < Len(t) /\ v[k].node = t[v[k].idx + 1]
    <3>1. \A k \in 1..m : w[k].idx + 1 \in 1..d /\ w[k].idx < d + 1
      BY <1>2
    <3>2. \A k \in 1..m : v[k].idx < Len(t) /\ v[k].node = t[v[k].idx + 1]
      BY <1>6, <1>8, <1>12, <3>1
    <3>3. v[m + 1].idx < Len(t) /\ v[m + 1].node = t[v[m + 1].idx + 1]
      BY <1>2, <1>6, <1>7, <1>8
    <3> QED  BY <1>8, <3>2, <3>3
  <2>3. \A k, l \in 1..m + 1 : k < l => v[k].idx < v[l].idx
    <3> SUFFICES ASSUME NEW k \in 1..m + 1, NEW l \in 1..m + 1, k < l PROVE v[k].idx < v[l].idx
      OBVIOUS
    <3>1. k \in 1..m
      BY <1>2
    <3> QED  BY <1>2, <1>7, <1>8, <1>12, <3>1
  <2>4. v[1].idx = 0
    <3>1. CASE m = 0
      <4>1. w = <<>> /\ d = 0
        BY <1>4, <3>1 DEF m, d
      <4> QED  BY <1>7, <1>8, <3>1, <4>1
    <3>2. CASE m # 0
      <4>1. 1 \in 1..m /\ w # <<>>
        BY <1>2, <1>4, <3>2 DEF m
      <4> QED  BY <1>1, <1>8, <4>1 DEF StacksOK
    <3> QED  BY <3>1, <3>2
  <2> QED  BY <1>6, <1>8, <2>1, <2>2, <2>3, <2>4 DEF StacksOK
<1>14. NumbersOK(h, cov, t, v)
  <2>1. h \in [cov \cup ToSet(t) -> Nat]
    <3>1. DOMAIN g \cup {y} = cov \cup ToSet(t)
      BY <1>3, <1>6
    <3> QED  BY <1>3, <1>5, <3>1
  <2>2. \A z \in cov : h[z] = OutOfReach
    BY <1>1, <1>3, <1>10 DEF NumbersOK
  <2>3. \A p \in DOMAIN t : order[t[p]].after # {} /\ h[t[p]] < Cardinality(DOMAIN h)
    <3>1. \A p \in 1..d : order[s[p]].after # {} /\ h[s[p]] < n + 1
      BY <1>3, <1>11
    <3>2. h[y] < n + 1
      BY <1>3, <1>10
    <3> QED  BY <1>6, <1>9, <3>1, <3>2
  <2>4. \A k \in DOMAIN v : v[k].num < Cardinality(DOMAIN h) /\ h[v[k].node] <= v[k].num
    <3>1. \A k \in 1..m : w[k].num < n + 1 /\ h[w[k].node] <= w[k].num
      BY <1>2, <1>3, <1>12
    <3> QED  BY <1>3, <1>7, <1>8, <1>9, <1>10, <3>1
  <2>5. \A k \in DOMAIN v, p \in DOMAIN t : p <= v[k].idx => h[t[p]] < v[k].num
    <3> SUFFICES ASSUME NEW k \in 1..m + 1, NEW p \in 1..d + 1, p <= v[k].idx
                 PROVE  h[t[p]] < v[k].num
      BY <1>6, <1>8
    <3>1. p \in 1..d
      BY <1>2, <1>7, <1>8
    <3>2. h[t[p]] = g[s[p]]
      BY <1>6, <1>10, <1>11, <3>1
    <3>3. CASE k \in 1..m
      BY <1>1, <1>2, <1>8, <3>1, <3>2, <3>3 DEF NumbersOK
    <3>4. CASE k = m + 1
      BY <1>7, <1>8, <1>11, <3>1, <3>2, <3>4
    <3> QED  BY <1>8, <3>3, <3>4
  <2>6. \A k, l \in 1..m + 1 : k < l => v[k].num < v[l].num
    <3> SUFFICES ASSUME NEW k \in 1..m + 1, NEW l \in 1..m + 1, k < l PROVE v[k].num < v[l].num
      OBVIOUS
    <3>1. k \in 1..m
      BY <1>2
    <3> QED  BY <1>2, <1>7, <1>8, <1>12, <3>1
  <2> QED  BY <1>8, <2>1, <2>2, <2>3, <2>4, <2>5, <2>6 DEF NumbersOK
<1>15. ReachOK(h, t, v)
  <2>1. ASSUME NEW k \in 1..m + 1, NEW p \in 1..d + 1, p > v[k].idx
        PROVE  Reaches(v[k].node, t[p])
    <3>1. CASE k \in 1..m /\ p \in 1..d
      BY <1>1, <1>2, <1>6, <1>8, <2>1, <3>1 DEF ReachOK
    <3>2. CASE k \in 1..m /\ p = d + 1
      BY <1>2, <1>6, <1>8, <3>2
    <3>3. CASE k = m + 1
      <4>1. p = d + 1
        BY <1>2, <1>6, <1>7, <1>8, <2>1, <3>3
      <4> QED  BY <1>6, <1>7, <1>8, <3>3, <4>1, ReachingIs
    <3> QED  BY <1>6, <1>8, <3>1, <3>2, <3>3
  <2>2. ASSUME NEW p \in 1..d + 1
        PROVE  \E k \in 1..m + 1 : v[k].num <= h[t[p]] /\ Reaches(t[p], v[k].node)
    <3>1. CASE p \in 1..d
      <4>1. PICK k \in 1..m : w[k].num <= g[s[p]] /\ Reaches(s[p], w[k].node)
        BY <1>1, <1>2, <3>1 DEF ReachOK
      <4>2. k \in 1..m + 1
        BY <1>2
      <4> QED  BY <1>6, <1>8, <1>10, <1>11, <3>1, <4>1, <4>2
    <3>2. CASE p = d + 1
      <4>1. m + 1 \in 1..m + 1
        BY <1>2
      <4> QED  BY <1>3, <1>6, <1>7, <1>8, <1>10, <3>2, <4>1, ReachingIs
    <3> QED  BY <1>6, <3>1, <3>2
  <2> QED  BY <1>6, <1>8, <2>1, <2>2 DEF ReachOK
<1>16. LeftOK(h, t, v)
  <2> SUFFICES ASSUME NEW p \in 1..d + 1, IsLeft(p, v)
               PROVE  /\ Saw(h, t, v, t[p])
                      /\ \A k \in DOMAIN v :
                           v[k].idx < p /\ (\A l \in DOMAIN v : l > k => p <= v[l].idx)
                             => h[v[k].node] <= h[t[p]]
    BY <1>6 DEF LeftOK
  <2>1. p \in 1..d /\ IsLeft(p, w)
    <3>1. p # d + 1
      <4>1. m + 1 \in DOMAIN v
        BY <1>2, <1>8
      <4> QED  BY <1>7, <1>8, <4>1 DEF IsLeft
    <3>2. \A k \in 1..m : k \in DOMAIN v /\ v[k] = w[k]
      BY <1>2, <1>8
    <3> QED  BY <1>2, <1>6, <3>1, <3>2 DEF IsLeft
  <2>2. /\ Saw(g, s, w, s[p])
        /\ \A k \in DOMAIN w :
             w[k].idx < p /\ (\A l \in DOMAIN w : l > k => p <= w[l].idx) => g[w[k].node] <= g[s[p]]
    BY <1>1, <1>2, <2>1 DEF LeftOK
  <2>3. t[p] = s[p] /\ h[s[p]] = g[s[p]]
    BY <1>6, <1>10, <1>11, <2>1
  <2>4. ASSUME NEW z \in order[s[p]].before
        PROVE  /\ z \in DOMAIN h
               /\ \A q \in DOMAIN t, k \in DOMAIN v : t[q] = z /\ q <= v[k].idx => h[s[p]] < v[k].num
    <3>1. z \in DOMAIN g
      BY <2>2 DEF Saw
    <3>2. ASSUME NEW q \in 1..d + 1, NEW k \in 1..m + 1, t[q] = z, q <= v[k].idx
          PROVE  g[s[p]] < v[k].num
      <4>1. q \in 1..d /\ s[q] = z
        BY <1>6, <1>10, <3>1, <3>2
      <4>2. CASE k \in 1..m
        BY <1>2, <1>8, <2>2, <3>2, <4>1, <4>2 DEF Saw
      <4>3. CASE k = m + 1
        BY <1>7, <1>8, <1>11, <2>1, <4>3
      <4> QED  BY <1>8, <4>2, <4>3
    <3> QED  BY <1>6, <1>8, <1>10, <2>3, <3>1, <3>2
  <2>5. ASSUME NEW k \in 1..m + 1, v[k].idx < p, \A l \in 1..m + 1 : l > k => p <= v[l].idx
        PROVE  h[v[k].node] <= h[s[p]]
    <3>1. k \in 1..m
      BY <1>2, <1>7, <1>8, <2>1, <2>5
    <3>2. \A l \in 1..m : l \in 1..m + 1 /\ v[l] = w[l]
      BY <1>2, <1>8
    <3>3. g[w[k].node] <= g[s[p]]
      BY <1>2, <2>2, <2>5, <3>1, <3>2
    <3> QED  BY <1>8, <1>10, <1>12, <2>3, <3>1, <3>3
  <2> QED  BY <1>8, <2>3, <2>4, <2>5 DEF Saw
<1> QED  BY <1>1, <1>13, <1>14, <1>15, <1>16 DEF Searching

\* What the topmost work is, and what is left without it.
LEMMA TopIs ==
  ASSUME NEW cov, NEW s, NEW w, StacksOK(cov, s, w), w # <<>>,
         NEW m, m = Len(w), NEW v, v = Front(w)
  PROVE  /\ m \in Nat \ {0} /\ m \in DOMAIN w /\ DOMAIN w = 1..m
         /\ v \in Seq(Frame) /\ DOMAIN v = 1..m - 1 /\ Len(v) = m - 1
         /\ \A k \in 1..m - 1 : /\ v[k] = w[k] /\ k \in 1..m /\ k < m
                                /\ w[k].idx < w[m].idx /\ w[k].idx + 1 <= w[m].idx
         /\ \A k \in 1..m : w[k].idx <= w[m].idx /\ (k \in 1..m - 1 \/ k = m)
<1>1. w \in Seq(Frame) /\ Len(w) # 0 /\ m \in Nat /\ DOMAIN w = 1..m
  BY DEF StacksOK
<1>2. m \in Nat \ {0} /\ m \in DOMAIN w
  BY <1>1
<1>3. v \in Seq(Frame) /\ Len(v) = m - 1 /\ \A k \in 1..m - 1 : v[k] = w[k]
  BY <1>1, FrontIs
<1>4. DOMAIN v = 1..m - 1
  BY <1>1, <1>2, <1>3
<1>5. \A k \in 1..m : w[k].idx \in Nat
  BY <1>1, StacksAre
<1>6. \A k \in 1..m - 1 : k \in 1..m /\ k < m
  BY <1>2
<1>7. \A k \in 1..m - 1 : w[k].idx < w[m].idx
  BY <1>1, <1>2, <1>6 DEF StacksOK
<1>8. \A k \in 1..m : k \in 1..m - 1 \/ k = m
  BY <1>2
<1>9. \A k \in 1..m - 1 : w[k].idx + 1 <= w[m].idx
  BY <1>1, <1>2, <1>5, <1>6, <1>7
<1> QED  BY <1>1, <1>2, <1>3, <1>4, <1>5, <1>6, <1>7, <1>8, <1>9

Returned(g, w, h, v) ==
  LET x == w[Len(w)].node
      u == w[Len(w) - 1].node
  IN  /\ h = IF g[x] <= g[u] THEN [g EXCEPT ![u] = g[x]] ELSE g
      /\ v = Front(w)

\* A node whose successors have been seen hands its number to the one it came
\* from.
LEMMA ReturningKeeps ==
  ASSUME order = ItemOrder, NEW g, NEW cov, NEW s, NEW w, Searching(g, cov, s, w), w # <<>>,
         NEW m, m = Len(w), m > 1, NEW x, x = w[m].node, NEW u, u = w[m - 1].node,
         order[x].before \subseteq DOMAIN g, \A y \in order[x].before : g[x] <= g[y],
         g[x] <= g[u] \/ g[x] # w[m].num,
         NEW h, NEW v, Returned(g, w, h, v)
  PROVE  Searching(h, cov, s, v)
<1> DEFINE a == w[m].idx
           j == m - 1
<1>1. StacksOK(cov, s, w) /\ DoneOK(cov) /\ NumbersOK(g, cov, s, w) /\ ReachOK(g, s, w) /\ LeftOK(g, s, w)
  BY DEF Searching
<1>2. /\ Len(s) \in Nat /\ DOMAIN s = 1..Len(s)
      /\ \A p \in DOMAIN s : s[p] \in Item /\ s[p] \in ToSet(s) /\ s[p] \notin cov
      /\ \A p, q \in DOMAIN s : s[p] = s[q] => p = q
      /\ \A k \in DOMAIN w : /\ w[k].idx \in Nat /\ w[k].num \in Nat
                             /\ w[k].node \in Item /\ w[k].idx + 1 \in DOMAIN s
  BY <1>1, StacksAre
<1>3. /\ DOMAIN g = cov \cup ToSet(s) /\ DOMAIN g \subseteq Item
      /\ \A z \in DOMAIN g : g[z] \in Nat
      /\ Cardinality(DOMAIN g) \in Nat
  BY <1>1, NumbersCounted
<1>4. v = Front(w) /\ h = IF g[x] <= g[u] THEN [g EXCEPT ![u] = g[x]] ELSE g
  BY DEF Returned
<1>5. /\ m \in Nat \ {0} /\ m \in 1..m /\ DOMAIN w = 1..m
      /\ v \in Seq(Frame) /\ DOMAIN v = 1..j /\ Len(v) = j
      /\ \A k \in 1..j : /\ v[k] = w[k] /\ k \in 1..m /\ k < m
                         /\ w[k].idx < a /\ w[k].idx + 1 <= a
      /\ \A k \in 1..m : w[k].idx <= a /\ (k \in 1..j \/ k = m)
  BY <1>1, <1>4, TopIs
<1>6. j \in 1..j /\ j \in 1..m /\ \A k \in 1..j : k # j => k < j
  BY <1>5
<1>7. \A k \in 1..m : w[k].node = s[w[k].idx + 1] /\ w[k].node \in DOMAIN g /\ w[k].idx < Len(s)
  BY <1>1, <1>2, <1>3, <1>5 DEF StacksOK
<1>8. x = s[a + 1] /\ a + 1 \in DOMAIN s /\ u = s[w[j].idx + 1] /\ x # u /\ x \in DOMAIN g /\ u \in DOMAIN g
      /\ a \in Nat /\ w[j].idx \in Nat /\ w[j].idx < a /\ w[m].num \in Nat
  BY <1>2, <1>5, <1>6, <1>7
<1> HIDE DEF a, j
\* The numbers only go down, and only that of u.
<1>9. /\ DOMAIN h = DOMAIN g /\ h \in [cov \cup ToSet(s) -> Nat]
      /\ \A z \in DOMAIN g : h[z] \in Nat /\ h[z] <= g[z] /\ (z # u => h[z] = g[z])
      /\ h[u] <= g[x] /\ (h[u] = g[x] \/ h[u] = g[u])
  <2>1. g \in [DOMAIN g -> Nat] /\ g \in [cov \cup ToSet(s) -> Nat] /\ g[x] \in Nat /\ g[u] \in Nat
    BY <1>1, <1>3, <1>8 DEF NumbersOK
  <2>2. CASE g[x] <= g[u]
    <3>1. h = [g EXCEPT ![u] = g[x]]
      BY <1>4, <2>2
    <3>2. h \in [DOMAIN g -> Nat] /\ h[u] = g[x] /\ \A z \in DOMAIN g : z # u => h[z] = g[z]
      BY <1>8, <2>1, <3>1
    <3>3. \A z \in DOMAIN g : h[z] \in Nat /\ h[z] <= g[z]
      <4> TAKE z \in DOMAIN g
      <4>1. CASE z = u
        BY <2>1, <2>2, <3>2, <4>1
      <4>2. CASE z # u
        BY <1>3, <3>2, <4>2
      <4> QED  BY <4>1, <4>2
    <3> QED  BY <1>3, <2>1, <3>2, <3>3
  <2>3. CASE ~(g[x] <= g[u])
    <3>1. h = g
      BY <1>4, <2>3
    <3>2. g[u] <= g[x]
      BY <2>1, <2>3
    <3> QED  BY <1>3, <2>1, <3>1, <3>2
  <2> QED  BY <2>2, <2>3
<1>10. \A p \in DOMAIN s : s[p] \in DOMAIN g /\ g[s[p]] \in Nat /\ h[s[p]] \in Nat /\ h[s[p]] <= g[s[p]]
  BY <1>2, <1>3, <1>9
\* The node has a lower one in reach.
<1>11. g[x] < w[m].num
  <2>1. g[x] <= w[m].num /\ g[u] <= w[j].num /\ w[j].num < w[m].num
    <3>1. j < m /\ u = w[j].node
      BY <1>5, <1>6 DEF j
    <3> QED  BY <1>1, <1>5, <1>6, <3>1 DEF NumbersOK
  <2>2. g[x] \in Nat /\ g[u] \in Nat /\ w[j].num \in Nat
    BY <1>2, <1>3, <1>5, <1>6, <1>8
  <2> QED  BY <1>8, <2>1, <2>2
<1>12. PICK r \in 1..j : w[r].num <= g[x] /\ Reaches(x, w[r].node)
  <2>1. PICK r \in 1..m : w[r].num <= g[x] /\ Reaches(x, w[r].node)
    BY <1>1, <1>5, <1>8 DEF ReachOK
  <2>2. r # m
    BY <1>3, <1>8, <1>11, <2>1
  <2> QED  BY <1>5, <2>1, <2>2
<1>13. Reaches(u, x)
  <2>1. a + 1 > w[j].idx
    BY <1>8
  <2>2. u = w[j].node
    BY DEF j
  <2> QED  BY <1>1, <1>5, <1>6, <1>8, <2>1, <2>2 DEF ReachOK
<1>14. StacksOK(cov, s, v)
  <2>1. v # <<>> /\ v[1].idx = 0
    <3>1. 1 \in 1..j
      BY <1>5, <1>6
    <3> QED  BY <1>1, <1>5, <3>1 DEF StacksOK
  <2>2. \A k \in 1..j : v[k].idx < Len(s) /\ v[k].node = s[v[k].idx + 1]
    BY <1>5, <1>7
  <2>3. \A k, l \in 1..j : k < l => v[k].idx < v[l].idx
    BY <1>1, <1>5 DEF StacksOK
  <2> QED  BY <1>1, <1>5, <2>1, <2>2, <2>3 DEF StacksOK
<1>15. NumbersOK(h, cov, s, v)
  <2>1. \A z \in cov : h[z] = OutOfReach
    <3>1. u \notin cov
      BY <1>2, <1>5, <1>6, <1>8
    <3> QED  BY <1>1, <1>3, <1>9, <3>1 DEF NumbersOK
  <2>2. \A p \in DOMAIN s : order[s[p]].after # {} /\ h[s[p]] < Cardinality(DOMAIN h)
    <3> SUFFICES ASSUME NEW p \in DOMAIN s
                 PROVE  order[s[p]].after # {} /\ h[s[p]] < Cardinality(DOMAIN g)
      BY <1>9
    <3>1. order[s[p]].after # {} /\ g[s[p]] < Cardinality(DOMAIN g)
      BY <1>1 DEF NumbersOK
    <3> QED  BY <1>3, <1>10, <3>1
  <2>3. \A k \in 1..j : v[k].num < Cardinality(DOMAIN h) /\ h[v[k].node] <= v[k].num
    <3> SUFFICES ASSUME NEW k \in 1..j
                 PROVE  w[k].num < Cardinality(DOMAIN g) /\ h[w[k].node] <= w[k].num
      BY <1>5, <1>9
    <3>1. w[k].num < Cardinality(DOMAIN g) /\ g[w[k].node] <= w[k].num
      BY <1>1, <1>5 DEF NumbersOK
    <3>2. w[k].num \in Nat /\ w[k].node \in DOMAIN g
      BY <1>2, <1>5, <1>7
    <3>3. h[w[k].node] <= g[w[k].node] /\ h[w[k].node] \in Nat /\ g[w[k].node] \in Nat
      BY <1>3, <1>9, <3>2
    <3> QED  BY <1>3, <3>1, <3>2, <3>3
  <2>4. \A k \in 1..j, p \in DOMAIN s : p <= v[k].idx => h[s[p]] < v[k].num
    <3> SUFFICES ASSUME NEW k \in 1..j, NEW p \in DOMAIN s, p <= w[k].idx
                 PROVE  h[s[p]] < w[k].num
      BY <1>5
    <3>1. g[s[p]] < w[k].num /\ w[k].num \in Nat
      BY <1>1, <1>2, <1>5 DEF NumbersOK
    <3> QED  BY <1>10, <3>1
  <2>5. \A k, l \in 1..j : k < l => v[k].num < v[l].num
    BY <1>1, <1>5 DEF NumbersOK
  <2> QED  BY <1>5, <1>9, <2>1, <2>2, <2>3, <2>4, <2>5 DEF NumbersOK
<1>16. ReachOK(h, s, v)
  <2>1. \A k \in 1..j : \A p \in DOMAIN s : p > v[k].idx => Reaches(v[k].node, s[p])
    BY <1>1, <1>5 DEF ReachOK
  <2>2. ASSUME NEW p \in DOMAIN s
        PROVE  \E k \in 1..j : w[k].num <= h[s[p]] /\ Reaches(s[p], w[k].node)
    <3>1. PICK k \in 1..m : w[k].num <= g[s[p]] /\ Reaches(s[p], w[k].node)
      BY <1>1, <1>5 DEF ReachOK
    <3>2. CASE s[p] = u /\ h[u] = g[x]
      <4>1. Reaches(u, w[r].node)
        BY <1>12, <1>13, ReachingIs
      <4> QED  BY <1>12, <3>2, <4>1
    <3>3. CASE h[s[p]] = g[s[p]] /\ k \in 1..j
      BY <3>1, <3>3
    <3>4. CASE h[s[p]] = g[s[p]] /\ k = m
      <4>1. Reaches(s[p], w[r].node)
        BY <1>12, <3>1, <3>4, ReachingIs
      <4>2. w[r].num <= g[s[p]]
        <5>1. w[r].num \in Nat /\ g[x] \in Nat /\ g[s[p]] \in Nat
          BY <1>2, <1>3, <1>5, <1>8, <1>10
        <5>2. w[r].num <= g[x] /\ g[x] < w[m].num /\ w[m].num <= g[s[p]]
          BY <1>11, <1>12, <3>1, <3>4
        <5> QED  BY <1>8, <5>1, <5>2
      <4> QED  BY <3>4, <4>1, <4>2
    <3> QED  BY <1>5, <1>9, <1>10, <3>2, <3>3, <3>4
  <2> QED  BY <1>5, <2>1, <2>2 DEF ReachOK
<1>17. LeftOK(h, s, v)
  <2> SUFFICES ASSUME NEW p \in DOMAIN s, IsLeft(p, v)
               PROVE  /\ Saw(h, s, v, s[p])
                      /\ \A k \in DOMAIN v :
                           v[k].idx < p /\ (\A l \in DOMAIN v : l > k => p <= v[l].idx)
                             => h[v[k].node] <= h[s[p]]
    BY DEF LeftOK
  <2>1. \A k \in 1..j : p # w[k].idx + 1
    BY <1>5 DEF IsLeft
  <2>2. s[p] # u /\ h[s[p]] = g[s[p]]
    BY <1>2, <1>5, <1>6, <1>8, <1>9, <1>10, <2>1
  <2>3. Saw(h, s, v, s[p])
    <3>1. CASE p = a + 1
      <4> SUFFICES ASSUME NEW z \in order[x].before, NEW q \in DOMAIN s, NEW k \in 1..j,
                          s[q] = z, q <= w[k].idx
                   PROVE  g[x] < w[k].num
        BY <1>5, <1>8, <1>9, <2>2, <3>1 DEF Saw
      <4>1. g[z] < w[k].num /\ w[k].num \in Nat /\ g[z] \in Nat
        BY <1>1, <1>2, <1>5, <1>10 DEF NumbersOK
      <4> QED  BY <1>3, <1>8, <4>1
    <3>2. CASE p # a + 1
      <4>1. IsLeft(p, w)
        BY <1>5, <2>1, <3>2 DEF IsLeft, a
      <4>2. Saw(g, s, w, s[p])
        BY <1>1, <4>1 DEF LeftOK
      <4> QED  BY <1>5, <1>9, <2>2, <4>2 DEF Saw
    <3> QED  BY <3>1, <3>2
  <2>4. ASSUME NEW k \in 1..j, w[k].idx < p, \A l \in 1..j : l > k => p <= w[l].idx
        PROVE  h[w[k].node] <= g[s[p]]
    <3>1. h[w[k].node] <= g[w[k].node] /\ h[w[k].node] \in Nat /\ g[w[k].node] \in Nat
      BY <1>3, <1>5, <1>7, <1>9
    <3>2. CASE p <= a
      <4>1. IsLeft(p, w)
        BY <1>2, <1>5, <1>8, <2>1, <3>2 DEF IsLeft, a
      <4>2. \A l \in 1..m : l > k => p <= w[l].idx
        BY <1>5, <2>4, <3>2 DEF a
      <4>3. g[w[k].node] <= g[s[p]]
        BY <1>1, <1>5, <2>4, <4>1, <4>2 DEF LeftOK
      <4> QED  BY <1>10, <3>1, <4>3
    <3>3. CASE ~(p <= a)
      <4>1. k = j
        <5>1. CASE k # j
          <6>1. p <= w[j].idx
            BY <1>5, <1>6, <2>4, <5>1
          <6> QED  BY <1>2, <1>8, <3>3, <6>1
        <5> QED  BY <5>1
      <4>2. w[k].node = u
        BY <4>1 DEF j
      <4>3. g[x] <= g[s[p]]
        <5>1. CASE p = a + 1
          BY <1>3, <1>8, <5>1
        <5>2. CASE p # a + 1
          <6>1. IsLeft(p, w)
            BY <1>5, <2>1, <5>2 DEF IsLeft, a
          <6>2. a < p /\ \A l \in 1..m : ~(l > m)
            BY <1>2, <1>5, <1>8, <3>3
          <6> QED  BY <1>1, <1>5, <6>1, <6>2 DEF LeftOK, a
        <5> QED  BY <5>1, <5>2
      <4> QED  BY <1>3, <1>8, <1>9, <1>10, <4>2, <4>3
    <3> QED  BY <3>2, <3>3
  <2> QED  BY <1>5, <2>2, <2>3, <2>4
<1> QED  BY <1>1, <1>14, <1>15, <1>16, <1>17 DEF Searching

CutOff(g, s, w, h, t, v, above) ==
  LET d == w[Len(w)].idx
  IN  /\ above = SubSeq(s, d + 1, Len(s))
      /\ h = [z \in DOMAIN g |-> IF z \in ToSet(above) THEN OutOfReach ELSE g[z]]
      /\ t = SubSeq(s, 1, d)
      /\ v = Front(w)

Cut(s, d, t, above) == t = SubSeq(s, 1, d) /\ above = SubSeq(s, d + 1, Len(s))

\* What is above a place of a stack, and what is left without it.
LEMMA CutIs ==
  ASSUME NEW s, IsChain(s), NEW d \in Nat, d < Len(s),
         NEW t, NEW above, Cut(s, d, t, above)
  PROVE  /\ IsChain(t) /\ Len(t) = d /\ DOMAIN t = 1..d /\ \A p \in 1..d : t[p] = s[p]
         /\ ToSet(t) \cup ToSet(above) = ToSet(s) /\ ToSet(t) \cap ToSet(above) = {}
         /\ \A p \in DOMAIN s : s[p] \in ToSet(above) <=> p > d
<1>1. /\ IsChain(t) /\ Len(t) = d
      /\ ToSet(t) \cup ToSet(above) = ToSet(s) /\ ToSet(t) \cap ToSet(above) = {}
  BY ChainIsCut DEF Cut
<1>2. s \in Seq(Item) /\ Len(s) \in Nat /\ DOMAIN s = 1..Len(s)
  BY DEF IsChain
<1>3. DOMAIN t = 1..d /\ \A p \in 1..d : t[p] = s[p]
  BY <1>2 DEF Cut
<1>4. DOMAIN above = 1..(Len(s) - d) /\ \A i \in 1..(Len(s) - d) : above[i] = s[i + d]
  BY <1>2, UpperPart DEF Cut
<1>5. ASSUME NEW p \in DOMAIN s, p > d PROVE s[p] \in ToSet(above)
  <2>1. p - d \in 1..(Len(s) - d) /\ (p - d) + d = p
    BY <1>2, <1>5
  <2> QED  BY <1>4, <2>1 DEF ToSet
<1>6. ASSUME NEW p \in DOMAIN s, ~(p > d) PROVE s[p] \notin ToSet(above)
  <2>1. p \in 1..d
    BY <1>2, <1>6
  <2>2. s[p] \in ToSet(t)
    BY <1>3, <2>1 DEF ToSet
  <2> QED  BY <1>1, <2>2
<1> QED  BY <1>1, <1>3, <1>5, <1>6

\* What is above a node that hears of nothing further down is a component.
LEMMA CuttingKeeps ==
  ASSUME order = ItemOrder, NEW g, NEW cov, NEW s, NEW w, Searching(g, cov, s, w), w # <<>>,
         NEW m, m = Len(w), NEW x, x = w[m].node,
         order[x].before \subseteq DOMAIN g, \A y \in order[x].before : g[x] <= g[y],
         m = 1 \/ g[x] = w[m].num,
         NEW h, NEW t, NEW v, NEW above, CutOff(g, s, w, h, t, v, above)
  PROVE  Searching(h, cov \cup ToSet(above), t, v) /\ IsComponent(above)
<1> DEFINE d == w[m].idx
           j == m - 1
           A == ToSet(above)
<1>1. StacksOK(cov, s, w) /\ DoneOK(cov) /\ NumbersOK(g, cov, s, w) /\ ReachOK(g, s, w) /\ LeftOK(g, s, w)
  BY DEF Searching
<1>2. /\ Len(s) \in Nat /\ DOMAIN s = 1..Len(s)
      /\ \A p \in DOMAIN s : s[p] \in Item /\ s[p] \in ToSet(s) /\ s[p] \notin cov
      /\ \A p, q \in DOMAIN s : s[p] = s[q] => p = q
      /\ ToSet(s) \subseteq Item /\ \A y \in ToSet(s) : \E p \in DOMAIN s : y = s[p]
      /\ \A k \in DOMAIN w : /\ w[k].idx \in Nat /\ w[k].num \in Nat
                             /\ w[k].node \in Item /\ w[k].idx + 1 \in DOMAIN s
  BY <1>1, StacksAre
<1>3. /\ DOMAIN g = cov \cup ToSet(s) /\ DOMAIN g \subseteq Item
      /\ \A z \in DOMAIN g : g[z] \in Nat
      /\ Cardinality(DOMAIN g) \in Nat /\ OutOfReach \in Nat
  BY <1>1, NumbersCounted
<1>4. h = [z \in DOMAIN g |-> IF z \in A THEN OutOfReach ELSE g[z]]
  BY DEF CutOff
<1>cut. Cut(s, d, t, above)
  BY DEF CutOff, Cut
<1>rest. v = Front(w)
  BY DEF CutOff
<1>5. /\ m \in Nat \ {0} /\ m \in 1..m /\ DOMAIN w = 1..m
      /\ v \in Seq(Frame) /\ DOMAIN v = 1..j /\ Len(v) = j
      /\ \A k \in 1..j : v[k] = w[k] /\ k \in 1..m /\ k < m /\ w[k].idx < d /\ w[k].idx + 1 <= d
      /\ \A k \in 1..m : w[k].idx <= d /\ (k \in 1..j \/ k = m)
  <2>1. StacksOK(cov, s, w)
    BY <1>1
  <2> HIDE DEF A
  <2> QED  BY <1>rest, <2>1, TopIs
<1>6. /\ d \in Nat /\ d < Len(s) /\ d + 1 \in DOMAIN s /\ d + 1 > d
      /\ x = s[d + 1] /\ x \in DOMAIN g /\ x \in ToSet(s) /\ w[m].num \in Nat /\ g[x] \in Nat
  <2>1. d \in Nat /\ d < Len(s) /\ d + 1 \in DOMAIN s /\ x = s[d + 1] /\ w[m].num \in Nat
    BY <1>1, <1>2, <1>5 DEF StacksOK
  <2> QED  BY <1>2, <1>3, <2>1
<1>7. /\ IsChain(t) /\ Len(t) = d /\ DOMAIN t = 1..d /\ \A p \in 1..d : t[p] = s[p]
      /\ ToSet(t) \cup A = ToSet(s) /\ ToSet(t) \cap A = {}
      /\ \A p \in DOMAIN s : s[p] \in A <=> p > d
  <2>1. IsChain(s)
    BY <1>1 DEF StacksOK
  <2>2. d \in Nat /\ d < Len(s)
    BY <1>6
  <2> HIDE DEF d
  <2>3. /\ IsChain(t) /\ Len(t) = d /\ DOMAIN t = 1..d /\ \A p \in 1..d : t[p] = s[p]
        /\ ToSet(t) \cup ToSet(above) = ToSet(s) /\ ToSet(t) \cap ToSet(above) = {}
        /\ \A p \in DOMAIN s : s[p] \in ToSet(above) <=> p > d
    BY <1>cut, <2>1, <2>2, CutIs
  <2> QED  BY <2>3
<1> HIDE DEF d, j, A
\* Its number has not changed since it was given.
<1>8. g[x] = w[m].num
  <2>1. CASE m = 1
    <3>1. PICK k \in 1..m : w[k].num <= g[x]
      BY <1>1, <1>5, <1>6 DEF ReachOK
    <3>2. w[m].num <= g[x]
      BY <2>1, <3>1
    <3>3. g[x] <= w[m].num
      BY <1>1, <1>5 DEF NumbersOK
    <3> QED  BY <1>6, <3>2, <3>3
  <2> QED  BY <2>1
<1>9. \A p \in DOMAIN s : p > d => w[m].num <= g[s[p]] /\ (p # d + 1 => IsLeft(p, w))
  <2> SUFFICES ASSUME NEW p \in DOMAIN s, p > d
               PROVE  w[m].num <= g[s[p]] /\ (p # d + 1 => IsLeft(p, w))
    OBVIOUS
  <2>1. p # d + 1 => IsLeft(p, w)
    <3>1. \A k \in 1..j : p # w[k].idx + 1
      BY <1>2, <1>5, <1>6
    <3> QED  BY <1>5, <3>1 DEF IsLeft, d
  <2>2. CASE p = d + 1
    BY <1>6, <1>8, <2>2
  <2>3. CASE p # d + 1
    <3>1. \A l \in 1..m : ~(l > m)
      BY <1>5
    <3>2. g[x] <= g[s[p]]
      BY <1>1, <1>5, <2>1, <2>3, <3>1 DEF LeftOK, d
    <3> QED  BY <1>8, <2>1, <3>2
  <2> QED  BY <2>1, <2>2, <2>3
\* All that is above leads to nothing below.
<1>10. \A z \in A : order[z].before \subseteq cov \cup A
  <2> SUFFICES ASSUME NEW z \in A, NEW y \in order[z].before, y \notin cov, y \notin A PROVE FALSE
    OBVIOUS
  <2>1. PICK p \in DOMAIN s : z = s[p] /\ p > d
    BY <1>2, <1>7
  <2>2. p # d + 1 => Saw(g, s, w, z)
    BY <1>1, <1>9, <2>1 DEF LeftOK
  <2>3. y \in DOMAIN g
    <3>1. CASE p = d + 1
      BY <1>6, <2>1, <3>1
    <3>2. CASE p # d + 1
      BY <2>2, <3>2 DEF Saw
    <3> QED  BY <3>1, <3>2
  <2>4. PICK q \in DOMAIN s : y = s[q] /\ ~(q > d)
    BY <1>2, <1>3, <1>7, <2>3
  <2>5. q <= d
    BY <1>2, <1>6, <2>4
  <2>6. w[m].num <= g[z] /\ g[z] \in Nat /\ g[y] \in Nat
    BY <1>2, <1>3, <1>9, <2>1, <2>3
  <2>7. CASE p = d + 1
    <3>1. g[y] < w[m].num
      BY <1>1, <1>5, <2>4, <2>5 DEF NumbersOK, d
    <3>2. g[x] <= g[y]
      BY <1>6, <2>1, <2>7
    <3> QED  BY <1>6, <1>8, <2>6, <3>1, <3>2
  <2>8. CASE p # d + 1
    <3>1. g[z] < w[m].num
      BY <1>5, <2>2, <2>4, <2>5, <2>8 DEF Saw, d
    <3> QED  BY <1>6, <2>6, <3>1
  <2> QED  BY <2>7, <2>8
<1>11. A \subseteq Item /\ cov \subseteq Item /\ A \cap cov = {} /\ \A z \in A : order[z].after # {}
  <2>1. \A p \in DOMAIN s : order[s[p]].after # {}
    BY <1>1 DEF NumbersOK
  <2> QED  BY <1>1, <1>2, <1>7, <2>1 DEF StacksOK
<1>12. IsComponent(above)
  <2>1. \A z \in A : Reaches(x, z)
    <3>1. \A p \in DOMAIN s : p > d => Reaches(x, s[p])
      BY <1>1, <1>5 DEF ReachOK, d
    <3> QED  BY <1>2, <1>7, <3>1
  <2>2. \A z \in A : Reaches(z, x)
    <3> TAKE z \in A
    <3>1. PICK p \in DOMAIN s : z = s[p]
      BY <1>2, <1>7
    <3>2. PICK k \in 1..m : Reaches(z, w[k].node)
      BY <1>1, <1>5, <3>1 DEF ReachOK
    <3>3. d + 1 > w[k].idx
      BY <1>2, <1>5, <1>6
    <3>4. Reaches(w[k].node, x)
      BY <1>1, <1>5, <1>6, <3>3 DEF ReachOK
    <3> QED  BY <3>2, <3>4, ReachingIs
  <2> DEFINE Cov == {z \in cov : order[z].after # {}}
  <2>3. Closed(Cov \cup A) /\ Closed(Cov) /\ Cov \in SUBSET Item /\ Cov \cup A \in SUBSET Item
    <3>1. \A z \in Cov : order[z].before \subseteq Cov
      <4> SUFFICES ASSUME NEW z \in Cov, NEW y \in order[z].before PROVE y \in Cov
        OBVIOUS
      <4>1. y \in cov /\ z \in Item
        BY <1>1, <1>11 DEF DoneOK
      <4>2. z \in order[y].after
        BY <4>1, OrderIs
      <4> QED  BY <4>1, <4>2
    <3>2. \A z \in A : order[z].before \subseteq Cov \cup A
      <4> SUFFICES ASSUME NEW z \in A, NEW y \in order[z].before PROVE y \in Cov \cup A
        OBVIOUS
      <4>1. y \in cov \cup A /\ z \in Item
        BY <1>10, <1>11
      <4>2. z \in order[y].after
        BY <4>1, OrderIs
      <4> QED  BY <4>1, <4>2
    <3>3. Cov \in SUBSET Item /\ Cov \cup A \in SUBSET Item
      BY <1>11
    <3> HIDE DEF Cov
    <3> QED  BY <3>1, <3>2, <3>3, OrderIs
  <2>4. ASSUME NEW z \in A, NEW y \in Item, Reaches(z, y), Reaches(y, z) PROVE y \in A
    <3>1. y \in Cov \cup A
      BY <2>3, <2>4 DEF Reaches
    <3>2. y \in Cov => z \in Cov
      BY <2>3, <2>4 DEF Reaches
    <3> QED  BY <1>11, <3>1, <3>2
  <2>5. \A z, y \in A : Reaches(z, y)
    BY <2>1, <2>2, ReachingIs
  <2> QED  BY <2>4, <2>5 DEF IsComponent, A
<1>13. StacksOK(cov \cup A, t, v)
  <2>1. cov \cup A \subseteq Item /\ (cov \cup A) \cap ToSet(t) = {}
    BY <1>1, <1>7, <1>11 DEF StacksOK
  <2>2. \A k \in 1..j : v[k].idx < Len(t) /\ v[k].node = t[v[k].idx + 1]
    <3> TAKE k \in 1..j
    <3>1. w[k].idx < d /\ w[k].node = s[w[k].idx + 1]
      BY <1>1, <1>5 DEF StacksOK
    <3>2. w[k].idx + 1 \in 1..d
      BY <1>2, <1>5, <1>6
    <3> QED  BY <1>5, <1>7, <3>1, <3>2
  <2>3. \A k, l \in 1..j : k < l => v[k].idx < v[l].idx
    BY <1>1, <1>5 DEF StacksOK
  <2>4. v # <<>> => v[1].idx = 0
    <3> HAVE v # <<>>
    <3>1. j # 0
      BY <1>5
    <3>2. 1 \in 1..j
      BY <1>5, <3>1 DEF j
    <3> QED  BY <1>1, <1>5, <3>2 DEF StacksOK
  <2> QED  BY <1>5, <1>7, <2>1, <2>2, <2>3, <2>4 DEF StacksOK
<1>14. DoneOK(cov \cup A)
  BY <1>1, <1>10 DEF DoneOK
<1>15. DOMAIN h = DOMAIN g /\ \A p \in 1..d : /\ p \in DOMAIN s /\ s[p] \in DOMAIN g /\ t[p] = s[p]
                                            /\ h[s[p]] = g[s[p]] /\ g[s[p]] \in Nat
  <2>1. DOMAIN h = DOMAIN g
    BY <1>4
  <2>2. \A p \in 1..d : p \in DOMAIN s /\ ~(p > d)
    BY <1>2, <1>6
  <2>3. \A p \in 1..d : s[p] \in DOMAIN g /\ s[p] \notin A
    BY <1>2, <1>3, <1>7, <2>2
  <2> QED  BY <1>3, <1>4, <1>7, <2>1, <2>2, <2>3
<1>16. NumbersOK(h, cov \cup A, t, v)
  <2>1. h \in [(cov \cup A) \cup ToSet(t) -> Nat]
    <3>1. DOMAIN g = (cov \cup A) \cup ToSet(t)
      BY <1>3, <1>7
    <3> QED  BY <1>3, <1>4, <3>1
  <2>2. \A z \in cov \cup A : h[z] = OutOfReach
    <3>1. \A z \in cov : g[z] = OutOfReach
      BY <1>1 DEF NumbersOK
    <3> QED  BY <1>3, <1>4, <1>7, <3>1
  <2>3. \A p \in DOMAIN t : order[t[p]].after # {} /\ h[t[p]] < Cardinality(DOMAIN h)
    BY <1>1, <1>7, <1>15 DEF NumbersOK
  <2>4. \A k \in 1..j : v[k].num < Cardinality(DOMAIN h) /\ h[v[k].node] <= v[k].num
    <3> TAKE k \in 1..j
    <3>1. w[k].num < Cardinality(DOMAIN g) /\ g[w[k].node] <= w[k].num
      BY <1>1, <1>5 DEF NumbersOK
    <3>2. w[k].idx + 1 \in 1..d
      BY <1>2, <1>5, <1>6
    <3>3. w[k].node = s[w[k].idx + 1]
      BY <1>1, <1>5 DEF StacksOK
    <3> QED  BY <1>5, <1>15, <3>1, <3>2, <3>3
  <2>5. \A k \in 1..j, p \in 1..d : p <= v[k].idx => h[t[p]] < v[k].num
    BY <1>1, <1>5, <1>15 DEF NumbersOK
  <2>6. \A k, l \in 1..j : k < l => v[k].num < v[l].num
    BY <1>1, <1>5 DEF NumbersOK
  <2> QED  BY <1>5, <1>7, <2>1, <2>2, <2>3, <2>4, <2>5, <2>6 DEF NumbersOK
<1>17. ReachOK(h, t, v)
  <2>1. \A k \in 1..j : \A p \in 1..d : p > v[k].idx => Reaches(v[k].node, t[p])
    BY <1>1, <1>5, <1>15 DEF ReachOK
  <2>2. ASSUME NEW p \in 1..d
        PROVE  \E k \in 1..j : v[k].num <= h[t[p]] /\ Reaches(t[p], v[k].node)
    <3>1. PICK k \in 1..m : w[k].num <= g[s[p]] /\ Reaches(s[p], w[k].node)
      BY <1>1, <1>5, <1>15 DEF ReachOK
    <3>2. p <= d
      BY <1>6
    <3>3. g[s[p]] < w[m].num
      BY <1>1, <1>5, <1>15, <3>2 DEF NumbersOK, d
    <3>4. k # m
      BY <1>6, <1>15, <3>1, <3>3
    <3> QED  BY <1>5, <1>15, <3>1, <3>4
  <2> QED  BY <1>5, <1>7, <2>1, <2>2 DEF ReachOK
<1>18. LeftOK(h, t, v)
  <2> SUFFICES ASSUME NEW p \in 1..d, IsLeft(p, v)
               PROVE  /\ Saw(h, t, v, t[p])
                      /\ \A k \in DOMAIN v :
                           v[k].idx < p /\ (\A l \in DOMAIN v : l > k => p <= v[l].idx)
                             => h[v[k].node] <= h[t[p]]
    BY <1>7 DEF LeftOK
  <2>1. IsLeft(p, w)
    <3>1. p # d + 1
      BY <1>6
    <3>2. \A k \in 1..j : p # w[k].idx + 1
      BY <1>5 DEF IsLeft
    <3> QED  BY <1>5, <3>1, <3>2 DEF IsLeft, d
  <2>2. /\ Saw(g, s, w, s[p])
        /\ \A k \in DOMAIN w :
             w[k].idx < p /\ (\A l \in DOMAIN w : l > k => p <= w[l].idx) => g[w[k].node] <= g[s[p]]
    BY <1>1, <1>15, <2>1 DEF LeftOK
  <2>3. Saw(h, t, v, t[p])
    BY <1>5, <1>7, <1>15, <2>2 DEF Saw
  <2>4. ASSUME NEW k \in 1..j, w[k].idx < p, \A l \in 1..j : l > k => p <= w[l].idx
        PROVE  h[w[k].node] <= h[s[p]]
    <3>1. p <= w[m].idx
      BY <1>6 DEF d
    <3>2. \A l \in 1..m : l > k => p <= w[l].idx
      BY <1>5, <2>4, <3>1
    <3>3. g[w[k].node] <= g[s[p]]
      BY <1>5, <2>2, <2>4, <3>2
    <3>4. w[k].idx + 1 \in 1..d /\ w[k].node = s[w[k].idx + 1]
      BY <1>1, <1>2, <1>5, <1>6 DEF StacksOK
    <3> QED  BY <1>15, <3>3, <3>4
  <2> QED  BY <1>5, <1>15, <2>3, <2>4
<1> QED  BY <1>12, <1>13, <1>14, <1>16, <1>17, <1>18 DEF Searching, A

-----------------------------------------------------------------------------
(***************************************************************************)
(* The search as a whole: what it has found are components.                *)
(***************************************************************************)

SearchOK ==
  /\ solving = "waiting" => comps = {} /\ low = <<>> /\ node_stack = <<>> /\ work_stack = <<>>
  /\ \A com \in comps : IsComponent(com)
  /\ solving = "scc" => Searching(low, Covered, node_stack, work_stack)

\* Whether something is a component, and how the search stands, depends on the
\* universe only.
LEMMA SearchIsKept ==
  ASSUME UNCHANGED builder_vars
  PROVE  /\ \A com : IsComponent(com)' <=> IsComponent(com)
         /\ UNCHANGED order /\ Searching(low', Covered', node_stack', work_stack')
              => Searching(low, Covered, node_stack, work_stack)'
<1>1. GroupOrder' = GroupOrder
  BY OrdersStay
<1>2. \A x, y : Reaches(x, y)' <=> Reaches(x, y)
  BY <1>1 DEF Reaches, Closed
<1>3. \A com : IsComponent(com)' <=> IsComponent(com)
  BY <1>2 DEF IsComponent
<1>4. ASSUME UNCHANGED order, Searching(low', Covered', node_stack', work_stack')
      PROVE  Searching(low, Covered, node_stack, work_stack)'
  <2>1. \A cov, s, w : StacksOK(cov, s, w)' <=> StacksOK(cov, s, w)
    BY DEF StacksOK
  <2>2. \A cov : DoneOK(cov)' <=> DoneOK(cov)
    BY <1>4 DEF DoneOK
  <2>3. \A f, cov, s, w : NumbersOK(f, cov, s, w)' <=> NumbersOK(f, cov, s, w)
    BY <1>4 DEF NumbersOK, OutOfReach
  <2>4. \A f, s, w : ReachOK(f, s, w)' <=> ReachOK(f, s, w)
    BY <1>2 DEF ReachOK
  <2>5. \A f, s, w : LeftOK(f, s, w)' <=> LeftOK(f, s, w)
    BY <1>4 DEF LeftOK, Saw, IsLeft
  <2>6. \A f, cov, s, w : Searching(f, cov, s, w)' <=> Searching(f, cov, s, w)
    BY <2>1, <2>2, <2>3, <2>4, <2>5 DEF Searching
  <2> QED  BY <1>4, <2>6
<1> QED  BY <1>3, <1>4

\* After a look at the successors of the node that is worked on.
LEMMA LookingKeeps ==
  ASSUME Inv, SearchOK, solving = "scc", work_stack # <<>>, NEW x, x = Work.node
  PROVE  /\ order = ItemOrder /\ x \in Item /\ x = work_stack[Len(work_stack)].node
         /\ Searching(LowAfter(x), Covered \cup Fresh(x), node_stack, work_stack)
         /\ DOMAIN LowAfter(x) = Seen \cup Fresh(x)
         /\ \A y \in Fresh(x) : IsComponent(<<y>>)
         /\ ToVisit(x) = {} =>
              /\ order[x].before \subseteq DOMAIN LowAfter(x)
              /\ \A y \in order[x].before : LowAfter(x)[x] <= LowAfter(x)[y]
<1> DEFINE g == LowAfter(x)
           heard == Passed(x) \cap Seen
<1>1. order = ItemOrder /\ Searching(low, Covered, node_stack, work_stack)
  BY DEF Inv, StageOK, SearchOK
<1>2. /\ StacksOK(Covered, node_stack, work_stack)
      /\ NumbersOK(low, Covered, node_stack, work_stack)
  BY <1>1 DEF Searching
<1>3. x = work_stack[Len(work_stack)].node /\ Len(work_stack) \in DOMAIN work_stack
  <2>1. Len(work_stack) \in Nat \ {0} /\ DOMAIN work_stack = 1..Len(work_stack)
    BY WorkIs
  <2> QED  BY <2>1 DEF Work
<1>4. x \in Item /\ x \in Seen /\ x \in ToSet(node_stack) /\ \E p \in DOMAIN node_stack : x = node_stack[p]
  <2>1. x \in Item /\ work_stack[Len(work_stack)].idx + 1 \in DOMAIN node_stack
    BY <1>2, <1>3, StacksAre
  <2>2. x = node_stack[work_stack[Len(work_stack)].idx + 1]
    BY <1>2, <1>3 DEF StacksOK
  <2>3. x \in ToSet(node_stack)
    BY <1>2, <2>1, <2>2, StacksAre
  <2> QED  BY <2>1, <2>2, <2>3 DEF Inv, StackOK, Seen
<1>5. /\ Seen \subseteq Item /\ low \in [Seen -> Nat] /\ OutOfReach \in Nat
      /\ Cardinality(Seen) < OutOfReach /\ Cardinality(Seen) \in Nat
  <2>1. /\ OutOfReach \in Nat /\ Cardinality(DOMAIN low) < OutOfReach /\ DOMAIN low \subseteq Item
        /\ Cardinality(DOMAIN low) \in Nat
    BY <1>2, NumbersCounted
  <2>2. low \in [DOMAIN low -> Nat]
    BY <1>2 DEF NumbersOK
  <2> QED  BY <2>1, <2>2 DEF Seen
<1>6. /\ Fresh(x) \subseteq Item \ Seen /\ \A y \in Fresh(x) : Isolated(y) /\ order[y].before = {}
      /\ heard \subseteq order[x].before \cap Seen
      /\ g \in [Seen \cup Fresh(x) -> Nat]
      /\ \A y \in Fresh(x) : g[y] = OutOfReach
      /\ \A y \in Seen \ {x} : g[y] = low[y]
      /\ g[x] <= low[x] /\ \A y \in heard : g[x] <= low[y]
      /\ g[x] = low[x] \/ \E y \in heard : g[x] = low[y]
  BY <1>1, <1>4, <1>5, HeardIs
<1> HIDE DEF g, heard
<1>7. Searching(g, Covered \cup Fresh(x), node_stack, work_stack)
  <2>1. Seen = DOMAIN low
    BY DEF Seen
  <2> QED  BY <1>1, <1>3, <1>6, <2>1, HearingKeeps
<1>8. DOMAIN g = Seen \cup Fresh(x)
  BY <1>6
<1>9. \A y \in Fresh(x) : IsComponent(<<y>>)
  BY <1>1, <1>6, IsolatedIsComponent
<1>10. ASSUME ToVisit(x) = {}, NEW y \in order[x].before
       PROVE  y \in DOMAIN g /\ g[x] <= g[y]
  <2>1. y \in Passed(x) /\ (y \in Seen \/ y \in Fresh(x))
    BY <1>10 DEF Passed, Fresh
  <2>2. low[x] < Cardinality(Seen)
    BY <1>2, <1>4 DEF NumbersOK, Seen
  <2>3. g[x] \in Nat /\ low[x] \in Nat
    BY <1>4, <1>5, <1>6
  <2>4. CASE y \in Fresh(x)
    BY <1>5, <1>6, <1>8, <2>2, <2>3, <2>4
  <2>5. CASE y \in Seen
    <3>1. g[x] <= low[y]
      BY <1>6, <2>1, <2>5 DEF heard
    <3>2. CASE y = x
      BY <1>4, <1>8, <2>3, <3>2
    <3>3. CASE y # x
      BY <1>6, <1>8, <2>5, <3>1, <3>3
    <3> QED  BY <3>2, <3>3
  <2> QED  BY <2>1, <2>4, <2>5
<1> QED  BY <1>1, <1>3, <1>4, <1>7, <1>8, <1>9, <1>10 DEF g

\* Nothing on the stacks.
LEMMA BetweenStarts ==
  ASSUME NEW cov \in SUBSET Item, DoneOK(cov), NEW f \in [cov -> Nat], \A z \in cov : f[z] = OutOfReach
  PROVE  Searching(f, cov, <<>>, <<>>)
<1>1. StacksOK(cov, <<>>, <<>>)
  BY EmptyChain DEF StacksOK
<1>2. cov \cup ToSet(<<>>) = cov
  BY EmptyChain
<1>3. NumbersOK(f, cov, <<>>, <<>>)
  BY <1>2 DEF NumbersOK
<1>4. ReachOK(f, <<>>, <<>>)
  BY DEF ReachOK
<1>5. LeftOK(f, <<>>, <<>>)
  BY DEF LeftOK
<1> QED  BY <1>1, <1>3, <1>4, <1>5 DEF Searching

LEMMA ComputeGroupOrderSearches ==
  ASSUME Inv, SearchOK, ComputeGroupOrder, UNCHANGED builder_vars
  PROVE  SearchOK'
<1>1. comps' = {} /\ node_stack' = <<>> /\ work_stack' = <<>> /\ low' = <<>> /\ solving' = "scc"
  BY DEF ComputeGroupOrder, SearchOK
<1>2. Covered' = {} /\ low' \in [{} -> Nat] /\ ToSet(node_stack') = {}
  BY <1>1, EmptyChain DEF Covered
<1>3. StacksOK(Covered, node_stack, work_stack)' /\ DoneOK(Covered)'
  BY <1>1, <1>2, EmptyChain DEF StacksOK, DoneOK
<1>4. NumbersOK(low, Covered, node_stack, work_stack)'
  BY <1>1, <1>2 DEF NumbersOK
<1>5. ReachOK(low, node_stack, work_stack)' /\ LeftOK(low, node_stack, work_stack)'
  BY <1>1 DEF ReachOK, LeftOK
<1> QED  BY <1>1, <1>3, <1>4, <1>5 DEF SearchOK, Searching

\* A node without predecessors or successors becomes a component, any other is
\* put on the stacks.
LEMMA StartNodeSearches ==
  ASSUME Inv, SearchOK, StartNode, UNCHANGED builder_vars
  PROVE  SearchOK'
<1>1. PICK i \in DOMAIN Items :
        /\ Items[i] \notin Seen
        /\ IF Isolated(Items[i])
           THEN /\ comps' = comps \cup {<<Items[i]>>}
                /\ low' = Numbered({Items[i]}, OutOfReach)
                /\ UNCHANGED <<node_stack, work_stack>>
           ELSE /\ low' = Numbered({Items[i]}, Cardinality(Seen))
                /\ work_stack' = <<[node |-> Items[i], idx |-> Len(node_stack),
                                    num |-> Cardinality(Seen)]>>
                /\ node_stack' = Append(node_stack, Items[i])
                /\ UNCHANGED comps
  BY DEF StartNode
<1> DEFINE x == Items[i]
<1>2. x \in Item \ Seen
  BY <1>1, ItemsAre
<1>3. node_stack = <<>> /\ work_stack = <<>> /\ solving = "scc" /\ solving' = "scc" /\ UNCHANGED order
  BY DEF StartNode, Inv, WorkOK
<1>4. order = ItemOrder /\ Searching(low, Covered, <<>>, <<>>) /\ \A com \in comps : IsComponent(com)
  BY <1>3 DEF Inv, StageOK, SearchOK
<1>5. Seen = Covered /\ Seen \subseteq Item /\ DoneOK(Covered) /\ NumbersOK(low, Covered, <<>>, <<>>)
  BY <1>3, <1>4, EmptyChain, SeenAreItems DEF Inv, StackOK, Seen, Searching
<1>6. low \in [Covered -> Nat] /\ \A z \in Covered : low[z] = OutOfReach
  BY <1>5, EmptyChain DEF NumbersOK
<1>7. OutOfReach \in Nat
  BY ItemsAre, ItemsCounted DEF OutOfReach
<1> HIDE DEF x
<1>8. CASE Isolated(x)
  <2>1. comps' = comps \cup {<<x>>} /\ low' = Numbered({x}, OutOfReach) /\ node_stack' = <<>> /\ work_stack' = <<>>
    BY <1>1, <1>3, <1>8 DEF x
  <2>2. IsComponent(<<x>>)
    BY <1>2, <1>4, <1>8, IsolatedIsComponent
  <2>3. Covered' = Covered \cup {x}
    <3>1. Singles({x}) = {<<x>>}
      BY DEF Singles
    <3>2. UNION {ToSet(com) : com \in comps \cup Singles({x})} = Covered \cup {x}
      BY <1>2, SinglesKeepComponents
    <3> QED  BY <2>1, <3>1, <3>2 DEF Covered
  <2>4. low' \in [Covered' -> Nat] /\ \A z \in Covered' : low'[z] = OutOfReach
    BY <1>5, <1>6, <1>7, <2>1, <2>3 DEF Numbered
  <2>5. DoneOK(Covered \cup {x})
    BY <1>5, <1>8 DEF DoneOK, Isolated
  <2>6. Searching(low', Covered', <<>>, <<>>)
    <3>1. Covered' \in SUBSET Item
      BY <1>2, <1>5, <2>3
    <3> QED  BY <2>3, <2>4, <2>5, <3>1, BetweenStarts
  <2> QED  BY <1>3, <1>4, <2>1, <2>2, <2>6, SearchIsKept DEF SearchOK
<1>9. CASE ~Isolated(x)
  <2>1. /\ low' = Numbered({x}, Cardinality(Seen)) /\ comps' = comps
        /\ work_stack' = <<[node |-> x, idx |-> Len(node_stack), num |-> Cardinality(Seen)]>>
        /\ node_stack' = Append(node_stack, x)
    BY <1>1, <1>9 DEF x
  <2>2. Pushed(low, <<>>, <<>>, x, low', node_stack', work_stack')
    <3>1. low' = [z \in Seen \cup {x} |-> IF z = x THEN Cardinality(Seen) ELSE low[z]]
      BY <2>1 DEF Numbered
    <3>2. work_stack' = Append(<<>>, [node |-> x, idx |-> Len(<<>>), num |-> Cardinality(Seen)])
      BY <1>3, <2>1
    <3> QED  BY <1>3, <2>1, <3>1, <3>2 DEF Pushed, Seen
  <2>3. Searching(low', Covered, node_stack', work_stack')
    <3>1. x \in Item \ DOMAIN low /\ order[x].after # {}
      BY <1>2, <1>9 DEF Seen, Isolated
    <3> QED  BY <1>4, <2>2, <3>1, PushingKeeps
  <2>4. Covered' = Covered
    BY <2>1 DEF Covered
  <2> QED  BY <1>3, <1>4, <2>1, <2>3, <2>4, SearchIsKept DEF SearchOK
<1> QED  BY <1>8, <1>9

\* Successors that are passed become components; one is put on the stacks.
LEMMA VisitSearches ==
  ASSUME Inv, SearchOK, Visit, UNCHANGED builder_vars
  PROVE  SearchOK'
<1> DEFINE x == Work.node
           g == LowAfter(x)
           n == Cardinality(DOMAIN g)
<1>1. PICK y \in ToVisit(x) :
        /\ low' = [z \in DOMAIN g \cup {y} |-> IF z = y THEN n ELSE g[z]]
        /\ work_stack' = Append(work_stack, [node |-> y, idx |-> Len(node_stack), num |-> n])
        /\ node_stack' = Append(node_stack, y)
        /\ comps' = comps \cup Singles(Fresh(x))
  BY DEF Visit
<1>2. solving = "scc" /\ solving' = "scc" /\ UNCHANGED order /\ work_stack # <<>>
  BY DEF Visit
<1>3. /\ order = ItemOrder /\ x \in Item /\ x = work_stack[Len(work_stack)].node
      /\ Searching(g, Covered \cup Fresh(x), node_stack, work_stack)
      /\ DOMAIN g = Seen \cup Fresh(x)
      /\ \A z \in Fresh(x) : IsComponent(<<z>>)
  BY <1>2, LookingKeeps
<1>4. Pushed(g, node_stack, work_stack, y, low', node_stack', work_stack')
  BY <1>1 DEF Pushed
<1> HIDE DEF x, g, n
<1>5. y \in Item \ DOMAIN g /\ order[y].after # {} /\ y \in order[x].before /\ Fresh(x) \subseteq Item \ Seen
  <2>1. y \in Item \ Seen /\ y \notin Fresh(x) /\ Fresh(x) \subseteq Item \ Seen
    BY <1>2, <1>3, SuccessorsAre
  <2> QED  BY <1>3, <2>1 DEF ToVisit, MustVisit, Isolated
<1>6. \A k \in DOMAIN work_stack : Reaches(work_stack[k].node, y)
  <2> DEFINE m == Len(work_stack)
  <2>1. /\ StacksOK(Covered \cup Fresh(x), node_stack, work_stack)
        /\ ReachOK(g, node_stack, work_stack)
    BY <1>3 DEF Searching
  <2>2. m \in DOMAIN work_stack /\ \A k \in DOMAIN work_stack : work_stack[k].idx <= work_stack[m].idx
    <3>1. m \in DOMAIN work_stack /\ DOMAIN work_stack = 1..m
          /\ \A k \in 1..m : work_stack[k].idx <= work_stack[m].idx
      BY <1>2, <2>1, TopIs
    <3> QED  BY <3>1
  <2>3. /\ work_stack[m].idx + 1 \in DOMAIN node_stack /\ work_stack[m].idx \in Nat
        /\ x = node_stack[work_stack[m].idx + 1]
        /\ \A k \in DOMAIN work_stack : work_stack[k].idx \in Nat
    <3>1. \A k \in DOMAIN work_stack : work_stack[k].idx \in Nat /\ work_stack[k].idx + 1 \in DOMAIN node_stack
      BY <2>1, StacksAre
    <3>2. work_stack[m].node = node_stack[work_stack[m].idx + 1]
      BY <2>1, <2>2 DEF StacksOK
    <3> QED  BY <1>3, <2>2, <3>1, <3>2
  <2> HIDE DEF m
  <2>4. \A k \in DOMAIN work_stack : Reaches(work_stack[k].node, x)
    <3> TAKE k \in DOMAIN work_stack
    <3>1. work_stack[m].idx + 1 > work_stack[k].idx
      BY <2>2, <2>3
    <3> QED  BY <2>1, <2>3, <3>1 DEF ReachOK
  <2>5. Reaches(x, y)
    BY <1>3, <1>5, OrderIs
  <2> QED  BY <2>4, <2>5, ReachingIs
<1>7. Searching(low', Covered \cup Fresh(x), node_stack', work_stack')
  BY <1>2, <1>3, <1>4, <1>5, <1>6, PushingKeeps
<1>8. Covered' = Covered \cup Fresh(x)
  BY <1>1, <1>5, SinglesKeepComponents DEF Covered
<1>9. \A com \in comps' : IsComponent(com)
  BY <1>1, <1>3 DEF SearchOK, Singles
<1> QED  BY <1>2, <1>7, <1>8, <1>9, SearchIsKept DEF SearchOK

\* The number of the node is handed on, or what is above it is a component.
LEMMA LeaveSearches ==
  ASSUME Inv, SearchOK, Leave, UNCHANGED builder_vars
  PROVE  SearchOK'
<1> DEFINE x == Work.node
           g == LowAfter(x)
           m == Len(work_stack)
           rest == Front(work_stack)
           u == Last(rest).node
           above == SubSeq(node_stack, Work.idx + 1, Len(node_stack))
           Returns == rest # <<>> /\ (g[x] <= g[u] \/ g[x] # Work.num)
<1>1. /\ work_stack' = rest /\ ToVisit(x) = {}
      /\ IF Returns
         THEN /\ low' = IF g[x] <= g[u] THEN [g EXCEPT ![u] = g[x]] ELSE g
              /\ comps' = comps \cup Singles(Fresh(x))
              /\ UNCHANGED node_stack
         ELSE /\ low' = [z \in DOMAIN g |-> IF z \in ToSet(above) THEN OutOfReach ELSE g[z]]
              /\ comps' = comps \cup Singles(Fresh(x)) \cup {above}
              /\ node_stack' = SubSeq(node_stack, 1, Work.idx)
  BY Zenon DEF Leave
<1>2. solving = "scc" /\ solving' = "scc" /\ UNCHANGED order /\ work_stack # <<>>
  BY DEF Leave
<1>3. /\ order = ItemOrder /\ x \in Item /\ x = work_stack[m].node
      /\ Searching(g, Covered \cup Fresh(x), node_stack, work_stack)
      /\ \A z \in Fresh(x) : IsComponent(<<z>>)
      /\ order[x].before \subseteq DOMAIN g
      /\ \A y \in order[x].before : g[x] <= g[y]
  BY <1>1, <1>2, LookingKeeps
<1>4. Fresh(x) \subseteq Item \ Seen
  BY <1>2, <1>3, SuccessorsAre
<1>5. Work = work_stack[m]
  BY DEF Work
<1>6. /\ m \in Nat \ {0} /\ (rest # <<>> <=> m > 1)
      /\ rest # <<>> => u = work_stack[m - 1].node
  <2>1. StacksOK(Covered \cup Fresh(x), node_stack, work_stack)
    BY <1>3 DEF Searching
  <2>2. /\ m \in Nat \ {0} /\ rest \in Seq(Frame) /\ DOMAIN rest = 1..m - 1 /\ Len(rest) = m - 1
        /\ \A k \in 1..m - 1 : rest[k] = work_stack[k]
    BY <1>2, <2>1, TopIs
  <2> HIDE DEF m, rest
  <2>3. rest # <<>> <=> m > 1
    BY <2>2
  <2>4. m > 1 => m - 1 \in 1..m - 1
    BY <2>2
  <2> QED  BY <2>2, <2>3, <2>4 DEF Last
<1>7. UNION {ToSet(com) : com \in comps \cup Singles(Fresh(x))} = Covered \cup Fresh(x)
  BY <1>4, SinglesKeepComponents
<1>8. \A com \in comps \cup Singles(Fresh(x)) : IsComponent(com)
  BY <1>3 DEF SearchOK, Singles
<1> HIDE DEF x, g, m, u, rest, above
<1>9. CASE Returns
  <2>1. Returned(g, work_stack, low', work_stack')
    BY <1>1, <1>3, <1>6, <1>9 DEF Returned, rest, m
  <2>2. g[x] <= g[u] \/ g[x] # work_stack[m].num
    BY <1>5, <1>9
  <2>3. m > 1 /\ u = work_stack[m - 1].node
    BY <1>6, <1>9
  <2>4. Searching(low', Covered \cup Fresh(x), node_stack, work_stack')
    BY <1>2, <1>3, <2>1, <2>2, <2>3, ReturningKeeps DEF m
  <2>5. Covered' = Covered \cup Fresh(x) /\ node_stack' = node_stack /\ comps' = comps \cup Singles(Fresh(x))
    BY <1>1, <1>7, <1>9 DEF Covered
  <2> QED  BY <1>2, <1>8, <2>4, <2>5, SearchIsKept DEF SearchOK
<1>10. CASE ~Returns
  <2>1. CutOff(g, node_stack, work_stack, low', node_stack', work_stack', above)
    BY <1>1, <1>5, <1>10 DEF CutOff, rest, m, above
  <2>2. m = 1 \/ g[x] = work_stack[m].num
    BY <1>5, <1>6, <1>10
  <2>3. /\ Searching(low', Covered \cup Fresh(x) \cup ToSet(above), node_stack', work_stack')
        /\ IsComponent(above)
    BY <1>2, <1>3, <2>1, <2>2, CuttingKeeps DEF m
  <2>4. Covered' = Covered \cup Fresh(x) \cup ToSet(above)
        /\ comps' = comps \cup Singles(Fresh(x)) \cup {above}
    BY <1>1, <1>7, <1>10 DEF Covered
  <2> QED  BY <1>2, <1>8, <2>3, <2>4, SearchIsKept DEF SearchOK
<1> QED  BY <1>9, <1>10

LEMMA SearchOKIsInductive == Inv /\ SearchOK /\ [Next]_vars => SearchOK'
<1> SUFFICES ASSUME Inv, SearchOK, [Next]_vars PROVE SearchOK'
  OBVIOUS
<1>1. CASE Build /\ UNCHANGED solver_vars
  <2>1. solving = "waiting"
    BY <1>1 DEF Inv, StageOK, Build, MergeConflicts, ExpandBroken, Reduce, BuildRelations
  <2> QED  BY <1>1, <2>1 DEF solver_vars, SearchOK
<1>2. CASE (ComputeGroupOrder \/ StartNode \/ Visit \/ Leave) /\ UNCHANGED builder_vars
  BY <1>2, ComputeGroupOrderSearches, StartNodeSearches, VisitSearches, LeaveSearches
<1>3. CASE (FinishSCC \/ Merge \/ Schedule \/ Emit \/ Finish) /\ UNCHANGED builder_vars
  <2>1. comps' = comps /\ solving' \notin {"waiting", "scc"}
    BY <1>3 DEF FinishSCC, Merge, Schedule, Emit, Finish
  <2> QED  BY <1>3, <2>1, SearchIsKept DEF SearchOK
<1>4. CASE UNCHANGED vars
  <2>1. UNCHANGED builder_vars /\ UNCHANGED solver_vars /\ Covered' = Covered
    BY <1>4 DEF vars, solver_vars, Covered
  <2> QED  BY <2>1, SearchIsKept DEF SearchOK, solver_vars
<1> QED  BY <1>1, <1>2, <1>3, <1>4 DEF Next, Solve

LEMMA SearchHolds == Spec => []SearchOK
<1>1. Init => SearchOK
  BY DEF Init, SearchOK
<1> QED  BY <1>1, SearchOKIsInductive, InvHolds, PTL DEF Spec

\* In the end every component has been emitted.
LEMMA NoneLeftBehind ==
  ASSUME Inv, SearchOK, NothingForgotten, solving = "done"
  PROVE  LeftBehind = {}
<1> DEFINE Pre(com) == {z \in Item : \E x \in ToSet(com) : Reaches(z, x)}
           T == {Pre(com) : com \in LeftBehind}
<1> SUFFICES ASSUME LeftBehind # {} PROVE FALSE
  OBVIOUS
<1>1. PICK com \in LeftBehind : \A other \in LeftBehind : Pre(other) \subseteq Pre(com) => Pre(other) = Pre(com)
  <2>1. T # {}
    OBVIOUS
  <2>2. T \subseteq FiniteSubsetsOf(Item)
    <3>1. \A c : Pre(c) \in FiniteSubsetsOf(Item)
      <4> TAKE c
      <4>1. Pre(c) \subseteq Item
        OBVIOUS
      <4> HIDE DEF Pre
      <4>2. IsFiniteSet(Pre(c))
        BY <4>1, ItemsAre, FS_Subset
      <4> QED  BY <4>1, <4>2 DEF FiniteSubsetsOf
    <3> QED  BY <3>1
  <2>3. \E s \in T : \A t \in T : t \subseteq s => t = s
    <3> HIDE DEF T
    <3> QED  BY <2>1, <2>2, SmallestSet
  <2> HIDE DEF Pre
  <2> QED  BY <2>3
<1>2. PICK other \in LeftBehind \ {com}, e \in GroupOrder : e[1] \in ToSet(other) /\ e[2] \in ToSet(com)
  BY DEF NothingForgotten
<1>3. com \in comps /\ other \in comps /\ IsComponent(com) /\ IsComponent(other)
  BY DEF LeftBehind, SearchOK
<1>4. e[1] \in Item /\ e[2] \in Item /\ Reaches(e[1], e[2])
  BY GroupOrderIs DEF Reaches, Closed
<1>5. \A x \in ToSet(other) : x \in Item
  BY <1>3, ElementOfSeq DEF Inv, ComponentsOK, IsChain, ToSet
<1>6. \A x \in ToSet(other) : Reaches(x, e[1]) /\ Reaches(x, e[2])
  BY <1>2, <1>3, <1>4, <1>5, ReachingIs DEF IsComponent
<1>7. Pre(other) \subseteq Pre(com)
  BY <1>2, <1>6, ReachingIs
<1>8. e[2] \in Pre(com)
  BY <1>2, <1>4, ReachingIs
<1>9. PICK x \in ToSet(other) : Reaches(e[2], x)
  BY <1>1, <1>2, <1>7, <1>8
<1>10. e[2] \in ToSet(other)
  BY <1>3, <1>4, <1>6, <1>9 DEF IsComponent
<1> QED  BY <1>2, <1>3, <1>10 DEF Inv, ComponentsOK

\* What an item has to wait for is in its group or an earlier one.
LEMMA PlacesAre ==
  ASSUME Inv, SearchOK, NothingForgotten, GroupsAreApart, solving = "done"
  PROVE  \A x \in Item :
           /\ Place(x) \in DOMAIN result /\ x \in ToSet(result[Place(x)])
           /\ \A i \in DOMAIN result : x \in ToSet(result[i]) => i = Place(x)
<1> SUFFICES ASSUME NEW x \in Item
             PROVE  /\ Place(x) \in DOMAIN result /\ x \in ToSet(result[Place(x)])
                    /\ \A i \in DOMAIN result : x \in ToSet(result[i]) => i = Place(x)
  OBVIOUS
<1>1. PICK com \in comps : x \in ToSet(com)
  BY DEF NothingForgotten
<1>2. com \in ToSet(result)
  BY NoneLeftBehind DEF LeftBehind
<1>3. \E i \in DOMAIN result : x \in ToSet(result[i])
  BY <1>1, <1>2 DEF ToSet
<1>4. Place(x) \in DOMAIN result /\ x \in ToSet(result[Place(x)])
  BY <1>3, Zenon DEF Place
<1>5. ASSUME NEW i \in DOMAIN result, x \in ToSet(result[i]) PROVE i = Place(x)
  BY <1>4, <1>5 DEF GroupsAreApart
<1> QED  BY <1>4, <1>5

LEMMA EldersInPlace ==
  ASSUME Inv, SearchOK, NothingForgotten, GroupsAreApart, EldersFirst, solving = "done",
         NEW x \in Item, NEW y \in Item, Reaches(x, y)
  PROVE  Place(x) <= Place(y)
<1> DEFINE S == {z \in Item : Place(x) <= Place(z)}
<1>1. \A z \in Item : Place(z) \in Nat
  BY PlacesAre DEF Inv, EmittedOK
<1>2. \A e \in GroupOrder : e[1] \in S => e[2] \in S
  <2> SUFFICES ASSUME NEW e \in GroupOrder, e[1] \in S PROVE e[2] \in S
    OBVIOUS
  <2>1. e[1] \in Item /\ e[2] \in Item
    BY GroupOrderIs
  <2>2. Place(e[2]) \in DOMAIN result /\ e[2] \in ToSet(result[Place(e[2])])
    BY <2>1, PlacesAre
  <2>3. PICK j \in 1..Place(e[2]) : e[1] \in ToSet(result[j])
    BY <2>2 DEF EldersFirst
  <2>4. 1..Place(e[2]) \subseteq DOMAIN result
    BY <2>2 DEF Inv, EmittedOK
  <2>5. j = Place(e[1])
    BY <2>1, <2>3, <2>4, PlacesAre
  <2> QED  BY <1>1, <2>1, <2>3, <2>5
<1>3. x \in S
  BY <1>1
<1>4. y \in S
  <2> HIDE DEF S
  <2>1. S \in SUBSET Item
    BY DEF S
  <2> QED  BY <1>2, <1>3, <2>1 DEF Reaches, Closed
<1> QED  BY <1>4

\* The groups are the strongly connected components of the relation, whatever
\* the archive and the items are: every item is in one group, with exactly those
\* that it comes before and after, and no item is in an earlier group than one
\* that it has to follow.
THEOREM GroupsAreTheComponents == Spec => []GroupsAreRight
<1>1. ASSUME Inv, SearchOK, NothingForgotten, GroupsAreApart, EldersFirst PROVE GroupsAreRight
  <2> SUFFICES ASSUME solving = "done"
               PROVE  /\ \A x \in Item : Cardinality({i \in DOMAIN result : x \in ToSet(result[i])}) = 1
                      /\ \A i \in DOMAIN result : IsInjective(result[i]) /\ result[i] # <<>>
                      /\ \A x, y \in Item :
                           /\ Place(x) = Place(y) <=> <<x, y>> \in ComesBefore /\ <<y, x>> \in ComesBefore
                           /\ <<x, y>> \in ComesBefore => Place(x) <= Place(y)
    BY Zenon DEF GroupsAreRight
  <2>1. \A x \in Item :
          /\ Place(x) \in DOMAIN result /\ x \in ToSet(result[Place(x)])
          /\ \A i \in DOMAIN result : x \in ToSet(result[i]) => i = Place(x)
    BY <1>1, PlacesAre
  <2>2. ASSUME NEW x \in Item
        PROVE  Cardinality({i \in DOMAIN result : x \in ToSet(result[i])}) = 1
    <3>1. {i \in DOMAIN result : x \in ToSet(result[i])} = {Place(x)}
      BY <2>1
    <3> QED  BY <3>1, FS_Singleton
  <2>3. \A i \in DOMAIN result : IsInjective(result[i]) /\ result[i] # <<>>
    BY <1>1 DEF GroupsAreApart
  <2>4. ASSUME NEW x \in Item, NEW y \in Item
        PROVE  /\ Place(x) = Place(y) <=> Reaches(x, y) /\ Reaches(y, x)
               /\ Reaches(x, y) => Place(x) <= Place(y)
    <3>1. IsComponent(result[Place(x)])
      BY <1>1, <2>1, GroupsAreComponents DEF SearchOK
    <3>2. y \in ToSet(result[Place(x)]) <=> Reaches(x, y) /\ Reaches(y, x)
      BY <2>1, <3>1 DEF IsComponent
    <3>3. y \in ToSet(result[Place(x)]) <=> Place(x) = Place(y)
      BY <2>1
    <3>4. Reaches(x, y) => Place(x) <= Place(y)
      BY <1>1, EldersInPlace
    <3> QED  BY <3>2, <3>3, <3>4
  <2> QED  BY <2>2, <2>3, <2>4, ReachingIs
<1> QED  BY <1>1, InvHolds, SearchHolds, QueueForgetsNothing, NoItemTwice, NoItemBeforeItsElders, PTL

-----------------------------------------------------------------------------
(***************************************************************************)
(* What the order is for.                                                  *)
(***************************************************************************)

\* Items that have nothing in common, and take out of the target suite only
\* what is in it and not broken by itself.
ItemsApart ==
  \A a \in Archives, x \in Item :
    /\ a.rms[x] \subseteq a.target
    /\ \A p \in a.rms[x] : {} \notin a.depends[p]
    /\ \A y \in Item \ {x} : (a.adds[x] \cup a.rms[x]) \cap (a.adds[y] \cup a.rms[y]) = {}

\* Relations of a universe name broken packages as conflicts of others only.
CleanTables ==
  building = "reduced" =>
    \A p \in Package \ broken : \A d \in package_table[p].deps : d \cap broken = {}
CleanRelations ==
  /\ \A p \in Package \ broken : \A d \in relations[p].dependencies : d \cap broken = {}
  /\ \A p \in broken : relations[p].negative_dependencies = {}
UniverseOK ==
  /\ TablesOK /\ CleanTables
  /\ building = "built" => Built /\ CleanRelations

\* Packages that need a broken one lose it when the tables are reduced.
LEMMA ReducingCleans ==
  ASSUME TablesOK, Reduce
  PROVE  CleanTables'
<1> DEFINE seen == (UNION {Rdeps(b) : b \in broken \cap DOMAIN reverse_package_table}) \ broken
<1>1. /\ building = "expanded" /\ broken' = broken
      /\ package_table' =
           [p \in Package |->
              IF p \in broken THEN [deps |-> {{}}, con |-> {}]
              ELSE IF p \in seen
              THEN [deps |-> {c \ broken : c \in package_table[p].deps},
                    con  |-> package_table[p].con \ broken]
              ELSE package_table[p]]
  BY DEF Reduce
<1>2. /\ archive \in Archives
      /\ package_table = [p \in Package |-> [deps |-> archive.depends[p], con |-> Conflicts(p)]]
      /\ reverse_package_table = ReverseTable(Referenced(archive))
  BY <1>1 DEF TablesOK
<1> SUFFICES ASSUME NEW p \in Package \ broken, NEW d \in package_table'[p].deps PROVE d \cap broken = {}
  BY <1>1 DEF CleanTables
<1>3. CASE p \in seen
  <2>1. package_table'[p].deps = {c \ broken : c \in package_table[p].deps}
    <3> HIDE DEF seen
    <3> QED  BY <1>1, <1>3
  <2> QED  BY <2>1
<1>4. CASE p \notin seen
  <2>1. package_table'[p] = package_table[p]
    <3> HIDE DEF seen
    <3> QED  BY <1>1, <1>4
  <2>2. d \in archive.depends[p]
    BY <1>2, <2>1
  <2> SUFFICES ASSUME NEW b \in d, b \in broken PROVE FALSE
    OBVIOUS
  <2>3. b \in Package /\ p \in Depending(archive, b)
    BY <1>2, <2>2, ArchiveType DEF Depending
  <2>4. b \in Referenced(archive)
    BY <2>3 DEF Referenced
  <2>5. b \in DOMAIN reverse_package_table /\ Rdeps(b) = Depending(archive, b)
    BY <1>2, <2>4 DEF ReverseTable, ReverseRelations, Rdeps
  <2>6. p \in Rdeps(b)
    BY <2>3, <2>5
  <2>7. p \in UNION {Rdeps(z) : z \in broken \cap DOMAIN reverse_package_table}
    BY <2>5, <2>6, Zenon
  <2> QED  BY <1>4, <2>7, Zenon
<1> QED  BY <1>3, <1>4

LEMMA UniverseIsKept == UniverseOK /\ [Build]_builder_vars => UniverseOK'
<1> SUFFICES ASSUME UniverseOK, [Build]_builder_vars PROVE UniverseOK'
  OBVIOUS
<1>1. TablesOK /\ TablesOK'
  BY StepTables DEF UniverseOK
<1>2. CASE MergeConflicts \/ ExpandBroken
  <2>1. building' \notin {"reduced", "built"}
    BY <1>2 DEF MergeConflicts, ExpandBroken
  <2> QED  BY <1>1, <2>1 DEF UniverseOK, CleanTables
<1>3. CASE Reduce
  <2>1. building' = "reduced"
    BY <1>3 DEF Reduce
  <2> QED  BY <1>1, <1>3, <2>1, ReducingCleans DEF UniverseOK
<1>4. CASE BuildRelations
  <2>1. Built'
    BY <1>1, <1>4, BuildIsBuilt
  <2>2. building = "reduced" /\ building' = "built" /\ broken' = broken
    BY <1>4 DEF BuildRelations
  <2>3. \A p \in Package : /\ relations'[p].dependencies = package_table[p].deps
                           /\ relations'[p].negative_dependencies = package_table[p].con
    BY <1>4 DEF BuildRelations
  <2>4. \A p \in Package \ broken : \A d \in package_table[p].deps : d \cap broken = {}
    BY <2>2 DEF UniverseOK, CleanTables
  <2>5. broken \subseteq Package /\ \A p \in broken : package_table[p].con = {}
    BY <1>1, <2>2 DEF TablesOK, Reduced, Hopeless
  <2>6. CleanRelations'
    BY <2>2, <2>3, <2>4, <2>5 DEF CleanRelations
  <2> QED  BY <1>1, <2>1, <2>2, <2>6 DEF UniverseOK, CleanTables
<1>5. CASE UNCHANGED builder_vars
  <2>1. Built => Built'
    BY <1>5 DEF builder_vars, Built, Hopeless, Conflicts
  <2>2. (CleanTables => CleanTables') /\ (CleanRelations => CleanRelations')
    BY <1>5 DEF builder_vars, CleanTables, CleanRelations
  <2>3. building' = building
    BY <1>5 DEF builder_vars
  <2> QED  BY <1>1, <2>1, <2>2, <2>3 DEF UniverseOK
<1> QED  BY <1>2, <1>3, <1>4, <1>5 DEF Build

LEMMA UniverseHolds == Spec => []UniverseOK
<1>1. BuilderInit => UniverseOK
  <2>1. BuilderInit => building = "read"
    BY DEF BuilderInit
  <2> QED  BY <2>1, InitTables DEF UniverseOK, CleanTables
<1>2. UniverseOK /\ [Build]_builder_vars => UniverseOK'
  BY UniverseIsKept
<1>3. BuilderSpec => []UniverseOK
  BY <1>1, <1>2, PTL DEF BuilderSpec
<1> QED  BY <1>3, SolvingBuilds, PTL

\* The item of a package is the one that has it.
LEMMA OwnerIs ==
  ASSUME ItemsApart, archive \in Archives, NEW x \in Item, NEW p \in Adds(x) \cup Rms(x)
  PROVE  /\ ItemOf(p) = x
         /\ \A y \in Item : p \in Adds(y) \cup Rms(y) => y = x
<1>1. \A y \in Item : p \in Adds(y) \cup Rms(y) => y = x
  BY DEF ItemsApart, Adds, Rms
<1>2. PICK i \in DOMAIN Items : Items[i] = x
  BY DEF Item, Range
<1>3. /\ DOMAIN Items = 1..Len(Items) /\ Len(Items) \in Nat
      /\ \A j \in DOMAIN Items : Items[j] \in Item /\ (Items[j] = x => j = i)
  BY <1>2, ItemsAssumption DEF IsInjective, Item, Range
<1> DEFINE Has(j) == /\ p \in Adds(Items[j]) \cup Rms(Items[j])
                     /\ \A k \in j + 1 .. Len(Items) : p \notin Adds(Items[k]) \cup Rms(Items[k])
           last == CHOOSE j \in DOMAIN Items : Has(j)
<1>4. Has(i)
  <2>1. \A k \in i + 1 .. Len(Items) : k \in DOMAIN Items /\ k # i
    BY <1>2, <1>3
  <2> QED  BY <1>1, <1>2, <1>3, <2>1
<1>5. ItemOf(p) = Items[last]
  BY DEF ItemOf
<1>6. last \in DOMAIN Items /\ Has(last)
  BY <1>4, Zenon
<1>7. ItemOf(p) = x
  <2> HIDE DEF last
  <2> QED  BY <1>1, <1>3, <1>5, <1>6
<1> QED  BY <1>1, <1>7

\* An item in one of the first groups is with, or after, all it has to follow.
LEMMA EldersMoved ==
  ASSUME Inv, EldersFirst, NEW i \in DOMAIN result, NEW e \in GroupOrder, e[2] \in Moved(i)
  PROVE  e[1] \in Moved(i)
<1>1. DOMAIN result = 1..Len(result) /\ Len(result) \in Nat
  BY DEF Inv, EmittedOK
<1>2. PICK j \in 1..i : e[2] \in ToSet(result[j])
  BY DEF Moved
<1>3. j \in DOMAIN result
  BY <1>1, <1>2
<1>4. PICK k \in 1..j : e[1] \in ToSet(result[k])
  BY <1>2, <1>3 DEF EldersFirst
<1>5. k \in 1..i
  BY <1>1, <1>2, <1>4
<1> QED  BY <1>4, <1>5 DEF Moved

\* What the relation says of two items.
LEMMA GroupOrderHas ==
  ASSUME NEW x \in Item, NEW y \in Item, NEW z \in Item, x # y,
         <<x, y>> \in ConflictOrder(z) \cup RemovalOrder(z) \cup DependencyOrder(z)
  PROVE  <<x, y>> \in GroupOrder
<1>1. <<x, y>> \in Item \X Item /\ <<x, y>>[1] # <<x, y>>[2]
  OBVIOUS
<1>2. <<x, y>> \in UNION {ConflictOrder(w) \cup RemovalOrder(w) \cup DependencyOrder(w) : w \in Item}
  OBVIOUS
<1> QED  BY <1>1, <1>2, Zenon DEF GroupOrder

\* Who has moved.
LEMMA MovedAre ==
  ASSUME Inv, NEW i \in DOMAIN result
  PROVE  Moved(i) \subseteq Item /\ Len(result) \in DOMAIN result
<1>1. \A j \in DOMAIN result : ToSet(result[j]) \subseteq Item
  BY GroupsAreComponents, ElementOfSeq DEF Inv, ComponentsOK, IsChain, ToSet
<1>2. DOMAIN result = 1..Len(result) /\ Len(result) \in Nat
  BY DEF Inv, EmittedOK
<1>3. 1..i \subseteq DOMAIN result
  BY <1>2
<1> QED  BY <1>1, <1>2, <1>3 DEF Moved

LEMMA AllMove ==
  ASSUME Inv, SearchOK, NothingForgotten, GroupsAreApart, solving = "done"
  PROVE  Item \subseteq Moved(Len(result))
<1> SUFFICES ASSUME NEW x \in Item PROVE x \in Moved(Len(result))
  OBVIOUS
<1>1. Place(x) \in DOMAIN result /\ x \in ToSet(result[Place(x)])
  BY PlacesAre
<1>2. DOMAIN result = 1..Len(result)
  BY DEF Inv, EmittedOK
<1> QED  BY <1>1, <1>2 DEF Moved

\* What no item takes out stays, and what one takes out stays until it moves.
LEMMA StillThere ==
  ASSUME Inv, NEW i \in DOMAIN result, NEW r \in archive.target,
         \A y \in Moved(i) : r \notin Rms(y)
  PROVE  r \in SuiteAfter(i)
BY DEF SuiteAfter

LEMMA NowThere ==
  ASSUME NEW i, NEW y \in Moved(i), NEW q \in Adds(y)
  PROVE  q \in SuiteAfter(i)
BY DEF SuiteAfter

LEMMA SatisfiedStays ==
  ASSUME Inv, NEW i \in DOMAIN result, NEW c, Satisfied(c)
  PROVE  c \cap SuiteAfter(i) # {}
<1>1. PICK r \in c : r \in archive.target /\ r \notin GoingOut
  BY DEF Satisfied
<1>2. \A y \in Moved(i) : r \notin Rms(y)
  BY <1>1, MovedAre DEF GoingOut
<1> QED  BY <1>1, <1>2, StillThere

\* A new package has at once what it will have in the end.
LEMMA NewHasItsNeeds ==
  ASSUME Inv, EldersFirst, ItemsApart, archive \in Archives, NEW i \in DOMAIN result,
         Item \subseteq Moved(Len(result)),
         NEW x \in Item, x \in Moved(i), NEW p \in Adds(x), NEW c \in Depends(p),
         NEW q \in c, q \in SuiteAfter(Len(result))
  PROVE  c \cap SuiteAfter(i) # {}
<1>1. CASE Satisfied(c)
  BY <1>1, SatisfiedStays
<1>2. CASE ~Satisfied(c)
  <2>1. PICK y \in Item : q \in Adds(y)
    <3>1. q \notin archive.target \/ q \in GoingOut
      BY <1>2 DEF Satisfied
    <3>2. q \notin archive.target \ UNION {Rms(z) : z \in Moved(Len(result))}
      BY <3>1 DEF GoingOut
    <3>3. q \in UNION {Adds(z) : z \in Moved(Len(result))}
      BY <3>2 DEF SuiteAfter
    <3>4. Moved(Len(result)) \subseteq Item
      BY MovedAre
    <3> QED  BY <3>3, <3>4
  <2>2. CASE y \in Moved(i)
    BY <2>1, <2>2, NowThere
  <2>3. CASE y \notin Moved(i)
    <3>1. ItemOf(q) = y /\ q \in GoingIn
      BY <2>1, OwnerIs DEF GoingIn
    <3>2. y \in Adders(c)
      BY <3>1 DEF Adders
    <3>3. CASE y \in Removers(c)
      <4>1. PICK r \in c \cap (GoingOut \ GoingIn) : y = ItemOf(r)
        BY <3>3 DEF Removers
      <4>2. PICK z \in Item : r \in Rms(z)
        BY <4>1 DEF GoingOut
      <4>3. z = y /\ \A w \in Item : r \in Rms(w) => w = y
        BY <4>1, <4>2, OwnerIs
      <4>4. r \in archive.target
        BY <4>2 DEF ItemsApart, Rms
      <4>5. \A w \in Moved(i) : r \notin Rms(w)
        BY <2>3, <4>3, MovedAre
      <4> QED  BY <4>1, <4>4, <4>5, StillThere
    <3>4. CASE y \notin Removers(c)
      <4>1. c \in UNION {relations[r].dependencies : r \in Adds(x)}
        BY DEF Depends
      <4>2. <<y, x>> \in DependencyOrder(x)
        <5> DEFINE needs == {d \in UNION {relations[r].dependencies : r \in Adds(x)} : ~Satisfied(d)}
                   before(d) == {<<z, x>> : z \in Adders(d) \ Removers(d)}
                                  \cup {<<x, z>> : z \in Removers(d) \ Adders(d)}
        <5>1. c \in needs
          BY <1>2, <4>1
        <5>2. <<y, x>> \in before(c)
          BY <3>2, <3>4
        <5>3. DependencyOrder(x) = UNION {before(d) : d \in needs}
          BY Zenon DEF DependencyOrder
        <5> HIDE DEF needs, before
        <5> QED  BY <5>1, <5>2, <5>3
      <4>3. y # x
        BY <2>3
      <4>4. <<y, x>> \in GroupOrder
        BY <4>2, <4>3, GroupOrderHas
      <4>5. <<y, x>>[1] = y /\ <<y, x>>[2] = x
        OBVIOUS
      <4> QED  BY <2>3, <4>4, <4>5, EldersMoved
    <3> QED  BY <3>3, <3>4
  <2> QED  BY <2>2, <2>3
<1> QED  BY <1>1, <1>2

\* An old package keeps what it had until it leaves.
LEMMA OldKeepsItsNeeds ==
  ASSUME Inv, EldersFirst, ItemsApart, Built, CleanRelations, NEW i \in DOMAIN result,
         NEW x \in Item, x \notin Moved(i), NEW p \in Rms(x), NEW c \in Depends(p),
         NEW q \in c, q \in archive.target
  PROVE  c \cap SuiteAfter(i) # {}
<1>1. archive \in Archives /\ p \in Package
  BY GroupsAssumption DEF Built, Rms, Item
<1>2. CASE Satisfied(c)
  BY <1>2, SatisfiedStays
<1>3. CASE ~Satisfied(c)
  <2>1. CASE \A y \in Moved(i) : q \notin Rms(y)
    BY <2>1, StillThere
  <2>2. CASE \E y \in Moved(i) : q \in Rms(y)
    <3>1. PICK y \in Item : y \in Moved(i) /\ q \in Rms(y)
      BY <2>2, MovedAre
    <3>2. p \in relations[q].reverse_dependencies
      <4>1. p \notin broken
        <5>1. p \in broken => relations[p].dependencies = {{}}
          BY DEF Built
        <5> QED  BY <5>1 DEF Depends
      <4>2. c \cap broken = {}
        BY <1>1, <4>1 DEF CleanRelations, Depends
      <4>3. PICK d \in archive.depends[p] : c = d \/ c = d \ broken
        BY <1>1, <4>1 DEF Built, Depends
      <4>4. q \in d \ broken
        BY <4>2, <4>3
      <4> QED  BY <1>1, <4>3, <4>4 DEF Built
    <3>3. p \in PTable /\ ItemOf(p) = x
      BY <1>1, OwnerIs DEF PTable, GoingOut
    <3>4. <<x, y>> \in RemovalOrder(y)
      <4>1. p \in (UNION {relations[r].reverse_dependencies : r \in Rms(y)}) \cap PTable
        BY <3>1, <3>2, <3>3
      <4>2. \E d \in relations[p].dependencies : ~Satisfied(d)
        BY <1>3 DEF Depends
      <4> QED  BY <3>3, <4>1, <4>2, Zenon DEF RemovalOrder
    <3>5. x # y
      BY <3>1
    <3>6. <<x, y>> \in GroupOrder
      BY <3>4, <3>5, GroupOrderHas
    <3>7. <<x, y>>[1] = x /\ <<x, y>>[2] = y
      OBVIOUS
    <3> QED  BY <3>1, <3>6, <3>7, EldersMoved
  <2> QED  BY <2>1, <2>2
<1> QED  BY <1>2, <1>3

\* A new package meets no old one it conflicts with, but for one that another
\* new one conflicts with as well.
LEMMA NewMeetsNoConflict ==
  ASSUME Inv, EldersFirst, ItemsApart, Built, CleanRelations, NEW i \in DOMAIN result,
         NEW x \in Item, x \in Moved(i), NEW p \in Adds(x),
         NEW y \in Item \ Moved(i), NEW q \in relations[p].negative_dependencies, q \in Rms(y)
  PROVE  p \in Negative(Adds(y))
<1> SUFFICES ASSUME p \notin Negative(Adds(y)) PROVE FALSE
  OBVIOUS
<1>1. archive \in Archives /\ p \in Package /\ q \in Package
  BY GroupsAssumption DEF Built, Rms, Adds, Item
<1>2. p \notin broken
  BY DEF CleanRelations
<1>3. q \notin broken
  BY <1>1 DEF ItemsApart, Rms, Built, Hopeless
<1>4. p \in Conflicts(q)
  <2>1. q \in Conflicts(p)
    BY <1>1, <1>2 DEF Built
  <2> QED  BY <1>1, <2>1 DEF Conflicts
<1>5. p \in relations[q].negative_dependencies
  BY <1>1, <1>2, <1>3, <1>4 DEF Built
<1>6. p \in PTable /\ ItemOf(p) = x
  BY <1>1, OwnerIs DEF PTable, GoingIn
<1>7. <<y, x>> \in ConflictOrder(y)
  <2>1. p \in (Negative(Rms(y)) \ Negative(Adds(y))) \cap PTable
    BY <1>5, <1>6 DEF Negative
  <2> QED  BY <1>6, <2>1, Zenon DEF ConflictOrder
<1>8. <<y, x>> \in GroupOrder
  BY <1>7, GroupOrderHas
<1>9. <<y, x>>[1] = y /\ <<y, x>>[2] = x
  OBVIOUS
<1> QED  BY <1>8, <1>9, EldersMoved

\* If items have nothing in common, no package of an item misses anything, or
\* meets what it conflicts with, while the groups migrate one after the other
\* (the orders of _compute_group_order).
THEOREM NothingMissingIfApart ==
  ASSUME ItemsApart
  PROVE  Spec => []NothingMissingInBetween
<1>1. Inv /\ SearchOK /\ NothingForgotten /\ GroupsAreApart /\ EldersFirst /\ UniverseOK
        => NothingMissingInBetween
  <2> SUFFICES ASSUME Inv, SearchOK, NothingForgotten, GroupsAreApart, EldersFirst, UniverseOK,
                      solving = "done", NEW i \in DOMAIN result, NEW x \in Item
               PROVE  IF x \in Moved(i)
                      THEN /\ \A p \in Adds(x) : \A c \in Depends(p) :
                                c \cap SuiteAfter(Len(result)) # {} => c \cap SuiteAfter(i) # {}
                           /\ \A p \in Adds(x), y \in Item \ Moved(i) :
                                relations[p].negative_dependencies \cap Rms(y) # {} => p \in Negative(Adds(y))
                      ELSE \A p \in Rms(x) : \A c \in Depends(p) :
                             c \cap archive.target # {} => c \cap SuiteAfter(i) # {}
    BY Zenon DEF NothingMissingInBetween
  <2>1. Built /\ CleanRelations /\ archive \in Archives
    <3>1. building = "built"
      BY DEF Inv, StageOK
    <3> QED  BY <3>1 DEF UniverseOK, TablesOK
  <2>2. Item \subseteq Moved(Len(result))
    BY AllMove
  <2>3. CASE x \in Moved(i)
    <3>1. ASSUME NEW p \in Adds(x), NEW c \in Depends(p), NEW q \in c \cap SuiteAfter(Len(result))
          PROVE  c \cap SuiteAfter(i) # {}
      BY <2>1, <2>2, <2>3, NewHasItsNeeds
    <3>2. ASSUME NEW p \in Adds(x), NEW y \in Item \ Moved(i),
                 NEW q \in relations[p].negative_dependencies \cap Rms(y)
          PROVE  p \in Negative(Adds(y))
      BY <2>1, <2>3, NewMeetsNoConflict
    <3> QED  BY <2>3, <3>1, <3>2
  <2>4. CASE x \notin Moved(i)
    <3>1. ASSUME NEW p \in Rms(x), NEW c \in Depends(p), NEW q \in c \cap archive.target
          PROVE  c \cap SuiteAfter(i) # {}
      BY <2>1, <2>4, OldKeepsItsNeeds
    <3> QED  BY <2>4, <3>1
  <2> QED  BY <2>3, <2>4
<1> QED  BY <1>1, InvHolds, SearchHolds, UniverseHolds, QueueForgetsNothing, NoItemTwice,
            NoItemBeforeItsElders, PTL

=============================================================================
