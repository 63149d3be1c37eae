--------------------------- MODULE UniverseBuilder ---------------------------
(***************************************************************************)
(* installability/builder.py: the table of all binaries and their          *)
(* relations that the installability tester, the solver and the policies   *)
(* work on.  An archive says what was parsed of every suite: for each      *)
(* binary the packages that satisfy each of its dependencies, and those it *)
(* conflicts with.  Suites are read in any order, so that the tables are   *)
(* filled in one step.                                                     *)
(***************************************************************************)
EXTENDS Naturals, FiniteSets

CONSTANTS
  Package,   \* binaries of all suites
  Archives   \* what there is to read: depends and conflicts of each binary

ASSUME ArchivesAssumption ==
  \A a \in Archives : /\ a.depends \in [Package -> SUBSET SUBSET Package]
                      /\ a.conflicts \in [Package -> SUBSET Package]
                      /\ \A p \in Package : p \notin a.conflicts[p]

VARIABLES
  archive,                \* what is read
  building,               \* what is done: "read", "merged", "expanded", "reduced", "built"
  package_table,          \* clauses and conflicts of each binary
  reverse_package_table,  \* for each binary something depends on, conflicts with: who does
  broken,                 \* binaries known never to be installable
  check,                  \* those whose reverse dependencies are to be looked at
  relations               \* the universe: per binary, all the others see of it

builder_vars ==
  <<archive, building, package_table, reverse_package_table, broken, check, relations>>

NoRelations == [none |-> TRUE]

\* set_relations, for every binary.
PackageTable(a) == [p \in Package |-> [deps |-> a.depends[p], con |-> a.conflicts[p]]]
Depending(a, p) == {r \in Package : \E c \in a.depends[r] : p \in c}
ReverseRelations(a, p) ==
  [rdeps |-> Depending(a, p),
   rcon  |-> {r \in Package : p \in a.conflicts[r]},
   rdep_relations |-> {c \in UNION {a.depends[r] : r \in Package} : p \in c}]
Referenced(a) ==
  {p \in Package : Depending(a, p) # {} \/ \E r \in Package : p \in a.conflicts[r]}

BuilderInit ==
  /\ archive \in Archives
  /\ building = "read"
  /\ package_table = PackageTable(archive)
  /\ reverse_package_table = [p \in Referenced(archive) |-> ReverseRelations(archive, p)]
  /\ broken = {p \in Package : {} \in archive.depends[p]}
  /\ check = broken
  /\ relations = NoRelations

Rdeps(p) == reverse_package_table[p].rdeps

\* Reverse conflicts are merged with conflicts.
MergeConflicts ==
  /\ building = "read"
  /\ building' = "merged"
  /\ package_table' =
       [p \in Package |->
          IF p \in DOMAIN reverse_package_table
          THEN [package_table[p] EXCEPT !.con = @ \cup reverse_package_table[p].rcon]
          ELSE package_table[p]]
  /\ UNCHANGED <<archive, reverse_package_table, broken, check, relations>>

\* Packages that are not known to be broken, but may be: check is a copy of
\* broken, so that there are none.
ExpandBroken ==
  /\ building = "merged"
  /\ IF check \ broken = {}
     THEN /\ building' = "expanded" /\ check' = {}
          /\ UNCHANGED broken
     ELSE \E t \in check \ broken :
            LET isb == \E c \in package_table[t].deps : c \subseteq broken
                new == IF isb THEN broken \cup {t} ELSE broken
            IN  /\ broken' = new
                /\ check' = IF isb /\ t \in DOMAIN reverse_package_table
                            THEN (check \ {t}) \cup (Rdeps(t) \ new) ELSE check \ {t}
                /\ UNCHANGED building
  /\ UNCHANGED <<archive, package_table, reverse_package_table, relations>>

\* Nothing depends on a broken package any more, and it depends on the
\* impossible.
Reduce ==
  /\ building = "expanded"
  /\ building' = "reduced"
  /\ LET seen == (UNION {Rdeps(b) : b \in broken \cap DOMAIN reverse_package_table}) \ broken
     IN  /\ package_table' =
              [p \in Package |->
                 IF p \in broken THEN [deps |-> {{}}, con |-> {}]
                 ELSE IF p \in seen
                 THEN [deps |-> {c \ broken : c \in package_table[p].deps},
                       con  |-> package_table[p].con \ broken]
                 ELSE package_table[p]]
         /\ reverse_package_table' =
              [p \in DOMAIN reverse_package_table \ broken |-> reverse_package_table[p]]
  /\ UNCHANGED <<archive, broken, check, relations>>

\* Packages with the same relations share them, if anything depends on them.
\* Mutant: conflicts are not compared.
SignatureUnconflicted(p) ==
  [deps |-> package_table[p].deps, rdeps |-> reverse_package_table[p].rdep_relations]

Signature(p) ==
  [deps  |-> package_table[p].deps,
   con   |-> package_table[p].con,
   rdeps |-> reverse_package_table[p].rdep_relations]

Needed ==
  {p \in DOMAIN reverse_package_table : reverse_package_table[p].rdep_relations # {}}

BuildRelations ==
  /\ building = "reduced"
  /\ building' = "built"
  /\ relations' =
       [p \in Package |->
          [pkg_ids |-> IF p \in Needed THEN {q \in Needed : Signature(q) = Signature(p)} ELSE {p},
           dependencies          |-> package_table[p].deps,
           negative_dependencies |-> package_table[p].con,
           reverse_dependencies  |-> IF p \in Needed THEN Rdeps(p) ELSE {}]]
  /\ UNCHANGED <<archive, package_table, reverse_package_table, broken, check>>

Build == MergeConflicts \/ ExpandBroken \/ Reduce \/ BuildRelations
BuilderSpec == BuilderInit /\ [][Build]_builder_vars

-----------------------------------------------------------------------------
(***************************************************************************)
(* Properties.                                                             *)
(***************************************************************************)

\* A set of packages that can be installed together, by what was read and by
\* the universe.
InArchive(S) ==
  \A p \in S : /\ archive.conflicts[p] \cap S = {}
               /\ \A c \in archive.depends[p] : c \cap S # {}
InUniverse(S) ==
  \A p \in S : /\ relations[p].negative_dependencies \cap S = {}
               /\ \A c \in relations[p].dependencies : c \cap S # {}

Swapped(S, p, q) == {IF r = p THEN q ELSE IF r = q THEN p ELSE r : r \in S}

Faithful ==
  \A S \in SUBSET Package :
    IF InArchive(S)
    THEN /\ InUniverse(S)
         /\ \A p \in S : /\ \A q \in relations[p].pkg_ids \ {p} : InArchive(Swapped(S, p, q))
                         /\ \A c \in archive.depends[p] : \A q \in c \ broken :
                              p \in relations[q].reverse_dependencies
    ELSE ~InUniverse(S)

\* Although relations are merged, cut and shared, the universe that is built
\* allows what the archive allows: the same sets of packages are coinstallable
\* ("a minor lie about the broken packages"), packages said to be equivalent can
\* stand in for each other in all of them, and whoever needs a package that is
\* not broken is among its reverse dependencies.
UniverseIsFaithful == [][building' = "built" => Faithful']_building

\* "A single clause is unsatisfiable, the package can never be installed - add
\* it to broken" (builder.py:272-274): in the end no package depends on broken
\* ones only without being broken itself.
BrokenIsClosed ==
  building = "built" =>
    \A p \in Package \ broken : \A c \in archive.depends[p] : ~(c \subseteq broken)

=============================================================================
