------------------------------- MODULE Excuses -------------------------------
(***************************************************************************)
(* Excuses and how they invalidate each other: class Excuse                *)
(* (britney2/excuse.py), the dependency states (britney2/excusedeps.py),   *)
(* invalidate_excuses (britney2/utils.py) and find_actionable_excuses      *)
(* (britney2/excusefinder.py).                                             *)
(*                                                                         *)
(* While excuses are collected this module allows any of them; the module  *)
(* ExcuseFinder says which ones the archive and the policies lead to, and  *)
(* implements this one.                                                    *)
(***************************************************************************)
EXTENDS Naturals, Sequences, FiniteSets

CONSTANTS
  Name,         \* names of excuses
  Rank,         \* their order as strings
  PackageId,    \* packages, source and binary, excuses bring and depend on
  Impossible    \* a package of a dependency that no excuse brings

\* PolicyVerdict: its values in their order.
NOT_APPLICABLE == 0
PASS == 1
PASS_HINTED == 2
REJECTED_TEMPORARILY == 3
REJECTED_WAITING_FOR_ANOTHER_ITEM == 4
REJECTED_BLOCKED_BY_ANOTHER_ITEM == 5
REJECTED_NEEDS_APPROVAL == 6
REJECTED_CANNOT_DETERMINE_IF_PERMANENT == 7
REJECTED_PERMANENTLY == 8
PolicyVerdict == NOT_APPLICABLE .. REJECTED_PERMANENTLY

is_rejected(v) == v >= REJECTED_TEMPORARILY
is_blocked(v) == v >= REJECTED_BLOCKED_BY_ANOTHER_ITEM
worst_of(v, w) == IF v >= w THEN v ELSE w

ASSUME NameAssumption ==
  /\ Impossible \notin Name
  /\ Rank \in [Name -> Nat]
  /\ \A e, f \in Name : Rank[e] = Rank[f] => e = f

Excuse == [verdict : PolicyVerdict, forced : BOOLEAN,
           packages : SUBSET PackageId, depends : SUBSET ((SUBSET PackageId) \ {{}})]

VARIABLES
  phase,        \* "collect", "invalidate", "done", or "asserts": AssertionError
  excuses,      \* the excuses by name
  actionable,   \* the items that may migrate as far as their own excuse goes
  valid,        \* the excuses still valid
  invalid,      \* the worklist of invalid excuses: the sets put on it, each sorted
  invalidated,  \* the excuses whose reverse dependencies have been told
  lost          \* the dependency states told of an invalid excuse, and its verdict

vars == <<phase, excuses, actionable, valid, invalid, invalidated, lost>>

Names == DOMAIN excuses

(***************************************************************************)
(* Dependencies between excuses.  A dependency is the set of excuses each  *)
(* of which satisfies it.                                                  *)
(***************************************************************************)

\* excuses_packages: the excuses that bring a package.
Bringing(p) == {e \in Names : p \in excuses[e].packages}
Alternatives(p) == IF Bringing(p) = {} THEN {Impossible} ELSE Bringing(p)

all_deps(e) == {UNION {Alternatives(p) : p \in d} : d \in excuses[e].depends}
rdeps(e) == {x \in Names : \E d \in all_deps(x) : e \in d}

\* add_dependency: only a dependency without any excuse is invalid at once.
IsImpossible(e) == {Impossible} \in all_deps(e)

\* The verdict of one dependency state, and of a dependency without a valid one.
StateVerdict(marks, a) == IF a = Impossible THEN REJECTED_PERMANENTLY ELSE marks[a]
DependencyVerdict(marks, d) ==
  CHOOSE v \in {StateVerdict(marks, a) : a \in d} :
    \A a \in d : v <= StateVerdict(marks, a)
\* Mutant: every alternative must be valid.
HasValidStateAll(marks, d) == \A a \in d : StateVerdict(marks, a) = PASS
HasValidState(marks, d) == \E a \in d : StateVerdict(marks, a) = PASS

\* Excuse.policy_verdict: a forced excuse is never rejected.
Judged(exc, v) ==
  [exc EXCEPT !.verdict = IF is_rejected(v) /\ exc.forced THEN PASS_HINTED ELSE v]

is_valid(e) == ~is_rejected(excuses[e].verdict)

\* The worklist is popped at its end, where the sets are sorted by name.
IsLast(e, S) == e \in S /\ \A f \in S : Rank[f] <= Rank[e]
Push(batches, S) == IF S = {} THEN batches ELSE Append(batches, S)
Members(batches) == UNION {batches[n] : n \in DOMAIN batches}
Listed == Members(invalid)

(***************************************************************************)
(* The run of the excuse finder.                                           *)
(***************************************************************************)

NoExcuses == [e \in {} |-> {}]

Init ==
  /\ phase = "collect"
  /\ excuses = NoExcuses
  /\ actionable = {}
  /\ valid = {} /\ invalid = <<>> /\ invalidated = {}
  /\ lost = NoExcuses

\* Any excuses may be added or replaced, as long as the actionable items are
\* those whose excuse is valid.
Collect ==
  /\ phase = "collect"
  /\ phase' = "collect"
  /\ DOMAIN excuses' \subseteq Name
  /\ \A e \in DOMAIN excuses' : excuses'[e] \in Excuse
  /\ excuses' = [e \in DOMAIN excuses' |-> excuses'[e]]
  /\ actionable' = {e \in DOMAIN excuses' : ~is_rejected(excuses'[e].verdict)}
  /\ UNCHANGED <<valid, invalid, invalidated, lost>>

\* The first half of invalidate_excuses: dependencies between excuses.
AddDependencies ==
  /\ phase = "collect"
  /\ phase' = "invalidate"
  /\ valid' = {e \in actionable : ~IsImpossible(e)}
  /\ invalid' = Push(<<>>, {e \in Names : e \notin actionable \/ IsImpossible(e)})
  /\ excuses' = [e \in Names |->
                   IF IsImpossible(e)
                   THEN Judged(excuses[e], worst_of(excuses[e].verdict, REJECTED_PERMANENTLY))
                   ELSE excuses[e]]
  /\ lost' = [e \in Names |-> [f \in Names |-> PASS]]
  /\ UNCHANGED <<actionable, invalidated>>

\* One round of the loop on the invalid excuses: e leaves the list, and the
\* excuses that depend on it and are left without an alternative follow it.
\* Mutants: excuses that are invalid already are told again; only blocked
\* excuses are told of; the verdict of a fallen excuse stays.
ToldAgain(e) == {x \in rdeps(e) : ~excuses[x].forced}
ToldIfBlocked(e) == {x \in rdeps(e) : x \in valid /\ ~excuses[x].forced /\ is_blocked(excuses[e].verdict)}
FallenUnjudged(e, x) == excuses[x].verdict

Told(e) == {x \in rdeps(e) : x \in valid /\ ~excuses[x].forced}
RdepVerdict(e) == IF is_blocked(excuses[e].verdict) THEN REJECTED_BLOCKED_BY_ANOTHER_ITEM
                  ELSE REJECTED_WAITING_FOR_ANOTHER_ITEM
Marks(e, x) == [lost[x] EXCEPT ![e] = RdepVerdict(e)]
Failing(e, x) == {d \in all_deps(x) : ~HasValidState(Marks(e, x), d)}
Falling(e) == {x \in Told(e) : Failing(e, x) # {}}
Fallen(e, x) ==
  LET vs == {DependencyVerdict(Marks(e, x), d) : d \in Failing(e, x)} \cup {excuses[x].verdict}
  IN  CHOOSE v \in vs : \A w \in vs : w <= v

Invalidate ==
  /\ phase = "invalidate"
  /\ invalid # <<>>
  /\ LET n == Len(invalid)
     IN  \E e \in invalid[n] :
           /\ IsLast(e, invalid[n])
           /\ lost' = [x \in Names |-> IF x \in Told(e) THEN Marks(e, x) ELSE lost[x]]
           /\ excuses' = [x \in Names |-> IF x \in Falling(e) THEN Judged(excuses[x], Fallen(e, x))
                                          ELSE excuses[x]]
           /\ valid' = valid \ Falling(e)
           /\ invalid' = Push(Push(SubSeq(invalid, 1, n - 1), invalid[n] \ {e}), Falling(e))
           /\ invalidated' = invalidated \cup {e}
  /\ UNCHANGED <<phase, actionable>>

\* find_actionable_excuses compares its sets with the verdicts before it
\* hands the actionable items to the migration.
Finish ==
  /\ phase = "invalidate"
  /\ invalid = <<>>
  /\ phase' = IF valid = {e \in Names : is_valid(e)} /\ invalidated = {e \in Names : ~is_valid(e)}
              THEN "done" ELSE "asserts"
  /\ actionable' = actionable \cap valid
  /\ UNCHANGED <<excuses, valid, invalid, invalidated, lost>>

Next == Collect \/ AddDependencies \/ Invalidate \/ Finish

Spec == Init /\ [][Next]_vars

-----------------------------------------------------------------------------
(***************************************************************************)
(* Properties.                                                             *)
(***************************************************************************)

\* Type of the variables: every list and set of the invalidation holds names
\* of excuses.
TypeOK ==
  /\ phase \in {"collect", "invalidate", "done", "asserts"}
  /\ Names \subseteq Name
  /\ excuses \in [Names -> Excuse]
  /\ actionable \subseteq Names
  /\ valid \subseteq Names
  /\ invalid \in Seq(SUBSET Names)
  /\ invalidated \subseteq Names
  /\ phase # "collect" => lost \in [Names -> [Names -> PolicyVerdict]]

\* A set of excuses that may migrate together: each one has for every
\* dependency an alternative among them, or is forced.
Supported(S) ==
  \A e \in S : /\ ~IsImpossible(e)
               /\ excuses[e].forced \/ \A d \in all_deps(e) : d \cap S # {}

\* The walk over the reverse dependencies, in whatever order the names put the
\* worklist, loses no excuse that could have stayed: every supported set of
\* candidates, cycles of excuses that need each other included, stays valid.
NoneLostInVain ==
  phase = "invalidate" => \A S \in SUBSET actionable : Supported(S) => S \subseteq valid

\* ... and keeps none that cannot: when the list is empty, the excuses left
\* support each other.
LeftSupported ==
  (invalid = <<>> /\ phase \in {"invalidate", "done"}) => Supported(valid)

\* No excuse is put on the worklist twice, or after its reverse dependencies
\* have been told; an excuse is on it, told, or still valid.
InvalidatedOnce ==
  phase = "invalidate" =>
    /\ \A m, n \in DOMAIN invalid : m # n => invalid[m] \cap invalid[n] = {}
    /\ Listed \cap invalidated = {}
    /\ valid = Names \ (Listed \cup invalidated)

\* The comparisons that end find_actionable_excuses fail in one case only: an
\* excuse is forced and has a dependency that no excuse can satisfy.
AssertsOnlyIfForced ==
  phase = "asserts" => \E e \in Names : excuses[e].forced /\ IsImpossible(e)

\* The comment above the comparisons: "check that the list of actionable items
\* matches the list of valid excuses".
ValidMatchesVerdicts == phase # "asserts"
=============================================================================
