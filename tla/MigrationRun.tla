---------------------------- MODULE MigrationRun ----------------------------
(***************************************************************************)
(* The run that decides what migrates: upgrade_testing, do_hint, do_all    *)
(* and iter_packages of class Britney (britney.py), with the verdict of    *)
(* migrate_items_to_target_suite (britney2/migration.py) and the nuninst   *)
(* counters (britney2/utils.py).                                           *)
(*                                                                         *)
(* The target suite is the set of the items applied to it; how an item is  *)
(* applied and rolled back is module MigrationManager.  Uninst gives, for  *)
(* every such set, the uninstallable packages of each architecture, as the *)
(* installability tester finds them.                                       *)
(*                                                                         *)
(* Abstracted: the components the solver makes of a list of items and the  *)
(* order of the worklist (any partition, any order), the order of hints,   *)
(* the version check of hints, and which hints the auto hinter finds.      *)
(***************************************************************************)
EXTENDS Naturals, Sequences, FiniteSets, FiniteSetsExt

CONSTANTS
  Arch, Package,
  Item,              \* MigrationItems
  ArchOf,            \* their architecture, or SourceItem
  Uninst,            \* per set of applied items and architecture
  AllowUninst,       \* per architecture, what allow-uninst hints name
  KeepInstallable,   \* constraints['keep-installable']
  Within,            \* <<a, b>>: the name of a is a substring of that of b
  UpgradeMe,         \* the items the excuses allow
  NewCruft,          \* the cruft items an item's smooth updates leave
  OldCruft,          \* cruft items for what was cruft from the start
  Obsolete,          \* removals of sources without binaries
  Excludes,          \* <<i, j>>: i raises once j is applied (versions)
  Setup              \* configurations and hint files a run may be started with

SourceItem == "source"
HintKinds == {"easy", "force-hint", "hint", "auto"}
Cruft == OldCruft \cup UNION {NewCruft[i] : i \in Item}
Nuninst == [Arch -> SUBSET Package]

ASSUME RunAssumption ==
  /\ IsFiniteSet(Arch) /\ IsFiniteSet(Package) /\ IsFiniteSet(Item)
  /\ SourceItem \notin Arch
  /\ ArchOf \in [Item -> Arch \cup {SourceItem}]
  /\ Uninst \in [SUBSET Item -> Nuninst]
  /\ AllowUninst \in Nuninst
  /\ KeepInstallable \subseteq Package
  /\ Within \subseteq Arch \X Arch /\ \A a \in Arch : <<a, a>> \in Within
  /\ UpgradeMe \subseteq Item
  /\ NewCruft \in [Item -> SUBSET Item]
  /\ OldCruft \subseteq Item /\ Obsolete \subseteq Item
  /\ Excludes \subseteq {e \in Item \X Item : e[1] # e[2]}
  /\ Setup \subseteq [break_arches : SUBSET Arch, new_arches : SUBSET Arch,
                      hints : [HintKinds -> SUBSET SUBSET Item]]

\* Items for other architectures do not change the installability on one; every
\* cruft item is for one architecture and left by one item, for its own
\* architecture if that has one, and leaves no cruft itself.
ASSUME LocalAssumption ==
  /\ \A a \in Arch : \A S \in SUBSET Item, T \in SUBSET {i \in Item : ArchOf[i] \notin {SourceItem, a}} :
       Uninst[S \cup T][a] = Uninst[S][a]
  /\ \A c \in Cruft : ArchOf[c] # SourceItem /\ c \notin UpgradeMe \cup Obsolete /\ NewCruft[c] = {}
  /\ \A i \in Item : NewCruft[i] \cap OldCruft = {}
  /\ \A i \in Item : \A c \in NewCruft[i] : ArchOf[i] \in {SourceItem, ArchOf[c]}
  /\ \A i, j \in Item : i # j => NewCruft[i] \cap NewCruft[j] = {}

VARIABLES
  options,       \* the setup of this run; what it says is constant
  applied,       \* the target suite
  nuninst_orig,  \* the counters of the last accepted run
  upgrade_me,    \* items to try
  all_selected,  \* items of accepted runs
  phase,         \* of upgrade_testing
  todo,          \* hints or architectures left in this phase, {} for its one run
  parked,        \* archpackages and allpackages of upgrade_testing
  run            \* the do_all under way, with its iter_packages

vars == <<options, applied, nuninst_orig, upgrade_me, all_selected, phase, todo, parked, run>>

BreakArches == options.break_arches
NewArches == options.new_arches
Hints == options.hints   \* per kind of hint, its hints (sets of items)

NoRun == [kind |-> "none"]
Idle == run = NoRun

(***************************************************************************)
(* The verdict on a component: migrate_items_to_target_suite.              *)
(***************************************************************************)

Affected(comp) ==
  IF \E i \in comp : ArchOf[i] = SourceItem THEN Arch ELSE {ArchOf[i] : i \in comp}

\* nuninst_after: the affected architectures are checked anew.
After(comp, now) ==
  [a \in Arch |-> IF a \in Affected(comp) THEN Uninst[applied \cup comp][a] ELSE now[a]]

\* Mutant: the packages to keep installable are not looked at.
is_nuninst_worseUnkept(now, after, a) ==
  Cardinality(after[a] \ AllowUninst[a]) > Cardinality(now[a] \ AllowUninst[a])

is_nuninst_worse(now, after, a) ==
  \/ Cardinality(after[a] \ AllowUninst[a]) > Cardinality(now[a] \ AllowUninst[a])
  \/ (after[a] \ now[a]) \cap KeepInstallable # {}

\* "arch not in break_arches" is a test on a list, but while the run for one
\* of them is under way break_arches is a string of the others.
MayBreak(a) ==
  IF phase = "broken" THEN \E b \in BreakArches \ {run.arch} : <<a, b>> \in Within
  ELSE a \in BreakArches

Regresses(comp, now) ==
  \E a \in Affected(comp) :
    /\ is_nuninst_worse(now, After(comp, now), a)
    /\ \/ a \notin NewArches /\ \A i \in comp : ArchOf[i] # SourceItem
       \/ ~MayBreak(a)

\* A MigrationConstraintException: because of the suite, in which case it is
\* certain, or because of an item applied before it in the same component.
Raises(i, suite) == \E j \in suite : <<i, j>> \in Excludes
MustRaise(comp) == \E i \in comp : Raises(i, applied)
MayRaise(comp) == \E i \in comp : Raises(i, applied \cup comp)

(***************************************************************************)
(* The verdict on a run: is_nuninst_asgood_generous.                       *)
(***************************************************************************)

is_nuninst_asgood_generous(old, new, break_arches) ==
  LET Count(nuninst) ==
        MapThenSumSet(LAMBDA a : Cardinality(nuninst[a] \ AllowUninst[a]), Arch \ break_arches)
  IN  /\ Count(new) <= Count(old)
      /\ \A a \in Arch \ break_arches : (new[a] \ old[a]) \cap KeepInstallable = {}

\* Of a string the code takes the set of its characters, and no architecture
\* is named by one.
RunBreakArches ==
  LET break_arches == IF phase = "broken" THEN {} ELSE BreakArches
  IN  IF \A i \in run.selected : ArchOf[i] \in break_arches THEN {} ELSE break_arches

\* Mutant: every hint is better.
BetterWithHint ==
  run.kind \in HintKinds
    \/ is_nuninst_asgood_generous(nuninst_orig, run.nuninst, RunBreakArches)

Better ==
  run.kind = "force-hint"
    \/ is_nuninst_asgood_generous(nuninst_orig, run.nuninst, RunBreakArches)

(***************************************************************************)
(* do_all and iter_packages.                                               *)
(***************************************************************************)

Partitions(items) ==
  {{{j \in items : class[j] = class[i]} : i \in items} : class \in [items -> items]}

NewCruftOf(items) == UNION {NewCruft[i] : i \in items}

\* iter_packages begins: items that raise by themselves are dropped.
Iterate(kind, arch, selected, items, suite, nuninst) ==
  \E worklist \in Partitions({i \in items : ~Raises(i, suite)}) :
    run' = [kind |-> kind, arch |-> arch, selected |-> selected, snapshot |-> applied,
            nuninst |-> nuninst, worklist |-> worklist, rescheduled |-> {}, maybe |-> {}]

HasTransaction == run.kind \in {"easy", "hint", "auto"}

\* A hint is refused unless every item of it is still to migrate.  It is then
\* applied whatever it breaks; "hint" goes on with all other items, the others
\* with the cruft only.
StartHint ==
  /\ Idle /\ phase \in HintKinds
  /\ \E hint \in todo :
       /\ todo' = todo \ {hint}
       /\ LET local == upgrade_me \ hint
              cruft == NewCruftOf(hint)
              items == IF phase = "hint" THEN local \cup cruft ELSE (local \cap Cruft) \cup cruft
          IN  IF hint \subseteq upgrade_me
              THEN /\ ~MustRaise(hint)
                   /\ applied' = applied \cup hint
                   /\ Iterate(phase, "none", hint, items, applied', After(hint, nuninst_orig))
              ELSE UNCHANGED <<applied, run>>
  /\ UNCHANGED <<nuninst_orig, upgrade_me, all_selected, phase, parked>>

\* Nothing catches the MigrationConstraintException of a hint's own items: the
\* program ends (how much of a force-hint it applied is left out).
RaiseInHint ==
  /\ Idle /\ phase \in HintKinds
  /\ \E hint \in todo : hint \subseteq upgrade_me /\ MayRaise(hint)
  /\ phase' = "raised"
  /\ UNCHANGED <<applied, nuninst_orig, upgrade_me, all_selected, todo, parked, run>>

\* The main run leaves the items of the break architectures to later runs.
StartMain ==
  /\ Idle /\ phase = "main" /\ todo # {}
  /\ todo' = {}
  /\ LET arch == [a \in BreakArches |-> {i \in upgrade_me : ArchOf[i] = a}]
         norm == upgrade_me \ UNION {arch[a] : a \in BreakArches}
     IN  /\ parked' = [arch |-> arch, all |-> {}]
         /\ upgrade_me' = norm
         /\ Iterate("main", "none", {}, norm, applied, nuninst_orig)
  /\ UNCHANGED <<applied, nuninst_orig, all_selected, phase>>

StartBroken ==
  /\ Idle /\ phase = "broken"
  /\ \E a \in todo :
       /\ todo' = todo \ {a}
       /\ upgrade_me' = parked.arch[a]
       /\ Iterate("broken", a, {}, parked.arch[a], applied, nuninst_orig)
  /\ UNCHANGED <<applied, nuninst_orig, all_selected, phase, parked>>

\* old_libraries: the cruft that is in the suite.
OldLibraries == (OldCruft \cup NewCruftOf(applied)) \ applied

StartActions ==
  /\ Idle /\ phase \in {"obsolete", "cruft"} /\ todo # {}
  /\ todo' = {}
  /\ LET removals == IF phase = "obsolete" THEN Obsolete \ applied ELSE OldLibraries
     IN  IF removals = {} THEN UNCHANGED run
         ELSE Iterate("actions", "none", {}, removals, applied, nuninst_orig)
  /\ UNCHANGED <<applied, nuninst_orig, upgrade_me, all_selected, phase, parked>>

\* A component that does not make things worse stays, what failed before it is
\* tried again, and the cruft it leaves is tried first.
Accepting(comp, rescheduled, maybe, cruft) ==
  [run EXCEPT !.selected = @ \cup comp, !.nuninst = After(comp, run.nuninst),
              !.worklist = (@ \ {comp}) \cup {{c} : c \in cruft},
              !.rescheduled = rescheduled, !.maybe = maybe]
TriedCruft(comp) == {c \in NewCruftOf(comp) : ~Raises(c, applied \cup comp)}

\* Mutants: what failed is rescheduled and kept; forgotten; not tried again.
AcceptedUncleared(comp) ==
  Accepting(comp, run.rescheduled \cup run.maybe, run.maybe, TriedCruft(comp))
AcceptedForgetting(comp) == Accepting(comp, run.rescheduled, {}, TriedCruft(comp))
AcceptedUnretried(comp) == Accepting(comp, run.rescheduled, run.maybe, TriedCruft(comp))

Accepted(comp) == Accepting(comp, run.rescheduled \cup run.maybe, {}, TriedCruft(comp))

Accept ==
  /\ ~Idle
  /\ \E comp \in run.worklist :
       /\ ~MustRaise(comp) /\ ~Regresses(comp, run.nuninst)
       /\ applied' = applied \cup comp
       /\ run' = Accepted(comp)
  /\ UNCHANGED <<nuninst_orig, upgrade_me, all_selected, phase, todo, parked>>

\* Any other is rolled back and split, or kept for after the next success.
Split(comp) == [run EXCEPT !.worklist = (@ \ {comp}) \cup {{i} : i \in comp}]
SetAside(comp) == [run EXCEPT !.worklist = @ \ {comp}, !.maybe = @ \cup comp]

\* Mutants: the counters of the rejected component are kept; a failed item is
\* tried again although nothing has migrated since.
RejectedCounted(comp) ==
  [(IF Cardinality(comp) > 1 THEN Split(comp) ELSE SetAside(comp))
     EXCEPT !.nuninst = After(comp, run.nuninst)]
RejectedRetrying(comp) ==
  IF Cardinality(comp) > 1 THEN Split(comp)
  ELSE [run EXCEPT !.worklist = @ \ {comp}, !.rescheduled = @ \cup comp]

Rejected(comp) == IF Cardinality(comp) > 1 THEN Split(comp) ELSE SetAside(comp)

Reject ==
  /\ ~Idle
  /\ \E comp \in run.worklist :
       /\ MayRaise(comp) \/ Regresses(comp, run.nuninst)
       /\ run' = Rejected(comp)
  /\ UNCHANGED <<applied, nuninst_orig, upgrade_me, all_selected, phase, todo, parked>>

Retry ==
  /\ ~Idle /\ run.worklist = {} /\ run.rescheduled # {}
  /\ \E worklist \in Partitions(run.rescheduled) :
       run' = [run EXCEPT !.worklist = worklist, !.rescheduled = {}]
  /\ UNCHANGED <<applied, nuninst_orig, upgrade_me, all_selected, phase, todo, parked>>

Finished == ~Idle /\ run.worklist = {} /\ run.rescheduled = {}

\* What is left to try after an accepted run.
Extra ==
  IF run.kind = "actions" THEN upgrade_me
  ELSE IF run.kind \in {"hint", "main", "broken"} THEN run.maybe
  ELSE upgrade_me \ run.selected

Succeed ==
  /\ Finished /\ Better
  /\ nuninst_orig' = run.nuninst
  /\ all_selected' = all_selected \cup run.selected
  /\ upgrade_me' = Extra
  /\ parked' = IF run.kind \in {"main", "broken"} THEN [parked EXCEPT !.all = @ \cup Extra]
               ELSE parked
  /\ run' = NoRun
  /\ UNCHANGED <<applied, phase, todo>>

\* Mutant: a failed hint stays in the suite.
FailUnrolled ==
  /\ Finished /\ ~Better
  /\ phase' = IF HasTransaction THEN phase ELSE "failed"
  /\ run' = NoRun
  /\ UNCHANGED <<applied, nuninst_orig, upgrade_me, all_selected, todo, parked>>

\* Without a transaction, do_all raises an AssertionError.
Fail ==
  /\ Finished /\ ~Better
  /\ IF HasTransaction THEN applied' = run.snapshot /\ UNCHANGED phase
     ELSE phase' = "failed" /\ UNCHANGED applied
  /\ run' = NoRun
  /\ UNCHANGED <<nuninst_orig, upgrade_me, all_selected, todo, parked>>

(***************************************************************************)
(* upgrade_testing.                                                        *)
(***************************************************************************)

Phases == <<"easy", "force-hint", "main", "broken", "hint", "auto", "obsolete", "cruft", "done">>

Jobs(p) ==
  IF p \in HintKinds THEN Hints[p]
  ELSE IF p = "broken" THEN BreakArches
  ELSE IF p = "done" THEN {} ELSE {{}}

NextPhase ==
  /\ Idle /\ todo = {}
  /\ \E i \in 1 .. Len(Phases) - 1 : phase = Phases[i] /\ phase' = Phases[i + 1]
  /\ todo' = Jobs(phase')
  /\ upgrade_me' = IF phase = "broken" THEN parked.all ELSE upgrade_me
  /\ UNCHANGED <<applied, nuninst_orig, all_selected, parked, run>>

Init ==
  /\ options \in Setup
  /\ applied = {} /\ all_selected = {}
  /\ nuninst_orig = Uninst[{}]
  /\ upgrade_me = UpgradeMe
  /\ phase = "easy" /\ todo = Jobs("easy")
  /\ parked = [arch |-> [a \in BreakArches |-> {}], all |-> {}]
  /\ run = NoRun

Step == \/ StartHint \/ RaiseInHint \/ StartMain \/ StartBroken \/ StartActions
        \/ Accept \/ Reject \/ Retry \/ Succeed \/ Fail \/ NextPhase
Next == Step /\ UNCHANGED options

\* The program is one thread: it takes a step as long as it has one.
Spec == Init /\ [][Next]_vars /\ WF_vars(Next)

(***************************************************************************)
(* Properties.                                                             *)
(***************************************************************************)

Items == SUBSET Item
Ended == phase \in {"done", "failed", "raised"}

Run == [kind : HintKinds \cup {"main", "broken", "actions"}, arch : Arch \cup {"none"},
        selected : Items, snapshot : Items, nuninst : Nuninst,
        worklist : SUBSET Items, rescheduled : Items, maybe : Items]

TypeOK ==
  /\ options \in Setup
  /\ applied \in Items /\ upgrade_me \in Items /\ all_selected \in Items
  /\ nuninst_orig \in Nuninst
  /\ phase \in {Phases[i] : i \in DOMAIN Phases} \cup {"failed", "raised"}
  /\ todo \subseteq Items \cup Arch /\ (phase = "broken" => todo \subseteq BreakArches)
  /\ parked \in [arch : [BreakArches -> Items], all : Items]
  /\ run \in Run \cup {NoRun}

\* An item of a run is in one place: it waits in one component, is set aside,
\* or is in the suite; nothing is applied twice (compute_groups would fail on
\* what the first time removed) and nothing is forgotten while it is retried.
\* Between runs upgrade_me holds nothing that has migrated
\* (get_auto_hinter_hints: "migrated items should be removed from upgrade_me").
Waiting == UNION run.worklist
ItemsOnce ==
  /\ Idle /\ phase \in {"hint", "auto"} => upgrade_me \cap applied = {}
  /\ ~Idle => /\ \A c, d \in run.worklist : c = d \/ c \cap d = {}
           /\ Waiting \cap run.rescheduled = {} /\ Waiting \cap run.maybe = {}
           /\ run.rescheduled \cap run.maybe = {}
           /\ (Waiting \cup run.rescheduled \cup run.maybe) \cap applied = {}

\* For each architecture the set of uninstallable packages that the run carries
\* along is the one that a full recount of the present suite would find, also
\* after rollbacks, although a component has only its own architectures counted
\* anew (what assert_nuninst_is_correct asks, but only at the very end).
NuninstIsCorrect ==
  phase # "failed" =>
    /\ Idle => nuninst_orig = Uninst[applied]
    /\ ~Idle => run.nuninst = Uninst[applied]

\* Outside runs the suite is what the accepted runs selected: a failed hint
\* leaves nothing behind, and the delta written at the end is the whole change.
SelectedIsApplied == Idle /\ phase # "failed" => applied = all_selected

\* What the main run and those for architectures leave to later ones.
LeftForLater ==
  IF phase \notin {"main", "broken"} THEN {}
  ELSE parked.all \cup UNION {parked.arch[a] : a \in IF phase = "main" THEN BreakArches ELSE todo}

\* Items of the hints after which only the cruft is tried: of that, what cannot
\* be removed at once is left to the removals at the end.
HintedWithoutRecursion == UNION UNION {Hints[kind] : kind \in HintKinds \ {"hint"}}

\* An item the excuses allowed has migrated, is kept for a later attempt, or can
\* no longer migrate, whichever runs failed in between; and so has, until those
\* removals, the cruft that migrated items left ("Add new cruft items regardless
\* of whether we recurse. A future run might clean them for us").
NothingLost ==
  Idle /\ phase \notin {"failed", "raised"} =>
    UpgradeMe \cup (IF phase \in {"obsolete", "cruft", "done"} THEN {}
                   ELSE NewCruftOf(applied \ HintedWithoutRecursion))
      \subseteq applied \cup upgrade_me \cup LeftForLater \cup {i \in Item : Raises(i, applied)}

\* A run gives up on an item only if the item by itself is not acceptable in
\* the suite the run ends with, whatever order the items were tried in.
GivesUpLast ==
  Finished => \A i \in run.maybe : MayRaise({i}) \/ Regresses({i}, run.nuninst)

\* The AssertionError "do_all FAILED but no transaction to rollback" (comment:
\* "this should not happen").
NeverStuck == phase # "failed"

\* The suite if the run under way were rolled back.
Committed == IF ~Idle /\ HasTransaction THEN run.snapshot ELSE applied

\* A step never takes an item back, and whatever no force-hint forces does not
\* add to the uninstallable packages outside of BREAK_ARCHES ("if you're in this
\* list, your uninstallability count may increase") or break a kept package.
NeverRegresses ==
  [][\/ Committed' = Committed
     \/ /\ Committed \subseteq Committed'
        /\ \/ run.kind = "force-hint" \/ phase = "force-hint"
           \/ is_nuninst_asgood_generous(Uninst[Committed], Uninst[Committed'], BreakArches)]_vars

\* The run comes to an end: items that failed are not retried for ever.
Terminates == <>Ended

=============================================================================
