---------------------------- MODULE ExcuseFinder ----------------------------
(***************************************************************************)
(* Class ExcuseFinder (britney2/excusefinder.py): which items of the       *)
(* archive get an excuse, what the policies say of it, and which items are *)
(* left once the excuses have invalidated each other.  It implements the   *)
(* module Excuses, whose names of excuses are the items here.              *)
(*                                                                         *)
(* An item of one architecture (a binNMU) is only considered when both     *)
(* suites have the same version of the source, so the branches of          *)
(* _should_upgrade_srcarch for different versions are not taken.           *)
(***************************************************************************)
EXTENDS MigrationPolicies, SequencesExt

CONSTANTS
  ArchOrder,        \* the architectures in the order of the configuration
  OutOfSync, IgnoreCruft,
  HintSets, Judgements   \* the hints and judgements of the runs considered

VARIABLES todo      \* the sources and hints still to be looked at

finder_vars == <<vars, hints, judged_elsewhere, todo>>

Removal(s) == [package |-> s, version |-> TargetSources[s].version, suite |-> Target,
               arch |-> SourceItem, removal |-> TRUE]
Update(s, u, a) == [package |-> s, version |-> SuiteSources[u][s].version, suite |-> u,
                    arch |-> a, removal |-> FALSE]

InTarget == {s \in Source : TargetSources[s] # NoSource}
Offered == {p \in Source \X Suite :
              LET src == SuiteSources[p[2]][p[1]] IN src # NoSource /\ ~src.fakesrc}
RemoveHints == {h \in hints : h.type = "remove"}

\* Every item has a name, and the other policies judge each one.
ASSUME FinderAssumption ==
  /\ SourceItem \notin Arch
  /\ \A s \in InTarget : Removal(s) \in Name
  /\ \A p \in Offered : \A a \in Arch \cup {SourceItem} : Update(p[1], p[2], a) \in Name
  /\ \A j \in Judgements : j \in [Name -> [verdict : PolicyVerdict, tests_pass : BOOLEAN]]

Rejected(v, packages) ==
  [verdict |-> v, forced |-> FALSE, packages |-> packages, depends |-> {}]

\* An excuse once its item is known, whether forced or not.
Forced(exc, forced) == Judged([exc EXCEPT !.forced = forced], exc.verdict)

\* _compute_excuses_and_initial_actionable_items: first the sources of the
\* target suite, then those of the source suites, then the remove hints.
Task(n, s, u, v) == [step |-> n, package |-> s, suite |-> u, version |-> v]
Work == {Task(1, s, Target, TargetSources[s].version) : s \in InTarget}
          \cup {Task(2, p[1], p[2], SuiteSources[p[2]][p[1]].version) : p \in Offered}
          \cup {Task(3, h.package, Target, h.version) : h \in RemoveHints}
\* Within a step the order is that of the files; no excuse depends on it.
NextWork == CHOOSE w \in todo : \A x \in todo : w.step <= x.step

\* Mutant: every item with an excuse is actionable.
RecordAll(w, excs) ==
  /\ phase = "collect"
  /\ excuses' = [i \in Names \cup DOMAIN excs |-> IF i \in DOMAIN excs THEN excs[i] ELSE excuses[i]]
  /\ actionable' = actionable \cup DOMAIN excs
  /\ todo' = todo \ {w}
  /\ UNCHANGED <<phase, valid, invalid, invalidated, lost, hints, judged_elsewhere>>

Record(w, excs) ==   \* the excuses made of w, by item
  /\ phase = "collect"
  /\ excuses' = [i \in Names \cup DOMAIN excs |-> IF i \in DOMAIN excs THEN excs[i] ELSE excuses[i]]
  /\ actionable' = actionable \cup {i \in DOMAIN excs : ~is_rejected(excs[i].verdict)}
  /\ todo' = todo \ {w}
  /\ UNCHANGED <<phase, valid, invalid, invalidated, lost, hints, judged_elsewhere>>

\* With which hint the removal of a source is blocked.
RemovalBlocked(s) == \E h \in hints : h.type = "block" /\ h.package = s /\ h.removal

RemovalExcuse(s) == Rejected(IF RemovalBlocked(s) THEN REJECTED_PERMANENTLY ELSE PASS, {})

should_remove_source(w) ==
  /\ w.step = 1
  /\ LET s == w.package
     IN  Record(w, IF SuiteSources[PrimarySuite][s] = NoSource
                   THEN [i \in {Removal(s)} |-> RemovalExcuse(s)] ELSE NoExcuses)

(***************************************************************************)
(* A binNMU.                                                               *)
(***************************************************************************)

\* find_smooth_updateable_binaries, for a walk over the candidates in some order.
SmoothUpdateable(i, order) ==
  LET shadow(b) == {Lookup(SuiteBinaries[i.suite], Bin[b].name, Bin[b].arch)} \ {NoBin}
      candidate(b) == b \in SmoothAllowed /\ \A c \in shadow(b) : ~IsCurrent(c, SourceU(i))
      dependants(b) == {r \in BinId : \E d \in Bin[r].depends : b \in d}
      users(b) == dependants(b) \ Range(order)
      needed(b, kept) == /\ users(b) \cap TargetBinaries # {}
                         /\ \E r \in users(b) : \E d \in Bin[r].depends :
                              d \ shadow(b) \subseteq kept \cup {b}
      kept == FoldLeft(LAMBDA acc, b : IF candidate(b) /\ needed(b, acc) THEN acc \cup {b} ELSE acc,
                       {}, order)
      rest == {b \in Range(order) : candidate(b)}
      Grow[n \in 0 .. Len(order)] ==
        IF n = 0 THEN kept
        ELSE Grow[n - 1] \cup {b \in rest : dependants(b) \cap Grow[n - 1] # {}}
  IN  Grow[Len(order)]

\* The binaries of the item up to the first that would be a downgrade.
Downgrades(i, b) ==
  LET t == Lookup(TargetBinaries, Bin[b].name, i.arch)
  IN  /\ ~Bin[b].arch_all /\ IsCurrent(b, SourceU(i))
      /\ t # NoBin /\ Bin[t].version > Bin[b].version
Visited(i) ==
  {b \in OnArch(SourceU(i).binaries, i.arch) :
     \A c \in OnArch(SourceU(i).binaries, i.arch) :
       Downgrades(i, c) => PackageRank[b] <= PackageRank[c]}

Wrong(i) ==
  \E b \in Visited(i) : \/ Downgrades(i, b)
                        \/ ~Bin[b].arch_all /\ ~IsCurrent(b, SourceU(i)) /\ ~IgnoreCruft

IsNews(i, b) ==
  LET t == Lookup(TargetBinaries, Bin[b].name, i.arch)
  IN  ~Bin[b].arch_all /\ IsCurrent(b, SourceU(i)) /\ (t = NoBin \/ Bin[t].version < Bin[b].version)

\* Binaries that leave the target suite with a binNMU of the primary suite;
\* order is the one in which the binaries of the source are listed.
Dropped(i, order) ==
  LET kept == SmoothUpdateable(i, SelectSeq(order, LAMBDA b : Bin[b].arch = i.arch))
      unlisted == {b \in OnArch(SourceT(i).binaries, i.arch) :
                     /\ ~Bin[b].arch_all
                     /\ Lookup(SuiteBinaries[i.suite], Bin[b].name, i.arch) = NoBin}
  IN  IF IsPrimary(i) /\ ~Wrong(i) THEN unlisted \ kept ELSE {}

SrcarchExcuse(i) ==
  LET packages == Visited(i)
      said == apply_srcarch_policies(i, packages)
      verdict == IF Wrong(i) THEN REJECTED_PERMANENTLY ELSE PASS
  IN  IF HintsFor("remove", i.package, i.version) # {} THEN Rejected(REJECTED_PERMANENTLY, {})
      ELSE [verdict |-> worst_of(verdict, said.verdict), forced |-> FALSE,
            packages |-> packages, depends |-> said.depends]

SrcarchItems(s, u, order) ==
  {i \in {Update(s, u, a) : a \in Arch} :
     \/ HintsFor("remove", i.package, i.version) # {}
     \/ \E b \in Visited(i) : IsNews(i, b)
     \/ Dropped(i, order) # {}}

(***************************************************************************)
(* A new version of a source.                                              *)
(***************************************************************************)

\* The binaries of an architecture; arch:all ones are looked at by themselves.
BinariesFor(i, a) ==
  {b \in SourceU(i).binaries : IF a = "all" THEN Bin[b].arch_all
                               ELSE Bin[b].arch = a /\ ~Bin[b].arch_all}
Considered == Append(ArchOrder, "all")

OutOfDate(i, a) == {b \in BinariesFor(i, a) : ~IsCurrent(b, SourceU(i))}
MissingBuild(i, a) ==
  a \notin OutOfSync /\ OutOfDate(i, a) # {} /\ BinariesFor(i, a) = OutOfDate(i, a)
OldBinariesLeft(i, a) ==
  a \notin OutOfSync /\ OutOfDate(i, a) # {} /\ BinariesFor(i, a) # OutOfDate(i, a)

\* Of the architectures with a problem the last one decides.
BuildVerdict(i) ==
  LET problem(a) == MissingBuild(i, a) \/ (OldBinariesLeft(i, a) /\ ~IgnoreCruft)
      problems == {n \in DOMAIN Considered : problem(Considered[n])}
      removing == \E v \in {i.version} \cup {s.version : s \in {SourceT(i)} \ {NoSource}} :
                    HintsFor("remove", i.package, v) # {}
  IN  IF SourceU(i).binaries = {} THEN REJECTED_PERMANENTLY
      ELSE IF problems # {}
      THEN IF MissingBuild(i, Considered[Max(problems)]) THEN REJECTED_CANNOT_DETERMINE_IF_PERMANENT
           ELSE REJECTED_PERMANENTLY
      ELSE IF removing THEN REJECTED_PERMANENTLY ELSE PASS

\* For additional suites: built where the target suite has binaries of it.
NotYetBuilt(i) ==
  /\ ~IsPrimary(i)
  /\ SourceT(i) # NoSource
  /\ \E a \in Arch \ OutOfSync :
       /\ \E b \in OnArch(SourceT(i).binaries, a) : ~Bin[b].arch_all
       /\ ~\E b \in OnArch(SuiteBinaries[i.suite], a) :
            Bin[b].source = i.package /\ IsCurrent(b, SourceU(i)) /\ ~Bin[b].arch_all

SourceExcuse(i) ==
  LET packages == SourceU(i).binaries \cup {SourceId(i.package, i.version)}
      said == apply_src_policies(i, packages, \E a \in Range(Considered) : MissingBuild(i, a))
      verdict == IF NotYetBuilt(i) THEN REJECTED_CANNOT_DETERMINE_IF_PERMANENT
                 ELSE worst_of(BuildVerdict(i), said.verdict)
  IN  IF SourceT(i) # NoSource /\ SourceT(i).version > i.version
      THEN Rejected(REJECTED_PERMANENTLY, {SourceId(i.package, i.version)})
      ELSE Forced([verdict |-> verdict, forced |-> FALSE,
                   packages |-> packages, depends |-> said.depends],
                  HintsFor("force", i.package, i.version) # {})

should_upgrade(w) ==
  /\ w.step = 2
  /\ LET s == w.package
         u == w.suite
         new == Update(s, u, SourceItem)
     IN  IF SourceT(new) # NoSource /\ SourceT(new).version = new.version
         THEN \E order \in SetToSeqs(SourceT(new).binaries) :
                Record(w, [i \in SrcarchItems(s, u, order) |-> SrcarchExcuse(i)])
         ELSE Record(w, [i \in {new} |-> SourceExcuse(i)])

\* A remove hint for a source that nothing else is to happen to.
process_remove_hint(w) ==
  /\ w.step = 3
  /\ LET s == w.package
         ignored == \/ s \notin InTarget
                    \/ \E i \in actionable : i.package = s
                    \/ TargetSources[s].version # w.version
     IN  Record(w, IF ignored THEN NoExcuses ELSE [i \in {Removal(s)} |-> RemovalExcuse(s)])

FinderInit ==
  /\ Init
  /\ hints \in HintSets
  /\ judged_elsewhere \in Judgements
  /\ todo = Work

Consider ==
  /\ todo # {}
  /\ \/ should_remove_source(NextWork)
     \/ should_upgrade(NextWork)
     \/ process_remove_hint(NextWork)
find_actionable_excuses ==
  /\ todo = {}
  /\ AddDependencies \/ Invalidate \/ Finish
  /\ UNCHANGED <<hints, judged_elsewhere, todo>>

FinderNext == Consider \/ find_actionable_excuses
FinderSpec == FinderInit /\ [][FinderNext]_finder_vars /\ WF_finder_vars(find_actionable_excuses)

-----------------------------------------------------------------------------
(***************************************************************************)
(* Properties.                                                             *)
(***************************************************************************)

\* The finder is an excuse collector and invalidator as the module Excuses
\* describes it: only an item whose excuse passes is actionable.
ImplementsExcuses == Spec

\* Once every item has been looked at, the invalidation comes to an end.
FinderEnds == todo = {} ~> phase \in {"done", "asserts"}

\* The binaries an item brings into the target suite.
Brings(i) ==
  IF i.removal THEN {}
  ELSE {b \in SourceU(i).binaries :
          IsCurrent(b, SourceU(i)) /\ (i.arch = SourceItem \/ (i.arch = Bin[b].arch /\ ~Bin[b].arch_all))}
Arriving == UNION {Brings(i) : i \in actionable}
ArchsOf(i) == IF i.arch = SourceItem THEN Arch ELSE {i.arch}

Unmet(i) ==
  {d \in UNION {Bin[b].depends : b \in UNION {CheckedBinaries(i, a, excuses[i].packages) : a \in ArchsOf(i)}} :
     d # {} /\ d \cap (TargetBinaries \cup Arriving) = {}}

\* What DependsPolicy, the excuses' packages and the invalidation are for: if all
\* items left migrate, each dependency of a checked binary of an item that is not
\* forced is met by the target suite or by what migrates with it.
DependenciesMet == phase = "done" => \A i \in actionable : ~i.removal /\ ~excuses[i].forced => Unmet(i) = {}

\* The same but for old binaries left in the source suite, which count as
\* packages of an excuse although they do not migrate.
DependenciesMetButCruft ==
  phase = "done" =>
    \A i \in actionable : ~i.removal /\ ~excuses[i].forced =>
      \A d \in Unmet(i) : \E j \in actionable : d \cap (excuses[j].packages \ Brings(j)) # {}

\* ... and its Built-Using sources are in the target suite in that version or a
\* later one.
NeedsMet ==
  /\ DependenciesMetButCruft
  /\ phase = "done" =>
       \A i \in actionable : ~i.removal /\ ~excuses[i].forced =>
         \A a \in ArchsOf(i) \ BreakArches : \A b \in OnArch(SourceU(i).binaries, a) :
           \A bu \in Bin[b].builtusing :
             \/ TargetSources[bu[1]] # NoSource /\ TargetSources[bu[1]].version >= bu[2]
             \/ \E j \in actionable : j.package = bu[1] /\ j.version >= bu[2] /\ ~j.removal

(***************************************************************************)
(* The reference for ImplicitDependencyPolicy: the target suite after a    *)
(* set of items and of removals of cruft, everything that may be kept for  *)
(* a smooth update kept.                                                   *)
(***************************************************************************)

After(M, cruft) ==
  LET new == UNION {Brings(i) : i \in M}
      leaving == {t \in TargetBinaries : ~IsCruft(t, TargetSources) /\ t \notin SmoothAllowed
                    /\ \E i \in M : i.package = Bin[t].source /\ i.arch = SourceItem}
      replaced == {t \in TargetBinaries : Lookup(new, Bin[t].name, Bin[t].arch) # NoBin}
  IN  (TargetBinaries \ (leaving \cup replaced \cup cruft)) \cup new
BrokenIn(S, p) == \E d \in Bin[p].depends : d \cap (S \ Bin[p].conflicts) = {}
Harmless(after) ==
  \A p \in after :
    \/ ~BrokenIn(after, p)
    \/ Lookup(TargetBinaries, Bin[p].name, Bin[p].arch) \in Uninstallable
    \/ <<Bin[p].name, Bin[p].arch>> \in AllowUninst
    \/ Bin[p].arch \in NewArches \cup BreakArches

\* "It must, however, make sure that no excuse is unnecessarily blocked"
\* (ImplicitDependencyPolicy): an item it rejects breaks something in the target
\* suite whatever else migrates or is removed with it.
NotBlockedInVain ==
  todo = {} /\ phase = "collect" =>
    \A i \in Names :
      /\ ~i.removal
      /\ \E a \in ArchsOf(i) : ImplicitDependencyPolicy(i, a, FALSE).verdict = REJECTED_PERMANENTLY
      => \A M \in SUBSET Names :
           i \in M /\ (\A j, k \in M : j # k => j.package # k.package) =>
             \A cruft \in SUBSET {t \in TargetBinaries : IsCruft(t, TargetSources)} :
               ~Harmless(After(M, cruft))

(***************************************************************************)
(* What an archive has in which nothing goes back, moves or gets lost.     *)
(***************************************************************************)

SameBinary(b, c) == Bin[b].name = Bin[c].name /\ Bin[b].arch = Bin[c].arch

\* A binary is met on its own architecture, and always comes from the same source.
BinariesStay ==
  /\ \A b \in BinId : \A d \in Bin[b].depends : \A e \in d : Bin[e].arch = Bin[b].arch
  /\ \A b, c \in BinId : SameBinary(b, c) => Bin[b].source = Bin[c].source

\* What the suite loader makes of a suite: a binary has one version and its source,
\* and a source lists the binaries that name it.
Loaded(sources, bins) ==
  /\ \A b, c \in bins : SameBinary(b, c) => b = c
  /\ \A b \in bins : sources[Bin[b].source] # NoSource
  /\ \A s \in Source : sources[s] # NoSource => sources[s].binaries = {b \in bins : Bin[b].source = s}

\* What may migrate from a suite, but for the very binary, is newer than what is there.
NothingOlder(u) ==
  /\ \A s \in InTarget : SuiteSources[u][s] # NoSource => SuiteSources[u][s].version >= TargetSources[s].version
  /\ \A b \in SuiteBinaries[u], t \in TargetBinaries :
       SameBinary(b, t) /\ ~IsCruft(b, SuiteSources[u]) => b = t \/ Bin[b].version > Bin[t].version

\* A new version comes with binaries on the architectures of the old one; binNMUs of
\* a version drop no binary, and leave those for all architectures as they are.
BinariesBuilt(u) ==
  \A t \in TargetBinaries :
    LET s == Bin[t].source
        now(b) == b \in SuiteBinaries[u] /\ SameBinary(b, t) /\ ~IsCruft(b, SuiteSources[u])
    IN  SuiteSources[u][s] # NoSource /\ ~IsCruft(t, TargetSources) =>
          IF SuiteSources[u][s].version # TargetSources[s].version
          THEN OnArch(SuiteBinaries[u], Bin[t].arch) # {}
          ELSE /\ (\E b \in BinId : now(b)) \/ (Bin[t].arch_all /\ u # PrimarySuite)
               /\ \A b \in BinId : now(b) => b = t \/ ~Bin[b].arch_all

SteadyArchive ==
  /\ BinariesStay
  /\ Loaded(TargetSources, TargetBinaries)
  /\ \A u \in Suite : Loaded(SuiteSources[u], SuiteBinaries[u]) /\ NothingOlder(u) /\ BinariesBuilt(u)
=============================================================================
