-------------------------- MODULE MigrationPolicies --------------------------
(***************************************************************************)
(* The policies that judge an excuse from the archive and the hints alone, *)
(* and the engine that runs them (britney2/policies/policy.py).  The age   *)
(* and autopkgtest policies, whose verdicts depend on the state they keep  *)
(* between runs, are an input here (judged_elsewhere).                     *)
(*                                                                         *)
(* The universe is given resolved: Bin[b].depends are the clauses of       *)
(* BinaryPackageUniverse.dependencies_of, sets of binaries.                *)
(***************************************************************************)
EXTENDS Excuses

CONSTANTS
  Source, Arch, BinId, Suite,   \* source names, architectures, binaries, source suites
  PrimarySuite,       \* unstable; the other suites are additional sources
  Bin,                \* all_binaries and the universe
  TargetSources, TargetBinaries,   \* the target suite
  SuiteSources, SuiteBinaries,     \* the source suites
  NoSource, NoBin,
  PackageRank,        \* the order of binaries by name
  Broken,             \* pkg_universe.broken_packages
  Uninstallable,      \* binaries not installable in the target suite
  NobreakallArches, NewArches, BreakArches, SmoothAllowed, AllowUninst,
  KeyPackages,        \* key_packages.yaml
  RcBugs, TargetRcBugs,        \* open RC bugs: <<package name, bug>>
  Piuparts, TargetPiuparts,    \* results per source: "P", "F", "W" or "X"
  BuiltOnBuildd       \* binaries signed by a build daemon, by somebody else, or unknown

SourceItem == "source"
Target == "target"

Item == [package : Source, version : Nat, suite : Suite \cup {Target},
         arch : Arch \cup {SourceItem}, removal : BOOLEAN]

\* hint.packages[0]; an unversioned hint has version 0.
Hint == [type : STRING, package : Source \cup {"source", "new-source", "key", "no-autopkgtest"},
         version : Nat, suite : Suite \cup {Target}, arch : Arch \cup {SourceItem},
         removal : BOOLEAN, ignored : SUBSET Nat]

VARIABLES
  hints,             \* the active hints
  judged_elsewhere   \* for each item the verdict of the age and autopkgtest policies,
                     \* and whether all its own tests passed

SourceId(s, v) == [source |-> s, version |-> v]

HintsFor(type, s, v) == {h \in hints : h.type = type /\ h.package = s /\ h.version = v}

Lookup(bins, n, a) ==
  IF \E b \in bins : Bin[b].name = n /\ Bin[b].arch = a
  THEN CHOOSE b \in bins : Bin[b].name = n /\ Bin[b].arch = a ELSE NoBin

\* What the suite loader makes sure of, and that an excuse may bring any binary
\* and any source of a source suite.
ASSUME ArchiveAssumption ==
  LET SourcePackage == [version : Nat, binaries : SUBSET BinId, fakesrc : BOOLEAN, main : BOOLEAN]
  IN  /\ \A b \in BinId :
           /\ Bin[b].source \in Source /\ Bin[b].arch \in Arch /\ Bin[b].version \in Nat
           /\ Bin[b].depends \subseteq SUBSET BinId
           /\ Bin[b].builtusing \subseteq Source \X Nat
      /\ PrimarySuite \in Suite
      /\ TargetSources \in [Source -> SourcePackage \cup {NoSource}]
      /\ SuiteSources \in [Suite -> [Source -> SourcePackage \cup {NoSource}]]
      /\ TargetBinaries \subseteq BinId
      /\ SuiteBinaries \in [Suite -> SUBSET BinId]
      /\ BinId \subseteq PackageId /\ NoBin \notin BinId
      /\ \A u \in Suite, s \in Source :
           SuiteSources[u][s] # NoSource => SourceId(s, SuiteSources[u][s].version) \in PackageId \ BinId

SourceU(i) == SuiteSources[i.suite][i.package]
SourceT(i) == TargetSources[i.package]
IsCurrent(b, src) == Bin[b].source_version = src.version
IsCruft(b, sources) == ~IsCurrent(b, sources[Bin[b].source])
IsPrimary(i) == i.suite = PrimarySuite

\* What a policy says of an excuse: a verdict, and packages it depends on.
Says(v, ds) == [verdict |-> v, depends |-> ds]
Passes == Says(PASS, {})
NotApplicable == Says(NOT_APPLICABLE, {})

Worst(S) == CHOOSE v \in S : \A w \in S : w <= v
Together(S) == Says(Worst({r.verdict : r \in S}), UNION {r.depends : r \in S})

(***************************************************************************)
(* DependsPolicy.                                                          *)
(***************************************************************************)

\* skip_dep_check: the binary may be, or become, uninstallable.
SkipDepCheck(i, a, b) ==
  \/ Bin[b].arch_all /\ (i.arch # SourceItem \/ a \notin NobreakallArches)
  \/ <<Bin[b].name, a>> \in AllowUninst
  \/ Lookup(TargetBinaries, Bin[b].name, a) \in Uninstallable

OnArch(bins, a) == {b \in bins \cap BinId : Bin[b].arch = a}

CheckedBinaries(i, a, packages) ==
  IF a \in BreakArches \cup NewArches THEN {}
  ELSE {b \in OnArch(packages, a) : IsCurrent(b, SourceU(i)) /\ ~SkipDepCheck(i, a, b)}

\* Mutant: what the source suite has counts as there.
DependsPolicySuite(i, a, packages) ==
  LET checked == CheckedBinaries(i, a, packages)
      here == TargetBinaries \cup OnArch(SuiteBinaries[i.suite], a)
  IN  Says(IF checked \cap Broken # {} THEN REJECTED_PERMANENTLY ELSE PASS,
           {d \in UNION {Bin[b].depends : b \in checked} : d # {} /\ d \cap here = {}})

DependsPolicy(i, a, packages) ==
  LET checked == CheckedBinaries(i, a, packages)
      here == TargetBinaries \cup OnArch(packages, a)
  IN  Says(IF checked \cap Broken # {} THEN REJECTED_PERMANENTLY ELSE PASS,
           {d \in UNION {Bin[b].depends : b \in checked} : d # {} /\ d \cap here = {}})

(***************************************************************************)
(* RCBugPolicy and PiupartsPolicy, for items of the primary suite.         *)
(***************************************************************************)

BugsOf(bugs, s, src) ==
  IF src = NoSource THEN {}
  ELSE {p[2] : p \in {q \in bugs : q[1] = s \/ \E b \in src.binaries : q[1] = Bin[b].name}}

\* One hint that names one of the bugs counts; it hides its bugs on both sides.
RCBugPolicy(i) ==
  LET bugs_u == BugsOf(RcBugs, i.package, SourceU(i))
      bugs_t == BugsOf(TargetRcBugs, i.package, SourceT(i))
      useful == {h \in HintsFor("ignore-rc-bugs", i.package, i.version) :
                   h.ignored \cap bugs_u # {}}
      ignored == IF useful = {} THEN {} ELSE (CHOOSE h \in useful : TRUE).ignored
  IN  IF ~IsPrimary(i) THEN NotApplicable
      ELSE IF (bugs_u \ bugs_t) \ ignored # {} THEN Says(REJECTED_PERMANENTLY, {})
      ELSE IF useful # {} THEN Says(PASS_HINTED, {}) ELSE Passes

PiupartsPolicy(i) ==
  LET new == Piuparts[i.package]
      rejection == IF new = "W" THEN REJECTED_TEMPORARILY
                   ELSE IF new = "F" /\ TargetPiuparts[i.package] # "F"
                   THEN REJECTED_PERMANENTLY ELSE PASS
  IN  IF ~IsPrimary(i) THEN NotApplicable
      ELSE IF rejection # PASS /\ HintsFor("ignore-piuparts", i.package, i.version) # {}
      THEN Says(PASS_HINTED, {}) ELSE Says(rejection, {})

(***************************************************************************)
(* ImplicitDependencyPolicy: what else an upgrade would break.             *)
(***************************************************************************)

\* Mutant: remove hints are not looked at.
CanBeRemovedUnhinted(p) ==
  \/ SuiteSources[PrimarySuite][Bin[p].source] = NoSource
  \/ IsCruft(p, TargetSources)

CanBeRemoved(p) ==
  \/ SuiteSources[PrimarySuite][Bin[p].source] = NoSource
  \/ HintsFor("remove", Bin[p].source, TargetSources[Bin[p].source].version) # {}
  \/ IsCruft(p, TargetSources)

SkipReverseDependency(i, a, p) ==
  \/ p \notin TargetBinaries
  \/ Bin[p].source = i.package
  \/ CanBeRemoved(p)
  \/ Bin[p].arch_all /\ a \notin NobreakallArches
  \/ <<Bin[p].name, a>> \in AllowUninst
  \/ p \in Uninstallable

\* Replacing t by s, or by nothing (NoBin), leaves a clause of p unsatisfied.
BreaksInstallability(t, s, p) ==
  \E d \in Bin[p].depends :
    /\ t \in d
    /\ \A e \in d \ Bin[p].conflicts : Bin[e].name = Bin[t].name /\ e # s

\* find_newer_binaries: newer versions of p, or the newer source without it.
NewerIn(s, p) ==
  LET n == Lookup(SuiteBinaries[s], Bin[p].name, Bin[p].arch)
      src == SuiteSources[s][Bin[p].source]
  IN  IF OnArch(SuiteBinaries[s], Bin[p].arch) = {} THEN {}
      ELSE IF n # NoBin /\ ~IsCruft(n, SuiteSources[s])
      THEN {m \in {n} : Bin[m].version > Bin[p].version}
      ELSE IF src = NoSource THEN {}
      ELSE {id \in {SourceId(Bin[p].source, src.version)} : id.version > Bin[p].source_version}
FindNewerBinaries(p) == UNION {NewerIn(s, p) : s \in Suite}

CheckUpgrade(i, a, t, s) ==
  LET broken == {p \in BinId : /\ \E d \in Bin[p].depends : t \in d
                               /\ ~SkipReverseDependency(i, a, p)
                               /\ BreaksInstallability(t, s, p)}
      good(p) == {n \in FindNewerBinaries(p) : n \notin BinId \/ ~BreaksInstallability(t, s, n)}
  IN  Says(IF \E p \in broken : good(p) = {} THEN REJECTED_PERMANENTLY ELSE PASS,
           {good(p) : p \in broken} \ {{}})

\* The binary that replaces t: none if it is gone, or cruft in the source suite.
Successor(i, t) ==
  LET s == Lookup(SuiteBinaries[i.suite], Bin[t].name, Bin[t].arch)
  IN  IF s # NoBin /\ Bin[s].source = i.package /\ ~IsCurrent(s, SourceU(i)) THEN NoBin ELSE s

ImplicitDependencyPolicy(i, a, missingbuild) ==
  LET relevant == {t \in SourceT(i).binaries :
                     /\ Bin[t].arch = a
                     /\ a \notin NewArches \cup BreakArches
                     /\ Lookup(TargetBinaries, Bin[t].name, a) # NoBin
                     /\ ~IsCruft(t, TargetSources)}
      only_here(t) ==   \* a binNMU of an additional suite does not copy arch:all binaries
        /\ SourceT(i).version = SourceU(i).version
        /\ ~IsPrimary(i)
        /\ Bin[Lookup(TargetBinaries, Bin[t].name, a)].arch_all
      checked == {t \in relevant :
                    LET s == Successor(i, t)
                    IN  /\ s # t
                        /\ s = NoBin => Lookup(TargetBinaries, Bin[t].name, a) \notin SmoothAllowed
                                        /\ ~only_here(t)}
  IN  IF SourceT(i) = NoSource \/ missingbuild THEN Passes
      ELSE Together({Passes} \cup {CheckUpgrade(i, a, t, Successor(i, t)) : t \in checked})

(***************************************************************************)
(* BlockPolicy.                                                            *)
(***************************************************************************)

BlockTypes == {"block", "block-udeb"}
Unblock(t) == IF t = "block" THEN "unblock" ELSE "unblock-udeb"

BlockAll(kind) == \E h \in hints : h.type = "block-all" /\ h.package = kind

BlockedInGeneral(i) ==
  \/ BlockAll("source")
  \/ BlockAll("new-source") /\ SourceT(i) = NoSource
  \/ BlockAll("key") /\ i.package \in KeyPackages
  \/ BlockAll("no-autopkgtest") /\ ~(i.arch = SourceItem /\ judged_elsewhere[i].tests_pass)

BlockPolicy(i, a) ==
  LET specific == {h.type : h \in {g \in hints : g.package = i.package /\ g.type \in BlockTypes}}
      blocked == specific \cup
                 IF ~IsPrimary(i) \/ ("block" \notin specific /\ BlockedInGeneral(i))
                 THEN {"block"} ELSE {}
      unblocked == {t \in BlockTypes : \E h \in HintsFor(Unblock(t), i.package, i.version) :
                                         h.suite = i.suite /\ h.arch \in {a, SourceItem}}
  IN  Says(IF blocked \subseteq unblocked THEN PASS ELSE REJECTED_NEEDS_APPROVAL, {})

(***************************************************************************)
(* BuiltUsingPolicy and BuiltOnBuilddPolicy.                               *)
(***************************************************************************)

BuiltUsingPolicy(i, a) ==
  LET has(sources, bu) == sources[bu[1]] # NoSource /\ sources[bu[1]].version >= bu[2]
      using == UNION {Bin[b].builtusing : b \in OnArch(SourceU(i).binaries, a)}
      missing == {bu \in using : ~has(TargetSources, bu)}
      suite(bu) == IF has(SuiteSources[i.suite], bu) THEN i.suite ELSE PrimarySuite
      found == {bu \in missing : has(SuiteSources[suite(bu)], bu)}
  IN  IF a \in BreakArches THEN Passes
      ELSE Says(IF found = missing THEN PASS ELSE REJECTED_PERMANENTLY,
                {{SourceId(bu[1], SuiteSources[suite(bu)][bu[1]].version)} : bu \in found})

\* The last binary that fails decides between "permanently" and "unknown".
BuiltOnBuilddPolicy(i, a) ==
  LET checked == {b \in OnArch(SourceU(i).binaries, a) :
                    IsCurrent(b, SourceU(i)) /\ ~(i.arch # SourceItem /\ Bin[b].arch_all)}
      hinted(b) == Bin[b].arch_all
                     /\ \E h \in hints : h.type = "allow-archall-maintainer-upload"
                                         /\ h.package = i.package
      failing == {b \in checked : BuiltOnBuildd[b] # "buildd" /\ SourceU(i).main /\ ~hinted(b)}
      last == CHOOSE b \in failing : \A c \in failing : PackageRank[c] <= PackageRank[b]
  IN  IF failing = {}
      THEN Says(IF \E b \in checked : BuiltOnBuildd[b] # "buildd" /\ SourceU(i).main
                THEN PASS_HINTED ELSE PASS, {})
      ELSE Says(IF BuiltOnBuildd[last] = "unknown" THEN REJECTED_CANNOT_DETERMINE_IF_PERMANENT
                ELSE REJECTED_PERMANENTLY, {})

(***************************************************************************)
(* PolicyEngine.                                                           *)
(***************************************************************************)

ArchPolicies(i, a, packages, missingbuild) ==
  {DependsPolicy(i, a, packages), ImplicitDependencyPolicy(i, a, missingbuild),
   BuiltUsingPolicy(i, a), BuiltOnBuilddPolicy(i, a)}

apply_src_policies(i, packages, missingbuild) ==
  Together({RCBugPolicy(i), PiupartsPolicy(i), BlockPolicy(i, SourceItem),
            Says(judged_elsewhere[i].verdict, {})}
           \cup UNION {ArchPolicies(i, a, packages, missingbuild) : a \in Arch})

apply_srcarch_policies(i, packages) ==
  Together({BlockPolicy(i, i.arch)} \cup ArchPolicies(i, i.arch, packages, FALSE))
=============================================================================
