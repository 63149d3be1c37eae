-------------------------- MODULE MigrationManager --------------------------
(***************************************************************************)
(* The target suite ("testing") and the transactions that migrate items    *)
(* into it: class MigrationManager of britney2/migration.py, class         *)
(* MigrationTransactionState of britney2/transaction.py, and the part of   *)
(* TargetSuite (britney2/__init__.py) they change.                         *)
(*                                                                         *)
(* A hint ("easy" or "hint") runs in a transaction of its own; inside it,  *)
(* or inside no transaction at all in the main run, every component of     *)
(* items is tried in a transaction that is committed into its parent or    *)
(* rolled back.  An undo item is recorded for each item applied.           *)
(*                                                                         *)
(* Abstracted: which items are tried and whether a result is accepted      *)
(* (iter_packages and do_all, nondeterministic here), the affected sets,   *)
(* and the reverse dependencies that choose the smooth-updated binaries.   *)
(* A (name, architecture) pair is one Key.                                 *)
(***************************************************************************)
EXTENDS Naturals, Sequences, FiniteSets

CONSTANTS
  Source,          \* names of source packages
  Arch,            \* architectures
  Key,             \* (binary name, architecture) pairs
  Virtual,         \* (provided name, architecture) pairs
  BinId,           \* binary packages: (name, version, architecture)
  Bin,             \* their data: all_binaries
  ArchOf,          \* the architecture of a Key
  Suite,           \* the source suites
  PrimarySuite,    \* unstable; every other suite is an additional source
  SuiteSources,    \* the sources of each source suite
  SuiteBinaries,   \* the binaries of each source suite
  OutOfSync,       \* architectures that may carry out-of-date binaries
  SmoothAllowed,   \* binaries is_smooth_update_allowed accepts
  InitialSources, InitialBinaries,   \* the target suite as it was loaded
  UpgradeMe,       \* the items the excuses allow
  NoSource, NoBin, \* absent from a table
  MaxUndo          \* bound of the model: undo items in open transactions

SourceItem == "source"

SourceData == [version : Nat, binaries : SUBSET BinId]
Provided == SUBSET (Key \X Nat)   \* binary names, with the version provided
BinaryData == [key : Key, version : Nat, source : Source, source_version : Nat,
               provides : SUBSET (Virtual \X Nat), arch_all : BOOLEAN]

Item ==
  [kind : {"update"}, package : Source, arch : Arch \cup {SourceItem}, suite : Suite]
    \cup [kind : {"remove_source"}, package : Source]
    \cup [kind : {"remove_cruft"}, bin : BinId]

ASSUME DataAssumption ==
  /\ SourceItem \notin Arch
  /\ NoSource \notin SourceData
  /\ NoBin \notin BinId
  /\ Bin \in [BinId -> BinaryData]
  /\ ArchOf \in [Key -> Arch]
  /\ PrimarySuite \in Suite
  /\ SuiteSources \in [Suite -> [Source -> SourceData \cup {NoSource}]]
  /\ SuiteBinaries \in [Suite -> [Key -> BinId \cup {NoBin}]]
  /\ OutOfSync \subseteq Arch
  /\ SmoothAllowed \subseteq BinId
  /\ InitialSources \in [Source -> SourceData \cup {NoSource}]
  /\ InitialBinaries \in [Key -> BinId \cup {NoBin}]
  /\ UpgradeMe \subseteq Item
  /\ MaxUndo \in Nat

\* The loader files a binary under its own name, and lists what it files with
\* its source, which it makes up if there is none; a source of a source suite
\* lists binaries whose names the suite holds, and its own as the suite does.
\* The excuses name no cruft, and no source to update that the suite lacks.
ASSUME LoaderAssumption ==
  /\ \A k \in Key : InitialBinaries[k] # NoBin =>
       LET held == InitialBinaries[k]
           src == InitialSources[Bin[held].source]
       IN  Bin[held].key = k /\ src # NoSource /\ held \in src.binaries
  /\ \A s \in Suite, k \in Key :
       SuiteBinaries[s][k] # NoBin => Bin[SuiteBinaries[s][k]].key = k
  /\ \A s \in Suite, p \in Source :
       SuiteSources[s][p] # NoSource =>
         \A b \in SuiteSources[s][p].binaries :
           LET u == SuiteBinaries[s][Bin[b].key]
           IN  u # NoBin /\ (Bin[u].source = p => u = b)
  /\ \A i \in UpgradeMe : i.kind = "update" => SuiteSources[i.suite][i.package] # NoSource
  /\ \A i \in UpgradeMe : i.kind # "remove_cruft"

VARIABLES
  target,        \* the target suite: its tables and the tester's contents
  transactions,  \* the stack MigrationManager._transactions
  all_selected,  \* the items migrated so far
  phase          \* of upgrade_testing: hints and runs, then the clean-up

vars == <<target, transactions, all_selected, phase>>

KeyOf(b) == Bin[b].key
Pick(bins, k) == CHOOSE b \in bins : KeyOf(b) = k
Keys(bins) == {KeyOf(b) : b \in bins}
Holds(binaries) == {binaries[k] : k \in Key} \ {NoBin}

\* What a binary puts into the provides table under the virtual package v.
Entries(b, v) == {<<KeyOf(b), p[2]>> : p \in {q \in Bin[b].provides : q[1] = v}}
EntriesOf(bins, v) == UNION {Entries(b, v) : b \in bins}

(***************************************************************************)
(* compute_groups and _compute_removals: what an item adds and removes.    *)
(***************************************************************************)

SourceName(i) == IF i.kind = "remove_cruft" THEN Bin[i.bin].source ELSE i.package

Covers(i, k) == i.kind = "remove_source" \/ i.arch \in {SourceItem, ArchOf[k]}

\* The binaries of the source in the target suite that leave with the item,
\* cruft and hijacked ones excluded.
Leaving(i) ==
  LET src == target.sources[i.package]
  IN  IF src = NoSource THEN {}
      ELSE {b \in src.binaries :
              LET t == target.binaries[KeyOf(b)]
              IN  /\ Covers(i, KeyOf(b))
                  /\ t # NoBin
                  /\ Bin[t].source = i.package
                  /\ Bin[t].source_version = src.version}

\* find_smooth_updateable_binaries keeps some of these; which ones depends on
\* their reverse dependencies.
SmoothCandidates(i) ==
  IF i.kind = "update" /\ i.suite = PrimarySuite
  THEN {b \in Leaving(i) \cap SmoothAllowed :
          LET u == SuiteBinaries[i.suite][KeyOf(b)]
          IN  u # NoBin => Bin[u].source_version # SuiteSources[i.suite][i.package].version}
  ELSE {}

\* Binaries of the item's source, in its suite, that another source took over.
Hijacked(i) ==
  {b \in SuiteSources[i.suite][i.package].binaries :
     /\ Covers(i, KeyOf(b))
     /\ Bin[SuiteBinaries[i.suite][KeyOf(b)]].source # i.package}

Adds(i) ==
  IF i.kind # "update" THEN {}
  ELSE LET src == SuiteSources[i.suite][i.package]
       IN  {b \in src.binaries \ Hijacked(i) :
              /\ Covers(i, KeyOf(b))
              /\ \/ ArchOf[KeyOf(b)] \in OutOfSync
                 \/ Bin[SuiteBinaries[i.suite][KeyOf(b)]].source_version = src.version}

\* A binary-only item of an additional suite keeps arch:all binaries, and one
\* of any suite keeps what was hijacked.
Removes(i, smooth) ==
  IF i.kind = "remove_cruft" THEN {i.bin}
  ELSE {b \in Leaving(i) \ smooth :
          ~ /\ i.kind = "update"
            /\ i.arch # SourceItem
            /\ \/ i.suite # PrimarySuite /\ Bin[b].arch_all
               \/ KeyOf(b) \in Keys(Hijacked(i))}

\* No MigrationConstraintException: versions never go down, and a cruft item
\* names the version that is in the suite.
Permitted(i) ==
  CASE i.kind = "update" ->
         LET src == target.sources[i.package]
         IN  /\ src # NoSource => src.version <= SuiteSources[i.suite][i.package].version
             /\ \A b \in Adds(i) :
                  LET t == target.binaries[KeyOf(b)]
                  IN  t # NoBin => Bin[t].version <= Bin[b].version
    [] i.kind = "remove_cruft" -> target.binaries[KeyOf(i.bin)] = i.bin
    [] OTHER -> TRUE

\* No KeyError or AssertionError: every table entry the code reads is there.
Defined(i) ==
  CASE i.kind = "update" ->
         LET src == target.sources[i.package]
         IN  src # NoSource =>
               /\ \A b \in src.binaries :
                    Covers(i, KeyOf(b)) => target.binaries[KeyOf(b)] # NoBin
               /\ \A b, c \in Leaving(i) : KeyOf(b) = KeyOf(c) => b = c
    [] i.kind = "remove_source" ->
         /\ target.sources[i.package] # NoSource
         /\ \A b, c \in Leaving(i) : KeyOf(b) = KeyOf(c) => b = c
    [] i.kind = "remove_cruft" ->
         /\ target.binaries[KeyOf(i.bin)] # NoBin
         /\ target.sources[Bin[i.bin].source] # NoSource

(***************************************************************************)
(* _apply_item_to_target_suite.                                            *)
(***************************************************************************)

\* Mutant: a removed binary stays in the list of its source.
NewSourceUndiscarded(i, adds, rms) ==
  LET s == SourceName(i)
      old == target.sources[s]
  IN  IF i.kind = "remove_source" THEN NoSource
      ELSE [version |-> IF i.kind = "update" THEN SuiteSources[i.suite][s].version
                        ELSE old.version,
            binaries |-> (IF old = NoSource THEN {} ELSE old.binaries) \cup adds]

NewSource(i, adds, rms) ==
  LET s == SourceName(i)
      old == target.sources[s]
  IN  IF i.kind = "remove_source" THEN NoSource
      ELSE [version |-> IF i.kind = "update" THEN SuiteSources[i.suite][s].version
                        ELSE old.version,
            binaries |-> (IF old = NoSource THEN {} ELSE old.binaries \ rms) \cup adds]

\* Keys the item adds to that hold a binary it does not remove itself: cruft
\* of the source, or a binary built by another source.
Replaced(adds, rms) ==
  {k \in Keys(adds) \ Keys(rms) : target.binaries[k] # NoBin}

NewBinaries(adds, rms) ==
  [k \in Key |-> IF k \in Keys(adds) THEN Pick(adds, k)
                 ELSE IF k \in Keys(rms) THEN NoBin
                 ELSE target.binaries[k]]

Removed(rms) == {target.binaries[k] : k \in Keys(rms)}

NewProvides(adds, rms) ==
  [v \in Virtual |-> (target.provides[v] \ EntriesOf(Removed(rms), v)) \cup EntriesOf(adds, v)]

\* Mutant: a binary that is replaced stays in the tester.
NewTesterUnreplaced(adds, rms) == (target.tester \ rms) \cup adds

NewTester(adds, rms) ==
  (target.tester \ (rms \cup {target.binaries[k] : k \in Replaced(adds, rms)})) \cup adds

Applied(i, adds, rms) ==
  [sources  |-> [target.sources EXCEPT ![SourceName(i)] = NewSource(i, adds, rms)],
   binaries |-> NewBinaries(adds, rms),
   provides |-> NewProvides(adds, rms),
   tester   |-> NewTester(adds, rms)]

\* The undo item: what the item found under every entry it changed, as a set
\* of the one value, or of none for an entry it left alone.
Undo(i, adds, rms) ==
  LET changed == Removed(rms) \cup adds
  IN  [sources  |-> [s \in Source |-> IF s = SourceName(i) THEN {target.sources[s]} ELSE {}],
       binaries |-> [k \in Key |-> IF k \in Keys(rms) THEN {Pick(rms, k)}
                                   ELSE IF k \in Replaced(adds, rms) THEN {target.binaries[k]}
                                   ELSE {}],
       virtual  |-> [v \in Virtual |-> IF EntriesOf(changed, v) # {} THEN {target.provides[v]}
                                       ELSE {}],
       updated  |-> adds]

(***************************************************************************)
(* MigrationTransactionState.rollback.  lundo is walked from the newest    *)
(* item to the oldest, so the oldest value recorded for an entry wins.     *)
(***************************************************************************)

Oldest(places) == CHOOSE n \in places : \A m \in places : n <= m
Newest(places) == CHOOSE n \in places : \A m \in places : m <= n

SavedAt(log, table, k) == {n \in DOMAIN log : log[n][table][k] # {}}
UpdatedAt(log, k) == {n \in DOMAIN log : k \in Keys(log[n].updated)}

\* Mutant: the log is not reversed.
RestoredEntryUnreversed(log, table, k, value) ==
  LET places == SavedAt(log, table, k)
  IN  IF places = {} THEN value
      ELSE CHOOSE old \in log[Newest(places)][table][k] : TRUE

RestoredEntry(log, table, k, value) ==
  LET places == SavedAt(log, table, k)
  IN  IF places = {} THEN value
      ELSE CHOOSE old \in log[Oldest(places)][table][k] : TRUE

RestoredSources(log, st) ==                                         \* STEP 1
  [s \in Source |-> RestoredEntry(log, "sources", s, st.sources[s])]

\* Mutant: STEP 3 comes before STEP 2.
RestoredBinariesSwapped(log, st) ==
  [k \in Key |-> IF UpdatedAt(log, k) # {} THEN NoBin
                 ELSE RestoredEntry(log, "binaries", k, st.binaries[k])]

RestoredBinaries(log, st) ==                                        \* STEPS 2 and 3
  [k \in Key |-> RestoredEntry(log, "binaries", k,
                               IF UpdatedAt(log, k) # {} THEN NoBin ELSE st.binaries[k])]

\* STEP 2 deletes each key once: of several binaries the log added under it,
\* the newest leaves the tester and the others hit the KeyError and are
\* skipped.  STEP 3 adds every binary the log saved.
RestoredTester(log, st) ==
  LET deleted == {Pick(log[Newest(UpdatedAt(log, k))].updated, k) :
                    k \in {j \in Key : UpdatedAt(log, j) # {} /\ st.binaries[j] # NoBin}}
      saved == UNION {log[n].binaries[k] : n \in DOMAIN log, k \in Key}
  IN  (st.tester \ deleted) \cup saved

RestoredProvides(log, st) ==                                        \* STEP 4
  [v \in Virtual |-> RestoredEntry(log, "virtual", v, st.provides[v])]

Restored(log, st) ==
  [sources  |-> RestoredSources(log, st),
   binaries |-> RestoredBinaries(log, st),
   provides |-> RestoredProvides(log, st),
   tester   |-> RestoredTester(log, st)]

(***************************************************************************)
(* The steps.                                                              *)
(***************************************************************************)

Depth == Len(transactions)
Top == transactions[Depth]
Below == SubSeq(transactions, 1, Depth - 1)

\* Mutant: what open transactions selected is forgotten.
SelectedCommitted == all_selected

Selected == all_selected \cup UNION {transactions[n].items : n \in 1..Depth}

\* A binary of an older version of its source: left by a smooth update, or by an
\* update before this run.
IsCruft(b) ==
  LET src == target.sources[Bin[b].source]
  IN  src # NoSource /\ Bin[b].source_version # src.version

CruftItems == {[kind |-> "remove_cruft", bin |-> b] :
                 b \in {c \in Holds(target.binaries) : IsCruft(c)}}

\* On an out-of-sync architecture, only what unstable does not have any more.
OldLibraries ==
  {i \in CruftItems : LET k == KeyOf(i.bin)
                      IN  ArchOf[k] \notin OutOfSync \/ SuiteBinaries[PrimarySuite][k] = NoBin}

\* Sources without a binary in the suite, removed by the clean-up.
ObsoleteItems ==
  {[kind |-> "remove_source", package |-> s] :
     s \in {r \in Source : /\ target.sources[r] # NoSource
                           /\ \A b \in Holds(target.binaries) : Bin[b].source # r}}

Candidates ==
  CASE phase = "runs"     -> (UpgradeMe \ Selected) \cup CruftItems
    [] phase = "obsolete" -> ObsoleteItems
    [] phase = "cruft"    -> OldLibraries

Init ==
  /\ target = [sources  |-> InitialSources,
               binaries |-> InitialBinaries,
               provides |-> [v \in Virtual |-> EntriesOf(Holds(InitialBinaries), v)],
               tester   |-> Holds(InitialBinaries)]
  /\ transactions = <<>>
  /\ all_selected = {}
  /\ phase = "runs"

Transaction(kind) ==
  [kind |-> kind, items |-> {}, undo_items |-> <<>>, snapshot |-> target]

\* An "easy" or "hint" hint opens the outer transaction.
StartHint ==
  /\ phase = "runs" /\ transactions = <<>>
  /\ transactions' = <<Transaction("hint")>>
  /\ UNCHANGED <<target, all_selected, phase>>

\* iter_packages opens one for a component, inside the hint's if there is one.
StartComponent ==
  /\ \/ /\ transactions = <<>>
        /\ transactions' = <<Transaction("component")>>
     \/ /\ Depth = 1 /\ Top.kind # "component" /\ Top.items # {}
        /\ transactions' = <<[Top EXCEPT !.kind = "recursing"], Transaction("component")>>
  /\ UNCHANGED <<target, all_selected, phase>>

OpenUndoItems ==
  UNION {{n} \X DOMAIN transactions[n].undo_items : n \in DOMAIN transactions}

ApplyItem(i, smooth) ==
  LET rms == Removes(i, smooth)
  IN  /\ Defined(i) /\ Permitted(i)
      /\ Cardinality(OpenUndoItems) < MaxUndo
      /\ target' = Applied(i, Adds(i), rms)
      /\ IF transactions = <<>>
         THEN /\ all_selected' = all_selected \cup {i}
              /\ UNCHANGED transactions
         ELSE /\ transactions' =
                   [transactions EXCEPT
                      ![Depth].undo_items = Append(@, Undo(i, Adds(i), rms)),
                      ![Depth].items = @ \cup {i}]
              /\ UNCHANGED all_selected
      /\ UNCHANGED phase

\* An item of the hint or of the component on top; a "force-hint" applies its
\* items outside any transaction.
Migrate ==
  /\ IF transactions = <<>> THEN phase = "runs" ELSE Top.kind # "recursing"
  /\ \E i \in Candidates : \E smooth \in SUBSET SmoothCandidates(i) : ApplyItem(i, smooth)

\* Mutant: a child's undo items are lost.
CommitForgetting ==
  /\ transactions # <<>> /\ Top.items # {}
  /\ IF Depth = 1
     THEN transactions' = <<>> /\ all_selected' = all_selected \cup Top.items
     ELSE /\ transactions' = [Below EXCEPT ![Depth - 1].items = @ \cup Top.items]
          /\ UNCHANGED all_selected
  /\ UNCHANGED <<target, phase>>

\* The undo items of a child go to its parent, in order.
Commit ==
  /\ transactions # <<>> /\ Top.items # {}
  /\ IF Depth = 1
     THEN /\ transactions' = <<>>
          /\ all_selected' = all_selected \cup Top.items
     ELSE /\ transactions' =
               [Below EXCEPT ![Depth - 1].undo_items = @ \o Top.undo_items,
                             ![Depth - 1].items = @ \cup Top.items]
          /\ UNCHANGED all_selected
  /\ UNCHANGED <<target, phase>>

\* The result is not accepted, or an item raised a MigrationConstraintException
\* (compute_groups raises before it changes anything).
Rollback ==
  /\ transactions # <<>>
  /\ target' = Restored(Top.undo_items, target)
  /\ transactions' = Below
  /\ UNCHANGED <<all_selected, phase>>

\* upgrade_testing: obsolete sources leave, then what is left of the cruft.
CleanUp ==
  /\ transactions = <<>>
  /\ \/ phase = "runs" /\ phase' = "obsolete"
     \/ phase = "obsolete" /\ phase' = "cruft"
  /\ UNCHANGED <<target, transactions, all_selected>>

Next == StartHint \/ StartComponent \/ Migrate \/ Commit \/ Rollback \/ CleanUp

Spec == Init /\ [][Next]_vars

(***************************************************************************)
(* Properties.                                                             *)
(***************************************************************************)

Tables ==
  [sources  : [Source -> SourceData \cup {NoSource}],
   binaries : [Key -> BinId \cup {NoBin}],
   provides : [Virtual -> Provided],
   tester   : SUBSET BinId]

UndoItem ==
  [sources  : [Source -> SUBSET (SourceData \cup {NoSource})],
   binaries : [Key -> SUBSET BinId],
   virtual  : [Virtual -> SUBSET Provided],
   updated  : SUBSET BinId]

OpenTransaction ==
  [kind       : {"hint", "recursing", "component"},
   items      : SUBSET Item,
   undo_items : Seq(UndoItem),
   snapshot   : Tables]

\* The tables keep their types, and nesting stays at the two levels of the code.
TypeOK ==
  /\ target \in Tables
  /\ transactions \in Seq(OpenTransaction)
  /\ Depth <= 2
  /\ all_selected \subseteq Item
  /\ phase \in {"runs", "obsolete", "cruft"}

\* The suite as it was when the transaction above level n began, the present
\* one for the transaction on top.
StateAbove(n) == IF n = Depth THEN target ELSE transactions[n + 1].snapshot

\* Rolling back from any point, and at any level once the levels above it are
\* rolled back or merged, gives back the sources and the provides table the
\* transaction started from (transaction.py: "Rollback all recorded changes").
TablesRestorable ==
  \A n \in 1..Depth :
    /\ RestoredSources(transactions[n].undo_items, StateAbove(n))
         = transactions[n].snapshot.sources
    /\ RestoredProvides(transactions[n].undo_items, StateAbove(n))
         = transactions[n].snapshot.provides

\* The same for the binaries and for the packages the installability tester
\* takes to be in the suite.
BinariesRestorable ==
  \A n \in 1..Depth :
    /\ RestoredBinaries(transactions[n].undo_items, StateAbove(n))
         = transactions[n].snapshot.binaries
    /\ RestoredTester(transactions[n].undo_items, StateAbove(n))
         = transactions[n].snapshot.tester

\* What is kept beside the table of binaries agrees with it, although the code
\* changes each separately (the TODOs of TargetSuite.add_binary): the tester
\* works on exactly the binaries of the suite, and no removal or rollback takes
\* away a virtual package that another binary still provides.
TablesAgree ==
  /\ target.tester = Holds(target.binaries)
  /\ \A b \in Holds(target.binaries), v \in Virtual : Entries(b, v) \subseteq target.provides[v]

\* check_suite_source_pkg_consistency: between transactions, every binary has
\* its source and every source has its binaries.
SourcePkgConsistency ==
  transactions = <<>> =>
    /\ \A b \in Holds(target.binaries) : target.sources[Bin[b].source] # NoSource
    /\ \A s \in Source : target.sources[s] # NoSource =>
         \A b \in target.sources[s].binaries : target.binaries[KeyOf(b)] # NoBin

\* No candidate makes compute_groups or the application of the item fail on a
\* missing or doubled entry (KeyError), which would end the whole run.
CandidatesDefined == \A i \in Candidates : Defined(i)

SourcesAndProvides(t) == <<t.sources, t.provides>>

TableSnapshots == INSTANCE NestedSnapshots WITH
  current <- SourcesAndProvides(target),
  saved <- [n \in 1..Depth |-> SourcesAndProvides(transactions[n].snapshot)]

SuiteSnapshots == INSTANCE NestedSnapshots WITH
  current <- target,
  saved <- [n \in 1..Depth |-> transactions[n].snapshot]

\* The transactions are nested snapshots (module NestedSnapshots) as far as the
\* sources and the provides table go.
TablesAreNested == TableSnapshots!Spec

\* And they are for the whole suite, where no two items of a transaction touch
\* one binary.
SuiteIsNested == SuiteSnapshots!Spec

=============================================================================
