# A verification of britney2 in TLA+

britney2 decides which packages migrate from the source suites (unstable and
the additional suites) into the target suite ("testing").  A run loads the
suites, judges every candidate (the *excuses*), and then tries to migrate the
accepted ones without making packages of the target suite uninstallable.  This
directory models the parts of the program that hold state, checks the models with TLC and
proves what matters most about them, for every value of the constants, with TLAPS.

All paths below are relative to the repository (`src/`).

1. Inventory
2. Modules
3. Instances and bounds
4. Runs
5. What the code does otherwise than it says
6. Fairness
7. Proofs
8. What is not modelled

## 1. Inventory

| Component | State | Operations | What is hard | Modules |
|---|---|---|---|---|
| Target suite and transactions: `britney2/migration.py`, `transaction.py`, `TargetSuite` in `__init__.py` | tables `sources`, `binaries`, `provides_table`; the tester's contents; a stack of transactions with undo items | compute what an item adds and removes; apply it; start, commit, roll back | nested rollback; several items of one transaction touching one entry; four tables and the tester changed one after the other | `MigrationManager`, `NestedSnapshots` |
| Migration run: `britney.py`, verdicts in `britney2/migration.py`, `utils.py` | `upgrade_me`, `nuninst_orig`, `all_selected`, the worklist and two lists of rescheduled items | hints, main run, a run for each break architecture, clean-up | counters updated in part and copied; retries; failure half way; runs that cannot be rolled back | `MigrationRun` |
| Installability tester: `installability/tester.py` | contents of the suite; caches of installable, broken and pseudo-essential packages | add, remove, `is_installable`, `compute_installability` | a backtracking search with caches that outlive changes of the suite | `InstallabilityTester` |
| Universe builder: `installability/builder.py`, `universe.py` | relations, equivalence classes, broken packages | build once | symmetric conflicts, broken packages cut out, sharing | `UniverseBuilder` |
| Solver: `installability/solver.py` | a graph of items, then of components, and a queue | order, find components, merge, emit | an iterative search for strongly connected components; a queue that drops and takes back | `Solver` |
| Excuses: `excuse.py`, `excusedeps.py`, `excusefinder.py`, `invalidate_excuses` in `utils.py` | an excuse for each candidate, with verdict and dependencies | judge, invalidate along reverse dependencies | a worklist over a graph with cycles and alternatives; hints that force | `Excuses`, `ExcuseFinder`, `MigrationPolicies` |
| Autopkgtest policy: `policies/autopkgtest.py`; posting: `scripts/debci-put.py` | pending tests, results, the cache of baselines, all of it on disk too | request, fetch, judge, save | a remote service; crashes between saving and posting, and between two files; late and repeated results | `Autopkgtest` |
| Age policy: `policies/policy.py` | dates and urgencies in memory and in files | read, judge, write | files that other programs write; crashes between two writes | `AgePolicy` |
| Other policies: `policies/policy.py` | bugs, test results, hints | judge one excuse | mutual dependencies of excuses, blocks and what lifts them | `MigrationPolicies` |
| Hints, item names, loaders, output: `hints.py`, `migrationitem.py`, `inputs/`, `console.py`, ... | lists and tables built once | parse, print | no state machine | - |

How they interact: the loader fills the suites; the builder computes the
universe of relations once; the excuse finder runs the policies, which may request
tests and read results; valid excuses become the list `upgrade_me`; the migration
run asks the solver for an order, applies components through the migration
manager, which changes the target suite and tells the tester what it added and
removed; the tester answers which packages became uninstallable; the run commits or
rolls back.  Everything in a run happens in one thread.  The actors beside it are
the test service, the archive that receives uploads between runs, the scripts
that start a run and post its requests, and whatever ends a run early.

What makes each component correct is stated by its module's properties (section 4);
the hazards behind them are listed with their lines in `PROJECT.json`.

## 2. Modules

Where two modules model two sides of one thing, one of them says what the other
relies on: `MigrationRun` takes any partition and order of components where `Solver`
computes them; `InstallabilityTester` assumes of its universe (`BuilderAssumption`)
what `UniverseBuilder` leaves, except that equivalent packages may change
places; `ExcuseFinder` takes the verdicts of the age and autopkgtest policies as input
(`judged_elsewhere`), which `AgePolicy` and `Autopkgtest` model over many runs.
`Solver` extends `UniverseBuilder` and runs after it; `ExcuseFinder` extends
`MigrationPolicies`, which extends `Excuses`.

### MigrationManager, NestedSnapshots

`target` holds the tables (`sources`, `binaries`, `provides`) and the tester's
contents (`tester`).  `transactions` is the stack of
`MigrationManager._transactions`; a transaction has its undo items and, for the
properties only, the `snapshot` of the suite at its start.  A (name,
architecture) pair is one `Key`, as `binaries[arch][name]` is used.

* `Adds`, `Removes`, `SmoothCandidates`, `Hijacked`, `Leaving` translate
  `compute_groups` and `_compute_removals`, with their exceptions as
  `Permitted` (MigrationConstraintException) and `Defined` (KeyError, AssertionError).
* `Applied` and `Undo` translate `_apply_item_to_target_suite`; `Restored...` the
  four steps of `rollback`.
* The actions are `StartHint` (the outer transaction of a hint), `StartComponent`
  (that of a component in `iter_packages`), `Migrate` (one item), `Commit`,
  `Rollback` and `CleanUp` (obsolete sources, then left-over cruft).

Which items are tried and whether the result is accepted is nondeterministic
here, so that every sequence of commits and rollbacks is covered; `MigrationRun`
makes these choices as the code does.  Which binaries a smooth update keeps is
any subset of those that the code may keep.

`NestedSnapshots` is the abstract specification: a current state and a stack of
saved ones; begin pushes the current state, commit drops a saved one, rollback
restores it.  `MigrationManager` implements it with the tables as the state and
the snapshots as the stack (`TablesAreNested`, and with binaries and tester
`SuiteIsNested`).

### MigrationRun

The suite is the set of items applied to it, and `Uninst` gives for each such
set the uninstallable packages, as the tester would find them.  `run` is the
`do_all` under way with the worklist of its `iter_packages`; `parked` the items of
the break architectures and those left from each run; `options` the hints and
the architectures of this run of the program.

* `Accept`, `Reject`, `Retry` are the loop of `iter_packages`: a component that
  does not regress is committed, its new cruft goes on the worklist and what
  failed before is rescheduled; any other is split or set aside.
* `StartHint`, `RaiseInHint`, `StartMain`, `StartBroken`, `StartActions` begin
  a `do_all` for each phase of `upgrade_testing`; `Succeed` and `Fail` are its
  end; `NextPhase` goes on.
* `Regresses`, `is_nuninst_worse`, `is_nuninst_asgood_generous` are the
  verdicts, with their special cases for `NEW_ARCHES` and `BREAK_ARCHES`.

### InstallabilityTester

The universe is constant.  `suite` is the suite as the migration manager knows it,
`suite_contents` what the tester takes to be in it; `cache_inst`, `cache_broken` and
`cache_ess` are the caches.

* `add_binary`, `remove_binary`, `is_installable` and `compute_installability`
  are the public methods; they come in any order, but not within a search.
* A search is a stack of `frames`, one for each recursive call of `_check_inst`, with
  its `musts`, `never`, `choices` and `check`, and the `loop` of the
  `_check_loop` under way, which works for the essential set, for a frame
  or for an option on trial.  `CheckPackage` and `CheckDependency` are its steps;
  `EssentialLoopEnds`, `MainLoopEnds`, `TryLoopEnds` what its callers do with the result;
  `Prune` and `Pruned` are `_prune_choices`; `ResolveChoice` and `TryOption` are
  `resolve_choices`; `Fail` and `Succeed` are what a frame returns.
* A set is walked in any order, and so is `check`, a list filled from sets.

What is right is `Installable`: there is a set of packages of the suite that holds the
package and all essential ones, is closed under dependencies and free of conflicts.

### UniverseBuilder, Solver

An `archive` says for each binary which packages satisfy each of its dependencies and
which it conflicts with.  `MergeConflicts`, `ExpandBroken`, `Reduce` and
`BuildRelations` are the parts of `build` in their order; `relations` is the
universe.  `InArchive` and `InUniverse` say which sets of packages are consistent by
what was read and by what was built.

`Solver` goes on with `solve_groups`: `ConflictOrder`, `RemovalOrder` and
`DependencyOrder` give the relation `GroupOrder` on items (`_compute_group_order`);
`StartNode`, `Visit`, `Leave` and `FinishSCC` are the iterative search of
`compute_scc`, with its node stack, its stack of work and its numbers; `Merge` is
`_merge_items_into_components`; `Schedule`, `Emit` and `Finish` are the queue.  The code
sorts what it puts into the queue by the lengths of names, so any order is allowed here.

### Excuses, MigrationPolicies, ExcuseFinder

`Excuses` is what the invalidation of excuses has to be right for any excuses at all:
while they are collected it allows any, then `add_dependency` for each
(`AddDependencies`), the worklist of `invalidate_excuses` (`Invalidate`) and the
comparison in `find_actionable_excuses` (`Finish`).  A dependency is the set of
the excuses each of which satisfies it; `lost` is the state of each dependency.

`MigrationPolicies` is the policy engine with the verdicts of the policies that need
only the archive and the hints: RC bugs, piuparts, dependencies, Built-Using, blocks,
buildds, implicit dependencies.  `ExcuseFinder` says which items get an excuse:
`should_remove_source`, `should_upgrade` (new versions, and binaries of one
architecture: `SrcarchExcuse`) and `process_remove_hint` walk the sources in the order of
the code, then `find_actionable_excuses` does what `Excuses` does.  It is a
specification of its own that implements `Excuses` (`ImplementsExcuses`): the actions of
collecting map to `Collect`, the others are shared.

### Autopkgtest

The policy over many runs.  Results come from debci's file of jobs, which a run reads at its
start, or from a swift container, which it asks for each package (`adt_swift_url`).  Independently of that,
requests go to a file (`amqp_file`), which `debci-put.py` posts after the run, or to AMQP (`adt_amqp`).  The
model has debci with the file, swift with the file (the configuration of the tests), and swift with AMQP, where
the first request ends the run (section 5).  On disk are `cache`, `pending_tests_file` and the request file.
`jobs` is what the service was asked for.  `pc` is where the cycle of `run-standalone.sh` stands; what the run
has in memory is lost when it ends or crashes.

* A run: `initialise` reads the files, and with debci all jobs of the last days, and empties the request file;
  `pkg_test_request` asks for one test, unless it is answered or pending, with the
  fetching of its results; `pkg_test_result` is the status of that test and may ask for a run of the
  reference; `send_test_request`, which both use, writes to the file, or leads to `EndInError` with AMQP;
  `Migrate` is the verdict on candidates and what the output makes of it;
  `SaveResults` and `save_pending_json` are the two renames of `save_state`; `PostAll` and
  `PostFails` the script.
* The service: `EndJob` gives any outcome; with swift `PublishResult` makes it visible
  later.  A job may end as broken: a temporary failure or a damaged archive.
* The world: `Upload`, `Tick` (time), and `Crash`, which ends the run early; what is on
  disk stays.
* A history variable for one property: `lost` holds the tests that are pending on disk and whose request
  a failure has cut off: a post that failed, or a crash between the two renames, after which the disk still
  names tests that were answered, or that were asked for again and not posted.

### AgePolicy

Dates count as the days since then.  `initialise` reads dates, the legacy file
and urgencies; `apply_src_policy` judges; `Migrate` is what becomes of it;
`_write_dates_file` and `Unlink` are the rename and the removal of the legacy file in
`save_state`; `Raised` is the end of a run that met an urgency it does not know.
`Upload` and `Day` are the world, and `Crash` may come between any two steps.

### Proofs and instances

`...Proofs` hold the theorems (section 7), `MC...` the instances that TLC checks.
`Induction` holds what the proofs need of finite sets and natural numbers: a set of
naturals with 0 that is closed under successors has them all, and every set of finite sets has
a smallest member.

Definitions whose comment begins with "Mutant" are not part of a specification: each is
a definition with a plausible mistake, on which a property of a run is known to fail.

## 3. Instances and bounds

* `MCMigrationManager`: four sources, two architectures, smooth updates, virtual
  packages with several providers, cruft, and two binaries that change their source.  `MaxUndo`
  bounds the undo items of open transactions (6, and 4 with the additional suite): enough
  for a hint of several items with a component inside it, and for one table
  entry to be saved three times, which is where the order of undo items matters.  The source
  that is removed has no cruft: its removal would leave the cruft behind, without a
  source, and `SourcePkgConsistency` fails.
* `MCMigrationRun`: eight items, one of each kind: source items, an item of one
  architecture, cruft that a migrated item leaves and cruft from the start, an obsolete
  source, two versions that exclude each other, a pair that migrates only together, and
  items that wait for another one.  `Setup` has every mixture of easy, force-, plain and
  auto hints from a few of each kind with five pairs of break and new
  architectures.  All partitions into components and all orders are tried.  No
  architecture is both new and broken, and no easy or force-hint leaves cruft (section 5).
* `MCInstallabilityTester`: eleven packages: an essential package with a choice of two, each in conflict
  with a package outside; two choices whose guesses exclude
  each other, so that the search recurses, fails and tries again; and two equivalent
  packages.  A dependency of the essential package and both equivalent packages leave and come
  back (`Removable`).  Neither essential packages nor their alternatives leave:
  section 5 says what becomes of that.
* `MCExcuseFinder`: ten sources: a new library whose old binary stays behind, users of it, a
  removal, a binNMU, a package that nothing can satisfy, an additional suite, an
  architecture that is broken and out of sync, and binaries for all architectures.  48
  sets of hints meet six judgements of the policies modelled elsewhere.
* `MCAutopkgtest`: two packages, one depending on the other, with one upload each; debci with
  references and up to four jobs in three units of time, swift with three jobs
  in two, with requests in a file and by AMQP.  References, and the jobs in debci's file, pass out of use after
  one unit of time.  One fault (a crash, a broken job or a failing post) may come anywhere.  The
  lost request, the rerun, the aged reference and the late result all happen within that.
* `MCAgePolicy`: one package (they are treated one by one) with three more uploads
  of three urgencies, one of them unknown; a bounty, a penalty and both kinds of hints;
  ages up to three days (all above it are alike) and one fault.
* `MCSolver`: three families of archives: every graph of up to five edges on four
  items, which has each shape of two components that meet; items whose packages need, replace and
  conflict with each other's in every mixture; and broken packages in clauses and alternatives.

Deadlock is checked for `Autopkgtest` and `AgePolicy`, which go on for ever.  The others may
stop: the tester between two calls, the migration manager at `MaxUndo`, the rest when done.

## 4. Runs

Passing runs, and what their properties say:

| Run | Property | What it says |
|---|---|---|
| `suite` | `TablesRestorable`, `BinariesRestorable` | at any moment, rolling back any open transaction would restore sources and provides, and binaries and tester (the latter where no two items of a transaction touch one binary) |
| | `TablesAgree` | the tester knows exactly the binaries of the suite, and no virtual package they provide is missing from the table |
| | `SourcePkgConsistency` | between transactions every binary has its source and every source its binaries, as `check_suite_source_pkg_consistency` demands |
| | `CandidatesDefined` | no candidate meets a missing table entry |
| | `SuiteIsNested` | the transactions implement a stack of saved suites |
| `run` | `ItemsOnce`, `NothingLost` | no item is in two places or applied twice; none vanishes that could still migrate, and no new cruft before the removals at the end |
| | `NuninstIsCorrect` | the counters, updated in part only, are those of the suite as it stands |
| | `SelectedIsApplied` | the output lists what is in the suite |
| | `GivesUpLast` | what a run gives up does not fit the suite the run ends with |
| | `NeverRegresses` | between committed states nothing gets worse, beyond what hints and break architectures allow |
| | `NeverStuck` | "do_all FAILED but no transaction to rollback" does not happen |
| | `Terminates` | with all its retries and splits, the run ends |
| `tester` | `YesIsRight` | what is called installable, in an answer or in the cache, is so in the suite at its time |
| | `NoIsRight` | neither is what is called or cached as uninstallable, and all solutions agree with the cached pseudo-essential set, even half way through a search |
| | `ContentsInSync` | contents and broken packages together are the suite |
| | `Returns` | every call returns |
| `excuses` | `NoneLostInVain` | a set of candidates whose members satisfy each other's dependencies is never invalidated |
| | `LeftSupported` | what stays valid satisfies each other's dependencies |
| | `InvalidatedOnce` | no excuse is put on the worklist twice |
| | `AssertsOnlyIfForced` | the closing assertions fail only for a forced excuse that needs the impossible |
| | `NeedsMet` | when the actionable items migrate, the dependencies and Built-Using sources of those that are not forced are there, except where an old binary left in the source suite was counted for one |
| | `NotBlockedInVain` | an item that the implicit-dependency policy rejects breaks something, whatever migrates or is removed with it |
| | `FinderEnds`, `ImplementsExcuses` | the judging ends, and is a case of the specification of `Excuses` |
| `autopkgtest` | `NeverUnknown` | "Result is neither known nor pending" is never raised |
| | `BestResultWins` | in whatever order results come, the best one and the latest reference count |
| | `OrphansExplained` | with swift, between two runs, a test that is pending on disk has a job whose answer is to come, can still be read, was damaged or came late, unless a failed post or a crash between two renames cut its request off |
| | `NotAskedTwice` | with debci, no test is asked for while its job waits, though posts fail half way and no pending file is used |
| | `RegressionsHideBehindOldPasses` | a known regression migrates only behind a pass of a version that has left the suites |
| | `AllAnswered` | with debci and a file of requests every test of a candidate is answered in the end |
| `age` | `AgeNotOverstated` | no version is taken to be older than it is |
| | `DatesKept` | no crash or upload loses the date of a version or makes it younger |
| | `MigratesOldEnough` | whatever bounties and penalties, nothing migrates before the least age, but by a hint |
| | `AgedInTheEnd` | each candidate gets old enough, unless an unknown urgency ends every run |
| `solver` | `UniverseIsFaithful` | the universe allows the same sets of packages as the archive |
| | `GroupsAreRight` | the groups are the strongly connected components of the order of items, in an order that respects it |
| | `NothingMissingInBetween` | between two groups, a new package has each dependency that it has in the end, an old one each that it had, and no new one meets an old one it conflicts with |
| | `Solves` | the search and the queue end |

Runs that TLC ends with a counterexample, each about something the repository says of itself
(quoted under "findings" in `PROJECT.json`):

| Run | Property | What the counterexample shows |
|---|---|---|
| `rollback_leak` | `BinariesRestorable` | two items of one transaction touch one binary: rollback restores neither binaries nor tester (`transaction.py:99`) |
| `failed_guess` | `YesIsRight` | a failed guess is recorded as a conflict, and the search accepts two packages in conflict, in some orders (`tester.py:409`) |
| `forced_impossible` | `ValidMatchesVerdicts` | a forced excuse with an impossible dependency ends the program (`excusefinder.py:588`) |
| `old_pass` | `RegressionsDoNotMigrate` | a result of a version that has left the suites hides a regression (`autopkgtest.py:245`) |
| `broken_chain` | `BrokenIsClosed` | a package whose only alternatives are broken is not found to be broken (`builder.py:267`) |

## 5. What the code does otherwise than it says

Beside the findings, these disagreements were met while modelling.  The models follow
the code; where a passing run leaves a case out, section 3 says so.

* A binary that another source takes over stays in the `.binaries` of its old source
  (`migration.py:330`); if it leaves the suite with its new source,
  `check_suite_source_pkg_consistency` (`__init__.py:185-193`) finds it missing.
* An architecture in both `NEW_ARCHES` and `BREAK_ARCHES` leads to "do_all FAILED but no
  transaction to rollback" when cruft is cleaned up (`britney.py:1099`).
* The runs for break architectures replace the list `break_arches` by a string
  (`britney.py:1224`), in which `migration.py:453` looks for substrings: with `mips`
  and `mipsel` the one is taken to be among the other.  `Within` models it.
* New cruft of an easy hint goes into a local `upgrade_me` (`britney.py:1075`); the comment
  at 1073-1074 expects a future run to see it.
* The cached choices of the essential set name an alternative that has left the
  suite (`tester.py:166`); a package that conflicts with an essential one stays marked as
  broken when that one leaves.
* The default urgency is set after the urgencies are read (`policy.py:539`): a line with an
  unknown urgency ends the program with a TypeError at 542.
* With an `amqp://` URL the first request ends the program in a NameError: `amqp` is imported only inside
  `initialise` (`autopkgtest.py:268`), and `send_test_request` uses it as a global name (1024).  So
  nothing is published, the saving of the pending tests after each request (1027-1031) never takes place, and
  a run that has something to request writes no output (`EndInError`).
* With swift neither an OLD result nor a failure that is due for a retry is
  asked for again (`autopkgtest.py:1087-1092`, against its comment).
* With swift and a file of requests the pending tests are saved before the file is posted, and the next run opens
  it anew (278): a post that fails leaves its tests pending for good, with no job behind them.  The comment at
  1027-1031 counts on debci to return what is pending.  A late or damaged result, or a crash between the two
  renames, leaves a test pending for good, too.  `OrphansExplained` says that there is no other way.
* With swift, a job that tested a version older than its trigger has no result to store (969-981), but takes its
  test off the pending ones.  Until a newer result of the package is stored, each run reads the job anew and asks for
  the test again, although an earlier request for it waits.  `NotAskedTwice` therefore speaks of debci only.
* `solver.py:183` looks only at packages that move; one that stays in the suite may miss
  something between two groups.
* Broken packages stay in reverse dependencies and conflicts, against the docstring of
  `universe.py`.
* `doc/hints.rst` says that a block does not prevent a removal by hint (95-97), but
  `excusefinder.py:551-560` looks for one; that blocks cannot restrict binaries of one
  architecture (84-85 and 102-103), but `policy.py:1393-1394` does; and that force hints may
  name an architecture (183-188), but only source items are searched for them
  (`excusefinder.py:456`).

## 6. Fairness

* `MigrationRun`, `Solver` (`WF_vars(Next)`), `InstallabilityTester` (`WF_vars(Step)`) and
  `ExcuseFinder` (weak fairness of `find_actionable_excuses`, and `FinderEnds` starts when
  every source was considered): the program is one thread that never waits, so it takes a
  step as long as it has one.  Nothing is assumed of the tester's callers.
* `Autopkgtest`: `WF_vars(Run)`, as the cycle of `run-standalone.sh` is repeated, and
  `SF_vars(Service)`, as the service ends its jobs.  It is strong because in the model the service
  moves only between runs, and one run follows the other.  Nothing is assumed of uploads, time, crashes
  or posts.  `AtBound` is a stutter where the bounds are reached, and `AllAnswered`
  excepts these states (`Exhausted`); faults are bounded by `MaxFaults`, so that a
  fault cannot come in every run.
* `AgePolicy`: `WF_vars(Run)` and `SF_vars(Day)`: runs go on and days pass between them.
* `MigrationManager` states no liveness.

## 7. Proofs

Each theorem holds for every value of the constants that satisfies the named assumptions.

`MigrationManagerProofs` (`DataAssumption`: types; `LoaderAssumption`: what the suite
loader leaves in the tables, `suiteloader.py:311-323`, and that excuses name no cruft).
`TypeCorrect` includes that no more than two transactions are open.
`RollbackRestoresTables` (`TablesRestorable`) is inductive with the types because it is stated for every
level of the stack: an open transaction's log, applied to the state at the
start of the one above, gives its snapshot.  `Migrate` appends an undo item to the topmost log: an entry
saved earlier is unaffected and a new one holds what it was; `Commit` concatenates
two logs, in which the oldest entry wins.  `TransactionsImplementSnapshots` is the refinement
of `NestedSnapshots` (`TablesAreNested`), which follows from it.

The binaries and the tester need a hypothesis, for run `rollback_leak` shows a rollback that
restores neither: `NothingRetaken`, that no item of an open transaction takes away what an earlier one of
it brought.  Under it `RollbackRestoresBinaries` (`BinariesRestorable`), `TesterFollowsSuite` (`TablesAgree`)
and `SuiteImplementsSnapshots` (`SuiteIsNested`) follow from `ExactOK`: in the suite and in each snapshot
binaries are filed under their name and with their source, the tester and the provides table
agree with them (`Sound`), and each log tells exactly what changed (`Exact`: what it saved was there before, what
it brought was not, and is there now).  Where the rollback goes wrong, it is because of what
an archive holds, not of what is tried: `ApartNotRetaken` proves `NothingRetaken` in every behaviour of an
archive whose items are apart (`ItemsApart`: no binary is brought by two items, each brings binaries of its
source's version, and no source is both updated and removed), for what an item brought stays up to date and out of reach of the others
(`BroughtOK`).  The archive of run `suite` is one of these; that of `rollback_leak` is not.

`SourcesAndBinariesTogether` (`SourcePkgConsistency`) and `NoLookupFails` (`CandidatesDefined`) hold in archives whose
items are apart and whose target suite `StartsWhole`: it holds each binary that a source of it lists, and a
source to remove is there and has no cruft, which would be left behind (section 3).  Both follow from `RegularOK`,
which says the same of the present suite and of each snapshot, with the items chosen up to it: what chosen items
brought is up to date; a binary that a source lists is there, or one brought in its place; each binary has its
source; a source to remove leaves with all its binaries.  The archive of run `suite` starts whole.

`MigrationRunProofs` (`RunAssumption`; `LocalAssumption`: items of one architecture
do not change installability on another, and cruft has one owner and one architecture).
`CountersAreRight` (`NuninstIsCorrect`) and `SelectionIsSuite` (`SelectedIsApplied`) follow
from `AccountsOK`, which says the same in the middle of a run, with the copies that the run holds.
`NothingGivenUpEarly` (`GivesUpLast`) follows from `RejectedOK`: whatever is set aside fails in the
suite of that time, since each acceptance reschedules it.  `EachItemOnce` (`ItemsOnce`)
needs `PlacesOK`: the lists of a run are disjoint, and what later phases get has not migrated.
`NothingGetsLost` (`NothingLost`) has `KeptOK`, the same sum over the lists of the run under
way and over the snapshot that a rollback would restore.  `NoRunGetsStuck` (`NeverStuck`) and
`NothingRegresses` (`NeverRegresses`) have `StandingOK`: with and without a transaction, each
architecture stands no worse than where the run began, but for those that may break.  The
generous verdict at the end compares a sum over architectures, the verdict on a component
each of them; that one follows from the other is an induction over the set of architectures.
`NoRunGetsStuck` has one more hypothesis, which `main` does not enforce (section 5): no architecture is both new
and in `break_arches`.

`InstallabilityTesterProofs` (`UniverseAssumption`; `BuilderAssumption`: what the universe builder leaves).
`SuiteTracked` (`ContentsInSync`) is inductive by
itself.  `TypeCorrect` needs `SearchOK`: a search under way has a call and a frame.

`NoIsNeverWrong` (`NoIsRight`) needs no more than that no essential package is removed: `remove_binary` keeps
`cache_broken`, though without an essential package and its choices another one may become installable.  It speaks of
solutions that hold with a package all its equivalent ones (`Possible`); of each kind one is in the suite, and additions
and removals that keep a kind in the suite change none of them.  The invariant says that no such solution
holds what is in `cache_broken` and that each one meets the cached pseudo-essential set (`CachesOK`); that what a loop over
dependencies and `_check_loop` put aside are clauses of what was taken (`LoopsOK`: `ClausesOK`, `EssentialLoopOK`); and, of a
search, that as long as its package has a solution, one of them fits a frame of the search: it holds what that frame
has still to check, nothing it excludes, and an alternative of each choice left open (`HopefulOK`).
What is taken excludes what it conflicts with (`CoveredOK`), and while the alternatives of a choice are tried, the
solution holds one that is still to be tried or is being tried (`TryOK`).  So a search that gives up had no solution.

A yes needs more. `YesIsRightButForShortcuts` (`YesIsRight`) and `NoKeyErrors` (a search never ends with a package
taken out of the contents twice, `tester.py:473`) have the hypothesis `EssentialsStay`: what is removed is
neither essential nor among the alternatives that the essential packages may choose from, for `remove_binary` forgets no
cached package that relies on one of these (`tester.py:166`).  The first has another one, on the behaviour:
`ShortcutsAreSafe`, that an option committed to because it has no consequences (`tester.py:379`) excludes nothing that
was taken.  The code takes this for granted: by its comment `musts` and `never` are disjoint at all times (260), and the
test that would tell (388) comes after; but a failed guess is added to `never` (409) and may still be taken.  So the
theorem says that finding `failed_guess` is the only way to a wrong yes.  In the instance of run `tester`, which
satisfies `EssentialsStay`, TLC finds no state where `ShortcutsAreSafe` fails; in that of `failed_guess` it does.

`PlaceInv` says where packages are: a search works on packages of the suite (`PlacesOK`); the loop over the essential packages
does not fail if they are installable, and all that these need is taken, settled by a package
that adds neither conflicts nor needs, or left to choose (`EssentialLoopSound`, and of the cache, `EssentialSound`).
`YesInv` says of the cache that each package in it has a solution made of cached packages and alternatives of
the essential ones (`CacheSound`), so that a removal that keeps the cache leaves all these solutions.  Of a search
(`SearchSound`) it says that who is taken and checked has all it needs taken or left to choose
(`Served`), and that what is taken is there and without conflicts.  That is not so at every moment: a package may be found broken
while frames wait that hold it or have it for an alternative.  Such a frame is `Lost`: it, or the
alternative, will fail when it is looked at (`Hopeless`, `Doomed`).  What waits below a frame is part of what that one has
taken (`Within`), so a search that succeeds at the top has a solution for all.

`SolverProofs` holds the builder's theorems, too (`ArchivesAssumption`).  `UniverseAllowsTheSame`
(`UniverseIsFaithful`) goes through the stages of `build` with `TablesOK`: the
tables after each stage in terms of the archive.

For the solver (`ItemsAssumption`, `GroupsAssumption`), the invariant is `Inv`: components are
disjoint chains; the node stack is disjoint from them, and both together are what was met;
places on the stack of work increase from 0; the graph is that of the items, then of the
components; the queue, what is emitted and the result fit together.  It gives `SearchEndsClean` (the
assertion of `compute_scc` never fails), `NoItemTwice`, `NoItemBeforeItsElders` and
`QueueForgetsNothing`.  `UniverseStaysFaithful` carries the builder's theorem over.

`GroupsAreTheComponents` (`GroupsAreRight`) proves the search itself, without induction over paths: an item
reaches another if each set that holds the one and is closed under the order holds the other.
`SearchOK` says that components found are strongly connected and how a search stands (`Searching`): who is
on the two stacks (`StacksOK`); that what is finished leads to nothing unfinished but items without
successors (`DoneOK`); how numbers lie between those of the nodes worked on (`NumbersOK`); that a node worked on reaches
all above it on the stack, and each node on the stack one worked on whose number is not above
its own (`ReachOK`); and that a node that was left has told how far down it leads (`LeftOK`).  So what is
above a node that closes a component leads back to it and to nothing further down.  That all components are
emitted follows from `QueueForgetsNothing`: of those left, one with a least set of predecessors waits
for nothing.

`NothingMissingIfApart` (`NothingMissingInBetween`) follows from the order of the groups and `UniverseOK`, what cutting broken packages
leaves of the relations.  Its hypothesis `ItemsApart` has three parts: no package belongs to two items (`compute_groups`
maps a package to the last one only), what is removed is in the target suite, and it is not broken by
itself, for of a package whose conflicts were cut no order is made.  Each archive of run `solver` is apart.

`ExcusesProofs` (`NameAssumption`: ranks are distinct).  The invariant has four parts: `WorklistOK` (worklist,
told and valid excuses share out the names), `MarksOK` (a mark on a
dependency stands exactly for an excuse that was told), `VerdictsOK` and `MaximalOK`.  It
gives `NothingLostInVain`, `SupportIsLeft`, `EachInvalidatedOnce` and `AssertionsHold`.

The module goes on to `ExcuseFinder` (`ArchiveAssumption`: the archive is well formed, and a source is no binary;
`FinderAssumption`: each item has a name, and the policies that are input judge each one).
`FinderImplementsExcuses` (`ImplementsExcuses`) needs `FinderOK`: what is still to be looked at has no
excuse yet, remove hints come last, and the excuse of an update tells what every architecture was told.  So an
excuse is recorded once, and a hint that rejects one takes its item off the actionable ones; `Collect` asks for that,
and with it the four theorems above hold of the finder.  `NeedsAreMet` (`NeedsMet`) needs `NeedsOK`: an
actionable item asked for all that the dependency and Built-Using policies want on each of its
architectures, an excuse names packages of its own source only, and in the end the valid items are the
actionable ones.  By `SupportIsLeft` an alternative of each dependency is then among those that migrate, and has what
the dependency names.
`BlockedForAReason` (`NotBlockedInVain`) needs `NamedOK`, which sources in which versions get which
items, and an archive of a certain kind (`SteadyArchive`): what a source suite has to offer is not older than what is
there, binaries stay with their source and with its architectures, binNMUs of a version keep all of its binaries, and
a dependency is met on one architecture only.  Then what replaces a binary is known (`BreaksAfter`),
and a package that may not be removed stays, or gives way to one that the policy has looked at
(`StaysOrNewer`).  Elsewhere, e.g. where an additional suite holds an older version, a package may leave in a way that
the policy did not look at, although such an item would not pass.  `MCExcuseFinder` assumes `SteadyArchive` of the
archive of run `excuses`, so TLC checks it.

`AutopkgtestProofs` (`AutopkgtestAssumption`).  `NeverAskedTwice` (`NotAskedTwice`) needs
`AskedOK`: during a run the requests in the file have no waiting job, both are among the pending
tests, and no two of either are for one test; it holds although the file survives failed posts, because every
run reads all waiting jobs before it asks.  The other theorems have the effect of reading any number of results in
any order, by induction over what is read.  `TheBestIsRead` (`BestResultWins`) and `NothingUnknown`
(`NeverUnknown`) follow from `ReadOK` and `JudgedOK`: what the run has read is dominated by what it
remembers, and each test judged has a result, a request or a skip.  `RegressionsHide`
(`RegressionsHideBehindOldPasses`) combines both with the verdict.  `NothingOrphaned`
(`OrphansExplained`) needs `OrphansOK`: but for what is in `lost`, each test pending on disk has such a job all through a
run, and each one pending in memory has one or a request in the file.  Fetching keeps that up: a job that explains a
test of the package and is visible, whole and in time is listed, and takes the test off the pending ones.  So each save, and a crash at any
point, leaves on disk what has a job, or a request still to be posted, or is in `lost`; and the post makes the requests jobs.
The history variable is needed because afterwards nothing tells a test whose request was cut off from one that was
never asked for.  Whether the excuse is too weak is checked by TLC: the property fails when any of its alternatives,
or any of the ways into `lost`, is dropped.

`AgePolicyProofs` (`AgePolicyAssumption`).  `NeverTooOld` (`AgeNotOverstated`) is inductive
with the types; `DatesAreKept` (`DatesKept`) needs `MemoryOK`: what the run holds in memory is
never behind the file it will replace.  `OldEnough` (`MigratesOldEnough`) needs `UrgenciesOK` (after
the lines of the file are read, what is remembered of a source is the urgency of a line that counts, and
nothing only if there is none) and `PassingOK`.  Its hypothesis that every urgency asks for less than 1000 days is
in the code: `_read_urgencies_file` takes 1000 days for "no urgency yet" (`policy.py:538`),
and a line that asks for more would never count.

No run checks `TypeOK`: each of these modules but those of the universe and the solver
proves it.

Only model-checked:

* That `ShortcutsAreSafe` holds, and `YesIsRight` without it: that depends on the relations between packages.  Run
  `tester` checks `YesIsRight` without the hypothesis; run `failed_guess` shows where it fails, and section 5 what becomes of
  it when alternatives of the essential packages leave.
* Liveness, which is beyond the prover.

## 8. What is not modelled

* Parsing and printing: hints (`hints.py`), names of items, control files, the loading
  of suites, excuses as HTML and YAML, reports, the console and its completer, statistics.  They hold no
  state that a later step depends on; `LoaderAssumption` and
  `ArchivesAssumption` say what is left to rely on.
* `debci-publish.py` and the glue of the run scripts, beyond the order of their steps.
* In `MigrationManager`, the sets of affected packages (`migration.py:350`): they need
  the graph of dependencies, and the run has them exactly.  The choice of binaries to keep in a
  smooth update is any, for it depends on that graph, too.
* In `MigrationRun`, how the auto hinter finds its hints; the dependencies of
  packages, of which `Uninst` is what the tester makes.
* In `InstallabilityTester`, more than one architecture (they do not interact) and statistics.
* In `UniverseBuilder`, which packages a field of a control file resolves to: an archive says so.
* In `ExcuseFinder`, the build-dependency policy, which is not enabled
  (`britney.py:236-237`), the option `partial_source` (`excusefinder.py:50`), and the YAML that policies leave for others.
* In `Autopkgtest`, more than one architecture, missing builds, the choice of triggers by
  Testsuite-Triggers and by installability, blocked architectures, PPAs, huge queues, the
  shared cache and dry runs.  Tests are asked for in one order.  That `debci-put.py` posts the file is taken over to
  swift; what publishes requests made by AMQP is not modelled, as none gets that far.
* In `AgePolicy`, a configuration without `STATE_DIR`, and lines of the files that do not parse.
* No property covers four hazards: the reverse dependencies of a binary removed
  earlier in a hint (`migration.py:350`, left out as said above); the exception that ends the program when a hint's
  own items exclude each other (`britney.py:1056`, modelled as `RaiseInHint`; nothing says what should happen instead);
  that an improvement on one architecture pays for a regression on another (`utils.py:379`, modelled, and `NeverRegresses`
  judges in the same way); and a line of the urgencies file that does not count as it should (`policy.py:542`), where that
  only delays a migration.
