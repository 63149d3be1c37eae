----------------------------- MODULE AgePolicy -----------------------------
(***************************************************************************)
(* The age policy over many runs: the dates file the program keeps, the    *)
(* urgencies file another program writes, the required age of an upload    *)
(* and when it may migrate.                                                *)
(*                                                                         *)
(* Only differences of days matter, so a date is kept as the days since    *)
(* then, up to MaxAge, and a day that passes makes everything older.       *)
(***************************************************************************)
EXTENDS Integers, Sequences, SequencesExt, FiniteSetsExt

CONSTANTS
  Packages,      \* source packages
  MaxVersion, MaxAge, MaxFaults,     \* bounds
  Urgencies,     \* what the urgencies file may say, configured or not
  _min_days,     \* MINDAYS_*: a function on the configured urgencies
  _default_urgency, _bounty_min_age, _penalty_immune_urgencies,
  Bounties, Penalties,  \* days other policies may grant or demand
  UrgentHints,   \* [source, version] of the urgent hints
  AgeDayHints    \* a sequence of [source, version, days]

Versions == 1..MaxVersion
ASSUME AgePolicyAssumption ==
  /\ \A u \in DOMAIN _min_days : _min_days[u] \in Nat
  /\ _default_urgency \in DOMAIN _min_days
  /\ _bounty_min_age \in Nat
  /\ MaxVersion \in Nat \ {0} /\ MaxAge \in Nat /\ MaxFaults \in Nat
  /\ Bounties \subseteq Nat /\ Penalties \subseteq Nat
  /\ \A u \in DOMAIN _min_days, q \in Penalties : _min_days[u] + q <= MaxAge
  /\ AgeDayHints \in Seq([source : Packages, version : Nat, days : Int])
  /\ \A i \in DOMAIN AgeDayHints : AgeDayHints[i].days <= MaxAge

\* A file is the set of its contents: one value, or none if there is no file.
NoFile == {}
Contents(file) == CHOOSE dates \in file : TRUE
Lines == [source : Packages, version : Versions, urgency : Urgencies]
Dates(P) == [P -> Versions \X (0..MaxAge)]
Partial == UNION {Dates(P) : P \in SUBSET Packages}

VARIABLES
  source, target,   \* the versions in the suites, 0 for none
  arrived,          \* days since the version in the source suite came
  urgencies_file,   \* age-policy-urgencies, a sequence of lines
  dates_file,       \* age-policy-dates: package -> <<version, days since>>
  legacy_file,      \* Dates, in the directory of the target suite
  pc,               \* what the program is doing
  _dates, _urgencies,  \* what the run has in memory
  passing,          \* the packages the policy lets migrate, and how
  faults            \* runs that ended early so far

suites == <<source, target, arrived, urgencies_file>>
files == <<dates_file, legacy_file>>
vars == <<suites, files, pc, _dates, _urgencies, passing, faults>>

-----------------------------------------------------------------------------
(* The world: uploads, days, and the other policies. *)

Older(n) == IF n = MaxAge THEN MaxAge ELSE n + 1
AllOlder(dates) == [p \in DOMAIN dates |-> <<dates[p][1], Older(dates[p][2])>>]

\* A new version arrives; the file of urgencies may have a line for it then.
Upload(p, lines) ==
  /\ pc = "idle" /\ source[p] < MaxVersion
  /\ source' = [source EXCEPT ![p] = @ + 1]
  /\ arrived' = [arrived EXCEPT ![p] = 0]
  /\ urgencies_file' = lines
  /\ UNCHANGED <<target, files, pc, _dates, _urgencies, passing, faults>>

\* The day of a run is fixed when it starts.
Day ==
  /\ pc = "idle"
  /\ arrived' = [p \in Packages |-> Older(arrived[p])]
  /\ dates_file' = {AllOlder(dates) : dates \in dates_file}
  /\ legacy_file' = {AllOlder(dates) : dates \in legacy_file}
  /\ UNCHANGED <<source, target, urgencies_file, pc, _dates, _urgencies, passing, faults>>

-----------------------------------------------------------------------------
(* Reading the files. *)

\* The age a line stands for; 1000 for no line yet.  An unknown urgency counts
\* as None here, for the default is set only after the files are read.
IsKnown(line) == line.urgency \in DOMAIN _min_days
DaysOf(urgencies, p) == IF p \in DOMAIN urgencies THEN _min_days[urgencies[p]] ELSE 1000

\* A line counts for a version that is newer than the one in the target suite
\* and not newer than the one in the source suite.
IsCurrent(line) ==
  /\ target[line.source] < line.version
  /\ line.version <= source[line.source]

\* Urgencies are sticky: only a more urgent line replaces another.
ReadLine(urgencies, line) ==
  IF _min_days[line.urgency] < DaysOf(urgencies, line.source) /\ IsCurrent(line)
  THEN [p \in DOMAIN urgencies \cup {line.source} |->
          IF p = line.source THEN line.urgency ELSE urgencies[p]]
  ELSE urgencies

_read_urgencies_file ==
  LET read[n \in 0..Len(urgencies_file)] ==
        IF n = 0 THEN <<>> ELSE ReadLine(read[n - 1], urgencies_file[n])
  IN  read[Len(urgencies_file)]

_read_dates_file ==
  IF dates_file # NoFile THEN Contents(dates_file)
  ELSE IF legacy_file # NoFile THEN Contents(legacy_file) ELSE <<>>

\* The dates file is created if there is none; a line with an unknown urgency
\* raises a TypeError.
initialise ==
  /\ pc = "idle"
  /\ _dates' = _read_dates_file
  /\ dates_file' = IF dates_file = NoFile /\ legacy_file = NoFile THEN {<<>>} ELSE dates_file
  /\ IF \A i \in DOMAIN urgencies_file : IsKnown(urgencies_file[i])
     THEN /\ _urgencies' = _read_urgencies_file
          /\ pc' = "excuses"
     ELSE _urgencies' = <<>> /\ pc' = "raised"
  /\ UNCHANGED <<suites, legacy_file, passing, faults>>

-----------------------------------------------------------------------------
(* The verdict on a candidate. *)

\* The urgency that counts: the default for none and for unknown ones, and for
\* a package that is new if its own would be more urgent.
Urgency(p) ==
  LET u == IF p \in DOMAIN _urgencies THEN _urgencies[p] ELSE _default_urgency
      known == IF u \in DOMAIN _min_days THEN u ELSE _default_urgency
  IN  IF target[p] = 0 /\ _min_days[known] < _min_days[_default_urgency]
      THEN _default_urgency ELSE known

\* Mutant: bounties may take everything away.
MinDaysUnbounded(p, bounty, penalty) ==
  LET u == Urgency(p)
  IN  Max({0, _min_days[u] - bounty
              + IF u \in _penalty_immune_urgencies THEN 0 ELSE penalty})

\* The required age after bounties, penalties and their lower bound.
MinDays(p, bounty, penalty) ==
  LET u == Urgency(p)
      wanted == _min_days[u] - bounty
                + IF u \in _penalty_immune_urgencies THEN 0 ELSE penalty
  IN  Max({wanted, Min({_bounty_min_age, _min_days[u]})})

IsHintFor(hint, p) == hint.source = p /\ hint.version = source[p]

\* Of several hints the last one counts.
HintedDays(p, days) ==
  LET mine == {i \in DOMAIN AgeDayHints : IsHintFor(AgeDayHints[i], p)}
  IN  IF mine = {} THEN days ELSE AgeDayHints[Max(mine)].days

\* Mutant: the version is not compared.
DateOfSource(p) ==
  IF p \in DOMAIN _dates THEN <<source[p], _dates[p][2]>> ELSE <<source[p], 0>>

\* Mutant: every run counts as the first.
DateOfToday(p) == <<source[p], 0>>

\* The date of a package is that of its first run with this version.
DateOf(p) ==
  IF p \in DOMAIN _dates /\ _dates[p][1] = source[p] THEN _dates[p] ELSE <<source[p], 0>>

Verdict(p, bounty, penalty) ==
  IF DateOf(p)[2] >= HintedDays(p, MinDays(p, bounty, penalty)) THEN "PASS"
  ELSE IF \E hint \in UrgentHints : IsHintFor(hint, p) THEN "PASS_HINTED"
  ELSE "REJECTED_TEMPORARILY"

Candidates == {p \in Packages : source[p] # target[p]}

\* Mutant: only candidates are kept.
DatesOfCandidates == [p \in Candidates |-> DateOf(p)]

DatesAfter == [p \in DOMAIN _dates \cup Candidates |->
                 IF p \in Candidates THEN DateOf(p) ELSE _dates[p]]

\* apply_src_policy_impl on every candidate.
apply_src_policy(bounty, penalty) ==
  /\ pc = "excuses" /\ pc' = "migrate"
  /\ _dates' = DatesAfter
  /\ passing' = [p \in Candidates |-> Verdict(p, bounty[p], penalty[p])]
  /\ UNCHANGED <<suites, files, _urgencies, faults>>

Forget == _dates' = <<>> /\ _urgencies' = <<>> /\ passing' = <<>>

\* Some of those that pass migrate.
Migrate(chosen) ==
  /\ pc = "migrate" /\ pc' = "save"
  /\ \A p \in chosen : p \in DOMAIN passing /\ passing[p] # "REJECTED_TEMPORARILY"
  /\ target' = [p \in Packages |-> IF p \in chosen THEN source[p] ELSE target[p]]
  /\ UNCHANGED <<source, arrived, urgencies_file, files, _dates, _urgencies, passing, faults>>

\* The new file is renamed into place, then the legacy file is removed.
_write_dates_file ==
  /\ pc = "save" /\ pc' = "unlink"
  /\ dates_file' = {_dates}
  /\ UNCHANGED <<suites, legacy_file, _dates, _urgencies, passing, faults>>

Unlink ==
  /\ pc = "unlink" /\ pc' = "idle"
  /\ legacy_file' = NoFile /\ Forget
  /\ UNCHANGED <<suites, dates_file, faults>>

\* The run ends early: the memory is lost, the dates of new uploads with it.
Crash ==
  /\ pc \notin {"idle", "raised"} /\ faults < MaxFaults
  /\ pc' = "idle" /\ faults' = faults + 1 /\ Forget
  /\ UNCHANGED <<suites, files>>

\* After the TypeError the next run meets the same line.
Raised ==
  /\ pc = "raised" /\ pc' = "idle" /\ Forget
  /\ UNCHANGED <<suites, files, faults>>

-----------------------------------------------------------------------------
Init ==
  /\ source = [p \in Packages |-> 1]
  /\ target \in [Packages -> {0, 1}]
  /\ arrived = [p \in Packages |-> MaxAge]
  /\ urgencies_file = <<>>
  /\ dates_file = NoFile
  /\ legacy_file \in {NoFile, {[p \in Packages |-> <<1, MaxAge>>]}}
  /\ pc = "idle" /\ _dates = <<>> /\ _urgencies = <<>> /\ passing = <<>>
  /\ faults = 0

Run == \/ initialise \/ _write_dates_file \/ Unlink \/ Raised
       \/ \E b \in [Packages -> Bounties], q \in [Packages -> Penalties] :
            apply_src_policy(b, q)
       \/ \E chosen \in SUBSET Packages : Migrate(chosen)

World == \/ Day
         \/ \E p \in Packages :
              \/ Upload(p, urgencies_file)
              \/ \E u \in Urgencies, i \in 1..Len(urgencies_file) + 1 :
                   Upload(p, InsertAt(urgencies_file, i,
                     [source |-> p, version |-> source[p] + 1, urgency |-> u]))

Next == Run \/ World \/ Crash

\* Runs go on and come again, and days pass between them.
Spec == Init /\ [][Next]_vars
FairSpec == Spec /\ WF_vars(Run) /\ SF_vars(Day)

-----------------------------------------------------------------------------
(* Properties *)

IsDates(dates) == /\ dates \in Partial
                  /\ \A p \in DOMAIN dates : dates[p][1] <= source[p]
IsFile(file) == file = NoFile \/ \E dates \in file : file = {dates} /\ IsDates(dates)

\* What the suites and the dates range over; no date is noted for a version
\* that has not arrived.
TypeOK ==
  /\ source \in [Packages -> Versions] /\ target \in [Packages -> 0..MaxVersion]
  /\ arrived \in [Packages -> 0..MaxAge]
  /\ IsFile(dates_file) /\ IsFile(legacy_file) /\ IsDates(_dates)
  /\ pc \in {"idle", "excuses", "migrate", "save", "unlink", "raised"}
  /\ faults \in 0..MaxFaults

\* The age of an upload is never overstated, on disk or in memory: an older
\* version's days do not count, and crashes only cost days.
AgeNotOverstated ==
  \A dates \in dates_file \cup legacy_file \cup {_dates} :
    \A p \in DOMAIN dates : dates[p][1] = source[p] => dates[p][2] <= arrived[p]

\* Urgencies are "sticky" and the most urgent one is used (policy.py:284-285):
\* the days of the uploads since the version in the target suite.
CurrentDays(p) ==
  {_min_days[urgencies_file[i].urgency] : i \in
     {i \in DOMAIN urgencies_file : /\ urgencies_file[i].source = p
                                    /\ IsCurrent(urgencies_file[i])}}

\* What was noted of an upload is not lost nor made younger while it is the one
\* in the source suite: not by a crash between the rename and the removal of the
\* legacy file, nor by other uploads.
DatesKept ==
  [][\A p \in DOMAIN _read_dates_file :
       _read_dates_file[p][1] = source'[p] =>
         /\ p \in DOMAIN _read_dates_file'
         /\ _read_dates_file'[p][1] = _read_dates_file[p][1]
         /\ _read_dates_file'[p][2] >= _read_dates_file[p][2]]_vars

\* Whatever the bounties, nothing migrates before the lower bound on its true
\* age, except by a hint.
IsHinted(p) == \/ \E hint \in UrgentHints : IsHintFor(hint, p)
               \/ \E i \in DOMAIN AgeDayHints : IsHintFor(AgeDayHints[i], p)
RequiredDays(p) ==
  LET own == IF CurrentDays(p) = {} THEN _min_days[_default_urgency] ELSE Min(CurrentDays(p))
  IN  Min({_bounty_min_age,
           IF target[p] = 0 THEN Max({own, _min_days[_default_urgency]}) ELSE own})
MigratesOldEnough ==
  [][\A p \in Packages :
       target'[p] # target[p] => arrived[p] >= RequiredDays(p) \/ IsHinted(p)]_target

\* However often runs end early, a candidate gets old enough, unless a line of
\* the urgencies file ends them all.
AgedInTheEnd ==
  \A p \in Packages :
    []<>(\/ p \notin Candidates
         \/ p \in DOMAIN passing /\ passing[p] # "REJECTED_TEMPORARILY"
         \/ \E i \in DOMAIN urgencies_file : ~IsKnown(urgencies_file[i]))

=============================================================================
