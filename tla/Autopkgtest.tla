---------------------------- MODULE Autopkgtest ----------------------------
(***************************************************************************)
(* The autopkgtest policy over many runs of the program: what it keeps on  *)
(* disk (the cache of results, the pending requests), what it asks of the  *)
(* CI service and how it reads and judges the answers.                     *)
(*                                                                         *)
(* The service is outside the program: jobs end in any order, with any     *)
(* outcome, and (with swift) become visible later.  Two options say how    *)
(* the program talks to it.  Results come from one file with all jobs that *)
(* is read at the start (debci), or from a swift container that is asked   *)
(* per package while the run goes on.  Requests are written to a file that *)
(* debci-put.py posts after the run; with an amqp:// URL the first request *)
(* ends the run in a NameError.                                            *)
(*                                                                         *)
(* One architecture: the policy treats each by itself.  A version is a     *)
(* number, a trigger a source and its new version; the run id and the time *)
(* stamp of a result are the moment its job ended.                         *)
(*                                                                         *)
(* The world moves between runs.  With debci a run sees nothing of what    *)
(* happens after its start; with swift it asks for each package's news     *)
(* once, and finds the same as if they had come before it started.         *)
(***************************************************************************)
EXTENDS Naturals, Sequences, SequencesExt, FiniteSets

CONSTANTS
  Packages,      \* source packages
  Kernels,       \* those whose name starts with linux-meta or linux/
  RDepends,      \* [Packages -> SUBSET Packages]: which to test for a package
  MoreTriggers,  \* [Packages -> SUBSET Packages]: what to install with it
  TestVersions,  \* [Packages -> SUBSET versions]: those that have a test
  Configs,       \* option sets, of which a system has one
  Outcomes,      \* how a job may end, a subset of JobResults \cup {"broken"}
  MaxVersion, MaxFaults  \* bounds; config holds those of jobs and of time

REF_TRIG == [source |-> "migration-reference", version |-> 0]
Triggers == [source : Packages, version : 1..MaxVersion]
Tests == (Triggers \cup {REF_TRIG}) \X Packages

(***************************************************************************)
(* Result is an ordered enumeration: the smaller value is the better one.  *)
(***************************************************************************)
JobResults == {"PASS", "NEUTRAL", "FAIL"}
Statuses == JobResults \cup {"OLD_PASS", "OLD_NEUTRAL", "OLD_FAIL"}
Result == [s \in Statuses \cup {"NONE"} |->
  CASE s = "PASS" -> 1 [] s = "NEUTRAL" -> 2 [] s = "FAIL" -> 3
    [] s = "OLD_PASS" -> 4 [] s = "OLD_NEUTRAL" -> 5 [] s = "OLD_FAIL" -> 6
    [] OTHER -> 7]

ASSUME AutopkgtestAssumption ==
  /\ MaxVersion \in Nat \ {0} /\ MaxFaults \in Nat
  /\ Outcomes \subseteq JobResults \cup {"broken"}
  /\ \A c \in Configs : /\ c.swift \in BOOLEAN /\ c.amqp \in BOOLEAN
                        /\ c.reference \in BOOLEAN
                        /\ c.max_time \in Nat
                        /\ c.referenced \subseteq Packages
                        /\ c.badtest \in [Packages -> Nat]

VARIABLES
  config,        \* the options
  source, target,  \* the versions in the two suites, 0 for none
  now,           \* the clock
  jobs,          \* what the CI service was asked for, in order
  faults,        \* crashes and broken jobs so far
  cache, pending_tests_file,   \* autopkgtest-results.cache, -pending.json
  lost,          \* history: pending requests on disk that a failure cut off
  amqp_file,     \* the requests written for debci-put.py
  pc,            \* what the cycle of run-standalone.sh is doing
  started,       \* when the run read its input
  test_results, pending_tests, result_in_baseline_cache, fetched,  \* memory
  todo,          \* the tests the run has still to ask for
  current,       \* the test that was asked for and is to be judged
  judged         \* test -> status, the results of the run so far

suites == <<config, source, target>>
disk == <<cache, pending_tests_file, lost>>
service == <<jobs, now, faults>>
memory == <<test_results, pending_tests, result_in_baseline_cache, fetched,
            todo, current, judged, started>>
vars == <<suites, disk, service, memory, amqp_file, pc>>

(***************************************************************************)
(* A stored result has a state, the version tested and the time stamp.  A  *)
(* request names the trigger, what to install with it and what to test.    *)
(***************************************************************************)
Request(t, src) ==
  [trigger |-> t, src |-> src,
   triggers |-> {t} \cup
     IF t = REF_TRIG THEN {}
     ELSE {x \in Triggers : /\ x.source \in MoreTriggers[t.source]
                            /\ x.version = source[x.source]
                            /\ x.version # target[x.source]}]

RequestType ==
  [trigger : Triggers \cup {REF_TRIG}, src : Packages,
   triggers : SUBSET (Triggers \cup {REF_TRIG})]

\* The test a request is noted under while it is pending.
TestOf(r) == <<r.trigger, r.src>>
Asked == {TestOf(r) : r \in amqp_file}

Queued(r) == [request |-> r, status |-> "queued", version |-> 0, seen |-> 0,
              visible |-> FALSE, late |-> FALSE]
Covers(j) == {<<t, j.request.src>> : t \in j.request.triggers}
Ended == {i \in DOMAIN jobs : jobs[i].status # "queued"}
IsSwift == config.swift
IsReference == config.reference

-----------------------------------------------------------------------------
(* The CI service and the archive. *)

\* A new version arrives in the source suite, which a run reads once.
Upload(p) ==
  /\ pc = "idle" /\ source[p] < MaxVersion
  /\ source' = [source EXCEPT ![p] = @ + 1]
  /\ UNCHANGED <<config, target, disk, service, memory, amqp_file, pc>>

\* A job ends with some outcome, tested with the version of its package in
\* one of the suites.  "broken" is a job that has to be asked for again
\* (tmpfail) or whose archive of results is damaged.  With debci the outcome
\* is visible at once.
EndJob(i, outcome, v) ==
  /\ pc = "idle" /\ jobs[i].status = "queued" /\ now < config.max_time
  /\ v \in {source[jobs[i].request.src], target[jobs[i].request.src]} \ {0}
  /\ outcome = "broken" => faults < MaxFaults
  /\ now' = now + 1
  /\ faults' = faults + IF outcome = "broken" THEN 1 ELSE 0
  /\ jobs' = [jobs EXCEPT ![i] = [@ EXCEPT !.status = outcome, !.version = v,
                !.seen = now + 1, !.visible = ~IsSwift]]
  /\ UNCHANGED <<suites, disk, memory, amqp_file, pc>>

\* The results of a job reach the swift container; it is late when a job for
\* the same package with a greater run id is there already.
PublishResult(i) ==
  /\ pc = "idle" /\ i \in Ended /\ ~jobs[i].visible
  /\ jobs' = [jobs EXCEPT ![i].visible = TRUE,
       ![i].late = \E k \in Ended : /\ jobs[k].visible
                                    /\ jobs[k].request.src = jobs[i].request.src
                                    /\ jobs[k].seen > jobs[i].seen]
  /\ UNCHANGED <<suites, disk, now, faults, memory, amqp_file, pc>>

Tick ==
  /\ pc = "idle" /\ now < config.max_time
  /\ now' = now + 1
  /\ UNCHANGED <<suites, disk, jobs, faults, memory, amqp_file, pc>>

-----------------------------------------------------------------------------
(* Results. *)

test_version_in_any_suite(src, v) == v \in {source[src], target[src]}

mark_result_as_old(s) ==
  CASE s = "FAIL" -> "OLD_FAIL" [] s = "PASS" -> "OLD_PASS"
    [] s = "NEUTRAL" -> "OLD_NEUTRAL" [] OTHER -> s

\* Strip the results for versions that left the suites, and old references.
filter_old_results(results) ==
  [k \in DOMAIN results |->
     LET r == results[k]
     IN  IF \/ k[1] = REF_TRIG /\ r.seen + config.max_age < now
            \/ ~test_version_in_any_suite(k[2], r.version)
         THEN [r EXCEPT !.state = mark_result_as_old(@)] ELSE r]

\* Mutant: of equally good results the one read last counts.
IsUpdateUntimed(k, r, status, seen) ==
  IF IsReference /\ k[1] = REF_TRIG THEN r.seen < seen
  ELSE Result[status] <= Result[r.state]

\* A rerun does not turn a pass into a failure: the best result is kept, of
\* equal ones the latest; a reference follows the latest run.
IsUpdate(k, r, status, seen) ==
  IF IsReference /\ k[1] = REF_TRIG
  THEN r.seen < seen
  ELSE \/ Result[status] < Result[r.state]
       \/ status = r.state /\ r.seen < seen

\* A job whose package is the trigger itself has to have tested a version that
\* is new enough.
NewEnough(k, j) == k[1].source = k[2] => j.version >= k[1].version

add_trigger_to_results(results, j) ==
  LET news == {k \in Covers(j) : NewEnough(k, j)}
      old(k) == IF k \in DOMAIN results THEN results[k]
                ELSE [state |-> "FAIL", version |-> 0, seen |-> 0]
  IN  [k \in DOMAIN results \cup news |->
         IF k \in news /\ IsUpdate(k, old(k), j.status, j.seen)
         THEN [state |-> j.status, version |-> j.version, seen |-> j.seen]
         ELSE old(k)]

\* Several jobs, one after the other; a broken one has no result.
AddResults(results, order) ==
  LET added[n \in 0..Len(order)] ==
        IF n = 0 THEN results
        ELSE IF jobs[order[n]].status = "broken" THEN added[n - 1]
        ELSE add_trigger_to_results(added[n - 1], jobs[order[n]])
  IN  added[Len(order)]

latest_run_for_package(results, src) ==
  LET runs == {results[k].seen : k \in {k \in DOMAIN results : k[2] = src}}
  IN  CHOOSE m \in runs \cup {0} : \A n \in runs : n <= m

\* Mutant: only the newest job is listed.
ListedNewest(src) ==
  {i \in Ended : /\ jobs[i].visible /\ jobs[i].request.src = src
                 /\ jobs[i].seen > latest_run_for_package(test_results, src)
                 /\ \A k \in Ended : jobs[k].visible /\ jobs[k].request.src = src
                                    => jobs[k].seen <= jobs[i].seen}

\* The jobs of a package listed in the container after the latest run known,
\* in the order of their run ids.
Listed(src) ==
  {i \in Ended : /\ jobs[i].visible /\ jobs[i].request.src = src
                 /\ jobs[i].seen > latest_run_for_package(test_results, src)}
ByRunId(S) ==
  CHOOSE order \in SetToSeqs(S) :
    \A n, m \in DOMAIN order : n < m => jobs[order[n]].seen <= jobs[order[m]].seen

\* What fetching the new results of a package does, once per run, to the
\* results and to the pending requests.
fetch_swift_results(src) ==
  IF src \in fetched THEN [results |-> test_results, pending |-> pending_tests]
  ELSE LET new == Listed(src)
       IN  [results |-> AddResults(test_results, ByRunId(new)),
            pending |-> pending_tests \
              UNION {Covers(jobs[i]) : i \in {i \in new : jobs[i].status # "broken"}}]

\* The state of the reference run of a package, or the best result ever.
Baseline(results, src) ==
  LET ever == {results[k].state : k \in {k \in DOMAIN results : k[2] = src}}
  IN  IF IsReference
      THEN IF <<REF_TRIG, src>> \in DOMAIN results
           THEN results[<<REF_TRIG, src>>].state ELSE "NONE"
      ELSE IF "PASS" \in ever THEN "PASS"
           ELSE IF "NEUTRAL" \in ever THEN "NEUTRAL" ELSE "FAIL"

\* It is looked up once per run: the cache is filled by the first to ask.
result_in_baseline(results, src) ==
  IF result_in_baseline_cache[src] # "unknown"
  THEN result_in_baseline_cache[src] ELSE Baseline(results, src)

-----------------------------------------------------------------------------
(* A run: reading, asking, judging. *)

Candidates == {t \in Triggers : /\ source[t.source] = t.version
                                /\ target[t.source] # t.version}

\* A candidate's own test, if it has one, and those of the packages in the
\* target suite that depend on it.
tests_for_source(t) ==
  {s \in Packages : IF s = t.source THEN t.version \in TestVersions[s]
                    ELSE s \in RDepends[t.source] /\ target[s] \in TestVersions[s]}

has_test_in_target(src) == target[src] \in TestVersions[src]

\* The jobs in the file that was fetched from debci.
InWindow(i) == jobs[i].status = "queued" \/ jobs[i].seen + config.window >= now

\* Mutant: a job that has to be repeated still counts as pending.
IsRunningOrBroken(i) == jobs[i].status \in {"queued", "broken"}

\* Mutant: only jobs that ended are looked at.
IsRunningNever(i) == FALSE

\* In that file pending is what has no status yet; a tmpfail is neither pending
\* nor a result.
IsRunning(i) == jobs[i].status = "queued"

\* initialise: what was on disk is read and, with debci, the file of jobs; its
\* entries come in any order.  The file for new requests is opened anew.
initialise(order) ==
  LET file == {i \in DOMAIN jobs : InWindow(i)}
      read == IF IsSwift THEN cache ELSE AddResults(cache, order)
  IN  /\ pc = "idle" /\ Len(jobs) < config.max_jobs
      /\ order \in SetToSeqs(IF IsSwift THEN {} ELSE file \cap Ended)
      /\ test_results' = IF IsReference THEN filter_old_results(read) ELSE read
      /\ pending_tests' = IF IsSwift THEN pending_tests_file
                          ELSE UNION {Covers(jobs[i]) : i \in {i \in file : IsRunning(i)}}
      /\ result_in_baseline_cache' = [p \in Packages |-> "unknown"]
      /\ fetched' = {} /\ judged' = <<>>
      /\ todo' = {<<t, s>> : t \in Candidates, s \in Packages}
                   \cap {k \in Tests : k[2] \in tests_for_source(k[1])}
      /\ current' = <<>> /\ amqp_file' = {} /\ started' = now
      /\ pc' = "ask"
      /\ UNCHANGED <<suites, disk, service>>

\* A request is written to the file.  For AMQP the message is to be made with a
\* module that only initialise has imported, under a name of its own.
send_test_request(t, src) ==
  IF config.amqp
  THEN pc' = "NameError" /\ UNCHANGED amqp_file
  ELSE amqp_file' = amqp_file \cup {Request(t, src)} /\ UNCHANGED pc

\* Mutant: a request is not noted.
request_test_unnoted(t, src, pending) ==
  IF <<t, src>> \in pending
  THEN pending_tests' = pending /\ UNCHANGED <<amqp_file, pc>>
  ELSE pending_tests' = pending /\ send_test_request(t, src)

request_test_if_not_queued(t, src, pending) ==
  IF <<t, src>> \in pending
  THEN pending_tests' = pending /\ UNCHANGED <<amqp_file, pc>>
  ELSE pending_tests' = pending \cup {<<t, src>>} /\ send_test_request(t, src)

IsOld(s) == s \in {"OLD_PASS", "OLD_NEUTRAL", "OLD_FAIL"}

\* A failure that used to pass is due to be tried again after some days.
RetryDue(r, baseline) ==
  /\ r.state = "FAIL"
  /\ baseline \in {"PASS", "NEUTRAL", "OLD_PASS", "OLD_NEUTRAL"}
  /\ config.retry # 0 /\ r.seen + config.retry < started

\* A stored result is the answer unless it is old or due for another try; with
\* swift a failure is not, until the container was asked for news.
IsAnswered(k) ==
  /\ k \in DOMAIN test_results
  /\ LET r == test_results[k]
     IN  /\ ~IsOld(r.state)
         /\ ~RetryDue(r, result_in_baseline(test_results, k[2]))
         /\ IsSwift => r.state \in {"PASS", "NEUTRAL"}

\* Excuses are built, and tests asked for, in a fixed order (that of names).
NextTest == CHOOSE k \in todo : TRUE

pkg_test_request(k) ==
  LET new == fetch_swift_results(k[2])
  IN  /\ pc = "ask" /\ current = <<>>
      /\ todo' = todo \ {k} /\ current' = k
      /\ result_in_baseline_cache' =
           IF k \in DOMAIN test_results
           THEN [result_in_baseline_cache EXCEPT ![k[2]] =
                   result_in_baseline(test_results, k[2])]
           ELSE result_in_baseline_cache
      /\ IF IsAnswered(k)
         THEN UNCHANGED <<test_results, pending_tests, fetched, amqp_file, pc>>
         ELSE IF IsSwift
         THEN /\ test_results' = new.results
              /\ fetched' = fetched \cup {k[2]}
              /\ IF k \in DOMAIN new.results
                 THEN pending_tests' = new.pending /\ UNCHANGED <<amqp_file, pc>>
                 ELSE request_test_if_not_queued(k[1], k[2], new.pending)
         ELSE /\ request_test_if_not_queued(k[1], k[2], pending_tests)
              /\ UNCHANGED <<test_results, fetched>>
      /\ UNCHANGED <<suites, disk, service, judged, started>>

HasForceBadtest(src, v) == v <= config.badtest[src]

\* Mutant: only a fresh pass of the reference makes a regression.
FailureStatusFreshReference(k, baseline) ==
  LET r == test_results[k]
  IN  IF HasForceBadtest(k[2], r.version) THEN "IGNORE-FAIL"
      ELSE IF config.ignore_new /\ ~has_test_in_target(k[2]) THEN "ALWAYSFAIL"
      ELSE IF baseline = "NONE" /\ has_test_in_target(k[2]) THEN "RUNNING-REFERENCE"
      ELSE IF baseline # "PASS" THEN "ALWAYSFAIL"
      ELSE "REGRESSION"

\* Why a failure is not a regression, if it is not.
FailureStatus(k, baseline) ==
  LET r == test_results[k]
  IN  IF HasForceBadtest(k[2], r.version) THEN "IGNORE-FAIL"
      ELSE IF config.ignore_new /\ ~has_test_in_target(k[2]) THEN "ALWAYSFAIL"
      ELSE IF baseline = "NONE" /\ has_test_in_target(k[2]) THEN "RUNNING-REFERENCE"
      ELSE IF baseline \in {"FAIL", "OLD_FAIL"} THEN "ALWAYSFAIL"
      ELSE "REGRESSION"

PendingStatus(k, baseline) ==
  LET v == IF k[2] = k[1].source THEN k[1].version ELSE target[k[2]]
  IN  IF \/ config.ignore_new /\ ~has_test_in_target(k[2])
         \/ baseline = "FAIL" \/ HasForceBadtest(k[2], v)
      THEN "RUNNING-ALWAYSFAIL" ELSE "RUNNING"

\* The status of the test just asked for.  A failure without a fresh reference
\* asks for a run of the reference.  No result and no request is an error.
pkg_test_result ==
  LET k == current
      cached == result_in_baseline(test_results, k[2])
      failed == k \in DOMAIN test_results /\ test_results[k].state \in {"FAIL", "OLD_FAIL"}
      baseline == IF failed /\ ~IsReference /\ k[1].source \in Kernels
                  THEN "FAIL" ELSE cached
      wantsReference == /\ failed /\ has_test_in_target(k[2])
                        /\ baseline \in {"NONE", "OLD_FAIL", "OLD_NEUTRAL", "OLD_PASS"}
      status == IF failed THEN FailureStatus(k, baseline)
                ELSE IF k \in DOMAIN test_results THEN test_results[k].state
                ELSE IF k \in pending_tests THEN PendingStatus(k, baseline)
                ELSE "error"
  IN  /\ pc = "ask" /\ current # <<>>
      /\ result_in_baseline_cache' = [result_in_baseline_cache EXCEPT ![k[2]] = cached]
      /\ IF wantsReference
         THEN request_test_if_not_queued(REF_TRIG, k[2], pending_tests)
         ELSE UNCHANGED <<pending_tests, amqp_file, pc>>
      /\ judged' = [j \in DOMAIN judged \cup {k} |-> IF j = k THEN status ELSE judged[j]]
      /\ current' = <<>>
      /\ UNCHANGED <<suites, disk, service, test_results, fetched, todo, started>>

-----------------------------------------------------------------------------
(* The end of a run, the posting of its requests, and failures. *)

StatusesOf(t) == {judged[k] : k \in {k \in DOMAIN judged : k[1] = t}}

\* The verdict of apply_src_policy_impl on a candidate.
verdict(t) ==
  LET rejected == IF "REGRESSION" \in StatusesOf(t) THEN "REJECTED_PERMANENTLY"
                  ELSE IF StatusesOf(t) \cap {"RUNNING", "RUNNING-REFERENCE"} # {}
                  THEN "REJECTED_TEMPORARILY" ELSE "PASS"
      hinted == IF rejected # "PASS" /\ t \in config.skiptest
                THEN "PASS_HINTED" ELSE rejected
  IN  IF config.penalty /\ hinted \in {"REJECTED_PERMANENTLY", "REJECTED_TEMPORARILY"}
      THEN "PASS" ELSE hinted
Passing == {t \in Candidates : verdict(t) \in {"PASS", "PASS_HINTED"}}

Forget ==
  /\ test_results' = <<>> /\ pending_tests' = {} /\ fetched' = {}
  /\ result_in_baseline_cache' = [p \in Packages |-> "unknown"]
  /\ todo' = {} /\ current' = <<>> /\ judged' = <<>> /\ started' = 0

\* The output is written and the archive follows it; the other policies may
\* keep back what this one lets pass.
Migrate(chosen) ==
  /\ pc = "ask" /\ todo = {} /\ current = <<>>
  /\ chosen \subseteq Passing
  /\ target' = [p \in Packages |-> IF \E t \in chosen : t.source = p
                                   THEN source[p] ELSE target[p]]
  /\ pc' = "save"
  /\ UNCHANGED <<config, source, disk, service, memory, amqp_file>>

\* save_state renames one file, then the other.
SaveResults ==
  /\ pc = "save" /\ pc' = "save_pending"
  /\ cache' = test_results
  /\ UNCHANGED <<suites, pending_tests_file, lost, service, memory, amqp_file>>

save_pending_json ==
  /\ pc = "save_pending" /\ pc' = "put"
  /\ pending_tests_file' = pending_tests /\ lost' = lost \cap pending_tests
  /\ Forget
  /\ UNCHANGED <<suites, cache, service, amqp_file>>

\* submit_jobs: the requests are posted in chunks, and the file is removed.
\* When a post fails the file is put back, whatever was accepted before; the
\* next run opens it anew.
Post(accepted) ==
  /\ jobs' = jobs \o SetToSeq({Queued(r) : r \in accepted})
  /\ pc' = "idle"
  /\ UNCHANGED <<suites, cache, pending_tests_file, now, memory>>

PostAll ==
  /\ pc = "put" /\ Post(amqp_file)
  /\ amqp_file' = {} /\ UNCHANGED <<faults, lost>>

PostFails(accepted) ==
  /\ pc = "put" /\ faults < MaxFaults
  /\ accepted \subseteq amqp_file /\ Post(accepted)
  /\ lost' = lost \cup {TestOf(r) : r \in amqp_file \ accepted}
  /\ faults' = faults + 1 /\ UNCHANGED amqp_file

\* The run ends before its output is written: what is on disk stays, and
\* debci-put.py is not run.
EndInError ==
  /\ pc = "NameError" /\ pc' = "idle"
  /\ Forget
  /\ UNCHANGED <<suites, disk, service, amqp_file>>

\* The program, or the fetching of results, ends early.  Between the renames of
\* save_state this leaves requests that are answered, or asked for again and
\* not posted, pending on disk.
Crash ==
  /\ pc \in {"ask", "save", "save_pending"} /\ faults < MaxFaults
  /\ faults' = faults + 1 /\ pc' = "idle"
  /\ lost' = lost \cup IF pc = "save_pending"
                      THEN pending_tests_file \ (pending_tests \ Asked) ELSE {}
  /\ Forget
  /\ UNCHANGED <<suites, cache, pending_tests_file, jobs, now, amqp_file>>

-----------------------------------------------------------------------------
Init ==
  /\ config \in Configs
  /\ source = [p \in Packages |-> 1]
  /\ target = [p \in Packages |-> IF p \in config.new THEN 0 ELSE 1]
  /\ now = 0 /\ jobs = <<>> /\ faults = 0
  /\ cache = [k \in {REF_TRIG} \X config.referenced |->
                [state |-> "PASS", version |-> 1, seen |-> 0]]
  /\ pending_tests_file = {} /\ lost = {} /\ amqp_file = {}
  /\ pc = "idle" /\ started = 0
  /\ test_results = <<>> /\ pending_tests = {} /\ fetched = {}
  /\ result_in_baseline_cache = [p \in Packages |-> "unknown"]
  /\ todo = {} /\ current = <<>> /\ judged = <<>>

Run == \/ \E order \in SetToSeqs({i \in Ended : ~IsSwift /\ InWindow(i)}) : initialise(order)
       \/ todo # {} /\ pkg_test_request(NextTest)
       \/ pkg_test_result
       \/ \E chosen \in SUBSET Passing : Migrate(chosen)
       \/ SaveResults \/ save_pending_json \/ PostAll \/ EndInError

Service == \/ \E i \in DOMAIN jobs, o \in Outcomes, v \in 1..MaxVersion : EndJob(i, o, v)
           \/ \E i \in DOMAIN jobs : PublishResult(i)

\* The bounds: no run starts when there are enough jobs, and no job ends when
\* time is up.
Exhausted == Len(jobs) >= config.max_jobs \/ now = config.max_time
AtBound == Exhausted /\ UNCHANGED vars

Next == \/ Run \/ Service \/ Tick \/ Crash \/ AtBound
        \/ \E p \in Packages : Upload(p)
        \/ \E accepted \in SUBSET amqp_file : PostFails(accepted)

\* A run that can go on goes on and the next one comes; the service ends its
\* jobs (strong fairness, for in this model it has to wait for a run to end).
Spec == Init /\ [][Next]_vars
FairSpec == Spec /\ WF_vars(Run) /\ SF_vars(Service)

-----------------------------------------------------------------------------
(* Properties *)

JobType ==
  [request : RequestType, status : JobResults \cup {"queued", "broken"}, version : 0..MaxVersion,
   seen : Nat, visible : BOOLEAN, late : BOOLEAN]

\* What the variables range over (what the folded results hold is left out).
\* The request file is used only without AMQP.
TypeOK ==
  /\ config \in Configs
  /\ source \in [Packages -> 1..MaxVersion] /\ target \in [Packages -> 0..MaxVersion]
  /\ now \in 0..config.max_time /\ started \in 0..now /\ faults \in 0..MaxFaults
  /\ jobs \in Seq(JobType)
  /\ pending_tests_file \subseteq Tests /\ lost \subseteq Tests
  /\ pending_tests \subseteq Tests
  /\ amqp_file \subseteq RequestType
  /\ pc \in {"idle", "ask", "save", "save_pending", "put", "NameError"}
  /\ fetched \subseteq Packages /\ todo \subseteq Tests /\ current \in Tests \cup {<<>>}
  /\ config.amqp => amqp_file = {}

\* "Result is neither known nor pending" (autopkgtest.py:1240) is never raised:
\* every path that drops a pending request stores a result or asks again.
NeverUnknown == \A k \in DOMAIN judged : judged[k] # "error"

\* A result counts for a test when it is from a job that covers the test, with
\* a version that is new enough and, with references, still in a suite.
Counts(i, k) ==
  /\ i \in Ended /\ jobs[i].status # "broken"
  /\ k \in Covers(jobs[i]) /\ NewEnough(k, jobs[i])
  /\ IsReference => test_version_in_any_suite(k[2], jobs[i].version)

Fresh(s) == CASE s = "OLD_PASS" -> "PASS" [] s = "OLD_NEUTRAL" -> "NEUTRAL"
              [] s = "OLD_FAIL" -> "FAIL" [] OTHER -> s
Dominates(r, k, j) ==
  IF IsReference /\ k[1] = REF_TRIG THEN r.seen >= j.seen
  ELSE \/ Result[Fresh(r.state)] < Result[j.status]
       \/ Fresh(r.state) = j.status /\ r.seen >= j.seen

\* The jobs a run with debci has read.
Read(i) == /\ i \in Ended /\ jobs[i].seen <= started
           /\ jobs[i].seen + config.window >= started

\* "The result data may not be ordered by timestamp": whatever the order of
\* the entries, the run works with the latest of the best results, and with
\* the latest reference.
BestResultWins ==
  pc = "ask" /\ ~IsSwift =>
    \A i \in DOMAIN jobs : \A k \in Covers(jobs[i]) :
      Counts(i, k) /\ Read(i) =>
        k \in DOMAIN test_results /\ Dominates(test_results[k], k, jobs[i])

\* With swift a test that is pending on disk is not asked for again.  Between
\* two runs such a test has a job whose answer is still to come or can still be
\* read, or one that was damaged or came late; or its request is lost: the post
\* of it failed, or a crash hit between the two renames of save_state.  Nothing
\* but these can block a test for good; no other crash or order of events does.
OrphansExplained ==
  IsSwift /\ pc = "idle" =>
    \A k \in pending_tests_file \ lost : \E i \in DOMAIN jobs :
      /\ k \in Covers(jobs[i])
      /\ \/ ~jobs[i].visible \/ jobs[i].status = "broken" \/ jobs[i].late
         \/ jobs[i].seen > latest_run_for_package(cache, k[2])

\* With debci no test is asked for while a job for it is under way, although
\* the pending file is not used and posts may fail half-way.
NotAskedTwice ==
  ~IsSwift =>
    \A i, k \in DOMAIN jobs :
      /\ jobs[i].status = "queued" /\ jobs[k].status = "queued"
      /\ jobs[i].request.trigger = jobs[k].request.trigger
      /\ jobs[i].request.src = jobs[k].request.src
      => i = k

\* Every result that counts for the test is a failure, the run has read one,
\* the package passes in the target suite, and nobody hinted the test.
KnownRegression(k) ==
  /\ ~IsSwift /\ IsReference /\ ~config.penalty /\ k[1] \notin config.skiptest
  /\ \E i \in DOMAIN jobs : Read(i) /\ Counts(i, k) /\ jobs[i].status = "FAIL"
  /\ \A i \in DOMAIN jobs : Counts(i, k) => jobs[i].status = "FAIL"
  /\ Baseline(test_results, k[2]) \in {"PASS", "NEUTRAL", "OLD_PASS", "OLD_NEUTRAL"}
  /\ has_test_in_target(k[2]) /\ config.badtest[k[2]] = 0

Migrates(t) == target[t.source] # t.version /\ target'[t.source] = t.version

\* "Reject the upload if any of those regress" (autopkgtest.py:119-120).
RegressionsDoNotMigrate ==
  [][\A t \in Triggers : Migrates(t) =>
       \A s \in tests_for_source(t) : ~KnownRegression(<<t, s>>)]_target

\* A known regression migrates only behind a pass for a version that is in no
\* suite any more.
RegressionsHideBehindOldPasses ==
  [][\A t \in Triggers : Migrates(t) =>
       \A s \in tests_for_source(t) :
         KnownRegression(<<t, s>>) =>
           test_results[<<t, s>>].state \in {"OLD_PASS", "OLD_NEUTRAL"}]_target

Wanted == {k \in Tests : k[1] \in Candidates /\ k[2] \in tests_for_source(k[1])}

\* With debci and requests in a file every test of a candidate is answered in
\* the end, whatever posts fail, jobs break and runs crash on the way: a lost
\* request is made again.
AllAnswered == []<>(IsSwift \/ config.amqp \/ Exhausted \/ Wanted \subseteq DOMAIN cache)

=============================================================================
