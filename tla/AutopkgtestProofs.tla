-------------------------- MODULE AutopkgtestProofs --------------------------
(***************************************************************************)
(* Theorems about Autopkgtest, for any packages, versions, options and     *)
(* number of jobs.                                                         *)
(***************************************************************************)
EXTENDS Autopkgtest, Induction

(***************************************************************************)
(* Types.                                                                  *)
(***************************************************************************)

LEMMA RequestTypes ==
  ASSUME NEW t \in Triggers \cup {REF_TRIG}, NEW p \in Packages
  PROVE  /\ Request(t, p) \in RequestType
         /\ Request(t, p).trigger = t /\ Request(t, p).src = p
         /\ t \in Request(t, p).triggers
<1>1. {t} \cup (IF t = REF_TRIG THEN {}
                ELSE {x \in Triggers : /\ x.source \in MoreTriggers[t.source]
                                       /\ x.version = source[x.source]
                                       /\ x.version # target[x.source]})
      \in SUBSET (Triggers \cup {REF_TRIG})
  OBVIOUS
<1> QED  BY <1>1 DEF Request, RequestType

LEMMA QueuedTypes ==
  ASSUME NEW r \in RequestType
  PROVE  /\ Queued(r) \in JobType /\ Queued(r).status = "queued" /\ Queued(r).request = r
BY AutopkgtestAssumption DEF Queued, JobType

LEMMA CoversTypes ==
  ASSUME NEW j \in JobType
  PROVE  Covers(j) \subseteq Tests
BY DEF Covers, JobType, RequestType, Tests

\* A set of requests is queued in some order, each once.
LEMMA QueuedOnce ==
  ASSUME NEW accepted \in SUBSET RequestType, IsFiniteSet(accepted)
  PROVE  LET queue == SetToSeq({Queued(r) : r \in accepted})
         IN  /\ queue \in Seq(JobType)
             /\ \A i \in 1..Len(queue) : \E r \in accepted : queue[i] = Queued(r)
             /\ \A r \in accepted : \E i \in 1..Len(queue) : queue[i] = Queued(r)
             /\ \A i, k \in 1..Len(queue) : queue[i] = queue[k] => i = k
<1> DEFINE S == {Queued(r) : r \in accepted}
           n == Cardinality(S)
           f == [r \in accepted |-> Queued(r)]
<1>1. f \in Surjection(accepted, S)
  BY DEF Surjection, Range
<1>2. IsFiniteSet(S)
  BY <1>1, FS_Surjection
<1>3. n \in Nat /\ S \subseteq JobType
  BY <1>2, FS_CardinalityType, QueuedTypes
<1>4. \E g : g \in [1..n -> S] /\ IsInjective(g)
  <2>1. ExistsBijection(1..n, S)
    BY <1>2, FS_CardinalityType
  <2> HIDE DEF S, n
  <2> QED  BY <2>1 DEF ExistsBijection, Bijection, Injection, IsInjective
<1>5. SetToSeq(S) \in [1..n -> S] /\ IsInjective(SetToSeq(S))
  <2>1. SetToSeq(S) = CHOOSE g \in [1..n -> S] : IsInjective(g)
    BY DEF SetToSeq
  <2> HIDE DEF S, n
  <2> QED  BY <1>4, <2>1
<1>6. SetToSeq(S) \in Seq(JobType) /\ Len(SetToSeq(S)) = n
  <2> HIDE DEF S, n
  <2> QED  BY <1>3, <1>5
<1>7. SetToSeq(S) \in Surjection(1..n, S)
  <2>1. IsFiniteSet(1..n) /\ Cardinality(1..n) = n
    BY <1>3, FS_Interval
  <2>2. SetToSeq(S) \in Injection(1..n, S) /\ Cardinality(1..n) = Cardinality(S)
    BY <1>5, <2>1 DEF Injection
  <2> HIDE DEF S
  <2> QED  BY <1>2, <2>1, <2>2, FS_Injection
<1>8. \A x \in S : \E i \in 1..n : SetToSeq(S)[i] = x
  <2> HIDE DEF S, n
  <2> QED  BY <1>5, <1>7 DEF Surjection, Range
<1>9. \A i \in 1..n : \E r \in accepted : SetToSeq(S)[i] = Queued(r)
  <2>1. \A i \in 1..n : SetToSeq(S)[i] \in S
    <3> HIDE DEF S, n
    <3> QED  BY <1>5
  <2> QED  BY <2>1
<1>10. \A r \in accepted : Queued(r) \in S
  OBVIOUS
<1>11. \A i, k \in 1..n : SetToSeq(S)[i] = SetToSeq(S)[k] => i = k
  <2> HIDE DEF S, n
  <2> QED  BY <1>5 DEF IsInjective
<1> HIDE DEF n
<1> QED
  BY <1>6, <1>8, <1>9, <1>10, <1>11

\* One job changes.
LEMMA JobChanges ==
  ASSUME jobs \in Seq(JobType), NEW i \in DOMAIN jobs, NEW j \in JobType,
         jobs' = [jobs EXCEPT ![i] = j]
  PROVE  /\ jobs' \in Seq(JobType) /\ DOMAIN jobs' = DOMAIN jobs
         /\ \A k \in DOMAIN jobs : jobs'[k] = IF k = i THEN j ELSE jobs[k]
<1>1. jobs \in [1..Len(jobs) -> JobType] /\ Len(jobs) \in Nat /\ DOMAIN jobs = 1..Len(jobs)
  OBVIOUS
<1> QED  BY <1>1

\* A job that ends or becomes visible is still for the same request.
LEMMA ServiceStep ==
  ASSUME TypeOK, NEW i \in DOMAIN jobs,
         \/ \E o \in Outcomes, v \in 1..MaxVersion : EndJob(i, o, v)
         \/ PublishResult(i)
  PROVE  /\ jobs' \in Seq(JobType) /\ DOMAIN jobs' = DOMAIN jobs
         /\ \A k \in DOMAIN jobs : /\ jobs'[k].request = jobs[k].request
                                   /\ jobs'[k].status = "queued" => jobs[k].status = "queued"
         /\ now' \in 0..config.max_time /\ now <= now' /\ faults' \in 0..MaxFaults
<1>1. /\ jobs \in Seq(JobType) /\ jobs[i] \in JobType /\ config.max_time \in Nat
      /\ now \in 0..config.max_time /\ faults \in 0..MaxFaults /\ MaxFaults \in Nat
  BY AutopkgtestAssumption DEF TypeOK
<1>2. ASSUME NEW o \in Outcomes, NEW v \in 1..MaxVersion, EndJob(i, o, v)
      PROVE  /\ jobs' \in Seq(JobType) /\ DOMAIN jobs' = DOMAIN jobs
             /\ \A k \in DOMAIN jobs : /\ jobs'[k].request = jobs[k].request
                                       /\ jobs'[k].status = "queued" => jobs[k].status = "queued"
             /\ now' \in 0..config.max_time /\ now <= now' /\ faults' \in 0..MaxFaults
  <2> DEFINE visible == ~IsSwift
             j == [jobs[i] EXCEPT !.status = o, !.version = v, !.seen = now + 1,
                                  !.visible = visible]
  <2>1. visible \in BOOLEAN
    OBVIOUS
  <2>2. jobs' = [jobs EXCEPT ![i] = j] /\ jobs[i].status = "queued"
    BY <1>2 DEF EndJob
  <2> HIDE DEF visible
  <2>3. j \in JobType /\ j.request = jobs[i].request
    <3>1. o \in JobResults \cup {"queued", "broken"} /\ v \in 0..MaxVersion /\ now + 1 \in Nat
      BY <1>1, AutopkgtestAssumption
    <3> QED  BY <1>1, <2>1, <3>1 DEF JobType
  <2>4. now' \in 0..config.max_time /\ now <= now' /\ faults' \in 0..MaxFaults
    <3>1. /\ now < config.max_time /\ now' = now + 1
          /\ o = "broken" => faults < MaxFaults
          /\ faults' = faults + IF o = "broken" THEN 1 ELSE 0
      BY <1>2 DEF EndJob
    <3>2. now' \in 0..config.max_time /\ now <= now'
      BY <1>1, <3>1
    <3>3. faults' \in 0..MaxFaults
      BY <1>1, <3>1
    <3> QED  BY <3>2, <3>3
  <2> HIDE DEF j
  <2> QED  BY <1>1, <2>2, <2>3, <2>4, JobChanges
<1>3. ASSUME PublishResult(i)
      PROVE  /\ jobs' \in Seq(JobType) /\ DOMAIN jobs' = DOMAIN jobs
             /\ \A k \in DOMAIN jobs : /\ jobs'[k].request = jobs[k].request
                                       /\ jobs'[k].status = "queued" => jobs[k].status = "queued"
             /\ now' \in 0..config.max_time /\ now <= now' /\ faults' \in 0..MaxFaults
  <2> DEFINE late == \E k \in Ended : /\ jobs[k].visible
                                      /\ jobs[k].request.src = jobs[i].request.src
                                      /\ jobs[k].seen > jobs[i].seen
             j == [jobs[i] EXCEPT !.visible = TRUE, !.late = late]
  <2>1. late \in BOOLEAN
    OBVIOUS
  <2>2. jobs' = [jobs EXCEPT ![i].visible = TRUE, ![i].late = late]
    BY <1>3 DEF PublishResult
  <2> HIDE DEF late
  <2>3. jobs' = [jobs EXCEPT ![i] = j]
    BY <1>1, <2>2
  <2>4. j \in JobType /\ j.request = jobs[i].request /\ j.status = jobs[i].status
    BY <1>1, <2>1 DEF JobType
  <2>5. now' \in 0..config.max_time /\ now <= now' /\ faults' \in 0..MaxFaults
    <3>1. now' = now /\ faults' = faults
      BY <1>3 DEF PublishResult
    <3> QED  BY <1>1, <3>1
  <2> HIDE DEF j
  <2> QED  BY <1>1, <2>3, <2>4, <2>5, JobChanges
<1> QED  BY <1>2, <1>3

LEMMA RequestStep ==
  ASSUME TypeOK, pc = "ask", NEW t \in Triggers \cup {REF_TRIG}, NEW p \in Packages,
         NEW pending \in SUBSET Tests, request_test_if_not_queued(t, p, pending)
  PROVE  /\ pending_tests' \in SUBSET Tests /\ amqp_file' \in SUBSET RequestType
         /\ pc' \in {"ask", "NameError"} /\ (config.amqp => amqp_file' = {})
<1>1. <<t, p>> \in Tests /\ Request(t, p) \in RequestType
  BY RequestTypes DEF Tests
<1>2. pending_tests' \in SUBSET Tests
  BY <1>1 DEF request_test_if_not_queued
<1>3. CASE UNCHANGED <<amqp_file, pc>>
  BY <1>2, <1>3 DEF TypeOK
<1>4. CASE send_test_request(t, p)
  BY <1>1, <1>2, <1>4 DEF TypeOK, send_test_request
<1> QED  BY <1>3, <1>4 DEF request_test_if_not_queued

LEMMA TestTypes ==
  ASSUME NEW r \in RequestType
  PROVE  TestOf(r) \in Tests
BY DEF TestOf, RequestType, Tests

\* What the service gets is a sequence of jobs again.
LEMMA PostStep ==
  ASSUME TypeOK, IsFiniteSet(amqp_file), NEW accepted \in SUBSET amqp_file, Post(accepted)
  PROVE  jobs' \in Seq(JobType) /\ pc' = "idle"
<1>1. accepted \in SUBSET RequestType /\ IsFiniteSet(accepted)
  BY FS_Subset DEF TypeOK
<1>2. SetToSeq({Queued(r) : r \in accepted}) \in Seq(JobType)
  BY <1>1, QueuedOnce
<1>3. jobs' = jobs \o SetToSeq({Queued(r) : r \in accepted}) /\ pc' = "idle"
  BY DEF Post
<1>4. jobs \in Seq(JobType)
  BY DEF TypeOK
<1> DEFINE queue == SetToSeq({Queued(r) : r \in accepted})
<1> HIDE DEF queue
<1> QED  BY <1>2, <1>3, <1>4 DEF queue

LEMMA FetchedPending ==
  ASSUME TypeOK, NEW p
  PROVE  fetch_swift_results(p).pending \in SUBSET Tests
<1> DEFINE new == Listed(p)
           gone == UNION {Covers(jobs[i]) : i \in {i \in new : jobs[i].status # "broken"}}
           results == AddResults(test_results, ByRunId(new))
<1>1. fetch_swift_results(p) =
        IF p \in fetched THEN [results |-> test_results, pending |-> pending_tests]
        ELSE [results |-> results, pending |-> pending_tests \ gone]
  BY DEF fetch_swift_results
<1> HIDE DEF gone, results
<1> QED  BY <1>1 DEF TypeOK

LEMMA ForgetTypes ==
  ASSUME Forget
  PROVE  /\ pending_tests' = {} /\ fetched' = {} /\ todo' = {} /\ current' = <<>>
         /\ started' = 0
BY DEF Forget

LEMMA RunTypes ==
  ASSUME TypeOK, IsFiniteSet(amqp_file), Run
  PROVE  TypeOK'
<1>0. /\ config \in Configs /\ now \in Nat /\ config.max_time \in Nat /\ now \in 0..config.max_time
      /\ jobs \in Seq(JobType)
  BY AutopkgtestAssumption DEF TypeOK
<1>1. ASSUME NEW order, initialise(order) PROVE TypeOK'
  <2>1. todo' \subseteq Tests
    BY <1>1 DEF initialise
  <2>2. pending_tests' \subseteq Tests
    <3>1. \A i \in DOMAIN jobs : jobs[i] \in JobType
      BY <1>0
    <3>2. \A i \in DOMAIN jobs : Covers(jobs[i]) \subseteq Tests
      BY <3>1, CoversTypes
    <3>3. pending_tests' = IF IsSwift THEN pending_tests_file
            ELSE UNION {Covers(jobs[i]) : i \in {i \in {i \in DOMAIN jobs : InWindow(i)} : IsRunning(i)}}
      BY <1>1 DEF initialise
    <3> QED  BY <3>2, <3>3 DEF TypeOK
  <2>3. started' \in 0..now /\ pc' = "ask" /\ amqp_file' = {} /\ fetched' = {}
        /\ current' = <<>> /\ UNCHANGED <<suites, disk, service>>
    BY <1>0, <1>1 DEF initialise
  <2> QED
    BY <2>1, <2>2, <2>3 DEF TypeOK, suites, disk, service
<1>2. ASSUME todo # {}, pkg_test_request(NextTest) PROVE TypeOK'
  <2> DEFINE k == NextTest
  <2>1. k \in todo
    BY <1>2 DEF NextTest
  <2>2. k \in Tests /\ k[1] \in Triggers \cup {REF_TRIG} /\ k[2] \in Packages
    BY <2>1 DEF TypeOK, Tests
  <2>3. /\ todo' \subseteq Tests /\ current' \in Tests
        /\ pc = "ask" /\ UNCHANGED <<suites, disk, service, judged, started>>
    BY <1>2, <2>2 DEF pkg_test_request, TypeOK
  <2>4. fetched' \subseteq Packages
    <3>1. fetched' \in {fetched, fetched \cup {k[2]}}
      BY <1>2 DEF pkg_test_request
    <3> HIDE DEF k
    <3> QED  BY <2>2, <3>1 DEF TypeOK
  <2>5. \/ UNCHANGED <<pending_tests, amqp_file, pc>>
        \/ pending_tests' = fetch_swift_results(k[2]).pending /\ UNCHANGED <<amqp_file, pc>>
        \/ \E pending \in {pending_tests, fetch_swift_results(k[2]).pending} :
             request_test_if_not_queued(k[1], k[2], pending)
    BY <1>2 DEF pkg_test_request
  <2> HIDE DEF k
  <2>6. /\ pending_tests' \in SUBSET Tests /\ amqp_file' \in SUBSET RequestType
        /\ pc' \in {"ask", "NameError"} /\ (config.amqp => amqp_file' = {})
    <3>1. fetch_swift_results(k[2]).pending \in SUBSET Tests
      BY FetchedPending
    <3>2. pending_tests \in SUBSET Tests
      BY DEF TypeOK
    <3>3. CASE UNCHANGED <<pending_tests, amqp_file, pc>>
      BY <2>3, <3>3 DEF TypeOK
    <3>4. CASE pending_tests' = fetch_swift_results(k[2]).pending /\ UNCHANGED <<amqp_file, pc>>
      BY <2>3, <3>1, <3>4 DEF TypeOK
    <3>5. ASSUME NEW pending \in SUBSET Tests, request_test_if_not_queued(k[1], k[2], pending)
          PROVE  /\ pending_tests' \in SUBSET Tests /\ amqp_file' \in SUBSET RequestType
                 /\ pc' \in {"ask", "NameError"} /\ (config.amqp => amqp_file' = {})
      <4> DEFINE t == k[1]
                 p == k[2]
      <4>1. t \in Triggers \cup {REF_TRIG} /\ p \in Packages /\ request_test_if_not_queued(t, p, pending)
        BY <2>2, <3>5
      <4> HIDE DEF t, p
      <4> QED  BY <2>3, <4>1, RequestStep
    <3> QED  BY <2>5, <3>1, <3>2, <3>3, <3>4, <3>5
  <2> QED
    BY <2>3, <2>4, <2>6 DEF TypeOK, suites, disk, service
<1>3. ASSUME EndInError PROVE TypeOK'
  BY <1>0, <1>3, ForgetTypes DEF EndInError, TypeOK, suites, disk, service
<1>4. ASSUME pkg_test_result PROVE TypeOK'
  <2>1. /\ current # <<>> /\ current' = <<>> /\ pc = "ask"
        /\ UNCHANGED <<suites, disk, service, test_results, fetched, todo, started>>
    BY <1>4 DEF pkg_test_result
  <2>2. current[2] \in Packages
    BY <2>1 DEF TypeOK, Tests
  <2>3. \/ UNCHANGED <<pending_tests, amqp_file, pc>>
        \/ request_test_if_not_queued(REF_TRIG, current[2], pending_tests)
    BY <1>4 DEF pkg_test_result
  <2>4. /\ pending_tests' \in SUBSET Tests /\ amqp_file' \in SUBSET RequestType
        /\ pc' \in {"ask", "NameError"} /\ (config.amqp => amqp_file' = {})
    <3>1. pending_tests \in SUBSET Tests
      BY DEF TypeOK
    <3>2. CASE UNCHANGED <<pending_tests, amqp_file, pc>>
      BY <2>1, <3>2 DEF TypeOK
    <3>3. CASE request_test_if_not_queued(REF_TRIG, current[2], pending_tests)
      <4> DEFINE p == current[2]
      <4>1. p \in Packages /\ request_test_if_not_queued(REF_TRIG, p, pending_tests)
        BY <2>2, <3>3
      <4>2. REF_TRIG \in Triggers \cup {REF_TRIG}
        OBVIOUS
      <4> HIDE DEF p
      <4> QED  BY <2>1, <3>1, <4>1, <4>2, RequestStep
    <3> QED  BY <2>3, <3>2, <3>3
  <2> QED
    BY <2>1, <2>4 DEF TypeOK, suites, disk, service
<1>5. ASSUME NEW chosen, Migrate(chosen) PROVE TypeOK'
  <2>1. target' \in [Packages -> 0..MaxVersion]
    BY <1>5, AutopkgtestAssumption DEF Migrate, TypeOK
  <2> QED
    BY <1>5, <2>1 DEF Migrate, TypeOK, disk, service, memory
<1>6. ASSUME SaveResults PROVE TypeOK'
  BY <1>6 DEF SaveResults, TypeOK, suites, service, memory
<1>7. ASSUME save_pending_json PROVE TypeOK'
  BY <1>0, <1>7, ForgetTypes DEF save_pending_json, TypeOK, suites, service
<1>8. ASSUME PostAll PROVE TypeOK'
  BY <1>8, PostStep DEF PostAll, Post, TypeOK, suites, memory
<1> QED
  BY <1>1, <1>2, <1>3, <1>4, <1>5, <1>6, <1>7, <1>8 DEF Run

LEMMA StepTypes ==
  ASSUME TypeOK, IsFiniteSet(amqp_file), [Next]_vars
  PROVE  TypeOK'
<1>0. /\ config \in Configs /\ now \in Nat /\ config.max_time \in Nat /\ now \in 0..config.max_time
      /\ jobs \in Seq(JobType)
  BY AutopkgtestAssumption DEF TypeOK
<1>1. CASE Run
  BY <1>1, RunTypes
<1>2. CASE Service
  <2>1. PICK i \in DOMAIN jobs :
          \/ \E o \in Outcomes, v \in 1..MaxVersion : EndJob(i, o, v)
          \/ PublishResult(i)
    BY <1>2 DEF Service
  <2>2. UNCHANGED <<suites, disk, memory, amqp_file, pc>>
    BY <2>1 DEF EndJob, PublishResult
  <2>3. /\ jobs' \in Seq(JobType) /\ now' \in 0..config.max_time /\ now <= now'
        /\ faults' \in 0..MaxFaults
    BY <2>1, ServiceStep
  <2>4. started' \in 0..now'
    BY <1>0, <2>2, <2>3 DEF memory, TypeOK
  <2> QED
    BY <2>2, <2>3, <2>4 DEF TypeOK, suites, disk, memory
<1>3. CASE Tick
  <2>1. now' \in 0..config.max_time /\ started' \in 0..now'
    BY <1>0, <1>3 DEF Tick, memory, TypeOK
  <2> QED
    BY <1>3, <2>1 DEF Tick, TypeOK, suites, disk, memory
<1>4. CASE Crash
  <2>1. faults' \in 0..MaxFaults /\ lost' \subseteq Tests
    BY <1>4, AutopkgtestAssumption DEF Crash, TypeOK
  <2> QED
    BY <1>0, <1>4, <2>1, ForgetTypes DEF Crash, TypeOK, suites
<1>5. ASSUME NEW p \in Packages, Upload(p) PROVE TypeOK'
  <2>1. source' \in [Packages -> 1..MaxVersion]
    BY <1>5, AutopkgtestAssumption DEF Upload, TypeOK
  <2> QED
    BY <1>5, <2>1 DEF Upload, TypeOK, disk, service, memory
<1>6. ASSUME NEW accepted \in SUBSET amqp_file, PostFails(accepted) PROVE TypeOK'
  <2>1. faults' \in 0..MaxFaults /\ lost' \subseteq Tests
    BY <1>6, AutopkgtestAssumption, TestTypes DEF PostFails, TypeOK
  <2> QED
    BY <1>6, <2>1, PostStep DEF PostFails, Post, TypeOK, suites, memory
<1>7. CASE UNCHANGED vars
  BY <1>7 DEF vars, suites, disk, service, memory, TypeOK
<1> QED
  BY <1>1, <1>2, <1>3, <1>4, <1>5, <1>6, <1>7 DEF Next, AtBound

(***************************************************************************)
(* Types hold for ever because there are finitely many new requests, which *)
(* the invariant of the next theorem says too.  With debci, no two         *)
(* requests for one test are under way because a run knows the test of     *)
(* every queued job, and of every request in its file, as pending.         *)
(***************************************************************************)

Waiting(i) == jobs[i].status = "queued"

\* While a run goes on, and until its file is posted.
Asking == pc \in {"ask", "save", "save_pending"}

FileOK ==
  /\ IsFiniteSet(amqp_file)
  /\ \A r \in amqp_file : r.trigger \in r.triggers
  /\ ~IsSwift /\ pc # "idle" =>
       /\ \A r, q \in amqp_file : TestOf(r) = TestOf(q) => r = q
       /\ \A r \in amqp_file, i \in DOMAIN jobs : Waiting(i) => TestOf(jobs[i].request) # TestOf(r)
  /\ ~IsSwift /\ Asking => \A r \in amqp_file : TestOf(r) \in pending_tests

JobsOK ==
  /\ \A i \in DOMAIN jobs : jobs[i].request.trigger \in jobs[i].request.triggers
  /\ ~IsSwift => \A i, k \in DOMAIN jobs :
       Waiting(i) /\ Waiting(k) /\ TestOf(jobs[i].request) = TestOf(jobs[k].request) => i = k
  /\ ~IsSwift /\ Asking =>
       \A i \in DOMAIN jobs : Waiting(i) => TestOf(jobs[i].request) \in pending_tests

AskedOK == FileOK /\ JobsOK

LEMMA NothingAsked ==
  ASSUME AskedOK, UNCHANGED <<config, jobs, amqp_file>>,
         pc = "idle" => pc' = "idle",
         Asking' => Asking /\ (~IsSwift => pending_tests \subseteq pending_tests')
  PROVE  AskedOK'
BY DEF AskedOK, FileOK, JobsOK, Asking, Waiting, IsSwift

LEMMA ServiceAsked ==
  ASSUME AskedOK, UNCHANGED <<config, amqp_file, pc>>, pc = "idle", DOMAIN jobs' = DOMAIN jobs,
         \A k \in DOMAIN jobs : /\ jobs'[k].request = jobs[k].request
                                /\ jobs'[k].status = "queued" => jobs[k].status = "queued"
  PROVE  AskedOK'
BY DEF AskedOK, FileOK, JobsOK, Asking, Waiting, IsSwift

LEMMA InitialiseAsked ==
  ASSUME TypeOK, AskedOK, NEW order, initialise(order)
  PROVE  AskedOK'
<1>1. UNCHANGED <<config, jobs>> /\ pc' = "ask" /\ amqp_file' = {}
  BY DEF initialise, suites, service
<1>2. IsFiniteSet({})
  BY FS_EmptySet
<1>3. ASSUME NEW i \in DOMAIN jobs, Waiting(i), ~IsSwift
      PROVE  TestOf(jobs[i].request) \in pending_tests'
  <2>1. TestOf(jobs[i].request) \in Covers(jobs[i])
    BY DEF AskedOK, JobsOK, TestOf, Covers
  <2>2. InWindow(i) /\ IsRunning(i)
    BY <1>3 DEF Waiting, InWindow, IsRunning
  <2>3. pending_tests' =
          UNION {Covers(jobs[k]) : k \in {k \in {k \in DOMAIN jobs : InWindow(k)} : IsRunning(k)}}
    BY <1>3 DEF initialise
  <2> QED  BY <2>1, <2>2, <2>3
<1>4. FileOK'
  BY <1>1, <1>2 DEF FileOK
<1>5. JobsOK'
  BY <1>1, <1>3 DEF AskedOK, JobsOK, Waiting, IsSwift
<1> QED  BY <1>4, <1>5 DEF AskedOK

LEMMA RequestAsked ==
  ASSUME TypeOK, AskedOK, pc = "ask", UNCHANGED <<config, jobs>>,
         NEW t \in Triggers \cup {REF_TRIG}, NEW p \in Packages, NEW pending,
         ~IsSwift => pending = pending_tests,
         request_test_if_not_queued(t, p, pending)
  PROVE  AskedOK'
<1> DEFINE r == Request(t, p)
<1>1. r.trigger = t /\ r.src = p /\ t \in r.triggers
  BY RequestTypes
<1>2. ~IsSwift => pending_tests \subseteq pending_tests'
  BY DEF request_test_if_not_queued
<1>3. CASE UNCHANGED amqp_file /\ pc' \in {"ask", "NameError"}
  BY <1>2, <1>3, NothingAsked DEF Asking
<1>4. CASE <<t, p>> \notin pending /\ ~config.amqp
  <2>1. /\ amqp_file' = amqp_file \cup {r} /\ pc' = "ask"
        /\ ~IsSwift => /\ pending_tests' = pending_tests \cup {TestOf(r)}
                       /\ TestOf(r) \notin pending_tests
    BY <1>1, <1>4 DEF request_test_if_not_queued, send_test_request, TestOf
  <2> HIDE DEF r
  <2>2. IsFiniteSet(amqp_file') /\ Asking /\ Asking'
    BY <2>1, FS_AddElement DEF AskedOK, FileOK, Asking
  <2>3. FileOK'
    BY <1>1, <2>1, <2>2 DEF AskedOK, FileOK, JobsOK, IsSwift, Waiting
  <2>4. JobsOK'
    BY <1>2, <2>1, <2>2 DEF AskedOK, JobsOK, IsSwift, Waiting
  <2> QED  BY <2>3, <2>4 DEF AskedOK
<1> QED  BY <1>3, <1>4 DEF request_test_if_not_queued, send_test_request

LEMMA PostAsked ==
  ASSUME TypeOK, AskedOK, pc = "put", NEW accepted \in SUBSET amqp_file, Post(accepted),
         UNCHANGED config, amqp_file' \subseteq amqp_file
  PROVE  AskedOK'
<1> DEFINE queue == SetToSeq({Queued(r) : r \in accepted})
<1>1. accepted \in SUBSET RequestType /\ IsFiniteSet(accepted)
  BY FS_Subset DEF TypeOK, AskedOK, FileOK
<1>2. /\ queue \in Seq(JobType)
      /\ \A i \in 1..Len(queue) : \E r \in accepted : queue[i] = Queued(r)
      /\ \A i, k \in 1..Len(queue) : queue[i] = queue[k] => i = k
  BY <1>1, QueuedOnce
<1>3. jobs' = jobs \o queue /\ pc' = "idle"
  BY DEF Post
<1>4. jobs \in Seq(JobType) /\ Len(jobs) \in Nat
  BY DEF TypeOK
<1> HIDE DEF queue
<1> DEFINE n == Len(jobs)
<1>5. /\ DOMAIN jobs = 1..n /\ DOMAIN jobs' = 1..(n + Len(queue)) /\ Len(queue) \in Nat
      /\ \A i \in DOMAIN jobs' : IF i <= n THEN jobs'[i] = jobs[i]
                                 ELSE i - n \in 1..Len(queue) /\ jobs'[i] = queue[i - n]
  BY <1>2, <1>3, <1>4
<1>6. \A i \in DOMAIN jobs' : i > n => \E r \in accepted : jobs'[i] = Queued(r)
  BY <1>2, <1>4, <1>5
<1>7. \A r \in accepted : Queued(r).request = r
  BY DEF Queued
<1>8. ASSUME NEW i \in DOMAIN jobs', NEW k \in DOMAIN jobs', ~IsSwift, Waiting(i)', Waiting(k)',
             TestOf(jobs'[i].request) = TestOf(jobs'[k].request)
      PROVE  i = k
  <2>1. \A r, q \in accepted : TestOf(r) = TestOf(q) => r = q
    BY <1>8 DEF AskedOK, FileOK
  <2>2. \A r \in accepted, j \in DOMAIN jobs : Waiting(j) => TestOf(jobs[j].request) # TestOf(r)
    BY <1>8 DEF AskedOK, FileOK
  <2>3. CASE i <= n /\ k <= n
    <3>1. i \in DOMAIN jobs /\ k \in DOMAIN jobs /\ jobs'[i] = jobs[i] /\ jobs'[k] = jobs[k]
      BY <1>4, <1>5, <2>3
    <3> QED  BY <1>8, <3>1 DEF AskedOK, JobsOK, Waiting
  <2>4. CASE i <= n /\ k > n
    <3>1. i \in DOMAIN jobs /\ jobs'[i] = jobs[i]
      BY <1>4, <1>5, <2>4
    <3>2. PICK r \in accepted : jobs'[k] = Queued(r)
      BY <1>6, <2>4
    <3> QED  BY <1>7, <1>8, <2>2, <3>1, <3>2 DEF Waiting
  <2>5. CASE i > n /\ k <= n
    <3>1. k \in DOMAIN jobs /\ jobs'[k] = jobs[k]
      BY <1>4, <1>5, <2>5
    <3>2. PICK r \in accepted : jobs'[i] = Queued(r)
      BY <1>6, <2>5
    <3> QED  BY <1>7, <1>8, <2>2, <3>1, <3>2 DEF Waiting
  <2>6. CASE i > n /\ k > n
    <3>1. PICK r \in accepted : jobs'[i] = Queued(r)
      BY <1>6, <2>6
    <3>2. PICK q \in accepted : jobs'[k] = Queued(q)
      BY <1>6, <2>6
    <3>3. jobs'[i] = jobs'[k]
      BY <1>7, <1>8, <2>1, <3>1, <3>2
    <3>4. /\ i - n \in 1..Len(queue) /\ jobs'[i] = queue[i - n]
          /\ k - n \in 1..Len(queue) /\ jobs'[k] = queue[k - n]
      BY <1>4, <1>5, <2>6
    <3>5. i - n = k - n
      BY <1>2, <3>3, <3>4
    <3> QED  BY <1>4, <1>5, <3>5
  <2> QED  BY <1>4, <1>5, <2>3, <2>4, <2>5, <2>6
<1>9. \A i \in DOMAIN jobs' : jobs'[i].request.trigger \in jobs'[i].request.triggers
  <2> TAKE i \in DOMAIN jobs'
  <2>1. CASE i <= n
    <3>1. i \in DOMAIN jobs /\ jobs'[i] = jobs[i]
      BY <1>4, <1>5, <2>1
    <3> QED  BY <3>1 DEF AskedOK, JobsOK
  <2>2. CASE i > n
    <3>1. PICK r \in accepted : jobs'[i] = Queued(r)
      BY <1>6, <2>2
    <3> QED  BY <1>7, <3>1 DEF AskedOK, FileOK
  <2> QED  BY <1>4, <1>5, <2>1, <2>2
<1>10. JobsOK'
  BY <1>3, <1>8, <1>9 DEF JobsOK, Asking, IsSwift
<1>11. FileOK'
  <2>1. IsFiniteSet(amqp_file')
    BY FS_Subset DEF AskedOK, FileOK
  <2> QED  BY <1>3, <2>1 DEF AskedOK, FileOK, Asking
<1> QED  BY <1>10, <1>11 DEF AskedOK

LEMMA RunAsked ==
  ASSUME TypeOK, AskedOK, Run
  PROVE  AskedOK'
<1>1. ASSUME NEW order, initialise(order) PROVE AskedOK'
  BY <1>1, InitialiseAsked
<1>2. ASSUME todo # {}, pkg_test_request(NextTest) PROVE AskedOK'
  <2> DEFINE t == NextTest[1]
             p == NextTest[2]
  <2>1. NextTest \in Tests
    BY <1>2 DEF NextTest, TypeOK
  <2>2. t \in Triggers \cup {REF_TRIG} /\ p \in Packages
    BY <2>1 DEF Tests
  <2>3. pc = "ask" /\ UNCHANGED <<config, jobs>>
    BY <1>2 DEF pkg_test_request, suites, service
  <2>4. \/ UNCHANGED <<pending_tests, amqp_file, pc>>
        \/ IsSwift /\ UNCHANGED <<amqp_file, pc>>
        \/ \E pending : /\ ~IsSwift => pending = pending_tests
                        /\ request_test_if_not_queued(t, p, pending)
    BY <1>2 DEF pkg_test_request
  <2> HIDE DEF t, p
  <2>5. CASE UNCHANGED <<pending_tests, amqp_file, pc>>
    BY <2>3, <2>5, NothingAsked DEF Asking
  <2>6. CASE IsSwift /\ UNCHANGED <<amqp_file, pc>>
    BY <2>3, <2>6, NothingAsked DEF Asking
  <2>7. CASE \E pending : /\ ~IsSwift => pending = pending_tests
                          /\ request_test_if_not_queued(t, p, pending)
    BY <2>2, <2>3, <2>7, RequestAsked
  <2> QED  BY <2>4, <2>5, <2>6, <2>7
<1>3. ASSUME EndInError PROVE AskedOK'
  BY <1>3, NothingAsked DEF EndInError, suites, service, Asking
<1>4. ASSUME pkg_test_result PROVE AskedOK'
  <2> DEFINE p == current[2]
  <2>1. /\ current # <<>> /\ pc = "ask" /\ UNCHANGED <<config, jobs>>
    BY <1>4 DEF pkg_test_result, suites, service
  <2>2. p \in Packages
    BY <2>1 DEF TypeOK, Tests
  <2>3. \/ UNCHANGED <<pending_tests, amqp_file, pc>>
        \/ request_test_if_not_queued(REF_TRIG, p, pending_tests)
    BY <1>4 DEF pkg_test_result
  <2> HIDE DEF p
  <2>4. CASE UNCHANGED <<pending_tests, amqp_file, pc>>
    BY <2>1, <2>4, NothingAsked DEF Asking
  <2>5. CASE request_test_if_not_queued(REF_TRIG, p, pending_tests)
    <3>1. REF_TRIG \in Triggers \cup {REF_TRIG}
      OBVIOUS
    <3> QED  BY <2>1, <2>2, <2>5, <3>1, RequestAsked
  <2> QED  BY <2>3, <2>4, <2>5
<1>5. ASSUME NEW chosen, Migrate(chosen) PROVE AskedOK'
  BY <1>5, NothingAsked DEF Migrate, service, memory, Asking
<1>6. ASSUME SaveResults PROVE AskedOK'
  BY <1>6, NothingAsked DEF SaveResults, suites, service, memory, Asking
<1>7. ASSUME save_pending_json PROVE AskedOK'
  BY <1>7, NothingAsked DEF save_pending_json, suites, service, Asking
<1>8. ASSUME PostAll PROVE AskedOK'
  BY <1>8, PostAsked DEF PostAll, Post, suites
<1> QED
  BY <1>1, <1>2, <1>3, <1>4, <1>5, <1>6, <1>7, <1>8 DEF Run

LEMMA StepAsked ==
  ASSUME TypeOK, AskedOK, [Next]_vars
  PROVE  AskedOK'
<1>1. CASE Run
  BY <1>1, RunAsked
<1>2. CASE Service
  <2>1. PICK i \in DOMAIN jobs :
          \/ \E o \in Outcomes, v \in 1..MaxVersion : EndJob(i, o, v)
          \/ PublishResult(i)
    BY <1>2 DEF Service
  <2>2. UNCHANGED <<config, amqp_file, pc>> /\ pc = "idle"
    BY <2>1 DEF EndJob, PublishResult, suites
  <2> QED  BY <2>1, <2>2, ServiceStep, ServiceAsked
<1>3. CASE Tick
  BY <1>3, NothingAsked DEF Tick, suites, memory, Asking
<1>4. CASE Crash
  BY <1>4, NothingAsked DEF Crash, suites, Asking
<1>5. ASSUME NEW p \in Packages, Upload(p) PROVE AskedOK'
  BY <1>5, NothingAsked DEF Upload, service, memory, Asking
<1>6. ASSUME NEW accepted \in SUBSET amqp_file, PostFails(accepted) PROVE AskedOK'
  BY <1>6, PostAsked DEF PostFails, Post, suites
<1>7. CASE UNCHANGED vars
  BY <1>7, NothingAsked DEF vars, suites, service, memory, Asking
<1> QED
  BY <1>1, <1>2, <1>3, <1>4, <1>5, <1>6, <1>7 DEF Next, AtBound

LEMMA Invariant == Spec => [](TypeOK /\ AskedOK)
<1>1. Init => TypeOK /\ AskedOK
  <2> SUFFICES ASSUME Init PROVE TypeOK /\ AskedOK
    OBVIOUS
  <2>1. <<>> \in Seq(JobType) /\ IsFiniteSet({})
    BY FS_EmptySet
  <2>2. /\ 0 \in 0..config.max_time /\ 0 \in 0..0 /\ 0 \in 0..MaxFaults /\ 1 \in 1..MaxVersion
        /\ 0 \in 0..MaxVersion /\ 1 \in 0..MaxVersion
    BY AutopkgtestAssumption DEF Init
  <2>3. source \in [Packages -> 1..MaxVersion] /\ target \in [Packages -> 0..MaxVersion]
    BY <2>2 DEF Init
  <2>4. TypeOK
    BY <2>1, <2>2, <2>3 DEF Init, TypeOK
  <2>5. jobs = <<>> /\ DOMAIN jobs = {} /\ amqp_file = {} /\ pc = "idle"
    BY DEF Init
  <2>6. AskedOK
    BY <2>1, <2>5 DEF AskedOK, FileOK, JobsOK, Asking
  <2> QED  BY <2>4, <2>6
<1>2. TypeOK /\ AskedOK /\ [Next]_vars => (TypeOK /\ AskedOK)'
  BY StepTypes, StepAsked DEF AskedOK, FileOK
<1> QED  BY <1>1, <1>2, PTL DEF Spec

\* Suites, jobs, requests, pending tests and the step of the run keep their
\* types; with AMQP no request gets as far as the file (send_test_request).
THEOREM TypeCorrect == Spec => []TypeOK
BY Invariant, PTL

\* With debci no two jobs for one test wait at the same time, however often
\* posts fail half-way, runs crash and results come (request_test_if_not_queued,
\* the pending tests read from debci's file, and debci-put.py).
THEOREM NeverAskedTwice == Spec => []NotAskedTwice
<1>1. AskedOK => NotAskedTwice
  BY DEF AskedOK, JobsOK, Waiting, TestOf, NotAskedTwice
<1> QED  BY <1>1, Invariant, PTL

(***************************************************************************)
(* Reading results.  Whatever the order of the jobs in the file, a fold    *)
(* keeps or stores for a test the best of what was there and of the jobs   *)
(* that cover it.                                                          *)
(***************************************************************************)

StoredResult == [state : Statuses, version : 0..MaxVersion, seen : Nat]
Results(r) == r \in [DOMAIN r -> StoredResult] /\ DOMAIN r \subseteq Tests

\* Jobs that ended have tested something, one after the other; only jobs that
\* ended have visible results.
JobsDated ==
  /\ \A i \in Ended : jobs[i].version \in 1..MaxVersion /\ jobs[i].seen \in 1..now
  /\ \A i, k \in Ended : jobs[i].seen = jobs[k].seen => i = k
  /\ \A i \in DOMAIN jobs : jobs[i].visible => i \in Ended

\* The result of a job for a test, and a stored one that is as good.
ResultOf(j) == [state |-> j.status, version |-> j.version, seen |-> j.seen]
HasResult(j, k) ==
  j.status \notin {"queued", "broken"} /\ k \in Covers(j) /\ NewEnough(k, j)
Beats(r, k, j) ==
  IF IsReference /\ k[1] = REF_TRIG THEN r.seen >= j.seen
  ELSE \/ Result[r.state] < Result[j.status]
       \/ r.state = j.status /\ r.seen >= j.seen

LEMMA EndedTypes ==
  ASSUME TypeOK, JobsDated, NEW i \in Ended
  PROVE  /\ i \in DOMAIN jobs /\ jobs[i] \in JobType /\ jobs[i].status \in JobResults \cup {"broken"}
         /\ jobs[i].version \in 1..MaxVersion /\ jobs[i].seen \in Nat /\ jobs[i].seen >= 1
         /\ jobs[i].seen <= now
<1>1. i \in DOMAIN jobs /\ jobs[i].status # "queued"
  BY DEF Ended
<1>2. jobs[i] \in JobType
  BY <1>1 DEF TypeOK
<1>3. jobs[i].version \in 1..MaxVersion /\ jobs[i].seen \in 1..now /\ now \in Nat
  BY DEF JobsDated, TypeOK
<1>4. jobs[i].status \in JobResults \cup {"broken"}
  BY <1>1, <1>2 DEF JobType
<1> QED  BY <1>1, <1>2, <1>3, <1>4

\* Result is injective, an enumeration.
LEMMA ResultOrder ==
  /\ \A s \in Statuses : Result[s] \in Nat
  /\ \A s, t \in Statuses : Result[s] = Result[t] => s = t
  /\ \A s \in JobResults : Result[s] <= Result["FAIL"]
  /\ \A s \in JobResults, t \in Statuses \ JobResults : Result[s] < Result[t]
<1>1. /\ Result["PASS"] = 1 /\ Result["NEUTRAL"] = 2 /\ Result["FAIL"] = 3
      /\ Result["OLD_PASS"] = 4 /\ Result["OLD_NEUTRAL"] = 5 /\ Result["OLD_FAIL"] = 6
  BY DEF Result, Statuses, JobResults
<1> QED  BY <1>1 DEF Statuses, JobResults

\* One job.
LEMMA OneJob ==
  ASSUME NEW j \in JobType, j.status \in JobResults, j.seen >= 1,
         NEW results, Results(results)
  PROVE  LET next == add_trigger_to_results(results, j)
         IN  /\ Results(next)
             /\ DOMAIN results \subseteq DOMAIN next
             /\ \A k \in DOMAIN next : \/ k \in DOMAIN results /\ next[k] = results[k]
                                       \/ HasResult(j, k) /\ next[k] = ResultOf(j)
             /\ \A k : HasResult(j, k) => k \in DOMAIN next /\ Beats(next[k], k, j)
             /\ \A k \in DOMAIN results : \A q \in JobType :
                  q.status \in JobResults /\ Beats(results[k], k, q) => Beats(next[k], k, q)
<1> DEFINE news == {k \in Covers(j) : NewEnough(k, j)}
           old(k) == IF k \in DOMAIN results THEN results[k]
                     ELSE [state |-> "FAIL", version |-> 0, seen |-> 0]
           next == add_trigger_to_results(results, j)
<1>1. /\ j \in JobType /\ j.status \in JobResults /\ j.version \in 0..MaxVersion
      /\ j.seen \in Nat /\ j.seen >= 1
  BY DEF JobType
<1>2. /\ DOMAIN next = DOMAIN results \cup news
      /\ next = [k \in DOMAIN results \cup news |->
                   IF k \in news /\ IsUpdate(k, old(k), j.status, j.seen) THEN ResultOf(j) ELSE old(k)]
  BY DEF add_trigger_to_results, ResultOf
<1>3. news \subseteq Tests /\ \A k : HasResult(j, k) <=> k \in news
  BY <1>1, CoversTypes DEF HasResult, JobResults
<1>4. ResultOf(j) \in StoredResult
  BY <1>1 DEF ResultOf, StoredResult, Statuses
<1>5. \A k : old(k) \in StoredResult
  BY AutopkgtestAssumption DEF Results, StoredResult, Statuses, JobResults
<1> HIDE DEF next
<1>6. \A k \in DOMAIN results \cup news :
        next[k] = IF k \in news /\ IsUpdate(k, old(k), j.status, j.seen) THEN ResultOf(j) ELSE old(k)
  BY <1>2
<1>7. next \in [DOMAIN next -> StoredResult]
  <2>1. next = [k \in DOMAIN next |-> next[k]]
    BY <1>2
  <2>2. \A k \in DOMAIN next : next[k] \in StoredResult
    BY <1>2, <1>4, <1>5, <1>6
  <2> QED  BY <2>1, <2>2
<1>8. Results(next) /\ DOMAIN results \subseteq DOMAIN next
  BY <1>2, <1>3, <1>7 DEF Results
<1>9. ASSUME NEW k \in news, k \notin DOMAIN results
      PROVE  IsUpdate(k, old(k), j.status, j.seen)
  <2>1. old(k) = [state |-> "FAIL", version |-> 0, seen |-> 0]
    BY <1>9
  <2>2. Result[j.status] < Result["FAIL"] \/ j.status = "FAIL"
    BY <1>1, ResultOrder DEF Statuses, JobResults
  <2> QED  BY <1>1, <2>1, <2>2 DEF IsUpdate
<1>10. \A k \in DOMAIN next : \/ k \in DOMAIN results /\ next[k] = results[k]
                              \/ HasResult(j, k) /\ next[k] = ResultOf(j)
  <2> TAKE k \in DOMAIN next
  <2>1. CASE k \in news /\ IsUpdate(k, old(k), j.status, j.seen)
    BY <1>2, <1>3, <1>6, <2>1
  <2>2. CASE ~(k \in news /\ IsUpdate(k, old(k), j.status, j.seen))
    BY <1>2, <1>6, <1>9, <2>2
  <2> QED  BY <2>1, <2>2
<1>11. ASSUME NEW k \in news
       PROVE  k \in DOMAIN next /\ Beats(next[k], k, j)
  <2>1. k \in DOMAIN next
    BY <1>2
  <2>2. CASE IsUpdate(k, old(k), j.status, j.seen)
    <3>1. next[k].state = j.status /\ next[k].seen = j.seen
      BY <1>6, <2>2 DEF ResultOf
    <3> QED  BY <1>1, <2>1, <3>1 DEF Beats
  <2>3. CASE ~IsUpdate(k, old(k), j.status, j.seen)
    <3>1. next[k] = old(k) /\ old(k) \in StoredResult
      BY <1>5, <1>6, <2>3
    <3> DEFINE r == old(k)
    <3>2. r.state \in Statuses /\ r.seen \in Nat /\ j.status \in Statuses
      BY <1>1, <3>1 DEF StoredResult, Statuses
    <3> HIDE DEF old
    <3>3. Result[r.state] \in Nat /\ Result[j.status] \in Nat
          /\ (Result[r.state] = Result[j.status] => r.state = j.status)
      BY <3>2, ResultOrder
    <3> QED  BY <1>1, <2>1, <2>3, <3>1, <3>2, <3>3 DEF Beats, IsUpdate
  <2> QED  BY <2>2, <2>3
<1>12. ASSUME NEW k \in DOMAIN results, NEW q \in JobType, q.status \in JobResults,
              Beats(results[k], k, q)
       PROVE  Beats(next[k], k, q)
  <2>1. CASE next[k] = results[k]
    BY <1>12, <2>1
  <2>2. CASE next[k] # results[k]
    <3> DEFINE r == results[k]
    <3>1. old(k) = r
      OBVIOUS
    <3>2. IsUpdate(k, r, j.status, j.seen) /\ next[k].state = j.status /\ next[k].seen = j.seen
      BY <1>6, <2>2, <3>1 DEF ResultOf
    <3>3. r.state \in Statuses /\ r.seen \in Nat /\ j.status \in Statuses /\ q.status \in Statuses
          /\ q.seen \in Nat
      BY <1>1, <1>12 DEF StoredResult, Statuses, Results, JobType
    <3>4. Result[r.state] \in Nat /\ Result[j.status] \in Nat /\ Result[q.status] \in Nat
      BY <3>3, ResultOrder
    <3> HIDE DEF r
    <3>5. Beats(r, k, q)
      BY <1>12 DEF r
    <3> QED  BY <1>1, <3>2, <3>3, <3>4, <3>5 DEF Beats, IsUpdate
  <2> QED  BY <2>1, <2>2
<1> QED  BY <1>3, <1>8, <1>10, <1>11, <1>12 DEF next

\* The fold of add_trigger_to_results, step by step.
LEMMA FoldSteps ==
  ASSUME NEW results, NEW order, Len(order) \in Nat
  PROVE  \E added :
           /\ added[0] = results /\ AddResults(results, order) = added[Len(order)]
           /\ \A n \in 1..Len(order) :
                added[n] = IF jobs[order[n]].status = "broken" THEN added[n - 1]
                           ELSE add_trigger_to_results(added[n - 1], jobs[order[n]])
<1> DEFINE N == Len(order)
           Step(n, g) == IF n = 0 THEN results
                         ELSE IF jobs[order[n]].status = "broken" THEN g[n - 1]
                         ELSE add_trigger_to_results(g[n - 1], jobs[order[n]])
           IsFold(m, g) == g = [n \in 0..m |-> Step(n, g)]
           T == {m \in Nat : \E g : IsFold(m, g)}
<1>1. 0 \in T
  <2>1. IsFold(0, [n \in 0..0 |-> results])
    OBVIOUS
  <2> QED  BY <2>1
<1>2. ASSUME NEW m \in Nat, m \in T PROVE m + 1 \in T
  <2>1. PICK g : IsFold(m, g)
    BY <1>2
  <2> DEFINE last == IF jobs[order[m + 1]].status = "broken" THEN g[m]
                     ELSE add_trigger_to_results(g[m], jobs[order[m + 1]])
             h == [n \in 0..m + 1 |-> IF n <= m THEN g[n] ELSE last]
  <2>2. \A n \in 0..m + 1 : h[n] = IF n <= m THEN g[n] ELSE last
    OBVIOUS
  <2>3. \A n \in 0..m : g[n] = Step(n, g)
    BY <2>1
  <2>4. ASSUME NEW n \in 0..m + 1 PROVE h[n] = Step(n, h)
    <3>1. CASE n = 0
      BY <2>2, <2>3, <3>1
    <3>2. CASE n \in 1..m
      <4>1. h[n] = g[n] /\ h[n - 1] = g[n - 1] /\ n \in 0..m
        BY <2>2, <3>2
      <4> QED  BY <2>3, <3>2, <4>1
    <3>3. CASE n = m + 1
      <4>1. h[n] = last /\ h[n - 1] = g[m]
        BY <2>2, <3>3
      <4> QED  BY <3>3, <4>1
    <3> QED  BY <3>1, <3>2, <3>3
  <2>5. IsFold(m + 1, h)
    <3>1. h = [n \in 0..m + 1 |-> h[n]]
      OBVIOUS
    <3> HIDE DEF h
    <3> QED  BY <2>4, <3>1
  <2>6. \E f : IsFold(m + 1, f)
    <3> HIDE DEF h, IsFold
    <3> QED  BY <2>5
  <2> QED  BY <2>6
<1>3. PICK f : IsFold(N, f)
  <2>1. N \in T
    <3> HIDE DEF T
    <3> QED  BY <1>1, <1>2, NaturalNumbers
  <2> QED  BY <2>1
<1> DEFINE added == CHOOSE g : IsFold(N, g)
<1>4. IsFold(N, added)
  BY <1>3
<1>5. AddResults(results, order) = added[N]
  BY DEF AddResults
<1> HIDE DEF added
<1>6. /\ added[0] = results
      /\ \A n \in 1..N : added[n] = IF jobs[order[n]].status = "broken" THEN added[n - 1]
                                    ELSE add_trigger_to_results(added[n - 1], jobs[order[n]])
  BY <1>4
<1> QED  BY <1>5, <1>6
\* Jobs in any order, on top of what was known.
LEMMA ReadingKeepsTheBest ==
  ASSUME TypeOK, JobsDated, NEW results, Results(results),
         NEW N \in Nat, NEW order \in [1..N -> Ended]
  PROVE  LET after == AddResults(results, order)
         IN  /\ Results(after)
             /\ DOMAIN results \subseteq DOMAIN after
             /\ \A k \in DOMAIN after :
                  \/ k \in DOMAIN results /\ after[k] = results[k]
                  \/ \E n \in 1..N : HasResult(jobs[order[n]], k) /\ after[k] = ResultOf(jobs[order[n]])
             /\ \A n \in 1..N : \A k : HasResult(jobs[order[n]], k) =>
                  k \in DOMAIN after /\ Beats(after[k], k, jobs[order[n]])
<1>1. Len(order) = N /\ \A n \in 1..N : order[n] \in Ended
  OBVIOUS
<1>2. PICK added :
        /\ added[0] = results /\ AddResults(results, order) = added[N]
        /\ \A n \in 1..N :
             added[n] = IF jobs[order[n]].status = "broken" THEN added[n - 1]
                        ELSE add_trigger_to_results(added[n - 1], jobs[order[n]])
  BY <1>1, FoldSteps
<1> DEFINE From(n, k) == \/ k \in DOMAIN results /\ added[n][k] = results[k]
                         \/ \E m \in 1..n : /\ HasResult(jobs[order[m]], k)
                                             /\ added[n][k] = ResultOf(jobs[order[m]])
           Best(n) == \A m \in 1..n : \A k : HasResult(jobs[order[m]], k) =>
                        k \in DOMAIN added[n] /\ Beats(added[n][k], k, jobs[order[m]])
           T == {n \in 0..N : /\ Results(added[n])
                              /\ DOMAIN results \subseteq DOMAIN added[n]
                              /\ \A k \in DOMAIN added[n] : From(n, k)
                              /\ Best(n)}
<1>3. 0 \in T
  BY <1>2
<1>4. ASSUME NEW n \in 0..N, n \in T, n < N PROVE n + 1 \in T
  <2> DEFINE i == order[n + 1]
  <2>1. n + 1 \in 1..N /\ (n + 1) - 1 = n /\ i \in Ended
    BY <1>1, <1>4
  <2>2. 1..n + 1 = 1..n \cup {n + 1}
    BY <1>4
  <2>3. /\ Results(added[n]) /\ DOMAIN results \subseteq DOMAIN added[n] /\ Best(n)
        /\ \A k \in DOMAIN added[n] : From(n, k)
    BY <1>4
  <2>4. added[n + 1] = IF jobs[i].status = "broken" THEN added[n]
                       ELSE add_trigger_to_results(added[n], jobs[i])
    BY <1>2, <2>1
  <2> HIDE DEF i
  <2>5. CASE jobs[i].status = "broken"
    <3>1. \A k : ~HasResult(jobs[i], k)
      BY <2>5 DEF HasResult
    <3>2. added[n + 1] = added[n]
      BY <2>4, <2>5
    <3>3. Best(n + 1)
      BY <2>2, <2>3, <3>1, <3>2 DEF i
    <3>4. \A k \in DOMAIN added[n + 1] : From(n + 1, k)
      BY <2>2, <2>3, <3>2
    <3> QED  BY <2>1, <2>3, <3>2, <3>3, <3>4
  <2>6. CASE jobs[i].status # "broken"
    <3> DEFINE next == added[n + 1]
    <3>1. /\ next = add_trigger_to_results(added[n], jobs[i])
          /\ jobs[i] \in JobType /\ jobs[i].status \in JobResults /\ jobs[i].seen >= 1
      BY <2>1, <2>4, <2>6, EndedTypes
    <3>2. /\ Results(next)
          /\ DOMAIN added[n] \subseteq DOMAIN next
          /\ \A k \in DOMAIN next : \/ k \in DOMAIN added[n] /\ next[k] = added[n][k]
                                    \/ HasResult(jobs[i], k) /\ next[k] = ResultOf(jobs[i])
          /\ \A k : HasResult(jobs[i], k) => k \in DOMAIN next /\ Beats(next[k], k, jobs[i])
          /\ \A k \in DOMAIN added[n] : \A j \in JobType :
               j.status \in JobResults /\ Beats(added[n][k], k, j) => Beats(next[k], k, j)
      <4> HIDE DEF next
      <4> QED  BY <2>3, <3>1, OneJob
    <3>3. ASSUME NEW m \in 1..n + 1, NEW k, HasResult(jobs[order[m]], k)
          PROVE  k \in DOMAIN next /\ Beats(next[k], k, jobs[order[m]])
      <4>1. CASE m = n + 1
        BY <3>2, <3>3, <4>1 DEF i
      <4>2. CASE m \in 1..n
        <5> DEFINE j == jobs[order[m]]
        <5>1. k \in DOMAIN added[n] /\ Beats(added[n][k], k, j)
          BY <2>3, <3>3, <4>2
        <5>2. j \in JobType /\ j.status \in JobResults
          <6>1. order[m] \in Ended
            BY <1>1, <1>4, <4>2
          <6> QED  BY <3>3, <6>1, EndedTypes DEF HasResult
        <5> HIDE DEF j
        <5>3. Beats(next[k], k, j)
          BY <3>2, <5>1, <5>2
        <5> QED  BY <3>2, <5>1, <5>3 DEF j
      <4> QED  BY <2>2, <4>1, <4>2
    <3>4. Best(n + 1)
      BY <3>3
    <3>5. ASSUME NEW k \in DOMAIN next PROVE From(n + 1, k)
      <4>1. CASE k \in DOMAIN added[n] /\ next[k] = added[n][k]
        BY <2>2, <2>3, <4>1
      <4>2. CASE HasResult(jobs[i], k) /\ next[k] = ResultOf(jobs[i])
        BY <2>2, <4>2 DEF i
      <4> QED  BY <3>2, <4>1, <4>2
    <3> QED  BY <2>1, <2>3, <3>2, <3>4, <3>5
  <2> QED  BY <2>5, <2>6
<1>5. N \in T
  <2>1. \A n \in 0..N : n \in T
    <3> HIDE DEF T
    <3> QED  BY <1>3, <1>4, UpTo
  <2> QED  BY <2>1
<1> QED  BY <1>2, <1>5

(***************************************************************************)
(* Where results come from.  What is stored for a test is an initial       *)
(* reference or the result of a job that covers it, marked as old or not.  *)
(***************************************************************************)

Recorded(r, j, k) ==
  /\ HasResult(j, k) /\ j.visible
  /\ Fresh(r.state) = j.status /\ r.version = j.version /\ r.seen = j.seen

Stems(results, js) ==
  /\ Results(results)
  /\ \A k \in DOMAIN results :
       \/ k[1] = REF_TRIG /\ results[k].version = 1 /\ results[k].seen = 0
       \/ \E i \in DOMAIN js : Recorded(results[k], js[i], k)

JobsSeen == ~IsSwift => \A i \in Ended : jobs[i].visible
ReadOK == JobsDated /\ JobsSeen /\ Stems(cache, jobs) /\ Stems(test_results, jobs)

\* Jobs that ended stay as they are.
Grows(js, more) ==
  \A i \in DOMAIN js : js[i].status # "queued" =>
    /\ i \in DOMAIN more
    /\ more[i].request = js[i].request /\ more[i].status = js[i].status
    /\ more[i].version = js[i].version /\ more[i].seen = js[i].seen
    /\ js[i].visible => more[i].visible

LEMMA MarkedOld ==
  \A s \in Statuses : /\ mark_result_as_old(s) \in Statuses \ JobResults
                      /\ Fresh(mark_result_as_old(s)) = Fresh(s)
                      /\ Fresh(s) \in JobResults /\ (s \in JobResults => Fresh(s) = s)
BY DEF mark_result_as_old, Fresh, Statuses, JobResults

LEMMA StemsStays ==
  ASSUME NEW results, NEW js, NEW more, Stems(results, js), Grows(js, more)
  PROVE  Stems(results, more)
<1>1. ASSUME NEW r, NEW k, NEW i \in DOMAIN js, Recorded(r, js[i], k)
      PROVE  i \in DOMAIN more /\ Recorded(r, more[i], k)
  <2>1. js[i].status \notin {"queued", "broken"} /\ k \in Covers(js[i]) /\ NewEnough(k, js[i])
    BY <1>1 DEF Recorded, HasResult
  <2>2. /\ i \in DOMAIN more
        /\ more[i].request = js[i].request /\ more[i].status = js[i].status
        /\ more[i].version = js[i].version /\ more[i].seen = js[i].seen
        /\ js[i].visible => more[i].visible
    BY <2>1 DEF Grows
  <2>3. k \in Covers(more[i]) /\ NewEnough(k, more[i])
    BY <2>1, <2>2 DEF Covers, NewEnough
  <2>4. HasResult(more[i], k)
    BY <2>1, <2>2, <2>3 DEF HasResult
  <2>5. more[i].visible
    BY <1>1, <2>2 DEF Recorded
  <2>6. Fresh(r.state) = more[i].status /\ r.version = more[i].version /\ r.seen = more[i].seen
    BY <1>1, <2>2 DEF Recorded
  <2> QED  BY <2>2, <2>4, <2>5, <2>6 DEF Recorded
<1> QED  BY <1>1 DEF Stems

\* Whatever is stored may be kept, dropped or copied.
LEMMA NothingRead ==
  ASSUME ReadOK, Grows(jobs, jobs'), JobsDated', JobsSeen',
         cache' \in {cache, test_results}, test_results' \in {test_results, <<>>, cache}
  PROVE  ReadOK'
<1>1. \A r \in {cache, test_results} : Stems(r, jobs')
  BY StemsStays DEF ReadOK
<1>2. Stems(<<>>, jobs')
  BY DEF Stems, Results
<1> QED  BY <1>1, <1>2 DEF ReadOK

-----------------------------------------------------------------------------
\* New jobs are queued.
LEMMA JobsAdded ==
  ASSUME TypeOK, JobsDated, JobsSeen, NEW queue \in Seq(JobType),
         \A n \in 1..Len(queue) : queue[n].status = "queued" /\ ~queue[n].visible,
         jobs' = jobs \o queue, now' = now, config' = config
  PROVE  Grows(jobs, jobs') /\ JobsDated' /\ JobsSeen'
<1>1. jobs \in Seq(JobType) /\ Len(jobs) \in Nat /\ Len(queue) \in Nat
  BY DEF TypeOK
<1>2. /\ DOMAIN jobs = 1..Len(jobs) /\ DOMAIN jobs' = 1..(Len(jobs) + Len(queue))
      /\ \A i \in DOMAIN jobs : i \in DOMAIN jobs' /\ jobs'[i] = jobs[i]
      /\ \A i \in DOMAIN jobs' : i \notin DOMAIN jobs =>
           i - Len(jobs) \in 1..Len(queue) /\ jobs'[i] = queue[i - Len(jobs)]
  BY <1>1
<1>3. \A i \in DOMAIN jobs' : i \notin DOMAIN jobs =>
        jobs'[i].status = "queued" /\ ~jobs'[i].visible
  BY <1>2
<1>4. Ended' = Ended
  BY <1>2, <1>3 DEF Ended
<1>5. \A i \in Ended : i \in DOMAIN jobs /\ jobs'[i] = jobs[i]
  BY <1>2 DEF Ended
<1>6. Grows(jobs, jobs')
  BY <1>2 DEF Grows
<1>7. JobsDated'
  BY <1>2, <1>3, <1>4, <1>5 DEF JobsDated
<1>8. JobsSeen'
  BY <1>4, <1>5 DEF JobsSeen, IsSwift
<1> QED  BY <1>6, <1>7, <1>8

LEMMA SameJobs ==
  ASSUME JobsDated, JobsSeen, jobs' = jobs, now <= now', config' = config, TypeOK, now' \in Nat
  PROVE  Grows(jobs, jobs') /\ JobsDated' /\ JobsSeen'
<1>1. Ended' = Ended
  BY DEF Ended
<1>2. Grows(jobs, jobs')
  BY DEF Grows
<1>3. \A i \in Ended : jobs'[i].seen \in 1..now'
  BY DEF JobsDated, TypeOK
<1>4. JobsDated'
  BY <1>1, <1>3 DEF JobsDated
<1>5. JobsSeen'
  BY <1>1 DEF JobsSeen, IsSwift
<1> QED  BY <1>2, <1>4, <1>5

\* One job changes: it ends, or its results become visible.
LEMMA ServiceGrows ==
  ASSUME TypeOK, JobsDated, JobsSeen, NEW i \in DOMAIN jobs,
         \/ \E o \in Outcomes, v \in 1..MaxVersion : EndJob(i, o, v)
         \/ PublishResult(i)
  PROVE  Grows(jobs, jobs') /\ JobsDated' /\ JobsSeen'
<1>0. /\ jobs \in Seq(JobType) /\ now \in Nat /\ \A k \in DOMAIN jobs : jobs[k] \in JobType
      /\ config' = config
  <2>1. config' = config
    BY DEF EndJob, PublishResult, suites
  <2>2. jobs \in Seq(JobType) /\ now \in Nat
    BY DEF TypeOK
  <2> QED  BY <2>1, <2>2
<1>1. ASSUME NEW o \in Outcomes, NEW v \in 1..MaxVersion, EndJob(i, o, v)
      PROVE  Grows(jobs, jobs') /\ JobsDated' /\ JobsSeen'
  <2> DEFINE visible == ~IsSwift
             j == [jobs[i] EXCEPT !.status = o, !.version = v, !.seen = now + 1, !.visible = visible]
  <2>1. visible \in BOOLEAN /\ (visible <=> ~IsSwift)
    OBVIOUS
  <2>2. jobs' = [jobs EXCEPT ![i] = j] /\ now' = now + 1 /\ jobs[i].status = "queued"
    BY <1>1 DEF EndJob
  <2> HIDE DEF visible
  <2>3. /\ j.status = o /\ j.version = v /\ j.seen = now + 1 /\ j.visible = visible /\ j \in JobType
    <3>1. o \in JobResults \cup {"queued", "broken"} /\ v \in 0..MaxVersion /\ now + 1 \in Nat
      BY <1>0, AutopkgtestAssumption
    <3> QED  BY <1>0, <2>1, <3>1 DEF JobType
  <2> HIDE DEF j
  <2>4. /\ DOMAIN jobs' = DOMAIN jobs
        /\ \A k \in DOMAIN jobs : jobs'[k] = IF k = i THEN j ELSE jobs[k]
    BY <1>0, <2>2, <2>3, JobChanges
  <2>5. o # "queued" /\ Ended' = Ended \cup {i} /\ i \notin Ended
    BY <2>2, <2>3, <2>4, AutopkgtestAssumption DEF Ended, JobResults
  <2>6. \A k \in Ended : k \in DOMAIN jobs /\ jobs'[k] = jobs[k]
    BY <2>4, <2>5 DEF Ended
  <2>7. Grows(jobs, jobs')
    BY <2>2, <2>4 DEF Grows
  <2>8. jobs'[i] = j
    BY <2>4
  <2>9. /\ \A k \in Ended' : jobs'[k].version \in 1..MaxVersion /\ jobs'[k].seen \in 1..now'
        /\ \A k \in Ended : jobs'[k].seen # jobs'[i].seen
    BY <1>0, <2>2, <2>3, <2>5, <2>6, <2>8 DEF JobsDated
  <2>10. \A k \in DOMAIN jobs' : jobs'[k].visible => k \in Ended'
    BY <2>4, <2>5 DEF JobsDated
  <2>11. \A k, m \in Ended' : jobs'[k].seen = jobs'[m].seen => k = m
    BY <2>5, <2>6, <2>9 DEF JobsDated
  <2>12. JobsDated'
    BY <2>9, <2>10, <2>11 DEF JobsDated
  <2>13. JobsSeen'
    BY <1>0, <2>1, <2>3, <2>5, <2>6, <2>8 DEF JobsSeen, IsSwift
  <2> QED  BY <2>7, <2>12, <2>13
<1>2. ASSUME PublishResult(i)
      PROVE  Grows(jobs, jobs') /\ JobsDated' /\ JobsSeen'
  <2> DEFINE late == \E k \in Ended : /\ jobs[k].visible
                                      /\ jobs[k].request.src = jobs[i].request.src
                                      /\ jobs[k].seen > jobs[i].seen
             j == [jobs[i] EXCEPT !.visible = TRUE, !.late = late]
  <2>1. late \in BOOLEAN
    OBVIOUS
  <2>2. /\ jobs' = [jobs EXCEPT ![i].visible = TRUE, ![i].late = late] /\ now' = now /\ i \in Ended
    BY <1>2 DEF PublishResult
  <2> HIDE DEF late
  <2>3. jobs' = [jobs EXCEPT ![i] = j]
    BY <1>0, <2>2
  <2>4. /\ j \in JobType /\ j.request = jobs[i].request /\ j.status = jobs[i].status
        /\ j.version = jobs[i].version /\ j.seen = jobs[i].seen /\ j.visible = TRUE
    BY <1>0, <2>1 DEF JobType
  <2> HIDE DEF j
  <2>5. /\ DOMAIN jobs' = DOMAIN jobs
        /\ \A k \in DOMAIN jobs : jobs'[k] = IF k = i THEN j ELSE jobs[k]
    BY <1>0, <2>3, <2>4, JobChanges
  <2>6. Ended' = Ended
    BY <2>4, <2>5 DEF Ended
  <2>7. \A k \in DOMAIN jobs :
          /\ jobs'[k].request = jobs[k].request /\ jobs'[k].status = jobs[k].status
          /\ jobs'[k].version = jobs[k].version /\ jobs'[k].seen = jobs[k].seen
          /\ jobs[k].visible => jobs'[k].visible
    BY <2>4, <2>5
  <2>8. Grows(jobs, jobs')
    BY <2>5, <2>7 DEF Grows
  <2>9. \A k \in DOMAIN jobs' : jobs'[k].visible => k \in Ended'
    BY <2>2, <2>5, <2>6 DEF JobsDated
  <2>10. \A k \in Ended : k \in DOMAIN jobs
    BY DEF Ended
  <2>11. JobsDated'
    BY <2>2, <2>6, <2>7, <2>9, <2>10 DEF JobsDated
  <2>12. JobsSeen'
    BY <1>0, <2>6, <2>7, <2>10 DEF JobsSeen, IsSwift
  <2> QED  BY <2>8, <2>11, <2>12
<1> QED  BY <1>1, <1>2

\* Old results are marked, and nothing else.
LEMMA Filtered ==
  ASSUME NEW results, Stems(results, jobs)
  PROVE  /\ Stems(filter_old_results(results), jobs)
         /\ DOMAIN filter_old_results(results) = DOMAIN results
         /\ \A k \in DOMAIN results :
              LET new == filter_old_results(results)[k]
              IN  /\ Fresh(new.state) = Fresh(results[k].state) /\ new.seen = results[k].seen
                  /\ new.version = results[k].version
                  /\ new.state \in JobResults => test_version_in_any_suite(k[2], new.version)
<1> DEFINE new == filter_old_results(results)
           gone(k) == \/ k[1] = REF_TRIG /\ results[k].seen + config.max_age < now
                      \/ ~test_version_in_any_suite(k[2], results[k].version)
<1>1. /\ DOMAIN new = DOMAIN results
      /\ new = [k \in DOMAIN results |->
                  IF gone(k) THEN [results[k] EXCEPT !.state = mark_result_as_old(results[k].state)]
                  ELSE results[k]]
  BY DEF filter_old_results
<1> HIDE DEF new
<1>2. \A k \in DOMAIN results : results[k] \in StoredResult
  BY DEF Stems, Results
<1>3. ASSUME NEW k \in DOMAIN results
      PROVE  /\ new[k] \in StoredResult
             /\ Fresh(new[k].state) = Fresh(results[k].state)
             /\ new[k].seen = results[k].seen /\ new[k].version = results[k].version
             /\ new[k].state \in JobResults => ~gone(k)
  <2> DEFINE r == results[k]
             old == mark_result_as_old(r.state)
  <2>1. r \in StoredResult
    BY <1>2
  <2>2. r.state \in Statuses
    BY <2>1 DEF StoredResult
  <2>3. old \in Statuses \ JobResults /\ Fresh(old) = Fresh(r.state)
    BY <2>2, MarkedOld
  <2>4. new[k] = IF gone(k) THEN [r EXCEPT !.state = old] ELSE r
    BY <1>1
  <2> HIDE DEF r, old, gone
  <2>5. CASE gone(k)
    <3>1. /\ new[k].state = old /\ new[k].seen = r.seen /\ new[k].version = r.version
          /\ new[k] \in StoredResult
      BY <2>1, <2>3, <2>4, <2>5 DEF StoredResult
    <3> QED  BY <2>3, <3>1 DEF r
  <2>6. CASE ~gone(k)
    BY <2>1, <2>4, <2>6 DEF r
  <2> QED  BY <2>5, <2>6
<1>4. Results(new)
  <2>1. new = [k \in DOMAIN new |-> new[k]]
    BY <1>1
  <2>2. \A k \in DOMAIN new : new[k] \in StoredResult
    BY <1>1, <1>3
  <2> QED  BY <1>1, <2>1, <2>2 DEF Results, Stems
<1>5. ASSUME NEW k \in DOMAIN new
      PROVE  \/ k[1] = REF_TRIG /\ new[k].version = 1 /\ new[k].seen = 0
             \/ \E i \in DOMAIN jobs : Recorded(new[k], jobs[i], k)
  <2>1. \/ k[1] = REF_TRIG /\ results[k].version = 1 /\ results[k].seen = 0
        \/ \E i \in DOMAIN jobs : Recorded(results[k], jobs[i], k)
    BY <1>1, <1>5 DEF Stems
  <2>2. CASE \E i \in DOMAIN jobs : Recorded(results[k], jobs[i], k)
    <3>1. PICK i \in DOMAIN jobs : Recorded(results[k], jobs[i], k)
      BY <2>2
    <3>2. Recorded(new[k], jobs[i], k)
      BY <1>1, <1>3, <3>1 DEF Recorded
    <3> QED  BY <3>2
  <2> QED  BY <1>1, <1>3, <2>1, <2>2
<1>6. Stems(new, jobs)
  BY <1>4, <1>5 DEF Stems
<1> QED  BY <1>1, <1>3, <1>6 DEF new

\* Results that were read stem from jobs.
LEMMA ReadStems ==
  ASSUME TypeOK, JobsDated, NEW results, Stems(results, jobs),
         NEW N \in Nat, NEW order \in [1..N -> Ended], \A n \in 1..N : jobs[order[n]].visible
  PROVE  Stems(AddResults(results, order), jobs)
<1> DEFINE after == AddResults(results, order)
<1>1. /\ Results(after)
      /\ \A k \in DOMAIN after :
           \/ k \in DOMAIN results /\ after[k] = results[k]
           \/ \E n \in 1..N : HasResult(jobs[order[n]], k) /\ after[k] = ResultOf(jobs[order[n]])
  BY ReadingKeepsTheBest DEF Stems
<1> HIDE DEF after
<1>2. ASSUME NEW k \in DOMAIN after, NEW n \in 1..N,
             HasResult(jobs[order[n]], k), after[k] = ResultOf(jobs[order[n]])
      PROVE  order[n] \in DOMAIN jobs /\ Recorded(after[k], jobs[order[n]], k)
  <2> DEFINE j == jobs[order[n]]
  <2>1. order[n] \in Ended /\ order[n] \in DOMAIN jobs
    BY DEF Ended
  <2>2. j.status \in JobResults /\ j.visible
    BY <1>2, <2>1, EndedTypes DEF HasResult
  <2>3. Fresh(j.status) = j.status
    BY <2>2, MarkedOld DEF Statuses
  <2>4. after[k].state = j.status /\ after[k].version = j.version /\ after[k].seen = j.seen
    BY <1>2 DEF ResultOf
  <2> HIDE DEF j
  <2>5. HasResult(j, k)
    BY <1>2 DEF j
  <2>6. Recorded(after[k], j, k)
    BY <2>2, <2>3, <2>4, <2>5 DEF Recorded
  <2> QED  BY <2>1, <2>6 DEF j
<1>3. \A k \in DOMAIN after :
        \/ k[1] = REF_TRIG /\ after[k].version = 1 /\ after[k].seen = 0
        \/ \E i \in DOMAIN jobs : Recorded(after[k], jobs[i], k)
  BY <1>1, <1>2 DEF Stems
<1> QED  BY <1>1, <1>3 DEF Stems, after

\* A finite set of jobs, in some order and in that of their run ids.
LEMMA EndedFinite ==
  ASSUME TypeOK
  PROVE  IsFiniteSet(Ended)
<1>1. DOMAIN jobs = 1..Len(jobs) /\ Len(jobs) \in Nat
  BY DEF TypeOK
<1>2. IsFiniteSet(1..Len(jobs))
  BY <1>1, FS_Interval
<1>3. Ended \in SUBSET (1..Len(jobs))
  BY <1>1 DEF Ended
<1> QED  BY <1>2, <1>3, FS_Subset

LEMMA OrdersList ==
  ASSUME NEW S, IsFiniteSet(S), NEW order \in SetToSeqs(S)
  PROVE  /\ Cardinality(S) \in Nat /\ order \in [1..Cardinality(S) -> S]
         /\ \A x \in S : \E n \in 1..Cardinality(S) : order[n] = x
<1> DEFINE N == Cardinality(S)
<1>1. N \in Nat
  BY FS_CardinalityType
<1>2. order \in [1..N -> S] /\ \A i, j \in 1..N : i # j => order[i] # order[j]
  BY DEF SetToSeqs
<1>3. IsFiniteSet(1..N) /\ Cardinality(1..N) = N
  BY <1>1, FS_Interval
<1>4. order \in Injection(1..N, S)
  BY <1>2 DEF Injection, IsInjective
<1> HIDE DEF N
<1>5. order \in Surjection(1..N, S)
  <2>1. Cardinality(1..N) = Cardinality(S)
    BY <1>3 DEF N
  <2> QED  BY <1>4, <2>1, FS_Injection
<1> QED  BY <1>1, <1>2, <1>5 DEF Surjection, Range, N

LEMMA RunIdOrder ==
  ASSUME TypeOK, JobsDated, NEW S \in SUBSET Ended
  PROVE  ByRunId(S) \in SetToSeqs(S)
<1>1. IsFiniteSet(S)
  BY EndedFinite, FS_Subset
<1> DEFINE key == [i \in S |-> jobs[i].seen]
           N == Cardinality(S)
<1>2. key \in [S -> Nat] /\ \A i \in S : key[i] = jobs[i].seen
  BY EndedTypes
<1> HIDE DEF key
<1>3. PICK q \in [1..N -> S] :
        /\ \A i, j \in 1..N : i # j => q[i] # q[j]
        /\ \A i, j \in 1..N : i < j => key[q[i]] <= key[q[j]]
  BY <1>1, <1>2, Sorted
<1>4. q \in SetToSeqs(S)
  BY <1>3 DEF SetToSeqs
<1>5. DOMAIN q = 1..N /\ \A n \in 1..N : q[n] \in S
  OBVIOUS
<1>6. \A n, m \in DOMAIN q : n < m => jobs[q[n]].seen <= jobs[q[m]].seen
  BY <1>2, <1>3, <1>5
<1> QED  BY <1>4, <1>6 DEF ByRunId

LEMMA FetchedStems ==
  ASSUME TypeOK, ReadOK, NEW p
  PROVE  Stems(fetch_swift_results(p).results, jobs)
<1> DEFINE new == Listed(p)
           order == ByRunId(new)
           results == AddResults(test_results, order)
           pending == pending_tests \ UNION {Covers(jobs[i]) : i \in {i \in new : jobs[i].status # "broken"}}
<1>1. fetch_swift_results(p) =
        IF p \in fetched THEN [results |-> test_results, pending |-> pending_tests]
        ELSE [results |-> results, pending |-> pending]
  BY DEF fetch_swift_results
<1>2. new \in SUBSET Ended /\ \A i \in new : jobs[i].visible
  BY DEF Listed
<1>3. IsFiniteSet(new)
  BY <1>2, EndedFinite, FS_Subset
<1>4. order \in SetToSeqs(new)
  BY <1>2, RunIdOrder DEF ReadOK
<1> HIDE DEF new, order
<1>5. Cardinality(new) \in Nat /\ order \in [1..Cardinality(new) -> new]
  BY <1>3, <1>4, OrdersList
<1>6. order \in [1..Cardinality(new) -> Ended] /\ \A n \in 1..Cardinality(new) : jobs[order[n]].visible
  BY <1>2, <1>5
<1>7. Stems(results, jobs)
  BY <1>5, <1>6, ReadStems DEF ReadOK
<1> HIDE DEF results, pending
<1>8. fetch_swift_results(p).results \in {test_results, results}
  BY <1>1
<1> QED  BY <1>7, <1>8 DEF ReadOK

\* The jobs of the file are all read, in whatever order they come in.
LEMMA FileOrder ==
  ASSUME TypeOK, NEW order, initialise(order), ~IsSwift
  PROVE  LET N == Cardinality({i \in Ended : InWindow(i)})
         IN  /\ N \in Nat /\ order \in [1..N -> Ended]
             /\ \A i \in Ended : InWindow(i) => \E n \in 1..N : order[n] = i
<1> DEFINE S == {i \in DOMAIN jobs : InWindow(i)} \cap Ended
           N == Cardinality(S)
<1>1. S = {i \in Ended : InWindow(i)}
  BY DEF Ended
<1>2. order \in SetToSeqs(S)
  BY DEF initialise
<1>3. S \in SUBSET Ended /\ IsFiniteSet(S)
  BY EndedFinite, FS_Subset
<1> HIDE DEF S
<1>4. /\ N \in Nat /\ order \in [1..N -> S]
      /\ \A i \in S : \E n \in 1..N : order[n] = i
  BY <1>2, <1>3, OrdersList
<1>5. order \in [1..N -> Ended]
  BY <1>3, <1>4
<1> QED  BY <1>1, <1>4, <1>5

LEMMA InitialiseReads ==
  ASSUME TypeOK, ReadOK, NEW order, initialise(order)
  PROVE  /\ ReadOK'
         /\ ~IsSwift /\ IsReference => \A k \in DOMAIN test_results' :
              test_results'[k].state \in JobResults =>
                test_version_in_any_suite(k[2], test_results'[k].version)
<1> DEFINE read == IF IsSwift THEN cache ELSE AddResults(cache, order)
<1>1. /\ test_results' = IF IsReference THEN filter_old_results(read) ELSE read
      /\ UNCHANGED <<suites, disk, service>>
  BY DEF initialise
<1>2. Stems(read, jobs)
  <2>1. CASE IsSwift
    BY <2>1 DEF ReadOK
  <2>2. CASE ~IsSwift
    <3> DEFINE N == Cardinality({i \in Ended : InWindow(i)})
    <3>1. N \in Nat /\ order \in [1..N -> Ended]
      BY <2>2, FileOrder
    <3> HIDE DEF N
    <3>2. \A n \in 1..N : jobs[order[n]].visible
      BY <2>2, <3>1 DEF ReadOK, JobsSeen
    <3>3. Stems(AddResults(cache, order), jobs)
      BY <3>1, <3>2, ReadStems DEF ReadOK
    <3> QED  BY <2>2, <3>3
  <2> QED  BY <2>1, <2>2
<1> HIDE DEF read
<1>3. Stems(test_results', jobs)
  BY <1>1, <1>2, Filtered
<1>4. /\ jobs' = jobs /\ now' = now /\ config' = config /\ cache' = cache /\ now \in Nat
  BY <1>1 DEF suites, disk, service, TypeOK
<1>5. JobsDated' /\ JobsSeen'
  BY <1>4, SameJobs DEF ReadOK
<1>6. ReadOK'
  BY <1>3, <1>4, <1>5 DEF ReadOK
<1>7. IsReference => \A k \in DOMAIN test_results' :
        test_results'[k].state \in JobResults =>
          test_version_in_any_suite(k[2], test_results'[k].version)
  BY <1>1, <1>2, Filtered
<1> QED  BY <1>6, <1>7

LEMMA InitialiseReadsTheBest ==
  ASSUME TypeOK, ReadOK, NEW order, initialise(order)
  PROVE  BestResultWins'
<1> SUFFICES ASSUME ~IsSwift, NEW i \in DOMAIN jobs, NEW k \in Covers(jobs[i]), Counts(i, k)',
                    Read(i)'
             PROVE  k \in DOMAIN test_results' /\ Dominates(test_results'[k], k, jobs[i])
  <2>1. jobs' = jobs /\ config' = config
    BY DEF initialise, suites, service
  <2> QED  BY <2>1 DEF BestResultWins, IsSwift, Dominates, Covers, IsReference
<1> DEFINE read == AddResults(cache, order)
           j == jobs[i]
<1>1. /\ test_results' = IF IsReference THEN filter_old_results(read) ELSE read
      /\ UNCHANGED <<suites, disk, service>> /\ started' = now
  BY DEF initialise
<1>2. jobs' = jobs /\ config' = config /\ source' = source /\ target' = target /\ now \in Nat
  BY <1>1 DEF suites, service, TypeOK
<1>3. i \in Ended /\ InWindow(i) /\ HasResult(j, k)
  BY <1>1, <1>2 DEF Counts, Read, Ended, HasResult, InWindow
<1> DEFINE N == Cardinality({m \in Ended : InWindow(m)})
<1>4. /\ N \in Nat /\ order \in [1..N -> Ended]
      /\ \A m \in Ended : InWindow(m) => \E n \in 1..N : order[n] = m
  BY FileOrder
<1> HIDE DEF N
<1>5. PICK n \in 1..N : order[n] = i
  BY <1>3, <1>4
<1>6. /\ Results(read) /\ k \in DOMAIN read /\ Beats(read[k], k, j)
  BY <1>3, <1>4, <1>5, ReadingKeepsTheBest DEF ReadOK, Stems
<1>7. Stems(read, jobs)
  <2>1. \A m \in 1..N : jobs[order[m]].visible
    BY <1>4 DEF ReadOK, JobsSeen
  <2> QED  BY <1>4, <2>1, ReadStems DEF ReadOK
<1> HIDE DEF read
<1>8. /\ k \in DOMAIN test_results' /\ test_results'[k].seen = read[k].seen
      /\ Fresh(test_results'[k].state) = Fresh(read[k].state)
  BY <1>1, <1>6, <1>7, Filtered
<1>9. read[k].state \in Statuses /\ read[k].seen \in Nat
  BY <1>6 DEF Results, StoredResult
<1>10. j.status \in JobResults
  BY <1>3, EndedTypes DEF HasResult, ReadOK
<1> DEFINE s == read[k].state
<1>11. /\ Fresh(s) \in JobResults /\ (s \in JobResults => Fresh(s) = s)
       /\ Result[Fresh(s)] <= Result[s] /\ Result[s] \in Nat /\ Result[Fresh(s)] \in Nat
       /\ Result[j.status] \in Nat
  <2>1. Fresh(s) \in JobResults /\ (s \in JobResults => Fresh(s) = s)
    BY <1>9, MarkedOld
  <2>2. Result[s] \in Nat /\ Result[Fresh(s)] \in Nat /\ Result[j.status] \in Nat
    BY <1>9, <1>10, <2>1, ResultOrder DEF Statuses
  <2>3. s \notin JobResults => Result[Fresh(s)] < Result[s]
    BY <1>9, <2>1, ResultOrder
  <2> QED  BY <2>1, <2>2, <2>3
<1> HIDE DEF s, j
<1>12. Dominates(test_results'[k], k, j)
  BY <1>6, <1>8, <1>9, <1>10, <1>11 DEF Dominates, Beats, s
<1> QED  BY <1>8, <1>12 DEF j

-----------------------------------------------------------------------------
(***************************************************************************)
(* Steps.                                                                  *)
(***************************************************************************)

\* A request is noted, and nothing that was pending is dropped for it.
LEMMA RequestNoted ==
  ASSUME NEW t, NEW p, NEW pending, request_test_if_not_queued(t, p, pending)
  PROVE  <<t, p>> \in pending_tests' /\ pending \subseteq pending_tests'
BY DEF request_test_if_not_queued

LEMMA PostGrows ==
  ASSUME TypeOK, ReadOK, IsFiniteSet(amqp_file), NEW accepted \in SUBSET amqp_file, Post(accepted)
  PROVE  Grows(jobs, jobs') /\ JobsDated' /\ JobsSeen'
<1> DEFINE queue == SetToSeq({Queued(r) : r \in accepted})
<1>1. accepted \in SUBSET RequestType /\ IsFiniteSet(accepted)
  BY FS_Subset DEF TypeOK
<1>2. queue \in Seq(JobType) /\ \A i \in 1..Len(queue) : \E r \in accepted : queue[i] = Queued(r)
  BY <1>1, QueuedOnce
<1>3. \A r : Queued(r).status = "queued" /\ ~Queued(r).visible
  BY DEF Queued
<1>4. jobs' = jobs \o queue /\ now' = now /\ config' = config
  BY DEF Post, suites
<1> HIDE DEF queue
<1>5. \A n \in 1..Len(queue) : queue[n].status = "queued" /\ ~queue[n].visible
  BY <1>2, <1>3
<1> QED  BY <1>2, <1>4, <1>5, JobsAdded DEF ReadOK

\* The test that is asked for.
LEMMA TestAsked ==
  ASSUME TypeOK, todo # {}, pkg_test_request(NextTest)
  PROVE  LET k == NextTest
         IN  /\ k \in todo /\ k \in Tests /\ k = <<k[1], k[2]>>
             /\ k[1] \in Triggers \cup {REF_TRIG} /\ k[2] \in Packages
             /\ pc = "ask" /\ current' = k /\ todo' = todo \ {k}
             /\ UNCHANGED <<suites, disk, service, judged, started>>
             /\ \/ /\ k \in DOMAIN test_results
                   /\ UNCHANGED <<test_results, pending_tests, amqp_file, pc>>
                \/ /\ IsSwift /\ test_results' = fetch_swift_results(k[2]).results
                   /\ \/ /\ k \in DOMAIN test_results'
                         /\ pending_tests' = fetch_swift_results(k[2]).pending
                         /\ UNCHANGED <<amqp_file, pc>>
                      \/ request_test_if_not_queued(k[1], k[2], fetch_swift_results(k[2]).pending)
                \/ /\ ~IsSwift /\ UNCHANGED test_results
                   /\ request_test_if_not_queued(k[1], k[2], pending_tests)
<1> DEFINE k == NextTest
<1>1. k \in todo
  BY DEF NextTest
<1>2. k \in Tests
  BY <1>1 DEF TypeOK
<1>3. k = <<k[1], k[2]>> /\ k[1] \in Triggers \cup {REF_TRIG} /\ k[2] \in Packages
  BY <1>2 DEF Tests
<1>4. IsAnswered(k) => k \in DOMAIN test_results
  BY DEF IsAnswered
<1> DEFINE t == k[1]
           p == k[2]
           new == fetch_swift_results(p)
<1>5. /\ pc = "ask" /\ current' = k /\ todo' = todo \ {k}
      /\ UNCHANGED <<suites, disk, service, judged, started>>
      /\ IF IsAnswered(k)
         THEN UNCHANGED <<test_results, pending_tests, fetched, amqp_file, pc>>
         ELSE IF IsSwift
         THEN /\ test_results' = new.results
              /\ IF k \in DOMAIN new.results
                 THEN pending_tests' = new.pending /\ UNCHANGED <<amqp_file, pc>>
                 ELSE request_test_if_not_queued(t, p, new.pending)
         ELSE /\ request_test_if_not_queued(t, p, pending_tests)
              /\ UNCHANGED <<test_results, fetched>>
  BY DEF pkg_test_request
<1> HIDE DEF new, t, p, k
<1>6. \/ k \in DOMAIN test_results /\ UNCHANGED <<test_results, pending_tests, amqp_file, pc>>
      \/ /\ IsSwift /\ test_results' = new.results
         /\ \/ /\ k \in DOMAIN test_results'
               /\ pending_tests' = new.pending /\ UNCHANGED <<amqp_file, pc>>
            \/ request_test_if_not_queued(t, p, new.pending)
      \/ /\ ~IsSwift /\ UNCHANGED test_results
         /\ request_test_if_not_queued(t, p, pending_tests)
  BY <1>4, <1>5
<1> QED  BY <1>1, <1>2, <1>3, <1>5, <1>6 DEF new, t, p, k

LEMMA TestNoted ==
  ASSUME TypeOK, todo # {}, pkg_test_request(NextTest)
  PROVE  NextTest \in DOMAIN test_results' \cup pending_tests'
<1> DEFINE k == NextTest
           t == k[1]
           p == k[2]
           new == fetch_swift_results(p)
<1>1. /\ k = <<t, p>>
      /\ \/ k \in DOMAIN test_results /\ UNCHANGED <<test_results, pending_tests, amqp_file, pc>>
         \/ /\ IsSwift /\ test_results' = new.results
            /\ \/ k \in DOMAIN test_results'
               \/ request_test_if_not_queued(t, p, new.pending)
         \/ /\ ~IsSwift /\ UNCHANGED test_results
            /\ request_test_if_not_queued(t, p, pending_tests)
  BY TestAsked
<1> HIDE DEF new, t, p, k
<1>2. \A pending : request_test_if_not_queued(t, p, pending) => k \in pending_tests'
  BY <1>1, RequestNoted
<1> QED  BY <1>1, <1>2 DEF k

LEMMA ReadStep ==
  ASSUME TypeOK, AskedOK, ReadOK, [Next]_vars
  PROVE  ReadOK'
<1>0. now \in Nat
  BY DEF TypeOK
<1>1. ASSUME NEW order, initialise(order) PROVE ReadOK'
  BY <1>1, InitialiseReads
<1>2. ASSUME todo # {}, pkg_test_request(NextTest) PROVE ReadOK'
  <2>0. UNCHANGED <<suites, disk, service>>
    BY <1>2 DEF pkg_test_request
  <2>1. Grows(jobs, jobs') /\ JobsDated' /\ JobsSeen'
    BY <1>0, <2>0, SameJobs DEF suites, service, ReadOK
  <2>2. cache' = cache /\ (test_results' = test_results \/ \E p : test_results' = fetch_swift_results(p).results)
    BY <1>2, TestAsked DEF disk
  <2>3. CASE test_results' = test_results
    BY <2>1, <2>2, <2>3, NothingRead
  <2>4. CASE \E p : test_results' = fetch_swift_results(p).results
    <3>1. Stems(test_results', jobs)
      BY <2>4, FetchedStems
    <3>2. Stems(test_results', jobs') /\ Stems(cache', jobs')
      BY <2>1, <2>2, <3>1, StemsStays DEF ReadOK
    <3> QED  BY <2>1, <3>2 DEF ReadOK
  <2> QED  BY <2>2, <2>3, <2>4
<1>3. CASE EndInError
  BY <1>0, <1>3, SameJobs, NothingRead DEF EndInError, Forget, suites, disk, service, ReadOK
<1>4. CASE pkg_test_result
  BY <1>0, <1>4, SameJobs, NothingRead DEF pkg_test_result, suites, disk, service, ReadOK
<1>5. ASSUME NEW chosen, Migrate(chosen) PROVE ReadOK'
  BY <1>0, <1>5, SameJobs, NothingRead DEF Migrate, disk, service, memory, ReadOK
<1>6. CASE SaveResults
  BY <1>0, <1>6, SameJobs, NothingRead DEF SaveResults, suites, service, memory, ReadOK
<1>7. CASE save_pending_json
  BY <1>0, <1>7, SameJobs, NothingRead DEF save_pending_json, Forget, suites, service, ReadOK
<1>8. ASSUME NEW accepted \in SUBSET amqp_file, Post(accepted) PROVE ReadOK'
  BY <1>8, PostGrows, NothingRead DEF Post, disk, memory, AskedOK, FileOK
<1>9. CASE Service
  <2>1. PICK i \in DOMAIN jobs :
          \/ \E o \in Outcomes, v \in 1..MaxVersion : EndJob(i, o, v)
          \/ PublishResult(i)
    BY <1>9 DEF Service
  <2>2. UNCHANGED <<disk, memory>>
    BY <2>1 DEF EndJob, PublishResult
  <2>3. Grows(jobs, jobs') /\ JobsDated' /\ JobsSeen'
    BY <2>1, ServiceGrows DEF ReadOK
  <2> QED  BY <2>2, <2>3, NothingRead DEF disk, memory
<1>10. CASE Tick
  BY <1>0, <1>10, SameJobs, NothingRead DEF Tick, suites, disk, memory, ReadOK
<1>11. CASE Crash
  BY <1>0, <1>11, SameJobs, NothingRead DEF Crash, Forget, suites, disk, ReadOK
<1>12. ASSUME NEW p \in Packages, Upload(p) PROVE ReadOK'
  BY <1>0, <1>12, SameJobs, NothingRead DEF Upload, disk, service, memory, ReadOK
<1>13. CASE UNCHANGED vars
  BY <1>0, <1>13, SameJobs, NothingRead DEF vars, suites, disk, service, memory, ReadOK
<1>14. CASE PostAll
  BY <1>8, <1>14 DEF PostAll
<1>15. ASSUME NEW accepted \in SUBSET amqp_file, PostFails(accepted) PROVE ReadOK'
  BY <1>8, <1>15 DEF PostFails
<1> QED
  BY <1>1, <1>2, <1>3, <1>4, <1>5, <1>6, <1>7, <1>9, <1>10, <1>11, <1>12, <1>13, <1>14, <1>15
  DEF Next, Run, AtBound

-----------------------------------------------------------------------------
(***************************************************************************)
(* Judging.  A test that was asked for has a result or is pending; with    *)
(* debci and references, the run judges every test that a candidate wants  *)
(* by the results it has read, against a baseline that stays as it is.     *)
(***************************************************************************)

AnswerOK ==
  /\ pc = "ask" /\ current # <<>> => current \in DOMAIN test_results \cup pending_tests
  /\ \A k \in DOMAIN judged : judged[k] # "error"

Failed(k) == test_results[k].state \in {"FAIL", "OLD_FAIL"}
JudgedAs(k) == IF Failed(k) THEN FailureStatus(k, Baseline(test_results, k[2]))
               ELSE test_results[k].state

FreshInSuite ==
  \A k \in DOMAIN test_results :
    test_results[k].state \in JobResults => test_results[k].version \in {source[k[2]], target[k[2]]}

RunOK ==
  /\ FreshInSuite
  /\ result_in_baseline_cache = [p \in Packages |-> result_in_baseline_cache[p]]
  /\ \A p \in Packages : result_in_baseline_cache[p] \in {"unknown", Baseline(test_results, p)}
  /\ Wanted \subseteq todo \cup {current} \cup DOMAIN judged
  /\ \A k \in DOMAIN judged : k \in DOMAIN test_results => judged[k] = JudgedAs(k)

JudgedOK == ~IsSwift /\ IsReference /\ pc = "ask" => RunOK

\* What a run with debci goes by does not change under it.
LEMMA RunIsSteady ==
  ASSUME TypeOK, ReadOK, [Next]_vars, pc' = "ask", ~IsSwift
  PROVE  /\ config' = config
         /\ \/ \E order : initialise(order)
            \/ /\ pc = "ask" /\ UNCHANGED <<jobs, test_results, started, source, target>>
               /\ \/ todo # {} /\ pkg_test_request(NextTest)
                  \/ pkg_test_result
                  \/ UNCHANGED vars
<1>1. CASE todo # {} /\ pkg_test_request(NextTest)
  BY <1>1, TestAsked DEF suites, service
<1>2. CASE pkg_test_result
  BY <1>2 DEF pkg_test_result, suites, service
<1>3. ASSUME Run, ~(todo # {} /\ pkg_test_request(NextTest)), ~pkg_test_result
      PROVE  \E order : initialise(order)
  BY <1>3 DEF Run, Migrate, SaveResults, save_pending_json, PostAll, Post, EndInError
<1>4. ASSUME NEW order, initialise(order) PROVE config' = config
  BY <1>4 DEF initialise, suites
<1>5. ~Service /\ ~Tick /\ ~Crash
  BY DEF Service, EndJob, PublishResult, Tick, Crash
<1>6. ASSUME NEW p, Upload(p) PROVE FALSE
  BY <1>6 DEF Upload
<1>7. ASSUME NEW accepted, PostFails(accepted) PROVE FALSE
  BY <1>7 DEF PostFails, Post
<1>8. CASE UNCHANGED vars
  BY <1>8 DEF vars, suites, service, memory
<1> QED  BY <1>1, <1>2, <1>3, <1>4, <1>5, <1>6, <1>7, <1>8 DEF Next, AtBound

LEMMA ConfigStays ==
  ASSUME [Next]_vars
  PROVE  config' = config
<1>1. ASSUME NEW order, initialise(order) PROVE config' = config
  BY <1>1 DEF initialise, suites
<1>2. ASSUME NEW k, pkg_test_request(k) PROVE config' = config
  BY <1>2 DEF pkg_test_request, suites
<1>3. CASE pkg_test_result \/ SaveResults \/ save_pending_json \/ EndInError
  BY <1>3 DEF pkg_test_result, SaveResults, save_pending_json, EndInError, suites
<1>4. ASSUME NEW chosen, Migrate(chosen) PROVE config' = config
  BY <1>4 DEF Migrate
<1>5. CASE PostAll \/ \E accepted : PostFails(accepted)
  BY <1>5 DEF PostAll, PostFails, Post, suites
<1>6. CASE Service
  BY <1>6 DEF Service, EndJob, PublishResult, suites
<1>7. CASE Tick \/ Crash \/ \E p : Upload(p)
  BY <1>7 DEF Tick, Crash, Upload, suites
<1>8. CASE UNCHANGED vars
  BY <1>8 DEF vars, suites
<1> QED  BY <1>1, <1>2, <1>3, <1>4, <1>5, <1>6, <1>7, <1>8 DEF Next, Run, AtBound

LEMMA BestStep ==
  ASSUME TypeOK, ReadOK, BestResultWins, [Next]_vars
  PROVE  BestResultWins'
<1> SUFFICES ASSUME pc' = "ask", ~IsSwift' PROVE BestResultWins'
  BY DEF BestResultWins
<1>1. config' = config
  BY ConfigStays
<1>2. ~IsSwift
  BY <1>1 DEF IsSwift
<1>3. CASE \E order : initialise(order)
  BY <1>3, InitialiseReadsTheBest
<1>4. CASE pc = "ask" /\ UNCHANGED <<jobs, test_results, started, source, target>>
  <2>1. Ended' = Ended
    BY <1>4 DEF Ended
  <2> QED
    BY <1>1, <1>2, <1>4, <2>1 DEF BestResultWins, Counts, Read, Covers, NewEnough, Dominates,
       IsReference, test_version_in_any_suite
<1> QED  BY <1>2, <1>3, <1>4, RunIsSteady

LEMMA FailureIsNoError ==
  ASSUME NEW k, NEW baseline
  PROVE  FailureStatus(k, baseline) \in {"IGNORE-FAIL", "ALWAYSFAIL", "RUNNING-REFERENCE", "REGRESSION"}
BY DEF FailureStatus

\* What pkg_test_result says of the test that was asked for.
LEMMA JudgedBy ==
  ASSUME TypeOK, ReadOK, pkg_test_result
  PROVE  LET k == current
             cached == result_in_baseline(test_results, k[2])
         IN  /\ k \in Tests /\ current' = <<>> /\ pc = "ask"
             /\ result_in_baseline_cache' = [result_in_baseline_cache EXCEPT ![k[2]] = cached]
             /\ DOMAIN judged' = DOMAIN judged \cup {k}
             /\ \A j \in DOMAIN judged : j # k => judged'[j] = judged[j]
             /\ k \in DOMAIN test_results /\ ~Failed(k) => judged'[k] = test_results[k].state
             /\ k \in DOMAIN test_results /\ Failed(k) /\ IsReference =>
                  judged'[k] = FailureStatus(k, cached)
             /\ k \in DOMAIN test_results \cup pending_tests => judged'[k] # "error"
<1> DEFINE k == current
           cached == result_in_baseline(test_results, k[2])
           failed == k \in DOMAIN test_results /\ test_results[k].state \in {"FAIL", "OLD_FAIL"}
           baseline == IF failed /\ ~IsReference /\ k[1].source \in Kernels THEN "FAIL" ELSE cached
           x == FailureStatus(k, baseline)
           y == PendingStatus(k, baseline)
           status == IF failed THEN x
                     ELSE IF k \in DOMAIN test_results THEN test_results[k].state
                     ELSE IF k \in pending_tests THEN y ELSE "error"
<1>1. /\ pc = "ask" /\ k # <<>> /\ current' = <<>>
      /\ result_in_baseline_cache' = [result_in_baseline_cache EXCEPT ![k[2]] = cached]
      /\ judged' = [j \in DOMAIN judged \cup {k} |-> IF j = k THEN status ELSE judged[j]]
  BY DEF pkg_test_result
<1>2. k \in Tests
  BY <1>1 DEF TypeOK
<1>3. x # "error" /\ y # "error"
  BY FailureIsNoError DEF PendingStatus
<1>4. k \in DOMAIN test_results => test_results[k].state \in Statuses
  BY DEF ReadOK, Stems, Results, StoredResult
<1>5. IsReference => x = FailureStatus(k, cached)
  OBVIOUS
<1>6. failed <=> k \in DOMAIN test_results /\ Failed(k)
  BY DEF Failed
<1> HIDE DEF cached, x, y, failed
<1>7. /\ failed => status = x
      /\ k \in DOMAIN test_results /\ ~failed => status = test_results[k].state
      /\ k \in DOMAIN test_results \cup pending_tests => status # "error"
  BY <1>3, <1>4 DEF Statuses, JobResults
<1> HIDE DEF status
<1>8. /\ DOMAIN judged' = DOMAIN judged \cup {k} /\ judged'[k] = status
      /\ \A j \in DOMAIN judged : j # k => judged'[j] = judged[j]
  BY <1>1
<1> QED  BY <1>1, <1>2, <1>5, <1>6, <1>7, <1>8 DEF cached

LEMMA AnswerStep ==
  ASSUME TypeOK, ReadOK, AnswerOK, [Next]_vars
  PROVE  AnswerOK'
<1>1. ASSUME NEW order, initialise(order) PROVE AnswerOK'
  BY <1>1 DEF initialise, AnswerOK
<1>2. CASE todo # {} /\ pkg_test_request(NextTest)
  <2>1. current' \in DOMAIN test_results' \cup pending_tests' /\ judged' = judged
    BY <1>2, TestAsked, TestNoted
  <2> QED  BY <2>1 DEF AnswerOK
<1>3. CASE EndInError
  BY <1>3 DEF EndInError, Forget, AnswerOK
<1>4. CASE pkg_test_result
  <2>1. pc = "ask" /\ current # <<>>
    BY <1>4 DEF pkg_test_result
  <2> QED  BY <1>4, <2>1, JudgedBy DEF AnswerOK
<1>5. ASSUME NEW chosen, Migrate(chosen) PROVE AnswerOK'
  BY <1>5 DEF Migrate, memory, AnswerOK
<1>6. CASE SaveResults
  BY <1>6 DEF SaveResults, memory, AnswerOK
<1>7. CASE save_pending_json \/ Crash
  BY <1>7 DEF save_pending_json, Crash, Forget, AnswerOK
<1>8. CASE PostAll \/ \E accepted : PostFails(accepted)
  BY <1>8 DEF PostAll, PostFails, Post, memory, AnswerOK
<1>9. CASE Service
  BY <1>9 DEF Service, EndJob, PublishResult, memory, AnswerOK
<1>10. CASE Tick \/ \E p : Upload(p)
  BY <1>10 DEF Tick, Upload, memory, AnswerOK
<1>11. CASE UNCHANGED vars
  BY <1>11 DEF vars, memory, AnswerOK
<1> QED  BY <1>1, <1>2, <1>3, <1>4, <1>5, <1>6, <1>7, <1>8, <1>9, <1>10, <1>11 DEF Next, Run, AtBound

\* What is looked up in the baseline is what the results read at the start say.
LEMMA LookedUp ==
  ASSUME RunOK, NEW p \in Packages,
         NEW filled, filled = [result_in_baseline_cache EXCEPT ![p] = result_in_baseline(test_results, p)]
  PROVE  /\ result_in_baseline(test_results, p) = Baseline(test_results, p)
         /\ filled = [q \in Packages |-> filled[q]]
         /\ \A q \in Packages : filled[q] \in {"unknown", Baseline(test_results, q)}
<1> DEFINE c == result_in_baseline_cache
<1>1. c = [q \in Packages |-> c[q]] /\ \A q \in Packages : c[q] \in {"unknown", Baseline(test_results, q)}
  BY DEF RunOK
<1>2. result_in_baseline(test_results, p) = Baseline(test_results, p)
  BY <1>1 DEF result_in_baseline
<1>3. DOMAIN filled = DOMAIN c /\ DOMAIN c = Packages
  BY <1>1
<1>4. \A q \in Packages : filled[q] = IF q = p THEN Baseline(test_results, p) ELSE c[q]
  BY <1>2, <1>3
<1>5. filled = [q \in Packages |-> filled[q]]
  BY <1>3
<1> QED  BY <1>1, <1>2, <1>4, <1>5

LEMMA JudgedStep ==
  ASSUME TypeOK, ReadOK, JudgedOK, [Next]_vars
  PROVE  JudgedOK'
<1> SUFFICES ASSUME ~IsSwift', IsReference', pc' = "ask" PROVE RunOK'
  BY DEF JudgedOK
<1>1. config' = config /\ ~IsSwift /\ IsReference
  BY ConfigStays DEF IsSwift, IsReference
<1>2. ASSUME NEW order, initialise(order) PROVE RunOK'
  <2>1. /\ result_in_baseline_cache' = [p \in Packages |-> "unknown"] /\ judged' = <<>>
        /\ todo' = {<<t, s>> : t \in Candidates, s \in Packages}
                     \cap {k \in Tests : k[2] \in tests_for_source(k[1])}
        /\ UNCHANGED <<suites, service>>
    BY <1>2 DEF initialise
  <2>2. FreshInSuite'
    BY <1>1, <1>2, <2>1, InitialiseReads DEF suites, test_version_in_any_suite, FreshInSuite
  <2>3. Wanted' \subseteq todo'
    <3>1. Wanted' = Wanted
      BY <2>1 DEF suites, Wanted, Candidates, tests_for_source
    <3>2. \A k \in Wanted : k \in Tests /\ k = <<k[1], k[2]>> /\ k[1] \in Candidates /\ k[2] \in Packages
      BY DEF Wanted, Tests
    <3> QED  BY <2>1, <3>1, <3>2 DEF Wanted
  <2> QED  BY <2>1, <2>2, <2>3 DEF RunOK
<1>3. ASSUME pc = "ask", UNCHANGED <<jobs, test_results, started, source, target>>,
             result_in_baseline_cache' = [p \in Packages |-> result_in_baseline_cache'[p]],
             \A p \in Packages : result_in_baseline_cache'[p] \in {"unknown", Baseline(test_results, p)},
             Wanted \subseteq todo' \cup {current'} \cup DOMAIN judged',
             \A k \in DOMAIN judged' : k \in DOMAIN test_results => judged'[k] = JudgedAs(k)
      PROVE  RunOK'
  <2>1. RunOK
    BY <1>1, <1>3 DEF JudgedOK
  <2>2. /\ Wanted' = Wanted
        /\ \A p : Baseline(test_results, p)' = Baseline(test_results, p)
        /\ \A k : JudgedAs(k)' = JudgedAs(k)
    BY <1>1, <1>3 DEF Wanted, Candidates, tests_for_source, Baseline, IsReference, JudgedAs, Failed,
         FailureStatus, HasForceBadtest, has_test_in_target
  <2>3. FreshInSuite'
    BY <1>3, <2>1 DEF RunOK, FreshInSuite
  <2>4. /\ \A p \in Packages : result_in_baseline_cache'[p] \in {"unknown", Baseline(test_results, p)'}
        /\ Wanted' \subseteq todo' \cup {current'} \cup DOMAIN judged'
        /\ \A k \in DOMAIN judged' : k \in DOMAIN test_results' => judged'[k] = JudgedAs(k)'
    BY <1>3, <2>2
  <2> QED  BY <1>3, <2>3, <2>4 DEF RunOK
<1>4. \A k \in Wanted : k # <<>>
  BY DEF Wanted, Tests
<1>5. CASE pc = "ask" /\ todo # {} /\ pkg_test_request(NextTest)
          /\ UNCHANGED <<jobs, test_results, started, source, target>>
  <2> DEFINE k == NextTest
             p == k[2]
  <2>1. RunOK
    BY <1>1, <1>5 DEF JudgedOK
  <2>2. p \in Packages /\ current' = k /\ todo' = todo \ {k} /\ judged' = judged /\ current = <<>>
    BY <1>5, TestAsked DEF pkg_test_request
  <2>3. \/ result_in_baseline_cache' = result_in_baseline_cache
        \/ result_in_baseline_cache' =
             [result_in_baseline_cache EXCEPT ![p] = result_in_baseline(test_results, p)]
    BY <1>5 DEF pkg_test_request
  <2> HIDE DEF p, k
  <2>4. /\ result_in_baseline_cache' = [q \in Packages |-> result_in_baseline_cache'[q]]
        /\ \A q \in Packages : result_in_baseline_cache'[q] \in {"unknown", Baseline(test_results, q)}
    <3>1. CASE result_in_baseline_cache' = result_in_baseline_cache
      BY <2>1, <3>1 DEF RunOK
    <3>2. CASE result_in_baseline_cache' # result_in_baseline_cache
      BY <2>1, <2>2, <2>3, <3>2, LookedUp
    <3> QED  BY <3>1, <3>2
  <2>5. Wanted \subseteq todo' \cup {current'} \cup DOMAIN judged'
    BY <1>4, <2>1, <2>2 DEF RunOK
  <2>6. \A j \in DOMAIN judged' : j \in DOMAIN test_results => judged'[j] = JudgedAs(j)
    BY <2>1, <2>2 DEF RunOK
  <2> QED  BY <1>3, <1>5, <2>4, <2>5, <2>6
<1>6. CASE pc = "ask" /\ pkg_test_result /\ UNCHANGED <<jobs, test_results, started, source, target>>
  <2> DEFINE k == current
             p == k[2]
             cached == result_in_baseline(test_results, p)
             filled == [result_in_baseline_cache EXCEPT ![p] = cached]
  <2>1. RunOK
    BY <1>1, <1>6 DEF JudgedOK
  <2>2. /\ k \in Tests /\ current' = <<>> /\ todo' = todo
        /\ result_in_baseline_cache' = [result_in_baseline_cache EXCEPT ![p] = cached]
        /\ DOMAIN judged' = DOMAIN judged \cup {k}
        /\ \A j \in DOMAIN judged : j # k => judged'[j] = judged[j]
        /\ k \in DOMAIN test_results /\ ~Failed(k) => judged'[k] = test_results[k].state
        /\ k \in DOMAIN test_results /\ Failed(k) => judged'[k] = FailureStatus(k, cached)
    BY <1>1, <1>6, JudgedBy DEF pkg_test_result
  <2>3. p \in Packages
    BY <2>2 DEF Tests
  <2>4. /\ cached = Baseline(test_results, p)
        /\ result_in_baseline_cache' = [q \in Packages |-> result_in_baseline_cache'[q]]
        /\ \A q \in Packages : result_in_baseline_cache'[q] \in {"unknown", Baseline(test_results, q)}
    <3>1. /\ cached = Baseline(test_results, p) /\ filled = [q \in Packages |-> filled[q]]
          /\ \A q \in Packages : filled[q] \in {"unknown", Baseline(test_results, q)}
      <4> HIDE DEF p
      <4> QED  BY <2>1, <2>3, LookedUp
    <3>2. result_in_baseline_cache' = filled
      BY <2>2
    <3> HIDE DEF filled, cached
    <3> QED  BY <3>1, <3>2
  <2> HIDE DEF k
  <2>5. Wanted \subseteq todo' \cup {current'} \cup DOMAIN judged'
    BY <2>1, <2>2 DEF RunOK, k
  <2>6. ASSUME NEW j \in DOMAIN judged', j \in DOMAIN test_results
        PROVE  judged'[j] = JudgedAs(j)
    <3>1. CASE j = k
      BY <2>2, <2>4, <2>6, <3>1 DEF JudgedAs
    <3>2. CASE j # k
      BY <2>1, <2>2, <2>6, <3>2 DEF RunOK
    <3> QED  BY <3>1, <3>2
  <2> QED  BY <1>3, <1>6, <2>4, <2>5, <2>6
<1>7. CASE pc = "ask" /\ UNCHANGED vars
  <2>1. RunOK
    BY <1>1, <1>7 DEF JudgedOK
  <2>2. UNCHANGED <<jobs, test_results, started, source, target, result_in_baseline_cache, todo, current, judged>>
    BY <1>7 DEF vars, suites, service, memory
  <2>3. Wanted \subseteq todo' \cup {current'} \cup DOMAIN judged'
    BY <2>1, <2>2 DEF RunOK
  <2>4. \A j \in DOMAIN judged' : j \in DOMAIN test_results => judged'[j] = JudgedAs(j)
    BY <2>1, <2>2 DEF RunOK
  <2> QED  BY <1>3, <1>7, <2>1, <2>2, <2>3, <2>4 DEF RunOK
<1> QED  BY <1>1, <1>2, <1>5, <1>6, <1>7, RunIsSteady

-----------------------------------------------------------------------------
LEMMA StartOK ==
  ASSUME Init
  PROVE  ReadOK /\ AnswerOK /\ JudgedOK /\ BestResultWins
<1>1. /\ jobs = <<>> /\ pc = "idle" /\ judged = <<>> /\ test_results = <<>> /\ config \in Configs
      /\ cache = [k \in {REF_TRIG} \X config.referenced |->
                    [state |-> "PASS", version |-> 1, seen |-> 0]]
  BY DEF Init
<1>2. Ended = {} /\ DOMAIN jobs = {}
  BY <1>1 DEF Ended
<1>3. JobsDated /\ JobsSeen
  BY <1>2 DEF JobsDated, JobsSeen
<1>4. Stems(test_results, jobs)
  BY <1>1 DEF Stems, Results
<1>5. Stems(cache, jobs)
  <2>1. config.referenced \subseteq Packages
    BY <1>1, AutopkgtestAssumption
  <2>2. DOMAIN cache \subseteq Tests /\ \A k \in DOMAIN cache : k[1] = REF_TRIG
    BY <1>1, <2>1 DEF Tests
  <2>3. [state |-> "PASS", version |-> 1, seen |-> 0] \in StoredResult
    BY AutopkgtestAssumption DEF StoredResult, Statuses, JobResults
  <2>4. \A k \in DOMAIN cache : cache[k] = [state |-> "PASS", version |-> 1, seen |-> 0]
    BY <1>1
  <2>5. cache \in [DOMAIN cache -> StoredResult]
    BY <1>1, <2>3
  <2> QED  BY <2>2, <2>4, <2>5 DEF Stems, Results
<1> QED  BY <1>1, <1>3, <1>4, <1>5 DEF ReadOK, AnswerOK, JudgedOK, BestResultWins

\* A candidate that migrates has no regression among the tests that were judged.
LEMMA HiddenOnly ==
  ASSUME TypeOK, ReadOK, JudgedOK, BestResultWins, NEW chosen, Migrate(chosen),
         NEW t \in Triggers, Migrates(t), NEW s \in tests_for_source(t), KnownRegression(<<t, s>>)
  PROVE  test_results[<<t, s>>].state \in {"OLD_PASS", "OLD_NEUTRAL"}
<1> DEFINE k == <<t, s>>
<1>1. /\ ~IsSwift /\ IsReference /\ ~config.penalty /\ t \notin config.skiptest
      /\ \E i \in DOMAIN jobs : Read(i) /\ Counts(i, k)
      /\ \A i \in DOMAIN jobs : Counts(i, k) => jobs[i].status = "FAIL"
      /\ Baseline(test_results, s) \in {"PASS", "NEUTRAL", "OLD_PASS", "OLD_NEUTRAL"}
      /\ has_test_in_target(s) /\ config.badtest[s] = 0
  BY DEF KnownRegression
<1>2. /\ pc = "ask" /\ todo = {} /\ current = <<>> /\ chosen \subseteq Passing
      /\ target' = [p \in Packages |-> IF \E c \in chosen : c.source = p
                                       THEN source[p] ELSE target[p]]
  BY DEF Migrate
<1>3. t \in Passing
  <2>1. t.source \in Packages /\ t.version \in 1..MaxVersion
    BY DEF Triggers
  <2>2. PICK c \in chosen : c.source = t.source /\ source[t.source] = t.version
    BY <1>2, <2>1 DEF Migrates
  <2>3. c \in Candidates
    BY <1>2 DEF Passing
  <2>4. c \in Triggers /\ c.version = t.version
    BY <2>2, <2>3 DEF Candidates
  <2>5. c = t
    BY <2>2, <2>4 DEF Triggers
  <2> QED  BY <1>2, <2>5
<1>4. "REGRESSION" \notin StatusesOf(t)
  BY <1>1, <1>3 DEF Passing, verdict
<1>5. k \in Wanted /\ k \in Tests
  BY <1>3 DEF Wanted, Tests, Passing, tests_for_source
<1>6. RunOK
  BY <1>1, <1>2 DEF JudgedOK
<1>7. k \in DOMAIN judged
  BY <1>2, <1>5, <1>6 DEF RunOK, Tests
<1>8. judged[k] # "REGRESSION"
  BY <1>4, <1>7 DEF StatusesOf
<1>9. k \in DOMAIN test_results
  BY <1>1, <1>2 DEF BestResultWins, Counts
<1>10. judged[k] = JudgedAs(k)
  BY <1>6, <1>7, <1>9 DEF RunOK
<1>11. k[1] # REF_TRIG
  BY DEF REF_TRIG, Triggers
<1>12. PICK i \in DOMAIN jobs : Recorded(test_results[k], jobs[i], k)
  BY <1>9, <1>11 DEF ReadOK, Stems
<1>13. i \in Ended /\ jobs[i].visible
  BY <1>12 DEF Recorded, ReadOK, JobsDated
<1>14. /\ jobs[i].version \in 1..MaxVersion /\ test_results[k].version = jobs[i].version
       /\ Fresh(test_results[k].state) = jobs[i].status /\ HasResult(jobs[i], k)
       /\ test_results[k].state \in Statuses
  BY <1>9, <1>12, <1>13, EndedTypes DEF Recorded, ReadOK, Stems, Results, StoredResult
<1>15. ~Failed(k)
  <2>1. ~HasForceBadtest(s, test_results[k].version)
    BY <1>1, <1>14, AutopkgtestAssumption DEF HasForceBadtest
  <2>2. FailureStatus(k, Baseline(test_results, s)) = "REGRESSION"
    BY <1>1, <2>1 DEF FailureStatus
  <2> QED  BY <1>8, <1>10, <2>2 DEF JudgedAs
<1>16. test_results[k].state \notin {"PASS", "NEUTRAL"}
  <2> SUFFICES ASSUME test_results[k].state \in {"PASS", "NEUTRAL"} PROVE FALSE
    OBVIOUS
  <2>1. jobs[i].status = test_results[k].state
    BY <1>14, MarkedOld DEF JobResults
  <2>2. test_version_in_any_suite(k[2], jobs[i].version)
    BY <1>6, <1>9, <1>14 DEF RunOK, FreshInSuite, JobResults, test_version_in_any_suite
  <2>3. Counts(i, k)
    BY <1>13, <1>14, <2>2 DEF Counts, HasResult
  <2> QED  BY <1>1, <2>1, <2>3
<1> QED  BY <1>14, <1>15, <1>16 DEF Failed, Statuses, JobResults

LEMMA OnlyRunsMigrate ==
  ASSUME [Next]_vars, target' # target
  PROVE  \E chosen : Migrate(chosen)
<1>1. ASSUME NEW order, initialise(order) PROVE FALSE
  BY <1>1 DEF initialise, suites
<1>2. ASSUME NEW k, pkg_test_request(k) PROVE FALSE
  BY <1>2 DEF pkg_test_request, suites
<1>3. CASE pkg_test_result \/ SaveResults \/ save_pending_json \/ EndInError
  BY <1>3 DEF pkg_test_result, SaveResults, save_pending_json, EndInError, suites
<1>4. CASE PostAll \/ \E accepted : PostFails(accepted)
  BY <1>4 DEF PostAll, PostFails, Post, suites
<1>5. CASE Service
  BY <1>5 DEF Service, EndJob, PublishResult, suites
<1>6. CASE Tick \/ Crash \/ \E p : Upload(p)
  BY <1>6 DEF Tick, Crash, Upload, suites
<1>7. CASE UNCHANGED vars
  BY <1>7 DEF vars, suites
<1> QED  BY <1>1, <1>2, <1>3, <1>4, <1>5, <1>6, <1>7 DEF Next, Run, AtBound

JudgingOK == ReadOK /\ AnswerOK /\ JudgedOK /\ BestResultWins

THEOREM Judging == Spec => []JudgingOK
<1>1. Init => JudgingOK
  BY StartOK DEF JudgingOK
<1>2. TypeOK /\ AskedOK /\ JudgingOK /\ [Next]_vars => JudgingOK'
  BY ReadStep, AnswerStep, JudgedStep, BestStep DEF JudgingOK
<1> QED  BY <1>1, <1>2, Invariant, PTL DEF Spec

\* No test is ever judged while its result is neither known nor pending
\* (pkg_test_request, request_test_if_not_queued, fetch_swift_results): the
\* error of the last branch of pkg_test_result is never raised.
THEOREM NothingUnknown == Spec => []NeverUnknown
<1>1. JudgingOK => NeverUnknown
  BY DEF JudgingOK, AnswerOK, NeverUnknown
<1> QED  BY <1>1, Judging, PTL

\* Whatever the order of the entries in debci's file, what the run goes by
\* dominates every job it has read (add_trigger_to_results, filter_old_results).
THEOREM TheBestIsRead == Spec => []BestResultWins
<1>1. JudgingOK => BestResultWins
  BY DEF JudgingOK
<1> QED  BY <1>1, Judging, PTL

\* A test all whose results are failures, of a package that passes in the
\* target suite, lets no candidate migrate unless an old pass is stored for it
\* (apply_src_policy_impl, pkg_test_result, filter_old_results).
THEOREM RegressionsHide == Spec => RegressionsHideBehindOldPasses
<1> DEFINE Step == \A t \in Triggers : Migrates(t) =>
                     \A s \in tests_for_source(t) :
                       KnownRegression(<<t, s>>) =>
                         test_results[<<t, s>>].state \in {"OLD_PASS", "OLD_NEUTRAL"}
<1>1. TypeOK /\ JudgingOK /\ [Next]_vars => [Step]_target
  <2> SUFFICES ASSUME TypeOK, JudgingOK, [Next]_vars, target' # target PROVE Step
    OBVIOUS
  <2>1. PICK chosen : Migrate(chosen)
    BY OnlyRunsMigrate
  <2> QED  BY <2>1, HiddenOnly DEF JudgingOK
<1> QED  BY <1>1, Invariant, Judging, PTL DEF Spec, RegressionsHideBehindOldPasses

-----------------------------------------------------------------------------
(***************************************************************************)
(* Pending requests.  With swift, what is pending on disk and not cut off  *)
(* by a failure has a reason: a job that is not visible, broken or late,   *)
(* or one that is newer than every result of its package, which the next   *)
(* request for a test of the package reads.  What a run has asked for is   *)
(* in its file until that is posted.                                       *)
(***************************************************************************)
Why(j, k, latest) ==
  /\ k \in Covers(j)
  /\ ~j.visible \/ j.status = "broken" \/ j.late \/ j.seen > latest

Explained(k, results, js) ==
  \E i \in DOMAIN js : Why(js[i], k, latest_run_for_package(results, k[2]))

OrphansOK ==
  IsSwift =>
    /\ pc \in {"idle", "ask", "save", "NameError"} =>
         \A k \in pending_tests_file \ lost : Explained(k, cache, jobs)
    /\ pc \in {"ask", "save"} =>
         \A k \in pending_tests \ lost : k \in Asked \/ Explained(k, test_results, jobs)
    /\ pc = "save_pending" =>
         \A k \in pending_tests \ lost : k \in Asked \/ Explained(k, cache, jobs)
    /\ pc = "put" =>
         \A k \in pending_tests_file \ lost : k \in Asked \/ Explained(k, cache, jobs)

LEMMA LatestRun ==
  ASSUME TypeOK, JobsDated, NEW results, Stems(results, jobs), NEW p
  PROVE  LET m == latest_run_for_package(results, p)
         IN  /\ m \in Nat
             /\ \A k \in DOMAIN results : k[2] = p => results[k].seen <= m
             /\ m = 0 \/ \E k \in DOMAIN results : k[2] = p /\ results[k].seen = m
<1> DEFINE runs == {results[k].seen : k \in {k \in DOMAIN results : k[2] = p}}
           m == latest_run_for_package(results, p)
<1>1. now \in Nat
  BY DEF TypeOK
<1>2. ASSUME NEW k \in DOMAIN results PROVE results[k].seen \in Nat /\ results[k].seen <= now
  <2>1. results[k] \in StoredResult
    BY <1>2 DEF Stems, Results
  <2>2. CASE \E i \in DOMAIN jobs : Recorded(results[k], jobs[i], k)
    <3>1. PICK i \in DOMAIN jobs : Recorded(results[k], jobs[i], k)
      BY <2>2
    <3>2. i \in Ended
      BY <3>1 DEF Recorded, JobsDated
    <3> QED  BY <2>1, <3>1, <3>2, EndedTypes DEF Recorded, StoredResult
  <2>3. CASE results[k].seen = 0
    BY <1>1, <2>3
  <2> QED  BY <2>2, <2>3 DEF Stems
<1> DEFINE T == runs \cup {0}
<1>3. T \in SUBSET Nat /\ T # {} /\ \A n \in T : n <= now
  BY <1>1, <1>2
<1> HIDE DEF T
<1>4. \E x \in T : \A n \in T : n <= x
  BY <1>1, <1>3, Greatest
<1>5. m \in runs \cup {0} /\ \A n \in runs : n <= m
  <2>1. \E x \in runs \cup {0} : \A n \in runs : n <= x
    BY <1>4 DEF T
  <2>2. m = CHOOSE x \in runs \cup {0} : \A n \in runs : n <= x
    BY DEF latest_run_for_package
  <2> HIDE DEF runs, m
  <2> QED  BY <2>1, <2>2
<1> QED  BY <1>3, <1>5 DEF T

LEMMA SameLatest ==
  ASSUME NEW results, NEW more, NEW p,
         \A k : k[2] = p => /\ k \in DOMAIN results <=> k \in DOMAIN more
                            /\ k \in DOMAIN results => results[k].seen = more[k].seen
  PROVE  latest_run_for_package(results, p) = latest_run_for_package(more, p)
<1>1. {results[k].seen : k \in {k \in DOMAIN results : k[2] = p}}
      = {more[k].seen : k \in {k \in DOMAIN more : k[2] = p}}
  OBVIOUS
<1> QED  BY <1>1 DEF latest_run_for_package

\* Fetching the results of a package leaves nothing pending without a reason.
LEMMA FetchedExplained ==
  ASSUME TypeOK, ReadOK, NEW p
  PROVE  LET new == fetch_swift_results(p)
         IN  /\ new.pending \subseteq pending_tests
             /\ \A k \in new.pending :
                  Explained(k, test_results, jobs) => Explained(k, new.results, jobs)
<1> DEFINE results == fetch_swift_results(p).results
           new == Listed(p)
           order == ByRunId(new)
           added == AddResults(test_results, order)
           gone == UNION {Covers(jobs[i]) : i \in {i \in new : jobs[i].status # "broken"}}
           last(q) == latest_run_for_package(test_results, q)
<1>1. fetch_swift_results(p) =
        IF p \in fetched THEN [results |-> test_results, pending |-> pending_tests]
        ELSE [results |-> added, pending |-> pending_tests \ gone]
  BY DEF fetch_swift_results
<1>2. JobsDated /\ Stems(test_results, jobs)
  BY DEF ReadOK
<1>3. CASE p \in fetched
  <2> HIDE DEF added, gone
  <2> QED  BY <1>1, <1>3
<1>4. CASE p \notin fetched
  <2>1. results = added /\ fetch_swift_results(p).pending = pending_tests \ gone
    <3> HIDE DEF added, gone
    <3> QED  BY <1>1, <1>4
  <2>2. new \in SUBSET Ended
    BY DEF Listed
  <2>3. IsFiniteSet(new) /\ order \in SetToSeqs(new)
    BY <1>2, <2>2, EndedFinite, FS_Subset, RunIdOrder
  <2>4. /\ Cardinality(new) \in Nat /\ order \in [1..Cardinality(new) -> new]
    <3> HIDE DEF new, order
    <3> QED  BY <2>3, OrdersList
  <2> DEFINE N == Cardinality(new)
  <2> HIDE DEF order, N
  <2>5. /\ DOMAIN test_results \subseteq DOMAIN results
        /\ \A k \in DOMAIN results :
             \/ k \in DOMAIN test_results /\ results[k] = test_results[k]
             \/ \E n \in 1..N : HasResult(jobs[order[n]], k) /\ results[k] = ResultOf(jobs[order[n]])
    <3>1. N \in Nat /\ order \in [1..N -> Ended]
      BY <2>2, <2>4 DEF N
    <3>2. Results(test_results)
      BY <1>2 DEF Stems
    <3> HIDE DEF new, added
    <3>3. results = AddResults(test_results, order)
      BY <2>1 DEF added
    <3> HIDE DEF results
    <3> QED  BY <1>2, <3>1, <3>2, <3>3, ReadingKeepsTheBest
  <2>6. \A n \in 1..N : order[n] \in new
    BY <2>4 DEF N
  <2>7. \A n \in 1..N : \A k : HasResult(jobs[order[n]], k) => k[2] = p
    BY <2>6 DEF Listed, HasResult, Covers
  <2> HIDE DEF results
  <2>8. ASSUME NEW k \in pending_tests \ gone, Explained(k, test_results, jobs)
        PROVE  Explained(k, results, jobs)
    <3>1. PICK i \in DOMAIN jobs : Why(jobs[i], k, last(k[2]))
      BY <2>8 DEF Explained
    <3>2. CASE ~jobs[i].visible \/ jobs[i].status = "broken" \/ jobs[i].late
      BY <3>1, <3>2 DEF Why, Explained
    <3>3. CASE /\ jobs[i].visible /\ jobs[i].status # "broken" /\ jobs[i].seen > last(k[2])
      <4>1. i \in Ended /\ k \in Covers(jobs[i]) /\ jobs[i].request.src = k[2]
        BY <1>2, <3>1, <3>3 DEF JobsDated, Why, Covers
      <4>2. k[2] # p
        BY <2>8, <3>3, <4>1 DEF Listed
      <4>3. \A x : x[2] = k[2] => (x \in DOMAIN results <=> x \in DOMAIN test_results)
              /\ (x \in DOMAIN results => results[x] = test_results[x])
        BY <2>5, <2>7, <4>2
      <4>4. latest_run_for_package(results, k[2]) = last(k[2])
        BY <4>3, SameLatest
      <4> QED  BY <3>1, <4>4 DEF Explained
    <3> QED  BY <3>1, <3>2, <3>3 DEF Why
  <2> QED  BY <2>1, <2>8 DEF results
<1> QED  BY <1>3, <1>4

\* What a run comes to ask for is in its file; nothing leaves that.
LEMMA RequestInFile ==
  ASSUME NEW t \in Triggers \cup {REF_TRIG}, NEW p \in Packages, pc = "ask", pc' = "ask",
         NEW pending, request_test_if_not_queued(t, p, pending)
  PROVE  Asked \subseteq Asked' /\ pending_tests' \subseteq pending \cup Asked'
<1>1. CASE <<t, p>> \in pending
  BY <1>1 DEF request_test_if_not_queued, Asked
<1>2. CASE <<t, p>> \notin pending
  <2> DEFINE r == Request(t, p)
  <2>1. r.trigger = t /\ r.src = p
    BY RequestTypes
  <2>2. pending_tests' = pending \cup {<<t, p>>} /\ send_test_request(t, p)
    BY <1>2 DEF request_test_if_not_queued
  <2>3. amqp_file' = amqp_file \cup {r}
    BY <2>2 DEF send_test_request
  <2> HIDE DEF r
  <2>4. TestOf(r) = <<t, p>>
    BY <2>1 DEF TestOf
  <2> QED  BY <2>2, <2>3, <2>4 DEF Asked
<1> QED  BY <1>1, <1>2

\* What was posted is a job with no answer yet, and the other jobs stay.
LEMMA PostedExplained ==
  ASSUME TypeOK, AskedOK, NEW accepted \in SUBSET amqp_file, Post(accepted)
  PROVE  /\ \A k : Explained(k, cache, jobs) => Explained(k, cache, jobs')
         /\ \A r \in accepted : Explained(TestOf(r), cache, jobs')
<1> DEFINE queue == SetToSeq({Queued(r) : r \in accepted})
<1>1. accepted \in SUBSET RequestType /\ IsFiniteSet(accepted)
  BY FS_Subset DEF TypeOK, AskedOK, FileOK
<1>2. /\ queue \in Seq(JobType)
      /\ \A r \in accepted : \E i \in 1..Len(queue) : queue[i] = Queued(r)
  BY <1>1, QueuedOnce
<1>3. jobs' = jobs \o queue /\ jobs \in Seq(JobType)
  BY DEF Post, TypeOK
<1> HIDE DEF queue
<1>4. \A i \in DOMAIN jobs : i \in DOMAIN jobs' /\ jobs'[i] = jobs[i]
  BY <1>2, <1>3
<1>5. ASSUME NEW r \in accepted PROVE Explained(TestOf(r), cache, jobs')
  <2>1. PICK i \in 1..Len(queue) : queue[i] = Queued(r)
    BY <1>2
  <2>2. Len(jobs) + i \in DOMAIN jobs' /\ jobs'[Len(jobs) + i] = Queued(r)
    BY <1>2, <1>3, <2>1
  <2>3. r.trigger \in r.triggers
    BY DEF AskedOK, FileOK
  <2>4. TestOf(r) \in Covers(Queued(r)) /\ ~Queued(r).visible
    BY <2>3 DEF TestOf, Covers, Queued
  <2> QED  BY <2>2, <2>4 DEF Explained, Why
<1> QED  BY <1>4, <1>5 DEF Explained

\* A job that ends is not visible yet; the results of one that becomes visible
\* are newer than all the others of its package, or late.
LEMMA ServiceExplained ==
  ASSUME TypeOK, ReadOK, IsSwift, NEW k, Explained(k, cache, jobs), NEW i \in DOMAIN jobs,
         \/ \E o \in Outcomes, v \in 1..MaxVersion : EndJob(i, o, v)
         \/ PublishResult(i)
  PROVE  Explained(k, cache, jobs')
<1> DEFINE last == latest_run_for_package(cache, k[2])
<1>0. jobs \in Seq(JobType) /\ jobs[i] \in JobType /\ now \in Nat
  BY DEF TypeOK
<1>2. ASSUME NEW m \in DOMAIN jobs, Why(jobs[m], k, last)
      PROVE  m \in DOMAIN jobs' /\ Why(jobs'[m], k, last)
  <2>1. CASE m # i
    <3>1. DOMAIN jobs' = DOMAIN jobs /\ jobs'[m] = jobs[m]
      BY <1>0, <2>1 DEF EndJob, PublishResult
    <3> QED  BY <1>2, <3>1
  <2>2. ASSUME m = i, NEW o \in Outcomes, NEW v \in 1..MaxVersion, EndJob(i, o, v)
        PROVE  m \in DOMAIN jobs' /\ Why(jobs'[m], k, last)
    <3>1. jobs' = [jobs EXCEPT ![i] = [jobs[i] EXCEPT !.status = o, !.version = v,
                    !.seen = now + 1, !.visible = ~IsSwift]]
      BY <2>2 DEF EndJob
    <3>2. /\ m \in DOMAIN jobs' /\ jobs'[m].request = jobs[m].request /\ jobs'[m].visible = FALSE
      BY <1>0, <2>2, <3>1 DEF JobType
    <3> QED  BY <1>2, <3>2 DEF Why, Covers
  <2>3. ASSUME m = i, PublishResult(i)
        PROVE  m \in DOMAIN jobs' /\ Why(jobs'[m], k, last)
    <3> DEFINE late == \E x \in Ended : /\ jobs[x].visible
                                        /\ jobs[x].request.src = jobs[i].request.src
                                        /\ jobs[x].seen > jobs[i].seen
    <3>1. /\ jobs' = [jobs EXCEPT ![i].visible = TRUE, ![i].late = late]
          /\ i \in Ended /\ ~jobs[i].visible
      BY <2>3 DEF PublishResult
    <3>2. /\ m \in DOMAIN jobs' /\ jobs'[m].request = jobs[m].request
          /\ jobs'[m].status = jobs[m].status /\ jobs'[m].version = jobs[m].version
          /\ jobs'[m].seen = jobs[m].seen /\ jobs'[m].late = late
      <4> HIDE DEF late
      <4> QED  BY <1>0, <2>3, <3>1 DEF JobType
    <3>3. k \in Covers(jobs'[m]) /\ k[2] = jobs[i].request.src
      BY <1>2, <2>3, <3>2 DEF Why, Covers
    <3>4. CASE late
      BY <3>2, <3>3, <3>4 DEF Why
    <3>5. CASE ~late
      <4>1. /\ last \in Nat
            /\ last = 0 \/ \E x \in DOMAIN cache : x[2] = k[2] /\ cache[x].seen = last
        BY LatestRun DEF ReadOK
      <4>2. jobs[i].seen \in Nat /\ jobs[i].seen >= 1
        BY <3>1, EndedTypes DEF ReadOK
      <4> HIDE DEF last
      <4>3. ASSUME last # 0 PROVE last < jobs[i].seen
        <5>1. PICK x \in DOMAIN cache : x[2] = k[2] /\ cache[x].seen = last
          BY <4>1, <4>3
        <5>2. PICK n \in DOMAIN jobs : Recorded(cache[x], jobs[n], x)
          BY <4>3, <5>1 DEF ReadOK, Stems
        <5>3. /\ n \in Ended /\ jobs[n].visible /\ jobs[n].seen = last
              /\ jobs[n].request.src = k[2]
          BY <5>1, <5>2 DEF Recorded, ReadOK, JobsDated, HasResult, Covers
        <5>4. ~(jobs[n].seen > jobs[i].seen) /\ jobs[n].seen # jobs[i].seen
          BY <3>1, <3>3, <3>5, <5>3 DEF ReadOK, JobsDated
        <5> QED  BY <4>1, <4>2, <5>3, <5>4
      <4>4. jobs'[m].seen > last
        BY <2>3, <3>2, <4>1, <4>2, <4>3
      <4> QED  BY <3>2, <3>3, <4>4 DEF Why
    <3> QED  BY <3>4, <3>5
  <2> QED  BY <2>1, <2>2, <2>3
<1> QED  BY <1>2 DEF Explained

\* A run that goes on.
LEMMA RunExplained ==
  ASSUME OrphansOK, IsSwift, pc = "ask", pc' \in {"ask", "NameError"},
         UNCHANGED <<config, cache, pending_tests_file, lost, jobs>>,
         pc' = "ask" => /\ Asked \subseteq Asked' /\ pending_tests' \subseteq pending_tests \cup Asked'
                        /\ \A k \in pending_tests' :
                             Explained(k, test_results, jobs) => Explained(k, test_results', jobs)
  PROVE  OrphansOK'
BY DEF OrphansOK, IsSwift

LEMMA OrphansStep ==
  ASSUME TypeOK, AskedOK, ReadOK, OrphansOK, [Next]_vars
  PROVE  OrphansOK'
<1> SUFFICES ASSUME IsSwift, config' = config PROVE OrphansOK'
  BY ConfigStays DEF OrphansOK, IsSwift
<1>1. ASSUME NEW order, initialise(order) PROVE OrphansOK'
  <2>1. /\ test_results' = IF IsReference THEN filter_old_results(cache) ELSE cache
        /\ pending_tests' = pending_tests_file /\ pc' = "ask" /\ pc = "idle"
        /\ UNCHANGED <<cache, jobs, pending_tests_file, lost>>
    BY <1>1 DEF initialise, disk, service
  <2>2. /\ DOMAIN test_results' = DOMAIN cache
        /\ \A k \in DOMAIN cache : test_results'[k].seen = cache[k].seen
    BY <2>1, Filtered DEF ReadOK
  <2>3. \A p : latest_run_for_package(test_results', p) = latest_run_for_package(cache, p)
    BY <2>2, SameLatest
  <2> QED  BY <2>1, <2>3 DEF OrphansOK, Explained
<1>2. CASE todo # {} /\ pkg_test_request(NextTest)
  <2> DEFINE k == NextTest
             t == k[1]
             p == k[2]
             new == fetch_swift_results(p)
  <2>1. /\ t \in Triggers \cup {REF_TRIG} /\ p \in Packages /\ pc = "ask"
        /\ UNCHANGED <<suites, disk, service>>
        /\ \/ UNCHANGED <<test_results, pending_tests, amqp_file, pc>>
           \/ /\ test_results' = new.results
              /\ \/ pending_tests' = new.pending /\ UNCHANGED <<amqp_file, pc>>
                 \/ request_test_if_not_queued(t, p, new.pending)
    BY <1>2, TestAsked
  <2>2. /\ \A x \in new.pending :
             Explained(x, test_results, jobs) => Explained(x, new.results, jobs)
        /\ new.pending \subseteq pending_tests
    BY FetchedExplained
  <2> HIDE DEF new, t, p
  <2>3. CASE UNCHANGED <<test_results, pending_tests, amqp_file, pc>>
    BY <2>1, <2>3, RunExplained DEF disk, service, Asked
  <2>4. CASE test_results' = new.results /\ pending_tests' = new.pending /\ UNCHANGED <<amqp_file, pc>>
    BY <2>1, <2>2, <2>4, RunExplained DEF disk, service, Asked
  <2>5. CASE test_results' = new.results /\ request_test_if_not_queued(t, p, new.pending)
    <3>1. pc' \in {"ask", "NameError"}
      BY <2>1, <2>5 DEF request_test_if_not_queued, send_test_request
    <3>2. CASE pc' = "NameError"
      BY <2>1, <3>2, RunExplained DEF disk, service
    <3>3. CASE pc' = "ask"
      <4>1. Asked \subseteq Asked' /\ pending_tests' \subseteq new.pending \cup Asked'
        BY <2>1, <2>5, <3>3, RequestInFile
      <4> QED  BY <2>1, <2>2, <2>5, <3>3, <4>1 DEF OrphansOK, IsSwift, disk, service
    <3> QED  BY <3>1, <3>2, <3>3
  <2> QED  BY <2>1, <2>3, <2>4, <2>5
<1>3. CASE save_pending_json
  BY <1>3 DEF save_pending_json, service, OrphansOK, Asked
<1>4. CASE pkg_test_result
  <2> DEFINE p == current[2]
  <2>1. /\ p \in Packages /\ pc = "ask" /\ UNCHANGED <<disk, service, test_results>>
        /\ \/ UNCHANGED <<pending_tests, amqp_file, pc>>
           \/ request_test_if_not_queued(REF_TRIG, p, pending_tests)
    <3>1. /\ UNCHANGED <<disk, service, test_results>> /\ pc = "ask" /\ current # <<>>
          /\ \/ UNCHANGED <<pending_tests, amqp_file, pc>>
             \/ request_test_if_not_queued(REF_TRIG, p, pending_tests)
      BY <1>4 DEF pkg_test_result
    <3>2. current \in Tests
      BY <3>1 DEF TypeOK
    <3> QED  BY <3>1, <3>2 DEF Tests
  <2> HIDE DEF p
  <2>2. CASE UNCHANGED <<pending_tests, amqp_file, pc>>
    BY <2>1, <2>2, RunExplained DEF disk, service, Asked
  <2>3. CASE request_test_if_not_queued(REF_TRIG, p, pending_tests)
    <3>1. pc' \in {"ask", "NameError"}
      BY <2>1, <2>3 DEF request_test_if_not_queued, send_test_request
    <3>2. pc' = "ask" => Asked \subseteq Asked' /\ pending_tests' \subseteq pending_tests \cup Asked'
      BY <2>1, <2>3, RequestInFile
    <3> QED  BY <2>1, <3>1, <3>2, RunExplained DEF disk, service
  <2> QED  BY <2>1, <2>2, <2>3
<1>5. ASSUME NEW chosen, Migrate(chosen) PROVE OrphansOK'
  BY <1>5 DEF Migrate, disk, service, memory, OrphansOK, Asked
<1>6. CASE SaveResults
  BY <1>6 DEF SaveResults, service, memory, OrphansOK, Asked
<1>7. CASE EndInError
  BY <1>7 DEF EndInError, disk, service, OrphansOK
<1>8. ASSUME NEW accepted \in SUBSET amqp_file, pc = "put", Post(accepted),
             lost \cup {TestOf(r) : r \in amqp_file \ accepted} \subseteq lost'
      PROVE  OrphansOK'
  <2>1. pc' = "idle" /\ UNCHANGED <<cache, pending_tests_file>>
    BY <1>8 DEF Post
  <2>2. ASSUME NEW k \in pending_tests_file \ lost' PROVE Explained(k, cache, jobs')
    <3>1. k \in Asked \/ Explained(k, cache, jobs)
      BY <1>8, <2>2 DEF OrphansOK
    <3>2. CASE k \in Asked
      <4>1. PICK r \in amqp_file : k = TestOf(r)
        BY <3>2 DEF Asked
      <4>2. r \in accepted
        BY <1>8, <2>2, <4>1
      <4> QED  BY <1>8, <4>1, <4>2, PostedExplained
    <3>3. CASE Explained(k, cache, jobs)
      BY <1>8, <3>3, PostedExplained
    <3> QED  BY <3>1, <3>2, <3>3
  <2> QED  BY <2>1, <2>2 DEF OrphansOK
<1>9. CASE PostAll
  BY <1>8, <1>9 DEF PostAll
<1>10. ASSUME NEW accepted \in SUBSET amqp_file, PostFails(accepted) PROVE OrphansOK'
  BY <1>8, <1>10 DEF PostFails
<1>11. CASE Service
  <2>1. PICK i \in DOMAIN jobs :
          \/ \E o \in Outcomes, v \in 1..MaxVersion : EndJob(i, o, v)
          \/ PublishResult(i)
    BY <1>11 DEF Service
  <2>2. UNCHANGED <<disk, pc>> /\ pc = "idle"
    BY <2>1 DEF EndJob, PublishResult
  <2>3. \A k \in pending_tests_file \ lost : Explained(k, cache, jobs')
    BY <2>1, <2>2, ServiceExplained DEF OrphansOK
  <2> QED  BY <2>2, <2>3 DEF OrphansOK, disk
<1>12. CASE Tick \/ \E p : Upload(p)
  BY <1>12 DEF Tick, Upload, disk, service, memory, OrphansOK
<1>13. CASE Crash
  <2>1. /\ pc \in {"ask", "save", "save_pending"} /\ pc' = "idle"
        /\ UNCHANGED <<cache, pending_tests_file, jobs>>
        /\ lost' = lost \cup IF pc = "save_pending"
                            THEN pending_tests_file \ (pending_tests \ Asked) ELSE {}
    BY <1>13 DEF Crash
  <2>2. \A k \in pending_tests_file \ lost' : Explained(k, cache, jobs)
    BY <2>1 DEF OrphansOK
  <2> QED  BY <2>1, <2>2 DEF OrphansOK
<1>14. CASE UNCHANGED vars
  BY <1>14 DEF vars, disk, service, memory, OrphansOK, Asked
<1> QED
  BY <1>1, <1>2, <1>3, <1>4, <1>5, <1>6, <1>7, <1>9, <1>10, <1>11, <1>12, <1>13, <1>14
  DEF Next, Run, AtBound

\* With swift and between two runs, a test that is pending on disk has a job
\* whose answer is still to come, to be read, damaged or late, unless a failed
\* post or a crash between the renames of save_state has cut its request off
\* (fetch_swift_results, request_test_if_not_queued, save_state, debci-put.py).
THEOREM NothingOrphaned == Spec => []OrphansExplained
<1>1. Init => OrphansOK
  BY DEF Init, OrphansOK
<1>2. TypeOK /\ AskedOK /\ JudgingOK /\ OrphansOK /\ [Next]_vars => OrphansOK'
  BY OrphansStep DEF JudgingOK
<1>3. OrphansOK => OrphansExplained
  BY DEF OrphansOK, OrphansExplained, Explained, Why
<1> QED  BY <1>1, <1>2, <1>3, Invariant, Judging, PTL DEF Spec

=============================================================================
