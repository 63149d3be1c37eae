--------------------------- MODULE AgePolicyProofs ---------------------------
(***************************************************************************)
(* Proofs about the module AgePolicy: what becomes of the dates, whatever  *)
(* the packages, urgencies, bounties and hints, however many days pass and *)
(* however many runs end early.                                            *)
(***************************************************************************)
EXTENDS AgePolicy, Induction, TLAPS

-----------------------------------------------------------------------------
(* Dates. *)

\* Dates are functions on some of the packages.
LEMMA DatesAre ==
  ASSUME NEW dates
  PROVE  IsDates(dates) <=>
           /\ dates = [p \in DOMAIN dates |-> dates[p]]
           /\ DOMAIN dates \subseteq Packages
           /\ \A p \in DOMAIN dates : /\ dates[p] \in Versions \X (0..MaxAge)
                                      /\ dates[p][1] <= source[p]
<1>1. ASSUME IsDates(dates)
      PROVE  /\ dates = [p \in DOMAIN dates |-> dates[p]]
             /\ DOMAIN dates \subseteq Packages
             /\ \A p \in DOMAIN dates : dates[p] \in Versions \X (0..MaxAge)
  <2>1. PICK P \in SUBSET Packages : dates \in [P -> Versions \X (0..MaxAge)]
    BY <1>1 DEF IsDates, Partial, Dates
  <2> QED  BY <2>1
<1>2. ASSUME dates = [p \in DOMAIN dates |-> dates[p]],
             DOMAIN dates \subseteq Packages,
             \A p \in DOMAIN dates : dates[p] \in Versions \X (0..MaxAge)
      PROVE  dates \in Partial
  <2>1. dates \in [DOMAIN dates -> Versions \X (0..MaxAge)]
    BY <1>2
  <2> QED  BY <1>2, <2>1 DEF Partial, Dates
<1> QED  BY <1>1, <1>2 DEF IsDates

\* No dates at all.
LEMMA NoDates == IsDates(<<>>) /\ DOMAIN <<>> = {}
<1>1. DOMAIN <<>> = {} /\ <<>> = [p \in DOMAIN <<>> |-> <<>>[p]]
  OBVIOUS
<1> QED  BY <1>1, DatesAre

LEMMA OlderIs ==
  ASSUME NEW m \in 0..MaxAge, NEW n \in 0..MaxAge
  PROVE  /\ Older(n) \in 0..MaxAge /\ Older(n) >= n
         /\ m <= n => Older(m) <= Older(n)
BY AgePolicyAssumption DEF Older

\* A day later they are dates again.
LEMMA AllOlderDates ==
  ASSUME NEW dates, IsDates(dates)
  PROVE  IsDates(AllOlder(dates))
<1>1. /\ DOMAIN dates \subseteq Packages
      /\ \A p \in DOMAIN dates : dates[p] \in Versions \X (0..MaxAge) /\ dates[p][1] <= source[p]
  BY DatesAre
<1>2. /\ DOMAIN AllOlder(dates) = DOMAIN dates
      /\ AllOlder(dates) = [p \in DOMAIN AllOlder(dates) |-> AllOlder(dates)[p]]
      /\ \A p \in DOMAIN dates : AllOlder(dates)[p] = <<dates[p][1], Older(dates[p][2])>>
  BY DEF AllOlder
<1>3. \A p \in DOMAIN dates :
        /\ <<dates[p][1], Older(dates[p][2])>> \in Versions \X (0..MaxAge)
        /\ <<dates[p][1], Older(dates[p][2])>>[1] <= source[p]
  BY <1>1, OlderIs
<1> QED  BY <1>1, <1>2, <1>3, DatesAre

\* What a run reads.
LEMMA ReadDates ==
  ASSUME IsFile(dates_file), IsFile(legacy_file)
  PROVE  /\ IsDates(_read_dates_file)
         /\ _read_dates_file \in dates_file \cup legacy_file \cup {<<>>}
         /\ \A dates : dates_file = {dates} => _read_dates_file = dates
<1>1. \A file : \A dates : file = {dates} => Contents(file) = dates
  BY DEF Contents
<1>2. CASE dates_file # NoFile
  <2>1. PICK dates \in dates_file : dates_file = {dates} /\ IsDates(dates)
    BY <1>2 DEF IsFile
  <2> QED  BY <1>1, <1>2, <2>1 DEF _read_dates_file
<1>3. CASE dates_file = NoFile /\ legacy_file # NoFile
  <2>1. PICK dates \in legacy_file : legacy_file = {dates} /\ IsDates(dates)
    BY <1>3 DEF IsFile
  <2> QED  BY <1>1, <1>3, <2>1 DEF _read_dates_file, NoFile
<1>4. CASE dates_file = NoFile /\ legacy_file = NoFile
  BY <1>4, NoDates DEF _read_dates_file, NoFile
<1> QED  BY <1>2, <1>3, <1>4

\* The verdicts of a run note a date for each candidate.
LEMMA DatesAfterIs ==
  ASSUME TypeOK
  PROVE  /\ IsDates(DatesAfter)
         /\ DOMAIN DatesAfter = DOMAIN _dates \cup Candidates
         /\ \A p \in DOMAIN DatesAfter :
              \/ p \in DOMAIN _dates /\ DatesAfter[p] = _dates[p]
              \/ /\ DatesAfter[p] = <<source[p], 0>>
                 /\ ~(p \in DOMAIN _dates /\ _dates[p][1] = source[p])
<1>1. /\ DOMAIN _dates \subseteq Packages
      /\ \A p \in DOMAIN _dates : _dates[p] \in Versions \X (0..MaxAge) /\ _dates[p][1] <= source[p]
  BY DatesAre DEF TypeOK
<1>2. /\ DOMAIN DatesAfter = DOMAIN _dates \cup Candidates
      /\ DatesAfter = [p \in DOMAIN DatesAfter |-> DatesAfter[p]]
      /\ Candidates \subseteq Packages
  BY DEF DatesAfter, Candidates
<1>3. ASSUME NEW p \in DOMAIN _dates \cup Candidates
      PROVE  \/ p \in DOMAIN _dates /\ DatesAfter[p] = _dates[p]
             \/ /\ DatesAfter[p] = <<source[p], 0>>
                /\ ~(p \in DOMAIN _dates /\ _dates[p][1] = source[p])
  BY <1>3 DEF DatesAfter, DateOf
<1>4. \A p \in Packages : <<source[p], 0>> \in Versions \X (0..MaxAge)
                          /\ <<source[p], 0>>[1] <= source[p]
  BY AgePolicyAssumption DEF TypeOK, Versions
<1>5. IsDates(DatesAfter)
  BY <1>1, <1>2, <1>3, <1>4, DatesAre
<1> QED  BY <1>2, <1>3, <1>5

-----------------------------------------------------------------------------
(* Types. *)

\* Dates stay dates while versions only grow.
LEMMA DatesStay ==
  ASSUME TypeOK, source' \in [Packages -> Versions], \A p \in Packages : source[p] <= source'[p]
  PROVE  /\ \A dates : IsDates(dates) => IsDates(dates)'
         /\ \A file : IsFile(file) => IsFile(file)'
<1>1. ASSUME NEW dates, IsDates(dates)  PROVE IsDates(dates)'
  <2>1. PICK P \in SUBSET Packages : dates \in [P -> Versions \X (0..MaxAge)]
    BY <1>1 DEF IsDates, Partial, Dates
  <2>2. \A p \in DOMAIN dates : dates[p][1] <= source[p] /\ dates[p][1] \in Nat /\ p \in Packages
    BY <1>1, <2>1, AgePolicyAssumption DEF IsDates, Versions
  <2>3. \A p \in Packages : source[p] \in Nat /\ source'[p] \in Nat
    BY AgePolicyAssumption DEF TypeOK, Versions
  <2>4. \A p \in DOMAIN dates : dates[p][1] <= source'[p]
    BY <2>2, <2>3
  <2> QED  BY <1>1, <2>4 DEF IsDates
<1> QED  BY <1>1 DEF IsFile

LEMMA InitTypes == Init => TypeOK
<1> SUFFICES ASSUME Init PROVE TypeOK
  OBVIOUS
<1>1. source \in [Packages -> Versions] /\ target \in [Packages -> 0..MaxVersion]
  BY AgePolicyAssumption DEF Init, Versions
<1>2. arrived \in [Packages -> 0..MaxAge] /\ faults \in 0..MaxFaults
  BY AgePolicyAssumption DEF Init
<1>3. IsDates([p \in Packages |-> <<1, MaxAge>>])
  <2> DEFINE all == [p \in Packages |-> <<1, MaxAge>>]
  <2>1. all = [p \in DOMAIN all |-> all[p]] /\ DOMAIN all = Packages
    OBVIOUS
  <2>2. \A p \in Packages : all[p] \in Versions \X (0..MaxAge) /\ all[p][1] <= source[p]
    BY AgePolicyAssumption DEF Init, Versions
  <2> HIDE DEF all
  <2>3. IsDates(all)
    BY <2>1, <2>2, DatesAre
  <2> QED  BY <2>3 DEF all
<1>4. IsFile(dates_file) /\ IsFile(legacy_file) /\ IsDates(_dates)
  BY <1>3, NoDates DEF Init, IsFile, NoFile
<1> QED  BY <1>1, <1>2, <1>4 DEF Init, TypeOK

LEMMA StepTypes == TypeOK /\ [Next]_vars => TypeOK'
<1> SUFFICES ASSUME TypeOK, [Next]_vars PROVE TypeOK'
  OBVIOUS
<1> USE AgePolicyAssumption
<1>1. ASSUME UNCHANGED source  PROVE /\ \A dates : IsDates(dates)' <=> IsDates(dates)
                                     /\ \A file : IsFile(file)' <=> IsFile(file)
  BY <1>1 DEF IsDates, IsFile
<1>2. CASE initialise
  <2>1. IsDates(_dates') /\ IsFile(dates_file')
    <3>1. IsFile(dates_file')
      BY <1>2, NoDates DEF initialise, IsFile, NoFile, TypeOK
    <3> QED  BY <1>2, <3>1, ReadDates DEF initialise, TypeOK
  <2>2. pc' \in {"excuses", "raised"} /\ UNCHANGED <<source, target, arrived, legacy_file, faults>>
    BY <1>2 DEF initialise, suites
  <2> QED  BY <1>1, <2>1, <2>2 DEF TypeOK
<1>3. ASSUME NEW b, NEW q, apply_src_policy(b, q)  PROVE TypeOK'
  BY <1>1, <1>3, DatesAfterIs DEF apply_src_policy, TypeOK, suites, files
<1>4. ASSUME NEW chosen \in SUBSET Packages, Migrate(chosen)  PROVE TypeOK'
  <2>1. target' \in [Packages -> 0..MaxVersion]
    BY <1>4 DEF Migrate, TypeOK, Versions
  <2> QED  BY <1>1, <1>4, <2>1 DEF Migrate, TypeOK, files
<1>5. CASE _write_dates_file
  <2>1. IsFile(dates_file')
    BY <1>5 DEF _write_dates_file, IsFile, TypeOK
  <2> QED  BY <1>1, <1>5, <2>1 DEF _write_dates_file, TypeOK, suites
<1>6. CASE Unlink
  BY <1>1, <1>6, NoDates DEF Unlink, Forget, TypeOK, suites, IsFile
<1>7. CASE Raised
  BY <1>1, <1>7, NoDates DEF Raised, Forget, TypeOK, suites, files
<1>8. CASE Crash
  BY <1>1, <1>8, NoDates DEF Crash, Forget, TypeOK, suites, files
<1>9. CASE Day
  <2>1. \A file : IsFile(file) => IsFile({AllOlder(dates) : dates \in file})
    <3>1. ASSUME NEW file, NEW dates \in file, file = {dates}, IsDates(dates)
          PROVE  IsFile({AllOlder(d) : d \in file})
      <4>1. {AllOlder(d) : d \in file} = {AllOlder(dates)}
        BY <3>1
      <4> QED  BY <3>1, <4>1, AllOlderDates DEF IsFile
    <3> QED  BY <3>1 DEF IsFile, NoFile
  <2>2. arrived' \in [Packages -> 0..MaxAge]
    BY <1>9, OlderIs DEF Day, TypeOK
  <2>3. IsFile(dates_file') /\ IsFile(legacy_file')
    BY <1>9, <2>1 DEF Day, TypeOK
  <2> QED  BY <1>1, <1>9, <2>2, <2>3 DEF Day, TypeOK
<1>10. ASSUME NEW p \in Packages, NEW lines, Upload(p, lines)  PROVE TypeOK'
  <2>1. source' \in [Packages -> Versions] /\ \A x \in Packages : source[x] <= source'[x]
    BY <1>10 DEF Upload, TypeOK, Versions
  <2>2. arrived' \in [Packages -> 0..MaxAge]
    BY <1>10 DEF Upload, TypeOK
  <2> QED  BY <1>10, <2>1, <2>2, DatesStay DEF Upload, TypeOK, files
<1>11. CASE UNCHANGED vars
  BY <1>1, <1>11 DEF vars, suites, files, TypeOK
<1> QED  BY <1>2, <1>3, <1>4, <1>5, <1>6, <1>7, <1>8, <1>9, <1>10, <1>11 DEF Next, Run, World

\* Versions, dates and counters keep their types, and every date on disk and in
\* memory is one of a version that has arrived.
THEOREM TypeCorrect == Spec => []TypeOK
<1>1. Init => TypeOK
  BY InitTypes
<1>2. TypeOK /\ [Next]_vars => TypeOK'
  BY StepTypes
<1> QED  BY <1>1, <1>2, PTL DEF Spec

-----------------------------------------------------------------------------
(* Ages. *)

\* Dates that do not make what is in the source suite older than it is.
Honest(dates) == \A p \in DOMAIN dates : dates[p][1] = source[p] => dates[p][2] <= arrived[p]

LEMMA StepAges == TypeOK /\ AgeNotOverstated /\ [Next]_vars => AgeNotOverstated'
<1> SUFFICES ASSUME TypeOK, AgeNotOverstated, [Next]_vars PROVE AgeNotOverstated'
  OBVIOUS
<1> USE AgePolicyAssumption
<1>1. \A dates \in dates_file \cup legacy_file \cup {_dates} : Honest(dates)
  BY DEF AgeNotOverstated, Honest
<1>2. Honest(<<>>)
  BY NoDates DEF Honest
<1>3. \A dates \in dates_file \cup legacy_file \cup {_dates} : IsDates(dates)
  BY DEF TypeOK, IsFile, NoFile
<1>4. ASSUME UNCHANGED <<source, arrived>>,
             \A dates \in dates_file' \cup legacy_file' \cup {_dates'} : Honest(dates)
      PROVE  AgeNotOverstated'
  BY <1>4 DEF AgeNotOverstated, Honest
<1>5. CASE initialise
  <2>1. Honest(_read_dates_file)
    BY <1>1, <1>2, ReadDates DEF TypeOK
  <2>2. /\ _dates' = _read_dates_file /\ legacy_file' = legacy_file
        /\ dates_file' \subseteq dates_file \cup {<<>>}
        /\ UNCHANGED <<source, arrived>>
    BY <1>5 DEF initialise, suites
  <2> QED  BY <1>1, <1>2, <1>4, <2>1, <2>2
<1>6. ASSUME NEW b, NEW q, apply_src_policy(b, q)  PROVE AgeNotOverstated'
  <2>1. Honest(DatesAfter)
    <3>1. \A p \in DOMAIN DatesAfter :
            DatesAfter[p][1] = source[p] => DatesAfter[p][2] <= arrived[p]
      <4>1. \A p \in Packages : 0 <= arrived[p]
        BY DEF TypeOK
      <4>2. DOMAIN DatesAfter \subseteq Packages
        BY DatesAfterIs, DatesAre
      <4>3. Honest(_dates)
        BY <1>1
      <4> QED  BY <4>1, <4>2, <4>3, DatesAfterIs DEF Honest
    <3> QED  BY <3>1 DEF Honest
  <2>2. _dates' = DatesAfter /\ UNCHANGED <<source, arrived, dates_file, legacy_file>>
    BY <1>6 DEF apply_src_policy, suites, files
  <2> QED  BY <1>1, <1>4, <2>1, <2>2
<1>7. ASSUME NEW chosen, Migrate(chosen)  PROVE AgeNotOverstated'
  BY <1>1, <1>4, <1>7 DEF Migrate, files
<1>8. CASE _write_dates_file
  BY <1>1, <1>4, <1>8 DEF _write_dates_file, suites
<1>9. CASE Unlink
  BY <1>1, <1>2, <1>4, <1>9 DEF Unlink, Forget, suites, NoFile
<1>10. CASE Raised \/ Crash
  BY <1>1, <1>2, <1>4, <1>10 DEF Raised, Crash, Forget, suites, files
<1>11. CASE Day
  <2>1. /\ source' = source /\ arrived' = [p \in Packages |-> Older(arrived[p])]
        /\ _dates' = _dates
        /\ dates_file' = {AllOlder(dates) : dates \in dates_file}
        /\ legacy_file' = {AllOlder(dates) : dates \in legacy_file}
    BY <1>11 DEF Day
  <2>2. ASSUME NEW dates, IsDates(dates), Honest(dates)
        PROVE  /\ \A p \in DOMAIN dates : dates[p][1] = source[p] => dates[p][2] <= arrived'[p]
               /\ \A p \in DOMAIN dates : dates[p][1] = source[p] =>
                    Older(dates[p][2]) <= arrived'[p]
    <3>1. \A p \in DOMAIN dates : p \in Packages /\ dates[p][2] \in 0..MaxAge
      BY <2>2, DatesAre
    <3>2. \A p \in Packages : arrived[p] \in 0..MaxAge
      BY DEF TypeOK
    <3>3. \A p \in Packages : arrived'[p] = Older(arrived[p]) /\ arrived'[p] >= arrived[p]
      BY <2>1, <3>2, OlderIs
    <3>4. ASSUME NEW p \in DOMAIN dates, dates[p][1] = source[p]
          PROVE  dates[p][2] <= arrived'[p] /\ Older(dates[p][2]) <= arrived'[p]
      <4>1. dates[p][2] \in 0..MaxAge /\ arrived[p] \in 0..MaxAge /\ dates[p][2] <= arrived[p]
        BY <2>2, <3>1, <3>2, <3>4 DEF Honest
      <4>2. Older(dates[p][2]) <= Older(arrived[p]) /\ Older(arrived[p]) \in 0..MaxAge
        BY <4>1, OlderIs
      <4>3. Older(arrived[p]) = arrived'[p] /\ arrived'[p] >= arrived[p]
        BY <3>1, <3>3
      <4>4. Older(dates[p][2]) \in 0..MaxAge
        BY <4>1, OlderIs
      <4>5. MaxAge \in Nat
        BY AgePolicyAssumption
      <4> QED  BY ONLY <4>1, <4>2, <4>3, <4>4, <4>5
    <3> QED  BY <3>4
  <2>3. ASSUME NEW dates, IsDates(dates), Honest(dates)  PROVE Honest(dates)' /\ Honest(AllOlder(dates))'
    BY <2>1, <2>2, <2>3 DEF Honest, AllOlder
  <2>4. \A dates \in dates_file' \cup legacy_file' \cup {_dates'} : Honest(dates)'
    BY <1>1, <1>3, <2>1, <2>3
  <2> QED  BY <2>4 DEF AgeNotOverstated, Honest
<1>12. ASSUME NEW p \in Packages, NEW lines, Upload(p, lines)  PROVE AgeNotOverstated'
  <2>1. /\ source' = [source EXCEPT ![p] = @ + 1] /\ arrived' = [arrived EXCEPT ![p] = 0]
        /\ UNCHANGED <<dates_file, legacy_file, _dates>>
    BY <1>12 DEF Upload, files
  <2>2. ASSUME NEW dates \in dates_file \cup legacy_file \cup {_dates}  PROVE Honest(dates)'
    <3>1. \A x \in DOMAIN dates : x \in Packages /\ dates[x][1] \in Nat /\ dates[x][1] <= source[x]
      BY <1>3, DatesAre DEF Versions
    <3>2. Honest(dates)
      BY <1>1
    <3>3. \A x \in Packages : source[x] \in Nat
      BY DEF TypeOK, Versions
    <3>4. ASSUME NEW x \in DOMAIN dates, dates[x][1] = source'[x]
          PROVE  dates[x][2] <= arrived'[x]
      <4>1. x # p
        BY <2>1, <3>1, <3>3, <3>4 DEF TypeOK
      <4> QED  BY <2>1, <3>1, <3>2, <3>4, <4>1 DEF TypeOK, Honest
    <3> QED  BY <3>4 DEF Honest
  <2>3. \A dates \in dates_file' \cup legacy_file' \cup {_dates'} : Honest(dates)'
    BY <2>1, <2>2
  <2> QED  BY <2>3 DEF AgeNotOverstated, Honest
<1>13. CASE UNCHANGED vars
  BY <1>1, <1>4, <1>13 DEF vars, suites, files
<1> QED  BY <1>5, <1>6, <1>7, <1>8, <1>9, <1>10, <1>11, <1>12, <1>13 DEF Next, Run, World

\* No upload is ever taken to be older than it is: a date counts for its version
\* only, and a run that ends early only loses days.
THEOREM NeverTooOld == Spec => []AgeNotOverstated
<1>1. Init => AgeNotOverstated
  <2> SUFFICES ASSUME Init PROVE AgeNotOverstated
    OBVIOUS
  <2>1. \A dates \in dates_file \cup legacy_file \cup {_dates} :
          dates = <<>> \/ dates = [p \in Packages |-> <<1, MaxAge>>]
    BY DEF Init, NoFile
  <2>2. \A p \in Packages : arrived[p] = MaxAge
    BY DEF Init
  <2> QED  BY <2>1, <2>2, NoDates, AgePolicyAssumption DEF AgeNotOverstated
<1>2. TypeOK /\ AgeNotOverstated /\ [Next]_vars => AgeNotOverstated'
  BY StepAges
<1> QED  BY <1>1, <1>2, InitTypes, StepTypes, PTL DEF Spec

-----------------------------------------------------------------------------
(* What is noted stays noted. *)

\* During a run the memory holds what the files say of the present versions,
\* and the new file is there before the legacy one goes.
MemoryOK ==
  /\ pc = "unlink" => dates_file # NoFile
  /\ pc \in {"excuses", "migrate", "save"} =>
       \A p \in DOMAIN _read_dates_file :
         /\ p \in DOMAIN _dates
         /\ _read_dates_file[p][1] = source[p] => _dates[p] = _read_dates_file[p]

Kept ==
  \A p \in DOMAIN _read_dates_file :
    _read_dates_file[p][1] = source'[p] =>
      /\ p \in DOMAIN _read_dates_file'
      /\ _read_dates_file'[p][1] = _read_dates_file[p][1]
      /\ _read_dates_file'[p][2] >= _read_dates_file[p][2]

\* Nothing is lost where nothing is written.
LEMMA KeptIfSame ==
  ASSUME TypeOK, _read_dates_file' = _read_dates_file
  PROVE  Kept
<1>1. IsDates(_read_dates_file)
  BY ReadDates DEF TypeOK
<1>2. \A p \in DOMAIN _read_dates_file : _read_dates_file[p][2] \in 0..MaxAge
  BY <1>1, DatesAre
<1> QED  BY <1>2, AgePolicyAssumption DEF Kept

LEMMA ReadSame ==
  ASSUME UNCHANGED files
  PROVE  _read_dates_file' = _read_dates_file
BY DEF files, _read_dates_file

LEMMA StepKept == TypeOK /\ MemoryOK /\ [Next]_vars => MemoryOK' /\ Kept
<1> SUFFICES ASSUME TypeOK, MemoryOK, [Next]_vars PROVE MemoryOK' /\ Kept
  OBVIOUS
<1>1. CASE initialise
  <2>1. _read_dates_file' = _read_dates_file
    <3>1. CASE dates_file = NoFile /\ legacy_file = NoFile
      <4>1. dates_file' = {<<>>} /\ legacy_file' = legacy_file
        BY <1>1, <3>1 DEF initialise
      <4> QED  BY <3>1, <4>1 DEF _read_dates_file, NoFile, Contents
    <3>2. CASE ~(dates_file = NoFile /\ legacy_file = NoFile)
      BY <1>1, <3>2, ReadSame DEF initialise, files
    <3> QED  BY <3>1, <3>2
  <2>2. _dates' = _read_dates_file /\ pc' # "unlink"
    BY <1>1 DEF initialise
  <2> QED  BY <2>1, <2>2, KeptIfSame DEF MemoryOK
<1>2. ASSUME NEW b, NEW q, apply_src_policy(b, q)  PROVE MemoryOK' /\ Kept
  <2>1. /\ pc = "excuses" /\ pc' = "migrate" /\ _dates' = DatesAfter
        /\ UNCHANGED files /\ source' = source
    BY <1>2 DEF apply_src_policy, suites
  <2>2. _read_dates_file' = _read_dates_file
    BY <2>1, ReadSame
  <2>3. \A p \in DOMAIN _read_dates_file :
          /\ p \in DOMAIN DatesAfter
          /\ _read_dates_file[p][1] = source[p] => DatesAfter[p] = _read_dates_file[p]
    BY <2>1, DatesAfterIs DEF MemoryOK
  <2> QED  BY <2>1, <2>2, <2>3, KeptIfSame DEF MemoryOK
<1>3. ASSUME NEW chosen, Migrate(chosen)  PROVE MemoryOK' /\ Kept
  BY <1>3, ReadSame, KeptIfSame DEF Migrate, MemoryOK
<1>4. CASE _write_dates_file
  <2>1. pc = "save" /\ pc' = "unlink" /\ dates_file' = {_dates} /\ source' = source
    BY <1>4 DEF _write_dates_file, suites
  <2>2. _read_dates_file' = _dates
    BY <2>1 DEF _read_dates_file, NoFile, Contents
  <2>3. \A p \in DOMAIN _dates : _dates[p][2] \in 0..MaxAge
    BY DatesAre DEF TypeOK
  <2>4. Kept
    BY <2>1, <2>2, <2>3, AgePolicyAssumption DEF Kept, MemoryOK
  <2> QED  BY <2>1, <2>4 DEF MemoryOK, NoFile
<1>5. CASE Unlink
  <2>1. pc = "unlink" /\ pc' = "idle" /\ dates_file' = dates_file /\ dates_file # NoFile
    BY <1>5 DEF Unlink, MemoryOK
  <2>2. _read_dates_file' = _read_dates_file
    BY <2>1 DEF _read_dates_file
  <2> QED  BY <2>1, <2>2, KeptIfSame DEF MemoryOK
<1>6. CASE Raised \/ Crash
  <2>1. pc' = "idle" /\ UNCHANGED files
    BY <1>6 DEF Raised, Crash
  <2> QED  BY <2>1, ReadSame, KeptIfSame DEF MemoryOK
<1>7. CASE Day
  <2>1. /\ pc = "idle" /\ pc' = "idle" /\ source' = source
        /\ dates_file' = {AllOlder(dates) : dates \in dates_file}
        /\ legacy_file' = {AllOlder(dates) : dates \in legacy_file}
    BY <1>7 DEF Day
  <2>2. \A file : \A dates : file = {dates} =>
          /\ {AllOlder(d) : d \in file} = {AllOlder(dates)}
          /\ Contents(file) = dates
          /\ Contents({AllOlder(dates)}) = AllOlder(dates)
    BY DEF Contents
  <2>3. AllOlder(<<>>) = <<>>
    BY NoDates DEF AllOlder
  <2>4. _read_dates_file' = AllOlder(_read_dates_file)
    <3>1. CASE dates_file # NoFile
      <4>1. PICK dates : dates_file = {dates}
        BY <3>1 DEF TypeOK, IsFile
      <4>2. dates_file' = {AllOlder(dates)} /\ dates_file' # NoFile
        BY <2>1, <2>2, <4>1 DEF NoFile
      <4> QED  BY <2>2, <3>1, <4>1, <4>2 DEF _read_dates_file
    <3>2. CASE dates_file = NoFile /\ legacy_file # NoFile
      <4>1. PICK dates : legacy_file = {dates}
        BY <3>2 DEF TypeOK, IsFile
      <4>2. legacy_file' = {AllOlder(dates)} /\ legacy_file' # NoFile /\ dates_file' = NoFile
        BY <2>1, <2>2, <3>2, <4>1 DEF NoFile
      <4> QED  BY <2>2, <3>2, <4>1, <4>2 DEF _read_dates_file
    <3>3. CASE dates_file = NoFile /\ legacy_file = NoFile
      BY <2>1, <2>3, <3>3 DEF _read_dates_file, NoFile
    <3> QED  BY <3>1, <3>2, <3>3
  <2>5. \A p \in DOMAIN _read_dates_file :
          _read_dates_file[p][2] \in 0..MaxAge
    BY ReadDates, DatesAre DEF TypeOK
  <2>6. \A p \in DOMAIN _read_dates_file :
          /\ p \in DOMAIN AllOlder(_read_dates_file)
          /\ AllOlder(_read_dates_file)[p][1] = _read_dates_file[p][1]
          /\ AllOlder(_read_dates_file)[p][2] >= _read_dates_file[p][2]
    BY <2>5, OlderIs DEF AllOlder
  <2> QED  BY <2>1, <2>4, <2>6 DEF Kept, MemoryOK
<1>8. ASSUME NEW p \in Packages, NEW lines, Upload(p, lines)  PROVE MemoryOK' /\ Kept
  <2>1. pc' = "idle" /\ UNCHANGED files
    BY <1>8 DEF Upload
  <2> QED  BY <2>1, ReadSame, KeptIfSame DEF MemoryOK
<1>9. CASE UNCHANGED vars
  <2>1. UNCHANGED <<files, pc, _dates, source, dates_file>>
    BY <1>9 DEF vars, files, suites
  <2> QED  BY <2>1, ReadSame, KeptIfSame DEF MemoryOK
<1> QED  BY <1>1, <1>2, <1>3, <1>4, <1>5, <1>6, <1>7, <1>8, <1>9 DEF Next, Run, World

\* The age of an upload is not lost while it stays in the source suite, at
\* whatever point a run ends.
THEOREM DatesAreKept == Spec => DatesKept
<1>1. Init => TypeOK /\ MemoryOK
  BY InitTypes DEF Init, MemoryOK
<1>2. TypeOK /\ MemoryOK /\ [Next]_vars => TypeOK' /\ MemoryOK'
  BY StepTypes, StepKept
<1>3. TypeOK /\ MemoryOK /\ [Next]_vars => Kept \/ UNCHANGED vars
  BY StepKept
<1> QED  BY <1>1, <1>2, <1>3, PTL DEF Spec, DatesKept, Kept

-----------------------------------------------------------------------------
(***************************************************************************)
(* Urgencies and the required age.                                         *)
(***************************************************************************)

\* A set of natural numbers has a least one.
LEMMA Least ==
  ASSUME NEW S \in SUBSET Nat, S # {}
  PROVE  Min(S) \in S /\ \A n \in S : Min(S) <= n
<1> DEFINE T == {b \in Nat : \A n \in S : n > b}
<1>1. \E m \in S : \A n \in S : m <= n
  <2> SUFFICES ASSUME \A m \in S : \E n \in S : n < m PROVE FALSE
    OBVIOUS
  <2>1. 0 \in T
    OBVIOUS
  <2>2. ASSUME NEW b \in Nat, b \in T PROVE b + 1 \in T
    <3>1. b + 1 \notin S
      BY <2>2
    <3> QED  BY <2>2, <3>1
  <2>3. \A b \in Nat : b \in T
    <3> HIDE DEF T
    <3> QED  BY <2>1, <2>2, NaturalNumbers
  <2>4. PICK n \in S : TRUE
    OBVIOUS
  <2>5. n \in T
    BY <2>3
  <2> QED  BY <2>5
<1> QED  BY <1>1 DEF Min

LEMMA GreaterOfTwo ==
  ASSUME NEW m \in Int, NEW n \in Int
  PROVE  Max({m, n}) \in {m, n} /\ Max({m, n}) >= m /\ Max({m, n}) >= n
BY DEF Max

LEMMA LesserOfTwo ==
  ASSUME NEW m \in Nat, NEW n \in Nat
  PROVE  Min({m, n}) \in {m, n} /\ Min({m, n}) <= m /\ Min({m, n}) <= n
BY Least

\* The file of urgencies has lines.
FileOK == urgencies_file \in Seq(Lines)

\* What is known of a package is what a line for it says, and nothing is known
\* only if no line counts for it.
UrgenciesOK ==
  pc = "excuses" =>
    /\ \A i \in DOMAIN urgencies_file : IsKnown(urgencies_file[i])
    /\ \A p \in Packages :
         IF p \in DOMAIN _urgencies
         THEN _urgencies[p] \in DOMAIN _min_days /\ _min_days[_urgencies[p]] \in CurrentDays(p)
         ELSE CurrentDays(p) = {}

\* The fold of the lines, step by step.
LEMMA LinesRead ==
  ASSUME NEW N \in Nat, N = Len(urgencies_file)
  PROVE  \E read :
           /\ read[0] = <<>> /\ _read_urgencies_file = read[N]
           /\ \A n \in 1..N : read[n] = ReadLine(read[n - 1], urgencies_file[n])
<1> DEFINE Step(n, g) == IF n = 0 THEN <<>> ELSE ReadLine(g[n - 1], urgencies_file[n])
           IsFold(m, g) == g = [n \in 0..m |-> Step(n, g)]
           T == {m \in Nat : \E g : IsFold(m, g)}
<1>1. 0 \in T
  <2>1. IsFold(0, [n \in 0..0 |-> <<>>])
    OBVIOUS
  <2> QED  BY <2>1
<1>2. ASSUME NEW m \in Nat, m \in T PROVE m + 1 \in T
  <2>1. PICK g : IsFold(m, g)
    BY <1>2
  <2> DEFINE last == ReadLine(g[m], urgencies_file[m + 1])
             h == [n \in 0..m + 1 |-> IF n <= m THEN g[n] ELSE last]
  <2>2. \A n \in 0..m + 1 : h[n] = IF n <= m THEN g[n] ELSE last
    OBVIOUS
  <2>3. \A n \in 0..m : g[n] = Step(n, g)
    BY <2>1
  <2>4. ASSUME NEW n \in 0..m + 1 PROVE h[n] = Step(n, h)
    <3>1. CASE n = 0
      BY <2>2, <2>3, <3>1
    <3>2. CASE n \in 1..m
      <4>1. h[n] = g[n] /\ h[n - 1] = g[n - 1] /\ n \in 0..m
        BY <2>2, <3>2
      <4> QED  BY <2>3, <3>2, <4>1
    <3>3. CASE n = m + 1
      <4>1. h[n] = last /\ h[n - 1] = g[m]
        BY <2>2, <3>3
      <4> QED  BY <3>3, <4>1
    <3> QED  BY <3>1, <3>2, <3>3
  <2>5. IsFold(m + 1, h)
    <3>1. h = [n \in 0..m + 1 |-> h[n]]
      OBVIOUS
    <3> HIDE DEF h
    <3> QED  BY <2>4, <3>1
  <2>6. \E f : IsFold(m + 1, f)
    <3> HIDE DEF h, IsFold
    <3> QED  BY <2>5
  <2> QED  BY <2>6
<1>3. PICK f : IsFold(N, f)
  <2>1. N \in T
    <3> HIDE DEF T
    <3> QED  BY <1>1, <1>2, NaturalNumbers
  <2> QED  BY <2>1
<1> DEFINE read == CHOOSE g : IsFold(N, g)
<1>4. IsFold(N, read)
  BY <1>3
<1>5. _read_urgencies_file = read[N]
  BY DEF _read_urgencies_file
<1> HIDE DEF read
<1>6. read[0] = <<>> /\ \A n \in 1..N : read[n] = ReadLine(read[n - 1], urgencies_file[n])
  BY <1>4
<1> QED  BY <1>5, <1>6

LEMMA UrgenciesRead ==
  ASSUME FileOK, \A i \in DOMAIN urgencies_file : IsKnown(urgencies_file[i]),
         \A u \in DOMAIN _min_days : _min_days[u] < 1000, NEW p \in Packages
  PROVE  IF p \in DOMAIN _read_urgencies_file
         THEN /\ _read_urgencies_file[p] \in DOMAIN _min_days
              /\ _min_days[_read_urgencies_file[p]] \in CurrentDays(p)
         ELSE CurrentDays(p) = {}
<1> DEFINE N == Len(urgencies_file)
           line(n) == urgencies_file[n]
<1>1. N \in Nat /\ DOMAIN urgencies_file = 1..N /\ \A n \in 1..N : line(n) \in Lines
  BY DEF FileOK
<1>2. PICK read : /\ read[0] = <<>> /\ _read_urgencies_file = read[N]
                  /\ \A n \in 1..N : read[n] = ReadLine(read[n - 1], line(n))
  BY <1>1, LinesRead
<1> DEFINE Mine(n) == {i \in 1..n : line(i).source = p /\ IsCurrent(line(i))}
           Known(n) == IF p \in DOMAIN read[n]
                       THEN \E i \in Mine(n) : read[n][p] = line(i).urgency
                       ELSE Mine(n) = {}
           T == {n \in 0..N : Known(n)}
<1>3. 0 \in T
  BY <1>1, <1>2, NoDates
<1>4. ASSUME NEW n \in 0..N, n \in T, n < N PROVE n + 1 \in T
  <2> DEFINE l == line(n + 1)
             old == read[n]
             new == read[n + 1]
  <2>1. n + 1 \in 1..N /\ new = ReadLine(old, l)
    BY <1>1, <1>2, <1>4
  <2>2. Mine(n + 1) = Mine(n) \cup (IF l.source = p /\ IsCurrent(l) THEN {n + 1} ELSE {})
    BY <1>4, <1>1
  <2>3. \A i \in 1..N : line(i).urgency \in DOMAIN _min_days
    BY <1>1 DEF IsKnown
  <2> HIDE DEF l, old, new, Mine
  <2>4. CASE new # old
    <3>1. /\ new = [x \in DOMAIN old \cup {l.source} |-> IF x = l.source THEN l.urgency ELSE old[x]]
          /\ IsCurrent(l)
      BY <2>1, <2>4 DEF ReadLine
    <3>2. DOMAIN new = DOMAIN old \cup {l.source}
      BY <3>1
    <3>3. CASE l.source = p
      <4>1. new[p] = l.urgency /\ p \in DOMAIN new /\ n + 1 \in Mine(n + 1)
        BY <2>2, <3>1, <3>3
      <4> QED  BY <2>1, <4>1 DEF l, new
    <3>4. CASE l.source # p
      <4>1. (p \in DOMAIN new <=> p \in DOMAIN old) /\ (p \in DOMAIN old => new[p] = old[p])
        BY <3>1, <3>4
      <4>2. Mine(n + 1) = Mine(n)
        BY <2>2, <3>4
      <4> QED  BY <1>4, <2>1, <4>1, <4>2 DEF old, new
    <3> QED  BY <3>3, <3>4
  <2>5. CASE new = old
    <3>1. CASE p \in DOMAIN old
      BY <1>4, <2>1, <2>2, <2>5, <3>1 DEF old, new
    <3>2. CASE p \notin DOMAIN old
      <4>1. ~(l.source = p /\ IsCurrent(l))
        <5> SUFFICES ASSUME l.source = p, IsCurrent(l) PROVE FALSE
          OBVIOUS
        <5>1. l.urgency \in DOMAIN _min_days
          BY <2>1, <2>3 DEF l
        <5>2. _min_days[l.urgency] < DaysOf(old, p)
          BY <3>2, <5>1 DEF DaysOf
        <5>3. p \in DOMAIN new
          BY <2>1, <5>2 DEF ReadLine
        <5> QED  BY <2>5, <3>2, <5>3
      <4> QED  BY <1>4, <2>1, <2>2, <2>5, <3>2, <4>1 DEF old, new
    <3> QED  BY <3>1, <3>2
  <2> QED  BY <2>4, <2>5
<1>5. Known(N)
  <2>1. \A n \in 0..N : n \in T
    <3> HIDE DEF T
    <3> QED  BY <1>1, <1>3, <1>4, UpTo
  <2> QED  BY <1>1, <2>1
<1>6. CurrentDays(p) = {_min_days[line(i).urgency] : i \in Mine(N)}
  BY <1>1 DEF CurrentDays
<1> HIDE DEF Mine
<1>7. \A i \in Mine(N) : line(i).urgency \in DOMAIN _min_days
  BY <1>1 DEF IsKnown, Mine
<1> QED  BY <1>2, <1>5, <1>6, <1>7

\* Whatever the bounty, no less is demanded than what is required at least.
LEMMA MinDaysEnough ==
  ASSUME TypeOK, UrgenciesOK, pc = "excuses", NEW p \in Packages, NEW b \in Nat, NEW q \in Nat
  PROVE  /\ MinDays(p, b, q) \in Int /\ RequiredDays(p) \in Nat
         /\ RequiredDays(p) <= MinDays(p, b, q)
<1> DEFINE std == _min_days[_default_urgency]
           own == IF CurrentDays(p) = {} THEN std ELSE Min(CurrentDays(p))
           least == IF target[p] = 0 THEN Max({own, std}) ELSE own
           u == Urgency(p)
           days == _min_days[u]
           wanted == days - b + IF u \in _penalty_immune_urgencies THEN 0 ELSE q
           bound == Min({_bounty_min_age, days})
<1>1. /\ std \in Nat /\ _bounty_min_age \in Nat /\ _default_urgency \in DOMAIN _min_days
      /\ \A x \in DOMAIN _min_days : _min_days[x] \in Nat
  BY AgePolicyAssumption
<1>2. own \in Nat /\ \E x \in DOMAIN _min_days :
        /\ own <= _min_days[x]
        /\ u = IF target[p] = 0 /\ _min_days[x] < std THEN _default_urgency ELSE x
  <2>1. CASE p \in DOMAIN _urgencies
    <3>1. /\ _urgencies[p] \in DOMAIN _min_days /\ _min_days[_urgencies[p]] \in CurrentDays(p)
      BY <2>1 DEF UrgenciesOK
    <3>2. CurrentDays(p) \in SUBSET Nat
      BY <1>1 DEF CurrentDays, UrgenciesOK, IsKnown
    <3>3. own \in Nat /\ own <= _min_days[_urgencies[p]]
      BY <3>1, <3>2, Least
    <3>4. u = IF target[p] = 0 /\ _min_days[_urgencies[p]] < std THEN _default_urgency ELSE _urgencies[p]
      BY <2>1, <3>1 DEF Urgency
    <3> HIDE DEF own, u, std
    <3> QED  BY <3>1, <3>3, <3>4
  <2>2. CASE p \notin DOMAIN _urgencies
    <3>1. own = std
      BY <2>2 DEF UrgenciesOK
    <3>2. u = _default_urgency
      BY <1>1, <2>2 DEF Urgency
    <3> HIDE DEF own, u
    <3> QED  BY <1>1, <3>1, <3>2
  <2> QED  BY <2>1, <2>2
<1> HIDE DEF own, u
<1>3. u \in DOMAIN _min_days /\ days \in Nat /\ least \in Nat /\ least <= days
  <2> HIDE DEF std
  <2>1. PICK x \in DOMAIN _min_days :
          /\ own <= _min_days[x]
          /\ u = IF target[p] = 0 /\ _min_days[x] < std THEN _default_urgency ELSE x
    BY <1>2
  <2>2. u \in DOMAIN _min_days /\ days \in Nat /\ own <= days /\ (target[p] = 0 => std <= days)
    BY <1>1, <1>2, <2>1 DEF std
  <2>3. Max({own, std}) \in {own, std}
    <3>1. own \in Int /\ std \in Int
      BY <1>1, <1>2
    <3> QED  BY <3>1, GreaterOfTwo
  <2> HIDE DEF days
  <2> QED  BY <1>1, <1>2, <2>2, <2>3
<1> HIDE DEF least, std, days
<1>4. bound \in Nat /\ RequiredDays(p) \in Nat /\ RequiredDays(p) <= bound
  <2>1. RequiredDays(p) = Min({_bounty_min_age, least})
    BY DEF RequiredDays, least, own, std
  <2> QED  BY <1>1, <1>3, <2>1, LesserOfTwo
<1>5. wanted \in Int
  BY <1>3
<1>6. MinDays(p, b, q) = Max({wanted, bound})
  BY DEF MinDays, u, days
<1> HIDE DEF wanted, bound
<1>7. bound \in Int /\ wanted \in Int
  BY <1>4, <1>5
<1>8. Max({wanted, bound}) \in {wanted, bound} /\ Max({wanted, bound}) >= bound
  BY <1>7, GreaterOfTwo
<1> QED  BY <1>4, <1>6, <1>7, <1>8

\* What may migrate is hinted or old enough.
PassingOK ==
  pc = "migrate" =>
    \A p \in DOMAIN passing :
      passing[p] # "REJECTED_TEMPORARILY" => arrived[p] >= RequiredDays(p) \/ IsHinted(p)

MigratingOK == FileOK /\ UrgenciesOK /\ PassingOK

LEMMA PassesOldEnough ==
  ASSUME TypeOK, AgeNotOverstated, UrgenciesOK, pc = "excuses",
         NEW p \in Packages, NEW b \in Nat, NEW q \in Nat,
         Verdict(p, b, q) # "REJECTED_TEMPORARILY", ~IsHinted(p)
  PROVE  arrived[p] >= RequiredDays(p)
<1>1. /\ \A hint \in UrgentHints : ~IsHintFor(hint, p)
      /\ \A i \in DOMAIN AgeDayHints : ~IsHintFor(AgeDayHints[i], p)
  BY DEF IsHinted
<1>2. HintedDays(p, MinDays(p, b, q)) = MinDays(p, b, q)
  BY <1>1 DEF HintedDays
<1>3. DateOf(p)[2] >= MinDays(p, b, q)
  BY <1>1, <1>2 DEF Verdict
<1>4. arrived[p] \in Nat
  BY AgePolicyAssumption DEF TypeOK
<1>5. DateOf(p)[2] \in Nat /\ DateOf(p)[2] <= arrived[p]
  <2>1. CASE p \in DOMAIN _dates /\ _dates[p][1] = source[p]
    <3>1. _dates[p] \in Versions \X (0..MaxAge)
      BY <2>1, DatesAre DEF TypeOK
    <3> QED  BY <2>1, <3>1, AgePolicyAssumption DEF DateOf, AgeNotOverstated
  <2>2. CASE ~(p \in DOMAIN _dates /\ _dates[p][1] = source[p])
    BY <1>4, <2>2 DEF DateOf
  <2> QED  BY <2>1, <2>2
<1>6. /\ MinDays(p, b, q) \in Int /\ RequiredDays(p) \in Nat
      /\ RequiredDays(p) <= MinDays(p, b, q)
  BY MinDaysEnough
<1> DEFINE days == DateOf(p)[2]
<1> HIDE DEF days
<1>7. days \in Nat /\ days <= arrived[p] /\ days >= MinDays(p, b, q)
  BY <1>3, <1>5 DEF days
<1> QED  BY <1>4, <1>6, <1>7

LEMMA StepMigrating ==
  ASSUME \A u \in DOMAIN _min_days : _min_days[u] < 1000,
         TypeOK, AgeNotOverstated, MigratingOK, [Next]_vars
  PROVE  MigratingOK'
<1>1. ASSUME UNCHANGED <<source, target, arrived, urgencies_file>>
      PROVE  /\ \A p : CurrentDays(p)' = CurrentDays(p)
             /\ \A p : RequiredDays(p)' = RequiredDays(p) /\ IsHinted(p)' = IsHinted(p)
             /\ FileOK'
  BY <1>1 DEF CurrentDays, IsCurrent, RequiredDays, IsHinted, IsHintFor, FileOK, MigratingOK
<1>2. CASE initialise
  <2>1. /\ UNCHANGED <<source, target, arrived, urgencies_file>> /\ pc' \in {"excuses", "raised"}
        /\ pc' = "excuses" => /\ _urgencies' = _read_urgencies_file
                              /\ \A i \in DOMAIN urgencies_file : IsKnown(urgencies_file[i])
    BY <1>2 DEF initialise, suites
  <2>2. UrgenciesOK'
    <3> SUFFICES ASSUME pc' = "excuses"
                 PROVE  /\ \A i \in DOMAIN urgencies_file' : IsKnown(urgencies_file'[i])
                        /\ \A p \in Packages :
                             IF p \in DOMAIN _urgencies'
                             THEN /\ _urgencies'[p] \in DOMAIN _min_days
                                  /\ _min_days[_urgencies'[p]] \in CurrentDays(p)'
                             ELSE CurrentDays(p)' = {}
      BY DEF UrgenciesOK, IsKnown
    <3> QED  BY <1>1, <2>1, UrgenciesRead DEF MigratingOK
  <2> QED  BY <1>1, <2>1, <2>2 DEF MigratingOK, PassingOK
<1>3. ASSUME NEW b \in [Packages -> Bounties], NEW q \in [Packages -> Penalties],
             apply_src_policy(b, q)
      PROVE  MigratingOK'
  <2>1. /\ UNCHANGED <<source, target, arrived, urgencies_file>>
        /\ pc = "excuses" /\ pc' = "migrate"
        /\ passing' = [p \in Candidates |-> Verdict(p, b[p], q[p])]
    BY <1>3 DEF apply_src_policy, suites
  <2>2. ASSUME NEW p \in DOMAIN passing', passing'[p] # "REJECTED_TEMPORARILY"
        PROVE  arrived[p] >= RequiredDays(p) \/ IsHinted(p)
    <3>1. p \in Packages /\ b[p] \in Nat /\ q[p] \in Nat /\ Verdict(p, b[p], q[p]) # "REJECTED_TEMPORARILY"
      BY <2>1, <2>2, AgePolicyAssumption DEF Candidates
    <3> QED  BY <2>1, <3>1, PassesOldEnough DEF MigratingOK
  <2>3. PassingOK'
    BY <1>1, <2>1, <2>2 DEF PassingOK
  <2> QED  BY <1>1, <2>1, <2>3 DEF MigratingOK, UrgenciesOK
<1>4. ASSUME NEW chosen, Migrate(chosen) PROVE MigratingOK'
  BY <1>4 DEF Migrate, MigratingOK, FileOK, UrgenciesOK, PassingOK
<1>5. CASE _write_dates_file
  BY <1>5 DEF _write_dates_file, suites, MigratingOK, FileOK, UrgenciesOK, PassingOK
<1>6. CASE Unlink \/ Raised \/ Crash
  BY <1>6 DEF Unlink, Raised, Crash, suites, MigratingOK, FileOK, UrgenciesOK, PassingOK
<1>7. CASE Day
  BY <1>7 DEF Day, MigratingOK, FileOK, UrgenciesOK, PassingOK
<1>8. ASSUME NEW p \in Packages, NEW lines \in Seq(Lines), Upload(p, lines) PROVE MigratingOK'
  BY <1>8 DEF Upload, MigratingOK, FileOK, UrgenciesOK, PassingOK
<1>9. CASE World
  <2>1. urgencies_file \in Seq(Lines)
    BY DEF MigratingOK, FileOK
  <2>2. ASSUME NEW p \in Packages, NEW u \in Urgencies, NEW i \in 1..Len(urgencies_file) + 1,
               NEW lines, lines = InsertAt(urgencies_file, i,
                 [source |-> p, version |-> source[p] + 1, urgency |-> u]),
               Upload(p, lines)
        PROVE  lines \in Seq(Lines)
    <3> DEFINE line == [source |-> p, version |-> source[p] + 1, urgency |-> u]
    <3>1. line \in Lines
      BY <2>2, AgePolicyAssumption DEF Upload, TypeOK, Versions, Lines
    <3> HIDE DEF line
    <3>2. /\ SubSeq(urgencies_file, 1, i - 1) \in Seq(Lines)
          /\ SubSeq(urgencies_file, i, Len(urgencies_file)) \in Seq(Lines)
          /\ <<line>> \in Seq(Lines)
      BY <2>1, <3>1
    <3>3. lines = SubSeq(urgencies_file, 1, i - 1) \o <<line>>
                    \o SubSeq(urgencies_file, i, Len(urgencies_file))
      BY <2>2 DEF InsertAt, line
    <3> QED  BY <3>2, <3>3
  <2> QED  BY <1>7, <1>8, <1>9, <2>1, <2>2 DEF World
<1>10. CASE UNCHANGED vars
  BY <1>1, <1>10 DEF vars, suites, MigratingOK, UrgenciesOK, PassingOK
<1> QED  BY <1>2, <1>3, <1>4, <1>5, <1>6, <1>9, <1>10 DEF Next, Run

\* Whatever the bounties, penalties and the order of the lines, nothing migrates
\* before the least age that its urgencies demand, except by a hint.  An urgency
\* of 1000 days or more would count for none (_read_urgencies_file).
THEOREM OldEnough ==
  ASSUME \A u \in DOMAIN _min_days : _min_days[u] < 1000
  PROVE  Spec => MigratesOldEnough
<1> DEFINE Step == \A p \in Packages :
                     target'[p] # target[p] => arrived[p] >= RequiredDays(p) \/ IsHinted(p)
<1>1. Init => MigratingOK
  <2>1. <<>> \in Seq(Lines)
    OBVIOUS
  <2> QED  BY <2>1 DEF Init, MigratingOK, FileOK, UrgenciesOK, PassingOK
<1>2. TypeOK /\ AgeNotOverstated /\ MigratingOK /\ [Next]_vars => MigratingOK'
  BY StepMigrating
<1>3. MigratingOK /\ [Next]_vars => [Step]_target
  <2> SUFFICES ASSUME MigratingOK, [Next]_vars, target' # target PROVE Step
    OBVIOUS
  <2>1. \E chosen : Migrate(chosen)
    BY DEF Next, Run, World, Day, Upload, Crash, initialise, _write_dates_file, Unlink, Raised,
           apply_src_policy, suites, vars
  <2>2. PICK chosen : Migrate(chosen)
    BY <2>1
  <2>3. /\ pc = "migrate" /\ \A p \in chosen : p \in DOMAIN passing /\ passing[p] # "REJECTED_TEMPORARILY"
        /\ target' = [p \in Packages |-> IF p \in chosen THEN source[p] ELSE target[p]]
    BY <2>2 DEF Migrate
  <2> QED  BY <2>3 DEF MigratingOK, PassingOK
<1> QED  BY <1>1, <1>2, <1>3, TypeCorrect, NeverTooOld, PTL DEF Spec, MigratesOldEnough

=============================================================================
