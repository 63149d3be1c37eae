------------------------- MODULE MigrationRunProofs -------------------------
(***************************************************************************)
(* Proofs about the module MigrationRun: whatever the items, the hints,    *)
(* the architectures and the answers of the tester, and whatever           *)
(* components and orders the solver finds.                                 *)
(***************************************************************************)
EXTENDS MigrationRun, Induction, TLAPS

-----------------------------------------------------------------------------
(***************************************************************************)
(* Lemmas about the operators.                                             *)
(***************************************************************************)

\* A partition of items has them all, each in one component.
LEMMA PartitionsPart ==
  ASSUME NEW items, NEW P \in Partitions(items)
  PROVE  /\ P \subseteq SUBSET items
         /\ UNION P = items
         /\ \A c, d \in P : c = d \/ c \cap d = {}
<1>1. PICK class \in [items -> items] :
        P = {{j \in items : class[j] = class[i]} : i \in items}
  BY DEF Partitions
<1>2. P \subseteq SUBSET items
  BY <1>1
<1>3. \A i \in items : i \in {j \in items : class[j] = class[i]}
  OBVIOUS
<1>4. UNION P = items
  <2>1. UNION P \subseteq items
    BY <1>2
  <2>2. \A i \in items : {j \in items : class[j] = class[i]} \in P
    BY <1>1
  <2> QED  BY <2>1, <2>2, <1>3
<1>5. ASSUME NEW c \in P, NEW d \in P, NEW x \in c \cap d
      PROVE  c = d
  <2>1. PICK i \in items : c = {j \in items : class[j] = class[i]}
    BY <1>1
  <2>2. PICK k \in items : d = {j \in items : class[j] = class[k]}
    BY <1>1
  <2>3. class[i] = class[k]
    BY <2>1, <2>2
  <2> QED  BY <2>1, <2>2, <2>3
<1> QED  BY <1>2, <1>4, <1>5

\* Counting the affected architectures anew gives counters.
LEMMA AfterType ==
  ASSUME applied \in Items, NEW comp \in Items, NEW now \in Nuninst
  PROVE  After(comp, now) \in Nuninst
<1>1. applied \cup comp \in SUBSET Item
  BY DEF Items
<1>2. Uninst[applied \cup comp] \in [Arch -> SUBSET Package]
  BY <1>1, RunAssumption DEF Nuninst
<1> QED  BY <1>2 DEF After, Nuninst

\* It gives those of the suite with the component, if the others were right.
LEMMA AfterIsRight ==
  ASSUME applied \in Items, NEW comp \in Items
  PROVE  After(comp, Uninst[applied]) = Uninst[applied \cup comp]
<1>1. Uninst[applied \cup comp] \in [Arch -> SUBSET Package]
  BY RunAssumption DEF Nuninst, Items
<1>2. ASSUME NEW a \in Arch, a \notin Affected(comp)
      PROVE  Uninst[applied \cup comp][a] = Uninst[applied][a]
  <2>1. \A i \in comp : ArchOf[i] # SourceItem /\ ArchOf[i] # a
    BY <1>2 DEF Affected
  <2>2. comp \in SUBSET {i \in Item : ArchOf[i] \notin {SourceItem, a}}
    BY <2>1 DEF Items
  <2> QED  BY <2>2, LocalAssumption DEF Items
<1> QED  BY <1>1, <1>2 DEF After

\* The cruft of items is items.
LEMMA CruftType ==
  ASSUME NEW items \in Items
  PROVE  NewCruftOf(items) \in Items
BY RunAssumption DEF NewCruftOf, Items

\* The items a phase begins with.
LEMMA JobsType ==
  ASSUME options \in Setup, NEW p
  PROVE  Jobs(p) \subseteq Items \cup Arch
<1>1. Hints \in [HintKinds -> SUBSET SUBSET Item] /\ BreakArches \subseteq Arch
  BY RunAssumption DEF Hints, BreakArches
<1> QED  BY <1>1 DEF Jobs, Items

\* What iter_packages begins with.
LEMMA Iterated ==
  ASSUME TypeOK,
         NEW kind \in HintKinds \cup {"main", "broken", "actions"},
         NEW arch \in Arch \cup {"none"},
         NEW selected \in Items, NEW items \in Items, NEW suite \in Items, NEW nuninst \in Nuninst,
         Iterate(kind, arch, selected, items, suite, nuninst)
  PROVE  /\ run' \in Run /\ run' # NoRun
         /\ run'.kind = kind /\ run'.arch = arch /\ run'.selected = selected
         /\ run'.snapshot = applied /\ run'.nuninst = nuninst
         /\ run'.rescheduled = {} /\ run'.maybe = {}
         /\ UNION run'.worklist \subseteq items
         /\ \A i \in UNION run'.worklist : ~Raises(i, suite)
         /\ \A i \in items : Raises(i, suite) \/ i \in UNION run'.worklist
         /\ \A c, d \in run'.worklist : c = d \/ c \cap d = {}
<1> DEFINE tried == {i \in items : ~Raises(i, suite)}
<1>1. PICK worklist \in Partitions(tried) :
        run' = [kind |-> kind, arch |-> arch, selected |-> selected, snapshot |-> applied,
                nuninst |-> nuninst, worklist |-> worklist, rescheduled |-> {}, maybe |-> {}]
  BY DEF Iterate
<1>2. /\ worklist \subseteq SUBSET tried
      /\ UNION worklist = tried
      /\ \A c, d \in worklist : c = d \/ c \cap d = {}
  <2> HIDE DEF tried
  <2> QED  BY PartitionsPart
<1>3. run' \in Run
  <2>1. tried \subseteq Item
    BY DEF Items
  <2>2. worklist \in SUBSET Items
    BY <1>2, <2>1 DEF Items
  <2> HIDE DEF tried
  <2> QED  BY <1>1, <2>2 DEF Run, TypeOK, Items
<1>4. kind # "none"
  BY DEF HintKinds
<1>5. run' # NoRun
  BY <1>1, <1>4 DEF NoRun
<1> QED  BY <1>1, <1>2, <1>3, <1>5

-----------------------------------------------------------------------------
(***************************************************************************)
(* Types.                                                                  *)
(***************************************************************************)

LEMMA InitTypes == Init => TypeOK
<1> SUFFICES ASSUME Init PROVE TypeOK
  OBVIOUS
<1>1. applied \in Items /\ upgrade_me \in Items /\ all_selected \in Items
  BY RunAssumption DEF Init, Items
<1>2. nuninst_orig \in Nuninst
  BY RunAssumption DEF Init
<1>3. options \in Setup
  BY DEF Init
<1>4. todo \subseteq Items \cup Arch
  BY <1>3, JobsType DEF Init
<1>5. phase \in {Phases[i] : i \in DOMAIN Phases} \cup {"failed", "raised"}
  BY DEF Init, Phases
<1>6. parked \in [arch : [BreakArches -> Items], all : Items]
  BY DEF Init, Items
<1> QED  BY <1>1, <1>2, <1>3, <1>4, <1>5, <1>6 DEF Init, TypeOK

LEMMA RunType ==
  ASSUME TypeOK, ~Idle
  PROVE  /\ run \in Run
         /\ run.worklist \subseteq Items
         /\ run.nuninst \in Nuninst
BY DEF TypeOK, Idle, Run

\* Steps of a run keep its type.
LEMMA AcceptedType ==
  ASSUME TypeOK, ~Idle, NEW comp \in run.worklist
  PROVE  Accepted(comp) \in Run
<1>1. run \in Run /\ comp \in Items
  BY RunType
<1>2. After(comp, run.nuninst) \in Nuninst
  BY <1>1, AfterType, RunType DEF TypeOK
<1>3. {{c} : c \in TriedCruft(comp)} \subseteq Items
  BY <1>1, CruftType DEF TriedCruft, Items
<1>4. /\ run.selected \cup comp \in Items
      /\ (run.worklist \ {comp}) \cup {{c} : c \in TriedCruft(comp)} \in SUBSET Items
      /\ run.rescheduled \cup run.maybe \in Items
      /\ {} \in Items
  BY <1>1, <1>3, RunType DEF Run, Items
<1> QED  BY <1>1, <1>2, <1>4 DEF Accepted, Accepting, Run

LEMMA RejectedType ==
  ASSUME TypeOK, ~Idle, NEW comp \in run.worklist
  PROVE  Rejected(comp) \in Run
<1>1. run \in Run /\ comp \in Items
  BY RunType
<1>2. {{i} : i \in comp} \subseteq Items
  BY <1>1 DEF Items
<1>3. /\ (run.worklist \ {comp}) \cup {{i} : i \in comp} \in SUBSET Items
      /\ run.worklist \ {comp} \in SUBSET Items
      /\ run.maybe \cup comp \in Items
  BY <1>1, <1>2, RunType DEF Run, Items
<1>4. Split(comp) \in Run
  BY <1>1, <1>3 DEF Split, Run
<1>5. SetAside(comp) \in Run
  BY <1>1, <1>3 DEF SetAside, Run
<1> QED  BY <1>4, <1>5 DEF Rejected

LEMMA RetriedType ==
  ASSUME TypeOK, ~Idle, NEW worklist \in Partitions(run.rescheduled)
  PROVE  [run EXCEPT !.worklist = worklist, !.rescheduled = {}] \in Run
<1>1. run \in Run /\ run.rescheduled \in Items
  BY RunType DEF Run
<1>2. worklist \in SUBSET Items /\ {} \in Items
  BY <1>1, PartitionsPart DEF Items
<1> QED  BY <1>1, <1>2 DEF Run

\* Every step keeps the types.
LEMMA StepTypes == TypeOK /\ [Next]_vars => TypeOK'
<1> SUFFICES ASSUME TypeOK, [Next]_vars PROVE TypeOK'
  OBVIOUS
<1> DEFINE PhaseSet == {Phases[i] : i \in DOMAIN Phases} \cup {"failed", "raised"}
<1>1. ASSUME options' = options,
             applied' \in Items, upgrade_me' \in Items, all_selected' \in Items,
             nuninst_orig' \in Nuninst, phase' \in PhaseSet, todo' \subseteq Items \cup Arch,
             phase' = "broken" => todo' \subseteq BreakArches,
             parked' \in [arch : [BreakArches -> Items], all : Items],
             run' \in Run \cup {NoRun}
      PROVE  TypeOK'
  BY <1>1 DEF TypeOK, BreakArches
<1>2. CASE UNCHANGED vars
  BY <1>2 DEF TypeOK, BreakArches, vars
<1> USE DEF Items
<1>3. CASE Next
  <2> options' = options
    BY <1>3 DEF Next
  <2>1. CASE StartHint
    <3>1. PICK hint \in todo :
            /\ todo' = todo \ {hint}
            /\ LET local == upgrade_me \ hint
                   cruft == NewCruftOf(hint)
                   items == IF phase = "hint" THEN local \cup cruft
                            ELSE (local \cap Cruft) \cup cruft
               IN  IF hint \subseteq upgrade_me
                   THEN /\ ~MustRaise(hint)
                        /\ applied' = applied \cup hint
                        /\ Iterate(phase, "none", hint, items, applied', After(hint, nuninst_orig))
                   ELSE UNCHANGED <<applied, run>>
      BY <2>1 DEF StartHint
    <3>2. phase \in HintKinds
      BY <2>1 DEF StartHint
    <3> UNCHANGED <<nuninst_orig, upgrade_me, all_selected, phase, parked>>
      BY <2>1 DEF StartHint
    <3>3. CASE hint \subseteq upgrade_me
      <4>1. hint \in Items /\ NewCruftOf(hint) \in Items
        BY <3>3, CruftType DEF TypeOK
      <4>2. applied \cup hint \in Items
        BY <4>1 DEF TypeOK
      <4>3. After(hint, nuninst_orig) \in Nuninst
        BY <4>1, AfterType DEF TypeOK
      <4>4. run' \in Run
        <5> DEFINE items == IF phase = "hint" THEN (upgrade_me \ hint) \cup NewCruftOf(hint)
                            ELSE ((upgrade_me \ hint) \cap Cruft) \cup NewCruftOf(hint)
        <5>1. items \in Items
          BY <4>1 DEF TypeOK
        <5>2. Iterate(phase, "none", hint, items, applied', After(hint, nuninst_orig))
          BY <3>1, <3>3
        <5>3. applied' \in Items
          BY <3>1, <3>3, <4>2
        <5> HIDE DEF items
        <5> QED  BY <3>2, <4>1, <4>3, <5>1, <5>2, <5>3, Iterated
      <4> QED  BY <1>1, <3>1, <3>3, <4>2, <4>4 DEF TypeOK
    <3>4. CASE ~(hint \subseteq upgrade_me)
      BY <1>1, <3>1, <3>4 DEF TypeOK
    <3> QED  BY <3>3, <3>4
  <2>2. CASE RaiseInHint
    BY <1>1, <2>2 DEF RaiseInHint, TypeOK
  <2>3. CASE StartMain
    <3> DEFINE arch == [a \in BreakArches |-> {i \in upgrade_me : ArchOf[i] = a}]
               norm == upgrade_me \ UNION {arch[a] : a \in BreakArches}
    <3>1. /\ todo' = {} /\ parked' = [arch |-> arch, all |-> {}] /\ upgrade_me' = norm
          /\ Iterate("main", "none", {}, norm, applied, nuninst_orig)
          /\ UNCHANGED <<applied, nuninst_orig, all_selected, phase>>
      BY <2>3 DEF StartMain
    <3>2. norm \in Items /\ arch \in [BreakArches -> Items]
      BY DEF TypeOK
    <3> HIDE DEF arch, norm
    <3>3. run' \in Run
      BY <3>1, <3>2, Iterated DEF TypeOK
    <3> QED  BY <1>1, <3>1, <3>2, <3>3 DEF TypeOK
  <2>4. CASE StartBroken
    <3>1. PICK a \in todo :
            /\ todo' = todo \ {a} /\ upgrade_me' = parked.arch[a]
            /\ Iterate("broken", a, {}, parked.arch[a], applied, nuninst_orig)
      BY <2>4 DEF StartBroken
    <3>2. UNCHANGED <<applied, nuninst_orig, all_selected, phase, parked>>
      BY <2>4 DEF StartBroken
    <3>3. a \in BreakArches /\ a \in Arch
      BY <2>4, RunAssumption DEF StartBroken, TypeOK, BreakArches
    <3>4. parked.arch[a] \in Items
      BY <3>3 DEF TypeOK
    <3>5. run' \in Run
      BY <3>1, <3>3, <3>4, Iterated DEF TypeOK
    <3> QED  BY <1>1, <3>1, <3>2, <3>4, <3>5 DEF TypeOK
  <2>5. CASE StartActions
    <3> DEFINE removals == IF phase = "obsolete" THEN Obsolete \ applied ELSE OldLibraries
    <3>1. removals \in Items
      BY RunAssumption, CruftType DEF OldLibraries, TypeOK
    <3>2. IF removals = {} THEN UNCHANGED run
          ELSE Iterate("actions", "none", {}, removals, applied, nuninst_orig)
      BY <2>5 DEF StartActions
    <3>3. /\ todo' = {}
          /\ UNCHANGED <<applied, nuninst_orig, upgrade_me, all_selected, phase, parked>>
      BY <2>5 DEF StartActions
    <3> HIDE DEF removals
    <3>4. run' \in Run \cup {NoRun}
      BY <3>1, <3>2, Iterated DEF TypeOK
    <3> QED  BY <1>1, <3>3, <3>4 DEF TypeOK
  <2>6. CASE Accept
    <3>1. PICK comp \in run.worklist :
            applied' = applied \cup comp /\ run' = Accepted(comp)
      BY <2>6 DEF Accept
    <3>2. ~Idle /\ UNCHANGED <<nuninst_orig, upgrade_me, all_selected, phase, todo, parked>>
      BY <2>6 DEF Accept
    <3>3. comp \in Items
      BY <3>2, RunType
    <3> QED  BY <1>1, <3>1, <3>2, <3>3, AcceptedType DEF TypeOK
  <2>7. CASE Reject
    <3>1. PICK comp \in run.worklist : run' = Rejected(comp)
      BY <2>7 DEF Reject
    <3>2. ~Idle
      BY <2>7 DEF Reject
    <3>3. UNCHANGED <<applied, nuninst_orig, upgrade_me, all_selected, phase, todo, parked>>
      BY <2>7 DEF Reject
    <3> QED  BY <1>1, <3>1, <3>2, <3>3, RejectedType DEF TypeOK
  <2>8. CASE Retry
    <3>1. PICK worklist \in Partitions(run.rescheduled) :
            run' = [run EXCEPT !.worklist = worklist, !.rescheduled = {}]
      BY <2>8 DEF Retry
    <3>2. ~Idle
      BY <2>8 DEF Retry
    <3>3. UNCHANGED <<applied, nuninst_orig, upgrade_me, all_selected, phase, todo, parked>>
      BY <2>8 DEF Retry
    <3> QED  BY <1>1, <3>1, <3>2, <3>3, RetriedType DEF TypeOK
  <2>9. CASE Succeed
    <3>1. run \in Run
      BY <2>9, RunType DEF Succeed, Finished
    <3>2. run.nuninst \in Nuninst /\ run.selected \in Items /\ Extra \in Items
      BY <3>1 DEF Run, Extra, TypeOK
    <3>3. parked' \in [arch : [BreakArches -> Items], all : Items]
      <4>1. [parked EXCEPT !.all = @ \cup Extra] \in [arch : [BreakArches -> Items], all : Items]
        BY <3>2 DEF TypeOK
      <4> QED  BY <2>9, <4>1 DEF Succeed, TypeOK
    <3> QED  BY <1>1, <2>9, <3>2, <3>3 DEF Succeed, TypeOK
  <2>10. CASE Fail
    <3>1. run \in Run
      BY <2>10, RunType DEF Fail, Finished
    <3>2. run.snapshot \in Items
      BY <3>1 DEF Run
    <3> QED  BY <1>1, <2>10, <3>2 DEF Fail, TypeOK
  <2>11. CASE NextPhase
    <3>1. phase' \in PhaseSet
      BY <2>11 DEF NextPhase, Phases
    <3>2. todo' = Jobs(phase')
      BY <2>11 DEF NextPhase, Jobs, Hints, BreakArches
    <3>3. /\ todo' \subseteq Items \cup Arch
          /\ phase' = "broken" => todo' \subseteq BreakArches
      BY <3>2, JobsType DEF TypeOK, Jobs, HintKinds
    <3>4. upgrade_me' \in Items
      BY <2>11 DEF NextPhase, TypeOK
    <3> QED  BY <1>1, <2>11, <3>1, <3>3, <3>4 DEF NextPhase, TypeOK
  <2> QED  BY <1>3, <2>1, <2>2, <2>3, <2>4, <2>5, <2>6, <2>7, <2>8, <2>9, <2>10, <2>11
           DEF Next, Step
<1> QED  BY <1>2, <1>3

\* The variables of a run keep their types, whatever it is given.
THEOREM TypeCorrect == Spec => []TypeOK
<1>1. Init => TypeOK
  BY InitTypes
<1>2. TypeOK /\ [Next]_vars => TypeOK'
  BY StepTypes
<1> QED  BY <1>1, <1>2, PTL DEF Spec

-----------------------------------------------------------------------------
(***************************************************************************)
(* What each step does, in the terms the invariants below are stated in.   *)
(***************************************************************************)

LEMMA AcceptFields ==
  ASSUME TypeOK, Accept
  PROVE  \E comp \in run.worklist :
           /\ comp \in Items
           /\ ~MustRaise(comp) /\ ~Regresses(comp, run.nuninst)
           /\ applied' = applied \cup comp
           /\ run'.kind = run.kind /\ run'.arch = run.arch /\ run'.snapshot = run.snapshot
           /\ run'.selected = run.selected \cup comp
           /\ run'.nuninst = After(comp, run.nuninst)
           /\ run'.worklist = (run.worklist \ {comp}) \cup {{c} : c \in TriedCruft(comp)}
           /\ run'.rescheduled = run.rescheduled \cup run.maybe
           /\ run'.maybe = {}
<1>1. PICK comp \in run.worklist :
        /\ ~MustRaise(comp) /\ ~Regresses(comp, run.nuninst)
        /\ applied' = applied \cup comp /\ run' = Accepted(comp)
  BY DEF Accept
<1>2. run \in Run /\ comp \in Items
  BY RunType DEF Accept
<1> QED  BY <1>1, <1>2 DEF Accepted, Accepting, Run

LEMMA RejectFields ==
  ASSUME TypeOK, Reject
  PROVE  \E comp \in run.worklist :
           /\ comp \in Items
           /\ MayRaise(comp) \/ Regresses(comp, run.nuninst)
           /\ UNCHANGED <<run.kind, run.arch, run.snapshot, run.selected, run.nuninst, run.rescheduled>>
           /\ IF Cardinality(comp) > 1
              THEN /\ run'.worklist = (run.worklist \ {comp}) \cup {{i} : i \in comp}
                   /\ run'.maybe = run.maybe
              ELSE /\ run'.worklist = run.worklist \ {comp}
                   /\ run'.maybe = run.maybe \cup comp
<1>1. PICK comp \in run.worklist :
        (MayRaise(comp) \/ Regresses(comp, run.nuninst)) /\ run' = Rejected(comp)
  BY DEF Reject
<1>2. run \in Run /\ comp \in Items
  BY RunType DEF Reject
<1> QED  BY <1>1, <1>2 DEF Rejected, Split, SetAside, Run

LEMMA RetryFields ==
  ASSUME TypeOK, Retry
  PROVE  /\ UNCHANGED <<run.kind, run.arch, run.snapshot, run.selected, run.nuninst, run.maybe>>
         /\ run'.rescheduled = {}
         /\ UNION run'.worklist = run.rescheduled
         /\ \A c, d \in run'.worklist : c = d \/ c \cap d = {}
<1>1. PICK worklist \in Partitions(run.rescheduled) :
        run' = [run EXCEPT !.worklist = worklist, !.rescheduled = {}]
  BY DEF Retry
<1>2. run \in Run
  BY RunType DEF Retry
<1>3. run'.worklist = worklist
  BY <1>1, <1>2 DEF Run
<1> QED  BY <1>1, <1>2, <1>3, PartitionsPart DEF Run

\* A hint that is not refused begins a run.
HintItems(hint) ==
  IF phase = "hint" THEN (upgrade_me \ hint) \cup NewCruftOf(hint)
  ELSE ((upgrade_me \ hint) \cap Cruft) \cup NewCruftOf(hint)

\* The run that a step begins with these items, in the suite as it is then.
Begun(kind, selected, items, nuninst) ==
  /\ run' \in Run /\ run' # NoRun
  /\ run'.kind = kind /\ run'.selected = selected
  /\ run'.snapshot = applied /\ run'.nuninst = nuninst
  /\ run'.rescheduled = {} /\ run'.maybe = {}
  /\ UNION run'.worklist \subseteq items
  /\ \A i \in items : Raises(i, applied') \/ i \in UNION run'.worklist
  /\ \A c, d \in run'.worklist : c = d \/ c \cap d = {}

LEMMA Beginning ==
  ASSUME TypeOK, applied' \in Items,
         NEW kind \in HintKinds \cup {"main", "broken", "actions"},
         NEW arch \in Arch \cup {"none"},
         NEW selected \in Items, NEW items \in Items, NEW nuninst \in Nuninst,
         Iterate(kind, arch, selected, items, applied', nuninst)
  PROVE  Begun(kind, selected, items, nuninst)
<1>1. ASSUME NEW suite \in Items, suite = applied'
      PROVE  Begun(kind, selected, items, nuninst)
  <2>1. Iterate(kind, arch, selected, items, suite, nuninst)
    BY <1>1
  <2>2. /\ run' \in Run /\ run' # NoRun
        /\ run'.kind = kind /\ run'.arch = arch /\ run'.selected = selected
        /\ run'.snapshot = applied /\ run'.nuninst = nuninst
        /\ run'.rescheduled = {} /\ run'.maybe = {}
        /\ UNION run'.worklist \subseteq items
        /\ \A i \in items : Raises(i, suite) \/ i \in UNION run'.worklist
        /\ \A c, d \in run'.worklist : c = d \/ c \cap d = {}
    BY <2>1, Iterated
  <2> QED  BY <1>1, <2>2 DEF Begun
<1> QED  BY <1>1

LEMMA StartHintFields ==
  ASSUME TypeOK, StartHint
  PROVE  \/ UNCHANGED <<applied, run>>
         \/ \E hint \in Items : /\ hint \in todo /\ hint \subseteq upgrade_me
                                /\ applied' = applied \cup hint
                                /\ Begun(phase, hint, HintItems(hint), After(hint, nuninst_orig))
<1>1. PICK hint \in todo :
        IF hint \subseteq upgrade_me
        THEN /\ applied' = applied \cup hint
             /\ Iterate(phase, "none", hint, HintItems(hint), applied', After(hint, nuninst_orig))
        ELSE UNCHANGED <<applied, run>>
  BY DEF StartHint, HintItems
<1>2. phase \in HintKinds
  BY DEF StartHint
<1>3. ASSUME hint \subseteq upgrade_me
      PROVE  Begun(phase, hint, HintItems(hint), After(hint, nuninst_orig))
  <2>1. hint \in Items /\ NewCruftOf(hint) \in Items
    BY <1>3, CruftType DEF TypeOK, Items
  <2>2. applied \cup hint \in Items /\ HintItems(hint) \in Items
    BY <2>1 DEF TypeOK, HintItems, Items
  <2>3. After(hint, nuninst_orig) \in Nuninst
    BY <2>1, AfterType DEF TypeOK
  <2>4. applied' \in Items
    BY <1>1, <1>3, <2>2
  <2>5. Iterate(phase, "none", hint, HintItems(hint), applied', After(hint, nuninst_orig))
    BY <1>1, <1>3
  <2> QED  BY <1>2, <2>1, <2>2, <2>3, <2>4, <2>5, Beginning
<1> QED  BY <1>1, <1>3 DEF Items, TypeOK

LEMMA StartMainFields ==
  ASSUME TypeOK, StartMain
  PROVE  /\ applied' = applied
         /\ upgrade_me' = {i \in upgrade_me : ArchOf[i] \notin BreakArches}
         /\ parked'.all = {}
         /\ \A a \in BreakArches : parked'.arch[a] = {i \in upgrade_me : ArchOf[i] = a}
         /\ Begun("main", {}, upgrade_me', nuninst_orig)
<1> DEFINE arch == [a \in BreakArches |-> {i \in upgrade_me : ArchOf[i] = a}]
           norm == upgrade_me \ UNION {arch[a] : a \in BreakArches}
<1>1. /\ parked' = [arch |-> arch, all |-> {}] /\ upgrade_me' = norm /\ applied' = applied
      /\ Iterate("main", "none", {}, norm, applied, nuninst_orig)
  BY DEF StartMain
<1>2. norm = {i \in upgrade_me : ArchOf[i] \notin BreakArches}
  OBVIOUS
<1>3. norm \in Items /\ {} \in Items
  BY DEF TypeOK, Items
<1>4. /\ parked'.all = {}
      /\ \A a \in BreakArches : parked'.arch[a] = {i \in upgrade_me : ArchOf[i] = a}
  BY <1>1
<1> HIDE DEF arch, norm
<1>5. Begun("main", {}, norm, nuninst_orig)
  <2>1. Iterate("main", "none", {}, norm, applied', nuninst_orig) /\ applied' \in Items
    BY <1>1 DEF TypeOK
  <2>2. nuninst_orig \in Nuninst
    BY DEF TypeOK
  <2> QED  BY <1>3, <2>1, <2>2, Beginning
<1> QED  BY <1>1, <1>2, <1>4, <1>5

LEMMA StartBrokenFields ==
  ASSUME TypeOK, StartBroken
  PROVE  \E a \in todo \cap BreakArches :
           /\ todo' = todo \ {a} /\ upgrade_me' = parked.arch[a]
           /\ applied' = applied /\ run'.arch = a
           /\ Begun("broken", {}, parked.arch[a], nuninst_orig)
<1>1. PICK a \in todo :
        /\ todo' = todo \ {a} /\ upgrade_me' = parked.arch[a] /\ applied' = applied
        /\ Iterate("broken", a, {}, parked.arch[a], applied, nuninst_orig)
  BY DEF StartBroken
<1>2. a \in BreakArches /\ a \in Arch
  BY RunAssumption DEF StartBroken, TypeOK, BreakArches
<1>3. parked.arch[a] \in Items /\ {} \in Items
  BY <1>2 DEF TypeOK, Items
<1>4. Iterate("broken", a, {}, parked.arch[a], applied', nuninst_orig) /\ applied' \in Items
  BY <1>1 DEF TypeOK
<1>5. nuninst_orig \in Nuninst
  BY DEF TypeOK
<1>6. Begun("broken", {}, parked.arch[a], nuninst_orig)
  BY <1>2, <1>3, <1>4, <1>5, Beginning
<1>7. run'.arch = a
  BY <1>1 DEF Iterate
<1> QED  BY <1>1, <1>2, <1>6, <1>7

LEMMA StartActionsFields ==
  ASSUME TypeOK, StartActions
  PROVE  /\ applied' = applied
         /\ \/ run' = run
            \/ Begun("actions", {}, IF phase = "obsolete" THEN Obsolete \ applied ELSE OldLibraries,
                     nuninst_orig)
<1> DEFINE removals == IF phase = "obsolete" THEN Obsolete \ applied ELSE OldLibraries
<1>1. removals \in Items /\ {} \in Items
  BY RunAssumption, CruftType DEF OldLibraries, TypeOK, Items
<1>2. applied' = applied /\ IF removals = {} THEN UNCHANGED run
      ELSE Iterate("actions", "none", {}, removals, applied, nuninst_orig)
  BY DEF StartActions
<1> HIDE DEF removals
<1>3. run' = run \/ Begun("actions", {}, removals, nuninst_orig)
  BY <1>1, <1>2, Iterated DEF TypeOK, Begun
<1> QED  BY <1>2, <1>3 DEF removals

-----------------------------------------------------------------------------
(***************************************************************************)
(* The counters, what is selected and what is given up.                    *)
(***************************************************************************)

\* Between runs, counters and selection are those of the suite.  During a run,
\* the kept ones are those of the suite it would be rolled back to.
AccountsOK ==
  phase # "failed" =>
    /\ Idle  => nuninst_orig = Uninst[applied] /\ all_selected = applied
    /\ ~Idle => /\ run.nuninst = Uninst[applied]
                /\ nuninst_orig = Uninst[run.snapshot]
                /\ all_selected = run.snapshot
                /\ applied = run.snapshot \cup run.selected

\* What is set aside would be rejected again.
RejectedOK == ~Idle => \A i \in run.maybe : MayRaise({i}) \/ Regresses({i}, run.nuninst)

LEMMA BegunAccounts ==
  ASSUME TypeOK, AccountsOK, Idle, phase # "failed",
         NEW kind, NEW selected \in Items, NEW items,
         Begun(kind, selected, items, After(selected, nuninst_orig)),
         applied' = applied \cup selected,
         UNCHANGED <<nuninst_orig, all_selected, phase>>
  PROVE  AccountsOK'
<1>1. After(selected, nuninst_orig) = Uninst[applied \cup selected]
  BY AfterIsRight DEF AccountsOK, TypeOK
<1> QED  BY <1>1 DEF AccountsOK, Idle, Begun, NoRun

\* Nothing selected changes nothing.
LEMMA AfterNothing ==
  ASSUME TypeOK, AccountsOK, Idle, phase # "failed"
  PROVE  {} \in Items /\ After({}, nuninst_orig) = nuninst_orig /\ applied \cup {} = applied
<1>1. {} \in Items /\ applied \cup {} = applied
  BY DEF Items
<1> QED  BY <1>1, AfterIsRight DEF AccountsOK, TypeOK

LEMMA StepAccounts == TypeOK /\ AccountsOK /\ [Next]_vars => AccountsOK'
<1> SUFFICES ASSUME TypeOK, AccountsOK, [Next]_vars PROVE AccountsOK'
  OBVIOUS
<1>1. CASE StartHint
  <2>1. Idle /\ phase # "failed" /\ UNCHANGED <<nuninst_orig, all_selected, phase>>
    BY <1>1 DEF StartHint, HintKinds
  <2>2. CASE UNCHANGED <<applied, run>>
    BY <2>1, <2>2 DEF AccountsOK, Idle
  <2>3. ASSUME NEW hint \in Items, applied' = applied \cup hint,
               Begun(phase, hint, HintItems(hint), After(hint, nuninst_orig))
        PROVE  AccountsOK'
    BY <2>1, <2>3, BegunAccounts
  <2> QED  BY <1>1, <2>2, <2>3, StartHintFields
<1>2. CASE RaiseInHint
  BY <1>2 DEF RaiseInHint, AccountsOK, Idle, HintKinds
<1>3. CASE StartMain
  <2>1. Idle /\ phase # "failed" /\ UNCHANGED <<nuninst_orig, all_selected, phase>>
    BY <1>3 DEF StartMain
  <2> QED  BY <1>3, <2>1, AfterNothing, BegunAccounts, StartMainFields
<1>4. CASE StartBroken
  <2>1. Idle /\ phase # "failed" /\ UNCHANGED <<nuninst_orig, all_selected, phase>>
    BY <1>4 DEF StartBroken
  <2> QED  BY <1>4, <2>1, AfterNothing, BegunAccounts, StartBrokenFields
<1>5. CASE StartActions
  <2>1. Idle /\ phase # "failed" /\ UNCHANGED <<nuninst_orig, all_selected, phase>>
    BY <1>5 DEF StartActions
  <2>2. CASE run' = run
    BY <1>5, <2>1, <2>2, StartActionsFields DEF AccountsOK, Idle
  <2>3. CASE run' # run
    BY <1>5, <2>1, <2>3, AfterNothing, BegunAccounts, StartActionsFields
  <2> QED  BY <2>2, <2>3
<1>6. CASE Accept
  <2>1. PICK comp \in Items :
          /\ applied' = applied \cup comp
          /\ run'.kind = run.kind
          /\ run'.snapshot = run.snapshot
          /\ run'.selected = run.selected \cup comp
          /\ run'.nuninst = After(comp, run.nuninst)
    BY <1>6, AcceptFields
  <2>2. /\ ~Idle /\ run # NoRun /\ run \in Run
        /\ UNCHANGED <<nuninst_orig, all_selected, phase>>
    BY <1>6, RunType DEF Accept, Idle
  <2>3. run' # NoRun
    BY <2>1, <2>2 DEF NoRun, Run, HintKinds
  <2>4. After(comp, Uninst[applied]) = Uninst[applied \cup comp]
    BY AfterIsRight DEF TypeOK
  <2> QED  BY <2>1, <2>2, <2>3, <2>4 DEF AccountsOK, Idle
<1>7. CASE Reject
  <2>1. UNCHANGED <<run.kind, run.snapshot, run.selected, run.nuninst>>
    BY <1>7, RejectFields
  <2>2. /\ ~Idle /\ run \in Run
        /\ UNCHANGED <<applied, nuninst_orig, all_selected, phase>>
    BY <1>7, RunType DEF Reject
  <2>3. run' # NoRun
    BY <2>1, <2>2 DEF NoRun, Run, HintKinds
  <2> QED  BY <2>1, <2>2, <2>3 DEF AccountsOK, Idle
<1>8. CASE Retry
  <2>1. UNCHANGED <<run.kind, run.snapshot, run.selected, run.nuninst>>
    BY <1>8, RetryFields
  <2>2. /\ ~Idle /\ run \in Run
        /\ UNCHANGED <<applied, nuninst_orig, all_selected, phase>>
    BY <1>8, RunType DEF Retry
  <2>3. run' # NoRun
    BY <2>1, <2>2 DEF NoRun, Run, HintKinds
  <2> QED  BY <2>1, <2>2, <2>3 DEF AccountsOK, Idle
<1>9. CASE Succeed
  BY <1>9 DEF Succeed, Finished, AccountsOK, Idle
<1>10. CASE Fail
  BY <1>10 DEF Fail, Finished, AccountsOK, Idle
<1>11. CASE NextPhase
  BY <1>11 DEF NextPhase, Phases, AccountsOK, Idle
<1>12. CASE UNCHANGED vars
  BY <1>12 DEF vars, AccountsOK, Idle
<1> QED  BY <1>1, <1>2, <1>3, <1>4, <1>5, <1>6, <1>7, <1>8, <1>9, <1>10, <1>11, <1>12
         DEF Next, Step

\* A component that is not split is one item, if any.
LEMMA Unsplit ==
  ASSUME NEW comp \in Items, ~(Cardinality(comp) > 1), NEW i \in comp
  PROVE  comp = {i}
<1>1. IsFiniteSet(comp)
  BY RunAssumption, FS_Subset DEF Items
<1>2. ASSUME NEW j \in comp, j # i  PROVE FALSE
  <2>1. {i, j} \subseteq comp
    BY <1>2
  <2>2. IsFiniteSet({i}) /\ Cardinality({i}) = 1
    BY FS_Singleton
  <2>3. Cardinality({i} \cup {j}) = Cardinality({i}) + 1
    BY <1>2, <2>2, FS_AddElement
  <2>4. {i} \cup {j} = {i, j}
    OBVIOUS
  <2>5. Cardinality({i, j}) <= Cardinality(comp)
    BY <1>1, <2>1, FS_Subset
  <2>6. Cardinality(comp) \in Nat
    BY <1>1, FS_CardinalityType
  <2> QED  BY <2>2, <2>3, <2>4, <2>5, <2>6
<1> QED  BY <1>2

\* Within a run verdicts change with the suite only.
LEMMA SameVerdict ==
  ASSUME TypeOK, UNCHANGED <<applied, phase, options>>, run'.arch = run.arch,
         NEW comp, NEW now
  PROVE  /\ MayRaise(comp)' <=> MayRaise(comp)
         /\ Regresses(comp, now)' <=> Regresses(comp, now)
<1>1. MayRaise(comp)' <=> MayRaise(comp)
  BY DEF MayRaise, Raises
<1>2. After(comp, now)' = After(comp, now)
  BY DEF After
<1>3. \A a : MayBreak(a)' <=> MayBreak(a)
  BY DEF MayBreak, BreakArches
<1> QED  BY <1>1, <1>2, <1>3 DEF Regresses, NewArches

LEMMA StepRejected == TypeOK /\ RejectedOK /\ [Next]_vars => RejectedOK'
<1> SUFFICES ASSUME TypeOK, RejectedOK, [Next]_vars PROVE RejectedOK'
  OBVIOUS
<1>1. ASSUME run' # NoRun => run'.maybe = {}  PROVE RejectedOK'
  BY <1>1 DEF RejectedOK, Idle
<1>2. CASE Idle /\ run' = run
  BY <1>1, <1>2 DEF Idle
<1>3. CASE StartHint
  BY <1>1, <1>2, <1>3, StartHintFields DEF Begun, StartHint
<1>4. CASE StartMain
  BY <1>1, <1>4, StartMainFields DEF Begun
<1>5. CASE StartBroken
  BY <1>1, <1>5, StartBrokenFields DEF Begun
<1>6. CASE StartActions
  BY <1>1, <1>2, <1>6, StartActionsFields DEF Begun, StartActions
<1>7. CASE Accept
  BY <1>1, <1>7, AcceptFields
<1>8. CASE Reject
  <2>1. PICK comp \in Items :
          /\ MayRaise(comp) \/ Regresses(comp, run.nuninst)
          /\ UNCHANGED <<run.arch, run.nuninst>>
          /\ IF Cardinality(comp) > 1 THEN run'.maybe = run.maybe
             ELSE run'.maybe = run.maybe \cup comp
    BY <1>8, RejectFields
  <2>2. UNCHANGED <<applied, phase, options>> /\ ~Idle
    BY <1>8 DEF Reject, Next, vars
  <2>3. ASSUME NEW i \in run'.maybe  PROVE MayRaise({i}) \/ Regresses({i}, run.nuninst)
    <3>1. CASE i \in run.maybe
      BY <2>2, <3>1 DEF RejectedOK
    <3>2. CASE i \notin run.maybe
      <4>1. ~(Cardinality(comp) > 1) /\ i \in comp
        BY <2>1, <2>3, <3>2
      <4> QED  BY <2>1, <4>1, Unsplit
    <3> QED  BY <3>1, <3>2
  <2> QED  BY <2>1, <2>2, <2>3, SameVerdict DEF RejectedOK
<1>9. CASE Retry
  <2>1. UNCHANGED <<run.arch, run.nuninst, run.maybe>>
    BY <1>9, RetryFields
  <2>2. UNCHANGED <<applied, phase, options>> /\ ~Idle
    BY <1>9 DEF Retry, Next, vars
  <2> QED  BY <2>1, <2>2, SameVerdict DEF RejectedOK
<1>10. CASE UNCHANGED vars
  BY <1>10, SameVerdict DEF vars, RejectedOK, Idle
<1>11. CASE RaiseInHint \/ NextPhase
  BY <1>2, <1>11 DEF RaiseInHint, NextPhase
<1>12. CASE Succeed \/ Fail
  BY <1>1, <1>12 DEF Succeed, Fail
<1> QED  BY <1>3, <1>4, <1>5, <1>6, <1>7, <1>8, <1>9, <1>10, <1>11, <1>12 DEF Next, Step

LEMMA AccountsInvariant == Spec => [](TypeOK /\ AccountsOK /\ RejectedOK)
<1>1. Init => AccountsOK /\ RejectedOK
  BY DEF Init, AccountsOK, RejectedOK, Idle
<1> QED  BY <1>1, InitTypes, StepTypes, StepAccounts, StepRejected, PTL DEF Spec

\* The counters that are carried along, although only the affected architectures
\* are counted anew and whatever is rolled back, are those of the suite.
THEOREM CountersAreRight == Spec => []NuninstIsCorrect
<1>1. AccountsOK => NuninstIsCorrect
  BY DEF AccountsOK, NuninstIsCorrect
<1> QED  BY <1>1, AccountsInvariant, PTL

\* Between runs the suite is what the accepted runs selected.
THEOREM SelectionIsSuite == Spec => []SelectedIsApplied
<1>1. AccountsOK => SelectedIsApplied
  BY DEF AccountsOK, SelectedIsApplied
<1> QED  BY <1>1, AccountsInvariant, PTL

\* A run gives up on an item only if it would not be accepted in the suite the
\* run ends with: every success has what failed before it tried again.
THEOREM NothingGivenUpEarly == Spec => []GivesUpLast
<1>1. RejectedOK => GivesUpLast
  BY DEF RejectedOK, GivesUpLast, Finished
<1> QED  BY <1>1, AccountsInvariant, PTL

-----------------------------------------------------------------------------
(***************************************************************************)
(* Every item is in one place.                                             *)
(***************************************************************************)

\* Whatever left the cruft in S is in the suite.
OwnersIn(S, suite) == \A i \in Item : NewCruft[i] \cap S # {} => i \in suite

\* Not in the suite, nor left by what is not.
Outside(S, suite) == S \cap suite = {} /\ OwnersIn(S, suite)

InRun == Waiting \cup run.rescheduled \cup run.maybe

RunPlacesOK ==
  /\ \A c, d \in run.worklist : c = d \/ c \cap d = {}
  /\ Waiting \cap run.rescheduled = {} /\ Waiting \cap run.maybe = {}
  /\ run.rescheduled \cap run.maybe = {}
  /\ Outside(InRun, applied)
  /\ OwnersIn(run.snapshot, run.snapshot)
  /\ run.kind = phase \/ (run.kind = "actions" /\ phase \in {"obsolete", "cruft"})
  /\ phase = "main" => todo = {}

\* The suite as it is between runs.
Base == IF Idle THEN applied ELSE run.snapshot

\* What the main run, and those for architectures, leave to later runs.
ArchsLater == IF phase = "broken" THEN todo ELSE BreakArches
Later == parked.all \cup UNION {parked.arch[a] : a \in ArchsLater}

PlacesOK ==
  /\ OwnersIn(applied, applied)
  /\ ~Idle => RunPlacesOK
  /\ phase \in HintKinds \/ (phase = "main" /\ todo # {}) => Outside(upgrade_me, Base)
  /\ \A a \in BreakArches : \A i \in parked.arch[a] : ArchOf[i] = a
  /\ phase = "broken" \/ (phase = "main" /\ todo = {}) =>
       /\ Outside(Later, applied)
       /\ \A a \in ArchsLater : parked.arch[a] \cap parked.all = {}
       /\ ~Idle => InRun \cap Later = {}

LEMMA OwnersGrow ==
  ASSUME NEW S, NEW T, NEW suite, NEW larger, OwnersIn(S, suite), T \subseteq S, suite \subseteq larger
  PROVE  OwnersIn(T, larger)
BY DEF OwnersIn

LEMMA OwnersUnion ==
  ASSUME NEW S, NEW T, NEW suite, OwnersIn(S, suite), OwnersIn(T, suite)
  PROVE  OwnersIn(S \cup T, suite)
BY DEF OwnersIn

\* New cruft is left by the items themselves, for no two leave the same.
LEMMA OwnersOfCruft ==
  ASSUME NEW comp \in Items
  PROVE  OwnersIn(NewCruftOf(comp), comp)
BY LocalAssumption DEF OwnersIn, NewCruftOf, Items

\* So it is nowhere yet.
LEMMA CruftIsNew ==
  ASSUME NEW S, NEW suite, NEW comp \in Items, OwnersIn(S, suite), comp \cap suite = {}
  PROVE  NewCruftOf(comp) \cap S = {}
BY DEF OwnersIn, NewCruftOf, Items

LEMMA OutsideUnion ==
  ASSUME NEW S, NEW T, NEW suite, Outside(S, suite), Outside(T, suite)
  PROVE  Outside(S \cup T, suite)
BY OwnersUnion DEF Outside

LEMMA OutsidePart ==
  ASSUME NEW S, NEW T, NEW suite, Outside(S, suite), T \subseteq S
  PROVE  Outside(T, suite)
BY OwnersGrow DEF Outside

\* A run that begins with items outside of the suite.
LEMMA BegunPlaces ==
  ASSUME TypeOK, Idle, OwnersIn(applied, applied),
         NEW kind, NEW selected, NEW items, NEW nuninst, Begun(kind, selected, items, nuninst),
         Outside(items, applied'),
         kind = phase' \/ (kind = "actions" /\ phase' \in {"obsolete", "cruft"}),
         phase' = "main" => todo' = {}
  PROVE  RunPlacesOK' /\ ~Idle' /\ Base' = applied /\ InRun' \subseteq items
<1>1. ~Idle' /\ Base' = applied
  BY DEF Begun, Idle, Base
<1>2. InRun' \subseteq items /\ InRun' = Waiting'
  BY DEF Begun, InRun, Waiting
<1>3. Outside(InRun, applied)'
  BY <1>2 DEF Outside, OwnersIn
<1>4. OwnersIn(run.snapshot, run.snapshot)'
  BY DEF Begun, OwnersIn
<1> QED  BY <1>1, <1>2, <1>3, <1>4 DEF RunPlacesOK, Begun

LEMMA PlacesStartHint ==
  ASSUME TypeOK, PlacesOK, StartHint, UNCHANGED options
  PROVE  PlacesOK'
<1>1. /\ Idle /\ phase \in HintKinds /\ phase' \in HintKinds /\ phase' = phase
      /\ UNCHANGED <<nuninst_orig, upgrade_me, all_selected, parked>>
  BY DEF StartHint
<1>2. OwnersIn(applied, applied) /\ Outside(upgrade_me, applied)
  BY <1>1 DEF PlacesOK, Base
<1>3. \A a \in BreakArches' : \A i \in parked'.arch[a] : ArchOf[i] = a
  BY <1>1 DEF PlacesOK, BreakArches
<1>4. phase' # "broken" /\ phase' # "main"
  BY <1>1 DEF HintKinds
<1>5. CASE UNCHANGED <<applied, run>>
  <2>1. Idle' /\ Base' = applied
    BY <1>1, <1>5 DEF Idle, Base
  <2> QED  BY <1>1, <1>2, <1>3, <1>4, <1>5, <2>1 DEF PlacesOK, Outside, OwnersIn
<1>6. ASSUME NEW hint \in Items, hint \subseteq upgrade_me, applied' = applied \cup hint,
             Begun(phase, hint, HintItems(hint), After(hint, nuninst_orig))
      PROVE  PlacesOK'
  <2>1. hint \cap applied = {}
    BY <1>2, <1>6 DEF Outside
  <2>2. OwnersIn(hint, applied) /\ OwnersIn(upgrade_me \ hint, applied)
    BY <1>2, <1>6, OwnersGrow DEF Outside
  <2>3. OwnersIn(applied', applied')
    BY <1>2, <1>6, <2>2, OwnersUnion, OwnersGrow
  <2>4. Outside(upgrade_me \ hint, applied')
    <3>1. OwnersIn(upgrade_me \ hint, applied')
      BY <1>6, <2>2, OwnersGrow
    <3> QED  BY <1>2, <1>6, <3>1 DEF Outside
  <2>5. Outside(NewCruftOf(hint), applied')
    <3>1. OwnersIn(NewCruftOf(hint), applied')
      BY <1>6, OwnersOfCruft, OwnersGrow
    <3>2. NewCruftOf(hint) \cap applied = {} /\ NewCruftOf(hint) \cap upgrade_me = {}
      BY <1>2, <2>1, CruftIsNew DEF Outside
    <3> QED  BY <1>6, <3>1, <3>2 DEF Outside
  <2>6. Outside(HintItems(hint), applied')
    <3>1. Outside((upgrade_me \ hint) \cup NewCruftOf(hint), applied')
      BY <2>4, <2>5, OutsideUnion
    <3> QED  BY <3>1, OutsidePart DEF HintItems
  <2>7. RunPlacesOK' /\ Base' = applied
    BY <1>1, <1>2, <1>4, <1>6, <2>6, BegunPlaces
  <2>8. Outside(upgrade_me, Base)'
    BY <1>1, <1>2, <2>7 DEF Outside, OwnersIn
  <2>9. OwnersIn(applied, applied)'
    BY <2>3 DEF OwnersIn
  <2> QED  BY <1>3, <1>4, <2>7, <2>8, <2>9 DEF PlacesOK
<1> QED  BY <1>5, <1>6, StartHintFields

LEMMA PlacesStartMain ==
  ASSUME TypeOK, PlacesOK, StartMain, UNCHANGED options
  PROVE  PlacesOK'
<1>1. /\ Idle /\ phase = "main" /\ phase' = "main" /\ todo # {} /\ todo' = {}
  BY DEF StartMain
<1>2. OwnersIn(applied, applied) /\ Outside(upgrade_me, applied)
  BY <1>1 DEF PlacesOK, Base
<1>3. /\ applied' = applied
      /\ upgrade_me' = {i \in upgrade_me : ArchOf[i] \notin BreakArches}
      /\ parked'.all = {}
      /\ \A a \in BreakArches : parked'.arch[a] = {i \in upgrade_me : ArchOf[i] = a}
      /\ Begun("main", {}, upgrade_me', nuninst_orig)
  BY StartMainFields
<1>4. BreakArches' = BreakArches
  BY DEF BreakArches
<1>5. Outside(upgrade_me', applied')
  BY <1>2, <1>3, OutsidePart
<1>6. RunPlacesOK' /\ ~Idle' /\ InRun' \subseteq upgrade_me'
  BY <1>1, <1>2, <1>3, <1>5, BegunPlaces
<1>7. OwnersIn(applied, applied)'
  BY <1>2, <1>3 DEF OwnersIn
<1>8. ArchsLater' = BreakArches
  BY <1>1, <1>4 DEF ArchsLater
<1>9. Later' = {i \in upgrade_me : ArchOf[i] \in BreakArches}
  BY <1>3, <1>8 DEF Later
<1>10. Outside(Later, applied)'
  <2>1. Outside(Later', applied)
    BY <1>2, <1>9, OutsidePart
  <2> QED  BY <1>3, <2>1 DEF Outside, OwnersIn
<1>11. InRun' \cap Later' = {}
  BY <1>3, <1>6, <1>9
<1> QED  BY <1>1, <1>3, <1>4, <1>6, <1>7, <1>8, <1>10, <1>11 DEF PlacesOK, HintKinds

LEMMA PlacesStartBroken ==
  ASSUME TypeOK, PlacesOK, StartBroken, UNCHANGED options
  PROVE  PlacesOK'
<1>1. /\ Idle /\ phase = "broken" /\ phase' = "broken" /\ parked' = parked
  BY DEF StartBroken
<1>2. PICK a \in todo \cap BreakArches :
        /\ todo' = todo \ {a} /\ applied' = applied
        /\ Begun("broken", {}, parked.arch[a], nuninst_orig)
  BY StartBrokenFields
<1>3. BreakArches' = BreakArches
  BY DEF BreakArches
<1>4. ArchsLater = todo /\ ArchsLater' = todo'
  BY <1>1 DEF ArchsLater
<1>5. /\ OwnersIn(applied, applied) /\ Outside(Later, applied)
      /\ \A b \in todo : parked.arch[b] \cap parked.all = {}
      /\ \A b \in BreakArches : \A i \in parked.arch[b] : ArchOf[i] = b
      /\ todo \subseteq BreakArches
  BY <1>1, <1>4 DEF PlacesOK, TypeOK
<1>6. parked.arch[a] \subseteq Later /\ Later' \subseteq Later
  BY <1>1, <1>2, <1>4 DEF Later
<1>7. Outside(parked.arch[a], applied') /\ Outside(Later', applied')
  BY <1>2, <1>5, <1>6, OutsidePart
<1>8. RunPlacesOK' /\ InRun' \subseteq parked.arch[a]
  BY <1>1, <1>2, <1>5, <1>7, BegunPlaces
<1>9. parked.arch[a] \cap Later' = {}
  <2>1. Later' = parked.all \cup UNION {parked.arch[b] : b \in todo'}
    BY <1>1, <1>4 DEF Later
  <2>2. ASSUME NEW b \in todo'  PROVE parked.arch[a] \cap parked.arch[b] = {}
    BY <1>2, <1>5, <2>2
  <2> QED  BY <1>2, <1>5, <2>1, <2>2
<1>10. Outside(Later, applied)' /\ OwnersIn(applied, applied)'
  BY <1>2, <1>5, <1>7 DEF Outside, OwnersIn
<1> QED  BY <1>1, <1>2, <1>3, <1>4, <1>5, <1>8, <1>9, <1>10 DEF PlacesOK, HintKinds

LEMMA PlacesStartActions ==
  ASSUME TypeOK, PlacesOK, StartActions, UNCHANGED options
  PROVE  PlacesOK'
<1>1. /\ Idle /\ phase \in {"obsolete", "cruft"} /\ phase' = phase /\ parked' = parked
  BY DEF StartActions
<1>2. OwnersIn(applied, applied) /\ applied' = applied
  BY StartActionsFields DEF PlacesOK
<1>3. \A a \in BreakArches' : \A i \in parked'.arch[a] : ArchOf[i] = a
  BY <1>1 DEF PlacesOK, BreakArches
<1>4. phase' \notin HintKinds \cup {"main", "broken"}
  BY <1>1 DEF HintKinds
<1>5. OwnersIn(applied, applied)'
  BY <1>2 DEF OwnersIn
<1> DEFINE removals == IF phase = "obsolete" THEN Obsolete \ applied ELSE OldLibraries
<1>6. CASE run' = run
  BY <1>1, <1>3, <1>4, <1>5, <1>6 DEF PlacesOK, Idle
<1>7. CASE Begun("actions", {}, removals, nuninst_orig)
  <2>1. OwnersIn(Obsolete \ applied, applied)
    <3>1. \A i \in Item : NewCruft[i] \subseteq Cruft
      BY DEF Cruft
    <3>2. Cruft \cap Obsolete = {}
      BY LocalAssumption
    <3> QED  BY <3>1, <3>2 DEF OwnersIn
  <2>2. OwnersIn(OldCruft, applied)
    BY LocalAssumption DEF OwnersIn
  <2>3. OwnersIn(NewCruftOf(applied), applied)
    BY OwnersOfCruft DEF TypeOK
  <2>4. OwnersIn(OldLibraries, applied)
    <3>1. OwnersIn(OldCruft \cup NewCruftOf(applied), applied)
      BY <2>2, <2>3, OwnersUnion
    <3> QED  BY <3>1, OwnersGrow DEF OldLibraries
  <2>5. Outside(removals, applied')
    BY <1>2, <2>1, <2>4 DEF Outside, OldLibraries
  <2> HIDE DEF removals
  <2>6. RunPlacesOK'
    BY <1>1, <1>2, <1>7, <2>5, BegunPlaces
  <2> QED  BY <1>3, <1>4, <1>5, <2>6 DEF PlacesOK
<1> QED  BY <1>6, <1>7, StartActionsFields

LEMMA PlacesAccept ==
  ASSUME TypeOK, PlacesOK, Accept, UNCHANGED options
  PROVE  PlacesOK'
<1>1. /\ ~Idle /\ RunPlacesOK /\ run # NoRun /\ run \in Run
      /\ UNCHANGED <<upgrade_me, phase, todo, parked>>
  BY RunType DEF Accept, PlacesOK, Idle
<1>2. PICK comp \in run.worklist :
        /\ comp \in Items
        /\ applied' = applied \cup comp
        /\ run'.kind = run.kind /\ run'.snapshot = run.snapshot
        /\ run'.worklist = (run.worklist \ {comp}) \cup {{c} : c \in TriedCruft(comp)}
        /\ run'.rescheduled = run.rescheduled \cup run.maybe
        /\ run'.maybe = {}
  BY AcceptFields
<1>3. ~Idle'
  BY <1>1, <1>2 DEF Idle, NoRun, Run, HintKinds
<1> DEFINE rest == UNION (run.worklist \ {comp})
           cruft == TriedCruft(comp)
<1>4. /\ comp \subseteq Waiting /\ rest \subseteq Waiting /\ rest \cap comp = {}
      /\ Waiting' = rest \cup cruft
  <2>1. comp \subseteq Waiting /\ rest \subseteq Waiting
    BY DEF Waiting
  <2>2. rest \cap comp = {}
    BY <1>1 DEF RunPlacesOK
  <2>3. Waiting' = UNION ((run.worklist \ {comp}) \cup {{c} : c \in cruft})
    BY <1>2 DEF Waiting
  <2> HIDE DEF cruft
  <2>4. UNION {{c} : c \in cruft} = cruft
    OBVIOUS
  <2>5. \A S, T : UNION (S \cup T) = (UNION S) \cup UNION T
    OBVIOUS
  <2>6. Waiting' = rest \cup cruft
    BY <2>3, <2>4, <2>5
  <2> QED  BY <2>1, <2>2, <2>6
<1>5. comp \cap applied = {} /\ OwnersIn(applied, applied) /\ Outside(InRun, applied)
  BY <1>1, <1>4 DEF RunPlacesOK, Outside, InRun, PlacesOK
<1>6. cruft \subseteq NewCruftOf(comp)
  BY DEF TriedCruft
<1>7. cruft \cap applied = {} /\ cruft \cap InRun = {}
  BY <1>2, <1>5, <1>6, CruftIsNew DEF Outside
<1>8. OwnersIn(cruft, applied')
  BY <1>2, <1>6, OwnersOfCruft, OwnersGrow
<1>9. OwnersIn(applied', applied')
  <2>1. OwnersIn(comp, applied)
    BY <1>4, <1>5, OwnersGrow DEF Outside, InRun
  <2> QED  BY <1>2, <1>5, <2>1, OwnersUnion, OwnersGrow
<1> HIDE DEF rest, cruft
<1>10. InRun' = rest \cup cruft \cup run.rescheduled \cup run.maybe
  BY <1>2, <1>4 DEF InRun
<1>11. Outside(InRun', applied')
  <2> DEFINE kept == rest \cup run.rescheduled \cup run.maybe
  <2>1. kept \subseteq InRun /\ kept \cap comp = {} /\ InRun' = kept \cup cruft
    BY <1>1, <1>4, <1>10 DEF InRun, RunPlacesOK
  <2> HIDE DEF kept
  <2>2. OwnersIn(kept, applied')
    BY <1>2, <1>5, <2>1, OwnersGrow DEF Outside
  <2>3. OwnersIn(InRun', applied')
    BY <1>8, <2>1, <2>2, OwnersUnion
  <2>4. comp \subseteq InRun
    BY <1>4 DEF InRun
  <2>5. InRun' \cap applied' = {}
    BY <1>2, <1>5, <1>7, <2>1, <2>4 DEF Outside
  <2> QED  BY <2>3, <2>5 DEF Outside
<1>12. \A c, d \in run'.worklist : c = d \/ c \cap d = {}
  <2>1. \A c, d \in run.worklist : c = d \/ c \cap d = {}
    BY <1>1 DEF RunPlacesOK
  <2>2. \A c \in run.worklist : c \subseteq InRun
    BY DEF InRun, Waiting
  <2>3. \A c \in run.worklist, x \in cruft : c \cap {x} = {}
    BY <1>7, <2>2
  <2>4. \A x, y \in cruft : {x} = {y} \/ {x} \cap {y} = {}
    OBVIOUS
  <2>5. run'.worklist = (run.worklist \ {comp}) \cup {{x} : x \in cruft}
    BY <1>2 DEF cruft
  <2>6. ASSUME NEW c \in run'.worklist, NEW d \in run'.worklist  PROVE c = d \/ c \cap d = {}
    <3>1. CASE c \in run.worklist /\ d \in run.worklist
      BY <2>1, <3>1
    <3>2. CASE c \notin run.worklist
      <4>1. PICK x \in cruft : c = {x}
        BY <2>5, <3>2
      <4> QED  BY <2>3, <2>5, <4>1
    <3>3. CASE d \notin run.worklist
      <4>1. PICK x \in cruft : d = {x}
        BY <2>5, <3>3
      <4> QED  BY <2>3, <2>5, <4>1
    <3> QED  BY <3>1, <3>2, <3>3
  <2> QED  BY <2>6
<1>13. /\ Waiting' \cap run'.rescheduled = {} /\ Waiting' \cap run'.maybe = {}
       /\ run'.rescheduled \cap run'.maybe = {}
  BY <1>1, <1>2, <1>4, <1>7 DEF RunPlacesOK, InRun
<1>14. RunPlacesOK'
  BY <1>1, <1>2, <1>11, <1>12, <1>13 DEF RunPlacesOK, Outside, OwnersIn
<1>15. BreakArches' = BreakArches /\ ArchsLater' = ArchsLater /\ Later' = Later
  BY <1>1 DEF BreakArches, ArchsLater, Later
<1>16. ASSUME phase = "broken" \/ (phase = "main" /\ todo = {})
       PROVE  Outside(Later', applied') /\ InRun' \cap Later' = {}
  <2>1. Outside(Later, applied) /\ InRun \cap Later = {}
    BY <1>1, <1>16 DEF PlacesOK
  <2>2. cruft \cap Later = {}
    BY <1>2, <1>5, <1>6, <2>1, CruftIsNew DEF Outside
  <2>3. OwnersIn(Later, applied')
    BY <1>2, <2>1, OwnersGrow DEF Outside
  <2>4. comp \subseteq InRun /\ InRun' \subseteq InRun \cup cruft
    BY <1>4, <1>10 DEF InRun
  <2>5. Later \cap applied' = {} /\ InRun' \cap Later = {}
    BY <1>2, <2>1, <2>2, <2>4 DEF Outside
  <2> QED  BY <1>15, <2>3, <2>5 DEF Outside
<1>17. Base' = Base /\ OwnersIn(applied, applied)'
  BY <1>1, <1>2, <1>3, <1>9 DEF Base, OwnersIn
<1>18. phase' \in HintKinds \/ (phase' = "main" /\ todo' # {}) => Outside(upgrade_me, Base)'
  BY <1>1, <1>17 DEF PlacesOK, Outside, OwnersIn
<1>19. phase' = "broken" \/ (phase' = "main" /\ todo' = {}) => Outside(Later, applied)'
  BY <1>1, <1>16 DEF Outside, OwnersIn
<1> QED  BY <1>1, <1>3, <1>14, <1>15, <1>16, <1>17, <1>18, <1>19 DEF PlacesOK

\* Steps that move items within the run.
LEMMA PlacesMove ==
  ASSUME TypeOK, PlacesOK, ~Idle, ~Idle',
         UNCHANGED <<applied, upgrade_me, phase, todo, parked, options>>,
         UNCHANGED <<run.kind, run.snapshot>>,
         InRun' \subseteq InRun,
         \A c, d \in run'.worklist : c = d \/ c \cap d = {},
         Waiting' \cap run'.rescheduled = {}, Waiting' \cap run'.maybe = {},
         run'.rescheduled \cap run'.maybe = {}
  PROVE  PlacesOK'
<1>1. RunPlacesOK /\ OwnersIn(applied, applied)
  BY DEF PlacesOK
<1>2. Outside(InRun', applied)
  BY <1>1, OutsidePart DEF RunPlacesOK
<1>3. RunPlacesOK'
  BY <1>1, <1>2 DEF RunPlacesOK, Outside, OwnersIn
<1>4. BreakArches' = BreakArches /\ ArchsLater' = ArchsLater /\ Later' = Later /\ Base' = Base
  BY DEF BreakArches, ArchsLater, Later, Base
<1> QED  BY <1>1, <1>3, <1>4 DEF PlacesOK, Outside, OwnersIn

LEMMA UnionWithout ==
  ASSUME NEW S, NEW c \in S
  PROVE  UNION S = (UNION (S \ {c})) \cup c
<1>1. ASSUME NEW x \in UNION S  PROVE x \in (UNION (S \ {c})) \cup c
  <2>1. PICK d \in S : x \in d
    BY <1>1
  <2>2. d = c \/ d \in S \ {c}
    OBVIOUS
  <2> QED  BY <2>1, <2>2
<1>2. ASSUME NEW x \in (UNION (S \ {c})) \cup c  PROVE x \in UNION S
  BY <1>2
<1> QED  BY <1>1, <1>2

LEMMA UnionOfSingles ==
  ASSUME NEW S, NEW T
  PROVE  UNION (S \cup {{x} : x \in T}) = (UNION S) \cup T
<1>1. UNION {{x} : x \in T} = T
  OBVIOUS
<1>2. \A U : UNION (S \cup U) = (UNION S) \cup UNION U
  OBVIOUS
<1> QED  BY <1>1, <1>2

LEMMA PlacesReject ==
  ASSUME TypeOK, PlacesOK, Reject, UNCHANGED options
  PROVE  PlacesOK'
<1>1. /\ ~Idle /\ RunPlacesOK /\ run \in Run
      /\ UNCHANGED <<applied, upgrade_me, phase, todo, parked>>
  BY RunType DEF Reject, PlacesOK
<1>2. PICK comp \in run.worklist :
        /\ UNCHANGED <<run.kind, run.snapshot, run.rescheduled>>
        /\ IF Cardinality(comp) > 1
           THEN /\ run'.worklist = (run.worklist \ {comp}) \cup {{i} : i \in comp}
                /\ run'.maybe = run.maybe
           ELSE /\ run'.worklist = run.worklist \ {comp}
                /\ run'.maybe = run.maybe \cup comp
  BY RejectFields
<1>3. ~Idle'
  BY <1>1, <1>2 DEF Idle, NoRun, Run, HintKinds
<1>4. comp \subseteq Waiting /\ \A c, d \in run.worklist : c = d \/ c \cap d = {}
  BY <1>1 DEF Waiting, RunPlacesOK
<1>5. CASE Cardinality(comp) > 1
  <2>1. run'.worklist = (run.worklist \ {comp}) \cup {{i} : i \in comp}
    BY <1>2, <1>5
  <2>2. Waiting' = Waiting
    <3>1. Waiting' = UNION ((run.worklist \ {comp}) \cup {{i} : i \in comp})
      BY <2>1 DEF Waiting
    <3>2. Waiting' = (UNION (run.worklist \ {comp})) \cup comp
      BY <3>1, UnionOfSingles
    <3>3. Waiting = (UNION (run.worklist \ {comp})) \cup comp
      BY UnionWithout DEF Waiting
    <3> QED  BY <3>2, <3>3
  <2>3. ASSUME NEW c \in run'.worklist, NEW d \in run'.worklist  PROVE c = d \/ c \cap d = {}
    <3>1. CASE c \in run.worklist /\ d \in run.worklist
      BY <1>4, <3>1
    <3>2. CASE c \notin run.worklist
      <4>1. PICK i \in comp : c = {i}
        BY <2>1, <3>2
      <4>2. d = c \/ i \notin d
        <5>1. CASE d \in run.worklist \ {comp}
          BY <1>4, <4>1, <5>1
        <5>2. CASE d \in {{j} : j \in comp}
          BY <4>1, <5>2
        <5> QED  BY <2>1, <5>1, <5>2
      <4> QED  BY <4>1, <4>2
    <3>3. CASE d \notin run.worklist
      <4>1. PICK i \in comp : d = {i}
        BY <2>1, <3>3
      <4>2. d = c \/ i \notin c
        <5>1. CASE c \in run.worklist \ {comp}
          BY <1>4, <4>1, <5>1
        <5>2. CASE c \in {{j} : j \in comp}
          BY <4>1, <5>2
        <5> QED  BY <2>1, <5>1, <5>2
      <4> QED  BY <4>1, <4>2
    <3> QED  BY <3>1, <3>2, <3>3
  <2> QED  BY <1>1, <1>2, <1>3, <1>5, <2>2, <2>3, PlacesMove DEF RunPlacesOK, InRun
<1>6. CASE ~(Cardinality(comp) > 1)
  <2>1. Waiting' \subseteq Waiting /\ Waiting' \cap comp = {}
    BY <1>2, <1>4, <1>6 DEF Waiting
  <2>2. \A c, d \in run'.worklist : c = d \/ c \cap d = {}
    BY <1>2, <1>4, <1>6
  <2>3. InRun' \subseteq InRun
    BY <1>2, <1>4, <1>6, <2>1 DEF InRun
  <2>4. /\ Waiting' \cap run'.rescheduled = {} /\ Waiting' \cap run'.maybe = {}
        /\ run'.rescheduled \cap run'.maybe = {}
    BY <1>1, <1>2, <1>4, <1>6, <2>1 DEF RunPlacesOK
  <2> QED  BY <1>1, <1>2, <1>3, <2>2, <2>3, <2>4, PlacesMove
<1> QED  BY <1>5, <1>6

LEMMA PlacesRetry ==
  ASSUME TypeOK, PlacesOK, Retry, UNCHANGED options
  PROVE  PlacesOK'
<1>1. /\ ~Idle /\ RunPlacesOK /\ run \in Run
      /\ UNCHANGED <<applied, upgrade_me, phase, todo, parked>>
  BY RunType DEF Retry, PlacesOK
<1>2. /\ UNCHANGED <<run.kind, run.snapshot, run.maybe>>
      /\ run'.rescheduled = {}
      /\ UNION run'.worklist = run.rescheduled
      /\ \A c, d \in run'.worklist : c = d \/ c \cap d = {}
  BY RetryFields
<1>3. ~Idle'
  BY <1>1, <1>2 DEF Idle, NoRun, Run, HintKinds
<1>4. Waiting' = run.rescheduled
  BY <1>2 DEF Waiting
<1>5. InRun' \subseteq InRun
  BY <1>2, <1>4 DEF InRun
<1>6. /\ Waiting' \cap run'.rescheduled = {} /\ Waiting' \cap run'.maybe = {}
      /\ run'.rescheduled \cap run'.maybe = {}
  BY <1>1, <1>2, <1>4 DEF RunPlacesOK
<1> QED  BY <1>1, <1>2, <1>3, <1>5, <1>6, PlacesMove

LEMMA PlacesSucceed ==
  ASSUME TypeOK, PlacesOK, AccountsOK, Succeed, UNCHANGED options
  PROVE  PlacesOK'
<1>1. /\ ~Idle /\ RunPlacesOK /\ run \in Run
      /\ Idle' /\ UNCHANGED <<applied, phase, todo>>
      /\ upgrade_me' = Extra
  BY RunType DEF Succeed, Finished, PlacesOK, Idle
<1>2. /\ parked'.arch = parked.arch
      /\ parked'.all = IF run.kind \in {"main", "broken"} THEN parked.all \cup Extra ELSE parked.all
  BY DEF Succeed, TypeOK
<1>3. BreakArches' = BreakArches /\ ArchsLater' = ArchsLater /\ Base' = applied
  BY <1>1 DEF BreakArches, ArchsLater, Base
<1>4. OwnersIn(applied, applied) /\ OwnersIn(applied, applied)'
  BY <1>1 DEF PlacesOK, OwnersIn
<1>5. Outside(run.maybe, applied)
  BY <1>1, OutsidePart DEF RunPlacesOK, InRun
<1>6. ASSUME phase \in HintKinds
      PROVE  Outside(upgrade_me', applied)
  <2>1. run.kind \in HintKinds /\ run.kind = phase
    BY <1>1, <1>6 DEF RunPlacesOK, HintKinds
  <2>2. CASE run.kind = "hint"
    BY <1>1, <1>5, <2>2 DEF Extra
  <2>3. CASE run.kind # "hint"
    <3>1. upgrade_me' = upgrade_me \ run.selected
      BY <1>1, <2>1, <2>3 DEF Extra, HintKinds
    <3>2. Outside(upgrade_me, run.snapshot)
      BY <1>1, <1>6 DEF PlacesOK, Base
    <3>3. applied = run.snapshot \cup run.selected
      BY <1>1, <1>6 DEF AccountsOK, HintKinds
    <3>4. OwnersIn(upgrade_me', applied)
      BY <3>1, <3>2, <3>3, OwnersGrow DEF Outside
    <3> QED  BY <3>1, <3>2, <3>3, <3>4 DEF Outside
  <2> QED  BY <2>2, <2>3
<1>7. phase' \in HintKinds \/ (phase' = "main" /\ todo' # {}) => Outside(upgrade_me, Base)'
  <2>1. phase' = "main" => todo' = {}
    BY <1>1 DEF RunPlacesOK
  <2> QED  BY <1>1, <1>3, <1>6, <2>1 DEF Outside, OwnersIn
<1>8. ASSUME phase = "broken" \/ (phase = "main" /\ todo = {})
      PROVE  /\ Outside(Later, applied)'
             /\ \A a \in ArchsLater : parked'.arch[a] \cap parked'.all = {}
  <2>1. run.kind \in {"main", "broken"} /\ Extra = run.maybe
    BY <1>1, <1>8 DEF RunPlacesOK, Extra
  <2>2. parked'.all = parked.all \cup run.maybe
    BY <1>2, <2>1
  <2>3. Later' = Later \cup run.maybe
    BY <1>2, <1>3, <2>2 DEF Later
  <2>4. /\ Outside(Later, applied) /\ InRun \cap Later = {}
        /\ \A a \in ArchsLater : parked.arch[a] \cap parked.all = {}
    BY <1>1, <1>8 DEF PlacesOK
  <2>5. Outside(Later', applied)
    BY <1>5, <2>3, <2>4, OutsideUnion
  <2>6. \A a \in ArchsLater : parked.arch[a] \subseteq Later
    BY DEF Later
  <2>7. \A a \in ArchsLater : parked'.arch[a] \cap parked'.all = {}
    BY <1>2, <2>2, <2>4, <2>6 DEF InRun
  <2> QED  BY <1>1, <2>5, <2>7 DEF Outside, OwnersIn
<1>9. \A a \in BreakArches' : \A i \in parked'.arch[a] : ArchOf[i] = a
  BY <1>2, <1>3 DEF PlacesOK
<1> QED  BY <1>1, <1>3, <1>4, <1>7, <1>8, <1>9 DEF PlacesOK

LEMMA PlacesFail ==
  ASSUME TypeOK, PlacesOK, Fail, UNCHANGED options
  PROVE  PlacesOK'
<1>1. /\ ~Idle /\ RunPlacesOK /\ run \in Run
      /\ Idle' /\ UNCHANGED <<upgrade_me, todo, parked>>
      /\ IF HasTransaction THEN applied' = run.snapshot /\ phase' = phase
         ELSE phase' = "failed" /\ applied' = applied
  BY RunType DEF Fail, Finished, PlacesOK, Idle
<1>2. Base' = applied' /\ BreakArches' = BreakArches
  BY <1>1 DEF Base, BreakArches
<1>3. \A a \in BreakArches' : \A i \in parked'.arch[a] : ArchOf[i] = a
  BY <1>1, <1>2 DEF PlacesOK
<1>4. CASE HasTransaction
  <2>1. phase' \in HintKinds /\ phase' = phase
    BY <1>1, <1>4 DEF RunPlacesOK, HasTransaction, HintKinds
  <2>2. applied' = run.snapshot /\ OwnersIn(run.snapshot, run.snapshot)
    BY <1>1, <1>4 DEF RunPlacesOK
  <2>3. Outside(upgrade_me, run.snapshot)
    BY <1>1, <2>1 DEF PlacesOK, Base
  <2>4. OwnersIn(applied, applied)' /\ Outside(upgrade_me, Base)'
    BY <1>1, <1>2, <2>2, <2>3 DEF Outside, OwnersIn
  <2> QED  BY <1>1, <1>3, <2>1, <2>4 DEF PlacesOK, HintKinds
<1>5. CASE ~HasTransaction
  <2>1. OwnersIn(applied, applied)'
    BY <1>1, <1>5 DEF PlacesOK, OwnersIn
  <2> QED  BY <1>1, <1>3, <1>5, <2>1 DEF PlacesOK, HintKinds
<1> QED  BY <1>4, <1>5

LEMMA PlacesNextPhase ==
  ASSUME TypeOK, PlacesOK, NextPhase, UNCHANGED options
  PROVE  PlacesOK'
<1>1. /\ Idle /\ Idle' /\ todo = {} /\ todo' = Jobs(phase')
      /\ UNCHANGED <<applied, parked>>
      /\ upgrade_me' = IF phase = "broken" THEN parked.all ELSE upgrade_me
  BY DEF NextPhase, Idle, Jobs, Hints, BreakArches
<1>2. /\ phase' = "force-hint" => phase = "easy"
      /\ phase' = "main" => phase = "force-hint"
      /\ phase' = "broken" => phase = "main"
      /\ phase' = "hint" => phase = "broken"
      /\ phase' = "auto" => phase = "hint"
      /\ phase' # "easy"
  BY DEF NextPhase, Phases
<1>3. Base = applied /\ Base' = applied /\ BreakArches' = BreakArches
  BY <1>1 DEF Base, BreakArches
<1>4. OwnersIn(applied, applied) /\ OwnersIn(applied, applied)'
  BY <1>1 DEF PlacesOK, OwnersIn
<1>5. \A a \in BreakArches' : \A i \in parked'.arch[a] : ArchOf[i] = a
  BY <1>1, <1>3 DEF PlacesOK
<1>6. phase' = "main" => todo' # {}
  BY <1>1 DEF Jobs, HintKinds
<1>7. CASE phase = "broken"
  <2>1. Outside(parked.all, applied)
    BY <1>7, OutsidePart DEF PlacesOK, Later
  <2>2. Outside(upgrade_me, Base)'
    BY <1>1, <1>3, <1>7, <2>1 DEF Outside, OwnersIn
  <2>3. phase' # "broken" /\ phase' # "main"
    BY <1>2, <1>7
  <2> QED  BY <1>1, <1>4, <1>5, <2>2, <2>3 DEF PlacesOK
<1>8. CASE phase = "main"
  <2>1. ArchsLater = BreakArches
    BY <1>8 DEF ArchsLater
  <2>2. phase' \notin HintKinds /\ phase' # "main"
    BY <1>2, <1>8 DEF HintKinds
  <2>3. /\ Outside(Later, applied)
        /\ \A a \in BreakArches : parked.arch[a] \cap parked.all = {}
    BY <1>1, <1>8, <2>1 DEF PlacesOK
  <2>4. phase' = "broken" => ArchsLater' = BreakArches
    BY <1>1, <1>3 DEF ArchsLater, Jobs, HintKinds
  <2>5. phase' = "broken" => Later' = Later
    BY <1>1, <2>1, <2>4 DEF Later
  <2>6. phase' = "broken" => Outside(Later, applied)'
    BY <1>1, <2>3, <2>5 DEF Outside, OwnersIn
  <2> QED  BY <1>1, <1>4, <1>5, <2>2, <2>3, <2>4, <2>6 DEF PlacesOK
<1>9. CASE phase \notin {"main", "broken"}
  <2>1. upgrade_me' = upgrade_me
    BY <1>1, <1>9
  <2>2. phase' \in HintKinds \/ phase' = "main" => Outside(upgrade_me, applied)
    BY <1>2, <1>3, <1>9 DEF PlacesOK, HintKinds
  <2>3. phase' # "broken"
    BY <1>2, <1>9
  <2>4. phase' \in HintKinds \/ phase' = "main" => Outside(upgrade_me, Base)'
    BY <1>3, <2>1, <2>2 DEF Outside, OwnersIn
  <2> QED  BY <1>1, <1>4, <1>5, <1>6, <2>3, <2>4 DEF PlacesOK
<1> QED  BY <1>7, <1>8, <1>9

LEMMA StepPlaces == TypeOK /\ AccountsOK /\ PlacesOK /\ [Next]_vars => PlacesOK'
<1> SUFFICES ASSUME TypeOK, AccountsOK, PlacesOK, [Next]_vars PROVE PlacesOK'
  OBVIOUS
<1>1. CASE UNCHANGED vars
  BY <1>1 DEF vars, PlacesOK, RunPlacesOK, Outside, OwnersIn, Idle, InRun, Waiting, Base,
              ArchsLater, Later, BreakArches
<1>2. CASE Step /\ UNCHANGED options
  <2>1. CASE RaiseInHint
    <3>1. phase' = "raised" /\ UNCHANGED <<applied, parked, run, options>> /\ Idle
      BY <1>2, <2>1 DEF RaiseInHint
    <3> QED  BY <3>1 DEF PlacesOK, OwnersIn, Idle, BreakArches, HintKinds
  <2> QED  BY <1>2, <2>1, PlacesStartHint, PlacesStartMain, PlacesStartBroken, PlacesStartActions,
              PlacesAccept, PlacesReject, PlacesRetry, PlacesSucceed, PlacesFail, PlacesNextPhase
           DEF Step
<1> QED  BY <1>1, <1>2 DEF Next

LEMMA InitPlaces == Init => PlacesOK
<1> SUFFICES ASSUME Init PROVE PlacesOK
  OBVIOUS
<1>1. Idle /\ phase = "easy" /\ applied = {} /\ Base = {} /\ upgrade_me = UpgradeMe
  BY DEF Init, Idle, Base
<1>2. OwnersIn(applied, applied)
  BY <1>1 DEF OwnersIn
<1>3. OwnersIn(UpgradeMe, {})
  <2>1. \A i \in Item : NewCruft[i] \subseteq Cruft
    BY DEF Cruft
  <2>2. Cruft \cap UpgradeMe = {}
    BY LocalAssumption
  <2> QED  BY <2>1, <2>2 DEF OwnersIn
<1>4. \A a \in BreakArches : parked.arch[a] = {}
  BY DEF Init
<1> QED  BY <1>1, <1>2, <1>3, <1>4 DEF PlacesOK, Outside

\* No item is applied twice or waits in two places: the cruft that a migrated
\* item leaves can be nowhere before, no other leaves the same, and each phase
\* has its own part of the items to try.
THEOREM EachItemOnce == Spec => []ItemsOnce
<1>1. Init => PlacesOK
  BY InitPlaces
<1>2. TypeOK /\ AccountsOK /\ PlacesOK /\ [Next]_vars => PlacesOK'
  BY StepPlaces
<1>3. PlacesOK => ItemsOnce
  BY DEF PlacesOK, RunPlacesOK, ItemsOnce, Outside, InRun, Base, HintKinds
<1> QED  BY <1>1, <1>2, <1>3, AccountsInvariant, PTL DEF Spec

-----------------------------------------------------------------------------
(***************************************************************************)
(* What no run loses.                                                      *)
(***************************************************************************)

Gone(suite) == {i \in Item : Raises(i, suite)}

\* What must not be lost of what migrated to a suite.
ToKeep(suite) ==
  UpgradeMe \cup (IF phase \in {"obsolete", "cruft", "done"} THEN {}
                ELSE NewCruftOf(suite \ HintedWithoutRecursion))

\* It would not be lost if the run under way failed; if it succeeds, then what
\* is tried and what the selected items leave is in the suite, in the run or
\* can no longer migrate.  Nothing is parked before the main run; the runs for
\* architectures replace what was left to try only when it is parked.
KeptOK ==
  phase \notin {"failed", "raised"} =>
    /\ ToKeep(Base) \subseteq Base \cup upgrade_me \cup LeftForLater \cup Gone(Base)
    /\ phase \in {"easy", "force-hint"} \/ (phase = "main" /\ todo # {}) =>
         parked.all = {} /\ \A a \in BreakArches : parked.arch[a] = {}
    /\ Idle /\ (phase = "broken" \/ (phase = "main" /\ todo = {})) => upgrade_me \subseteq parked.all
    /\ phase \in HintKinds => todo \subseteq Hints[phase]
    /\ ~Idle /\ run.kind \in {"hint", "main", "broken"} =>
         upgrade_me \cup NewCruftOf(run.selected) \subseteq run.selected \cup InRun \cup Gone(applied)
    /\ ~Idle /\ run.kind \in HintKinds \ {"hint"} =>
         InRun \subseteq Cruft /\ NewCruftOf(run.selected \ HintedWithoutRecursion) = {}

LEMMA GoneStays ==
  ASSUME NEW S, NEW T, S \subseteq T
  PROVE  Gone(S) \subseteq Gone(T)
BY DEF Gone, Raises

LEMMA CruftOfUnion ==
  ASSUME NEW S, NEW T
  PROVE  NewCruftOf(S \cup T) = NewCruftOf(S) \cup NewCruftOf(T)
BY DEF NewCruftOf

\* Cruft leaves no cruft.
LEMMA CruftOfCruft ==
  ASSUME NEW S \in SUBSET Cruft
  PROVE  NewCruftOf(S) = {}
BY LocalAssumption DEF NewCruftOf


\* Steps within a run.
LEMMA KeptInRun ==
  ASSUME TypeOK, KeptOK, ~Idle, ~Idle', UNCHANGED <<upgrade_me, phase, todo, parked, options>>,
         run'.kind = run.kind, run'.snapshot = run.snapshot,
         run.kind \in {"hint", "main", "broken"} =>
           upgrade_me \cup NewCruftOf(run'.selected) \subseteq run'.selected \cup InRun' \cup Gone(applied'),
         run.kind \in HintKinds \ {"hint"} =>
           InRun' \subseteq Cruft /\ NewCruftOf(run'.selected \ HintedWithoutRecursion) = {}
  PROVE  KeptOK'
<1> SUFFICES ASSUME phase' \notin {"failed", "raised"} PROVE KeptOK'
  BY DEF KeptOK
<1>1. /\ LeftForLater' = LeftForLater /\ BreakArches' = BreakArches /\ Hints' = Hints
      /\ HintedWithoutRecursion' = HintedWithoutRecursion
  BY DEF LeftForLater, BreakArches, Hints, HintedWithoutRecursion
<1>2. Base' = Base
  BY DEF Base
<1>3. ToKeep(Base)' = ToKeep(Base)
  BY <1>1, <1>2 DEF ToKeep, NewCruftOf
<1>4. Gone(Base)' = Gone(Base) /\ Gone(applied)' = Gone(applied')
  BY <1>2 DEF Gone, Raises
<1>5. NewCruftOf(run.selected)' = NewCruftOf(run'.selected)
      /\ NewCruftOf(run.selected \ HintedWithoutRecursion)' = NewCruftOf(run'.selected \ HintedWithoutRecursion)
  BY <1>1 DEF NewCruftOf
<1> QED  BY <1>1, <1>2, <1>3, <1>4, <1>5 DEF KeptOK

LEMMA KeptAccept ==
  ASSUME TypeOK, PlacesOK, KeptOK, Accept, UNCHANGED options
  PROVE  KeptOK'
<1>1. /\ ~Idle /\ RunPlacesOK /\ run # NoRun /\ run \in Run
      /\ UNCHANGED <<upgrade_me, phase, todo, parked>>
  BY RunType DEF Accept, PlacesOK, Idle
<1>2. PICK comp \in run.worklist :
        /\ comp \in Items
        /\ applied' = applied \cup comp
        /\ run'.kind = run.kind /\ run'.snapshot = run.snapshot
        /\ run'.selected = run.selected \cup comp
        /\ run'.worklist = (run.worklist \ {comp}) \cup {{c} : c \in TriedCruft(comp)}
        /\ run'.rescheduled = run.rescheduled \cup run.maybe
        /\ run'.maybe = {}
  BY AcceptFields
<1>3. ~Idle'
  BY <1>1, <1>2 DEF Idle, NoRun, Run, HintKinds
<1>4. phase \notin {"failed", "raised"}
  BY <1>1 DEF RunPlacesOK, Run, HintKinds
<1>5. Waiting' = (UNION (run.worklist \ {comp})) \cup TriedCruft(comp)
  <2>1. \A T : UNION ((run.worklist \ {comp}) \cup {{c} : c \in T}) = (UNION (run.worklist \ {comp})) \cup T
    BY UnionOfSingles
  <2>2. Waiting' = UNION ((run.worklist \ {comp}) \cup {{c} : c \in TriedCruft(comp)})
    BY <1>2 DEF Waiting
  <2> QED  BY <2>1, <2>2
<1>6. Waiting = (UNION (run.worklist \ {comp})) \cup comp
  BY UnionWithout DEF Waiting
<1>7. /\ InRun \subseteq comp \cup InRun'
      /\ InRun' \subseteq InRun \cup TriedCruft(comp) /\ TriedCruft(comp) \subseteq InRun'
      /\ comp \subseteq InRun
  BY <1>2, <1>5, <1>6 DEF InRun
<1>8. Gone(applied) \subseteq Gone(applied')
  BY <1>2, GoneStays
<1>9. NewCruftOf(comp) \subseteq TriedCruft(comp) \cup Gone(applied')
  <2>1. NewCruftOf(comp) \subseteq Item
    BY <1>2, CruftType DEF Items
  <2> QED  BY <1>2, <2>1 DEF TriedCruft, Gone
<1>10. NewCruftOf(run'.selected) = NewCruftOf(run.selected) \cup NewCruftOf(comp)
  BY <1>2, CruftOfUnion
<1>11. ASSUME run.kind \in {"hint", "main", "broken"}
       PROVE  upgrade_me \cup NewCruftOf(run'.selected) \subseteq run'.selected \cup InRun' \cup Gone(applied')
  <2>1. upgrade_me \cup NewCruftOf(run.selected) \subseteq run.selected \cup InRun \cup Gone(applied)
    BY <1>1, <1>4, <1>11 DEF KeptOK
  <2> QED  BY <1>2, <1>7, <1>8, <1>9, <1>10, <2>1
<1>12. ASSUME run.kind \in HintKinds \ {"hint"}
       PROVE  InRun' \subseteq Cruft /\ NewCruftOf(run'.selected \ HintedWithoutRecursion) = {}
  <2>1. InRun \subseteq Cruft /\ NewCruftOf(run.selected \ HintedWithoutRecursion) = {}
    BY <1>1, <1>4, <1>12 DEF KeptOK
  <2>2. NewCruftOf(comp) = {} /\ NewCruftOf(comp \ HintedWithoutRecursion) = {}
    BY <1>7, <2>1, CruftOfCruft
  <2>3. run'.selected \ HintedWithoutRecursion
          = (run.selected \ HintedWithoutRecursion) \cup (comp \ HintedWithoutRecursion)
    BY <1>2
  <2>4. NewCruftOf(run'.selected \ HintedWithoutRecursion) = {}
    BY <2>1, <2>2, <2>3, CruftOfUnion
  <2>5. TriedCruft(comp) = {}
    BY <2>2 DEF TriedCruft
  <2> QED  BY <1>7, <2>1, <2>4, <2>5
<1> QED  BY <1>1, <1>2, <1>3, <1>11, <1>12, KeptInRun

\* Nothing leaves the run when an item is rejected or tried again.
LEMMA KeptMove ==
  ASSUME TypeOK, KeptOK, PlacesOK, ~Idle, ~Idle',
         UNCHANGED <<applied, upgrade_me, phase, todo, parked, options>>,
         UNCHANGED <<run.kind, run.snapshot, run.selected>>,
         InRun' = InRun
  PROVE  KeptOK'
<1>1. phase \notin {"failed", "raised"}
  BY RunType DEF PlacesOK, RunPlacesOK, Run, HintKinds
<1>2. NewCruftOf(run'.selected) = NewCruftOf(run.selected)
      /\ NewCruftOf(run'.selected \ HintedWithoutRecursion) = NewCruftOf(run.selected \ HintedWithoutRecursion)
      /\ Gone(applied') = Gone(applied)
  OBVIOUS
<1> QED  BY <1>1, <1>2, KeptInRun DEF KeptOK

LEMMA KeptReject ==
  ASSUME TypeOK, PlacesOK, KeptOK, Reject, UNCHANGED options
  PROVE  KeptOK'
<1>1. /\ ~Idle /\ RunPlacesOK /\ run \in Run
      /\ UNCHANGED <<applied, upgrade_me, phase, todo, parked>>
  BY RunType DEF Reject, PlacesOK
<1>2. PICK comp \in run.worklist :
        /\ UNCHANGED <<run.kind, run.snapshot, run.selected, run.rescheduled>>
        /\ IF Cardinality(comp) > 1
           THEN /\ run'.worklist = (run.worklist \ {comp}) \cup {{i} : i \in comp}
                /\ run'.maybe = run.maybe
           ELSE /\ run'.worklist = run.worklist \ {comp}
                /\ run'.maybe = run.maybe \cup comp
  BY RejectFields
<1>3. ~Idle'
  BY <1>1, <1>2 DEF Idle, NoRun, Run, HintKinds
<1>4. Waiting = (UNION (run.worklist \ {comp})) \cup comp
  BY UnionWithout DEF Waiting
<1>5. InRun' = InRun
  <2>1. CASE Cardinality(comp) > 1
    <3>1. Waiting' = (UNION (run.worklist \ {comp})) \cup comp
      BY <1>2, <2>1, UnionOfSingles DEF Waiting
    <3> QED  BY <1>2, <1>4, <2>1, <3>1 DEF InRun
  <2>2. CASE ~(Cardinality(comp) > 1)
    <3>1. Waiting' = UNION (run.worklist \ {comp})
      BY <1>2, <2>2 DEF Waiting
    <3> QED  BY <1>2, <1>4, <2>2, <3>1 DEF InRun
  <2> QED  BY <2>1, <2>2
<1> QED  BY <1>1, <1>2, <1>3, <1>5, KeptMove

LEMMA KeptRetry ==
  ASSUME TypeOK, PlacesOK, KeptOK, Retry, UNCHANGED options
  PROVE  KeptOK'
<1>1. /\ ~Idle /\ RunPlacesOK /\ run \in Run /\ run.worklist = {}
      /\ UNCHANGED <<applied, upgrade_me, phase, todo, parked>>
  BY RunType DEF Retry, PlacesOK
<1>2. /\ UNCHANGED <<run.kind, run.snapshot, run.selected, run.maybe>>
      /\ run'.rescheduled = {} /\ UNION run'.worklist = run.rescheduled
  BY RetryFields
<1>3. ~Idle'
  BY <1>1, <1>2 DEF Idle, NoRun, Run, HintKinds
<1>4. InRun' = InRun
  BY <1>1, <1>2 DEF InRun, Waiting
<1> QED  BY <1>1, <1>2, <1>3, <1>4, KeptMove

\* A successful run keeps, of what it was given, what it did not select.
LEMMA KeptSucceed ==
  ASSUME TypeOK, AccountsOK, PlacesOK, KeptOK, Succeed, UNCHANGED options
  PROVE  KeptOK'
<1>1. /\ ~Idle /\ RunPlacesOK /\ run \in Run
      /\ Idle' /\ UNCHANGED <<applied, phase, todo>>
      /\ upgrade_me' = Extra
      /\ run.worklist = {} /\ run.rescheduled = {}
  BY RunType DEF Succeed, Finished, PlacesOK, Idle
<1>2. /\ parked'.arch = parked.arch
      /\ parked'.all = IF run.kind \in {"main", "broken"} THEN parked.all \cup Extra ELSE parked.all
  BY DEF Succeed, TypeOK
<1>3. phase \notin {"failed", "raised"}
  BY <1>1 DEF RunPlacesOK, Run, HintKinds
<1>4. applied = run.snapshot \cup run.selected
  BY <1>1, <1>3 DEF AccountsOK
<1>5. /\ Base = run.snapshot /\ Base' = applied
      /\ BreakArches' = BreakArches /\ Hints' = Hints
      /\ HintedWithoutRecursion' = HintedWithoutRecursion
      /\ InRun = run.maybe
  BY <1>1 DEF Base, BreakArches, Hints, HintedWithoutRecursion, InRun, Waiting
<1>6. LeftForLater \subseteq LeftForLater'
  BY <1>1, <1>2, <1>5 DEF LeftForLater
<1>7. Gone(run.snapshot) \subseteq Gone(applied)
  BY <1>4, GoneStays
<1>8. upgrade_me \subseteq applied \cup upgrade_me' \cup Gone(applied)
  <2>1. CASE run.kind \in {"hint", "main", "broken"}
    <3>1. upgrade_me \subseteq run.selected \cup InRun \cup Gone(applied)
      BY <1>1, <1>3, <2>1 DEF KeptOK
    <3>2. upgrade_me' = run.maybe
      BY <1>1, <2>1 DEF Extra
    <3> QED  BY <1>4, <1>5, <3>1, <3>2
  <2>2. CASE run.kind = "actions"
    BY <1>1, <2>2 DEF Extra
  <2>3. CASE run.kind \notin {"hint", "main", "broken", "actions"}
    BY <1>1, <1>4, <2>3 DEF Extra
  <2> QED  BY <2>1, <2>2, <2>3
<1>9. UpgradeMe \subseteq applied \cup upgrade_me' \cup LeftForLater' \cup Gone(applied)
  <2>1. UpgradeMe \subseteq run.snapshot \cup upgrade_me \cup LeftForLater \cup Gone(run.snapshot)
    BY <1>3, <1>5 DEF KeptOK, ToKeep
  <2> QED  BY <1>4, <1>6, <1>7, <1>8, <2>1
<1>10. ASSUME phase \notin {"obsolete", "cruft", "done"}
       PROVE  NewCruftOf(applied \ HintedWithoutRecursion)
                \subseteq applied \cup upgrade_me' \cup LeftForLater' \cup Gone(applied)
  <2>1. NewCruftOf(run.snapshot \ HintedWithoutRecursion)
          \subseteq run.snapshot \cup upgrade_me \cup LeftForLater \cup Gone(run.snapshot)
    BY <1>3, <1>5, <1>10 DEF KeptOK, ToKeep
  <2>2. NewCruftOf(run.selected \ HintedWithoutRecursion) \subseteq applied \cup upgrade_me' \cup Gone(applied)
    <3>1. CASE run.kind \in {"hint", "main", "broken"}
      <4>1. NewCruftOf(run.selected) \subseteq run.selected \cup InRun \cup Gone(applied)
        BY <1>1, <1>3, <3>1 DEF KeptOK
      <4>2. upgrade_me' = run.maybe
        BY <1>1, <3>1 DEF Extra
      <4>3. NewCruftOf(run.selected \ HintedWithoutRecursion) \subseteq NewCruftOf(run.selected)
        BY DEF NewCruftOf
      <4> QED  BY <1>4, <1>5, <4>1, <4>2, <4>3
    <3>2. CASE run.kind \in HintKinds \ {"hint"}
      BY <1>1, <1>3, <3>2 DEF KeptOK
    <3>3. run.kind # "actions"
      BY <1>1, <1>10 DEF RunPlacesOK, TypeOK, Phases
    <3> QED  BY <1>1, <3>1, <3>2, <3>3 DEF Run
  <2>3. NewCruftOf(applied \ HintedWithoutRecursion)
          = NewCruftOf(run.snapshot \ HintedWithoutRecursion) \cup NewCruftOf(run.selected \ HintedWithoutRecursion)
    <3>1. applied \ HintedWithoutRecursion
            = (run.snapshot \ HintedWithoutRecursion) \cup (run.selected \ HintedWithoutRecursion)
      BY <1>4
    <3> QED  BY <3>1, CruftOfUnion
  <2> QED  BY <1>4, <1>6, <1>7, <1>8, <2>1, <2>2, <2>3
<1>11. (ToKeep(Base) \subseteq Base \cup upgrade_me \cup LeftForLater \cup Gone(Base))'
  BY <1>1, <1>5, <1>9, <1>10 DEF ToKeep, NewCruftOf, Gone, Raises
<1>12. ASSUME phase = "broken" \/ (phase = "main" /\ todo = {})
       PROVE  upgrade_me' \subseteq parked'.all
  <2>1. run.kind \in {"main", "broken"}
    BY <1>1, <1>12 DEF RunPlacesOK
  <2> QED  BY <1>1, <1>2, <2>1
<1>13. ASSUME phase \in {"easy", "force-hint"} \/ (phase = "main" /\ todo # {})
       PROVE  parked'.all = {} /\ \A a \in BreakArches : parked'.arch[a] = {}
  <2>1. run.kind \in {"easy", "force-hint"}
    BY <1>1, <1>13 DEF RunPlacesOK
  <2> QED  BY <1>2, <1>3, <1>13, <2>1 DEF KeptOK
<1>14. phase \in HintKinds => todo' \subseteq Hints'[phase]
  BY <1>1, <1>3, <1>5 DEF KeptOK
<1> QED  BY <1>1, <1>5, <1>11, <1>12, <1>13, <1>14 DEF KeptOK

\* A failed hint leaves upgrade_me as it was when it began.
LEMMA KeptFail ==
  ASSUME TypeOK, PlacesOK, KeptOK, Fail, UNCHANGED options
  PROVE  KeptOK'
<1>1. /\ ~Idle /\ RunPlacesOK /\ run \in Run
      /\ Idle' /\ UNCHANGED <<upgrade_me, todo, parked>>
      /\ IF HasTransaction THEN applied' = run.snapshot /\ phase' = phase
         ELSE phase' = "failed" /\ applied' = applied
  BY RunType DEF Fail, Finished, PlacesOK, Idle
<1>2. CASE HasTransaction
  <2>1. phase \in HintKinds /\ phase' = phase /\ Base' = Base
    BY <1>1, <1>2 DEF RunPlacesOK, HasTransaction, HintKinds, Base
  <2>2. /\ LeftForLater' = LeftForLater /\ BreakArches' = BreakArches /\ Hints' = Hints
        /\ HintedWithoutRecursion' = HintedWithoutRecursion
    BY <1>1, <2>1 DEF LeftForLater, BreakArches, Hints, HintedWithoutRecursion
  <2>3. ToKeep(Base)' = ToKeep(Base) /\ Gone(Base)' = Gone(Base)
    BY <2>1, <2>2 DEF ToKeep, NewCruftOf, Gone, Raises
  <2> QED  BY <1>1, <2>1, <2>2, <2>3 DEF KeptOK, HintKinds
<1> QED  BY <1>1, <1>2 DEF KeptOK

LEMMA KeptStartHint ==
  ASSUME TypeOK, PlacesOK, KeptOK, StartHint, UNCHANGED options
  PROVE  KeptOK'
<1>1. /\ Idle /\ phase \in HintKinds /\ phase' = phase /\ todo' \subseteq todo
      /\ UNCHANGED <<nuninst_orig, upgrade_me, all_selected, parked>>
      /\ phase \notin {"failed", "raised", "obsolete", "cruft", "done", "main", "broken"}
  BY DEF StartHint, HintKinds
<1>2. /\ LeftForLater' = LeftForLater /\ BreakArches' = BreakArches /\ Hints' = Hints
      /\ HintedWithoutRecursion' = HintedWithoutRecursion
  BY <1>1 DEF LeftForLater, BreakArches, Hints, HintedWithoutRecursion
<1>3. Base = applied /\ Base' = applied
  <2>1. run' = run \/ (run' # NoRun /\ run'.snapshot = applied)
    BY StartHintFields DEF Begun
  <2>2. run' = run => applied' = applied
    BY <1>1, StartHintFields DEF Begun, Idle
  <2> QED  BY <1>1, <2>1, <2>2 DEF Base, Idle
<1>4. ToKeep(Base)' = ToKeep(Base) /\ Gone(Base)' = Gone(Base)
  BY <1>1, <1>2, <1>3 DEF ToKeep, NewCruftOf, Gone, Raises
<1>5. phase' \in HintKinds => todo' \subseteq Hints'[phase']
  BY <1>1, <1>2 DEF KeptOK
<1>6. phase' \in {"easy", "force-hint"} => parked'.all = {} /\ \A a \in BreakArches' : parked'.arch[a] = {}
  BY <1>1, <1>2 DEF KeptOK
<1>7. (ToKeep(Base) \subseteq Base \cup upgrade_me \cup LeftForLater \cup Gone(Base))'
  BY <1>1, <1>2, <1>3, <1>4 DEF KeptOK
<1>8. CASE UNCHANGED <<applied, run>>
  BY <1>1, <1>5, <1>6, <1>7, <1>8 DEF KeptOK, Idle
<1>9. ASSUME NEW hint \in Items, hint \in todo, hint \subseteq upgrade_me, applied' = applied \cup hint,
             Begun(phase, hint, HintItems(hint), After(hint, nuninst_orig))
      PROVE  KeptOK'
  <2>1. /\ run'.kind = phase /\ run'.selected = hint /\ InRun' \subseteq HintItems(hint)
        /\ HintItems(hint) \subseteq InRun' \cup Gone(applied')
    <3>1. UNION run'.worklist \subseteq HintItems(hint)
          /\ \A i \in HintItems(hint) : Raises(i, applied') \/ i \in UNION run'.worklist
      BY <1>9 DEF Begun
    <3>2. InRun' = UNION run'.worklist
      BY <1>9 DEF Begun, InRun, Waiting
    <3>3. HintItems(hint) \subseteq Item
      BY <1>9, CruftType DEF HintItems, TypeOK, Items
    <3>4. run'.kind = phase /\ run'.selected = hint
      BY <1>9 DEF Begun
    <3> QED  BY <3>1, <3>2, <3>3, <3>4 DEF Gone
  <2>2. CASE phase = "hint"
    <3>1. upgrade_me \cup NewCruftOf(hint) \subseteq hint \cup HintItems(hint)
      BY <2>2 DEF HintItems
    <3>2. (upgrade_me \cup NewCruftOf(run.selected) \subseteq run.selected \cup InRun \cup Gone(applied))'
      BY <1>1, <2>1, <3>1 DEF NewCruftOf, Gone, Raises
    <3> QED  BY <1>1, <1>5, <1>7, <2>1, <2>2, <3>2 DEF KeptOK, HintKinds
  <2>3. CASE phase # "hint"
    <3>1. hint \subseteq HintedWithoutRecursion
      <4>1. hint \in Hints[phase] /\ phase \in HintKinds \ {"hint"}
        BY <1>1, <1>9, <2>3 DEF KeptOK
      <4> QED  BY <4>1 DEF HintedWithoutRecursion
    <3>2. NewCruftOf(run'.selected \ HintedWithoutRecursion) = {}
      BY <2>1, <3>1 DEF NewCruftOf
    <3>3. HintItems(hint) \subseteq Cruft
      BY <1>9, <2>3 DEF HintItems, Cruft, NewCruftOf, Items
    <3>4. (InRun \subseteq Cruft /\ NewCruftOf(run.selected \ HintedWithoutRecursion) = {})'
      BY <1>2, <2>1, <3>2, <3>3 DEF Cruft, NewCruftOf
    <3> QED  BY <1>1, <1>5, <1>6, <1>7, <2>1, <2>3, <3>4 DEF KeptOK, HintKinds
  <2> QED  BY <2>2, <2>3
<1> QED  BY <1>8, <1>9, StartHintFields

\* Nothing was parked before.
LEMMA KeptStartMain ==
  ASSUME TypeOK, PlacesOK, KeptOK, StartMain, UNCHANGED options
  PROVE  KeptOK'
<1>1. /\ Idle /\ phase = "main" /\ phase' = "main" /\ todo # {} /\ todo' = {}
  BY DEF StartMain
<1>2. /\ applied' = applied
      /\ upgrade_me' = {i \in upgrade_me : ArchOf[i] \notin BreakArches}
      /\ parked'.all = {}
      /\ \A a \in BreakArches : parked'.arch[a] = {i \in upgrade_me : ArchOf[i] = a}
      /\ Begun("main", {}, upgrade_me', nuninst_orig)
  BY StartMainFields
<1>3. /\ BreakArches' = BreakArches /\ HintedWithoutRecursion' = HintedWithoutRecursion
      /\ Base = applied /\ Base' = applied
  BY <1>1, <1>2 DEF BreakArches, HintedWithoutRecursion, Hints, Base, Idle, Begun
<1>4. LeftForLater = {}
  BY <1>1 DEF KeptOK, LeftForLater
<1>5. upgrade_me \subseteq upgrade_me' \cup LeftForLater'
  <2>1. LeftForLater' = parked'.all \cup UNION {parked'.arch[a] : a \in BreakArches}
    BY <1>1, <1>3 DEF LeftForLater
  <2> QED  BY <1>2, <2>1
<1>6. ToKeep(Base)' = ToKeep(Base) /\ Gone(Base)' = Gone(Base)
  BY <1>1, <1>2, <1>3 DEF ToKeep, NewCruftOf, Gone, Raises
<1>7. (ToKeep(Base) \subseteq Base \cup upgrade_me \cup LeftForLater \cup Gone(Base))'
  BY <1>1, <1>3, <1>4, <1>5, <1>6 DEF KeptOK
<1>8. (upgrade_me \cup NewCruftOf(run.selected) \subseteq run.selected \cup InRun \cup Gone(applied))'
  <2>1. /\ run'.selected = {} /\ InRun' = UNION run'.worklist
        /\ \A i \in upgrade_me' : Raises(i, applied') \/ i \in UNION run'.worklist
    BY <1>2 DEF Begun, InRun, Waiting
  <2>2. upgrade_me' \subseteq Item
    BY <1>2 DEF TypeOK, Items
  <2>3. NewCruftOf(run'.selected) = {}
    BY <2>1 DEF NewCruftOf
  <2>4. Gone(applied)' = {i \in Item : Raises(i, applied')}
    BY DEF Gone, Raises
  <2> QED  BY <2>1, <2>2, <2>3, <2>4 DEF NewCruftOf
<1>9. ~Idle' /\ run'.kind = "main"
  BY <1>2 DEF Begun, Idle
<1> QED  BY <1>1, <1>7, <1>8, <1>9 DEF KeptOK, HintKinds

LEMMA KeptStartBroken ==
  ASSUME TypeOK, PlacesOK, KeptOK, StartBroken, UNCHANGED options
  PROVE  KeptOK'
<1>1. /\ Idle /\ phase = "broken" /\ phase' = "broken" /\ parked' = parked
  BY DEF StartBroken
<1>2. PICK a \in todo \cap BreakArches :
        /\ todo' = todo \ {a} /\ upgrade_me' = parked.arch[a] /\ applied' = applied
        /\ Begun("broken", {}, parked.arch[a], nuninst_orig)
  BY StartBrokenFields
<1>3. /\ BreakArches' = BreakArches /\ HintedWithoutRecursion' = HintedWithoutRecursion
      /\ Base = applied /\ Base' = applied
  BY <1>1, <1>2 DEF BreakArches, HintedWithoutRecursion, Hints, Base, Idle, Begun
<1>4. upgrade_me \cup LeftForLater \subseteq upgrade_me' \cup LeftForLater'
  <2>1. /\ LeftForLater = parked.all \cup UNION {parked.arch[b] : b \in todo}
        /\ LeftForLater' = parked.all \cup UNION {parked.arch[b] : b \in todo \ {a}}
    BY <1>1, <1>2 DEF LeftForLater
  <2>2. upgrade_me \subseteq parked.all
    BY <1>1 DEF KeptOK
  <2> QED  BY <1>2, <2>1, <2>2
<1>5. ToKeep(Base)' = ToKeep(Base) /\ Gone(Base)' = Gone(Base)
  BY <1>1, <1>2, <1>3 DEF ToKeep, NewCruftOf, Gone, Raises
<1>6. (ToKeep(Base) \subseteq Base \cup upgrade_me \cup LeftForLater \cup Gone(Base))'
  BY <1>1, <1>3, <1>4, <1>5 DEF KeptOK
<1>7. (upgrade_me \cup NewCruftOf(run.selected) \subseteq run.selected \cup InRun \cup Gone(applied))'
  <2>1. /\ run'.selected = {} /\ InRun' = UNION run'.worklist
        /\ \A i \in upgrade_me' : Raises(i, applied') \/ i \in UNION run'.worklist
    BY <1>2 DEF Begun, InRun, Waiting
  <2>2. upgrade_me' \subseteq Item
    BY <1>2 DEF TypeOK, Items
  <2>3. NewCruftOf(run'.selected) = {}
    BY <2>1 DEF NewCruftOf
  <2>4. Gone(applied)' = {i \in Item : Raises(i, applied')}
    BY DEF Gone, Raises
  <2> QED  BY <2>1, <2>2, <2>3, <2>4 DEF NewCruftOf
<1>8. ~Idle' /\ run'.kind = "broken"
  BY <1>2 DEF Begun, Idle
<1> QED  BY <1>1, <1>6, <1>7, <1>8 DEF KeptOK, HintKinds

LEMMA KeptStartActions ==
  ASSUME TypeOK, PlacesOK, KeptOK, StartActions, UNCHANGED options
  PROVE  KeptOK'
<1>1. /\ Idle /\ phase \in {"obsolete", "cruft"} /\ phase' = phase /\ UNCHANGED <<parked, upgrade_me>>
  BY DEF StartActions
<1>2. applied' = applied /\ (run' = run \/ (~Idle' /\ run'.kind = "actions" /\ run'.snapshot = applied))
  BY StartActionsFields DEF Begun, Idle
<1>3. Base = applied /\ Base' = applied /\ LeftForLater = {} /\ LeftForLater' = {}
  BY <1>1, <1>2 DEF Base, Idle, LeftForLater
<1>4. ToKeep(Base)' = ToKeep(Base) /\ Gone(Base)' = Gone(Base)
  BY <1>1, <1>3 DEF ToKeep, Gone, Raises
<1> QED  BY <1>1, <1>2, <1>3, <1>4 DEF KeptOK, HintKinds, Idle

LEMMA KeptNextPhase ==
  ASSUME TypeOK, PlacesOK, KeptOK, NextPhase, UNCHANGED options
  PROVE  KeptOK'
<1>1. /\ Idle /\ Idle' /\ todo = {} /\ todo' = Jobs(phase')
      /\ UNCHANGED <<applied, parked>>
      /\ upgrade_me' = IF phase = "broken" THEN parked.all ELSE upgrade_me
  BY DEF NextPhase, Idle, Jobs, Hints, BreakArches
<1>2. /\ phase' = "force-hint" => phase = "easy"
      /\ phase' = "main" => phase = "force-hint"
      /\ phase' = "broken" => phase = "main"
      /\ phase' = "hint" <=> phase = "broken"
      /\ phase' = "auto" => phase = "hint"
      /\ phase' # "easy"
      /\ phase = "main" => phase' = "broken"
      /\ phase \in {"obsolete", "cruft", "done"} => phase' \in {"obsolete", "cruft", "done"}
      /\ phase \notin {"failed", "raised"}
  BY DEF NextPhase, Phases
<1>3. /\ Base = applied /\ Base' = applied /\ BreakArches' = BreakArches
      /\ HintedWithoutRecursion' = HintedWithoutRecursion /\ Hints' = Hints
  BY <1>1 DEF Base, BreakArches, HintedWithoutRecursion, Hints
<1>4. upgrade_me \cup LeftForLater \subseteq upgrade_me' \cup LeftForLater'
  <2>1. CASE phase = "broken"
    <3>1. LeftForLater = parked.all
      BY <1>1, <2>1 DEF LeftForLater
    <3>2. upgrade_me \subseteq parked.all
      BY <1>1, <1>2, <2>1 DEF KeptOK
    <3> QED  BY <1>1, <2>1, <3>1, <3>2
  <2>2. CASE phase = "main"
    <3>1. todo' = BreakArches
      BY <1>1, <1>2, <1>3, <2>2 DEF Jobs, HintKinds
    <3>2. LeftForLater' = LeftForLater
      BY <1>1, <1>2, <1>3, <2>2, <3>1 DEF LeftForLater
    <3> QED  BY <1>1, <2>2, <3>2
  <2>3. CASE phase \notin {"main", "broken"}
    BY <1>1, <2>3 DEF LeftForLater
  <2> QED  BY <2>1, <2>2, <2>3
<1>5. ToKeep(Base)' \subseteq ToKeep(Base) /\ Gone(Base)' = Gone(Base)
  BY <1>2, <1>3 DEF ToKeep, NewCruftOf, Gone, Raises
<1>6. (ToKeep(Base) \subseteq Base \cup upgrade_me \cup LeftForLater \cup Gone(Base))'
  BY <1>1, <1>2, <1>3, <1>4, <1>5 DEF KeptOK
<1>7. phase' \in HintKinds => todo' \subseteq Hints'[phase']
  BY <1>1, <1>3 DEF Jobs
<1>8. phase' = "main" => todo' # {}
  BY <1>1 DEF Jobs, HintKinds
<1>9. phase' \in {"easy", "force-hint", "main"} => parked'.all = {} /\ \A a \in BreakArches' : parked'.arch[a] = {}
  BY <1>1, <1>2, <1>3 DEF KeptOK
<1>10. phase' = "broken" => upgrade_me' \subseteq parked'.all
  BY <1>1, <1>2 DEF KeptOK
<1> QED  BY <1>1, <1>6, <1>7, <1>8, <1>9, <1>10 DEF KeptOK

LEMMA StepKept == TypeOK /\ AccountsOK /\ PlacesOK /\ KeptOK /\ [Next]_vars => KeptOK'
<1> SUFFICES ASSUME TypeOK, AccountsOK, PlacesOK, KeptOK, [Next]_vars PROVE KeptOK'
  OBVIOUS
<1>1. CASE UNCHANGED vars
  BY <1>1 DEF vars, KeptOK, ToKeep, Gone, Raises, NewCruftOf, HintedWithoutRecursion, Hints, Base,
              LeftForLater, BreakArches, Idle, InRun, Waiting
<1>2. CASE Step /\ UNCHANGED options
  <2>1. CASE RaiseInHint
    BY <2>1 DEF RaiseInHint, KeptOK
  <2> QED  BY <1>2, <2>1, KeptStartHint, KeptStartMain, KeptStartBroken, KeptStartActions,
              KeptAccept, KeptReject, KeptRetry, KeptSucceed, KeptFail, KeptNextPhase
           DEF Step
<1> QED  BY <1>1, <1>2 DEF Next

LEMMA InitKept == Init => KeptOK
<1> SUFFICES ASSUME Init PROVE KeptOK
  OBVIOUS
<1>1. /\ Idle /\ phase = "easy" /\ Base = {} /\ upgrade_me = UpgradeMe /\ todo = Hints["easy"]
      /\ parked.all = {} /\ \A a \in BreakArches : parked.arch[a] = {}
  BY DEF Init, Idle, Base, Jobs, HintKinds
<1>2. ToKeep({}) = UpgradeMe
  BY DEF ToKeep, NewCruftOf
<1> QED  BY <1>1, <1>2 DEF KeptOK

\* Whatever runs fail, are rolled back or replace the list of what is to try,
\* no item the excuses allowed gets lost, and no cruft before it is looked for
\* in the suite itself.
THEOREM NothingGetsLost == Spec => []NothingLost
<1>1. Init => PlacesOK /\ KeptOK
  BY InitPlaces, InitKept
<1>2. TypeOK /\ AccountsOK /\ PlacesOK /\ KeptOK /\ [Next]_vars => PlacesOK' /\ KeptOK'
  BY StepPlaces, StepKept
<1>3. KeptOK => NothingLost
  BY DEF KeptOK, NothingLost, ToKeep, Gone, Base
<1> QED  BY <1>1, <1>2, <1>3, AccountsInvariant, PTL DEF Spec


-----------------------------------------------------------------------------
(***************************************************************************)
(* No run makes the suite worse, nor gets stuck.                           *)
(***************************************************************************)

CountOn(nuninst, S) == MapThenSumSet(LAMBDA a : Cardinality(nuninst[a] \ AllowUninst[a]), S)

\* A fold over the architectures.
Sums(nuninst, S, sum) ==
  \A s \in SUBSET S :
    sum[s] = IF s = {} THEN 0
             ELSE LET x == CHOOSE x \in s : TRUE
                  IN  Cardinality(nuninst[x] \ AllowUninst[x]) + sum[s \ {x}]

\* The summed counters: a fold over the architectures, whose values are known
\* for every subset of them.
LEMMA Counted ==
  ASSUME NEW nuninst \in Nuninst, NEW S \in SUBSET Arch
  PROVE  \E sum : CountOn(nuninst, S) = sum[S] /\ Sums(nuninst, S, sum)
<1> DEFINE First(s) == CHOOSE x \in s : TRUE
           count(x) == Cardinality(nuninst[x] \ AllowUninst[x])
           Sum(s, g) == IF s = {} THEN 0 ELSE count(First(s)) + g[s \ {First(s)}]
           Part(n) == {s \in SUBSET S : Cardinality(s) <= n}
           IsFold(n, g) == g = [s \in Part(n) |-> Sum(s, g)]
           T == {n \in Nat : \E g : IsFold(n, g)}
<1>1. IsFiniteSet(S) /\ \A s \in SUBSET S : IsFiniteSet(s) /\ Cardinality(s) \in Nat
  <2>1. IsFiniteSet(S)
    BY RunAssumption, FS_Subset
  <2> QED  BY <2>1, FS_Subset, FS_CardinalityType
<1>2. \A s \in SUBSET S : s # {} => /\ First(s) \in s /\ s \ {First(s)} \in SUBSET S
                                    /\ Cardinality(s \ {First(s)}) = Cardinality(s) - 1
  BY <1>1, FS_RemoveElement
<1>3. \A s \in SUBSET S : Cardinality(s) = 0 <=> s = {}
  BY <1>1, FS_EmptySet
<1>4. 0 \in T
  <2>1. Part(0) = {{}}
    BY <1>1, <1>3
  <2>2. IsFold(0, [s \in Part(0) |-> 0])
    BY <2>1
  <2> QED  BY <2>2
<1> HIDE DEF First, count
<1>5. ASSUME NEW n \in Nat, n \in T PROVE n + 1 \in T
  <2>1. PICK g : IsFold(n, g)
    BY <1>5
  <2> DEFINE h == [s \in Part(n + 1) |-> IF s \in Part(n) THEN g[s]
                                         ELSE count(First(s)) + g[s \ {First(s)}]]
  <2>2. \A s \in Part(n + 1) : h[s] = IF s \in Part(n) THEN g[s]
                                      ELSE count(First(s)) + g[s \ {First(s)}]
    OBVIOUS
  <2>3. Part(n) \subseteq Part(n + 1)
    BY <1>1
  <2>4. \A s \in Part(n) : g[s] = Sum(s, g)
    BY <2>1
  <2>5. ASSUME NEW s \in Part(n + 1) PROVE h[s] = Sum(s, h)
    <3> HIDE DEF h
    <3>1. CASE s = {}
      <4>1. s \in Part(n)
        BY <1>1, <1>3, <3>1
      <4> QED  BY <2>2, <2>4, <3>1, <4>1
    <3>2. CASE s # {}
      <4>1. s \ {First(s)} \in Part(n)
        BY <1>1, <1>2, <3>2
      <4>2. h[s \ {First(s)}] = g[s \ {First(s)}]
        BY <2>2, <2>3, <4>1
      <4> QED  BY <2>2, <2>4, <3>2, <4>2
    <3> QED  BY <3>1, <3>2
  <2>6. IsFold(n + 1, h)
    <3>1. h = [s \in Part(n + 1) |-> h[s]]
      OBVIOUS
    <3> HIDE DEF h, Part, Sum
    <3> QED  BY <2>5, <3>1
  <2>7. \E f : IsFold(n + 1, f)
    <3> HIDE DEF h, IsFold
    <3> QED  BY <2>6
  <2> HIDE DEF h, IsFold
  <2> QED  BY <2>7
<1>6. PICK f : IsFold(Cardinality(S), f)
  <2>1. Cardinality(S) \in T
    <3> HIDE DEF T
    <3> QED  BY <1>1, <1>4, <1>5, NaturalNumbers
  <2> QED  BY <2>1
<1>7. Part(Cardinality(S)) = SUBSET S
  BY <1>1, FS_Subset
<1> DEFINE IsSum(g) == g = [s \in SUBSET S |-> Sum(s, g)]
           sum == CHOOSE g : IsSum(g)
<1>8. IsSum(f)
  BY <1>6, <1>7
<1>9. IsSum(sum)
  BY <1>8
<1>10. CountOn(nuninst, S) = sum[S]
  BY DEF CountOn, MapThenSumSet, MapThenFoldSet, First, count
<1> HIDE DEF sum
<1>11. \A s \in SUBSET S : sum[s] = Sum(s, sum)
  BY <1>9
<1> QED  BY <1>10, <1>11 DEF Sums, First, count

\* Not worse: what the verdict on a component asks of an architecture.
NotWorse(old, new, a) == ~is_nuninst_worse(old, new, a)

LEMMA CountersAreNumbers ==
  ASSUME NEW nuninst \in Nuninst, NEW a \in Arch
  PROVE  Cardinality(nuninst[a] \ AllowUninst[a]) \in Nat
<1>1. nuninst[a] \ AllowUninst[a] \subseteq Package
  BY DEF Nuninst
<1>2. IsFiniteSet(nuninst[a] \ AllowUninst[a])
  BY <1>1, RunAssumption, FS_Subset
<1> QED  BY <1>2, FS_CardinalityType

LEMMA NotWorseStays ==
  ASSUME NEW old \in Nuninst, NEW mid \in Nuninst, NEW new \in Nuninst, NEW a \in Arch,
         NotWorse(old, mid, a), NotWorse(mid, new, a)
  PROVE  NotWorse(old, new, a)
<1> DEFINE count(nuninst) == Cardinality(nuninst[a] \ AllowUninst[a])
<1>1. count(old) \in Nat /\ count(mid) \in Nat /\ count(new) \in Nat
  BY CountersAreNumbers
<1> HIDE DEF count
<1>2. ~(count(mid) > count(old)) /\ ~(count(new) > count(mid))
  BY DEF NotWorse, is_nuninst_worse, count
<1>3. ~(count(new) > count(old))
  BY <1>1, <1>2
<1>4. (new[a] \ old[a]) \cap KeepInstallable = {}
  BY DEF NotWorse, is_nuninst_worse
<1> QED  BY <1>3, <1>4 DEF NotWorse, is_nuninst_worse, count

LEMMA SameIsNotWorse ==
  ASSUME NEW old \in Nuninst, NEW new \in Nuninst, NEW a \in Arch, old[a] = new[a]
  PROVE  NotWorse(old, new, a)
<1> DEFINE count(nuninst) == Cardinality(nuninst[a] \ AllowUninst[a])
<1>1. count(old) \in Nat /\ count(new) = count(old)
  BY CountersAreNumbers
<1> HIDE DEF count
<1>2. ~(count(new) > count(old))
  BY <1>1
<1> QED  BY <1>2 DEF NotWorse, is_nuninst_worse, count

\* What is not worse on any architecture is as good in the sum.
LEMMA NotWorseIsAsGood ==
  ASSUME NEW old \in Nuninst, NEW new \in Nuninst, NEW break_arches,
         \A a \in Arch \ break_arches : NotWorse(old, new, a)
  PROVE  is_nuninst_asgood_generous(old, new, break_arches)
<1> DEFINE S == Arch \ break_arches
           First(s) == CHOOSE x \in s : TRUE
           count(nuninst, x) == Cardinality(nuninst[x] \ AllowUninst[x])
<1>1. PICK before : CountOn(old, S) = before[S] /\ Sums(old, S, before)
  BY Counted
<1>2. PICK after : CountOn(new, S) = after[S] /\ Sums(new, S, after)
  BY Counted
<1>3. ASSUME NEW x \in S
      PROVE  /\ count(old, x) \in Nat /\ count(new, x) \in Nat /\ count(new, x) <= count(old, x)
             /\ (new[x] \ old[x]) \cap KeepInstallable = {}
  <2>1. count(old, x) \in Nat /\ count(new, x) \in Nat
    BY <1>3, CountersAreNumbers
  <2>2. ~(count(new, x) > count(old, x)) /\ (new[x] \ old[x]) \cap KeepInstallable = {}
    BY <1>3 DEF NotWorse, is_nuninst_worse
  <2> HIDE DEF count
  <2> QED  BY <2>1, <2>2
<1>4. IsFiniteSet(S) /\ \A s \in SUBSET S : IsFiniteSet(s)
  BY RunAssumption, FS_Subset
<1> DEFINE Good(s) == before[s] \in Nat /\ after[s] \in Nat /\ after[s] <= before[s]
           Bad == {s \in SUBSET S : ~Good(s)}
<1> HIDE DEF S
<1>5. Bad = {}
  <2> SUFFICES ASSUME Bad # {} PROVE FALSE
    OBVIOUS
  <2>1. Bad \subseteq FiniteSubsetsOf(S)
    BY <1>4 DEF FiniteSubsetsOf
  <2>2. PICK s \in Bad : \A r \in Bad : r \subseteq s => r = s
    <3> HIDE DEF Bad
    <3> QED  BY <2>1, SmallestSet
  <2>3. CASE s = {}
    <3>1. before[{}] = 0 /\ after[{}] = 0
      BY <1>1, <1>2 DEF Sums
    <3> QED  BY <2>2, <2>3, <3>1
  <2>4. CASE s # {}
    <3>1. First(s) \in s /\ s \ {First(s)} \in SUBSET S /\ s \ {First(s)} # s
      BY <2>2, <2>4
    <3>2. Good(s \ {First(s)})
      BY <2>2, <3>1
    <3>3. /\ before[s] = count(old, First(s)) + before[s \ {First(s)}]
          /\ after[s] = count(new, First(s)) + after[s \ {First(s)}]
      BY <1>1, <1>2, <2>2, <2>4 DEF Sums
    <3>4. First(s) \in S
      BY <2>2, <3>1
    <3>5. /\ count(old, First(s)) \in Nat /\ count(new, First(s)) \in Nat
          /\ count(new, First(s)) <= count(old, First(s))
      BY <1>3, <3>4
    <3> HIDE DEF First, count
    <3>6. Good(s)
      BY <3>2, <3>3, <3>5
    <3> QED  BY <2>2, <3>6
  <2> QED  BY <2>3, <2>4
<1>6. after[S] <= before[S]
  <2>1. Good(S)
    BY <1>5
  <2> QED  BY <2>1
<1>7. CountOn(new, Arch \ break_arches) <= CountOn(old, Arch \ break_arches)
  BY <1>1, <1>2, <1>6 DEF S
<1>8. \A a \in Arch \ break_arches : (new[a] \ old[a]) \cap KeepInstallable = {}
  BY <1>3 DEF S
<1> QED  BY <1>7, <1>8 DEF is_nuninst_asgood_generous, CountOn

OnlyFor(items, archs) == \A i \in items : ArchOf[i] \in archs

\* Compared to when the run began: no architecture where nothing may be broken
\* is worse, unless a hint began it; none at all is worse if only items for
\* architectures where much may be broken were selected, and those have left
\* the others as they were.  The runs for an architecture have its items only.
StandingOK ==
  ~Idle =>
    /\ run.kind \in {"main", "broken", "actions"} =>
         /\ \A a \in Arch \ BreakArches : NotWorse(nuninst_orig, run.nuninst, a)
         /\ BreakArches \cap NewArches = {} /\ OnlyFor(run.selected, BreakArches) =>
              \A a \in Arch : NotWorse(nuninst_orig, run.nuninst, a)
    /\ OnlyFor(run.selected, BreakArches) =>
         \A a \in Arch \ BreakArches : run.nuninst[a] = nuninst_orig[a]
    /\ run.kind = "broken" => run.arch \in BreakArches /\ OnlyFor(InRun \cup run.selected, {run.arch})

\* Items for some architectures affect no others.
LEMMA AffectedAre ==
  ASSUME NEW comp \in Items, NEW archs \in SUBSET Arch, OnlyFor(comp, archs)
  PROVE  Affected(comp) \subseteq archs
BY RunAssumption DEF OnlyFor, Affected

\* What an accepted component leaves as it was, or better.
LEMMA AcceptedIsNotWorse ==
  ASSUME TypeOK, run \in Run, NEW comp \in Items, ~Regresses(comp, run.nuninst),
         NEW a \in Arch,
         \/ a \notin Affected(comp)
         \/ phase # "broken" /\ a \notin BreakArches
         \/ a \notin NewArches /\ \A i \in comp : ArchOf[i] # SourceItem
  PROVE  NotWorse(run.nuninst, After(comp, run.nuninst), a)
<1>1. run.nuninst \in Nuninst /\ After(comp, run.nuninst) \in Nuninst
  BY AfterType DEF Run, TypeOK
<1>2. CASE a \notin Affected(comp)
  <2>1. After(comp, run.nuninst)[a] = run.nuninst[a]
    BY <1>2 DEF After
  <2> QED  BY <1>1, <2>1, SameIsNotWorse
<1>3. CASE a \in Affected(comp)
  BY <1>3 DEF Regresses, NotWorse, MayBreak
<1> QED  BY <1>2, <1>3

LEMMA StandingAccept ==
  ASSUME TypeOK, PlacesOK, StandingOK, Accept, UNCHANGED options
  PROVE  StandingOK'
<1>1. /\ ~Idle /\ RunPlacesOK /\ run \in Run
      /\ UNCHANGED <<nuninst_orig, phase>>
  BY RunType DEF Accept, PlacesOK
<1>2. PICK comp \in run.worklist :
        /\ comp \in Items /\ ~Regresses(comp, run.nuninst)
        /\ run'.kind = run.kind /\ run'.arch = run.arch
        /\ run'.selected = run.selected \cup comp
        /\ run'.nuninst = After(comp, run.nuninst)
        /\ run'.worklist = (run.worklist \ {comp}) \cup {{c} : c \in TriedCruft(comp)}
        /\ run'.rescheduled = run.rescheduled \cup run.maybe
        /\ run'.maybe = {}
  BY AcceptFields
<1>3. BreakArches' = BreakArches /\ NewArches' = NewArches /\ BreakArches \subseteq Arch
  BY RunAssumption DEF BreakArches, NewArches, TypeOK
<1>4. /\ run.nuninst \in Nuninst /\ run'.nuninst \in Nuninst /\ nuninst_orig \in Nuninst
  BY <1>1, <1>2, AfterType DEF Run, TypeOK
<1>5. \A archs : OnlyFor(run'.selected, archs) <=> OnlyFor(run.selected, archs) /\ OnlyFor(comp, archs)
  BY <1>2 DEF OnlyFor
<1>6. comp \subseteq InRun /\ InRun' \subseteq InRun \cup TriedCruft(comp)
  <2>1. \A T : UNION ((run.worklist \ {comp}) \cup {{c} : c \in T}) = (UNION (run.worklist \ {comp})) \cup T
    BY UnionOfSingles
  <2>2. Waiting' = UNION ((run.worklist \ {comp}) \cup {{c} : c \in TriedCruft(comp)})
    BY <1>2 DEF Waiting
  <2>3. Waiting' = (UNION (run.worklist \ {comp})) \cup TriedCruft(comp)
    BY <2>1, <2>2
  <2>4. Waiting = (UNION (run.worklist \ {comp})) \cup comp
    BY UnionWithout DEF Waiting
  <2> QED  BY <1>2, <2>3, <2>4 DEF InRun
<1>7. \A a \in Arch \ Affected(comp) : run'.nuninst[a] = run.nuninst[a]
  BY <1>2 DEF After
<1>8. OnlyFor(comp, BreakArches) =>
        Affected(comp) \subseteq BreakArches /\ \A i \in comp : ArchOf[i] # SourceItem
  <2>1. SourceItem \notin BreakArches
    BY <1>3, RunAssumption
  <2> QED  BY <1>2, <1>3, <2>1, AffectedAre DEF OnlyFor
<1>9. ASSUME run.kind \in {"main", "broken", "actions"}, NEW a \in Arch \ BreakArches
      PROVE  NotWorse(nuninst_orig, run'.nuninst, a)
  <2>1. NotWorse(nuninst_orig, run.nuninst, a)
    BY <1>1, <1>9 DEF StandingOK
  <2>2. CASE run.kind = "broken"
    <3>1. OnlyFor(comp, BreakArches)
      BY <1>1, <1>6, <2>2 DEF StandingOK, OnlyFor
    <3>2. NotWorse(run.nuninst, run'.nuninst, a)
      BY <1>2, <1>1, <1>8, <1>9, <3>1, AcceptedIsNotWorse
    <3> QED  BY <1>4, <2>1, <3>2, NotWorseStays
  <2>3. CASE run.kind # "broken"
    <3>1. phase # "broken"
      BY <1>1, <1>9, <2>3 DEF RunPlacesOK
    <3>2. NotWorse(run.nuninst, run'.nuninst, a)
      BY <1>2, <1>1, <1>9, <3>1, AcceptedIsNotWorse
    <3> QED  BY <1>4, <2>1, <3>2, NotWorseStays
  <2> QED  BY <2>2, <2>3
<1>10. ASSUME run.kind \in {"main", "broken", "actions"}, BreakArches \cap NewArches = {},
              OnlyFor(run'.selected, BreakArches), NEW a \in Arch
       PROVE  NotWorse(nuninst_orig, run'.nuninst, a)
  <2>1. NotWorse(nuninst_orig, run.nuninst, a)
    BY <1>1, <1>5, <1>10 DEF StandingOK
  <2>2. NotWorse(run.nuninst, run'.nuninst, a)
    BY <1>1, <1>2, <1>5, <1>8, <1>10, AcceptedIsNotWorse
  <2> QED  BY <1>4, <2>1, <2>2, NotWorseStays
<1>11. ASSUME OnlyFor(run'.selected, BreakArches), NEW a \in Arch \ BreakArches
       PROVE  run'.nuninst[a] = nuninst_orig[a]
  <2>1. run.nuninst[a] = nuninst_orig[a]
    BY <1>1, <1>5, <1>11 DEF StandingOK
  <2> QED  BY <1>5, <1>7, <1>8, <1>11, <2>1
<1>12. ASSUME run.kind = "broken"
       PROVE  run.arch \in BreakArches /\ OnlyFor(InRun' \cup run'.selected, {run.arch})
  <2>1. run.arch \in BreakArches /\ OnlyFor(InRun \cup run.selected, {run.arch})
    BY <1>1, <1>12 DEF StandingOK
  <2>2. \A i \in comp : ArchOf[i] = run.arch /\ ArchOf[i] # SourceItem
    BY <1>3, <1>6, <2>1, RunAssumption DEF OnlyFor
  <2>3. \A i \in TriedCruft(comp) : ArchOf[i] = run.arch
    BY <1>2, <2>2, LocalAssumption DEF TriedCruft, NewCruftOf, Items
  <2> QED  BY <1>2, <1>6, <2>1, <2>2, <2>3 DEF OnlyFor
<1> QED  BY <1>1, <1>2, <1>3, <1>9, <1>10, <1>11, <1>12 DEF StandingOK

LEMMA StandingMove ==
  ASSUME StandingOK, ~Idle, UNCHANGED <<nuninst_orig, options>>,
         UNCHANGED <<run.kind, run.arch, run.selected, run.nuninst>>,
         InRun' \subseteq InRun
  PROVE  StandingOK'
<1>1. BreakArches' = BreakArches /\ NewArches' = NewArches
  BY DEF BreakArches, NewArches
<1> QED  BY <1>1 DEF StandingOK, OnlyFor

LEMMA StandingReject ==
  ASSUME TypeOK, PlacesOK, StandingOK, Reject, UNCHANGED options
  PROVE  StandingOK'
<1>1. ~Idle /\ nuninst_orig' = nuninst_orig
  BY DEF Reject
<1>2. PICK comp \in run.worklist :
        /\ UNCHANGED <<run.kind, run.arch, run.selected, run.nuninst, run.rescheduled>>
        /\ IF Cardinality(comp) > 1
           THEN /\ run'.worklist = (run.worklist \ {comp}) \cup {{i} : i \in comp}
                /\ run'.maybe = run.maybe
           ELSE /\ run'.worklist = run.worklist \ {comp}
                /\ run'.maybe = run.maybe \cup comp
  BY RejectFields
<1>3. Waiting = (UNION (run.worklist \ {comp})) \cup comp
  BY UnionWithout DEF Waiting
<1>4. InRun' \subseteq InRun
  <2>1. CASE Cardinality(comp) > 1
    <3>1. Waiting' = (UNION (run.worklist \ {comp})) \cup comp
      <4>1. Waiting' = UNION ((run.worklist \ {comp}) \cup {{i} : i \in comp})
        BY <1>2, <2>1 DEF Waiting
      <4> QED  BY <4>1, UnionOfSingles
    <3> QED  BY <1>2, <1>3, <2>1, <3>1 DEF InRun
  <2>2. CASE ~(Cardinality(comp) > 1)
    <3>1. Waiting' = UNION (run.worklist \ {comp})
      BY <1>2, <2>2 DEF Waiting
    <3> QED  BY <1>2, <1>3, <2>2, <3>1 DEF InRun
  <2> QED  BY <2>1, <2>2
<1> QED  BY <1>1, <1>2, <1>4, StandingMove

LEMMA StandingRetry ==
  ASSUME TypeOK, StandingOK, Retry, UNCHANGED options
  PROVE  StandingOK'
<1>1. ~Idle /\ nuninst_orig' = nuninst_orig /\ run \in Run /\ run.worklist = {}
  BY RunType DEF Retry
<1>2. /\ UNCHANGED <<run.kind, run.selected, run.nuninst, run.maybe>>
      /\ run'.rescheduled = {} /\ UNION run'.worklist = run.rescheduled
  BY RetryFields
<1>3. run'.arch = run.arch
  BY RetryFields
<1>4. InRun' \subseteq InRun
  BY <1>1, <1>2 DEF InRun, Waiting
<1> QED  BY <1>1, <1>2, <1>3, <1>4, StandingMove

\* A run that begins with nothing selected.
LEMMA StandingBegun ==
  ASSUME TypeOK, UNCHANGED <<nuninst_orig, options>>,
         NEW kind, NEW items, Begun(kind, {}, items, nuninst_orig),
         kind = "broken" => run'.arch \in BreakArches /\ OnlyFor(items, {run'.arch})
  PROVE  StandingOK'
<1>1. BreakArches' = BreakArches /\ NewArches' = NewArches
  BY DEF BreakArches, NewArches
<1>2. \A a \in Arch : NotWorse(nuninst_orig, nuninst_orig, a)
  BY SameIsNotWorse DEF TypeOK
<1>3. /\ run'.kind = kind /\ run'.selected = {} /\ run'.nuninst = nuninst_orig
      /\ InRun' \subseteq items
  BY DEF Begun, InRun, Waiting
<1> QED  BY <1>1, <1>2, <1>3 DEF StandingOK, OnlyFor

LEMMA StandingStartHint ==
  ASSUME TypeOK, StandingOK, StartHint, UNCHANGED options
  PROVE  StandingOK'
<1>1. Idle /\ phase \in HintKinds /\ nuninst_orig' = nuninst_orig
  BY DEF StartHint
<1>2. BreakArches' = BreakArches /\ NewArches' = NewArches /\ BreakArches \subseteq Arch
  BY RunAssumption DEF BreakArches, NewArches, TypeOK
<1>3. CASE run' = run
  BY <1>1, <1>3 DEF StandingOK, Idle
<1>4. ASSUME NEW hint \in Items, Begun(phase, hint, HintItems(hint), After(hint, nuninst_orig))
      PROVE  StandingOK'
  <2>1. /\ run'.kind = phase /\ run'.selected = hint /\ run'.nuninst = After(hint, nuninst_orig)
        /\ phase \notin {"main", "broken", "actions"}
    BY <1>1, <1>4 DEF Begun, HintKinds
  <2>2. ASSUME OnlyFor(hint, BreakArches), NEW a \in Arch \ BreakArches
        PROVE  After(hint, nuninst_orig)[a] = nuninst_orig[a]
    <3>1. a \notin Affected(hint)
      BY <1>2, <1>4, <2>2, AffectedAre
    <3> QED  BY <3>1 DEF After
  <2> QED  BY <1>1, <1>2, <2>1, <2>2 DEF StandingOK
<1> QED  BY <1>3, <1>4, StartHintFields

LEMMA StepStanding == TypeOK /\ PlacesOK /\ StandingOK /\ [Next]_vars => StandingOK'
<1> SUFFICES ASSUME TypeOK, PlacesOK, StandingOK, [Next]_vars PROVE StandingOK'
  OBVIOUS
<1>1. CASE UNCHANGED vars
  BY <1>1 DEF vars, StandingOK, Idle, InRun, Waiting, OnlyFor, BreakArches, NewArches, NotWorse
<1>2. CASE Step /\ UNCHANGED options
  <2>1. CASE RaiseInHint
    BY <2>1 DEF RaiseInHint, StandingOK, Idle
  <2>2. CASE StartMain
    <3>1. nuninst_orig' = nuninst_orig
      BY <2>2 DEF StartMain
    <3> QED  BY <1>2, <2>2, <3>1, StartMainFields, StandingBegun
  <2>3. CASE StartBroken
    <3>1. nuninst_orig' = nuninst_orig /\ phase = "broken"
      BY <2>3 DEF StartBroken
    <3>2. PICK a \in BreakArches : run'.arch = a /\ Begun("broken", {}, parked.arch[a], nuninst_orig)
      BY <2>3, StartBrokenFields
    <3>3. OnlyFor(parked.arch[a], {a})
      BY DEF PlacesOK, OnlyFor
    <3> QED  BY <1>2, <3>1, <3>2, <3>3, StandingBegun
  <2>4. CASE StartActions
    <3>1. nuninst_orig' = nuninst_orig /\ Idle
      BY <2>4 DEF StartActions
    <3>2. CASE run' = run
      BY <3>1, <3>2 DEF StandingOK, Idle
    <3>3. CASE run' # run
      BY <1>2, <2>4, <3>1, <3>3, StartActionsFields, StandingBegun
    <3> QED  BY <3>2, <3>3
  <2>5. CASE Succeed \/ Fail \/ NextPhase
    BY <2>5 DEF Succeed, Fail, NextPhase, StandingOK, Idle
  <2> QED  BY <1>2, <2>1, <2>2, <2>3, <2>4, <2>5, StandingStartHint,
              StandingAccept, StandingReject, StandingRetry DEF Step
<1> QED  BY <1>1, <1>2 DEF Next

LEMMA RunInvariant == Spec => [](TypeOK /\ AccountsOK /\ PlacesOK /\ StandingOK)
<1>1. Init => PlacesOK /\ StandingOK
  BY InitPlaces DEF Init, StandingOK, Idle
<1>2. TypeOK /\ AccountsOK /\ PlacesOK /\ StandingOK /\ [Next]_vars => PlacesOK' /\ StandingOK'
  BY StepPlaces, StepStanding
<1> QED  BY <1>1, <1>2, AccountsInvariant, PTL DEF Spec

\* No run without a transaction fails: where something may be broken, no item
\* that would break it is accepted unless another architecture is meant, too.
\* An architecture that is new as well could be broken by items for it alone.
THEOREM NoRunGetsStuck ==
  ASSUME \A setup \in Setup : setup.break_arches \cap setup.new_arches = {}
  PROVE  Spec => []NeverStuck
<1>1. TypeOK /\ PlacesOK /\ StandingOK /\ NeverStuck /\ [Next]_vars => NeverStuck'
  <2> SUFFICES ASSUME TypeOK, PlacesOK, StandingOK, NeverStuck, [Next]_vars, phase' = "failed"
               PROVE  FALSE
    BY DEF NeverStuck
  <2>1. phase' # phase
    BY DEF NeverStuck
  <2>2. Fail
    <3>1. ~StartHint /\ ~StartMain /\ ~StartBroken /\ ~StartActions
      BY <2>1 DEF StartHint, StartMain, StartBroken, StartActions
    <3>2. ~Accept /\ ~Reject /\ ~Retry /\ ~Succeed
      BY <2>1 DEF Accept, Reject, Retry, Succeed
    <3>3. ~RaiseInHint /\ ~NextPhase
      BY DEF RaiseInHint, NextPhase, Phases
    <3>4. ~UNCHANGED vars
      BY <2>1 DEF vars
    <3> QED  BY <3>1, <3>2, <3>3, <3>4 DEF Next, Step
  <2>3. ~Idle /\ ~Better /\ ~HasTransaction /\ run \in Run /\ RunPlacesOK
    BY <2>1, <2>2, RunType DEF Fail, Finished, PlacesOK
  <2>4. run.kind \in {"main", "broken", "actions"}
    BY <2>3 DEF Better, HasTransaction, Run, HintKinds
  <2>5. nuninst_orig \in Nuninst /\ run.nuninst \in Nuninst
    BY <2>3 DEF TypeOK, Run
  <2>6. BreakArches \cap NewArches = {} /\ BreakArches \subseteq Arch
    BY RunAssumption DEF BreakArches, NewArches, TypeOK
  <2>7. \A a \in Arch \ RunBreakArches : NotWorse(nuninst_orig, run.nuninst, a)
    <3>1. CASE OnlyFor(run.selected, BreakArches)
      BY <2>3, <2>4, <2>6, <3>1 DEF StandingOK
    <3>2. CASE ~OnlyFor(run.selected, BreakArches)
      <4>1. run.kind # "broken"
        BY <2>3, <3>2 DEF StandingOK, OnlyFor
      <4>2. phase # "broken"
        BY <2>3, <2>4, <4>1 DEF RunPlacesOK
      <4>3. RunBreakArches = BreakArches
        BY <3>2, <4>2 DEF RunBreakArches, OnlyFor
      <4> QED  BY <2>3, <2>4, <4>3 DEF StandingOK
    <3> QED  BY <3>1, <3>2
  <2>8. Better
    BY <2>5, <2>7, NotWorseIsAsGood DEF Better
  <2> QED  BY <2>3, <2>8
<1>2. Init => NeverStuck
  BY DEF Init, NeverStuck
<1> QED  BY <1>1, <1>2, RunInvariant, PTL DEF Spec

\* Whatever is committed, by the runs or by their hints, makes nothing worse
\* outside of the architectures where much may be broken, unless it is forced.
THEOREM NothingRegresses == Spec => NeverRegresses
<1> DEFINE Good == \/ Committed' = Committed
                   \/ /\ Committed \subseteq Committed'
                      /\ \/ run.kind = "force-hint" \/ phase = "force-hint"
                         \/ is_nuninst_asgood_generous(Uninst[Committed], Uninst[Committed'], BreakArches)
<1>1. TypeOK /\ AccountsOK /\ PlacesOK /\ StandingOK /\ [Next]_vars => [Good]_vars
  <2> SUFFICES ASSUME TypeOK, AccountsOK, PlacesOK, StandingOK, Step, UNCHANGED options PROVE Good
    BY DEF Next
  <2>1. CASE StartHint
    <3>1. Idle /\ phase \in HintKinds /\ Committed = applied
      BY <2>1 DEF StartHint, Committed, Idle
    <3>2. CASE UNCHANGED <<applied, run>>
      BY <3>1, <3>2 DEF Committed, Idle, HasTransaction
    <3>3. ASSUME NEW hint \in Items, applied' = applied \cup hint,
                 Begun(phase, hint, HintItems(hint), After(hint, nuninst_orig))
          PROVE  Good
      <4>1. ~Idle' /\ run'.kind = phase /\ run'.snapshot = applied
        BY <3>3 DEF Begun, Idle
      <4>2. CASE phase = "force-hint"
        <5>1. Committed' = applied'
          BY <4>1, <4>2 DEF Committed, HasTransaction
        <5> QED  BY <3>1, <3>3, <4>2, <5>1
      <4>3. CASE phase # "force-hint"
        BY <3>1, <4>1, <4>3 DEF Committed, HasTransaction, HintKinds
      <4> QED  BY <4>2, <4>3
    <3> QED  BY <2>1, <3>2, <3>3, StartHintFields
  <2>2. CASE StartMain \/ StartBroken \/ StartActions
    <3>1. Idle /\ applied' = applied
      BY <2>2 DEF StartMain, StartBroken, StartActions
    <3>2. run' = run \/ (run' # NoRun /\ run'.kind \in {"main", "broken", "actions"})
      BY <2>2, StartMainFields, StartBrokenFields, StartActionsFields DEF Begun
    <3>3. Committed = applied /\ Committed' = applied
      BY <3>1, <3>2 DEF Committed, Idle, HasTransaction
    <3> QED  BY <3>3
  <2>3. CASE Accept
    <3>1. /\ ~Idle /\ RunPlacesOK /\ run # NoRun /\ run \in Run /\ phase # "failed"
          /\ UNCHANGED <<nuninst_orig, phase>>
      BY <2>3, RunType DEF Accept, PlacesOK, Idle, RunPlacesOK, Run, HintKinds
    <3>2. PICK comp \in run.worklist :
            /\ comp \in Items /\ ~Regresses(comp, run.nuninst)
            /\ applied' = applied \cup comp
            /\ run'.kind = run.kind /\ run'.snapshot = run.snapshot
      BY <2>3, AcceptFields
    <3>3. ~Idle'
      BY <3>1, <3>2 DEF Idle, NoRun, Run, HintKinds
    <3>4. CASE HasTransaction \/ run.kind = "force-hint"
      BY <3>1, <3>2, <3>3, <3>4 DEF Committed, HasTransaction
    <3>5. CASE ~HasTransaction /\ run.kind # "force-hint"
      <4>1. Committed = applied /\ Committed' = applied \cup comp
        BY <3>1, <3>2, <3>3, <3>5 DEF Committed, HasTransaction
      <4>2. run.nuninst = Uninst[applied] /\ After(comp, run.nuninst) = Uninst[applied \cup comp]
        BY <3>1, <3>2, AfterIsRight DEF AccountsOK, TypeOK
      <4>3. Uninst[applied] \in Nuninst /\ Uninst[applied \cup comp] \in Nuninst
        BY <3>2, RunAssumption DEF TypeOK, Items
      <4>4. ASSUME NEW a \in Arch \ BreakArches
            PROVE  NotWorse(Uninst[applied], Uninst[applied \cup comp], a)
        <5>1. phase = "broken" => a \notin Affected(comp)
          <6> SUFFICES ASSUME phase = "broken" PROVE a \notin Affected(comp)
            OBVIOUS
          <6>1. run.kind = "broken"
            BY <3>1 DEF RunPlacesOK
          <6>2. run.arch \in BreakArches /\ OnlyFor(InRun, {run.arch}) /\ comp \subseteq InRun
            BY <3>1, <3>2, <6>1 DEF StandingOK, OnlyFor, InRun, Waiting
          <6>3. OnlyFor(comp, BreakArches) /\ BreakArches \subseteq Arch
            BY <6>2, RunAssumption DEF OnlyFor, BreakArches, TypeOK
          <6> QED  BY <3>2, <6>3, AffectedAre
        <5> QED  BY <3>1, <3>2, <4>2, <5>1, AcceptedIsNotWorse
      <4> QED  BY <4>1, <4>3, <4>4, NotWorseIsAsGood
    <3> QED  BY <3>4, <3>5
  <2>4. CASE Reject
    <3>1. /\ ~Idle /\ run \in Run /\ applied' = applied
          /\ run'.kind = run.kind /\ run'.snapshot = run.snapshot
      BY <2>4, RunType, RejectFields DEF Reject
    <3>2. ~Idle'
      BY <3>1 DEF Idle, NoRun, Run, HintKinds
    <3> QED  BY <3>1, <3>2 DEF Committed, HasTransaction
  <2>5. CASE Retry
    <3>1. /\ ~Idle /\ run \in Run /\ applied' = applied
          /\ run'.kind = run.kind /\ run'.snapshot = run.snapshot
      BY <2>5, RunType, RetryFields DEF Retry
    <3>2. ~Idle'
      BY <3>1 DEF Idle, NoRun, Run, HintKinds
    <3> QED  BY <3>1, <3>2 DEF Committed, HasTransaction
  <2>6. CASE Succeed
    <3>1. ~Idle /\ Idle' /\ applied' = applied /\ Better /\ RunPlacesOK /\ run \in Run
      BY <2>6, RunType DEF Succeed, Finished, Idle, PlacesOK
    <3>2. Committed' = applied
      BY <3>1 DEF Committed
    <3>3. CASE ~HasTransaction
      BY <3>1, <3>2, <3>3 DEF Committed
    <3>4. CASE HasTransaction
      <4>1. Committed = run.snapshot /\ run.kind # "force-hint" /\ phase # "failed"
        BY <3>1, <3>4 DEF Committed, HasTransaction, RunPlacesOK
      <4>2. /\ nuninst_orig = Uninst[run.snapshot] /\ run.nuninst = Uninst[applied]
            /\ run.snapshot \subseteq applied
        BY <3>1, <4>1 DEF AccountsOK
      <4>3. nuninst_orig \in Nuninst /\ run.nuninst \in Nuninst
        BY <3>1 DEF TypeOK, Run
      <4>4. is_nuninst_asgood_generous(nuninst_orig, run.nuninst, BreakArches)
        <5>1. CASE OnlyFor(run.selected, BreakArches)
          <6>1. \A a \in Arch \ BreakArches : NotWorse(nuninst_orig, run.nuninst, a)
            BY <3>1, <4>3, <5>1, SameIsNotWorse DEF StandingOK
          <6> QED  BY <4>3, <6>1, NotWorseIsAsGood
        <5>2. CASE ~OnlyFor(run.selected, BreakArches)
          <6>1. phase # "broken"
            BY <3>1, <3>4 DEF RunPlacesOK, HasTransaction
          <6>2. RunBreakArches = BreakArches
            BY <5>2, <6>1 DEF RunBreakArches, OnlyFor
          <6> QED  BY <3>1, <4>1, <6>2 DEF Better
        <5> QED  BY <5>1, <5>2
      <4> QED  BY <3>2, <4>1, <4>2, <4>4
    <3> QED  BY <3>3, <3>4
  <2>7. CASE Fail
    <3>1. /\ ~Idle /\ Idle' /\ IF HasTransaction THEN applied' = run.snapshot ELSE applied' = applied
      BY <2>7 DEF Fail, Finished, Idle
    <3> QED  BY <3>1 DEF Committed
  <2>8. CASE RaiseInHint \/ NextPhase
    BY <2>8 DEF RaiseInHint, NextPhase, Committed, Idle
  <2> QED  BY <2>1, <2>2, <2>3, <2>4, <2>5, <2>6, <2>7, <2>8 DEF Step
<1> QED  BY <1>1, RunInvariant, PTL DEF Spec, NeverRegresses


=============================================================================
