---------------------- MODULE InstallabilityTesterProofs ----------------------
(***************************************************************************)
(* Theorems about InstallabilityTester, for every universe of packages.    *)
(***************************************************************************)
EXTENDS InstallabilityTester, FiniteSetTheorems, TLAPS

\* A search that returns, whatever its verdict, moves packages only from the
\* contents to the broken ones.
LEMMA ReturnInSync ==
  ASSUME NEW contents, NEW broken, NEW inst, NEW verdict \in BOOLEAN,
         broken \subseteq suite, contents = suite \ broken,
         Return(verdict, contents, broken, inst)
  PROVE  cache_broken' \subseteq suite /\ suite_contents' = suite \ cache_broken'
<1> DEFINE eqv == IF call.method = "compute" /\ Cardinality(Equivalents[call.t]) > 1
                  THEN Equivalents[call.t] \cap contents ELSE {}
<1>1. eqv \subseteq contents
  OBVIOUS
<1>2. /\ suite_contents' = IF verdict THEN contents ELSE contents \ eqv
      /\ cache_broken' = IF verdict THEN broken ELSE broken \cup eqv
  BY DEF Return
<1> QED
  BY <1>1, <1>2

\* However a frame of the search ends, or if it goes on.
LEMMA OutcomeInSync ==
  ASSUME ContentsInSync, pc # "KeyError", suite' = suite,
         \/ Fail
         \/ \E musts : Succeed(musts)
         \/ UNCHANGED <<suite_contents, cache_broken>>
  PROVE  ContentsInSync'
<1>1. cache_broken \subseteq suite /\ suite_contents = suite \ cache_broken
  BY DEF ContentsInSync
<1>2. ASSUME NEW verdict \in BOOLEAN, NEW inst,
             Return(verdict, suite_contents, cache_broken, inst)
      PROVE  ContentsInSync'
  <2>1. cache_broken' \subseteq suite /\ suite_contents' = suite \ cache_broken'
    BY <1>1, <1>2, ReturnInSync
  <2> QED
    BY <2>1 DEF ContentsInSync
<1>3. CASE UNCHANGED <<suite_contents, cache_broken>>
  BY <1>1, <1>3 DEF ContentsInSync
<1>4. CASE Fail
  <2>1. \/ Return(FALSE, suite_contents, cache_broken, cache_inst)
        \/ UNCHANGED <<suite_contents, cache_broken>>
    BY <1>4, Zenon DEF Fail
  <2> QED
    BY <1>2, <1>3, <2>1
<1>5. CASE \E musts : Succeed(musts)
  BY <1>2, <1>5 DEF Succeed
<1> QED
  BY <1>3, <1>4, <1>5

\* Every step keeps the contents and the broken packages together the suite.
LEMMA NextInSync ==
  ASSUME ContentsInSync, Next
  PROVE  ContentsInSync'
<1>1. ASSUME NEW p \in Package, add_binary(p) PROVE ContentsInSync'
  BY <1>1 DEF ContentsInSync, add_binary, ContentsWith, Idle, caches, search
<1>2. ASSUME NEW p \in Package, is_installable(p) PROVE ContentsInSync'
  BY <1>2 DEF ContentsInSync, is_installable, Idle, caches
<1>3. ASSUME NEW p \in Removable, remove_binary(p) PROVE ContentsInSync'
  BY <1>3 DEF ContentsInSync, remove_binary, Idle, search
<1>4. CASE compute_installability
  BY <1>4 DEF ContentsInSync, compute_installability, Idle, caches
<1>5. CASE ComputeNext
  BY <1>5 DEF ContentsInSync, ComputeNext, Idle, caches
<1>6. CASE Enter
  <2>1. pc = "enter" /\ suite' = suite
    BY <1>6 DEF Enter
  <2>2. cache_broken \subseteq suite /\ suite_contents = suite \ cache_broken
    BY <2>1 DEF ContentsInSync
  <2>3. CASE call.t \in cache_ess.never /\ call.t \in suite_contents
    <3>1. Return(FALSE, suite_contents \ {call.t}, cache_broken \cup {call.t}, cache_inst)
      BY <1>6, <2>3 DEF Enter
    <3>2. /\ cache_broken \cup {call.t} \subseteq suite
          /\ suite_contents \ {call.t} = suite \ (cache_broken \cup {call.t})
      BY <2>2, <2>3
    <3> QED
      BY <2>1, <3>1, <3>2, ReturnInSync DEF ContentsInSync
  <2>4. CASE call.t \in cache_ess.never /\ call.t \notin suite_contents
    BY <1>6, <2>4 DEF Enter, ContentsInSync
  <2>5. CASE call.t \notin cache_ess.never
    BY <1>6, <2>1, <2>2, <2>5 DEF Enter, ContentsInSync
  <2> QED
    BY <2>3, <2>4, <2>5
<1>7. CASE CheckPackage
  BY <1>7 DEF ContentsInSync, CheckPackage, caches
<1>8. CASE CheckDependency
  <2>1. suite' = suite /\ cache_broken \subseteq suite /\ suite_contents = suite \ cache_broken
    BY <1>8 DEF CheckDependency, InLoop, ContentsInSync
  <2>2. CASE MarkBroken
    BY <2>1, <2>2 DEF MarkBroken, ContentsInSync
  <2>3. CASE UNCHANGED <<cache_broken, suite_contents, pc>>
    BY <2>1, <2>3 DEF ContentsInSync
  <2> QED
    BY <1>8, <2>2, <2>3 DEF CheckDependency
<1>9. CASE EssentialLoopEnds
  BY <1>9 DEF ContentsInSync, EssentialLoopEnds
<1>10. CASE MainLoopEnds
  <2>1. pc # "KeyError" /\ suite' = suite
    BY <1>10 DEF MainLoopEnds
  <2>2. Fail \/ Succeed(loop.musts) \/ UNCHANGED <<suite_contents, cache_broken>>
    BY <1>10 DEF MainLoopEnds
  <2> QED
    BY <2>1, <2>2, OutcomeInSync
<1>11. CASE Prune
  <2>1. pc # "KeyError" /\ suite' = suite
    BY <1>11 DEF Prune
  <2>2. Fail \/ UNCHANGED <<suite_contents, cache_broken>>
    BY <1>11 DEF Prune
  <2> QED
    BY <2>1, <2>2, OutcomeInSync
<1>12. CASE Pruned
  <2>1. pc # "KeyError" /\ suite' = suite
    BY <1>12 DEF Pruned
  <2>2. (\E musts : Succeed(musts)) \/ UNCHANGED <<suite_contents, cache_broken>>
    BY <1>12 DEF Pruned
  <2> QED
    BY <2>1, <2>2, OutcomeInSync
<1>13. CASE ResolveChoice
  <2>1. pc # "KeyError" /\ suite' = suite
    BY <1>13 DEF ResolveChoice
  <2>2. Succeed(Top.musts) \/ UNCHANGED <<suite_contents, cache_broken>>
    BY <1>13, Zenon DEF ResolveChoice
  <2> QED
    BY <2>1, <2>2, OutcomeInSync
<1>14. CASE TryOption
  <2>1. /\ pc # "KeyError" /\ suite' = suite
        /\ UNCHANGED <<suite_contents, cache_broken>>
    BY <1>14 DEF TryOption, caches
  <2> QED
    BY <2>1, OutcomeInSync
<1>15. CASE TryLoopEnds
  <2>1. /\ pc # "KeyError" /\ suite' = suite
        /\ UNCHANGED <<suite_contents, cache_broken>>
    BY <1>15 DEF TryLoopEnds, caches
  <2> QED
    BY <2>1, OutcomeInSync
<1> QED
  BY <1>1, <1>2, <1>3, <1>4, <1>5, <1>6, <1>7, <1>8, <1>9, <1>10, <1>11, <1>12,
     <1>13, <1>14, <1>15 DEF Next, Step

\* The tester never loses track of a package of the suite: as long as no call
\* has failed, it takes each to be there or to be broken, and takes no other to
\* be there (add_binary, remove_binary, and every step of a search).
THEOREM SuiteTracked == Spec => []ContentsInSync
<1>1. Init => ContentsInSync
  BY DEF Init, ContentsInSync
<1>2. ContentsInSync /\ [Next]_vars => ContentsInSync'
  <2>1. CASE Next
    BY <2>1, NextInSync
  <2>2. CASE UNCHANGED vars
    BY <2>2 DEF vars, caches, search, ContentsInSync
  <2> QED
    BY <2>1, <2>2
<1> QED
  BY <1>1, <1>2, PTL DEF Spec

(***************************************************************************)
(* Types.  They are kept because there is something to work on wherever a  *)
(* search stands.                                                          *)
(***************************************************************************)

SearchOK ==
  /\ pc \notin {"idle", "KeyError"} => call \in CheckType /\ frames # <<>>
  /\ pc = "idle" => call \notin [method : {"is_installable"}, t : Package]
  /\ pc = "enter" => cache_ess \in EssentialType
  /\ InLoop => loop \in LoopType

Inv == TypeOK /\ SearchOK

LEMMA UniverseTypes ==
  ASSUME NEW p \in Package
  PROVE  /\ Dependencies[p] \in SUBSET SUBSET Package
         /\ Conflicts[p] \in SUBSET Package
         /\ Equivalents[p] \in SUBSET Package
BY UniverseAssumption

LEMMA TopTypes ==
  ASSUME frames \in Seq(FrameType), frames # <<>>
  PROVE  /\ Top \in FrameType /\ Len(frames) \in Nat \ {0}
         /\ \A f \in FrameType : /\ WithTop(f) \in Seq(FrameType) /\ WithTop(f) # <<>>
                                 /\ Append(frames, f) \in Seq(FrameType)
                                 /\ Append(frames, f) # <<>>
<1>1. Len(frames) \in Nat \ {0} /\ frames \in [1..Len(frames) -> FrameType]
  OBVIOUS
<1>2. Top \in FrameType
  BY <1>1 DEF Top
<1>3. ASSUME NEW f \in FrameType
      PROVE  /\ WithTop(f) \in Seq(FrameType) /\ WithTop(f) # <<>>
             /\ Append(frames, f) \in Seq(FrameType) /\ Append(frames, f) # <<>>
  <2>1. WithTop(f) \in Seq(FrameType) /\ Len(WithTop(f)) = Len(frames)
    BY <1>1 DEF WithTop
  <2>2. Append(frames, f) \in Seq(FrameType) /\ Len(Append(frames, f)) = Len(frames) + 1
    OBVIOUS
  <2> QED  BY <1>1, <2>1, <2>2
<1> QED  BY <1>1, <1>2, <1>3

LEMMA ReturnTypes ==
  ASSUME Inv, call \in CheckType, NEW contents \in SUBSET Package, NEW bad \in SUBSET Package,
         NEW inst \in SUBSET Package, NEW verdict \in BOOLEAN,
         Return(verdict, contents, bad, inst), UNCHANGED <<suite, cache_ess>>
  PROVE  Inv'
<1> DEFINE eqv == IF call.method = "compute" /\ Cardinality(Equivalents[call.t]) > 1
                  THEN Equivalents[call.t] \cap contents ELSE {}
<1>1. call.t \in Package
  BY DEF CheckType
<1>2. eqv \in SUBSET Package
  OBVIOUS
<1>3. /\ pc' = "idle" /\ frames' = <<>> /\ loop' = NoLoop
      /\ suite_contents' = IF verdict THEN contents ELSE contents \ eqv
      /\ cache_broken' = IF verdict THEN bad ELSE bad \cup eqv
      /\ cache_inst' = IF verdict THEN inst \cup eqv ELSE inst
      /\ IF call.method = "compute" THEN UNCHANGED <<call, answer>>
         ELSE call' = NoCall /\ answer' = [of |-> {call.t}, verdict |-> verdict]
  BY DEF Return
<1>4. /\ suite_contents' \in SUBSET Package /\ cache_broken' \in SUBSET Package
      /\ cache_inst' \in SUBSET Package
  <2> HIDE DEF eqv
  <2> QED  BY <1>2, <1>3
<1>5. answer' \in [of : SUBSET Package, verdict : BOOLEAN]
  BY <1>1, <1>3 DEF Inv, TypeOK
<1>6. call' \in {call, NoCall} /\ call' \notin [method : {"is_installable"}, t : Package]
  BY <1>3 DEF NoCall
<1> QED
  BY <1>3, <1>4, <1>5, <1>6 DEF Inv, TypeOK, SearchOK, InLoop

LEMMA FrameTypes ==
  ASSUME NEW musts \in SUBSET Package, NEW never \in SUBSET Package,
         NEW choices \in SUBSET SUBSET Package, NEW checks \in SUBSET Package
  PROVE  /\ Frame(musts, never, choices, checks) \in FrameType
         /\ Loop(musts, never, choices, checks) \in LoopType
BY DEF Frame, Loop, FrameType, LoopType

LEMMA LoopOfTypes ==
  ASSUME NEW f \in FrameType
  PROVE  LoopOf(f) \in LoopType
BY FrameTypes DEF LoopOf, FrameType

LEMMA BeginTypes ==
  ASSUME Inv, NEW t \in Package, Begin(t), call' \in CheckType,
         UNCHANGED <<suite, suite_contents, caches>>,
         answer' \in [of : SUBSET Package, verdict : BOOLEAN]
  PROVE  Inv'
<1>1. <<Frame({t}, {}, {}, {t})>> \in Seq(FrameType) /\ frames' = <<Frame({t}, {}, {}, {t})>>
  BY FrameTypes DEF Begin
<1>2. CASE cache_ess = NoEssential
  <2>1. Essential \cap suite_contents \in SUBSET Package
    BY DEF Inv, TypeOK
  <2>2. pc' = "essential" /\ loop' \in LoopType
    BY <1>2, <2>1, FrameTypes DEF Begin
  <2> QED
    BY <1>1, <2>2 DEF Inv, TypeOK, SearchOK, caches, InLoop
<1>3. CASE cache_ess # NoEssential
  BY <1>1, <1>3 DEF Inv, TypeOK, SearchOK, caches, InLoop, Begin
<1> QED  BY <1>2, <1>3

LEMMA SucceedTypes ==
  ASSUME Inv, pc \notin {"idle", "KeyError"}, NEW musts \in SUBSET Package,
         Succeed(musts), UNCHANGED <<suite, cache_ess>>
  PROVE  Inv'
<1>1. /\ suite_contents \in SUBSET Package /\ cache_broken \in SUBSET Package
      /\ cache_inst \cup musts \in SUBSET Package /\ call \in CheckType
  BY DEF Inv, TypeOK, SearchOK
<1> QED  BY <1>1, ReturnTypes DEF Succeed

LEMMA FailTypes ==
  ASSUME Inv, pc \notin {"idle", "KeyError"}, Fail, UNCHANGED <<suite, cache_ess>>
  PROVE  Inv'
<1>1. /\ suite_contents \in SUBSET Package /\ cache_broken \in SUBSET Package
      /\ cache_inst \in SUBSET Package /\ call \in CheckType
      /\ frames \in Seq(FrameType) /\ frames # <<>>
  BY DEF Inv, TypeOK, SearchOK
<1>2. CASE Len(frames) = 1
  BY <1>1, <1>2, ReturnTypes DEF Fail
<1>3. CASE Len(frames) # 1
  <2> DEFINE n == Len(frames) - 1
             rest == SubSeq(frames, 1, n)
             caller == frames[n]
             back == [rest EXCEPT ![n] = [rest[n] EXCEPT !.never = NeverAgain(caller)]]
  <2>1. n \in Nat /\ n >= 1 /\ rest \in Seq(FrameType) /\ Len(rest) = n
    <3>1. Len(frames) \in Nat \ {0, 1}
      BY <1>1, <1>3, TopTypes
    <3>2. n \in Nat /\ n >= 1 /\ n <= Len(frames)
      BY <3>1
    <3>3. \A i \in 1..n : frames[i] \in FrameType
      BY <1>1, <3>2
    <3> HIDE DEF n
    <3>4. rest = [i \in 1..n |-> frames[i]]
      BY <1>1, <3>2
    <3> QED  BY <3>2, <3>3, <3>4
  <2>2. caller \in FrameType /\ rest[n] \in FrameType
    BY <1>1, <2>1
  <2>3. [rest[n] EXCEPT !.never = NeverAgain(caller)] \in FrameType
    BY <2>2 DEF FrameType, NeverAgain
  <2>4. back \in Seq(FrameType) /\ back # <<>>
    <3> HIDE DEF rest, n, caller
    <3>1. rest \in [1..n -> FrameType]
      BY <2>1
    <3>2. back \in Seq(FrameType) /\ Len(back) = n
      BY <2>1, <2>3, <3>1
    <3> QED  BY <2>1, <3>2
  <2>5. /\ frames' = back /\ pc' = "options" /\ loop' = NoLoop
        /\ UNCHANGED <<suite_contents, cache_broken, cache_inst, call, answer>>
    BY <1>3 DEF Fail
  <2> QED
    BY <2>4, <2>5, <1>1 DEF Inv, TypeOK, SearchOK, InLoop
<1> QED  BY <1>2, <1>3

LEMMA LoopStepTypes ==
  ASSUME Inv, CheckPackage \/ CheckDependency
  PROVE  Inv'
<1>1. InLoop /\ loop \in LoopType /\ UNCHANGED <<suite, cache_inst, cache_ess, call, frames, answer>>
  BY DEF CheckPackage, CheckDependency, Inv, SearchOK, caches
<1>2. /\ loop.musts \in SUBSET Package /\ loop.never \in SUBSET Package
      /\ loop.choices \in SUBSET SUBSET Package /\ loop.check \in SUBSET Package
      /\ loop.cur \in SUBSET Package /\ loop.dependencies \in SUBSET SUBSET Package
  BY <1>1 DEF LoopType
<1>3. suite_contents \in SUBSET Package /\ cache_broken \in SUBSET Package
  BY DEF Inv, TypeOK
<1>4. ASSUME loop' \in LoopType, cache_broken' \in SUBSET Package, suite_contents' \in SUBSET Package,
             pc' \in {pc, "KeyError"}
      PROVE  Inv'
  BY <1>1, <1>4 DEF Inv, TypeOK, SearchOK, InLoop
<1>5. ASSUME CheckPackage PROVE Inv'
  <2>1. PICK cur \in loop.check :
          loop' = IF Conflicts[cur] # {} /\ cur \in loop.never
                  THEN [loop EXCEPT !.check = @ \ {cur}, !.failed = TRUE]
                  ELSE [loop EXCEPT !.check = @ \ {cur}, !.cur = {cur},
                                    !.never = @ \cup (Conflicts[cur] \cap suite_contents),
                                    !.dependencies = Unsatisfied(Dependencies[cur], loop.musts)]
    BY <1>5 DEF CheckPackage
  <2>2. /\ loop.check \ {cur} \in SUBSET Package /\ {cur} \in SUBSET Package
        /\ loop.never \cup (Conflicts[cur] \cap suite_contents) \in SUBSET Package
        /\ Unsatisfied(Dependencies[cur], loop.musts) \in SUBSET SUBSET Package
    BY <1>2, <1>3, <2>1, UniverseTypes DEF Unsatisfied
  <2>3. loop' \in LoopType
    BY <1>1, <2>1, <2>2 DEF LoopType
  <2> QED  BY <1>3, <1>4, <1>5, <2>3 DEF CheckPackage, caches
<1>6. ASSUME CheckDependency PROVE Inv'
  <2>1. PICK clause \in loop.dependencies :
          LET candidates == (clause \cap suite_contents) \ loop.never
          IN  IF candidates = {}
              THEN /\ loop' = [loop EXCEPT !.dependencies = {}, !.failed = TRUE]
                   /\ IF IsBroken(clause) THEN MarkBroken
                      ELSE UNCHANGED <<cache_broken, suite_contents, pc>>
              ELSE /\ \E chosen \in Representatives(candidates) :
                        loop' = IF Cardinality(chosen) = 1
                                THEN [loop EXCEPT
                                        !.check = @ \cup chosen, !.musts = @ \cup chosen,
                                        !.dependencies = Unsatisfied(@ \ {clause}, loop.musts \cup chosen)]
                                ELSE [loop EXCEPT !.choices = @ \cup {chosen},
                                                  !.dependencies = @ \ {clause}]
                   /\ UNCHANGED <<cache_broken, suite_contents, pc>>
    BY <1>6, Zenon DEF CheckDependency
  <2> DEFINE candidates == (clause \cap suite_contents) \ loop.never
  <2>2. CASE candidates = {}
    <3>1. loop' = [loop EXCEPT !.dependencies = {}, !.failed = TRUE]
      BY <2>1, <2>2
    <3>2. loop' \in LoopType
      BY <1>1, <3>1 DEF LoopType
    <3>3. MarkBroken \/ UNCHANGED <<cache_broken, suite_contents, pc>>
      BY <2>1, <2>2
    <3>4. /\ cache_broken' \in SUBSET Package /\ suite_contents' \in SUBSET Package
          /\ pc' \in {pc, "KeyError"}
      BY <1>2, <1>3, <3>3 DEF MarkBroken
    <3> QED  BY <1>4, <3>2, <3>4
  <2>3. CASE candidates # {}
    <3>1. PICK chosen \in Representatives(candidates) :
            loop' = IF Cardinality(chosen) = 1
                    THEN [loop EXCEPT
                            !.check = @ \cup chosen, !.musts = @ \cup chosen,
                            !.dependencies = Unsatisfied(@ \ {clause}, loop.musts \cup chosen)]
                    ELSE [loop EXCEPT !.choices = @ \cup {chosen},
                                      !.dependencies = @ \ {clause}]
      BY <2>1, <2>3
    <3>2. UNCHANGED <<cache_broken, suite_contents, pc>>
      BY <2>1, <2>3
    <3>3. chosen \in SUBSET Package
      BY <1>3, <3>1 DEF Representatives
    <3>4. /\ loop.check \cup chosen \in SUBSET Package /\ loop.musts \cup chosen \in SUBSET Package
          /\ Unsatisfied(loop.dependencies \ {clause}, loop.musts \cup chosen) \in SUBSET SUBSET Package
          /\ loop.choices \cup {chosen} \in SUBSET SUBSET Package
          /\ loop.dependencies \ {clause} \in SUBSET SUBSET Package
      BY <1>2, <3>3 DEF Unsatisfied
    <3> HIDE DEF candidates
    <3>5. loop' \in LoopType
      BY <1>1, <3>1, <3>4 DEF LoopType
    <3> QED  BY <1>3, <1>4, <3>2, <3>5
  <2> QED  BY <2>2, <2>3
<1> QED  BY <1>5, <1>6

\* Every step of the tester keeps the types.
LEMMA NextTypes ==
  ASSUME Inv, Next
  PROVE  Inv'
<1>0. /\ suite \in SUBSET Package /\ suite_contents \in SUBSET Package
      /\ cache_broken \in SUBSET Package /\ cache_inst \in SUBSET Package
      /\ frames \in Seq(FrameType) /\ answer \in [of : SUBSET Package, verdict : BOOLEAN]
  BY DEF Inv, TypeOK
<1>1. ASSUME NEW p \in Package, add_binary(p) PROVE Inv'
  <2>1. NoAnswer \in [of : SUBSET Package, verdict : BOOLEAN]
    BY DEF NoAnswer
  <2>2. EssentialWith(p) \in {NoEssential, cache_ess}
    BY DEF EssentialWith
  <2> QED
    BY <1>0, <1>1, <2>1, <2>2
    DEF Inv, TypeOK, SearchOK, InLoop, add_binary, Idle, ContentsWith, caches, search
<1>2. ASSUME NEW p \in Package, is_installable(p) PROVE Inv'
  <2>1. CASE p \notin suite_contents \/ p \in Broken \/ p \in cache_inst
    <3>1. answer' = [of |-> {p}, verdict |-> p \in suite_contents \ Broken]
      BY <1>2, <2>1 DEF is_installable
    <3>2. (p \in suite_contents \ Broken) \in BOOLEAN
      OBVIOUS
    <3>3. answer' \in [of : SUBSET Package, verdict : BOOLEAN]
      BY <3>1, <3>2, Zenon
    <3> QED
      BY <3>3, <1>2, <2>1, <3>1 DEF Inv, TypeOK, SearchOK, InLoop, is_installable, caches, search
  <2>2. CASE ~(p \notin suite_contents \/ p \in Broken \/ p \in cache_inst)
    <3>1. call' \in CheckType
      BY <1>2, <2>2 DEF is_installable, CheckType
    <3>2. NoAnswer \in [of : SUBSET Package, verdict : BOOLEAN]
      BY DEF NoAnswer
    <3> QED  BY <1>2, <2>2, <3>1, <3>2, BeginTypes DEF is_installable
  <2> QED  BY <2>1, <2>2
<1>3. ASSUME NEW p \in Removable, remove_binary(p) PROVE Inv'
  <2>1. NoAnswer \in [of : SUBSET Package, verdict : BOOLEAN]
    BY DEF NoAnswer
  <2>2. /\ suite' \in SUBSET Package /\ suite_contents' \in SUBSET Package
        /\ cache_broken' \in SUBSET Package /\ cache_inst' \in SUBSET Package
        /\ cache_ess' \in {NoEssential, cache_ess}
    BY <1>0, <1>3 DEF remove_binary, InstWithout
  <2> QED
    BY <1>3, <2>1, <2>2 DEF Inv, TypeOK, SearchOK, InLoop, remove_binary, Idle, search
<1>4. CASE compute_installability
  <2>1. NoAnswer \in [of : SUBSET Package, verdict : BOOLEAN]
    BY DEF NoAnswer
  <2>2. call' \in [method : {"compute"}, tcopy : SUBSET Package]
    BY <1>0, <1>4 DEF compute_installability
  <2> QED
    BY <1>4, <2>1, <2>2 DEF Inv, TypeOK, SearchOK, InLoop, compute_installability, Idle, caches
<1>5. CASE ComputeNext
  <2> DEFINE left == call.tcopy \ (cache_inst \cup cache_broken)
  <2>1. CASE left = {}
    BY <1>5, <2>1 DEF Inv, TypeOK, SearchOK, InLoop, ComputeNext, Idle, caches, NoCall
  <2>2. CASE left # {}
    <3>1. PICK t \in left :
            /\ call' = [method |-> "compute", tcopy |-> left \ {t}, t |-> t]
            /\ Begin(t)
      BY <1>5, <2>2 DEF ComputeNext
    <3>2. left \in SUBSET Package
      <4>1. Idle /\ call # NoCall
        BY <1>5 DEF ComputeNext
      <4>2. \/ call \in [method : {"compute"}, tcopy : SUBSET Package]
            \/ call \in [method : {"compute"}, tcopy : SUBSET Package, t : Package]
        BY <4>1 DEF Inv, TypeOK, SearchOK, CheckType, Idle
      <4> QED  BY <4>2
    <3>3. call' \in CheckType /\ t \in Package
      BY <3>1, <3>2 DEF CheckType
    <3> QED  BY <1>0, <1>5, <3>1, <3>3, BeginTypes DEF ComputeNext
  <2> QED  BY <2>1, <2>2
<1>6. CASE CheckPackage \/ CheckDependency
  BY <1>6, LoopStepTypes
<1>7. CASE Enter
  <2>1. /\ pc = "enter" /\ call \in CheckType /\ cache_ess \in EssentialType
        /\ UNCHANGED <<suite, cache_ess>>
    BY <1>7 DEF Enter, Inv, SearchOK
  <2>2. call.t \in Package
    BY <2>1 DEF CheckType
  <2>3. CASE call.t \in cache_ess.never /\ call.t \in suite_contents
    <3>1. Return(FALSE, suite_contents \ {call.t}, cache_broken \cup {call.t}, cache_inst)
      BY <1>7, <2>3 DEF Enter
    <3>2. suite_contents \ {call.t} \in SUBSET Package /\ cache_broken \cup {call.t} \in SUBSET Package
      BY <1>0, <2>2
    <3> QED  BY <1>0, <2>1, <3>1, <3>2, ReturnTypes
  <2>4. CASE call.t \in cache_ess.never /\ call.t \notin suite_contents
    BY <1>7, <2>2, <2>4 DEF Enter, Inv, TypeOK, SearchOK, InLoop
  <2>5. CASE call.t \notin cache_ess.never
    <3> DEFINE f == Frame({call.t} \cup cache_ess.start, cache_ess.never, cache_ess.choices, {call.t})
    <3>1. /\ frames' = <<f>> /\ pc' = "main" /\ loop' = LoopOf(f)
          /\ UNCHANGED <<suite_contents, cache_broken, cache_inst, call, answer>>
      BY <1>7, <2>5 DEF Enter
    <3>2. f \in FrameType
      BY <2>1, <2>2, FrameTypes DEF EssentialType
    <3>3. loop' \in LoopType
      BY <3>1, <3>2, LoopOfTypes
    <3> HIDE DEF f
    <3> QED  BY <2>1, <3>1, <3>2, <3>3 DEF Inv, TypeOK, SearchOK, InLoop
  <2> QED  BY <2>3, <2>4, <2>5
<1>8. CASE EssentialLoopEnds
  <2> DEFINE left == Unsatisfied(loop.choices, loop.musts)
             settled == {choice \in left : \E c \in choice : Settles(c)}
  <2>1. /\ pc = "essential" /\ loop \in LoopType
        /\ UNCHANGED <<suite, suite_contents, cache_broken, cache_inst, call, frames, answer>>
    BY <1>8 DEF EssentialLoopEnds, Inv, SearchOK, InLoop
  <2>2. /\ loop.musts \in SUBSET Package /\ loop.never \in SUBSET Package
        /\ loop.check \in SUBSET Package /\ left \ settled \in SUBSET SUBSET Package
    BY <2>1 DEF LoopType, Unsatisfied
  <2>3. PICK picked \in [settled -> Package] :
          LET base == loop.check \cup {picked[choice] : choice \in settled}
          IN  IF loop.choices # {} /\ base # {}
              THEN /\ loop' = Loop(loop.musts, loop.never, left \ settled, base)
                   /\ UNCHANGED <<pc, cache_ess>>
              ELSE /\ cache_ess' = [start |-> loop.musts,
                                    never |-> loop.never \cup UNION {Conflicts[p] : p \in loop.musts},
                                    choices |-> left \ settled]
                   /\ pc' = "enter" /\ loop' = NoLoop
    BY <1>8, Zenon DEF EssentialLoopEnds
  <2> DEFINE base == loop.check \cup {picked[choice] : choice \in settled}
  <2>4. base \in SUBSET Package
    <3> HIDE DEF settled, left
    <3> QED  BY <2>2, <2>3
  <2>5. loop.never \cup UNION {Conflicts[p] : p \in loop.musts} \in SUBSET Package
    BY <2>2, UniverseTypes
  <2>6. CASE loop.choices # {} /\ base # {}
    <3>1. loop' = Loop(loop.musts, loop.never, left \ settled, base) /\ UNCHANGED <<pc, cache_ess>>
      BY <2>3, <2>6
    <3>2. loop' \in LoopType
      <4> HIDE DEF left, settled, base
      <4> QED  BY <2>2, <2>4, <3>1, FrameTypes
    <3> QED  BY <2>1, <3>1, <3>2 DEF Inv, TypeOK, SearchOK, InLoop
  <2>7. CASE ~(loop.choices # {} /\ base # {})
    <3>1. /\ cache_ess' = [start |-> loop.musts,
                           never |-> loop.never \cup UNION {Conflicts[p] : p \in loop.musts},
                           choices |-> left \ settled]
          /\ pc' = "enter" /\ loop' = NoLoop
      BY <2>3, <2>7
    <3>2. cache_ess' \in EssentialType
      <4> HIDE DEF left, settled
      <4> QED  BY <2>2, <2>5, <3>1 DEF EssentialType
    <3> QED  BY <2>1, <3>1, <3>2 DEF Inv, TypeOK, SearchOK, InLoop
  <2> QED  BY <2>6, <2>7
<1>9. ASSUME pc \in {"main", "prune", "resolve", "options", "try"}
      PROVE  /\ call \in CheckType /\ frames # <<>> /\ Top \in FrameType
             /\ Top.musts \in SUBSET Package /\ Top.never \in SUBSET Package
             /\ Top.choices \in SUBSET SUBSET Package /\ Top.check \in SUBSET Package
             /\ Top.rebuild \in SUBSET SUBSET Package /\ Top.options \in SUBSET Package
             /\ Top.last \in SUBSET Package /\ Top.tried \in SUBSET Package
  <2>1. call \in CheckType /\ frames # <<>> /\ Top \in FrameType
    BY <1>0, <1>9, TopTypes DEF Inv, SearchOK
  <2> QED  BY <2>1 DEF FrameType
<1>10. ASSUME pc \in {"main", "prune", "resolve", "options", "try"},
              UNCHANGED <<suite, suite_contents, caches, call, answer>>,
              frames' \in Seq(FrameType), frames' # <<>>,
              \/ pc' \in {"prune", "resolve", "options"} /\ loop' = NoLoop
              \/ pc' \in {"main", "try"} /\ loop' \in LoopType
       PROVE  Inv'
  BY <1>9, <1>10 DEF Inv, TypeOK, SearchOK, InLoop, caches
<1>11. CASE MainLoopEnds
  <2>1. pc = "main" /\ loop \in LoopType /\ UNCHANGED <<suite, cache_ess>>
    BY <1>11 DEF MainLoopEnds, Inv, SearchOK, InLoop
  <2>2. CASE loop.failed
    BY <1>11, <2>1, <2>2, FailTypes DEF MainLoopEnds
  <2>3. CASE ~loop.failed /\ loop.choices = {}
    <3>1. Succeed(loop.musts) /\ loop.musts \in SUBSET Package
      BY <1>11, <2>1, <2>3 DEF MainLoopEnds, LoopType
    <3> QED  BY <2>1, <3>1, SucceedTypes
  <2>4. CASE ~loop.failed /\ loop.choices # {}
    <3> DEFINE f == Frame(loop.musts, loop.never, loop.choices, {})
    <3>1. /\ frames' = WithTop(f) /\ pc' = "prune" /\ loop' = NoLoop
          /\ UNCHANGED <<suite_contents, cache_broken, cache_inst, call, answer>>
      BY <1>11, <2>4 DEF MainLoopEnds
    <3>2. f \in FrameType
      BY <2>1, FrameTypes DEF LoopType
    <3> HIDE DEF f
    <3>3. frames' \in Seq(FrameType) /\ frames' # <<>>
      BY <1>0, <1>9, <2>1, <3>1, <3>2, TopTypes
    <3> QED  BY <1>10, <2>1, <3>1, <3>3 DEF caches
  <2> QED  BY <2>2, <2>3, <2>4
<1>12. CASE Prune
  <2>1. pc = "prune" /\ UNCHANGED <<suite, cache_ess>>
    BY <1>12 DEF Prune
  <2>2. PICK choice \in Top.choices :
          LET remain == (choice \ Top.never) \ cache_broken
          IN  IF choice \cap Top.musts = {} /\ remain = {} THEN Fail
              ELSE /\ frames' = WithTop(WithoutChoice(Top, choice, remain))
                   /\ UNCHANGED <<suite_contents, cache_broken, cache_inst, call, pc, loop, answer>>
    BY <1>12, Zenon DEF Prune
  <2> DEFINE remain == (choice \ Top.never) \ cache_broken
  <2>3. CASE Fail
    BY <2>1, <2>3, FailTypes
  <2>4. CASE /\ frames' = WithTop(WithoutChoice(Top, choice, remain))
             /\ UNCHANGED <<suite_contents, cache_broken, cache_inst, call, pc, loop, answer>>
    <3>1. remain \in SUBSET Package
      BY <1>9, <2>1
    <3> HIDE DEF remain
    <3>2. /\ Top.choices \ {choice} \in SUBSET SUBSET Package
          /\ Top.check \cup remain \in SUBSET Package /\ Top.musts \cup remain \in SUBSET Package
          /\ Top.rebuild \cup {remain} \in SUBSET SUBSET Package
      BY <1>9, <2>1, <3>1
    <3>3. WithoutChoice(Top, choice, remain) \in FrameType
      BY <1>9, <2>1, <3>2 DEF WithoutChoice, FrameType
    <3>4. frames' \in Seq(FrameType) /\ frames' # <<>>
      BY <1>0, <1>9, <2>1, <2>4, <3>3, TopTypes
    <3>5. pc' = "prune" /\ UNCHANGED <<caches, loop>>
      BY <2>1, <2>4 DEF caches
    <3> QED
      BY <1>9, <2>1, <2>4, <3>4, <3>5 DEF Inv, TypeOK, SearchOK, InLoop, caches
  <2> QED  BY <2>2, <2>3, <2>4
<1>13. CASE Pruned
  <2> DEFINE f == Frame(Top.musts, Top.never, Top.rebuild, Top.check)
  <2>1. pc = "prune" /\ UNCHANGED <<suite, cache_ess>>
    BY <1>13 DEF Pruned
  <2>2. f \in FrameType /\ f.musts \in SUBSET Package
    <3>1. Top.musts \in SUBSET Package /\ f \in FrameType
      BY <1>9, <2>1, FrameTypes
    <3> QED  BY <3>1 DEF Frame
  <2>3. CASE f.check = {} /\ f.choices = {}
    <3>1. Succeed(f.musts)
      BY <1>13, <2>3 DEF Pruned
    <3> HIDE DEF f
    <3> QED  BY <2>1, <2>2, <3>1, SucceedTypes
  <2>4. CASE ~(f.check = {} /\ f.choices = {})
    <3>1. /\ frames' = WithTop(f)
          /\ IF f.check = {} THEN pc' = "resolve" /\ loop' = NoLoop
             ELSE pc' = "main" /\ loop' = LoopOf(f)
          /\ UNCHANGED <<suite_contents, cache_broken, cache_inst, call, answer>>
      BY <1>13, <2>4 DEF Pruned
    <3> HIDE DEF f
    <3>2. frames' \in Seq(FrameType) /\ frames' # <<>>
      BY <1>0, <1>9, <2>1, <2>2, <3>1, TopTypes
    <3>3. LoopOf(f) \in LoopType
      BY <2>2, LoopOfTypes
    <3> QED  BY <1>10, <2>1, <3>1, <3>2, <3>3 DEF caches
  <2> QED  BY <2>3, <2>4
<1>14. CASE ResolveChoice
  <2>1. pc = "resolve" /\ UNCHANGED <<suite, cache_ess>>
    BY <1>14 DEF ResolveChoice
  <2>2. CASE Top.choices = {}
    <3>1. Succeed(Top.musts)
      BY <1>14, <2>2 DEF ResolveChoice
    <3> QED  BY <1>9, <2>1, <3>1, SucceedTypes
  <2>3. CASE Top.choices # {}
    <3>1. PICK choice \in Top.choices : \E last \in choice :
            frames' = WithTop([Top EXCEPT !.choices = @ \ {choice},
                                          !.options = choice \ {last}, !.last = {last}])
      BY <1>14, <2>3 DEF ResolveChoice
    <3>2. PICK last \in choice :
            frames' = WithTop([Top EXCEPT !.choices = @ \ {choice},
                                          !.options = choice \ {last}, !.last = {last}])
      BY <3>1
    <3>3. /\ Top.choices \ {choice} \in SUBSET SUBSET Package
          /\ choice \ {last} \in SUBSET Package /\ {last} \in SUBSET Package
      BY <1>9, <2>1
    <3> DEFINE f == [Top EXCEPT !.choices = @ \ {choice},
                                !.options = choice \ {last}, !.last = {last}]
    <3>4. f \in FrameType
      BY <1>9, <2>1, <3>3 DEF FrameType
    <3>5. frames' = WithTop(f)
      BY <3>2
    <3> HIDE DEF f
    <3>6. frames' \in Seq(FrameType) /\ frames' # <<>>
      BY <1>0, <1>9, <2>1, <3>4, <3>5, TopTypes
    <3>7. /\ pc' = "options"
          /\ UNCHANGED <<loop, call, answer, suite_contents, cache_broken, cache_inst>>
      BY <1>14, <2>3 DEF ResolveChoice
    <3>8. pc \notin {"idle", "KeyError"} /\ loop' \in {loop} /\ UNCHANGED caches
      BY <2>1, <3>7 DEF caches
    <3>9. SearchOK'
      BY <1>9, <2>1, <3>6, <3>7 DEF SearchOK, InLoop
    <3>10. TypeOK'
      BY <2>1, <3>6, <3>7 DEF Inv, TypeOK
    <3> QED  BY <3>9, <3>10 DEF Inv
  <2> QED  BY <2>2, <2>3
<1>15. CASE TryOption
  <2>1. pc = "options" /\ UNCHANGED <<suite, suite_contents, caches, call, answer>>
    BY <1>15 DEF TryOption
  <2>2. CASE Top.options = {}
    <3> DEFINE f == Frame(Top.musts \cup Top.last, Top.never, Top.choices, Top.last)
    <3>1. frames' = WithTop(f) /\ pc' = "main" /\ loop' = LoopOf(f)
      BY <1>15, <2>2 DEF TryOption
    <3>2. f \in FrameType
      BY <1>9, <2>1, FrameTypes
    <3> HIDE DEF f
    <3>3. frames' \in Seq(FrameType) /\ frames' # <<>>
      BY <1>0, <1>9, <2>1, <3>1, <3>2, TopTypes
    <3> QED  BY <1>10, <2>1, <3>1, <3>2, <3>3, LoopOfTypes
  <2>3. CASE Top.options # {}
    <3>1. PICK p \in Top.options :
            /\ frames' = WithTop([Top EXCEPT !.options = OptionsLeft(@, p), !.tried = {p}])
            /\ pc' = "try"
            /\ loop' = Loop(Top.musts \cup {p}, {}, {}, {p})
      BY <1>15, <2>3 DEF TryOption
    <3>2. OptionsLeft(Top.options, p) \in SUBSET Package /\ {p} \in SUBSET Package
          /\ Top.musts \cup {p} \in SUBSET Package
      BY <1>9, <2>1 DEF OptionsLeft
    <3> DEFINE f == [Top EXCEPT !.options = OptionsLeft(@, p), !.tried = {p}]
    <3>3. f \in FrameType
      BY <1>9, <2>1, <3>2 DEF FrameType
    <3>4. frames' = WithTop(f)
      BY <3>1
    <3> HIDE DEF f
    <3>5. frames' \in Seq(FrameType) /\ frames' # <<>>
      BY <1>0, <1>9, <2>1, <3>3, <3>4, TopTypes
    <3>6. loop' \in LoopType
      BY <3>1, <3>2, FrameTypes
    <3> QED  BY <1>10, <2>1, <3>1, <3>5, <3>6
  <2> QED  BY <2>2, <2>3
<1>16. CASE TryLoopEnds
  <2>1. /\ pc = "try" /\ loop \in LoopType
        /\ UNCHANGED <<suite, suite_contents, caches, call, answer>>
    BY <1>16 DEF TryLoopEnds, Inv, SearchOK, InLoop
  <2>2. /\ loop.musts \in SUBSET Package /\ loop.never \in SUBSET Package
        /\ loop.choices \in SUBSET SUBSET Package
    BY <2>1 DEF LoopType
  <2>3. CASE pc' = "options" /\ loop' = NoLoop /\ UNCHANGED frames
    BY <1>0, <1>9, <1>10, <2>1, <2>3
  <2> DEFINE same == Frame(Top.musts \cup loop.musts, Top.never, Top.choices, {})
             deeper == Frame(loop.musts, loop.never \cup Top.never,
                             loop.choices \cup Top.choices, Top.tried)
  <2>4. same \in FrameType /\ deeper \in FrameType
    BY <1>9, <2>1, <2>2, FrameTypes
  <2>5. LoopOf(deeper) \in LoopType
    BY <2>4, LoopOfTypes
  <2>6. \/ pc' = "options" /\ loop' = NoLoop /\ UNCHANGED frames
        \/ frames' = WithTop(same) /\ pc' = "resolve" /\ loop' = NoLoop
        \/ frames' = Append(frames, deeper) /\ pc' = "main" /\ loop' = LoopOf(deeper)
    BY <1>16 DEF TryLoopEnds
  <2> HIDE DEF same, deeper
  <2>7. /\ WithTop(same) \in Seq(FrameType) /\ WithTop(same) # <<>>
        /\ Append(frames, deeper) \in Seq(FrameType) /\ Append(frames, deeper) # <<>>
    BY <1>0, <1>9, <2>1, <2>4, TopTypes
  <2> QED  BY <1>10, <2>1, <2>3, <2>5, <2>6, <2>7
<1> QED
  BY <1>1, <1>2, <1>3, <1>4, <1>5, <1>6, <1>7, <1>8, <1>11, <1>12, <1>13, <1>14, <1>15, <1>16
  DEF Next, Step

LEMMA InitTypes ==
  ASSUME Init
  PROVE  Inv
<1>1. <<>> \in Seq(FrameType) /\ NoAnswer \in [of : SUBSET Package, verdict : BOOLEAN]
  BY DEF NoAnswer
<1>2. InitialSuite \in SUBSET Package
  BY UniverseAssumption
<1> QED
  BY <1>1, <1>2 DEF Init, Inv, TypeOK, SearchOK, InLoop, NoCall

\* Suite, caches, calls and every frame of a search keep their types, and a
\* search never meets a missing frame, loop or essential set (the tester's
\* methods and the recursive calls of _check_inst).
THEOREM TypeCorrect == Spec => []TypeOK
<1>1. Init => Inv
  BY InitTypes
<1>2. Inv /\ [Next]_vars => Inv'
  <2> SUFFICES ASSUME Inv, [Next]_vars PROVE Inv'
    OBVIOUS
  <2>1. CASE Next
    BY <2>1, NextTypes
  <2>2. CASE UNCHANGED vars
    BY <2>2 DEF vars, caches, search, Inv, TypeOK, SearchOK, InLoop
  <2> QED  BY <2>1, <2>2
<1>3. Inv => TypeOK
  BY DEF Inv
<1> QED  BY <1>1, <1>2, <1>3, PTL DEF Spec

(***************************************************************************)
(* A no is right.  Everything is said in terms of the solutions that hold  *)
(* with a package all that are equivalent to it: whether or not these are  *)
(* in the suite, one of each kind is.                                      *)
(***************************************************************************)

Alike(p) == {p} \cup Equivalents[p]

Possible ==
  {W \in SUBSET Package :
     /\ Consistent(W) /\ Essential \cap suite \subseteq W
     /\ \A p \in W : Alike(p) \subseteq W /\ Alike(p) \cap suite # {}}

Meets(choices, W) == \A choice \in choices : choice \cap W # {}

\* What no solution holds.
BrokenOK == \A W \in Possible : cache_broken \cap W = {}
AnswerOK == \A p \in answer.of : ~answer.verdict => \A W \in Possible : p \notin W

\* What every solution holds.
EssentialOK ==
  pc = "enter" \/ cache_ess # NoEssential =>
    /\ cache_ess.never = UNION {Conflicts[p] : p \in cache_ess.start}
    /\ \A W \in Possible : cache_ess.start \subseteq W /\ Meets(cache_ess.choices, W)

EssentialLoopOK ==
  pc = "essential" =>
    /\ loop.never \subseteq UNION {Conflicts[p] : p \in loop.musts}
    /\ \A c \in loop.check : c \in loop.musts \/ Settles(c)
    /\ loop.dependencies # {} => loop.cur \subseteq loop.musts
    /\ \A W \in Possible : loop.musts \subseteq W /\ Meets(loop.choices, W)

\* The clauses a loop is at are those of one package.
ClausesOK ==
  InLoop /\ loop.dependencies # {} =>
    \E p \in Package : loop.cur = {p} /\ loop.dependencies \subseteq Dependencies[p]

(***************************************************************************)
(* A solution may still come out of a frame if it holds what is to be      *)
(* checked, nothing that is excluded, and an alternative of each choice.   *)
(* What the frame takes without consequences need not be in it.            *)
(***************************************************************************)

Searching == pc \in {"main", "prune", "resolve", "options", "try"}

Fits(W, f) ==
  f.check \subseteq W /\ f.never \cap W = {} /\ Meets(f.choices, W) /\ Meets(f.rebuild, W)

FitsLoop(W) ==
  /\ ~loop.failed
  /\ loop.check \subseteq W /\ loop.never \cap W = {} /\ Meets(loop.choices, W)
  /\ loop.dependencies # {} => loop.cur \subseteq W

HasOption(W, f) == f.options \cap W # {} \/ f.last \subseteq W

\* A frame below the top tries one option, and has others.
FitsWaiting(W, f) == Fits(W, f) /\ HasOption(W, f) /\ f.tried \cap W = {}

FitsTop(W) ==
  /\ pc = "main" => FitsLoop(W)
  /\ pc # "main" => Fits(W, Top)
  /\ pc = "options" => HasOption(W, Top)
  /\ pc = "try" => HasOption(W, Top) \/ Top.tried \subseteq W

Below == 1 .. Len(frames) - 1

\* As long as the package has a solution, one fits some frame.
Hopeful ==
  \E W \in Possible : FitsTop(W) \/ \E i \in Below : FitsWaiting(W, frames[i])

HopefulOK == Searching /\ (\E W \in Possible : call.t \in W) => Hopeful

\* Packages taken, checked or without consequences, exclude what they conflict with.
Covered(musts, never) == \A p \in musts : Conflicts[p] \cap suite_contents \subseteq never

CoveredOK ==
  Searching =>
    /\ \A i \in Below : Covered(frames[i].musts, frames[i].never)
    /\ pc \in {"resolve", "options", "try"} => Covered(Top.musts, Top.never)
    /\ pc = "prune" => Covered(Top.musts \ Top.check, Top.never)
    /\ pc = "main" /\ ~loop.failed => Covered(loop.musts \ loop.check, loop.never)
    /\ pc = "try" /\ ~loop.failed =>
         Covered(loop.musts \ (Top.musts \cup loop.check), loop.never)

\* What a loop finds to follow from an option is in every solution with it.
TryOK ==
  pc = "try" =>
    /\ \E p \in Package : Top.tried = {p}
    /\ \A W \in Possible : Top.tried \subseteq W =>
         FitsLoop(W) /\ loop.never \subseteq UNION {Conflicts[p] : p \in W}

CachesOK == BrokenOK /\ AnswerOK /\ EssentialOK
LoopsOK == EssentialLoopOK /\ ClausesOK /\ TryOK
FramesOK == HopefulOK /\ CoveredOK

NoInv == Inv /\ ContentsInSync /\ CachesOK /\ LoopsOK /\ FramesOK

(***************************************************************************)
(* The solutions.                                                          *)
(***************************************************************************)

LEMMA AlikeFacts ==
  ASSUME NEW p \in Package, NEW q \in Alike(p)
  PROVE  /\ q \in Package /\ p \in Alike(q) /\ Alike(q) = Alike(p)
         /\ Dependencies[q] = Dependencies[p] /\ Conflicts[q] = Conflicts[p]
         /\ \A r \in Package : \A clause \in Dependencies[r] : p \in clause <=> q \in clause
<1>1. CASE q = p
  BY <1>1 DEF Alike
<1>2. CASE q \in Equivalents[p]
  <2>1. q \in Package
    BY <1>2, UniverseTypes
  <2>2. /\ Equivalents[p] = Equivalents[q] /\ p \in Equivalents[p]
        /\ Dependencies[p] = Dependencies[q] /\ Conflicts[p] = Conflicts[q]
        /\ \A r \in Package : \A clause \in Dependencies[r] : p \in clause <=> q \in clause
    BY <1>2, <2>1, BuilderAssumption
  <2> QED  BY <1>2, <2>1, <2>2 DEF Alike
<1> QED  BY <1>1, <1>2 DEF Alike

LEMMA ConflictFacts ==
  ASSUME NEW p \in Package, NEW q \in Conflicts[p]
  PROVE  q \in Package /\ p # q /\ p \in Conflicts[q]
<1>1. q \in Package
  BY UniverseTypes
<1> QED  BY <1>1, BuilderAssumption

LEMMA PossibleFacts ==
  ASSUME NEW W \in Possible, NEW p \in W
  PROVE  /\ W \subseteq Package /\ p \in Package
         /\ Conflicts[p] \cap W = {} /\ \A clause \in Dependencies[p] : clause \cap W # {}
         /\ Alike(p) \subseteq W /\ Alike(p) \cap suite # {}
BY DEF Possible, Consistent, Unsatisfied

\* Of each kind of package that a solution holds, one is in the contents.
LEMMA SomeAlike ==
  ASSUME BrokenOK, ContentsInSync, pc # "KeyError", NEW W \in Possible, NEW p \in W
  PROVE  Alike(p) \cap W \cap suite_contents # {}
<1>1. PICK e \in Alike(p) : e \in suite
  BY PossibleFacts
<1>2. e \in W /\ e \notin cache_broken
  BY <1>1, PossibleFacts DEF BrokenOK
<1> QED  BY <1>1, <1>2 DEF ContentsInSync

\* So a solution meets what there is of a clause.
LEMMA SomeCandidate ==
  ASSUME BrokenOK, ContentsInSync, pc # "KeyError", NEW W \in Possible, NEW p \in W,
         NEW clause \in Dependencies[p]
  PROVE  clause \cap W \cap suite_contents # {}
<1>1. p \in Package /\ W \subseteq Package
  BY PossibleFacts
<1>2. PICK q \in clause : q \in W
  BY PossibleFacts
<1>3. PICK e \in Alike(q) : e \in W /\ e \in suite_contents
  BY <1>2, SomeAlike
<1>4. e \in clause
  BY <1>1, <1>2, <1>3, AlikeFacts
<1> QED  BY <1>3, <1>4

\* And what a solution does not exclude of a package's conflicts is in sight.
LEMMA SomeConflict ==
  ASSUME BrokenOK, ContentsInSync, pc # "KeyError", NEW W \in Possible,
         NEW p \in W, NEW q \in Conflicts[p]
  PROVE  Conflicts[q] \cap W \cap suite_contents # {}
<1>1. PICK e \in Alike(p) : e \in W /\ e \in suite_contents
  BY SomeAlike
<1>2. p \in Package /\ q \in Package
  BY PossibleFacts, ConflictFacts
<1>3. e \in Package /\ Conflicts[e] = Conflicts[p]
  BY <1>1, <1>2, AlikeFacts
<1>4. e \in Conflicts[q]
  BY <1>3, ConflictFacts
<1> QED  BY <1>1, <1>4

\* Equivalent packages make any solution one of these.
LEMMA SolutionPossible ==
  ASSUME NEW V \in Solutions(suite)
  PROVE  \E W \in Possible : V \subseteq W /\ \A p \in W : Alike(p) \cap V # {}
<1> DEFINE W == {p \in Package : Alike(p) \cap V # {}}
<1>1. /\ V \in SUBSET Package /\ Consistent(V)
      /\ V \subseteq suite /\ Essential \cap suite \subseteq V
  BY DEF Solutions, Consistents
<1>2. V \subseteq W
  BY <1>1 DEF Alike
<1>3. ASSUME NEW p \in W
      PROVE  /\ Conflicts[p] \cap W = {} /\ Unsatisfied(Dependencies[p], W) = {}
             /\ Alike(p) \subseteq W /\ Alike(p) \cap suite # {}
  <2>1. PICK e \in Alike(p) : e \in V
    BY <1>3
  <2>2. /\ e \in Package /\ p \in Package /\ Conflicts[e] = Conflicts[p]
        /\ Dependencies[e] = Dependencies[p]
    BY <2>1, AlikeFacts
  <2>3. Conflicts[e] \cap V = {} /\ Unsatisfied(Dependencies[e], V) = {}
    BY <1>1, <2>1 DEF Consistent
  <2>4. ASSUME NEW q \in Conflicts[p] \cap W PROVE FALSE
    <3>1. PICK d \in Alike(q) : d \in V
      BY <2>4
    <3>2. q \in Package /\ e \in Conflicts[q]
      BY <2>2, <2>4, ConflictFacts
    <3>3. e \in Conflicts[d] /\ d \in Package
      BY <3>1, <3>2, AlikeFacts
    <3>4. Conflicts[d] \cap V = {}
      BY <1>1, <3>1 DEF Consistent
    <3> QED  BY <2>1, <3>3, <3>4
  <2>5. Unsatisfied(Dependencies[p], W) = {}
    BY <1>2, <2>2, <2>3 DEF Unsatisfied
  <2>6. Alike(p) \subseteq W
    <3> SUFFICES ASSUME NEW q \in Alike(p) PROVE q \in W
      OBVIOUS
    <3>1. q \in Package /\ Alike(q) = Alike(p)
      BY <2>2, AlikeFacts
    <3> QED  BY <2>1, <3>1
  <2>7. Alike(p) \cap suite # {}
    BY <1>1, <2>1
  <2> QED  BY <2>4, <2>5, <2>6, <2>7
<1>4. Essential \cap suite \subseteq W
  BY <1>1, <1>2
<1>5. W \in Possible
  <2>1. W \in SUBSET Package
    OBVIOUS
  <2> HIDE DEF W
  <2> QED  BY <1>3, <1>4, <2>1 DEF Possible, Consistent
<1> HIDE DEF W
<1>6. \A p \in W : Alike(p) \cap V # {}
  BY DEF W
<1> QED  BY <1>2, <1>5, <1>6

\* What the invariant says of these holds of every solution.
LEMMA NoInvImplies ==
  ASSUME BrokenOK, AnswerOK, EssentialOK, Inv
  PROVE  NoIsRight
<1>1. ASSUME NEW V \in Solutions(suite), NEW p \in V
      PROVE  p \notin cache_broken /\ (p \in answer.of => answer.verdict)
  <2>1. PICK W \in Possible : V \subseteq W
    BY SolutionPossible
  <2> QED  BY <2>1 DEF BrokenOK, AnswerOK
<1>2. ASSUME NEW V \in Solutions(suite), cache_ess # NoEssential
      PROVE  /\ \A p \in cache_ess.start : ({p} \cup Equivalents[p]) \cap V # {}
             /\ cache_ess.never \cap V = {}
  <2>1. PICK W \in Possible : V \subseteq W /\ \A p \in W : Alike(p) \cap V # {}
    BY SolutionPossible
  <2>2. cache_ess.start \subseteq W
    BY <1>2, <2>1 DEF EssentialOK
  <2>3. \A p \in cache_ess.start : ({p} \cup Equivalents[p]) \cap V # {}
    BY <2>1, <2>2 DEF Alike
  <2>4. cache_ess.never \cap V = {}
    <3>1. cache_ess.never = UNION {Conflicts[p] : p \in cache_ess.start}
      BY <1>2 DEF EssentialOK
    <3>2. \A p \in W : Conflicts[p] \cap W = {}
      BY <2>1, PossibleFacts
    <3> QED  BY <2>1, <2>2, <3>1, <3>2
  <2> QED  BY <2>3, <2>4
<1>3. \A p \in answer.of : ~answer.verdict => p \notin Installable(suite)
  BY <1>1 DEF Installable
<1>4. cache_broken \cap Installable(suite) = {}
  BY <1>1 DEF Installable
<1> QED  BY <1>2, <1>3, <1>4 DEF NoIsRight

(***************************************************************************)
(* Steps of a loop.                                                        *)
(***************************************************************************)

LEMMA PossibleKept ==
  ASSUME suite' = suite
  PROVE  Possible' = Possible
BY DEF Possible, Consistent, Unsatisfied

LEMMA CachesKept ==
  ASSUME CachesOK, UNCHANGED <<suite, cache_broken, cache_ess, answer>>, pc' # "enter"
  PROVE  CachesOK'
<1>1. Possible' = Possible
  BY PossibleKept
<1>2. BrokenOK' /\ AnswerOK'
  BY <1>1 DEF CachesOK, BrokenOK, AnswerOK
<1>3. EssentialOK'
  BY <1>1 DEF CachesOK, EssentialOK, Meets
<1> QED  BY <1>2, <1>3 DEF CachesOK

\* Every solution meets what is chosen for a clause of one of its packages.
LEMMA ChosenMeets ==
  ASSUME BrokenOK, ContentsInSync, pc # "KeyError", NEW W \in Possible, NEW p \in W,
         NEW clause \in Dependencies[p], NEW never, never \cap W = {}
  PROVE  /\ (clause \cap suite_contents) \ never # {}
         /\ \A chosen \in Representatives((clause \cap suite_contents) \ never) :
              /\ chosen \cap W # {}
              /\ Cardinality(chosen) = 1 => chosen \subseteq W
<1>1. PICK q \in (clause \cap suite_contents) \ never : q \in W
  BY SomeCandidate
<1>2. ASSUME NEW chosen \in Representatives((clause \cap suite_contents) \ never)
      PROVE  /\ chosen \cap W # {}
             /\ Cardinality(chosen) = 1 => chosen \subseteq W
  <2>1. Cardinality(chosen \cap Equivalents[q]) = 1 /\ chosen \subseteq clause
    BY <1>1, <1>2 DEF Representatives
  <2>2. chosen \cap Equivalents[q] # {}
    BY <2>1, FS_EmptySet
  <2>3. chosen \cap W # {}
    BY <1>1, <2>2, PossibleFacts DEF Alike
  <2>4. IsFiniteSet(chosen)
    <3>1. p \in Package
      BY PossibleFacts
    <3>2. chosen \subseteq Package
      BY <2>1, <3>1, UniverseTypes
    <3> QED  BY <3>2, UniverseAssumption, FS_Subset
  <2>5. Cardinality(chosen) = 1 => \E e : chosen = {e}
    BY <2>4, FS_Singleton
  <2> QED  BY <2>3, <2>5
<1> QED  BY <1>1, <1>2

\* A loop neither touches the frames nor, but for a package found broken, a cache.
LEMMA LoopStep ==
  ASSUME CheckPackage \/ CheckDependency
  PROVE  /\ InLoop /\ ~loop.failed /\ pc' \in {pc, "KeyError"}
         /\ UNCHANGED <<suite, cache_inst, cache_ess, call, frames, answer>>
         /\ suite_contents' \subseteq suite_contents
         /\ Top' = Top /\ Below' = Below /\ Possible' = Possible
<1>1. /\ InLoop /\ ~loop.failed /\ pc' \in {pc, "KeyError"}
      /\ UNCHANGED <<suite, cache_inst, cache_ess, call, frames, answer>>
      /\ suite_contents' \subseteq suite_contents
  BY DEF CheckPackage, CheckDependency, MarkBroken, caches
<1> QED  BY <1>1, PossibleKept DEF Top, Below

\* How the loop changes is up to the two lemmas below.
LEMMA LoopStepOK ==
  ASSUME NoInv, CheckPackage \/ CheckDependency, pc' = pc,
         NEW W \in Possible, FitsLoop(W) => FitsLoop(W)'
  PROVE  FitsTop(W) => FitsTop(W)'
<1>1. Top' = Top /\ pc' = pc
  BY LoopStep
<1>2. Fits(W, Top) => Fits(W, Top)'
  BY <1>1 DEF Fits, Meets
<1> QED  BY <1>1, <1>2 DEF FitsTop, HasOption

LEMMA LoopHopeful ==
  ASSUME NoInv, CheckPackage \/ CheckDependency, pc' = pc,
         \A W \in Possible : FitsLoop(W) => FitsLoop(W)'
  PROVE  HopefulOK'
<1>1. /\ frames' = frames /\ call' = call /\ Below' = Below /\ Possible' = Possible
      /\ Searching' <=> Searching
  BY LoopStep DEF Searching
<1>2. \A W \in Possible : FitsTop(W) => FitsTop(W)'
  BY LoopStepOK
<1>3. ASSUME NEW W \in Possible, NEW i \in Below, FitsWaiting(W, frames[i])
      PROVE  FitsWaiting(W, frames[i])'
  BY <1>1, <1>3 DEF FitsWaiting, HasOption, Fits, Meets
<1>4. Hopeful => Hopeful'
  BY <1>1, <1>2, <1>3 DEF Hopeful
<1> QED  BY <1>1, <1>4 DEF HopefulOK, NoInv, FramesOK

LEMMA LoopTypes ==
  ASSUME Inv, InLoop
  PROVE  /\ loop \in LoopType
         /\ loop.musts \in SUBSET Package /\ loop.never \in SUBSET Package
         /\ loop.choices \in SUBSET SUBSET Package /\ loop.check \in SUBSET Package
         /\ loop.cur \in SUBSET Package /\ loop.dependencies \in SUBSET SUBSET Package
<1>1. loop \in LoopType
  BY DEF Inv, SearchOK
<1> QED  BY <1>1 DEF LoopType

LEMMA CheckPackageNo ==
  ASSUME NoInv, CheckPackage
  PROVE  CachesOK' /\ LoopsOK' /\ FramesOK'
<1>1. /\ UNCHANGED <<suite, suite_contents, caches, call, pc, frames, answer>>
      /\ InLoop /\ ~loop.failed /\ loop.dependencies = {}
  BY DEF CheckPackage
<1>2. PICK cur \in loop.check :
        loop' = IF Conflicts[cur] # {} /\ cur \in loop.never
                THEN [loop EXCEPT !.check = @ \ {cur}, !.failed = TRUE]
                ELSE [loop EXCEPT !.check = @ \ {cur}, !.cur = {cur},
                                  !.never = @ \cup (Conflicts[cur] \cap suite_contents),
                                  !.dependencies = Unsatisfied(Dependencies[cur], loop.musts)]
  BY DEF CheckPackage
<1>3. loop \in LoopType /\ cur \in Package
  BY <1>1, LoopTypes DEF NoInv
<1>4. CachesOK'
  BY <1>1, CachesKept DEF NoInv, caches, InLoop
<1>5. /\ frames' = frames /\ call' = call /\ Below' = Below /\ Possible' = Possible
      /\ Top' = Top /\ (Searching' <=> Searching) /\ (InLoop' <=> InLoop)
  BY <1>1, LoopStep DEF Searching, InLoop
<1>6. loop'.musts = loop.musts /\ loop'.choices = loop.choices /\ loop'.check = loop.check \ {cur}
  BY <1>2, <1>3 DEF LoopType
<1>7. CASE Conflicts[cur] # {} /\ cur \in loop.never
  <2>1. /\ loop'.failed /\ loop'.never = loop.never /\ loop'.cur = loop.cur
        /\ loop'.dependencies = {}
    BY <1>1, <1>2, <1>3, <1>7 DEF LoopType
  <2>2. \A W \in Possible : ~FitsLoop(W)
    BY <1>7 DEF FitsLoop
  <2>3. ClausesOK'
    BY <2>1 DEF ClausesOK
  <2>4. EssentialLoopOK'
    BY <1>1, <1>5, <1>6, <2>1 DEF NoInv, LoopsOK, EssentialLoopOK, Settles, Meets
  <2>5. TryOK'
    BY <1>1, <1>5, <2>2 DEF NoInv, LoopsOK, TryOK
  <2>6. HopefulOK'
    BY <1>1, <2>2, LoopHopeful
  <2>7. CoveredOK'
    BY <1>1, <1>5, <2>1 DEF NoInv, FramesOK, CoveredOK, Covered
  <2> QED  BY <1>4, <2>3, <2>4, <2>5, <2>6, <2>7 DEF LoopsOK, FramesOK
<1>8. CASE ~(Conflicts[cur] # {} /\ cur \in loop.never)
  <2>1. /\ ~loop'.failed /\ loop'.never = loop.never \cup (Conflicts[cur] \cap suite_contents)
        /\ loop'.cur = {cur}
        /\ loop'.dependencies = Unsatisfied(Dependencies[cur], loop.musts)
    BY <1>1, <1>2, <1>3, <1>8 DEF LoopType
  <2>2. ASSUME NEW W \in Possible, FitsLoop(W)
        PROVE  FitsLoop(W)' /\ cur \in W
    <3>1. cur \in W
      BY <2>2 DEF FitsLoop
    <3>2. Conflicts[cur] \cap W = {}
      BY <3>1, PossibleFacts
    <3> QED
      BY <1>6, <2>1, <2>2, <3>1, <3>2 DEF FitsLoop, Meets
  <2>3. ClausesOK'
    BY <1>3, <2>1 DEF ClausesOK, Unsatisfied
  <2>4. EssentialLoopOK'
    <3>1. CASE pc # "essential"
      BY <1>1, <3>1 DEF EssentialLoopOK
    <3>2. CASE pc = "essential"
      <4>1. /\ loop.never \subseteq UNION {Conflicts[p] : p \in loop.musts}
            /\ \A c \in loop.check : c \in loop.musts \/ Settles(c)
            /\ \A W \in Possible : loop.musts \subseteq W /\ Meets(loop.choices, W)
        BY <3>2 DEF NoInv, LoopsOK, EssentialLoopOK
      <4>2. cur \in loop.musts \/ (Conflicts[cur] \subseteq loop.never /\ loop'.dependencies = {})
        BY <2>1, <4>1 DEF Settles
      <4>3. loop'.never \subseteq UNION {Conflicts[p] : p \in loop'.musts}
        BY <1>6, <2>1, <4>1, <4>2
      <4>4. \A c \in loop'.check : c \in loop'.musts \/ Settles(c)'
        BY <1>6, <2>1, <4>1 DEF Settles
      <4>5. loop'.dependencies # {} => loop'.cur \subseteq loop'.musts
        BY <1>6, <2>1, <4>2
      <4>6. \A W \in Possible : loop'.musts \subseteq W /\ Meets(loop'.choices, W)
        BY <1>6, <4>1
      <4> QED  BY <1>5, <4>3, <4>4, <4>5, <4>6 DEF EssentialLoopOK, Meets
    <3> QED  BY <3>1, <3>2
  <2>5. TryOK'
    <3> SUFFICES ASSUME pc = "try" PROVE TryOK'
      BY <1>1 DEF TryOK
    <3>1. \E p \in Package : Top.tried = {p}
      BY DEF NoInv, LoopsOK, TryOK
    <3>2. ASSUME NEW W \in Possible, Top.tried \subseteq W
          PROVE  FitsLoop(W)' /\ loop'.never \subseteq UNION {Conflicts[p] : p \in W}
      <4>1. FitsLoop(W) /\ loop.never \subseteq UNION {Conflicts[p] : p \in W}
        BY <3>2 DEF NoInv, LoopsOK, TryOK
      <4> QED  BY <2>1, <2>2, <4>1
    <3> QED  BY <1>5, <3>1, <3>2 DEF TryOK
  <2>6. HopefulOK'
    BY <1>1, <2>2, LoopHopeful
  <2>7. CoveredOK'
    <3> SUFFICES ASSUME Searching PROVE CoveredOK'
      BY <1>5 DEF CoveredOK
    <3>1. \A i \in Below : Covered(frames[i].musts, frames[i].never)'
      BY <1>1 DEF NoInv, FramesOK, CoveredOK, Covered
    <3>2. pc \in {"resolve", "options", "try"} => Covered(Top.musts, Top.never)'
      BY <1>1, <1>5 DEF NoInv, FramesOK, CoveredOK, Covered
    <3>3. pc = "main" => Covered(loop.musts \ loop.check, loop.never)'
      BY <1>1, <1>6, <2>1 DEF NoInv, FramesOK, CoveredOK, Covered
    <3>4. pc = "try" => Covered(loop.musts \ (Top.musts \cup loop.check), loop.never)'
      BY <1>1, <1>5, <1>6, <2>1 DEF NoInv, FramesOK, CoveredOK, Covered
    <3>5. pc # "prune"
      BY <1>1 DEF InLoop
    <3> QED
      BY <1>1, <1>5, <3>1, <3>2, <3>3, <3>4, <3>5 DEF CoveredOK
  <2> QED  BY <1>4, <2>3, <2>4, <2>5, <2>6, <2>7 DEF LoopsOK, FramesOK
<1> QED  BY <1>7, <1>8

LEMMA CheckDependencyNo ==
  ASSUME NoInv, CheckDependency
  PROVE  CachesOK' /\ LoopsOK' /\ FramesOK'
<1>1. PICK clause \in loop.dependencies :
        LET candidates == (clause \cap suite_contents) \ loop.never
        IN  IF candidates = {}
            THEN /\ loop' = [loop EXCEPT !.dependencies = {}, !.failed = TRUE]
                 /\ IF IsBroken(clause) THEN MarkBroken
                    ELSE UNCHANGED <<cache_broken, suite_contents, pc>>
            ELSE /\ \E chosen \in Representatives(candidates) :
                      loop' = IF Cardinality(chosen) = 1
                              THEN [loop EXCEPT
                                      !.check = @ \cup chosen, !.musts = @ \cup chosen,
                                      !.dependencies = Unsatisfied(@ \ {clause}, loop.musts \cup chosen)]
                              ELSE [loop EXCEPT !.choices = @ \cup {chosen},
                                                !.dependencies = @ \ {clause}]
                 /\ UNCHANGED <<cache_broken, suite_contents, pc>>
  BY DEF CheckDependency
<1> DEFINE candidates == (clause \cap suite_contents) \ loop.never
<1>2. /\ InLoop /\ ~loop.failed /\ pc # "KeyError" /\ loop \in LoopType
      /\ UNCHANGED <<suite, cache_inst, cache_ess, call, frames, answer>>
      /\ suite_contents' \subseteq suite_contents
      /\ Top' = Top /\ Below' = Below /\ Possible' = Possible
      /\ BrokenOK /\ ContentsInSync
  BY LoopStep, LoopTypes DEF InLoop, NoInv, CachesOK
<1>3. PICK p \in Package : loop.cur = {p} /\ loop.dependencies \subseteq Dependencies[p]
  BY <1>2 DEF NoInv, LoopsOK, ClausesOK
<1>4. clause \in Dependencies[p]
  BY <1>3
<1>5. ASSUME NEW W \in Possible, FitsLoop(W)
      PROVE  p \in W /\ loop.never \cap W = {}
  BY <1>3, <1>5 DEF FitsLoop
<1>6. CASE candidates = {}
  <2>1. loop' = [loop EXCEPT !.dependencies = {}, !.failed = TRUE]
    BY <1>1, <1>6
  <2>2. /\ loop'.failed /\ loop'.dependencies = {} /\ loop'.musts = loop.musts
        /\ loop'.never = loop.never /\ loop'.choices = loop.choices /\ loop'.check = loop.check
    BY <1>2, <2>1 DEF LoopType
  <2>3. ASSUME NEW W \in Possible PROVE ~FitsLoop(W)
    <3>1. SUFFICES ASSUME FitsLoop(W) PROVE FALSE
      OBVIOUS
    <3>2. p \in W /\ loop.never \cap W = {}
      BY <1>5, <3>1
    <3> QED  BY <1>2, <1>4, <1>6, <3>2, ChosenMeets
  <2>4. CachesOK'
    <3>1. CASE UNCHANGED <<cache_broken, suite_contents, pc>>
      BY <1>2, <3>1, CachesKept DEF NoInv, InLoop
    <3>2. CASE IsBroken(clause) /\ MarkBroken
      <4>1. clause \cap suite_contents = {}
        BY <1>6, <3>2 DEF IsBroken
      <4>2. \A W \in Possible : p \notin W
        BY <1>2, <1>4, <4>1, SomeCandidate
      <4>3. BrokenOK'
        BY <1>2, <1>3, <3>2, <4>2 DEF MarkBroken, BrokenOK
      <4>4. AnswerOK' /\ EssentialOK'
        BY <1>2, <3>2 DEF NoInv, CachesOK, AnswerOK, EssentialOK, Meets, InLoop, MarkBroken
      <4> QED  BY <4>3, <4>4 DEF CachesOK
    <3> QED  BY <1>1, <1>6, <3>1, <3>2
  <2>5. CASE pc' = pc
    <3>1. (Searching' <=> Searching) /\ (InLoop' <=> InLoop)
      BY <2>5 DEF Searching, InLoop
    <3>2. ClausesOK'
      BY <2>2 DEF ClausesOK
    <3>3. EssentialLoopOK'
      BY <1>2, <2>2, <2>5 DEF NoInv, LoopsOK, EssentialLoopOK, Settles, Meets
    <3>4. TryOK'
      BY <1>2, <2>3, <2>5 DEF NoInv, LoopsOK, TryOK
    <3>5. HopefulOK'
      BY <2>3, <2>5, LoopHopeful
    <3>6. CoveredOK'
      BY <1>2, <2>2, <2>5, <3>1 DEF NoInv, FramesOK, CoveredOK, Covered
    <3> QED  BY <2>4, <3>2, <3>3, <3>4, <3>5, <3>6 DEF LoopsOK, FramesOK
  <2>6. CASE pc' = "KeyError"
    BY <2>4, <2>6 DEF LoopsOK, FramesOK, EssentialLoopOK, ClausesOK, TryOK, HopefulOK, CoveredOK,
                      InLoop, Searching
  <2> QED  BY <2>5, <2>6, LoopStep
<1>7. CASE candidates # {}
  <2>1. PICK chosen \in Representatives(candidates) :
          loop' = IF Cardinality(chosen) = 1
                  THEN [loop EXCEPT
                          !.check = @ \cup chosen, !.musts = @ \cup chosen,
                          !.dependencies = Unsatisfied(@ \ {clause}, loop.musts \cup chosen)]
                  ELSE [loop EXCEPT !.choices = @ \cup {chosen},
                                    !.dependencies = @ \ {clause}]
    BY <1>1, <1>7
  <2>2. UNCHANGED <<cache_broken, suite_contents, pc>>
    BY <1>1, <1>7
  <2>3. /\ loop'.failed = loop.failed /\ loop'.never = loop.never /\ loop'.cur = loop.cur
        /\ loop'.dependencies \subseteq loop.dependencies
        /\ loop.musts \subseteq loop'.musts
        /\ loop'.musts \ loop'.check \subseteq loop.musts \ loop.check
        /\ \/ /\ Cardinality(chosen) = 1 /\ loop'.choices = loop.choices
              /\ loop'.musts = loop.musts \cup chosen /\ loop'.check = loop.check \cup chosen
           \/ /\ loop'.choices = loop.choices \cup {chosen}
              /\ loop'.musts = loop.musts /\ loop'.check = loop.check
    BY <1>2, <2>1 DEF LoopType, Unsatisfied
  <2>4. ASSUME NEW W \in Possible, p \in W, loop.never \cap W = {}
        PROVE  chosen \cap W # {} /\ (Cardinality(chosen) = 1 => chosen \subseteq W)
    BY <1>2, <1>4, <2>4, ChosenMeets
  <2>5. ASSUME NEW W \in Possible, FitsLoop(W)
        PROVE  FitsLoop(W)'
    BY <1>2, <1>3, <1>5, <2>3, <2>4, <2>5 DEF FitsLoop, Meets
  <2>6. (Searching' <=> Searching) /\ (InLoop' <=> InLoop)
    BY <2>2 DEF Searching, InLoop
  <2>7. CachesOK'
    BY <1>2, <2>2, CachesKept DEF NoInv, InLoop
  <2>8. ClausesOK'
    BY <1>3, <2>3 DEF ClausesOK
  <2>9. EssentialLoopOK'
    <3> SUFFICES ASSUME pc = "essential" PROVE EssentialLoopOK'
      BY <2>2 DEF EssentialLoopOK
    <3>1. /\ loop.never \subseteq UNION {Conflicts[q] : q \in loop.musts}
          /\ \A c \in loop.check : c \in loop.musts \/ Settles(c)
          /\ loop.cur \subseteq loop.musts
          /\ \A W \in Possible : loop.musts \subseteq W /\ Meets(loop.choices, W)
      BY DEF NoInv, LoopsOK, EssentialLoopOK
    <3>2. loop'.never \subseteq UNION {Conflicts[q] : q \in loop'.musts}
      BY <2>3, <3>1
    <3>3. \A c \in loop'.check : c \in loop'.musts \/ Settles(c)'
      BY <2>3, <3>1 DEF Settles, Unsatisfied
    <3>4. loop'.cur \subseteq loop'.musts
      BY <2>3, <3>1
    <3>5. ASSUME NEW W \in Possible
          PROVE  loop'.musts \subseteq W /\ Meets(loop'.choices, W)
      <4>1. loop.musts \subseteq W /\ Meets(loop.choices, W) /\ p \in W
        BY <1>3, <3>1
      <4>2. loop.never \cap W = {}
        BY <3>1, <4>1, PossibleFacts
      <4> QED  BY <2>3, <2>4, <4>1, <4>2 DEF Meets
    <3> QED  BY <1>2, <3>2, <3>3, <3>4, <3>5 DEF EssentialLoopOK, Meets
  <2>10. TryOK'
    <3> SUFFICES ASSUME pc = "try" PROVE TryOK'
      BY <2>2 DEF TryOK
    <3>1. \E q \in Package : Top.tried = {q}
      BY DEF NoInv, LoopsOK, TryOK
    <3>2. ASSUME NEW W \in Possible, Top.tried \subseteq W
          PROVE  FitsLoop(W)' /\ loop'.never \subseteq UNION {Conflicts[q] : q \in W}
      <4>1. FitsLoop(W) /\ loop.never \subseteq UNION {Conflicts[q] : q \in W}
        BY <3>2 DEF NoInv, LoopsOK, TryOK
      <4> QED  BY <2>3, <2>5, <4>1
    <3> QED  BY <1>2, <3>1, <3>2 DEF TryOK
  <2>11. HopefulOK'
    BY <2>2, <2>5, LoopHopeful
  <2>12. CoveredOK'
    <3> SUFFICES ASSUME Searching PROVE CoveredOK'
      BY <2>6 DEF CoveredOK
    <3>1. \A i \in Below : Covered(frames[i].musts, frames[i].never)'
      BY <1>2, <2>2 DEF NoInv, FramesOK, CoveredOK, Covered
    <3>2. pc \in {"resolve", "options", "try"} => Covered(Top.musts, Top.never)'
      BY <1>2, <2>2 DEF NoInv, FramesOK, CoveredOK, Covered
    <3>3. pc = "main" => Covered(loop.musts \ loop.check, loop.never)'
      BY <1>2, <2>2, <2>3 DEF NoInv, FramesOK, CoveredOK, Covered
    <3>4. pc = "try" => Covered(loop.musts \ (Top.musts \cup loop.check), loop.never)'
      BY <1>2, <2>2, <2>3 DEF NoInv, FramesOK, CoveredOK, Covered
    <3>5. pc # "prune"
      BY <1>2 DEF InLoop
    <3> QED
      BY <1>2, <2>2, <3>1, <3>2, <3>3, <3>4, <3>5 DEF CoveredOK
  <2> QED  BY <2>7, <2>8, <2>9, <2>10, <2>11, <2>12 DEF LoopsOK, FramesOK
<1> QED  BY <1>6, <1>7

(***************************************************************************)
(* The end of a search, or of one of its frames.                           *)
(***************************************************************************)

\* Between the searches there is nothing to say of loops and frames.
LEMMA NotSearching ==
  ASSUME pc' \notin {"essential", "main", "prune", "resolve", "options", "try"}
  PROVE  LoopsOK' /\ FramesOK'
BY DEF LoopsOK, FramesOK, EssentialLoopOK, ClausesOK, TryOK, HopefulOK, CoveredOK, InLoop, Searching

LEMMA ReturnNo ==
  ASSUME NoInv, call \in CheckType, NEW contents, NEW bad, NEW inst, NEW verdict \in BOOLEAN,
         Return(verdict, contents, bad, inst), UNCHANGED <<suite, cache_ess>>,
         \A W \in Possible : bad \cap W = {},
         ~verdict => \A W \in Possible : call.t \notin W
  PROVE  CachesOK' /\ LoopsOK' /\ FramesOK'
<1> DEFINE eqv == IF call.method = "compute" /\ Cardinality(Equivalents[call.t]) > 1
                  THEN Equivalents[call.t] \cap contents ELSE {}
<1>1. /\ pc' = "idle"
      /\ cache_broken' = IF verdict THEN bad ELSE bad \cup eqv
      /\ IF call.method = "compute" THEN UNCHANGED <<call, answer>>
         ELSE call' = NoCall /\ answer' = [of |-> {call.t}, verdict |-> verdict]
  BY DEF Return
<1>2. Possible' = Possible
  BY PossibleKept
<1>3. ASSUME NEW W \in Possible PROVE cache_broken' \cap W = {}
  <2>1. CASE verdict
    BY <1>1, <1>3, <2>1
  <2>2. CASE ~verdict
    <3>1. ASSUME NEW e \in eqv, e \in W PROVE FALSE
      <4>1. e \in Equivalents[call.t] /\ call.t \in Package
        BY <3>1 DEF CheckType
      <4>2. call.t \in Alike(e)
        BY <4>1, AlikeFacts DEF Alike
      <4> QED  BY <2>2, <3>1, <4>2, PossibleFacts
    <3> HIDE DEF eqv
    <3> QED  BY <1>1, <1>3, <2>2, <3>1
  <2> QED  BY <2>1, <2>2
<1>4. BrokenOK'
  BY <1>2, <1>3 DEF BrokenOK
<1>5. AnswerOK'
  <2>1. CASE UNCHANGED answer
    BY <1>2, <2>1 DEF NoInv, CachesOK, AnswerOK
  <2>2. CASE answer' = [of |-> {call.t}, verdict |-> verdict]
    BY <1>2, <2>2 DEF AnswerOK
  <2> QED  BY <1>1, <2>1, <2>2
<1>6. EssentialOK'
  BY <1>1, <1>2 DEF NoInv, CachesOK, EssentialOK, Meets
<1> QED  BY <1>1, <1>4, <1>5, <1>6, NotSearching DEF CachesOK

LEMMA SearchFacts ==
  ASSUME NoInv, Searching
  PROVE  /\ call \in CheckType /\ frames \in Seq(FrameType) /\ frames # <<>>
         /\ Top \in FrameType /\ Len(frames) \in Nat \ {0}
         /\ \A i \in Below : frames[i] \in FrameType
         /\ BrokenOK /\ ContentsInSync /\ pc # "KeyError"
<1>1. call \in CheckType /\ frames \in Seq(FrameType) /\ frames # <<>>
  BY DEF NoInv, Inv, TypeOK, SearchOK, Searching
<1>2. Top \in FrameType /\ Len(frames) \in Nat \ {0}
  BY <1>1, TopTypes
<1>3. \A i \in Below : frames[i] \in FrameType
  BY <1>1, <1>2 DEF Below
<1> QED  BY <1>1, <1>2, <1>3 DEF NoInv, CachesOK, Searching

LEMMA SucceedNo ==
  ASSUME NoInv, Searching, NEW musts, Succeed(musts), UNCHANGED <<suite, cache_ess>>
  PROVE  CachesOK' /\ LoopsOK' /\ FramesOK'
BY SearchFacts, ReturnNo DEF Succeed, BrokenOK

\* A frame that gives up goes back to one that excludes the option it tried.
LEMMA FailNo ==
  ASSUME NoInv, Searching, Fail, UNCHANGED <<suite, cache_ess>>,
         \A W \in Possible : ~FitsTop(W)
  PROVE  CachesOK' /\ LoopsOK' /\ FramesOK'
<1>1. HopefulOK /\ CoveredOK /\ BrokenOK
  BY DEF NoInv, FramesOK, CachesOK
<1>2. CASE Len(frames) = 1
  <2>1. Below = {}
    BY <1>2 DEF Below
  <2>2. ~Hopeful
    BY <2>1 DEF Hopeful
  <2>3. \A W \in Possible : call.t \notin W
    BY <1>1, <2>2 DEF HopefulOK
  <2> QED
    BY <1>1, <1>2, <2>3, SearchFacts, ReturnNo DEF Fail, BrokenOK
<1>3. CASE Len(frames) # 1
  <2> DEFINE n == Len(frames) - 1
             rest == SubSeq(frames, 1, n)
             caller == frames[n]
             back == [caller EXCEPT !.never = NeverAgain(caller)]
  <2>1. n \in Nat /\ n >= 1 /\ Below = 1 .. n
    <3>1. Len(frames) \in Nat \ {0, 1}
      BY <1>3, SearchFacts
    <3>2. ASSUME NEW k \in Nat \ {0, 1} PROVE k - 1 \in Nat /\ k - 1 >= 1
      OBVIOUS
    <3>4. n \in Nat /\ n >= 1
      BY <3>1, <3>2
    <3>3. Below = 1 .. n
      BY DEF Below
    <3> QED  BY <3>3, <3>4
  <2>2. /\ rest \in Seq(FrameType) /\ Len(rest) = n
        /\ \A i \in 1 .. n : rest[i] = frames[i]
    <3>1. frames \in Seq(FrameType) /\ \A i \in 1 .. n : frames[i] \in FrameType
      BY <2>1, SearchFacts
    <3> HIDE DEF n
    <3>2. rest = [i \in 1 .. n |-> frames[i]]
      BY <2>1, <3>1
    <3> QED  BY <2>1, <3>1, <3>2
  <2>3. caller \in FrameType /\ n \in Below
    BY <2>1, SearchFacts
  <2>4. /\ frames' = [rest EXCEPT ![n] = [rest[n] EXCEPT !.never = NeverAgain(caller)]]
        /\ pc' = "options" /\ loop' = NoLoop
        /\ UNCHANGED <<suite_contents, cache_broken, cache_inst, call, answer>>
    BY <1>3 DEF Fail
  <2> HIDE DEF n, rest
  <2>5. frames' = [rest EXCEPT ![n] = back]
    <3>1. rest[n] = caller
      BY <2>1, <2>2
    <3> QED  BY <2>4, <3>1
  <2>6. /\ back.never = caller.never \cup caller.tried
        /\ back.musts = caller.musts /\ back.check = caller.check
        /\ back.choices = caller.choices /\ back.rebuild = caller.rebuild
        /\ back.options = caller.options /\ back.last = caller.last
    BY <2>3 DEF FrameType, NeverAgain
  <2> HIDE DEF back
  <2>7. Len(frames') = n /\ frames'[n] = back /\ \A i \in 1 .. n - 1 : frames'[i] = frames[i]
    BY <2>1, <2>2, <2>5
  <2>8. Top' = back /\ Below' = 1 .. n - 1 /\ Below' \subseteq Below
    BY <2>1, <2>7 DEF Top, Below
  <2>9. Possible' = Possible
    BY PossibleKept
  <2>10. CachesOK'
    BY <2>4, CachesKept DEF NoInv
  <2>11. LoopsOK'
    BY <2>4 DEF LoopsOK, EssentialLoopOK, ClausesOK, TryOK, InLoop
  <2>12. ASSUME NEW W \in Possible, FitsWaiting(W, caller)
         PROVE  FitsTop(W)'
    BY <2>4, <2>6, <2>8, <2>12 DEF FitsWaiting, HasOption, Fits, FitsTop, Meets
  <2>13. HopefulOK'
    <3> SUFFICES ASSUME NEW V \in Possible, call.t \in V PROVE Hopeful'
      BY <2>4, <2>9 DEF HopefulOK
    <3>1. PICK W \in Possible : \E i \in Below : FitsWaiting(W, frames[i])
      BY <1>1 DEF HopefulOK, Hopeful
    <3>2. PICK i \in Below : FitsWaiting(W, frames[i])
      BY <3>1
    <3>3. CASE i = n
      BY <2>9, <2>12, <3>2, <3>3 DEF Hopeful
    <3>4. CASE i # n
      <4>1. i \in Below' /\ frames'[i] = frames[i]
        BY <2>1, <2>7, <2>8, <3>4
      <4>2. FitsWaiting(W, frames[i])'
        BY <3>2, <4>1 DEF FitsWaiting, HasOption, Fits, Meets
      <4> QED  BY <2>9, <4>1, <4>2 DEF Hopeful
    <3> QED  BY <3>3, <3>4
  <2>14. CoveredOK'
    <3>1. \A i \in Below : Covered(frames[i].musts, frames[i].never)
      BY <1>1 DEF CoveredOK
    <3>2. ASSUME NEW i \in Below' PROVE Covered(frames[i].musts, frames[i].never)'
      <4>1. frames'[i] = frames[i] /\ i \in Below
        BY <2>7, <2>8, <3>2
      <4>2. Covered(frames[i].musts, frames[i].never)
        BY <3>1, <4>1
      <4> QED  BY <2>4, <4>1, <4>2 DEF Covered
    <3>3. Covered(Top.musts, Top.never)'
      <4>1. Covered(caller.musts, caller.never)
        BY <2>3, <3>1
      <4> QED  BY <2>4, <2>6, <2>8, <4>1 DEF Covered
    <3> QED  BY <2>4, <3>2, <3>3 DEF CoveredOK
  <2> QED  BY <2>10, <2>11, <2>13, <2>14 DEF FramesOK
<1> QED  BY <1>2, <1>3

(***************************************************************************)
(* Steps that change the frame at the top.                                 *)
(***************************************************************************)

LEMMA TopChanges ==
  ASSUME frames \in Seq(FrameType), frames # <<>>, NEW f \in FrameType, frames' = WithTop(f)
  PROVE  Top' = f /\ Below' = Below /\ \A i \in Below : frames'[i] = frames[i]
<1> DEFINE n == Len(frames)
<1>1. n \in Nat \ {0} /\ frames \in [1 .. n -> FrameType]
  BY TopTypes
<1>2. frames' = [frames EXCEPT ![n] = f]
  BY DEF WithTop
<1>3. Len(frames') = n /\ n \in 1 .. n
  BY <1>1, <1>2
<1>4. frames'[n] = f /\ \A i \in 1 .. n : i # n => frames'[i] = frames[i]
  BY <1>1, <1>2, <1>3
<1>5. Top' = f
  BY <1>3, <1>4 DEF Top
<1>6. Below' = Below
  BY <1>3 DEF Below
<1>7. \A i \in Below : i \in 1 .. n /\ i # n
  <2>1. \A k \in Nat \ {0} : \A i \in 1 .. k - 1 : i \in 1 .. k /\ i # k
    OBVIOUS
  <2> QED  BY <1>1, <2>1 DEF Below
<1> QED  BY <1>4, <1>5, <1>6, <1>7

\* The caches stay as they are, and so do the frames below.
LEMMA TopStep ==
  ASSUME NoInv, Searching, Searching', NEW f \in FrameType, frames' = WithTop(f),
         UNCHANGED <<suite, suite_contents, cache_broken, cache_ess, call, answer>>,
         \A W \in Possible : FitsTop(W) => FitsTop(W)'
  PROVE  /\ CachesOK' /\ HopefulOK' /\ Top' = f /\ Possible' = Possible
         /\ \A i \in Below' : Covered(frames[i].musts, frames[i].never)'
<1>1. Top' = f /\ Below' = Below /\ \A i \in Below : frames'[i] = frames[i]
  BY SearchFacts, TopChanges
<1>2. CachesOK' /\ Possible' = Possible
  BY CachesKept, PossibleKept DEF NoInv, Searching
<1>3. ASSUME NEW i \in Below', NEW W, FitsWaiting(W, frames[i])
      PROVE  FitsWaiting(W, frames[i])'
  <2>1. frames'[i] = frames[i]
    BY <1>1, <1>3
  <2> QED  BY <1>3, <2>1 DEF FitsWaiting, HasOption, Fits, Meets
<1>4. HopefulOK'
  <2>1. Hopeful => Hopeful'
    BY <1>1, <1>2, <1>3 DEF Hopeful
  <2> QED  BY <1>2, <2>1 DEF HopefulOK, NoInv, FramesOK
<1>5. ASSUME NEW i \in Below' PROVE Covered(frames[i].musts, frames[i].never)'
  <2>1. frames'[i] = frames[i] /\ Covered(frames[i].musts, frames[i].never)
    BY <1>1, <1>5 DEF NoInv, FramesOK, CoveredOK
  <2> QED  BY <2>1 DEF Covered
<1> QED  BY <1>1, <1>2, <1>4, <1>5

LEMMA TopFields ==
  ASSUME NoInv, Searching
  PROVE  /\ Top.musts \in SUBSET Package /\ Top.never \in SUBSET Package
         /\ Top.choices \in SUBSET SUBSET Package /\ Top.check \in SUBSET Package
         /\ Top.rebuild \in SUBSET SUBSET Package /\ Top.options \in SUBSET Package
         /\ Top.last \in SUBSET Package /\ Top.tried \in SUBSET Package
<1>1. Top \in FrameType
  BY SearchFacts
<1> QED  BY <1>1 DEF FrameType

LEMMA MainLoopNo ==
  ASSUME NoInv, MainLoopEnds
  PROVE  CachesOK' /\ LoopsOK' /\ FramesOK'
<1>1. pc = "main" /\ LoopEnded /\ UNCHANGED <<suite, cache_ess>> /\ Searching
  BY DEF MainLoopEnds, Searching
<1>2. loop \in LoopType
  BY <1>1, LoopTypes DEF NoInv, InLoop
<1>3. CASE loop.failed
  <2>1. Fail
    BY <1>3 DEF MainLoopEnds
  <2>2. \A W \in Possible : ~FitsTop(W)
    BY <1>1, <1>3 DEF FitsTop, FitsLoop
  <2> QED  BY <1>1, <2>1, <2>2, FailNo
<1>4. CASE ~loop.failed /\ loop.choices = {}
  BY <1>1, <1>4, SucceedNo DEF MainLoopEnds
<1>5. CASE ~loop.failed /\ loop.choices # {}
  <2> DEFINE f == Frame(loop.musts, loop.never, loop.choices, {})
  <2>1. /\ frames' = WithTop(f) /\ pc' = "prune" /\ loop' = NoLoop
        /\ UNCHANGED <<suite_contents, cache_broken, cache_inst, call, answer>>
    BY <1>5 DEF MainLoopEnds
  <2>2. f \in FrameType
    BY <1>1, <1>2, LoopTypes, FrameTypes DEF NoInv, InLoop
  <2>3. /\ f.musts = loop.musts /\ f.never = loop.never /\ f.choices = loop.choices
        /\ f.check = {} /\ f.rebuild = {}
    BY DEF Frame
  <2> HIDE DEF f
  <2>4. Top' = f
    BY <1>1, <2>1, <2>2, TopChanges, SearchFacts
  <2>5. ASSUME NEW W \in Possible, FitsTop(W) PROVE FitsTop(W)'
    <3>1. FitsLoop(W)
      BY <1>1, <2>5 DEF FitsTop
    <3> QED  BY <2>1, <2>3, <2>4, <3>1 DEF FitsTop, FitsLoop, Fits, Meets
  <2>6. /\ CachesOK' /\ HopefulOK'
        /\ \A i \in Below' : Covered(frames[i].musts, frames[i].never)'
    BY <1>1, <2>1, <2>2, <2>5, TopStep DEF Searching
  <2>7. Covered(Top.musts \ Top.check, Top.never)'
    <3>1. loop.check = {} /\ Covered(loop.musts \ loop.check, loop.never)
      BY <1>1, <1>5 DEF LoopEnded, NoInv, FramesOK, CoveredOK
    <3> QED  BY <2>1, <2>3, <2>4, <3>1 DEF Covered
  <2>8. LoopsOK'
    BY <2>1 DEF LoopsOK, EssentialLoopOK, ClausesOK, TryOK, InLoop
  <2> QED  BY <2>1, <2>6, <2>7, <2>8 DEF FramesOK, CoveredOK
<1> QED  BY <1>3, <1>4, <1>5

LEMMA PruneNo ==
  ASSUME NoInv, Prune
  PROVE  CachesOK' /\ LoopsOK' /\ FramesOK'
<1>1. pc = "prune" /\ UNCHANGED <<suite, cache_ess>> /\ Searching
  BY DEF Prune, Searching
<1>2. PICK choice \in Top.choices :
        LET remain == (choice \ Top.never) \ cache_broken
        IN  IF choice \cap Top.musts = {} /\ remain = {} THEN Fail
            ELSE /\ frames' = WithTop(WithoutChoice(Top, choice, remain))
                 /\ UNCHANGED <<suite_contents, cache_broken, cache_inst, call, pc, loop, answer>>
  BY Zenon DEF Prune
<1> DEFINE remain == (choice \ Top.never) \ cache_broken
<1>3. ASSUME NEW W \in Possible, FitsTop(W)
      PROVE  Fits(W, Top) /\ remain \cap W # {}
  <2>1. Fits(W, Top)
    BY <1>1, <1>3 DEF FitsTop
  <2>2. choice \cap W # {} /\ Top.never \cap W = {}
    BY <2>1 DEF Fits, Meets
  <2>3. cache_broken \cap W = {}
    BY DEF NoInv, CachesOK, BrokenOK
  <2> QED  BY <2>1, <2>2, <2>3
<1>4. remain \in SUBSET Package
  BY <1>1, TopFields
<1> HIDE DEF remain
<1>5. CASE choice \cap Top.musts = {} /\ remain = {}
  <2>1. Fail
    BY <1>2, <1>5 DEF remain
  <2> QED  BY <1>1, <1>3, <1>5, <2>1, FailNo
<1>6. CASE ~(choice \cap Top.musts = {} /\ remain = {})
  <2> DEFINE f == WithoutChoice(Top, choice, remain)
  <2>1. /\ frames' = WithTop(f)
        /\ UNCHANGED <<suite_contents, cache_broken, cache_inst, call, pc, loop, answer>>
    BY <1>2, <1>6 DEF remain
  <2>2. /\ f \in FrameType /\ f.never = Top.never
        /\ f.choices \subseteq Top.choices
        /\ f.musts \ f.check \subseteq Top.musts \ Top.check
        /\ \/ f.check = Top.check /\ f.rebuild = Top.rebuild
           \/ f.check = Top.check \cup remain /\ f.rebuild = Top.rebuild /\ Cardinality(remain) = 1
           \/ f.check = Top.check /\ f.rebuild = Top.rebuild \cup {remain}
    <3>1. Top \in FrameType
      BY <1>1, SearchFacts
    <3>2. /\ Top.choices \ {choice} \in SUBSET SUBSET Package
          /\ Top.check \cup remain \in SUBSET Package /\ Top.musts \cup remain \in SUBSET Package
          /\ Top.rebuild \cup {remain} \in SUBSET SUBSET Package
      BY <1>1, <1>4, TopFields
    <3>3. CASE f = [Top EXCEPT !.choices = @ \ {choice}]
      BY <3>1, <3>2, <3>3 DEF FrameType
    <3>4. CASE /\ Cardinality(remain) = 1
               /\ f = [Top EXCEPT !.choices = @ \ {choice}, !.check = @ \cup remain,
                                  !.musts = @ \cup remain]
      BY <3>1, <3>2, <3>4 DEF FrameType
    <3>5. CASE f = [Top EXCEPT !.choices = @ \ {choice}, !.rebuild = @ \cup {remain}]
      BY <3>1, <3>2, <3>5 DEF FrameType
    <3> QED  BY <3>3, <3>4, <3>5 DEF WithoutChoice
  <2> HIDE DEF f
  <2>3. Top' = f
    BY <1>1, <2>1, <2>2, TopChanges, SearchFacts
  <2>4. Cardinality(remain) = 1 => \E e : remain = {e}
    <3>1. IsFiniteSet(remain)
      BY <1>4, UniverseAssumption, FS_Subset
    <3> QED  BY <3>1, FS_Singleton
  <2>5. ASSUME NEW W \in Possible, FitsTop(W) PROVE FitsTop(W)'
    <3>1. Fits(W, Top) /\ remain \cap W # {}
      BY <1>3, <2>5
    <3>2. Cardinality(remain) = 1 => remain \subseteq W
      BY <2>4, <3>1
    <3>3. Fits(W, f)
      BY <2>2, <3>1, <3>2 DEF Fits, Meets
    <3> QED  BY <1>1, <2>1, <2>3, <3>3 DEF FitsTop, Fits, Meets
  <2>6. /\ CachesOK' /\ HopefulOK'
        /\ \A i \in Below' : Covered(frames[i].musts, frames[i].never)'
    BY <1>1, <2>1, <2>2, <2>5, TopStep DEF Searching
  <2>7. Covered(Top.musts \ Top.check, Top.never)'
    BY <1>1, <2>1, <2>2, <2>3 DEF Covered, NoInv, FramesOK, CoveredOK
  <2>8. LoopsOK'
    BY <1>1, <2>1 DEF LoopsOK, EssentialLoopOK, ClausesOK, TryOK, InLoop
  <2> QED  BY <1>1, <2>1, <2>6, <2>7, <2>8 DEF FramesOK, CoveredOK
<1> QED  BY <1>5, <1>6

LEMMA PrunedNo ==
  ASSUME NoInv, Pruned
  PROVE  CachesOK' /\ LoopsOK' /\ FramesOK'
<1> DEFINE f == Frame(Top.musts, Top.never, Top.rebuild, Top.check)
<1>1. pc = "prune" /\ Top.choices = {} /\ UNCHANGED <<suite, cache_ess>> /\ Searching
  BY DEF Pruned, Searching
<1>2. /\ f.musts = Top.musts /\ f.never = Top.never /\ f.choices = Top.rebuild
      /\ f.check = Top.check /\ f.rebuild = {}
      /\ LoopOf(f) = Loop(Top.musts, Top.never, Top.rebuild, Top.check)
  BY DEF Frame, LoopOf
<1>3. f \in FrameType
  BY <1>1, TopFields, FrameTypes
<1>4. CASE f.check = {} /\ f.choices = {}
  BY <1>1, <1>4, SucceedNo DEF Pruned
<1>5. CASE ~(f.check = {} /\ f.choices = {})
  <2>1. /\ frames' = WithTop(f)
        /\ IF f.check = {} THEN pc' = "resolve" /\ loop' = NoLoop
           ELSE pc' = "main" /\ loop' = LoopOf(f)
        /\ UNCHANGED <<suite_contents, cache_broken, cache_inst, call, answer>>
    BY <1>5 DEF Pruned
  <2> HIDE DEF f
  <2>2. /\ LoopOf(f).musts = Top.musts /\ LoopOf(f).never = Top.never
        /\ LoopOf(f).choices = Top.rebuild /\ LoopOf(f).check = Top.check
        /\ LoopOf(f).dependencies = {} /\ ~LoopOf(f).failed
    BY <1>2 DEF Loop
  <2>3. Top' = f
    BY <1>1, <1>3, <2>1, TopChanges, SearchFacts
  <2>4. ASSUME NEW W \in Possible, FitsTop(W) PROVE FitsTop(W)'
    <3>1. Fits(W, Top)
      BY <1>1, <2>4 DEF FitsTop
    <3>2. CASE f.check = {}
      BY <1>2, <2>1, <2>3, <3>1, <3>2 DEF FitsTop, Fits, Meets
    <3>3. CASE f.check # {}
      BY <2>1, <2>2, <3>1, <3>3 DEF FitsTop, FitsLoop, Fits, Meets
    <3> QED  BY <3>2, <3>3
  <2>5. /\ CachesOK' /\ HopefulOK'
        /\ \A i \in Below' : Covered(frames[i].musts, frames[i].never)'
    BY <1>1, <1>3, <2>1, <2>4, TopStep DEF Searching
  <2>6. Covered(Top.musts \ Top.check, Top.never)
    BY <1>1 DEF NoInv, FramesOK, CoveredOK
  <2>7. CASE f.check = {}
    <3>1. Covered(Top.musts, Top.never)'
      BY <1>2, <2>1, <2>3, <2>6, <2>7 DEF Covered
    <3>2. LoopsOK'
      BY <2>1, <2>7 DEF LoopsOK, EssentialLoopOK, ClausesOK, TryOK, InLoop
    <3> QED  BY <2>1, <2>5, <2>7, <3>1, <3>2 DEF FramesOK, CoveredOK
  <2>8. CASE f.check # {}
    <3>1. Covered(loop.musts \ loop.check, loop.never)'
      BY <2>1, <2>2, <2>6, <2>8 DEF Covered
    <3>2. LoopsOK'
      BY <2>1, <2>2, <2>8 DEF LoopsOK, EssentialLoopOK, ClausesOK, TryOK, InLoop
    <3> QED  BY <2>1, <2>5, <2>8, <3>1, <3>2 DEF FramesOK, CoveredOK
  <2> QED  BY <2>7, <2>8
<1> QED  BY <1>4, <1>5

LEMMA ResolveNo ==
  ASSUME NoInv, ResolveChoice
  PROVE  CachesOK' /\ LoopsOK' /\ FramesOK'
<1>1. pc = "resolve" /\ UNCHANGED <<suite, cache_ess>> /\ Searching
  BY DEF ResolveChoice, Searching
<1>2. CASE Top.choices = {}
  BY <1>1, <1>2, SucceedNo DEF ResolveChoice
<1>3. CASE Top.choices # {}
  <2>1. PICK choice \in Top.choices : \E last \in choice :
          frames' = WithTop([Top EXCEPT !.choices = @ \ {choice},
                                        !.options = choice \ {last}, !.last = {last}])
    BY <1>3 DEF ResolveChoice
  <2>2. PICK last \in choice :
          frames' = WithTop([Top EXCEPT !.choices = @ \ {choice},
                                        !.options = choice \ {last}, !.last = {last}])
    BY <2>1
  <2> DEFINE f == [Top EXCEPT !.choices = @ \ {choice},
                              !.options = choice \ {last}, !.last = {last}]
  <2>3. /\ pc' = "options"
        /\ UNCHANGED <<loop, call, answer, suite_contents, cache_broken, cache_inst>>
    BY <1>3 DEF ResolveChoice
  <2>4. /\ Top.choices \ {choice} \in SUBSET SUBSET Package
        /\ choice \ {last} \in SUBSET Package /\ {last} \in SUBSET Package
    BY <1>1, TopFields
  <2>5. /\ f \in FrameType /\ f.musts = Top.musts /\ f.never = Top.never
        /\ f.check = Top.check /\ f.rebuild = Top.rebuild
        /\ f.choices = Top.choices \ {choice} /\ f.options = choice \ {last} /\ f.last = {last}
    <3>1. Top \in FrameType
      BY <1>1, SearchFacts
    <3> QED  BY <2>4, <3>1 DEF FrameType
  <2>6. frames' = WithTop(f)
    BY <2>2
  <2> HIDE DEF f
  <2>7. Top' = f
    BY <1>1, <2>5, <2>6, TopChanges, SearchFacts
  <2>8. ASSUME NEW W \in Possible, FitsTop(W) PROVE FitsTop(W)'
    <3>1. Fits(W, Top)
      BY <1>1, <2>8 DEF FitsTop
    <3>2. Fits(W, f) /\ HasOption(W, f)
      BY <2>5, <3>1 DEF Fits, Meets, HasOption
    <3> QED  BY <2>3, <2>7, <3>2 DEF FitsTop, Fits, Meets, HasOption
  <2>9. /\ CachesOK' /\ HopefulOK'
        /\ \A i \in Below' : Covered(frames[i].musts, frames[i].never)'
    BY <1>1, <2>3, <2>5, <2>6, <2>8, TopStep DEF Searching
  <2>10. Covered(Top.musts, Top.never)'
    BY <1>1, <2>3, <2>5, <2>7 DEF Covered, NoInv, FramesOK, CoveredOK
  <2>11. LoopsOK'
    BY <2>3 DEF LoopsOK, EssentialLoopOK, ClausesOK, TryOK, InLoop
  <2> QED  BY <2>3, <2>9, <2>10, <2>11 DEF FramesOK, CoveredOK
<1> QED  BY <1>2, <1>3

LEMMA TryOptionNo ==
  ASSUME NoInv, TryOption
  PROVE  CachesOK' /\ LoopsOK' /\ FramesOK'
<1>1. /\ pc = "options" /\ UNCHANGED <<suite, suite_contents, caches, call, answer>>
      /\ Searching
  BY DEF TryOption, Searching
<1>2. /\ UNCHANGED <<suite, suite_contents, cache_broken, cache_ess, call, answer>>
      /\ Possible' = Possible
  BY <1>1, PossibleKept DEF caches
<1>3. Covered(Top.musts, Top.never)
  BY <1>1 DEF NoInv, FramesOK, CoveredOK
<1>4. CASE Top.options = {}
  <2> DEFINE f == Frame(Top.musts \cup Top.last, Top.never, Top.choices, Top.last)
  <2>1. frames' = WithTop(f) /\ pc' = "main" /\ loop' = LoopOf(f)
    BY <1>4 DEF TryOption
  <2>2. /\ f.musts = Top.musts \cup Top.last /\ f.never = Top.never /\ f.choices = Top.choices
        /\ f.check = Top.last
    BY DEF Frame
  <2>3. f \in FrameType
    BY <1>1, TopFields, FrameTypes
  <2> HIDE DEF f
  <2>4. /\ loop'.musts = Top.musts \cup Top.last /\ loop'.never = Top.never
        /\ loop'.choices = Top.choices /\ loop'.check = Top.last
        /\ loop'.dependencies = {} /\ ~loop'.failed
    BY <2>1, <2>2 DEF LoopOf, Loop
  <2>5. ASSUME NEW W \in Possible, FitsTop(W) PROVE FitsTop(W)'
    <3>1. Fits(W, Top) /\ HasOption(W, Top)
      BY <1>1, <2>5 DEF FitsTop
    <3> QED  BY <1>4, <2>1, <2>4, <3>1 DEF FitsTop, FitsLoop, Fits, HasOption, Meets
  <2>6. /\ CachesOK' /\ HopefulOK'
        /\ \A i \in Below' : Covered(frames[i].musts, frames[i].never)'
    BY <1>1, <1>2, <2>1, <2>3, <2>5, TopStep DEF Searching
  <2>7. Covered(loop.musts \ loop.check, loop.never)'
    BY <1>2, <1>3, <2>4 DEF Covered
  <2>8. LoopsOK'
    BY <2>1, <2>4 DEF LoopsOK, EssentialLoopOK, ClausesOK, TryOK, InLoop
  <2> QED  BY <2>1, <2>6, <2>7, <2>8 DEF FramesOK, CoveredOK
<1>5. CASE Top.options # {}
  <2>1. PICK p \in Top.options :
          /\ frames' = WithTop([Top EXCEPT !.options = OptionsLeft(@, p), !.tried = {p}])
          /\ pc' = "try"
          /\ loop' = Loop(Top.musts \cup {p}, {}, {}, {p})
    BY <1>5 DEF TryOption
  <2> DEFINE f == [Top EXCEPT !.options = OptionsLeft(@, p), !.tried = {p}]
  <2>2. p \in Package
    BY <1>1, TopFields
  <2>3. /\ f \in FrameType /\ f.musts = Top.musts /\ f.never = Top.never
        /\ f.check = Top.check /\ f.rebuild = Top.rebuild /\ f.choices = Top.choices
        /\ f.options = Top.options \ {p} /\ f.last = Top.last /\ f.tried = {p}
    <3>1. Top \in FrameType /\ Top.options \ {p} \in SUBSET Package
      BY <1>1, TopFields, SearchFacts
    <3> QED  BY <2>2, <3>1 DEF FrameType, OptionsLeft
  <2>4. frames' = WithTop(f)
    BY <2>1
  <2> HIDE DEF f
  <2>5. Top' = f
    BY <1>1, <2>3, <2>4, TopChanges, SearchFacts
  <2>6. /\ loop'.musts = Top.musts \cup {p} /\ loop'.never = {} /\ loop'.choices = {}
        /\ loop'.check = {p} /\ loop'.dependencies = {} /\ ~loop'.failed
    BY <2>1 DEF Loop
  <2>7. ASSUME NEW W \in Possible, FitsTop(W) PROVE FitsTop(W)'
    <3>1. Fits(W, Top) /\ HasOption(W, Top)
      BY <1>1, <2>7 DEF FitsTop
    <3>2. Fits(W, f) /\ (HasOption(W, f) \/ f.tried \subseteq W)
      BY <2>3, <3>1 DEF Fits, Meets, HasOption
    <3> QED  BY <2>1, <2>5, <3>2 DEF FitsTop, Fits, Meets, HasOption
  <2>8. /\ CachesOK' /\ HopefulOK'
        /\ \A i \in Below' : Covered(frames[i].musts, frames[i].never)'
    BY <1>1, <1>2, <2>1, <2>3, <2>4, <2>7, TopStep DEF Searching
  <2>9. Covered(Top.musts, Top.never)'
    BY <1>2, <1>3, <2>3, <2>5 DEF Covered
  <2>10. Covered(loop.musts \ (Top.musts \cup loop.check), loop.never)'
    BY <2>3, <2>5, <2>6 DEF Covered
  <2>11. TryOK'
    <3>1. ASSUME NEW W \in Possible, {p} \subseteq W PROVE FitsLoop(W)'
      BY <2>6, <3>1 DEF FitsLoop, Meets
    <3> QED  BY <1>2, <2>2, <2>3, <2>5, <2>6, <3>1 DEF TryOK
  <2>12. LoopsOK'
    BY <2>1, <2>6, <2>11 DEF LoopsOK, EssentialLoopOK, ClausesOK
  <2> QED  BY <2>1, <2>8, <2>9, <2>10, <2>12 DEF FramesOK, CoveredOK
<1> QED  BY <1>4, <1>5

\* A recursive call: the top waits for it with the options it has left.
LEMMA Deeper ==
  ASSUME frames \in Seq(FrameType), frames # <<>>, NEW f \in FrameType,
         frames' = Append(frames, f)
  PROVE  /\ Top' = f /\ Below' = Below \cup {Len(frames)} /\ frames'[Len(frames)] = Top
         /\ \A i \in Below : frames'[i] = frames[i]
<1> DEFINE n == Len(frames)
<1>1. n \in Nat \ {0} /\ frames \in [1 .. n -> FrameType]
  BY TopTypes
<1>2. Len(frames') = n + 1 /\ frames'[n + 1] = f /\ \A i \in 1 .. n : frames'[i] = frames[i]
  BY <1>1
<1>3. Top' = f
  BY <1>2 DEF Top
<1>4. \A k \in Nat \ {0} : /\ 1 .. (k + 1) - 1 = (1 .. k - 1) \cup {k} /\ k \in 1 .. k
                           /\ \A i \in 1 .. k - 1 : i \in 1 .. k
  OBVIOUS
<1>5. Below' = Below \cup {n} /\ n \in 1 .. n /\ \A i \in Below : i \in 1 .. n
  BY <1>1, <1>2, <1>4 DEF Below
<1>6. frames'[n] = Top
  BY <1>2, <1>5 DEF Top
<1> QED  BY <1>2, <1>3, <1>5, <1>6

LEMMA TryLoopNo ==
  ASSUME NoInv, TryLoopEnds
  PROVE  CachesOK' /\ LoopsOK' /\ FramesOK'
<1>1. /\ pc = "try" /\ LoopEnded /\ UNCHANGED <<suite, suite_contents, caches, call, answer>>
      /\ Searching
  BY DEF TryLoopEnds, Searching
<1>2. /\ UNCHANGED <<suite, suite_contents, cache_broken, cache_ess, call, answer>>
      /\ Possible' = Possible
  BY <1>1, PossibleKept DEF caches
<1>3. /\ Covered(Top.musts, Top.never)
      /\ ~loop.failed => Covered(loop.musts \ (Top.musts \cup loop.check), loop.never)
      /\ \A i \in Below : Covered(frames[i].musts, frames[i].never)
  BY <1>1 DEF NoInv, FramesOK, CoveredOK
<1>4. PICK p \in Package : Top.tried = {p}
  BY <1>1 DEF NoInv, LoopsOK, TryOK
<1>5. \A W \in Possible : p \in W =>
        FitsLoop(W) /\ loop.never \subseteq UNION {Conflicts[q] : q \in W}
  BY <1>1, <1>4 DEF NoInv, LoopsOK, TryOK
<1>6. ASSUME NEW W \in Possible, FitsTop(W)
      PROVE  Fits(W, Top) /\ (HasOption(W, Top) \/ p \in W)
  BY <1>1, <1>4, <1>6 DEF FitsTop
<1>7. loop \in LoopType
  BY <1>1, LoopTypes DEF NoInv, InLoop
<1>8. ASSUME pc' = "options" /\ loop' = NoLoop /\ UNCHANGED frames,
             \A W \in Possible : Fits(W, Top) => p \notin W
      PROVE  CachesOK' /\ LoopsOK' /\ FramesOK'
  <2>1. Top' = Top /\ WithTop(Top) = frames
    BY <1>1, <1>8, SearchFacts DEF Top, WithTop
  <2>2. ASSUME NEW W \in Possible, FitsTop(W) PROVE FitsTop(W)'
    <3>1. Fits(W, Top) /\ HasOption(W, Top)
      BY <1>6, <1>8, <2>2
    <3> QED  BY <1>8, <2>1, <3>1 DEF FitsTop, Fits, Meets, HasOption
  <2>3. /\ CachesOK' /\ HopefulOK'
        /\ \A i \in Below' : Covered(frames[i].musts, frames[i].never)'
    BY <1>1, <1>2, <1>8, <2>1, <2>2, SearchFacts, TopStep DEF Searching
  <2>4. Covered(Top.musts, Top.never)'
    BY <1>2, <1>3, <2>1 DEF Covered
  <2>5. LoopsOK'
    BY <1>8 DEF LoopsOK, EssentialLoopOK, ClausesOK, TryOK, InLoop
  <2> QED  BY <1>8, <2>3, <2>4, <2>5 DEF FramesOK, CoveredOK
<1>9. CASE loop.failed
  <2>1. pc' = "options" /\ loop' = NoLoop /\ UNCHANGED frames
    BY <1>9 DEF TryLoopEnds
  <2>2. \A W \in Possible : Fits(W, Top) => p \notin W
    BY <1>5, <1>9 DEF FitsLoop
  <2> QED  BY <1>8, <2>1, <2>2
<1>10. CASE ~loop.failed /\ WithoutConsequences
  <2> DEFINE f == Frame(Top.musts \cup loop.musts, Top.never, Top.choices, {})
  <2>1. frames' = WithTop(f) /\ pc' = "resolve" /\ loop' = NoLoop
    BY <1>10 DEF TryLoopEnds
  <2>2. /\ f.musts = Top.musts \cup loop.musts /\ f.never = Top.never
        /\ f.choices = Top.choices /\ f.check = {} /\ f.rebuild = {}
    BY DEF Frame
  <2>3. f \in FrameType
    BY <1>1, <1>7, TopFields, FrameTypes DEF LoopType
  <2> HIDE DEF f
  <2>4. Top' = f
    BY <1>1, <2>1, <2>3, TopChanges, SearchFacts
  <2>5. ASSUME NEW W \in Possible, FitsTop(W) PROVE FitsTop(W)'
    <3>1. Fits(W, f)
      BY <1>6, <2>2, <2>5 DEF Fits, Meets
    <3> QED  BY <2>1, <2>4, <3>1 DEF FitsTop, Fits, Meets
  <2>6. /\ CachesOK' /\ HopefulOK'
        /\ \A i \in Below' : Covered(frames[i].musts, frames[i].never)'
    BY <1>1, <1>2, <2>1, <2>3, <2>5, TopStep DEF Searching
  <2>7. Covered(Top.musts, Top.never)'
    <3>1. loop.check = {} /\ loop.never \subseteq Top.never
      BY <1>1, <1>10 DEF LoopEnded, WithoutConsequences
    <3> QED  BY <1>2, <1>3, <1>10, <2>2, <2>4, <3>1 DEF Covered
  <2>8. LoopsOK'
    BY <2>1 DEF LoopsOK, EssentialLoopOK, ClausesOK, TryOK, InLoop
  <2> QED  BY <2>1, <2>6, <2>7, <2>8 DEF FramesOK, CoveredOK
<1>11. CASE ~loop.failed /\ ~WithoutConsequences /\ Top.musts \cap loop.never # {}
  <2>1. pc' = "options" /\ loop' = NoLoop /\ UNCHANGED frames
    BY <1>11 DEF TryLoopEnds
  <2>2. ASSUME NEW W \in Possible, Fits(W, Top), p \in W PROVE FALSE
    <3>1. PICK r \in Top.musts : r \in loop.never
      BY <1>11
    <3>2. PICK q \in W : r \in Conflicts[q]
      BY <1>5, <2>2, <3>1
    <3>3. Conflicts[r] \cap W \cap suite_contents # {}
      BY <1>1, <2>2, <3>2, SomeConflict, SearchFacts
    <3>4. Conflicts[r] \cap suite_contents \subseteq Top.never /\ Top.never \cap W = {}
      BY <1>3, <2>2, <3>1 DEF Covered, Fits
    <3> QED  BY <3>3, <3>4
  <2> QED  BY <1>8, <2>1, <2>2
<1>12. CASE ~loop.failed /\ ~WithoutConsequences /\ Top.musts \cap loop.never = {}
  <2> DEFINE f == Frame(loop.musts, loop.never \cup Top.never,
                        loop.choices \cup Top.choices, Top.tried)
  <2>1. frames' = Append(frames, f) /\ pc' = "main" /\ loop' = LoopOf(f)
    BY <1>12 DEF TryLoopEnds
  <2>2. /\ f.musts = loop.musts /\ f.never = loop.never \cup Top.never
        /\ f.choices = loop.choices \cup Top.choices /\ f.check = {p}
    BY <1>4 DEF Frame
  <2>3. f \in FrameType
    BY <1>1, <1>7, TopFields, FrameTypes DEF LoopType
  <2> HIDE DEF f
  <2>4. /\ Top' = f /\ Below' = Below \cup {Len(frames)} /\ frames'[Len(frames)] = Top
        /\ \A i \in Below : frames'[i] = frames[i]
    BY <1>1, <2>1, <2>3, Deeper, SearchFacts
  <2>5. /\ loop'.musts = loop.musts /\ loop'.never = loop.never \cup Top.never
        /\ loop'.choices = loop.choices \cup Top.choices /\ loop'.check = {p}
        /\ loop'.dependencies = {} /\ ~loop'.failed
    BY <2>1, <2>2 DEF LoopOf, Loop
  <2>6. CachesOK'
    BY <1>2, <2>1, CachesKept DEF NoInv
  <2>7. ASSUME NEW W \in Possible, FitsTop(W)
        PROVE  FitsTop(W)' \/ \E i \in Below' : FitsWaiting(W, frames[i])'
    <3>1. Fits(W, Top) /\ (HasOption(W, Top) \/ p \in W)
      BY <1>6, <2>7
    <3>2. CASE p \in W
      <4>1. FitsLoop(W)
        BY <1>5, <3>2
      <4> QED  BY <2>1, <2>5, <3>1, <3>2, <4>1 DEF FitsTop, FitsLoop, Fits, Meets
    <3>3. CASE p \notin W
      <4>1. FitsWaiting(W, Top)
        BY <1>4, <3>1, <3>3 DEF FitsWaiting
      <4>2. PICK n : n = Len(frames)
        OBVIOUS
      <4>3. n \in Below' /\ frames'[n] = Top
        BY <2>4, <4>2
      <4>4. FitsWaiting(W, frames[n])'
        BY <4>1, <4>3 DEF FitsWaiting, Fits, HasOption, Meets
      <4> QED  BY <4>3, <4>4
    <3> QED  BY <3>2, <3>3
  <2>8. ASSUME NEW W \in Possible, NEW i \in Below, FitsWaiting(W, frames[i])
        PROVE  i \in Below' /\ FitsWaiting(W, frames[i])'
    BY <2>4, <2>8 DEF FitsWaiting, Fits, HasOption, Meets
  <2>9. HopefulOK'
    <3>1. Hopeful => Hopeful'
      BY <1>2, <2>7, <2>8 DEF Hopeful
    <3> QED  BY <1>1, <1>2, <3>1 DEF HopefulOK, NoInv, FramesOK
  <2>10. ASSUME NEW i \in Below' PROVE Covered(frames[i].musts, frames[i].never)'
    <3>1. CASE i = Len(frames)
      BY <1>2, <1>3, <2>4, <3>1 DEF Covered
    <3>2. CASE i \in Below
      <4>1. frames'[i] = frames[i] /\ Covered(frames[i].musts, frames[i].never)
        BY <1>3, <2>4, <3>2
      <4> QED  BY <1>2, <4>1 DEF Covered
    <3> QED  BY <2>4, <3>1, <3>2
  <2>11. Covered(loop.musts \ loop.check, loop.never)'
    <3>1. loop.check = {}
      BY <1>1, <1>12 DEF LoopEnded
    <3>2. ASSUME NEW r \in loop.musts
          PROVE  Conflicts[r] \cap suite_contents \subseteq loop.never \cup Top.never
      BY <1>3, <1>12, <3>1 DEF Covered
    <3> QED  BY <1>2, <2>5, <3>2 DEF Covered
  <2>12. LoopsOK'
    BY <2>1, <2>5 DEF LoopsOK, EssentialLoopOK, ClausesOK, TryOK
  <2> QED  BY <2>1, <2>6, <2>9, <2>10, <2>11, <2>12 DEF FramesOK, CoveredOK
<1> QED  BY <1>9, <1>10, <1>11, <1>12

(***************************************************************************)
(* The essential set, and the beginning of a search.                       *)
(***************************************************************************)

LEMMA EssentialLoopNo ==
  ASSUME NoInv, EssentialLoopEnds
  PROVE  CachesOK' /\ LoopsOK' /\ FramesOK'
<1> DEFINE left == Unsatisfied(loop.choices, loop.musts)
           settled == {choice \in left : \E c \in choice : Settles(c)}
<1>1. /\ pc = "essential" /\ loop \in LoopType
      /\ UNCHANGED <<suite, suite_contents, cache_broken, cache_inst, call, frames, answer>>
  BY DEF EssentialLoopEnds, NoInv, Inv, SearchOK, InLoop
<1>2. /\ loop.never \subseteq UNION {Conflicts[p] : p \in loop.musts}
      /\ \A c \in loop.check : c \in loop.musts \/ Settles(c)
      /\ \A W \in Possible : loop.musts \subseteq W /\ Meets(loop.choices, W)
  BY <1>1 DEF NoInv, LoopsOK, EssentialLoopOK
<1>3. PICK picked \in [settled -> Package] :
        /\ \A choice \in settled : picked[choice] \in choice /\ Settles(picked[choice])
        /\ LET base == loop.check \cup {picked[choice] : choice \in settled}
           IN  IF loop.choices # {} /\ base # {}
               THEN /\ loop' = Loop(loop.musts, loop.never, left \ settled, base)
                    /\ UNCHANGED <<pc, cache_ess>>
               ELSE /\ cache_ess' = [start |-> loop.musts,
                                     never |-> loop.never \cup UNION {Conflicts[p] : p \in loop.musts},
                                     choices |-> left \ settled]
                    /\ pc' = "enter" /\ loop' = NoLoop
  BY Zenon DEF EssentialLoopEnds
<1> DEFINE base == loop.check \cup {picked[choice] : choice \in settled}
<1>4. left \ settled \subseteq loop.choices
  BY DEF Unsatisfied
<1>5. \A c \in base : c \in loop.musts \/ Settles(c)
  BY <1>2, <1>3
<1>6. Possible' = Possible
  BY <1>1, PossibleKept
<1>7. CASE loop.choices # {} /\ base # {}
  <2>1. loop' = Loop(loop.musts, loop.never, left \ settled, base) /\ UNCHANGED <<pc, cache_ess>>
    BY <1>3, <1>7
  <2> HIDE DEF left, settled, base
  <2>2. /\ loop'.musts = loop.musts /\ loop'.never = loop.never
        /\ loop'.choices \subseteq loop.choices /\ loop'.check = base
        /\ loop'.dependencies = {}
    BY <1>4, <2>1 DEF Loop
  <2>3. CachesOK'
    BY <1>1, <2>1, CachesKept DEF NoInv
  <2>4. EssentialLoopOK'
    BY <1>2, <1>5, <1>6, <2>2 DEF EssentialLoopOK, Settles, Meets
  <2>5. LoopsOK' /\ FramesOK'
    BY <1>1, <2>1, <2>2, <2>4 DEF LoopsOK, FramesOK, ClausesOK, TryOK, HopefulOK, CoveredOK, Searching
  <2> QED  BY <2>3, <2>5
<1>8. CASE ~(loop.choices # {} /\ base # {})
  <2>1. /\ cache_ess' = [start |-> loop.musts,
                         never |-> loop.never \cup UNION {Conflicts[p] : p \in loop.musts},
                         choices |-> left \ settled]
        /\ pc' = "enter"
    BY <1>3, <1>8
  <2> HIDE DEF left, settled, base
  <2>2. /\ cache_ess'.start = loop.musts
        /\ cache_ess'.never = UNION {Conflicts[p] : p \in loop.musts}
        /\ cache_ess'.choices \subseteq loop.choices
    BY <1>2, <1>4, <2>1
  <2>3. EssentialOK'
    BY <1>2, <1>6, <2>2 DEF EssentialOK, Meets
  <2>4. BrokenOK' /\ AnswerOK'
    BY <1>1, <1>6 DEF NoInv, CachesOK, BrokenOK, AnswerOK
  <2>5. LoopsOK' /\ FramesOK'
    BY <2>1, NotSearching
  <2> QED  BY <2>3, <2>4, <2>5 DEF CachesOK
<1> QED  BY <1>7, <1>8

LEMMA EnterNo ==
  ASSUME NoInv, Enter
  PROVE  CachesOK' /\ LoopsOK' /\ FramesOK'
<1>1. /\ pc = "enter" /\ UNCHANGED <<suite, cache_ess>> /\ call \in CheckType
      /\ cache_ess \in EssentialType /\ Possible' = Possible
  BY PossibleKept DEF Enter, NoInv, Inv, SearchOK
<1>2. BrokenOK /\ AnswerOK
  BY DEF NoInv, CachesOK
<1>3. /\ cache_ess.never = UNION {Conflicts[p] : p \in cache_ess.start}
      /\ \A W \in Possible : cache_ess.start \subseteq W /\ Meets(cache_ess.choices, W)
  BY <1>1 DEF NoInv, CachesOK, EssentialOK
<1>4. \A W \in Possible : cache_ess.never \cap W = {}
  BY <1>3, PossibleFacts
<1>5. CASE call.t \in cache_ess.never /\ call.t \in suite_contents
  <2>1. Return(FALSE, suite_contents \ {call.t}, cache_broken \cup {call.t}, cache_inst)
    BY <1>1, <1>5 DEF Enter
  <2>2. \A W \in Possible : call.t \notin W /\ (cache_broken \cup {call.t}) \cap W = {}
    BY <1>2, <1>4, <1>5 DEF BrokenOK
  <2> QED  BY <1>1, <2>1, <2>2, ReturnNo
<1>6. CASE call.t \in cache_ess.never /\ call.t \notin suite_contents
  <2>1. pc' = "KeyError" /\ cache_broken' = cache_broken \cup {call.t} /\ UNCHANGED answer
    BY <1>1, <1>6 DEF Enter
  <2>2. BrokenOK'
    BY <1>1, <1>2, <1>4, <1>6, <2>1 DEF BrokenOK
  <2>3. AnswerOK' /\ EssentialOK'
    BY <1>1, <1>2, <1>3, <2>1 DEF AnswerOK, EssentialOK, Meets
  <2> QED  BY <2>1, <2>2, <2>3, NotSearching DEF CachesOK
<1>7. CASE call.t \notin cache_ess.never
  <2> DEFINE f == Frame({call.t} \cup cache_ess.start, cache_ess.never, cache_ess.choices, {call.t})
  <2>1. /\ frames' = <<f>> /\ pc' = "main" /\ loop' = LoopOf(f)
        /\ UNCHANGED <<suite_contents, cache_broken, cache_inst, call, answer>>
    BY <1>7 DEF Enter
  <2>2. /\ loop'.musts = {call.t} \cup cache_ess.start /\ loop'.never = cache_ess.never
        /\ loop'.choices = cache_ess.choices /\ loop'.check = {call.t}
        /\ loop'.dependencies = {} /\ ~loop'.failed
    BY <2>1 DEF LoopOf, Loop, Frame
  <2> HIDE DEF f
  <2>3. Below' = {}
    BY <2>1 DEF Below
  <2>4. CachesOK'
    BY <1>1, <2>1, CachesKept DEF NoInv
  <2>5. ASSUME NEW W \in Possible, call.t \in W PROVE FitsTop(W)'
    BY <1>3, <1>4, <2>1, <2>2, <2>5 DEF FitsTop, FitsLoop, Meets
  <2>6. HopefulOK'
    BY <1>1, <2>1, <2>5 DEF HopefulOK, Hopeful
  <2>7. Covered(loop.musts \ loop.check, loop.never)'
    BY <1>3, <2>1, <2>2 DEF Covered
  <2>8. LoopsOK'
    BY <2>1, <2>2 DEF LoopsOK, EssentialLoopOK, ClausesOK, TryOK
  <2> QED  BY <2>1, <2>3, <2>4, <2>6, <2>7, <2>8 DEF FramesOK, CoveredOK
<1> QED  BY <1>5, <1>6, <1>7

LEMMA BeginNo ==
  ASSUME NoInv, NEW t, Begin(t), UNCHANGED <<suite, suite_contents, caches>>,
         pc # "KeyError", answer' \in {answer, NoAnswer}
  PROVE  CachesOK' /\ LoopsOK' /\ FramesOK'
<1>1. Possible' = Possible
  BY PossibleKept
<1>2. BrokenOK' /\ AnswerOK'
  BY <1>1 DEF NoInv, CachesOK, BrokenOK, AnswerOK, NoAnswer, caches
<1>3. CASE cache_ess = NoEssential
  <2> DEFINE base == Essential \cap suite_contents
  <2>1. pc' = "essential" /\ loop' = Loop(base, {}, {}, base)
    BY <1>3 DEF Begin
  <2>2. \A W \in Possible : base \subseteq W
    BY DEF Possible, NoInv, ContentsInSync
  <2> HIDE DEF base
  <2>3. EssentialLoopOK'
    BY <1>1, <2>1, <2>2 DEF EssentialLoopOK, Loop, Meets
  <2>4. LoopsOK' /\ FramesOK'
    BY <2>1, <2>3 DEF LoopsOK, FramesOK, ClausesOK, TryOK, HopefulOK, CoveredOK, Searching, Loop
  <2>5. EssentialOK'
    BY <1>3, <2>1 DEF EssentialOK, caches
  <2> QED  BY <1>2, <2>4, <2>5 DEF CachesOK
<1>4. CASE cache_ess # NoEssential
  <2>1. pc' = "enter"
    BY <1>4 DEF Begin
  <2>2. EssentialOK'
    BY <1>1, <1>4 DEF NoInv, CachesOK, EssentialOK, Meets, caches
  <2> QED  BY <1>2, <2>1, <2>2, NotSearching DEF CachesOK
<1> QED  BY <1>3, <1>4

LEMMA QueryNo ==
  ASSUME NoInv, \/ \E t \in Package : is_installable(t)
                \/ compute_installability \/ ComputeNext
  PROVE  CachesOK' /\ LoopsOK' /\ FramesOK'
<1>1. UNCHANGED <<suite, suite_contents, caches>> /\ pc = "idle" /\ Possible' = Possible
  BY PossibleKept DEF is_installable, compute_installability, ComputeNext, Idle
<1>2. BrokenOK' /\ (pc' = pc => EssentialOK')
  BY <1>1 DEF NoInv, CachesOK, BrokenOK, EssentialOK, Meets, caches
<1>3. ASSUME NEW t \in Package, is_installable(t)
      PROVE  CachesOK' /\ LoopsOK' /\ FramesOK'
  <2>1. CASE t \notin suite_contents \/ t \in Broken \/ t \in cache_inst
    <3>1. answer' = [of |-> {t}, verdict |-> t \in suite_contents \ Broken] /\ pc' = pc
      BY <1>3, <2>1 DEF is_installable, search
    <3>2. ASSUME t \notin suite_contents \ Broken, NEW W \in Possible, t \in W PROVE FALSE
      <4>1. CASE t \in Broken
        <5>1. {} \in Dependencies[t]
          BY <4>1, BuilderAssumption
        <5>2. {} \cap W # {}
          BY <3>2, <5>1, PossibleFacts
        <5> QED  BY <5>2
      <4>2. CASE t \notin suite_contents
        <5>1. t \in cache_broken
          BY <1>1, <1>3, <4>2 DEF is_installable, NoInv, ContentsInSync
        <5> QED  BY <3>2, <5>1 DEF NoInv, CachesOK, BrokenOK
      <4> QED  BY <3>2, <4>1, <4>2
    <3>3. AnswerOK'
      BY <1>1, <3>1, <3>2 DEF AnswerOK
    <3> QED  BY <1>1, <1>2, <3>1, <3>3, NotSearching DEF CachesOK
  <2>2. CASE ~(t \notin suite_contents \/ t \in Broken \/ t \in cache_inst)
    BY <1>1, <1>3, <2>2, BeginNo DEF is_installable
  <2> QED  BY <2>1, <2>2
<1>4. CASE compute_installability
  <2>1. answer' = NoAnswer /\ pc' = pc
    BY <1>4 DEF compute_installability
  <2>2. AnswerOK'
    BY <2>1 DEF AnswerOK, NoAnswer
  <2> QED  BY <1>1, <1>2, <2>1, <2>2, NotSearching DEF CachesOK
<1>5. CASE ComputeNext
  <2>1. answer' = answer
    BY <1>5 DEF ComputeNext
  <2>2. (\E t : Begin(t)) \/ pc' = pc
    BY <1>5 DEF ComputeNext
  <2>3. CASE \E t : Begin(t)
    BY <1>1, <2>1, <2>3, BeginNo
  <2>4. CASE pc' = pc
    <3>1. AnswerOK'
      BY <1>1, <2>1 DEF NoInv, CachesOK, AnswerOK
    <3> QED  BY <1>1, <1>2, <2>4, <3>1, NotSearching DEF CachesOK
  <2> QED  BY <2>2, <2>3, <2>4
<1> QED  BY <1>3, <1>4, <1>5

(***************************************************************************)
(* The suite changes.                                                      *)
(***************************************************************************)

\* There is a least set that is closed under dependencies.
LEMMA ClosureFacts ==
  /\ EssentialClosure \subseteq Package /\ Essential \subseteq EssentialClosure
  /\ \A p \in EssentialClosure : UNION Dependencies[p] \subseteq EssentialClosure
<1> DEFINE Closed(S) == \A p \in S : UNION Dependencies[p] \subseteq S
           Least(S) == /\ Essential \subseteq S /\ Closed(S)
                       /\ \A T \in SUBSET Package : Essential \subseteq T /\ Closed(T) => S \subseteq T
           C == {p \in Package : \A T \in SUBSET Package :
                                    Essential \subseteq T /\ Closed(T) => p \in T}
<1>1. EssentialClosure = CHOOSE S \in SUBSET Package : Least(S)
  BY DEF EssentialClosure
<1>2. C \in SUBSET Package
  OBVIOUS
<1>3. Essential \subseteq C
  BY UniverseAssumption
<1>4. ASSUME NEW p \in C, NEW q \in UNION Dependencies[p] PROVE q \in C
  <2>1. q \in Package
    BY UniverseTypes
  <2>2. ASSUME NEW T \in SUBSET Package, Essential \subseteq T, Closed(T) PROVE q \in T
    BY <2>2
  <2> QED  BY <2>1, <2>2
<1>5. Least(C)
  BY <1>3, <1>4
<1> HIDE DEF C, Least
<1>6. EssentialClosure \in SUBSET Package /\ Least(EssentialClosure)
  BY <1>1, <1>2, <1>5
<1> QED  BY <1>6 DEF Least

LEMMA RemoveNo ==
  ASSUME NoInv, NEW p \in Removable, p \notin Essential, remove_binary(p)
  PROVE  CachesOK' /\ LoopsOK' /\ FramesOK'
<1>1. /\ suite' = suite \ {p} /\ pc' = "idle" /\ pc = "idle"
      /\ cache_broken' \subseteq cache_broken /\ cache_ess' \in {cache_ess, NoEssential}
      /\ answer' = NoAnswer
  BY DEF remove_binary, Idle, search
<1>2. Possible' \subseteq Possible
  BY <1>1 DEF Possible, Consistent, Unsatisfied
<1>3. BrokenOK' /\ AnswerOK'
  BY <1>1, <1>2 DEF NoInv, CachesOK, BrokenOK, AnswerOK, NoAnswer
<1>4. EssentialOK'
  BY <1>1, <1>2 DEF NoInv, CachesOK, EssentialOK, Meets
<1> QED  BY <1>1, <1>3, <1>4, NotSearching DEF CachesOK

\* A solution with a package that is none of the essential ones nor what these
\* may need has a solution without it, for all that the essential ones need.
LEMMA AddedSolution ==
  ASSUME NEW p \in Package, suite' = suite \cup {p}, p \notin EssentialClosure,
         NEW W \in Possible'
  PROVE  \E V \in Possible : V \subseteq W
<1> DEFINE U == W \cap (suite \cup {p}) \cap EssentialClosure
           V == {q \in Package : Alike(q) \cap U # {}}
<1>1. /\ W \in SUBSET Package /\ Essential \cap (suite \cup {p}) \subseteq W
      /\ \A q \in W : /\ Conflicts[q] \cap W = {}
                      /\ \A clause \in Dependencies[q] : clause \cap W # {}
                      /\ Alike(q) \subseteq W /\ Alike(q) \cap (suite \cup {p}) # {}
  BY DEF Possible, Consistent, Unsatisfied
<1>2. U \subseteq suite /\ U \subseteq Package /\ Essential \cap suite \subseteq U /\ U \subseteq W
  BY <1>1, ClosureFacts
<1>3. Consistent(U)
  <2> SUFFICES ASSUME NEW q \in U
               PROVE  Conflicts[q] \cap U = {} /\ Unsatisfied(Dependencies[q], U) = {}
    BY DEF Consistent
  <2>1. ASSUME NEW clause \in Dependencies[q] PROVE clause \cap U # {}
    <3>1. PICK r \in clause : r \in W
      BY <1>1, <1>2
    <3>2. PICK e \in Alike(r) : e \in W /\ e \in suite \cup {p}
      BY <1>1, <3>1
    <3>3. q \in Package /\ r \in Package
      BY <1>1, <1>2, <3>1
    <3>4. e \in clause
      BY <3>1, <3>2, <3>3, AlikeFacts
    <3>5. e \in EssentialClosure
      BY <3>4, ClosureFacts
    <3> QED  BY <3>2, <3>4, <3>5
  <2>2. Conflicts[q] \cap U = {}
    BY <1>1, <1>2
  <2> QED  BY <2>1, <2>2 DEF Unsatisfied
<1> HIDE DEF U
<1>4. U \in Solutions(suite)
  <2>1. U \in Consistents
    BY <1>2, <1>3 DEF Consistents
  <2> QED  BY <1>2, <2>1 DEF Solutions
<1>5. PICK X \in Possible : U \subseteq X /\ \A q \in X : Alike(q) \cap U # {}
  BY <1>4, SolutionPossible
<1>6. X \subseteq W
  <2> SUFFICES ASSUME NEW q \in X PROVE q \in W
    OBVIOUS
  <2>1. PICK e \in Alike(q) : e \in U
    BY <1>5
  <2>2. q \in Package
    BY PossibleFacts
  <2>3. q \in Alike(e)
    BY <2>1, <2>2, AlikeFacts
  <2> QED  BY <1>1, <1>2, <2>1, <2>3
<1> QED  BY <1>6

LEMMA AddNo ==
  ASSUME NoInv, NEW p \in Package, add_binary(p)
  PROVE  CachesOK' /\ LoopsOK' /\ FramesOK'
<1>1. suite' = suite \cup {p} /\ pc' = "idle" /\ pc = "idle" /\ answer' = NoAnswer
  BY DEF add_binary, Idle, search
<1>2. AnswerOK'
  BY <1>1 DEF AnswerOK, NoAnswer
<1>3. CASE p \in Broken
  <2>1. cache_broken' = cache_broken /\ cache_ess' = cache_ess
    BY <1>3 DEF add_binary, caches
  <2>2. ASSUME NEW W \in Possible' PROVE W \in Possible
    <3>1. /\ W \in SUBSET Package /\ Essential \cap (suite \cup {p}) \subseteq W
          /\ Consistent(W)
          /\ \A q \in W : Alike(q) \subseteq W /\ Alike(q) \cap (suite \cup {p}) # {}
      BY <1>1 DEF Possible, Consistent, Unsatisfied
    <3>2. p \notin W
      <4>1. SUFFICES ASSUME p \in W PROVE FALSE
        OBVIOUS
      <4>2. {} \in Dependencies[p]
        BY <1>3, BuilderAssumption
      <4>3. {} \in Unsatisfied(Dependencies[p], W)
        BY <4>2 DEF Unsatisfied
      <4> QED  BY <3>1, <4>1, <4>3 DEF Consistent
    <3> QED  BY <3>1, <3>2 DEF Possible
  <2>3. BrokenOK' /\ EssentialOK'
    BY <1>1, <2>1, <2>2 DEF NoInv, CachesOK, BrokenOK, EssentialOK, Meets
  <2> QED  BY <1>1, <1>2, <2>3, NotSearching DEF CachesOK
<1>4. CASE p \notin Broken
  <2>1. cache_broken' = {} /\ cache_ess' = EssentialWith(p)
    BY <1>4 DEF add_binary
  <2>2. BrokenOK'
    BY <2>1 DEF BrokenOK
  <2>3. EssentialOK'
    <3>1. SUFFICES ASSUME cache_ess' # NoEssential PROVE EssentialOK'
      BY <1>1 DEF EssentialOK
    <3>2. cache_ess' = cache_ess /\ p \notin EssentialClosure
      BY <2>1, <3>1 DEF EssentialWith
    <3>3. /\ cache_ess.never = UNION {Conflicts[q] : q \in cache_ess.start}
          /\ \A V \in Possible : cache_ess.start \subseteq V /\ Meets(cache_ess.choices, V)
      BY <3>1, <3>2 DEF NoInv, CachesOK, EssentialOK
    <3>4. ASSUME NEW W \in Possible'
          PROVE  cache_ess.start \subseteq W /\ Meets(cache_ess.choices, W)
      <4>1. PICK V \in Possible : V \subseteq W
        BY <1>1, <3>2, AddedSolution
      <4> QED  BY <3>3, <4>1 DEF Meets
    <3> QED  BY <3>2, <3>3, <3>4 DEF EssentialOK, Meets
  <2> QED  BY <1>1, <1>2, <2>2, <2>3, NotSearching DEF CachesOK
<1> QED  BY <1>3, <1>4

LEMMA NextNo ==
  ASSUME Essential \cap Removable = {}, NoInv, [Next]_vars
  PROVE  NoInv'
<1>1. ASSUME Next PROVE NoInv'
  <2>1. Inv' /\ ContentsInSync'
    BY <1>1, NextTypes, NextInSync DEF NoInv
  <2>2. CachesOK' /\ LoopsOK' /\ FramesOK'
    <3>1. ASSUME NEW p \in Package, add_binary(p) \/ is_installable(p)
          PROVE  CachesOK' /\ LoopsOK' /\ FramesOK'
      BY <3>1, AddNo, QueryNo
    <3>2. ASSUME NEW p \in Removable, remove_binary(p)
          PROVE  CachesOK' /\ LoopsOK' /\ FramesOK'
      BY <3>2, RemoveNo
    <3> QED
      BY <1>1, <3>1, <3>2, QueryNo, EnterNo, CheckPackageNo, CheckDependencyNo, EssentialLoopNo,
         MainLoopNo, PruneNo, PrunedNo, ResolveNo, TryOptionNo, TryLoopNo DEF Next, Step
  <2> QED  BY <2>1, <2>2 DEF NoInv
<1>2. CASE UNCHANGED vars
  <2>1. UNCHANGED <<suite, suite_contents, cache_broken, cache_inst, cache_ess, call, pc, frames,
                    loop, answer>>
    BY <1>2 DEF vars, caches, search
  <2>2. Possible' = Possible /\ Below' = Below /\ Top' = Top
    BY <2>1, PossibleKept DEF Below, Top
  <2>3. Inv' /\ ContentsInSync'
    BY <2>1 DEF NoInv, Inv, TypeOK, SearchOK, InLoop, ContentsInSync
  <2>4. CachesOK'
    BY <2>1, <2>2 DEF NoInv, CachesOK, BrokenOK, AnswerOK, EssentialOK, Meets
  <2>5. LoopsOK'
    BY <2>1, <2>2 DEF NoInv, LoopsOK, EssentialLoopOK, ClausesOK, TryOK, FitsLoop, Settles, Meets,
                      InLoop
  <2>6. CoveredOK'
    BY <2>1, <2>2 DEF NoInv, FramesOK, CoveredOK, Covered, Searching
  <2>7. HopefulOK'
    <3>1. \A W : FitsTop(W) => FitsTop(W)'
      BY <2>1, <2>2 DEF FitsTop, FitsLoop, Fits, HasOption, Meets
    <3>2. \A W : \A i \in Below : FitsWaiting(W, frames[i]) => FitsWaiting(W, frames[i])'
      BY <2>1 DEF FitsWaiting, Fits, HasOption, Meets
    <3>3. Hopeful => Hopeful'
      BY <2>2, <3>1, <3>2 DEF Hopeful
    <3> QED  BY <2>1, <2>2, <3>3 DEF NoInv, FramesOK, HopefulOK, Searching
  <2> QED  BY <2>3, <2>4, <2>5, <2>6, <2>7 DEF NoInv, FramesOK
<1> QED  BY <1>1, <1>2

LEMMA InitNo ==
  ASSUME Init
  PROVE  NoInv
<1>1. Inv /\ ContentsInSync
  BY InitTypes DEF Init, ContentsInSync
<1>2. CachesOK
  BY DEF Init, CachesOK, BrokenOK, AnswerOK, EssentialOK, NoAnswer
<1>3. LoopsOK /\ FramesOK
  BY DEF Init, LoopsOK, FramesOK, EssentialLoopOK, ClausesOK, TryOK, HopefulOK, CoveredOK,
         InLoop, Searching
<1> QED  BY <1>1, <1>2, <1>3 DEF NoInv

\* As long as no essential package leaves the suite, the tester never calls a
\* package uninstallable that is installable, nor takes one to be broken that is
\* not, nor misjudges what the essential packages need, in whatever order
\* packages come, go and are asked about and sets are walked.
THEOREM NoIsNeverWrong ==
  ASSUME Essential \cap Removable = {}
  PROVE  Spec => []NoIsRight
<1>1. Init => NoInv
  BY InitNo
<1>2. NoInv /\ [Next]_vars => NoInv'
  BY NextNo
<1>3. NoInv => NoIsRight
  BY NoInvImplies DEF NoInv, CachesOK
<1> QED  BY <1>1, <1>2, <1>3, PTL DEF Spec

(***************************************************************************)
(* A yes is right, but for one test.  The comment in _check_inst has musts *)
(* and never "disjointed at all times"; a failed guess becomes part of     *)
(* never, and may be taken again.  resolve_choices then takes an option    *)
(* for one without consequences, before it asks whether what is taken      *)
(* already is among what the option excludes.                              *)
(***************************************************************************)

ShortcutsAreSafe ==
  pc = "try" /\ LoopEnded /\ ~loop.failed /\ WithoutConsequences => Top.musts \cap loop.never = {}

\* The alternatives that there are for what essential packages need.
EssentialChoices ==
  UNION {clause \in UNION {Dependencies[p] : p \in EssentialClosure} : Cardinality(clause) > 1}

\* None of the essential packages, nor of their alternatives, is ever removed:
\* remove_binary does not forget cached packages that rely on their being there.
EssentialsStay == Removable \cap (Essential \cup EssentialChoices) = {}

\* What settles a choice of the essential packages, and is not added to them.
Settled(musts, never) ==
  {c \in EssentialChoices \cap suite :
     Conflicts[c] \subseteq never /\ Unsatisfied(Dependencies[c], musts) = {}}

\* A clause is met by a package, or will be by a choice.
Met(clause, S, choices) == clause \cap S # {} \/ \E c \in choices : c \subseteq clause

\* What cache_ess says of the essential packages: they and what they cannot do
\* without, and the clauses left to choose from, account for all they need.
EssentialKnown == cache_ess # NoEssential \/ pc = "enter" \/ Searching

EssentialSound ==
  EssentialKnown =>
    /\ cache_ess.never = UNION {Conflicts[p] : p \in cache_ess.start}
    /\ \A W \in Possible : cache_ess.start \subseteq W
    /\ EssentialsInstallable =>
         /\ Essential \cap suite \subseteq cache_ess.start /\ cache_ess.start \subseteq suite
         /\ UNION cache_ess.choices \subseteq EssentialChoices \cap suite
         /\ \A p \in cache_ess.start : \A clause \in Dependencies[p] :
              Met(clause, cache_ess.start \cup Settled(cache_ess.start, cache_ess.never),
                  cache_ess.choices)

\* The loop over the essential packages never fails if they are installable.
EssentialLoopSound ==
  pc = "essential" /\ EssentialsInstallable =>
    /\ ~loop.failed
    /\ Essential \cap suite \subseteq loop.musts /\ loop.musts \subseteq EssentialClosure
    /\ UNION loop.choices \subseteq EssentialChoices
    /\ \A p \in loop.musts \ loop.check : \A clause \in Dependencies[p] :
         \/ Met(clause, loop.musts \cup Settled(loop.musts, loop.never), loop.choices)
         \/ p \in loop.cur /\ clause \in loop.dependencies

\* A search works on packages of the suite.
FrameWithin(f) ==
  /\ f.musts \subseteq suite /\ f.check \subseteq suite /\ f.options \subseteq suite
  /\ f.last \subseteq suite /\ f.tried \subseteq suite
  /\ UNION f.choices \subseteq suite /\ UNION f.rebuild \subseteq suite

LoopWithin ==
  /\ loop.musts \subseteq suite /\ loop.check \subseteq suite /\ loop.cur \subseteq suite
  /\ UNION loop.choices \subseteq suite

PlacesOK ==
  /\ call.method = "compute" => call.tcopy \subseteq suite
  /\ pc = "idle" => frames = <<>>
  /\ pc \notin {"idle", "KeyError"} => call.t \in suite
  /\ EssentialsInstallable =>
       /\ \A i \in DOMAIN frames : FrameWithin(frames[i])
       /\ InLoop => LoopWithin
       /\ pc \in {"essential", "enter"} => call.t \in suite_contents
       /\ pc # "KeyError"

PlaceInv == PlacesOK /\ EssentialSound /\ EssentialLoopSound

LEMMA InstallableKept ==
  ASSUME suite' = suite
  PROVE  /\ EssentialsInstallable' <=> EssentialsInstallable
         /\ \A musts, never : Settled(musts, never)' = Settled(musts', never')
         /\ Possible' = Possible
BY PossibleKept DEF EssentialsInstallable, Solutions, Consistents, Consistent, Unsatisfied, Settled

LEMMA SettledGrows ==
  ASSUME NEW musts, NEW more, musts \subseteq more, NEW never, NEW again, never \subseteq again
  PROVE  Settled(musts, never) \subseteq Settled(more, again)
BY DEF Settled, Unsatisfied

LEMMA EssentialKept ==
  ASSUME EssentialSound, UNCHANGED <<suite, cache_ess>>, EssentialKnown' => EssentialKnown
  PROVE  EssentialSound'
<1>1. /\ EssentialsInstallable' <=> EssentialsInstallable
      /\ Possible' = Possible
  BY InstallableKept
<1>2. Settled(cache_ess.start, cache_ess.never)' = Settled(cache_ess.start, cache_ess.never)
  BY DEF Settled, Unsatisfied
<1> QED  BY <1>1, <1>2 DEF EssentialSound, Met

\* Where the essential packages are installable, so is a set with all equivalents.
LEMMA SomePossible ==
  ASSUME EssentialsInstallable
  PROVE  Possible # {}
BY SolutionPossible DEF EssentialsInstallable

\* What is in all of these sets is in the contents.
LEMMA CertainlyThere ==
  ASSUME NoInv, pc # "KeyError", NEW W \in Possible, NEW p \in W, p \in suite
  PROVE  p \in suite_contents
BY DEF NoInv, ContentsInSync, CachesOK, BrokenOK

\* What settles a choice conflicts with nothing and is not broken.
LEMMA SettledThere ==
  ASSUME NoInv, pc # "KeyError", EssentialsInstallable, NEW musts, NEW never,
         \A W \in Possible : musts \subseteq W,
         never \subseteq UNION {Conflicts[p] : p \in musts}
  PROVE  Settled(musts, never) \subseteq suite_contents \ never
<1> SUFFICES ASSUME NEW c \in Settled(musts, never) PROVE c \in suite_contents \ never
  OBVIOUS
<1>1. PICK W \in Possible : TRUE
  BY SomePossible
<1>2. /\ W \subseteq Package /\ Consistent(W) /\ Essential \cap suite \subseteq W
      /\ musts \subseteq W /\ \A p \in W : Alike(p) \subseteq W /\ Alike(p) \cap suite # {}
  BY DEF Possible
<1>3. never \cap W = {}
  BY <1>2 DEF Consistent
<1>4. c \in suite /\ c \in Package /\ Conflicts[c] \subseteq never
      /\ Unsatisfied(Dependencies[c], musts) = {}
  <2>1. c \in suite /\ Conflicts[c] \subseteq never /\ Unsatisfied(Dependencies[c], musts) = {}
    BY DEF Settled
  <2> QED  BY <2>1 DEF NoInv, Inv, TypeOK
<1>5. c \notin never
  <2>1. SUFFICES ASSUME NEW p \in musts, c \in Conflicts[p] PROVE FALSE
    OBVIOUS
  <2>2. p \in Conflicts[c]
    BY <1>2, <1>4, <2>1, BuilderAssumption
  <2> QED  BY <1>2, <1>3, <1>4, <2>1, <2>2
<1> DEFINE V == W \cup Alike(c)
<1>6. \A q \in Alike(c) : /\ q \in Package /\ Alike(q) = Alike(c) /\ Conflicts[q] = Conflicts[c]
                          /\ Dependencies[q] = Dependencies[c]
  BY <1>4, AlikeFacts
<1>7. c \in Alike(c) /\ V \in SUBSET Package
  BY <1>2, <1>6 DEF Alike
<1>8. Consistent(V)
  <2> SUFFICES ASSUME NEW q \in V
               PROVE  Conflicts[q] \cap V = {} /\ Unsatisfied(Dependencies[q], V) = {}
    BY DEF Consistent
  <2>1. Conflicts[c] \cap W = {} /\ Conflicts[c] \cap Alike(c) = {}
    <3>1. ASSUME NEW e \in Alike(c), e \in Conflicts[c] PROVE FALSE
      <4>1. e \in Package /\ e \in Conflicts[e]
        BY <1>6, <3>1
      <4> QED  BY <4>1, BuilderAssumption
    <3> QED  BY <1>3, <1>4, <3>1
  <2>2. CASE q \in Alike(c)
    BY <1>2, <1>4, <1>6, <2>1, <2>2 DEF Unsatisfied
  <2>3. CASE q \in W
    <3>1. ASSUME NEW e \in Alike(c), e \in Conflicts[q] PROVE FALSE
      <4>1. q \in Package /\ q \in Conflicts[e]
        BY <1>2, <1>6, <2>3, <3>1, BuilderAssumption
      <4> QED  BY <1>6, <2>1, <2>3, <4>1
    <3> QED  BY <1>2, <2>3, <3>1 DEF Consistent, Unsatisfied
  <2> QED  BY <2>2, <2>3
<1>9. V \in Possible
  <2>1. ASSUME NEW q \in V PROVE Alike(q) \subseteq V /\ Alike(q) \cap suite # {}
    BY <1>2, <1>4, <1>6, <1>7, <2>1
  <2> QED  BY <1>2, <1>7, <1>8, <2>1 DEF Possible
<1> QED  BY <1>4, <1>5, <1>7, <1>9, CertainlyThere

\* Of a clause with one alternative only, no choice is made.
LEMMA ChoiceIsOne ==
  ASSUME NEW clause \in SUBSET Package, NEW never, (clause \cap suite_contents) \ never # {},
         NEW chosen \in Representatives((clause \cap suite_contents) \ never)
  PROVE  /\ chosen # {} /\ chosen \subseteq clause /\ chosen \subseteq suite_contents \ never
         /\ Cardinality(chosen) # 1 => Cardinality(clause) > 1
<1>1. chosen \subseteq clause /\ chosen \subseteq suite_contents \ never
  BY DEF Representatives
<1>2. chosen # {}
  <2>1. PICK q \in (clause \cap suite_contents) \ never : Cardinality(chosen \cap Equivalents[q]) = 1
    BY DEF Representatives
  <2> QED  BY <2>1, FS_EmptySet
<1>3. IsFiniteSet(clause) /\ IsFiniteSet(chosen)
  BY <1>1, UniverseAssumption, FS_Subset
<1>4. Cardinality(chosen) \in Nat /\ Cardinality(clause) \in Nat
      /\ Cardinality(chosen) <= Cardinality(clause)
  BY <1>1, <1>3, FS_CardinalityType, FS_Subset
<1>5. Cardinality(chosen) # 0
  BY <1>2, <1>3, FS_EmptySet
<1> QED  BY <1>1, <1>2, <1>4, <1>5

(***************************************************************************)
(* What the steps of a loop come to.                                       *)
(***************************************************************************)

Excluded(c) == Conflicts[c] # {} /\ c \in loop.never

LEMMA PackageOutcome ==
  ASSUME NoInv, CheckPackage
  PROVE  /\ InLoop /\ ~loop.failed /\ loop.dependencies = {} /\ loop' \in LoopType
         /\ UNCHANGED <<suite, suite_contents, caches, call, pc, frames, answer>>
         /\ \E cur \in loop.check :
              /\ loop'.musts = loop.musts /\ loop'.choices = loop.choices
              /\ loop'.check = loop.check \ {cur}
              /\ IF Excluded(cur)
                 THEN loop'.failed /\ loop'.cur = loop.cur /\ loop'.dependencies = {}
                 ELSE /\ ~loop'.failed /\ loop'.cur = {cur}
                      /\ loop'.never = loop.never \cup (Conflicts[cur] \cap suite_contents)
                      /\ loop'.dependencies = Unsatisfied(Dependencies[cur], loop.musts)
<1>1. /\ UNCHANGED <<suite, suite_contents, caches, call, pc, frames, answer>>
      /\ InLoop /\ ~loop.failed /\ loop.dependencies = {}
  BY DEF CheckPackage
<1>2. PICK cur \in loop.check :
        loop' = IF Conflicts[cur] # {} /\ cur \in loop.never
                THEN [loop EXCEPT !.check = @ \ {cur}, !.failed = TRUE]
                ELSE [loop EXCEPT !.check = @ \ {cur}, !.cur = {cur},
                                  !.never = @ \cup (Conflicts[cur] \cap suite_contents),
                                  !.dependencies = Unsatisfied(Dependencies[cur], loop.musts)]
  BY DEF CheckPackage
<1>3. loop \in LoopType
  BY <1>1, LoopTypes DEF NoInv
<1>4. loop' \in LoopType
  <2>1. Inv'
    BY LoopStepTypes DEF NoInv
  <2>2. InLoop'
    BY <1>1 DEF InLoop
  <2> QED  BY <2>1, <2>2 DEF Inv, SearchOK
<1>5. loop'.musts = loop.musts /\ loop'.choices = loop.choices /\ loop'.check = loop.check \ {cur}
  BY <1>2, <1>3 DEF LoopType
<1>6. CASE Excluded(cur)
  <2>1. loop'.failed /\ loop'.cur = loop.cur /\ loop'.dependencies = {}
    BY <1>1, <1>2, <1>3, <1>6 DEF LoopType, Excluded
  <2> QED  BY <1>1, <1>4, <1>5, <1>6, <2>1
<1>7. CASE ~Excluded(cur)
  <2>1. /\ ~loop'.failed /\ loop'.cur = {cur}
        /\ loop'.never = loop.never \cup (Conflicts[cur] \cap suite_contents)
        /\ loop'.dependencies = Unsatisfied(Dependencies[cur], loop.musts)
    BY <1>1, <1>2, <1>3, <1>7 DEF LoopType, Excluded
  <2> QED  BY <1>1, <1>4, <1>5, <1>7, <2>1
<1> QED  BY <1>6, <1>7

\* The clause has no candidate, or one is taken, or a choice is made of several.
Fails(clause, p) ==
  /\ (clause \cap suite_contents) \ loop.never = {}
  /\ loop'.failed /\ loop'.dependencies = {}
  /\ loop'.musts = loop.musts /\ loop'.choices = loop.choices /\ loop'.check = loop.check
  /\ \/ UNCHANGED <<cache_broken, suite_contents, pc>>
     \/ /\ clause \cap suite_contents = {} /\ p \notin cache_broken
        /\ suite_contents' = suite_contents \ {p} /\ cache_broken' = cache_broken \cup {p}
        /\ pc' = IF p \in suite_contents THEN pc ELSE "KeyError"

Takes(clause, e) ==
  /\ e \in clause /\ e \in suite_contents /\ e \notin loop.never
  /\ ~loop'.failed /\ loop'.choices = loop.choices
  /\ loop'.musts = loop.musts \cup {e} /\ loop'.check = loop.check \cup {e}
  /\ loop'.dependencies = Unsatisfied(loop.dependencies \ {clause}, loop.musts \cup {e})

Chooses(clause, chosen) ==
  /\ chosen \subseteq clause /\ chosen \subseteq suite_contents \ loop.never /\ chosen # {}
  /\ Cardinality(clause) > 1
  /\ ~loop'.failed /\ loop'.choices = loop.choices \cup {chosen}
  /\ loop'.musts = loop.musts /\ loop'.check = loop.check
  /\ loop'.dependencies = loop.dependencies \ {clause}

LEMMA DependencyOutcome ==
  ASSUME NoInv, CheckDependency
  PROVE  /\ InLoop /\ ~loop.failed
         /\ loop' \in LoopType \/ pc' = "KeyError"
         /\ loop'.cur = loop.cur /\ loop'.never = loop.never
         /\ UNCHANGED <<suite, cache_inst, cache_ess, call, frames, answer>>
         /\ \E p \in Package : \E clause \in loop.dependencies :
              /\ loop.cur = {p} /\ loop.dependencies \subseteq Dependencies[p]
              /\ clause \in Dependencies[p] /\ clause \in SUBSET Package
              /\ \/ Fails(clause, p)
                 \/ /\ UNCHANGED <<suite_contents, cache_broken, pc>>
                    /\ (\E e : Takes(clause, e)) \/ \E chosen : Chooses(clause, chosen)
<1>1. PICK clause \in loop.dependencies :
        LET candidates == (clause \cap suite_contents) \ loop.never
        IN  IF candidates = {}
            THEN /\ loop' = [loop EXCEPT !.dependencies = {}, !.failed = TRUE]
                 /\ IF IsBroken(clause) THEN MarkBroken
                    ELSE UNCHANGED <<cache_broken, suite_contents, pc>>
            ELSE /\ \E chosen \in Representatives(candidates) :
                      loop' = IF Cardinality(chosen) = 1
                              THEN [loop EXCEPT
                                      !.check = @ \cup chosen, !.musts = @ \cup chosen,
                                      !.dependencies = Unsatisfied(@ \ {clause}, loop.musts \cup chosen)]
                              ELSE [loop EXCEPT !.choices = @ \cup {chosen},
                                                !.dependencies = @ \ {clause}]
                 /\ UNCHANGED <<cache_broken, suite_contents, pc>>
  BY DEF CheckDependency
<1> DEFINE candidates == (clause \cap suite_contents) \ loop.never
<1>2. /\ InLoop /\ ~loop.failed /\ loop \in LoopType
      /\ UNCHANGED <<suite, cache_inst, cache_ess, call, frames, answer>>
      /\ pc' \in {pc, "KeyError"}
  BY LoopStep, LoopTypes DEF NoInv
<1>3. loop' \in LoopType \/ pc' = "KeyError"
  <2>1. SUFFICES ASSUME pc' = pc PROVE loop' \in LoopType
    BY <1>2
  <2>2. Inv' /\ InLoop'
    BY <1>2, <2>1, LoopStepTypes DEF NoInv, InLoop
  <2> QED  BY <2>2 DEF Inv, SearchOK
<1>4. PICK p \in Package : loop.cur = {p} /\ loop.dependencies \subseteq Dependencies[p]
  BY <1>2 DEF NoInv, LoopsOK, ClausesOK
<1>5. clause \in Dependencies[p] /\ clause \in SUBSET Package
  BY <1>4, UniverseTypes
<1>6. CASE candidates = {}
  <2>1. loop' = [loop EXCEPT !.dependencies = {}, !.failed = TRUE]
    BY <1>1, <1>6
  <2>2. /\ loop'.failed /\ loop'.dependencies = {} /\ loop'.musts = loop.musts
        /\ loop'.choices = loop.choices /\ loop'.check = loop.check
        /\ loop'.cur = loop.cur /\ loop'.never = loop.never
    BY <1>2, <2>1 DEF LoopType
  <2>3. \/ UNCHANGED <<cache_broken, suite_contents, pc>>
        \/ /\ clause \cap suite_contents = {} /\ p \notin cache_broken
           /\ suite_contents' = suite_contents \ {p} /\ cache_broken' = cache_broken \cup {p}
           /\ pc' = IF p \in suite_contents THEN pc ELSE "KeyError"
    <3>1. CASE IsBroken(clause) /\ MarkBroken
      BY <1>4, <1>6, <3>1 DEF IsBroken, MarkBroken
    <3> QED  BY <1>1, <1>6, <3>1
  <2>4. Fails(clause, p)
    BY <1>6, <2>2, <2>3 DEF Fails
  <2> QED  BY <1>2, <1>3, <1>4, <1>5, <2>2, <2>4
<1>7. CASE candidates # {}
  <2>1. PICK chosen \in Representatives(candidates) :
          loop' = IF Cardinality(chosen) = 1
                  THEN [loop EXCEPT
                          !.check = @ \cup chosen, !.musts = @ \cup chosen,
                          !.dependencies = Unsatisfied(@ \ {clause}, loop.musts \cup chosen)]
                  ELSE [loop EXCEPT !.choices = @ \cup {chosen},
                                    !.dependencies = @ \ {clause}]
    BY <1>1, <1>7
  <2>2. UNCHANGED <<suite_contents, cache_broken, pc>>
    BY <1>1, <1>7
  <2>3. /\ chosen # {} /\ chosen \subseteq clause /\ chosen \subseteq suite_contents \ loop.never
        /\ Cardinality(chosen) # 1 => Cardinality(clause) > 1
    BY <1>5, <1>7, ChoiceIsOne
  <2>4. CASE Cardinality(chosen) = 1
    <3>1. PICK e : chosen = {e}
      <4>1. IsFiniteSet(chosen)
        BY <1>5, <2>3, UniverseAssumption, FS_Subset
      <4> QED  BY <2>4, <4>1, FS_Singleton
    <3>2. /\ ~loop'.failed /\ loop'.choices = loop.choices
          /\ loop'.musts = loop.musts \cup {e} /\ loop'.check = loop.check \cup {e}
          /\ loop'.dependencies = Unsatisfied(loop.dependencies \ {clause}, loop.musts \cup {e})
          /\ loop'.cur = loop.cur /\ loop'.never = loop.never
      BY <1>2, <2>1, <2>4, <3>1 DEF LoopType
    <3>3. Takes(clause, e)
      BY <2>3, <3>1, <3>2 DEF Takes
    <3> QED  BY <1>2, <1>3, <1>4, <1>5, <2>2, <3>2, <3>3
  <2>5. CASE Cardinality(chosen) # 1
    <3>1. /\ ~loop'.failed /\ loop'.choices = loop.choices \cup {chosen}
          /\ loop'.musts = loop.musts /\ loop'.check = loop.check
          /\ loop'.dependencies = loop.dependencies \ {clause}
          /\ loop'.cur = loop.cur /\ loop'.never = loop.never
      BY <1>2, <2>1, <2>5 DEF LoopType
    <3>2. Chooses(clause, chosen)
      BY <2>3, <2>5, <3>1 DEF Chooses
    <3> QED  BY <1>2, <1>3, <1>4, <1>5, <2>2, <3>1, <3>2
  <2> QED  BY <2>4, <2>5
<1> QED  BY <1>6, <1>7

(***************************************************************************)
(* The places of packages, and what is known of the essential ones.        *)
(***************************************************************************)

\* No search comes to a KeyError, nor does a loop over the essential packages fail.
LEMMA CheckPackagePlace ==
  ASSUME NoInv, PlaceInv, CheckPackage
  PROVE  PlaceInv'
<1>1. /\ InLoop /\ ~loop.failed /\ loop.dependencies = {}
      /\ UNCHANGED <<suite, suite_contents, caches, call, pc, frames, answer>>
  BY PackageOutcome
<1>2. PICK cur \in loop.check :
        /\ loop'.musts = loop.musts /\ loop'.choices = loop.choices
        /\ loop'.check = loop.check \ {cur}
        /\ IF Excluded(cur)
           THEN loop'.failed /\ loop'.cur = loop.cur /\ loop'.dependencies = {}
           ELSE /\ ~loop'.failed /\ loop'.cur = {cur}
                /\ loop'.never = loop.never \cup (Conflicts[cur] \cap suite_contents)
                /\ loop'.dependencies = Unsatisfied(Dependencies[cur], loop.musts)
  BY PackageOutcome
<1>3. /\ EssentialsInstallable' <=> EssentialsInstallable
      /\ Possible' = Possible
  BY <1>1, InstallableKept
<1>4. EssentialSound'
  BY <1>1, EssentialKept DEF PlaceInv, EssentialKnown, Searching, caches
<1>5. PlacesOK'
  <2>1. EssentialsInstallable => LoopWithin'
    BY <1>1, <1>2 DEF PlaceInv, PlacesOK, LoopWithin
  <2>2. \A i \in DOMAIN frames : FrameWithin(frames[i]) => FrameWithin(frames[i])'
    BY <1>1 DEF FrameWithin
  <2> QED  BY <1>1, <1>3, <2>1, <2>2 DEF PlaceInv, PlacesOK, InLoop
<1>6. EssentialLoopSound'
  <2> SUFFICES ASSUME pc = "essential", EssentialsInstallable PROVE EssentialLoopSound'
    BY <1>1, <1>3 DEF EssentialLoopSound
  <2>1. /\ Essential \cap suite \subseteq loop.musts /\ loop.musts \subseteq EssentialClosure
        /\ UNION loop.choices \subseteq EssentialChoices
        /\ \A p \in loop.musts \ loop.check : \A clause \in Dependencies[p] :
             Met(clause, loop.musts \cup Settled(loop.musts, loop.never), loop.choices)
    BY <1>1 DEF PlaceInv, EssentialLoopSound
  <2>2. ~Excluded(cur)
    <3>1. SUFFICES ASSUME cur \in loop.never PROVE FALSE
      BY DEF Excluded
    <3>2. PICK W \in Possible : TRUE
      BY SomePossible
    <3>3. /\ loop.never \subseteq UNION {Conflicts[p] : p \in loop.musts} /\ loop.musts \subseteq W
          /\ cur \in loop.musts \/ Settles(cur)
      BY DEF NoInv, LoopsOK, EssentialLoopOK
    <3>4. PICK p \in loop.musts : cur \in Conflicts[p]
      BY <3>1, <3>3
    <3>5. p \in Package /\ cur \in Package /\ p \in Conflicts[cur]
      BY <3>3, <3>4, PossibleFacts, ConflictFacts
    <3>6. loop.never \cap W = {}
      BY <3>3, PossibleFacts
    <3>7. CASE cur \in loop.musts
      BY <3>1, <3>3, <3>6, <3>7
    <3>8. CASE Settles(cur)
      BY <3>3, <3>5, <3>6, <3>8 DEF Settles
    <3> QED  BY <3>3, <3>7, <3>8
  <2>3. /\ ~loop'.failed /\ loop'.cur = {cur}
        /\ loop'.never = loop.never \cup (Conflicts[cur] \cap suite_contents)
        /\ loop'.dependencies = Unsatisfied(Dependencies[cur], loop.musts)
    BY <1>2, <2>2
  <2>4. ASSUME NEW p \in loop'.musts \ loop'.check, NEW clause \in Dependencies[p]
        PROVE  \/ Met(clause, loop.musts \cup Settled(loop.musts, loop.never), loop.choices)
               \/ p \in loop'.cur /\ clause \in loop'.dependencies
    <3>1. CASE p = cur
      BY <1>2, <2>3, <2>4, <3>1 DEF Unsatisfied, Met
    <3>2. CASE p # cur
      BY <1>2, <2>1, <2>4, <3>2
    <3> QED  BY <3>1, <3>2
  <2>5. Settled(loop.musts, loop.never) \subseteq Settled(loop.musts, loop.never)'
    BY <1>1, <1>2, <2>3 DEF Settled, Unsatisfied
  <2>6. ASSUME NEW p \in loop'.musts \ loop'.check, NEW clause \in Dependencies[p]
        PROVE  \/ Met(clause, loop'.musts \cup Settled(loop.musts, loop.never)', loop'.choices)
               \/ p \in loop'.cur /\ clause \in loop'.dependencies
    BY <1>2, <2>4, <2>5, <2>6 DEF Met
  <2> QED
    BY <1>1, <1>2, <2>1, <2>3, <2>6 DEF EssentialLoopSound, Met
<1> QED  BY <1>4, <1>5, <1>6 DEF PlaceInv

LEMMA CheckDependencyPlace ==
  ASSUME NoInv, PlaceInv, CheckDependency
  PROVE  PlaceInv'
<1>1. /\ InLoop /\ ~loop.failed /\ loop'.cur = loop.cur /\ loop'.never = loop.never
      /\ UNCHANGED <<suite, cache_inst, cache_ess, call, frames, answer>>
  BY DependencyOutcome
<1>2. PICK p \in Package, clause \in loop.dependencies :
        /\ loop.cur = {p} /\ loop.dependencies \subseteq Dependencies[p]
        /\ clause \in Dependencies[p] /\ clause \in SUBSET Package
        /\ \/ Fails(clause, p)
           \/ /\ UNCHANGED <<suite_contents, cache_broken, pc>>
              /\ (\E e : Takes(clause, e)) \/ \E chosen : Chooses(clause, chosen)
  BY DependencyOutcome
<1>3. /\ EssentialsInstallable' <=> EssentialsInstallable
      /\ Possible' = Possible
  BY <1>1, InstallableKept
<1>4. pc # "KeyError" /\ (pc' = pc \/ pc' = "KeyError")
  BY <1>1, <1>2 DEF InLoop, Fails
<1>5. EssentialSound'
  BY <1>1, <1>4, EssentialKept DEF PlaceInv, EssentialKnown, Searching
<1>6. EssentialsInstallable => pc' # "KeyError"
  <2>1. SUFFICES ASSUME EssentialsInstallable, Fails(clause, p), p \notin cache_broken
                 PROVE  p \in suite_contents
    BY <1>2, <1>4 DEF Fails
  <2>2. p \in suite
    BY <1>1, <1>2, <2>1 DEF PlaceInv, PlacesOK, LoopWithin
  <2> QED  BY <1>4, <2>1, <2>2 DEF NoInv, ContentsInSync
<1>7. suite_contents \subseteq suite
  BY <1>4 DEF NoInv, ContentsInSync
<1>8. EssentialsInstallable => LoopWithin'
  <2>1. SUFFICES ASSUME LoopWithin PROVE LoopWithin'
    BY <1>1 DEF PlaceInv, PlacesOK
  <2>2. CASE Fails(clause, p)
    BY <1>1, <2>1, <2>2 DEF LoopWithin, Fails
  <2>3. ASSUME NEW e, Takes(clause, e) PROVE LoopWithin'
    BY <1>1, <1>7, <2>1, <2>3 DEF LoopWithin, Takes
  <2>4. ASSUME NEW chosen, Chooses(clause, chosen) PROVE LoopWithin'
    BY <1>1, <1>7, <2>1, <2>4 DEF LoopWithin, Chooses
  <2> QED  BY <1>2, <2>2, <2>3, <2>4
<1>9. CASE pc # "essential" \/ ~EssentialsInstallable
  <2>1. \A i \in DOMAIN frames : FrameWithin(frames[i]) => FrameWithin(frames[i])'
    BY <1>1 DEF FrameWithin
  <2>2. PlacesOK'
    BY <1>1, <1>3, <1>4, <1>6, <1>8, <1>9, <2>1 DEF PlaceInv, PlacesOK, InLoop
  <2>3. EssentialLoopSound'
    BY <1>3, <1>4, <1>9 DEF EssentialLoopSound
  <2> QED  BY <1>5, <2>2, <2>3 DEF PlaceInv
<1>10. CASE pc = "essential" /\ EssentialsInstallable
  <2>1. /\ Essential \cap suite \subseteq loop.musts /\ loop.musts \subseteq EssentialClosure
        /\ UNION loop.choices \subseteq EssentialChoices
        /\ \A q \in loop.musts \ loop.check : \A c \in Dependencies[q] :
             \/ Met(c, loop.musts \cup Settled(loop.musts, loop.never), loop.choices)
             \/ q \in loop.cur /\ c \in loop.dependencies
    BY <1>10 DEF PlaceInv, EssentialLoopSound
  <2>2. p \in loop.musts
    BY <1>2, <1>10 DEF NoInv, LoopsOK, EssentialLoopOK
  <2>3. ~Fails(clause, p)
    <3>1. PICK W \in Possible : TRUE
      BY <1>10, SomePossible
    <3>2. loop.never \subseteq UNION {Conflicts[q] : q \in loop.musts} /\ loop.musts \subseteq W
      BY <1>10 DEF NoInv, LoopsOK, EssentialLoopOK
    <3>3. loop.never \cap W = {} /\ p \in W
      BY <2>2, <3>2, PossibleFacts
    <3>4. BrokenOK /\ ContentsInSync
      BY DEF NoInv, CachesOK
    <3>5. (clause \cap suite_contents) \ loop.never # {}
      BY <1>2, <1>4, <3>3, <3>4, ChosenMeets
    <3> QED  BY <3>5 DEF Fails
  <2>4. UNCHANGED <<suite_contents, cache_broken, pc>>
    BY <1>2, <2>3
  <2>5. clause \subseteq EssentialClosure /\ (Cardinality(clause) > 1 => clause \subseteq EssentialChoices)
    BY <1>2, <2>1, <2>2, ClosureFacts DEF EssentialChoices
  <2>6. PlacesOK'
    <3>1. \A i \in DOMAIN frames : FrameWithin(frames[i]) => FrameWithin(frames[i])'
      BY <1>1 DEF FrameWithin
    <3> QED  BY <1>1, <1>3, <1>6, <1>8, <2>4, <3>1 DEF PlaceInv, PlacesOK, InLoop
  <2>7. ASSUME NEW e, Takes(clause, e) PROVE EssentialLoopSound'
    <3>1. /\ ~loop'.failed /\ loop'.choices = loop.choices /\ e \in clause
          /\ loop'.musts = loop.musts \cup {e} /\ loop'.check = loop.check \cup {e}
          /\ loop'.dependencies = Unsatisfied(loop.dependencies \ {clause}, loop.musts \cup {e})
      BY <2>7 DEF Takes
    <3>2. Settled(loop.musts, loop.never) \subseteq Settled(loop.musts, loop.never)'
      BY <1>1, <3>1 DEF Settled, Unsatisfied
    <3>3. ASSUME NEW q \in loop'.musts \ loop'.check, NEW c \in Dependencies[q]
          PROVE  \/ Met(c, loop'.musts \cup Settled(loop.musts, loop.never)', loop'.choices)
                 \/ q \in loop'.cur /\ c \in loop'.dependencies
      <4>1. q \in loop.musts \ loop.check
        BY <3>1, <3>3
      <4>2. CASE Met(c, loop.musts \cup Settled(loop.musts, loop.never), loop.choices)
        BY <3>1, <3>2, <4>2 DEF Met
      <4>3. CASE q \in loop.cur /\ c \in loop.dependencies
        BY <1>1, <3>1, <4>3 DEF Met, Unsatisfied
      <4> QED  BY <2>1, <4>1, <4>2, <4>3
    <3> QED  BY <1>1, <2>1, <2>5, <3>1, <3>3 DEF EssentialLoopSound, Met
  <2>8. ASSUME NEW chosen, Chooses(clause, chosen) PROVE EssentialLoopSound'
    <3>1. /\ ~loop'.failed /\ loop'.choices = loop.choices \cup {chosen} /\ chosen \subseteq clause
          /\ loop'.musts = loop.musts /\ loop'.check = loop.check /\ Cardinality(clause) > 1
          /\ loop'.dependencies = loop.dependencies \ {clause}
      BY <2>8 DEF Chooses
    <3>2. Settled(loop.musts, loop.never)' = Settled(loop.musts, loop.never)
      BY <1>1, <3>1 DEF Settled, Unsatisfied
    <3>3. ASSUME NEW q \in loop'.musts \ loop'.check, NEW c \in Dependencies[q]
          PROVE  \/ Met(c, loop'.musts \cup Settled(loop.musts, loop.never)', loop'.choices)
                 \/ q \in loop'.cur /\ c \in loop'.dependencies
      <4>1. CASE Met(c, loop.musts \cup Settled(loop.musts, loop.never), loop.choices)
        BY <3>1, <3>2, <4>1 DEF Met
      <4>2. CASE q \in loop.cur /\ c \in loop.dependencies
        BY <1>1, <3>1, <4>2 DEF Met
      <4> QED  BY <2>1, <3>1, <3>3, <4>1, <4>2
    <3>4. UNION loop'.choices \subseteq EssentialChoices
      BY <2>1, <2>5, <3>1
    <3> QED  BY <1>1, <2>1, <3>1, <3>3, <3>4 DEF EssentialLoopSound, Met
  <2> QED  BY <1>2, <1>5, <2>3, <2>6, <2>7, <2>8 DEF PlaceInv
<1> QED  BY <1>9, <1>10

(***************************************************************************)
(* Where frames are made, a search starts and its loops end.               *)
(***************************************************************************)

LEMMA FrameNumbers ==
  ASSUME NEW s \in Seq(FrameType), s # <<>>
  PROVE  /\ Len(s) \in Nat \ {0} /\ Len(s) \in DOMAIN s
         /\ DOMAIN s = (1 .. Len(s) - 1) \cup {Len(s)}
<1>1. Len(s) \in Nat \ {0} /\ DOMAIN s = 1 .. Len(s)
  OBVIOUS
<1>2. \A k \in Nat \ {0} : 1 .. k = (1 .. k - 1) \cup {k} /\ k \in 1 .. k
  OBVIOUS
<1> QED  BY <1>1, <1>2

LEMMA FrameFields ==
  ASSUME NEW musts, NEW never, NEW choices, NEW checks
  PROVE  LET f == Frame(musts, never, choices, checks)
         IN  /\ f.musts = musts /\ f.never = never /\ f.choices = choices /\ f.check = checks
             /\ f.rebuild = {} /\ f.options = {} /\ f.last = {} /\ f.tried = {}
             /\ musts \subseteq suite /\ checks \subseteq suite /\ UNION choices \subseteq suite
                  => FrameWithin(f)
             /\ LET l == LoopOf(f)
                IN  /\ l.musts = musts /\ l.never = never /\ l.choices = choices
                    /\ l.check = checks /\ l.cur = {} /\ l.dependencies = {} /\ ~l.failed
BY DEF Frame, FrameWithin, LoopOf, Loop

LEMMA ReturnPlace ==
  ASSUME NoInv, PlaceInv, call \in CheckType, UNCHANGED <<suite, cache_ess>>, NEW verdict,
         NEW contents, NEW bad, NEW inst, Return(verdict, contents, bad, inst)
  PROVE  PlaceInv'
<1>1. pc' = "idle" /\ frames' = <<>> /\ (call' = call \/ call' = NoCall)
  BY DEF Return
<1>2. EssentialSound'
  BY <1>1, EssentialKept DEF PlaceInv, EssentialKnown, Searching
<1>3. EssentialLoopSound'
  BY <1>1 DEF EssentialLoopSound
<1>4. PlacesOK'
  <2>1. call'.method = "compute" => call'.tcopy \subseteq suite
    BY <1>1 DEF PlaceInv, PlacesOK, NoCall
  <2> QED  BY <1>1, <2>1 DEF PlacesOK, InLoop
<1> QED  BY <1>2, <1>3, <1>4 DEF PlaceInv

\* A search that goes on within the suite.
LEMMA GoOnPlace ==
  ASSUME NoInv, PlaceInv, Searching, Searching', UNCHANGED <<suite, cache_ess, call>>,
         EssentialsInstallable =>
           /\ \A i \in DOMAIN frames' : FrameWithin(frames'[i])
           /\ InLoop' => LoopWithin'
  PROVE  PlaceInv'
<1>1. EssentialsInstallable' <=> EssentialsInstallable
  BY InstallableKept
<1>2. EssentialSound'
  BY EssentialKept DEF PlaceInv, EssentialKnown
<1>3. pc \notin {"idle", "KeyError", "essential", "enter"}
      /\ pc' \notin {"idle", "KeyError", "essential", "enter"}
  BY DEF Searching
<1>4. EssentialLoopSound'
  BY <1>3 DEF EssentialLoopSound
<1>5. PlacesOK'
  <2>1. \A i \in DOMAIN frames' : FrameWithin(frames'[i]) => FrameWithin(frames[i])'
    BY DEF FrameWithin
  <2> QED  BY <1>1, <1>3, <2>1 DEF PlaceInv, PlacesOK
<1> QED  BY <1>2, <1>4, <1>5 DEF PlaceInv

LEMMA FramesWithin ==
  ASSUME NoInv, PlaceInv, Searching, EssentialsInstallable
  PROVE  /\ FrameWithin(Top) /\ \A i \in DOMAIN frames : FrameWithin(frames[i])
         /\ InLoop => LoopWithin
<1>1. /\ \A i \in DOMAIN frames : FrameWithin(frames[i])
      /\ InLoop => LoopWithin
  BY DEF PlaceInv, PlacesOK
<1>2. Len(frames) \in DOMAIN frames
  BY FrameNumbers, SearchFacts
<1> QED  BY <1>1, <1>2 DEF Top

LEMMA FailPlace ==
  ASSUME NoInv, PlaceInv, Searching, Fail, UNCHANGED <<suite, cache_ess>>
  PROVE  PlaceInv'
<1>1. CASE Len(frames) = 1
  BY <1>1, SearchFacts, ReturnPlace DEF Fail
<1>2. CASE Len(frames) # 1
  <2> DEFINE n == Len(frames) - 1
             rest == SubSeq(frames, 1, n)
             caller == frames[n]
             back == [rest[n] EXCEPT !.never = NeverAgain(caller)]
  <2>1. n \in Nat /\ n >= 1
    <3>1. Len(frames) \in Nat \ {0, 1}
      BY <1>2, SearchFacts
    <3>2. ASSUME NEW k \in Nat \ {0, 1} PROVE k - 1 \in Nat /\ k - 1 >= 1
      OBVIOUS
    <3> QED  BY <3>1, <3>2
  <2>2. /\ DOMAIN rest = 1 .. n
        /\ \A i \in 1 .. n : rest[i] = frames[i] /\ i \in DOMAIN frames /\ frames[i] \in FrameType
    <3>1. frames \in Seq(FrameType) /\ \A i \in 1 .. n : frames[i] \in FrameType /\ i \in DOMAIN frames
      <4>1. frames \in Seq(FrameType)
        BY SearchFacts
      <4> QED  BY <4>1, <2>1
    <3> HIDE DEF n
    <3>2. rest = [i \in 1 .. n |-> frames[i]]
      BY <2>1, <3>1
    <3> QED  BY <2>1, <3>1, <3>2
  <2>3. /\ frames' = [rest EXCEPT ![n] = back]
        /\ pc' = "options" /\ loop' = NoLoop
        /\ UNCHANGED <<suite_contents, cache_broken, cache_inst, call, answer>>
    BY <1>2 DEF Fail
  <2>4. rest[n] = caller /\ caller \in FrameType /\ n \in DOMAIN rest
    BY <2>1, <2>2
  <2>5. /\ back.musts = caller.musts /\ back.check = caller.check
        /\ back.choices = caller.choices /\ back.rebuild = caller.rebuild
        /\ back.options = caller.options /\ back.last = caller.last /\ back.tried = caller.tried
    BY <2>4 DEF FrameType
  <2> HIDE DEF n, rest, back
  <2>6. DOMAIN frames' = 1 .. n /\ \A i \in 1 .. n : frames'[i] = IF i = n THEN back ELSE frames[i]
    BY <2>2, <2>3
  <2>7. ASSUME EssentialsInstallable, NEW i \in DOMAIN frames' PROVE FrameWithin(frames'[i])
    <3>1. i \in DOMAIN frames /\ FrameWithin(frames[i])
      BY <2>2, <2>6, <2>7, FramesWithin
    <3>2. CASE i = n
      <4>1. frames'[i] = back /\ frames[i] = caller
        BY <2>6, <2>7, <3>2
      <4> QED  BY <2>5, <3>1, <4>1 DEF FrameWithin
    <3>3. CASE i # n
      BY <2>6, <2>7, <3>1, <3>3
    <3> QED  BY <3>2, <3>3
  <2> QED  BY <2>3, <2>7, GoOnPlace DEF Searching, InLoop
<1> QED  BY <1>1, <1>2

\* Or that gets a new frame at the top.
LEMMA TopPlace ==
  ASSUME NoInv, PlaceInv, Searching, Searching', UNCHANGED <<suite, cache_ess, call>>,
         NEW f \in FrameType, frames' = WithTop(f) \/ frames' = Append(frames, f),
         EssentialsInstallable => FrameWithin(f) /\ (InLoop' => LoopWithin')
  PROVE  PlaceInv'
<1>1. frames \in Seq(FrameType) /\ frames # <<>>
  BY SearchFacts
<1>2. ASSUME EssentialsInstallable, NEW i \in DOMAIN frames' PROVE FrameWithin(frames'[i])
  <2>1. frames'[i] = f \/ (i \in DOMAIN frames /\ frames'[i] = frames[i])
    <3>1. CASE frames' = WithTop(f)
      BY <1>1, <1>2, <3>1 DEF WithTop
    <3>2. CASE frames' = Append(frames, f)
      <4>1. Len(frames) \in Nat /\ DOMAIN frames = 1 .. Len(frames)
        BY <1>1
      <4>2. i \in 1 .. Len(frames) + 1
        BY <1>1, <1>2, <3>2
      <4>3. i = Len(frames) + 1 \/ i \in 1 .. Len(frames)
        BY <4>1, <4>2
      <4> QED  BY <1>1, <3>2, <4>1, <4>3
    <3> QED  BY <3>1, <3>2
  <2> QED  BY <1>2, <2>1, FramesWithin
<1> QED  BY <1>2, GoOnPlace

LEMMA SuccessPlace ==
  ASSUME NoInv, PlaceInv, Searching, NEW musts, Succeed(musts), UNCHANGED <<suite, cache_ess>>
  PROVE  PlaceInv'
BY SearchFacts, ReturnPlace DEF Succeed

LEMMA MainLoopPlace ==
  ASSUME NoInv, PlaceInv, MainLoopEnds
  PROVE  PlaceInv'
<1>1. pc = "main" /\ LoopEnded /\ UNCHANGED <<suite, cache_ess>> /\ Searching /\ InLoop
  BY DEF MainLoopEnds, Searching, InLoop
<1>2. CASE Fail
  BY <1>1, <1>2, FailPlace
<1>3. CASE Succeed(loop.musts)
  BY <1>1, <1>3, SuccessPlace
<1>4. CASE /\ frames' = WithTop(Frame(loop.musts, loop.never, loop.choices, {}))
           /\ pc' = "prune" /\ UNCHANGED call
  <2> DEFINE f == Frame(loop.musts, loop.never, loop.choices, {})
  <2>1. f \in FrameType
    BY <1>1, LoopTypes, FrameTypes DEF NoInv
  <2>2. EssentialsInstallable => FrameWithin(f)
    BY <1>1, FramesWithin DEF FrameWithin, LoopWithin, Frame
  <2> QED  BY <1>1, <1>4, <2>1, <2>2, TopPlace DEF Searching, InLoop
<1> QED  BY <1>2, <1>3, <1>4 DEF MainLoopEnds

LEMMA PrunePlace ==
  ASSUME NoInv, PlaceInv, Prune
  PROVE  PlaceInv'
<1>1. pc = "prune" /\ UNCHANGED <<suite, cache_ess>> /\ Searching
  BY DEF Prune, Searching
<1>2. PICK choice \in Top.choices :
        LET remain == (choice \ Top.never) \ cache_broken
        IN  IF choice \cap Top.musts = {} /\ remain = {} THEN Fail
            ELSE /\ frames' = WithTop(WithoutChoice(Top, choice, remain))
                 /\ UNCHANGED <<suite_contents, cache_broken, cache_inst, call, pc, loop, answer>>
  BY Zenon DEF Prune
<1> DEFINE remain == (choice \ Top.never) \ cache_broken
<1>3. CASE Fail
  BY <1>1, <1>3, FailPlace
<1>4. CASE frames' = WithTop(WithoutChoice(Top, choice, remain)) /\ UNCHANGED <<pc, call>>
  <2> DEFINE f == WithoutChoice(Top, choice, remain)
  <2>1. remain \in SUBSET Package /\ Top \in FrameType /\ remain \subseteq choice
    BY <1>1, TopFields, SearchFacts
  <2>2. /\ Top.choices \ {choice} \in SUBSET SUBSET Package
        /\ Top.check \cup remain \in SUBSET Package /\ Top.musts \cup remain \in SUBSET Package
        /\ Top.rebuild \cup {remain} \in SUBSET SUBSET Package
    BY <1>1, <2>1, TopFields
  <2> HIDE DEF remain
  <2>3. /\ f \in FrameType /\ f.options = Top.options /\ f.last = Top.last /\ f.tried = Top.tried
        /\ f.choices \subseteq Top.choices /\ f.rebuild \subseteq Top.rebuild \cup {remain}
        /\ f.musts \subseteq Top.musts \cup remain /\ f.check \subseteq Top.check \cup remain
    <3>1. CASE f = [Top EXCEPT !.choices = @ \ {choice}]
      BY <2>1, <2>2, <3>1 DEF FrameType
    <3>2. CASE f = [Top EXCEPT !.choices = @ \ {choice}, !.check = @ \cup remain,
                               !.musts = @ \cup remain]
      BY <2>1, <2>2, <3>2 DEF FrameType
    <3>3. CASE f = [Top EXCEPT !.choices = @ \ {choice}, !.rebuild = @ \cup {remain}]
      BY <2>1, <2>2, <3>3 DEF FrameType
    <3> QED  BY <3>1, <3>2, <3>3 DEF WithoutChoice
  <2> HIDE DEF f
  <2>4. FrameWithin(Top) => FrameWithin(f)
    <3> SUFFICES ASSUME FrameWithin(Top) PROVE FrameWithin(f)
      OBVIOUS
    <3>1. remain \subseteq suite
      BY <2>1 DEF FrameWithin
    <3>2. UNION (f.choices \cup f.rebuild) \subseteq suite
      BY <2>3, <3>1 DEF FrameWithin
    <3> QED  BY <2>3, <3>1, <3>2 DEF FrameWithin
  <2>5. frames' = WithTop(f)
    BY <1>4 DEF f
  <2> QED  BY <1>1, <1>4, <2>3, <2>4, <2>5, FramesWithin, TopPlace DEF Searching, InLoop
<1> QED  BY <1>2, <1>3, <1>4

LEMMA PrunedPlace ==
  ASSUME NoInv, PlaceInv, Pruned
  PROVE  PlaceInv'
<1> DEFINE f == Frame(Top.musts, Top.never, Top.rebuild, Top.check)
<1>1. pc = "prune" /\ UNCHANGED <<suite, cache_ess>> /\ Searching
  BY DEF Pruned, Searching
<1>2. CASE Succeed(f.musts)
  BY <1>1, <1>2, SuccessPlace
<1>3. CASE /\ frames' = WithTop(f) /\ UNCHANGED call
           /\ IF f.check = {} THEN pc' = "resolve" /\ loop' = NoLoop
              ELSE pc' = "main" /\ loop' = LoopOf(f)
  <2>1. f \in FrameType
    BY <1>1, TopFields, FrameTypes
  <2>2. EssentialsInstallable => FrameWithin(f)
    BY <1>1, FramesWithin DEF FrameWithin, Frame
  <2>3. EssentialsInstallable => (InLoop' => LoopWithin')
    <3>1. SUFFICES ASSUME EssentialsInstallable, loop' = LoopOf(f) PROVE LoopWithin'
      BY <1>3 DEF InLoop
    <3> QED  BY <1>1, <2>2, <3>1 DEF FrameWithin, LoopWithin, LoopOf, Loop
  <2> QED  BY <1>1, <1>3, <2>1, <2>2, <2>3, TopPlace DEF Searching
<1> QED  BY <1>2, <1>3 DEF Pruned

LEMMA ResolvePlace ==
  ASSUME NoInv, PlaceInv, ResolveChoice
  PROVE  PlaceInv'
<1>1. pc = "resolve" /\ UNCHANGED <<suite, cache_ess>> /\ Searching
  BY DEF ResolveChoice, Searching
<1>2. CASE Top.choices = {}
  BY <1>1, <1>2, SuccessPlace DEF ResolveChoice
<1>3. CASE Top.choices # {}
  <2>0. PICK choice \in Top.choices : \E last \in choice :
          frames' = WithTop([Top EXCEPT !.choices = @ \ {choice},
                                        !.options = choice \ {last}, !.last = {last}])
    BY <1>3 DEF ResolveChoice
  <2>1. PICK last \in choice :
          frames' = WithTop([Top EXCEPT !.choices = @ \ {choice},
                                        !.options = choice \ {last}, !.last = {last}])
    BY <2>0
  <2> DEFINE f == [Top EXCEPT !.choices = @ \ {choice},
                              !.options = choice \ {last}, !.last = {last}]
  <2>2. pc' = "options" /\ UNCHANGED call
    BY <1>3 DEF ResolveChoice
  <2>3. /\ Top.choices \ {choice} \in SUBSET SUBSET Package
        /\ choice \ {last} \in SUBSET Package /\ {last} \in SUBSET Package
        /\ Top \in FrameType
    BY <1>1, TopFields, SearchFacts
  <2>4. /\ f \in FrameType /\ f.musts = Top.musts /\ f.check = Top.check
        /\ f.choices = Top.choices \ {choice} /\ f.rebuild = Top.rebuild
        /\ f.options = choice \ {last} /\ f.last = {last} /\ f.tried = Top.tried
    BY <2>3 DEF FrameType
  <2>5. frames' = WithTop(f)
    BY <2>1
  <2> HIDE DEF f
  <2>6. FrameWithin(Top) => FrameWithin(f)
    BY <2>4 DEF FrameWithin
  <2> QED  BY <1>1, <2>2, <2>4, <2>5, <2>6, FramesWithin, TopPlace DEF Searching, InLoop
<1> QED  BY <1>2, <1>3

LEMMA TryOptionPlace ==
  ASSUME NoInv, PlaceInv, TryOption
  PROVE  PlaceInv'
<1>1. pc = "options" /\ UNCHANGED <<suite, cache_ess, call>> /\ Searching
  BY DEF TryOption, Searching, caches
<1>2. CASE Top.options = {}
  <2> DEFINE f == Frame(Top.musts \cup Top.last, Top.never, Top.choices, Top.last)
  <2>1. frames' = WithTop(f) /\ pc' = "main" /\ loop' = LoopOf(f)
    BY <1>2 DEF TryOption
  <2>2. f \in FrameType
    BY <1>1, TopFields, FrameTypes
  <2>3. EssentialsInstallable => FrameWithin(f)
    <3>1. SUFFICES ASSUME FrameWithin(Top) PROVE FrameWithin(f)
      BY <1>1, FramesWithin
    <3>2. /\ Top.musts \cup Top.last \subseteq suite /\ Top.last \subseteq suite
          /\ UNION Top.choices \subseteq suite
      BY <3>1 DEF FrameWithin
    <3> QED  BY <3>2, FrameFields
  <2>4. EssentialsInstallable => LoopWithin'
    BY <1>1, <2>1, <2>3 DEF FrameWithin, LoopWithin, LoopOf, Loop
  <2> QED  BY <1>1, <2>1, <2>2, <2>3, <2>4, TopPlace DEF Searching
<1>3. CASE Top.options # {}
  <2>1. PICK p \in Top.options :
          /\ frames' = WithTop([Top EXCEPT !.options = OptionsLeft(@, p), !.tried = {p}])
          /\ pc' = "try"
          /\ loop' = Loop(Top.musts \cup {p}, {}, {}, {p})
    BY <1>3 DEF TryOption
  <2> DEFINE f == [Top EXCEPT !.options = OptionsLeft(@, p), !.tried = {p}]
  <2>2. Top \in FrameType /\ Top.options \ {p} \in SUBSET Package /\ {p} \in SUBSET Package
    BY <1>1, TopFields, SearchFacts
  <2>3. /\ f \in FrameType /\ f.musts = Top.musts /\ f.check = Top.check
        /\ f.choices = Top.choices /\ f.rebuild = Top.rebuild
        /\ f.options = Top.options \ {p} /\ f.last = Top.last /\ f.tried = {p}
    BY <2>2 DEF FrameType, OptionsLeft
  <2> HIDE DEF f
  <2>5. FrameWithin(Top) => FrameWithin(f)
    BY <2>1, <2>3 DEF FrameWithin
  <2>4. FrameWithin(Top) => LoopWithin'
    <3>1. /\ loop'.musts = Top.musts \cup {p} /\ loop'.check = {p} /\ loop'.choices = {}
          /\ loop'.cur = {}
      BY <2>1 DEF Loop
    <3> QED  BY <1>1, <2>1, <3>1 DEF FrameWithin, LoopWithin
  <2>6. frames' = WithTop(f)
    BY <2>1 DEF f
  <2> QED  BY <1>1, <2>1, <2>3, <2>4, <2>5, <2>6, FramesWithin, TopPlace DEF Searching
<1> QED  BY <1>2, <1>3

LEMMA TryLoopPlace ==
  ASSUME NoInv, PlaceInv, TryLoopEnds
  PROVE  PlaceInv'
<1>1. pc = "try" /\ UNCHANGED <<suite, cache_ess, call>> /\ Searching /\ InLoop
  BY DEF TryLoopEnds, Searching, InLoop, caches
<1>2. CASE pc' = "options" /\ UNCHANGED frames
  BY <1>1, <1>2, FramesWithin, GoOnPlace DEF Searching, InLoop
<1>3. CASE /\ frames' = WithTop(Frame(Top.musts \cup loop.musts, Top.never, Top.choices, {}))
           /\ pc' = "resolve"
  <2> DEFINE f == Frame(Top.musts \cup loop.musts, Top.never, Top.choices, {})
  <2>1. f \in FrameType
    BY <1>1, TopFields, LoopTypes, FrameTypes DEF NoInv
  <2>2. EssentialsInstallable => FrameWithin(f)
    BY <1>1, FramesWithin DEF FrameWithin, LoopWithin, Frame
  <2> QED  BY <1>1, <1>3, <2>1, <2>2, TopPlace DEF Searching, InLoop
<1> DEFINE g == Frame(loop.musts, loop.never \cup Top.never, loop.choices \cup Top.choices, Top.tried)
<1>4. CASE frames' = Append(frames, g) /\ pc' = "main" /\ loop' = LoopOf(g)
  <2>1. g \in FrameType
    BY <1>1, TopFields, LoopTypes, FrameTypes DEF NoInv
  <2>2. EssentialsInstallable => FrameWithin(g)
    <3>1. SUFFICES ASSUME FrameWithin(Top), LoopWithin PROVE FrameWithin(g)
      BY <1>1, FramesWithin
    <3>2. /\ loop.musts \subseteq suite /\ Top.tried \subseteq suite
          /\ UNION (loop.choices \cup Top.choices) \subseteq suite
      BY <3>1 DEF FrameWithin, LoopWithin
    <3> QED  BY <3>2, FrameFields
  <2>3. EssentialsInstallable => LoopWithin'
    BY <1>1, <1>4, <2>2 DEF FrameWithin, LoopWithin, LoopOf, Loop
  <2> QED  BY <1>1, <1>4, <2>1, <2>2, <2>3, TopPlace DEF Searching
<1> QED  BY <1>2, <1>3, <1>4 DEF TryLoopEnds

LEMMA EssentialLoopPlace ==
  ASSUME NoInv, PlaceInv, EssentialLoopEnds
  PROVE  PlaceInv'
<1> DEFINE left == Unsatisfied(loop.choices, loop.musts)
           settled == {choice \in left : \E c \in choice : Settles(c)}
<1>1. /\ pc = "essential" /\ loop \in LoopType /\ InLoop /\ LoopEnded
      /\ UNCHANGED <<suite, suite_contents, cache_broken, cache_inst, call, frames, answer>>
  BY DEF EssentialLoopEnds, NoInv, Inv, SearchOK, InLoop
<1>2. PICK picked \in [settled -> Package] :
        /\ \A choice \in settled : picked[choice] \in choice /\ Settles(picked[choice])
        /\ LET base == loop.check \cup {picked[choice] : choice \in settled}
           IN  IF loop.choices # {} /\ base # {}
               THEN /\ loop' = Loop(loop.musts, loop.never, left \ settled, base)
                    /\ UNCHANGED <<pc, cache_ess>>
               ELSE /\ cache_ess' = [start |-> loop.musts,
                                     never |-> loop.never \cup UNION {Conflicts[p] : p \in loop.musts},
                                     choices |-> left \ settled]
                    /\ pc' = "enter" /\ loop' = NoLoop
  BY Zenon DEF EssentialLoopEnds
<1> DEFINE base == loop.check \cup {picked[choice] : choice \in settled}
           S == Settled(loop.musts, loop.never)
<1>3. /\ EssentialsInstallable' <=> EssentialsInstallable
      /\ Possible' = Possible
      /\ \A musts, never : Settled(musts, never)' = Settled(musts', never')
  BY <1>1, InstallableKept
<1>4. left \ settled \subseteq loop.choices
  BY DEF Unsatisfied
\* Where the essential packages are installable:
<1>5. ASSUME EssentialsInstallable
      PROVE  /\ ~loop.failed /\ loop.check = {} /\ loop.dependencies = {} /\ LoopWithin
             /\ Essential \cap suite \subseteq loop.musts /\ loop.musts \subseteq EssentialClosure
             /\ UNION loop.choices \subseteq EssentialChoices
             /\ base \subseteq UNION loop.choices
             /\ \A p \in loop.musts : \A clause \in Dependencies[p] :
                  Met(clause, loop.musts \cup S, left \ settled)
  <2>1. /\ ~loop.failed /\ LoopWithin
        /\ Essential \cap suite \subseteq loop.musts /\ loop.musts \subseteq EssentialClosure
        /\ UNION loop.choices \subseteq EssentialChoices
        /\ \A p \in loop.musts \ loop.check : \A clause \in Dependencies[p] :
             \/ Met(clause, loop.musts \cup S, loop.choices)
             \/ p \in loop.cur /\ clause \in loop.dependencies
    BY <1>1, <1>5 DEF PlaceInv, PlacesOK, EssentialLoopSound
  <2>2. loop.check = {} /\ loop.dependencies = {}
    BY <1>1, <2>1 DEF LoopEnded
  <2>3. base \subseteq UNION loop.choices
    BY <1>2, <2>2 DEF Unsatisfied
  <2>4. ASSUME NEW c \in loop.choices
        PROVE  c \cap (loop.musts \cup S) # {} \/ c \in left \ settled
    <3>1. SUFFICES ASSUME c \in settled PROVE c \cap S # {}
      BY <2>4 DEF Unsatisfied
    <3>2. picked[c] \in c /\ Settles(picked[c])
      BY <1>2, <3>1
    <3>3. picked[c] \in EssentialChoices \cap suite
      BY <2>1, <2>4, <3>2 DEF LoopWithin
    <3>4. picked[c] \in S
      BY <3>2, <3>3 DEF Settles, Settled
    <3> QED  BY <3>2, <3>4
  <2> HIDE DEF left, settled, S, base
  <2>5. ASSUME NEW p \in loop.musts, NEW clause \in Dependencies[p]
        PROVE  Met(clause, loop.musts \cup S, left \ settled)
    <3>1. Met(clause, loop.musts \cup S, loop.choices)
      BY <2>1, <2>2, <2>5
    <3> QED  BY <2>4, <3>1 DEF Met
  <2> QED  BY <2>1, <2>2, <2>3, <2>5
<1>6. ASSUME pc' \in {"essential", "enter"}, EssentialSound', EssentialLoopSound',
             EssentialsInstallable => (pc' = "essential" => LoopWithin')
      PROVE  PlaceInv'
  <2>1. \A i \in DOMAIN frames : FrameWithin(frames[i]) => FrameWithin(frames[i])'
    BY <1>1 DEF FrameWithin
  <2>2. PlacesOK'
    BY <1>1, <1>3, <1>6, <2>1 DEF PlaceInv, PlacesOK, InLoop
  <2> QED  BY <1>6, <2>2 DEF PlaceInv
<1> HIDE DEF left, settled, base, S
<1>7. CASE loop.choices # {} /\ base # {}
  <2>1. loop' = Loop(loop.musts, loop.never, left \ settled, base) /\ UNCHANGED <<pc, cache_ess>>
    BY <1>2, <1>7 DEF left, settled, base
  <2>2. /\ loop'.musts = loop.musts /\ loop'.never = loop.never
        /\ loop'.choices = left \ settled /\ loop'.check = base /\ loop'.cur = {}
        /\ loop'.dependencies = {} /\ ~loop'.failed
    BY <2>1 DEF Loop
  <2>3. EssentialSound'
    BY <1>1, <2>1, EssentialKept DEF PlaceInv, EssentialKnown, Searching
  <2>4. EssentialLoopSound'
    <3> SUFFICES ASSUME EssentialsInstallable PROVE EssentialLoopSound'
      BY <1>3 DEF EssentialLoopSound
    <3>1. Settled(loop.musts, loop.never)' = S
      BY <1>3, <2>2 DEF S
    <3>2. UNION loop'.choices \subseteq EssentialChoices
      BY <1>4, <1>5, <2>2
    <3> QED  BY <1>1, <1>5, <2>2, <3>1, <3>2 DEF EssentialLoopSound, Met
  <2>5. EssentialsInstallable => LoopWithin'
    BY <1>1, <1>4, <1>5, <2>2 DEF LoopWithin
  <2> QED  BY <1>1, <1>6, <2>1, <2>3, <2>4, <2>5
<1>8. CASE ~(loop.choices # {} /\ base # {})
  <2>1. /\ cache_ess' = [start |-> loop.musts,
                         never |-> loop.never \cup UNION {Conflicts[p] : p \in loop.musts},
                         choices |-> left \ settled]
        /\ pc' = "enter"
    BY <1>2, <1>8 DEF left, settled, base
  <2>2. /\ loop.never \subseteq UNION {Conflicts[p] : p \in loop.musts}
        /\ \A W \in Possible : loop.musts \subseteq W
    BY <1>1 DEF NoInv, LoopsOK, EssentialLoopOK
  <2>3. /\ cache_ess'.start = loop.musts
        /\ cache_ess'.never = UNION {Conflicts[p] : p \in loop.musts}
        /\ cache_ess'.choices = left \ settled
    BY <2>1, <2>2
  <2>4. EssentialSound'
    <3>1. SUFFICES ASSUME EssentialsInstallable
                   PROVE  /\ Essential \cap suite \subseteq loop.musts /\ loop.musts \subseteq suite
                          /\ UNION (left \ settled) \subseteq EssentialChoices \cap suite
                          /\ \A p \in loop.musts : \A clause \in Dependencies[p] :
                               Met(clause,
                                   loop.musts \cup Settled(cache_ess.start, cache_ess.never)',
                                   left \ settled)
      BY <1>1, <1>3, <2>2, <2>3 DEF EssentialSound, Met
    <3>2. S \subseteq Settled(cache_ess.start, cache_ess.never)'
      BY <1>3, <2>2, <2>3, SettledGrows DEF S
    <3>3. UNION (left \ settled) \subseteq EssentialChoices \cap suite
      BY <1>4, <1>5, <3>1 DEF LoopWithin
    <3> QED  BY <1>5, <3>1, <3>2, <3>3 DEF LoopWithin, Met
  <2>5. EssentialLoopSound'
    BY <2>1 DEF EssentialLoopSound
  <2> QED  BY <1>6, <2>1, <2>4, <2>5
<1> QED  BY <1>7, <1>8

LEMMA EnterPlace ==
  ASSUME NoInv, PlaceInv, Enter
  PROVE  PlaceInv'
<1>1. /\ pc = "enter" /\ UNCHANGED <<suite, cache_ess>> /\ call \in CheckType
      /\ cache_ess \in EssentialType /\ (EssentialsInstallable' <=> EssentialsInstallable)
  BY InstallableKept DEF Enter, NoInv, Inv, SearchOK
<1>2. CASE call.t \in cache_ess.never /\ call.t \in suite_contents
  <2>1. Return(FALSE, suite_contents \ {call.t}, cache_broken \cup {call.t}, cache_inst)
    BY <1>2 DEF Enter
  <2> QED  BY <1>1, <2>1, ReturnPlace
<1>3. CASE call.t \in cache_ess.never /\ call.t \notin suite_contents
  <2>1. pc' = "KeyError" /\ UNCHANGED <<call, frames>>
    BY <1>1, <1>3 DEF Enter
  <2>2. ~EssentialsInstallable
    BY <1>1, <1>3 DEF PlaceInv, PlacesOK
  <2>3. EssentialSound'
    BY <1>1, <2>1, EssentialKept DEF PlaceInv, EssentialKnown
  <2> QED  BY <1>1, <2>1, <2>2, <2>3 DEF PlaceInv, PlacesOK, EssentialLoopSound
<1>4. CASE call.t \notin cache_ess.never
  <2> DEFINE f == Frame({call.t} \cup cache_ess.start, cache_ess.never, cache_ess.choices, {call.t})
  <2>1. frames' = <<f>> /\ pc' = "main" /\ loop' = LoopOf(f) /\ call' = call
    BY <1>4 DEF Enter
  <2>2. EssentialSound'
    BY <1>1, <2>1, EssentialKept DEF PlaceInv, EssentialKnown
  <2>3. EssentialsInstallable => FrameWithin(f)
    <3>1. SUFFICES ASSUME EssentialsInstallable PROVE FrameWithin(f)
      OBVIOUS
    <3>2. call.t \in suite /\ cache_ess.start \subseteq suite /\ UNION cache_ess.choices \subseteq suite
      BY <1>1, <3>1 DEF PlaceInv, PlacesOK, EssentialSound, EssentialKnown
    <3> QED  BY <3>2, FrameFields
  <2>4. EssentialsInstallable => LoopWithin'
    BY <1>1, <2>1, <2>3 DEF FrameWithin, LoopWithin, LoopOf, Loop
  <2> HIDE DEF f
  <2>5. \A i \in DOMAIN frames' : frames'[i] = f
    BY <2>1
  <2>6. FrameWithin(f) => \A i \in DOMAIN frames' : FrameWithin(frames[i])'
    BY <1>1, <2>5 DEF FrameWithin
  <2>7. PlacesOK'
    BY <1>1, <2>1, <2>3, <2>4, <2>6 DEF PlaceInv, PlacesOK
  <2> QED  BY <2>1, <2>2, <2>7 DEF PlaceInv, EssentialLoopSound
<1> QED  BY <1>2, <1>3, <1>4

LEMMA BeginPlace ==
  ASSUME NoInv, PlaceInv, Idle, NEW t \in suite_contents, Begin(t), call'.t = t,
         UNCHANGED <<suite, suite_contents, caches>>,
         call'.method = "compute" => call'.tcopy \subseteq suite
  PROVE  PlaceInv'
<1>1. /\ EssentialsInstallable' <=> EssentialsInstallable
      /\ suite_contents \subseteq suite
  BY InstallableKept DEF NoInv, ContentsInSync, Idle
<1>2. frames' = <<Frame({t}, {}, {}, {t})>> /\ pc' \in {"essential", "enter"}
  BY DEF Begin
<1>3. \A i \in DOMAIN frames' : FrameWithin(frames[i])'
  <2>1. \A i \in DOMAIN frames' : frames'[i] = Frame({t}, {}, {}, {t})
    BY <1>2
  <2>2. FrameWithin(Frame({t}, {}, {}, {t}))
    BY <1>1, FrameFields
  <2> QED  BY <2>1, <2>2 DEF FrameWithin
<1>4. CASE cache_ess = NoEssential
  <2> DEFINE base == Essential \cap suite_contents
  <2>1. pc' = "essential" /\ loop' = Loop(base, {}, {}, base)
    BY <1>4 DEF Begin
  <2>2. EssentialSound'
    BY <1>4, <2>1 DEF EssentialSound, EssentialKnown, Searching, caches
  <2> HIDE DEF base
  <2>3. /\ loop'.musts = base /\ loop'.check = base /\ loop'.cur = {} /\ loop'.choices = {}
        /\ ~loop'.failed
    BY <2>1 DEF Loop
  <2>4. EssentialsInstallable => Essential \cap suite \subseteq base
    <3>1. SUFFICES ASSUME EssentialsInstallable, NEW p \in Essential, p \in suite
                   PROVE  p \in suite_contents
      BY DEF base
    <3>2. PICK W \in Possible : TRUE
      BY <3>1, SomePossible
    <3>3. p \in W
      BY <3>1 DEF Possible
    <3> QED  BY <3>1, <3>3, CertainlyThere DEF Idle
  <2>5. base \subseteq EssentialClosure
    BY ClosureFacts DEF base
  <2>6. EssentialLoopSound'
    BY <1>1, <2>1, <2>3, <2>4, <2>5 DEF EssentialLoopSound
  <2>7. LoopWithin'
    BY <1>1, <2>3 DEF LoopWithin, base
  <2>8. PlacesOK'
    BY <1>1, <1>3, <2>1, <2>7 DEF PlacesOK
  <2> QED  BY <2>2, <2>6, <2>8 DEF PlaceInv
<1>5. CASE cache_ess # NoEssential
  <2>1. pc' = "enter"
    BY <1>5 DEF Begin
  <2>2. EssentialSound'
    BY <1>5, EssentialKept DEF PlaceInv, EssentialKnown, caches
  <2>3. PlacesOK'
    BY <1>1, <1>3, <2>1 DEF PlacesOK, InLoop
  <2> QED  BY <2>1, <2>2, <2>3 DEF PlaceInv, EssentialLoopSound
<1> QED  BY <1>4, <1>5

\* Nothing begins, and nothing is under way.
LEMMA IdlePlace ==
  ASSUME NoInv, PlaceInv, Idle, UNCHANGED <<suite, caches, pc, frames>>,
         call'.method = "compute" => call'.tcopy \subseteq suite
  PROVE  PlaceInv'
<1>1. EssentialSound'
  BY EssentialKept DEF PlaceInv, EssentialKnown, Searching, caches
<1> QED  BY <1>1 DEF PlaceInv, PlacesOK, EssentialLoopSound, Idle, InLoop

LEMMA QueryPlace ==
  ASSUME NoInv, PlaceInv, \/ \E t \in Package : is_installable(t)
                          \/ compute_installability \/ ComputeNext
  PROVE  PlaceInv'
<1>1. ASSUME NEW t \in Package, is_installable(t) PROVE PlaceInv'
  <2>1. CASE UNCHANGED search
    <3>1. call'.method = "none"
      BY <1>1, <2>1 DEF is_installable, search, NoCall
    <3> QED  BY <1>1, <2>1, <3>1, IdlePlace DEF is_installable, search
  <2>2. CASE t \in suite_contents /\ call' = [method |-> "is_installable", t |-> t] /\ Begin(t)
    BY <1>1, <2>2, BeginPlace DEF is_installable
  <2> QED  BY <1>1, <2>1, <2>2 DEF is_installable
<1>2. CASE compute_installability
  <2>1. suite_contents \subseteq suite
    BY <1>2 DEF compute_installability, Idle, NoInv, ContentsInSync
  <2> QED  BY <1>2, <2>1, IdlePlace DEF compute_installability
<1>3. CASE ComputeNext
  <2> DEFINE left == call.tcopy \ (cache_inst \cup cache_broken)
  <2>1. /\ Idle /\ UNCHANGED <<suite, suite_contents, caches, answer>> /\ call # NoCall
        /\ IF left = {} THEN call' = NoCall /\ UNCHANGED <<pc, frames, loop>>
           ELSE \E t \in left :
                  call' = [method |-> "compute", tcopy |-> left \ {t}, t |-> t] /\ Begin(t)
    BY <1>3 DEF ComputeNext
  <2>2. CASE call' = NoCall /\ UNCHANGED <<pc, frames, loop>>
    <3>1. call'.method = "none"
      BY <2>2 DEF NoCall
    <3> QED  BY <2>1, <2>2, <3>1, IdlePlace
  <2>3. ASSUME NEW t \in left, call' = [method |-> "compute", tcopy |-> left \ {t}, t |-> t], Begin(t)
        PROVE  PlaceInv'
    <3>1. call.method = "compute"
      BY <2>1 DEF NoInv, Inv, TypeOK, SearchOK, Idle, CheckType
    <3>2. left \subseteq suite
      BY <3>1 DEF PlaceInv, PlacesOK
    <3>3. t \in suite_contents
      BY <2>1, <2>3, <3>2 DEF NoInv, ContentsInSync, Idle
    <3>4. call'.t = t /\ call'.tcopy \subseteq suite
      BY <2>3, <3>2
    <3> QED  BY <2>1, <2>3, <3>3, <3>4, BeginPlace
  <2> QED  BY <2>1, <2>2, <2>3
<1> QED  BY <1>1, <1>2, <1>3

(***************************************************************************)
(* Where packages come and go, and every step.                             *)
(***************************************************************************)

\* Without a package that no essential one is or may need, no less is installable.
LEMMA AddedInstallable ==
  ASSUME NEW p \in Package, suite' = suite \cup {p}, p \notin EssentialClosure \/ p \in Broken,
         EssentialsInstallable'
  PROVE  EssentialsInstallable /\ Essential \cap suite' = Essential \cap suite
<1>1. PICK W : /\ W \in SUBSET Package /\ Consistent(W) /\ W \subseteq suite \cup {p}
               /\ Essential \cap (suite \cup {p}) \subseteq W
  BY DEF EssentialsInstallable, Solutions, Consistents, Consistent, Unsatisfied
<1>2. \A q \in W : Conflicts[q] \cap W = {} /\ \A clause \in Dependencies[q] : clause \cap W # {}
  BY <1>1 DEF Consistent, Unsatisfied
<1>3. ASSUME NEW U \in SUBSET W, p \notin U, Essential \cap suite \subseteq U, p \notin Essential,
             \A q \in U : \A clause \in Dependencies[q] : clause \cap U # {}
      PROVE  EssentialsInstallable /\ Essential \cap suite' = Essential \cap suite
  <2>1. Consistent(U)
    BY <1>2, <1>3 DEF Consistent, Unsatisfied
  <2>2. U \in Consistents
    BY <1>1, <2>1 DEF Consistents
  <2>3. U \in Solutions(suite)
    BY <1>1, <1>3, <2>2 DEF Solutions
  <2> QED  BY <1>3, <2>3 DEF EssentialsInstallable
<1>4. CASE p \in Broken
  <2>1. {} \in Dependencies[p]
    BY <1>4, BuilderAssumption
  <2>2. p \notin W
    BY <1>2, <2>1
  <2> QED  BY <1>1, <1>2, <1>3, <2>2
<1>5. CASE p \notin EssentialClosure
  <2> DEFINE U == W \cap EssentialClosure
  <2>1. ASSUME NEW q \in U, NEW clause \in Dependencies[q] PROVE clause \cap U # {}
    <3>1. PICK r \in clause : r \in W
      BY <1>2, <2>1
    <3>2. clause \subseteq EssentialClosure
      BY <2>1, ClosureFacts
    <3> QED  BY <3>1, <3>2
  <2>2. p \notin U /\ Essential \cap suite \subseteq U /\ p \notin Essential /\ U \subseteq W
    BY <1>1, <1>5, ClosureFacts
  <2> HIDE DEF U
  <2> QED  BY <1>3, <2>1, <2>2
<1> QED  BY <1>4, <1>5

LEMMA AddPlace ==
  ASSUME NoInv, NoInv', PlaceInv, NEW p \in Package, add_binary(p)
  PROVE  PlaceInv'
<1>1. /\ suite' = suite \cup {p} /\ pc' = "idle" /\ pc = "idle"
      /\ UNCHANGED <<call, pc, frames, loop>> /\ call = NoCall
  BY DEF add_binary, Idle, search
<1>2. \/ cache_ess' = NoEssential
      \/ cache_ess' = cache_ess /\ (p \notin EssentialClosure \/ p \in Broken)
  BY DEF add_binary, EssentialWith, caches
<1>3. frames = <<>> /\ call.method = "none"
  BY <1>1 DEF PlaceInv, PlacesOK, NoCall
<1>4. PlacesOK'
  BY <1>1, <1>3 DEF PlacesOK, InLoop
<1>5. EssentialLoopSound'
  BY <1>1 DEF EssentialLoopSound
<1>6. EssentialSound'
  <2>1. SUFFICES ASSUME cache_ess' # NoEssential PROVE EssentialSound'
    BY <1>1 DEF EssentialSound, EssentialKnown, Searching
  <2>2. cache_ess' = cache_ess /\ (p \notin EssentialClosure \/ p \in Broken)
    BY <1>2, <2>1
  <2>3. /\ cache_ess'.never = UNION {Conflicts[q] : q \in cache_ess'.start}
        /\ \A W \in Possible' : cache_ess'.start \subseteq W
    BY <2>1 DEF NoInv, CachesOK, EssentialOK
  <2>4. ASSUME EssentialsInstallable'
        PROVE  /\ Essential \cap suite' \subseteq cache_ess.start /\ cache_ess.start \subseteq suite'
               /\ UNION cache_ess.choices \subseteq EssentialChoices \cap suite'
               /\ \A q \in cache_ess.start : \A clause \in Dependencies[q] :
                    Met(clause,
                        cache_ess.start \cup Settled(cache_ess.start, cache_ess.never)',
                        cache_ess.choices)
    <3>1. EssentialsInstallable /\ Essential \cap suite' = Essential \cap suite
      BY <1>1, <2>2, <2>4, AddedInstallable
    <3>2. /\ Essential \cap suite \subseteq cache_ess.start /\ cache_ess.start \subseteq suite
          /\ UNION cache_ess.choices \subseteq EssentialChoices \cap suite
          /\ \A q \in cache_ess.start : \A clause \in Dependencies[q] :
               Met(clause, cache_ess.start \cup Settled(cache_ess.start, cache_ess.never),
                   cache_ess.choices)
      BY <2>1, <2>2, <3>1 DEF PlaceInv, EssentialSound, EssentialKnown
    <3>3. Settled(cache_ess.start, cache_ess.never)
            \subseteq Settled(cache_ess.start, cache_ess.never)'
      BY <1>1, <2>2 DEF Settled, Unsatisfied
    <3> QED  BY <1>1, <3>1, <3>2, <3>3 DEF Met
  <2> QED  BY <2>2, <2>3, <2>4 DEF EssentialSound, Met
<1> QED  BY <1>4, <1>5, <1>6 DEF PlaceInv

LEMMA RemovedInstallable ==
  ASSUME NEW p, suite' = suite \ {p}, p \notin Essential
  PROVE  Solutions(suite)' \subseteq Solutions(suite)
<1>1. Solutions(suite)' = Solutions(suite \ {p})
  BY DEF Solutions, Consistents, Consistent, Unsatisfied
<1> QED  BY <1>1 DEF Solutions

LEMMA RemovePlace ==
  ASSUME EssentialsStay, NoInv, NoInv', PlaceInv, NEW p \in Removable, remove_binary(p)
  PROVE  PlaceInv'
<1>1. /\ suite' = suite \ {p} /\ pc' = "idle" /\ pc = "idle"
      /\ UNCHANGED <<call, pc, frames, loop>> /\ call = NoCall
      /\ p \notin Essential /\ p \notin EssentialChoices
  BY DEF remove_binary, Idle, search, EssentialsStay
<1>2. /\ cache_ess' = NoEssential \/ cache_ess' = cache_ess
      /\ p \in suite_contents /\ cache_ess # NoEssential /\ p \in cache_ess.start =>
           cache_ess' = NoEssential
  BY DEF remove_binary
<1>3. frames = <<>> /\ call.method = "none"
  BY <1>1 DEF PlaceInv, PlacesOK, NoCall
<1>4. PlacesOK'
  BY <1>1, <1>3 DEF PlacesOK, InLoop
<1>5. EssentialLoopSound'
  BY <1>1 DEF EssentialLoopSound
<1>6. EssentialSound'
  <2>1. SUFFICES ASSUME cache_ess' # NoEssential PROVE EssentialSound'
    BY <1>1 DEF EssentialSound, EssentialKnown, Searching
  <2>2. cache_ess' = cache_ess
    BY <1>2, <2>1
  <2>3. /\ cache_ess'.never = UNION {Conflicts[q] : q \in cache_ess'.start}
        /\ \A W \in Possible' : cache_ess'.start \subseteq W
    BY <2>1 DEF NoInv, CachesOK, EssentialOK
  <2>4. ASSUME EssentialsInstallable'
        PROVE  /\ Essential \cap suite' \subseteq cache_ess.start /\ cache_ess.start \subseteq suite'
               /\ UNION cache_ess.choices \subseteq EssentialChoices \cap suite'
               /\ \A q \in cache_ess.start : \A clause \in Dependencies[q] :
                    Met(clause,
                        cache_ess.start \cup Settled(cache_ess.start, cache_ess.never)',
                        cache_ess.choices)
    <3>1. EssentialsInstallable
      BY <1>1, <2>4, RemovedInstallable DEF EssentialsInstallable
    <3>2. /\ Essential \cap suite \subseteq cache_ess.start /\ cache_ess.start \subseteq suite
          /\ UNION cache_ess.choices \subseteq EssentialChoices \cap suite
          /\ \A W \in Possible : cache_ess.start \subseteq W
          /\ \A q \in cache_ess.start : \A clause \in Dependencies[q] :
               Met(clause, cache_ess.start \cup Settled(cache_ess.start, cache_ess.never),
                   cache_ess.choices)
      BY <2>1, <2>2, <3>1 DEF PlaceInv, EssentialSound, EssentialKnown
    <3>3. p \notin cache_ess.start
      <4>1. SUFFICES ASSUME p \in cache_ess.start PROVE FALSE
        OBVIOUS
      <4>2. PICK W \in Possible : TRUE
        BY <3>1, SomePossible
      <4>3. p \in suite_contents
        BY <1>1, <3>2, <4>1, <4>2, CertainlyThere
      <4> QED  BY <1>2, <2>1, <2>2, <4>1, <4>3
    <3>4. Settled(cache_ess.start, cache_ess.never)'
            = Settled(cache_ess.start, cache_ess.never)
      BY <1>1, <2>2 DEF Settled, Unsatisfied
    <3> QED  BY <1>1, <3>2, <3>3, <3>4
  <2> QED  BY <2>2, <2>3, <2>4 DEF EssentialSound, Met
<1> QED  BY <1>4, <1>5, <1>6 DEF PlaceInv

LEMMA NextPlace ==
  ASSUME EssentialsStay, NoInv, NoInv', PlaceInv, [Next]_vars
  PROVE  PlaceInv'
<1>1. ASSUME Next PROVE PlaceInv'
  <2>1. ASSUME NEW p \in Package, add_binary(p) \/ is_installable(p) PROVE PlaceInv'
    BY <2>1, AddPlace, QueryPlace
  <2>2. ASSUME NEW p \in Removable, remove_binary(p) PROVE PlaceInv'
    BY <2>2, RemovePlace
  <2> QED
    BY <1>1, <2>1, <2>2, QueryPlace, EnterPlace, CheckPackagePlace, CheckDependencyPlace,
       EssentialLoopPlace, MainLoopPlace, PrunePlace, PrunedPlace, ResolvePlace, TryOptionPlace,
       TryLoopPlace DEF Next, Step
<1>2. CASE UNCHANGED vars
  <2>1. UNCHANGED <<suite, suite_contents, cache_broken, cache_inst, cache_ess, call, pc, frames,
                    loop, answer>>
    BY <1>2 DEF vars, caches, search
  <2>2. /\ EssentialsInstallable' <=> EssentialsInstallable
        /\ Possible' = Possible
        /\ \A musts, never : Settled(musts, never)' = Settled(musts', never')
    BY <2>1, InstallableKept
  <2>3. EssentialSound'
    BY <2>1, EssentialKept DEF PlaceInv, EssentialKnown, Searching
  <2>4. EssentialLoopSound'
    <3>1. Settled(loop.musts, loop.never)' = Settled(loop.musts, loop.never)
      BY <2>1, <2>2
    <3> QED  BY <2>1, <2>2, <3>1 DEF PlaceInv, EssentialLoopSound, Met
  <2>5. PlacesOK'
    <3>1. \A i \in DOMAIN frames : FrameWithin(frames[i])' <=> FrameWithin(frames[i])
      BY <2>1 DEF FrameWithin
    <3> QED  BY <2>1, <2>2, <3>1 DEF PlaceInv, PlacesOK, InLoop, LoopWithin
  <2> QED  BY <2>3, <2>4, <2>5 DEF PlaceInv
<1> QED  BY <1>1, <1>2

LEMMA InitPlace ==
  ASSUME Init
  PROVE  PlaceInv
<1>1. ~EssentialKnown \/ cache_ess # NoEssential
  BY DEF Init, EssentialKnown, Searching
<1>2. EssentialSound
  BY DEF Init, EssentialSound, EssentialKnown, Searching
<1>3. PlacesOK
  BY DEF Init, PlacesOK, NoCall, InLoop
<1> QED  BY <1>2, <1>3 DEF Init, PlaceInv, EssentialLoopSound

(***************************************************************************)
(* A search that succeeds has found a solution.  A package may be found    *)
(* broken while frames wait that hold it, or that have it for an           *)
(* alternative: such a frame is lost, which the tester only finds out when *)
(* it gets there, or the alternative is.                                   *)
(***************************************************************************)

\* No package of the clause is there or taken.
Hopeless(clause, musts) == clause \cap (suite_contents \cup musts) = {}
Doomed(p, musts) == \E clause \in Dependencies[p] : Hopeless(clause, musts \cup {p})

\* The choice that a frame guesses at, but for the options that failed before.
Guess(f) == f.options \cup f.last \cup f.tried

Lost(f) ==
  \/ \E choice \in f.choices \cup f.rebuild : Hopeless(choice, f.musts)
  \/ f.last # {} /\ Hopeless(Guess(f), f.musts)
  \/ \E p \in f.check : Doomed(p, f.musts)

Peaceful(S) == \A p \in S : Conflicts[p] \cap S = {}
Sound(S) == S \subseteq suite_contents /\ Peaceful(S)

SettledOnes == Settled(cache_ess.start, cache_ess.never)

\* Who is taken and checked has what it needs, or will by a choice.
Served(f) ==
  \A p \in f.musts \ f.check : \A clause \in Dependencies[p] :
    \/ Met(clause, f.musts \cup SettledOnes, f.choices \cup f.rebuild)
    \/ f.last # {} /\ Guess(f) \subseteq clause

FrameSound(f) ==
  /\ {call.t} \cup cache_ess.start \subseteq f.musts /\ f.check \subseteq f.musts
  /\ Served(f)
  /\ Lost(f) \/ (f.musts \subseteq suite_contents /\ Peaceful(f.musts \ f.check))

\* An alternative is there, or will be found not to be.
AlternativesSound(f) ==
  \A p \in (UNION f.choices) \cup Guess(f) : p \in suite_contents \cup f.musts \/ Doomed(p, f.musts)

\* A frame between its loops, and one that guesses.
Ready(f) == FrameSound(f) /\ AlternativesSound(f) /\ f.check = {} /\ f.rebuild = {}
Guesses(f) == \E last : f.last = {last}
Within(f, musts) == f.musts \subseteq musts /\ f.tried \cap musts # {}

BelowSound ==
  \A i \in Below : /\ Ready(frames[i]) /\ Guesses(frames[i])
                   /\ \A j \in DOMAIN frames : i < j => Within(frames[i], frames[j].musts)

\* The same of a loop, with what else was taken and is still to be chosen.
LoopLost == (\E p \in loop.check : Doomed(p, loop.musts))
              \/ \E clause \in loop.dependencies : Hopeless(clause, loop.musts)
LoopServed(choices) ==
  \A p \in loop.musts \ loop.check : \A clause \in Dependencies[p] :
    \/ Met(clause, loop.musts \cup SettledOnes, loop.choices \cup choices)
    \/ p \in loop.cur /\ clause \in loop.dependencies
LoopPending ==
  /\ loop.check \subseteq loop.musts
  /\ loop.dependencies # {} => loop.cur \subseteq loop.musts
  /\ \A clause \in loop.dependencies : clause \cap loop.musts = {}
LoopGood(musts) ==
  \/ LoopLost
  \/ loop.musts \ musts \subseteq suite_contents /\ Peaceful(loop.musts \ (musts \cup loop.check))
LoopSound(musts, choices) == LoopServed(choices) /\ LoopPending /\ LoopGood(musts)

MainSound ==
  /\ Top.musts \subseteq loop.musts
  /\ ~loop.failed =>
       /\ {call.t} \cup cache_ess.start \subseteq loop.musts /\ LoopServed({}) /\ LoopPending
       /\ LoopGood({}) \/ \E choice \in loop.choices : Hopeless(choice, loop.musts)

TrySound ==
  /\ Within(Top, loop.musts)
  /\ ~loop.failed => LoopSound(Top.musts, Top.choices) /\ (Hopeless(Guess(Top), Top.musts) => LoopLost)

PruneSound ==
  /\ FrameSound(Top) /\ UNION Top.rebuild \subseteq suite_contents /\ Guess(Top) = {}

SearchSound ==
  Searching /\ EssentialsInstallable =>
    /\ BelowSound
    /\ pc \in {"resolve", "options", "try"} => Ready(Top)
    /\ pc = "resolve" => Guess(Top) = {}
    /\ pc \in {"options", "try"} => Guesses(Top)
    /\ pc = "prune" => PruneSound
    /\ pc = "main" => MainSound
    /\ pc = "try" => TrySound

\* Who is cached is in a solution of cached packages, but for what is taken for
\* the essential ones.
CacheSound ==
  EssentialsInstallable =>
    /\ \A p \in cache_inst \cap suite : \E W \in Solutions(suite) :
         p \in W /\ W \subseteq cache_inst \cup EssentialChoices
    /\ cache_inst \cap Broken = {}
    /\ \A p \in answer.of : answer.verdict => p \in Installable(suite)

YesInv == CacheSound /\ SearchSound

(***************************************************************************)
(* What the sound state of a search offers to the steps that follow.       *)
(***************************************************************************)

LEMMA EssentialThere ==
  ASSUME NoInv, PlaceInv, EssentialsInstallable, pc = "enter" \/ Searching
  PROVE  /\ cache_ess.start \subseteq suite_contents /\ Essential \cap suite \subseteq cache_ess.start
         /\ SettledOnes \subseteq suite_contents \ cache_ess.never
         /\ cache_ess.never = UNION {Conflicts[p] : p \in cache_ess.start}
         /\ UNION cache_ess.choices \subseteq EssentialChoices \cap suite
         /\ \A p \in cache_ess.start : \A clause \in Dependencies[p] :
              Met(clause, cache_ess.start \cup SettledOnes, cache_ess.choices)
<1>1. /\ cache_ess.never = UNION {Conflicts[p] : p \in cache_ess.start}
      /\ \A W \in Possible : cache_ess.start \subseteq W
      /\ Essential \cap suite \subseteq cache_ess.start /\ cache_ess.start \subseteq suite
      /\ UNION cache_ess.choices \subseteq EssentialChoices \cap suite
      /\ \A p \in cache_ess.start : \A clause \in Dependencies[p] :
           Met(clause, cache_ess.start \cup SettledOnes, cache_ess.choices)
  BY DEF PlaceInv, EssentialSound, EssentialKnown, SettledOnes
<1>2. pc # "KeyError"
  BY DEF Searching
<1>3. cache_ess.start \subseteq suite_contents
  <2>1. PICK W \in Possible : TRUE
    BY SomePossible
  <2> QED  BY <1>1, <1>2, <2>1, CertainlyThere
<1>4. SettledOnes \subseteq suite_contents \ cache_ess.never
  BY <1>1, <1>2, SettledThere DEF SettledOnes
<1> QED  BY <1>1, <1>3, <1>4

\* What a search ends with and what settles the choices are a solution.
LEMMA SolutionFound ==
  ASSUME NoInv, PlaceInv, EssentialsInstallable, Searching,
         NEW M, Sound(M), cache_ess.start \subseteq M,
         \A p \in M : \A clause \in Dependencies[p] : clause \cap (M \cup SettledOnes) # {}
  PROVE  M \cup SettledOnes \in Solutions(suite)
<1> DEFINE W == M \cup SettledOnes
<1>1. /\ cache_ess.start \subseteq suite_contents /\ Essential \cap suite \subseteq cache_ess.start
      /\ SettledOnes \subseteq suite_contents \ cache_ess.never
      /\ cache_ess.never = UNION {Conflicts[p] : p \in cache_ess.start}
  BY EssentialThere
<1>2. suite_contents \subseteq suite /\ suite_contents \in SUBSET Package
  BY DEF NoInv, Inv, TypeOK, ContentsInSync, Searching
<1>3. \A c \in SettledOnes : /\ Conflicts[c] \subseteq cache_ess.never /\ c \in Package
                             /\ \A clause \in Dependencies[c] : clause \cap cache_ess.start # {}
  BY <1>1, <1>2 DEF SettledOnes, Settled, Unsatisfied
<1>4. M \subseteq suite_contents /\ Peaceful(M)
  BY DEF Sound
<1>5. M \cap cache_ess.never = {}
  BY <1>1, <1>4 DEF Peaceful
<1>6. ASSUME NEW p \in W PROVE Conflicts[p] \cap W = {}
  <2>1. CASE p \in SettledOnes
    BY <1>1, <1>3, <1>5, <2>1
  <2>2. CASE p \in M
    <3>1. p \in Package /\ Conflicts[p] \cap M = {}
      BY <1>2, <1>4, <2>2 DEF Peaceful
    <3>2. ASSUME NEW c \in SettledOnes, c \in Conflicts[p] PROVE FALSE
      <4>1. p \in Conflicts[c]
        BY <3>1, <3>2, ConflictFacts
      <4> QED  BY <1>3, <1>5, <2>2, <4>1
    <3> QED  BY <3>1, <3>2
  <2> QED  BY <2>1, <2>2
<1>7. ASSUME NEW p \in W PROVE Unsatisfied(Dependencies[p], W) = {}
  <2>1. CASE p \in M
    BY <2>1 DEF Unsatisfied
  <2>2. CASE p \in SettledOnes
    BY <1>3, <2>2 DEF Unsatisfied
  <2> QED  BY <2>1, <2>2
<1>8. W \in SUBSET Package /\ W \subseteq suite /\ Essential \cap suite \subseteq W
  BY <1>1, <1>2, <1>4
<1> HIDE DEF W
<1>9. W \in Consistents
  BY <1>6, <1>7, <1>8 DEF Consistents, Consistent
<1> QED  BY <1>8, <1>9 DEF Solutions, W

LEMMA SettledKept ==
  ASSUME UNCHANGED <<suite, cache_ess>>
  PROVE  SettledOnes' = SettledOnes
BY DEF SettledOnes, Settled, Unsatisfied

\* As long as the contents stay, nothing that is said of a frame changes.
LEMMA ReadyKept ==
  ASSUME UNCHANGED <<suite, suite_contents, cache_ess, call>>
  PROVE  /\ SettledOnes' = SettledOnes
         /\ \A clause, musts : Hopeless(clause, musts)' <=> Hopeless(clause, musts)
         /\ \A p, musts : Doomed(p, musts)' <=> Doomed(p, musts)
         /\ \A f : FrameSound(f)' <=> FrameSound(f)
         /\ \A f : Ready(f)' <=> Ready(f)
<1>1. SettledOnes' = SettledOnes
  BY SettledKept
<1>2. \A clause, musts : Hopeless(clause, musts)' <=> Hopeless(clause, musts)
  BY DEF Hopeless
<1>3. \A p, musts : Doomed(p, musts)' <=> Doomed(p, musts)
  BY <1>2 DEF Doomed
<1>4. \A f : Lost(f)' <=> Lost(f)
  BY <1>2, <1>3 DEF Lost, Guess
<1>5. \A f : Served(f)' <=> Served(f)
  BY <1>1 DEF Served, Met, Guess
<1>6. \A f : FrameSound(f)' <=> FrameSound(f)
  BY <1>4, <1>5 DEF FrameSound, Peaceful
<1>7. \A f : AlternativesSound(f)' <=> AlternativesSound(f)
  BY <1>3 DEF AlternativesSound, Guess
<1>8. \A f : Ready(f)' <=> Ready(f)
  BY <1>6, <1>7 DEF Ready
<1> QED  BY <1>1, <1>2, <1>3, <1>6, <1>8

\* A package that turns out to be broken leaves a frame lost that holds it.
LEMMA ReadyMarked ==
  ASSUME NoInv, PlaceInv, EssentialsInstallable, Searching,
         UNCHANGED <<suite, cache_ess, call>>,
         NEW f, Ready(f), Within(f, loop.musts),
         NEW p \in suite_contents, suite_contents' = suite_contents \ {p},
         NEW clause \in Dependencies[p],
         clause \cap suite_contents = {}, clause \cap loop.musts = {}
  PROVE  Ready(f)'
<1>1. SettledOnes' = SettledOnes /\ SettledOnes \subseteq suite_contents
  BY SettledKept, EssentialThere
<1>2. \A c, musts : Hopeless(c, musts) => Hopeless(c, musts)'
  BY DEF Hopeless
<1>3. \A q, musts : Doomed(q, musts) => Doomed(q, musts)'
  BY <1>2 DEF Doomed
<1>4. Lost(f) => Lost(f)'
  BY <1>2, <1>3 DEF Lost, Guess
<1>5. Served(f) <=> Served(f)'
  BY <1>1 DEF Served, Met, Guess
<1>6. FrameSound(f) /\ AlternativesSound(f) /\ f.check = {} /\ f.rebuild = {}
  BY DEF Ready
<1>7. f.musts \subseteq loop.musts /\ f.tried \cap loop.musts # {}
  BY DEF Within
<1>8. f.musts \subseteq suite_contents => f.musts \subseteq suite_contents' \/ Lost(f)'
  <2>1. SUFFICES ASSUME p \in f.musts PROVE Lost(f)'
    OBVIOUS
  <2>2. \/ Met(clause, f.musts \cup SettledOnes, f.choices \cup f.rebuild)
        \/ f.last # {} /\ Guess(f) \subseteq clause
    BY <1>6, <2>1 DEF FrameSound, Served
  <2>3. Met(clause, f.musts \cup SettledOnes, f.choices \cup f.rebuild)
    BY <1>7, <2>2 DEF Guess
  <2>4. PICK c \in f.choices \cup f.rebuild : c \subseteq clause
    BY <1>1, <1>7, <2>3 DEF Met
  <2>5. Hopeless(c, f.musts)'
    BY <1>7, <2>4 DEF Hopeless
  <2> QED  BY <2>4, <2>5 DEF Lost
<1>9. FrameSound(f)'
  BY <1>4, <1>5, <1>6, <1>8 DEF FrameSound, Peaceful
<1>10. Doomed(p, f.musts)'
  <2>1. Hopeless(clause, f.musts \cup {p})'
    BY <1>7 DEF Hopeless
  <2> QED  BY <2>1 DEF Doomed
<1>11. AlternativesSound(f)'
  BY <1>3, <1>6, <1>10 DEF AlternativesSound, Guess
<1> QED  BY <1>6, <1>9, <1>11 DEF Ready

\* A step of a loop that does not fail leaves the loop as sound as it was.
LEMMA CheckPackageSound ==
  ASSUME NoInv, CheckPackage, ~loop'.failed, NEW musts, NEW choices,
         Covered(loop.musts \ (musts \cup loop.check), loop.never), LoopSound(musts, choices)
  PROVE  /\ LoopSound(musts, choices)' /\ loop.musts \subseteq loop'.musts
         /\ LoopLost => LoopLost'
         /\ \A choice \in loop.choices : Hopeless(choice, loop.musts) =>
              choice \in loop'.choices /\ Hopeless(choice, loop.musts)'
<1>1. /\ InLoop /\ ~loop.failed /\ loop.dependencies = {}
      /\ UNCHANGED <<suite, suite_contents, caches, call, pc, frames, answer>>
      /\ UNCHANGED <<suite, suite_contents, cache_ess, call>>
  BY PackageOutcome DEF caches
<1>2. PICK cur \in loop.check :
        /\ loop'.musts = loop.musts /\ loop'.choices = loop.choices
        /\ loop'.check = loop.check \ {cur}
        /\ ~Excluded(cur)
        /\ loop'.cur = {cur}
        /\ loop'.never = loop.never \cup (Conflicts[cur] \cap suite_contents)
        /\ loop'.dependencies = Unsatisfied(Dependencies[cur], loop.musts)
  BY PackageOutcome
<1>3. /\ SettledOnes' = SettledOnes
      /\ \A clause, S : Hopeless(clause, S)' <=> Hopeless(clause, S)
      /\ \A p, S : Doomed(p, S)' <=> Doomed(p, S)
  BY <1>1, ReadyKept
<1>4. loop.check \subseteq loop.musts /\ loop.musts \in SUBSET Package /\ cur \in loop.musts
  BY <1>1, <1>2, LoopTypes DEF NoInv, LoopSound, LoopPending
<1>5. LoopServed(choices)'
  BY <1>1, <1>2, <1>3 DEF LoopSound, LoopServed, Met, Unsatisfied
<1>6. LoopPending'
  BY <1>2, <1>4 DEF LoopPending, Unsatisfied
<1>7. LoopLost => LoopLost'
  <2> SUFFICES ASSUME LoopLost PROVE LoopLost'
    OBVIOUS
  <2>1. PICK p \in loop.check : Doomed(p, loop.musts)
    BY <1>1 DEF LoopLost
  <2>2. CASE p # cur
    BY <1>2, <1>3, <2>1, <2>2 DEF LoopLost
  <2>3. CASE p = cur
    <3>1. PICK clause \in Dependencies[cur] : Hopeless(clause, loop.musts \cup {cur})
      BY <2>1, <2>3 DEF Doomed
    <3>2. Hopeless(clause, loop.musts) /\ clause \cap loop.musts = {}
      BY <3>1 DEF Hopeless
    <3>3. clause \in loop'.dependencies
      BY <1>2, <3>1, <3>2 DEF Unsatisfied
    <3> QED  BY <1>2, <1>3, <3>2, <3>3 DEF LoopLost
  <2> QED  BY <2>2, <2>3
<1>8. LoopGood(musts)'
  <2>1. CASE LoopLost
    BY <1>7, <2>1 DEF LoopGood
  <2>2. CASE ~LoopLost
    <3>1. /\ loop.musts \ musts \subseteq suite_contents
          /\ Peaceful(loop.musts \ (musts \cup loop.check))
      BY <2>2 DEF LoopSound, LoopGood
    <3>2. Peaceful(loop.musts \ (musts \cup loop'.check))
      <4> SUFFICES ASSUME NEW q \in loop.musts \ (musts \cup loop'.check),
                          NEW r \in loop.musts \ (musts \cup loop'.check), r \in Conflicts[q]
                   PROVE  FALSE
        BY DEF Peaceful
      <4>1. q \in Package /\ r \in Package /\ q \in Conflicts[r] /\ q # r
        BY <1>4, ConflictFacts
      <4>2. q \in suite_contents /\ r \in suite_contents
        BY <3>1
      <4>3. CASE q # cur /\ r # cur
        BY <1>2, <3>1, <4>3 DEF Peaceful
      <4>4. CASE q = cur
        <5>1. Conflicts[r] \cap suite_contents \subseteq loop.never
          BY <1>2, <4>1, <4>4 DEF Covered
        <5> QED  BY <1>2, <4>1, <4>2, <4>4, <5>1 DEF Excluded
      <4>5. CASE r = cur
        <5>1. Conflicts[q] \cap suite_contents \subseteq loop.never
          BY <1>2, <4>1, <4>5 DEF Covered
        <5> QED  BY <1>2, <4>1, <4>2, <4>5, <5>1 DEF Excluded
      <4> QED  BY <4>3, <4>4, <4>5
    <3> QED  BY <1>1, <1>2, <3>1, <3>2 DEF LoopGood, Peaceful
  <2> QED  BY <2>1, <2>2
<1> QED  BY <1>2, <1>3, <1>5, <1>6, <1>7, <1>8 DEF LoopSound

LEMMA CheckDependencySound ==
  ASSUME NoInv, CheckDependency, ~loop'.failed, NEW musts, NEW choices,
         LoopSound(musts, choices)
  PROVE  /\ LoopSound(musts, choices)' /\ loop.musts \subseteq loop'.musts
         /\ LoopLost => LoopLost'
         /\ \A choice \in loop.choices : Hopeless(choice, loop.musts) =>
              choice \in loop'.choices /\ Hopeless(choice, loop.musts)'
<1>1. /\ InLoop /\ loop'.cur = loop.cur /\ loop'.never = loop.never
      /\ UNCHANGED <<suite, cache_ess, call>>
  BY DependencyOutcome
<1>2. PICK p \in Package, clause \in loop.dependencies :
        /\ loop.cur = {p}
        /\ UNCHANGED <<suite_contents, cache_broken, pc>>
        /\ (\E e : Takes(clause, e)) \/ \E chosen : Chooses(clause, chosen)
  BY DependencyOutcome DEF Fails
<1>3. /\ SettledOnes' = SettledOnes
      /\ \A c, S : Hopeless(c, S)' <=> Hopeless(c, S)
      /\ \A q, S : Doomed(q, S)' <=> Doomed(q, S)
  BY <1>1, <1>2, ReadyKept
<1>4. LoopServed(choices) /\ LoopPending /\ LoopGood(musts)
  BY DEF LoopSound
<1>5. ASSUME NEW e, Takes(clause, e)
      PROVE  /\ LoopSound(musts, choices)' /\ loop.musts \subseteq loop'.musts
             /\ LoopLost => LoopLost'
             /\ \A choice \in loop.choices : Hopeless(choice, loop.musts) =>
                  choice \in loop'.choices /\ Hopeless(choice, loop.musts)'
  <2>1. /\ e \in clause /\ e \in suite_contents
        /\ loop'.choices = loop.choices
        /\ loop'.musts = loop.musts \cup {e} /\ loop'.check = loop.check \cup {e}
        /\ loop'.dependencies = Unsatisfied(loop.dependencies \ {clause}, loop.musts \cup {e})
    BY <1>5 DEF Takes
  <2>2. \A c : Hopeless(c, loop.musts) => Hopeless(c, loop.musts \cup {e})
    BY <2>1 DEF Hopeless
  <2>3. \A q : Doomed(q, loop.musts) => Doomed(q, loop.musts \cup {e})
    BY <2>1 DEF Doomed, Hopeless
  <2>4. LoopLost => LoopLost'
    <3>1. ASSUME NEW c \in loop.dependencies, Hopeless(c, loop.musts)
          PROVE  c \in loop'.dependencies /\ Hopeless(c, loop.musts)'
      BY <1>3, <2>1, <2>2, <3>1 DEF Hopeless, Unsatisfied
    <3>2. ASSUME NEW q \in loop.check, Doomed(q, loop.musts)
          PROVE  q \in loop'.check /\ Doomed(q, loop.musts)'
      BY <1>3, <2>1, <2>3, <3>2
    <3> QED  BY <3>1, <3>2 DEF LoopLost
  <2>5. LoopServed(choices)'
    BY <1>1, <1>3, <1>4, <2>1 DEF LoopServed, Met, Unsatisfied
  <2>6. LoopPending'
    BY <1>1, <1>4, <2>1 DEF LoopPending, Unsatisfied
  <2>7. LoopGood(musts)'
    <3>1. CASE LoopLost
      BY <2>4, <3>1 DEF LoopGood
    <3>2. CASE ~LoopLost
      BY <1>2, <1>4, <2>1, <3>2 DEF LoopGood, Peaceful
    <3> QED  BY <3>1, <3>2
  <2> QED  BY <1>3, <2>1, <2>2, <2>4, <2>5, <2>6, <2>7 DEF LoopSound
<1>6. ASSUME NEW chosen, Chooses(clause, chosen)
      PROVE  /\ LoopSound(musts, choices)' /\ loop.musts \subseteq loop'.musts
             /\ LoopLost => LoopLost'
             /\ \A choice \in loop.choices : Hopeless(choice, loop.musts) =>
                  choice \in loop'.choices /\ Hopeless(choice, loop.musts)'
  <2>1. /\ chosen \subseteq clause /\ chosen \subseteq suite_contents /\ chosen # {}
        /\ loop'.choices = loop.choices \cup {chosen}
        /\ loop'.musts = loop.musts /\ loop'.check = loop.check
        /\ loop'.dependencies = loop.dependencies \ {clause}
    BY <1>6 DEF Chooses
  <2>2. LoopLost => LoopLost'
    <3>1. ~Hopeless(clause, loop.musts)
      BY <2>1 DEF Hopeless
    <3> QED  BY <1>3, <2>1, <3>1 DEF LoopLost
  <2>3. LoopServed(choices)'
    BY <1>1, <1>3, <1>4, <2>1 DEF LoopServed, Met
  <2>4. LoopPending'
    BY <1>1, <1>4, <2>1 DEF LoopPending
  <2>5. LoopGood(musts)'
    BY <1>2, <1>4, <2>1, <2>2 DEF LoopGood, Peaceful
  <2> QED  BY <1>3, <2>1, <2>2, <2>3, <2>4, <2>5 DEF LoopSound
<1> QED  BY <1>2, <1>5, <1>6

\* What a failing step may do to the frames.
LEMMA LoopReady ==
  ASSUME NoInv, PlaceInv, EssentialsInstallable, Searching, CheckPackage \/ CheckDependency,
         pc' # "KeyError", LoopPending, NEW f, Within(f, loop.musts), Ready(f)
  PROVE  Ready(f)'
<1>1. CASE UNCHANGED <<suite, suite_contents, cache_ess, call>>
  BY <1>1, ReadyKept
<1>2. CASE CheckPackage
  BY <1>1, <1>2 DEF CheckPackage, caches
<1>3. CASE CheckDependency
  <2>1. UNCHANGED <<suite, cache_ess, call>>
    BY <1>3, DependencyOutcome
  <2>2. PICK p \in Package, clause \in loop.dependencies :
          /\ clause \in Dependencies[p]
          /\ Fails(clause, p) \/ UNCHANGED suite_contents
    BY <1>3, DependencyOutcome
  <2>3. SUFFICES ASSUME Fails(clause, p), suite_contents' # suite_contents PROVE Ready(f)'
    BY <1>1, <2>1, <2>2
  <2>4. clause \cap suite_contents = {} /\ suite_contents' = suite_contents \ {p}
    BY <2>3 DEF Fails
  <2>5. clause \cap loop.musts = {} /\ p \in suite_contents
    BY <2>3, <2>4 DEF LoopPending
  <2> QED  BY <2>1, <2>2, <2>4, <2>5, ReadyMarked
<1> QED  BY <1>2, <1>3

LEMMA WithinGrows ==
  ASSUME NEW f, NEW musts, NEW more, musts \subseteq more, Within(f, musts)
  PROVE  Within(f, more)
BY DEF Within

\* The frames below stay as they are when the one at the top changes.
LEMMA TopSound ==
  ASSUME NoInv, Searching, BelowSound, UNCHANGED <<suite, suite_contents, cache_ess, call>>,
         NEW f \in FrameType, frames' = WithTop(f), Top.musts \subseteq f.musts
  PROVE  Top' = f /\ BelowSound'
<1>1. /\ Top' = f /\ Below' = Below /\ \A i \in Below : frames'[i] = frames[i]
      /\ frames \in Seq(FrameType) /\ frames # <<>>
  BY SearchFacts, TopChanges
<1>2. PICK n : n = Len(frames)
  OBVIOUS
<1>3. DOMAIN frames = Below \cup {n} /\ frames[n] = Top
  BY <1>1, <1>2, FrameNumbers DEF Below, Top
<1>4. DOMAIN frames' = Below \cup {n} /\ frames'[n] = f
  <2>1. frames' = [frames EXCEPT ![n] = f] /\ n \in DOMAIN frames
    BY <1>2, <1>3 DEF WithTop
  <2> QED  BY <1>3, <2>1
<1>5. ASSUME NEW i \in Below
      PROVE  /\ Ready(frames[i])' /\ Guesses(frames'[i])
             /\ \A j \in DOMAIN frames' : i < j => Within(frames'[i], frames'[j].musts)
  <2>1. /\ frames'[i] = frames[i] /\ Ready(frames[i]) /\ Guesses(frames[i])
        /\ \A j \in DOMAIN frames : i < j => Within(frames[i], frames[j].musts)
    BY <1>1, <1>5 DEF BelowSound
  <2>2. Ready(frames[i])'
    BY <2>1, ReadyKept
  <2>3. ASSUME NEW j \in DOMAIN frames', i < j PROVE Within(frames[i], frames'[j].musts)
    <3>1. CASE j = n
      BY <1>3, <1>4, <2>1, <2>3, <3>1, WithinGrows
    <3>2. CASE j \in Below
      BY <1>1, <1>3, <2>1, <2>3, <3>2
    <3> QED  BY <1>4, <2>3, <3>1, <3>2
  <2> QED  BY <2>1, <2>2, <2>3
<1> QED  BY <1>1, <1>5 DEF BelowSound, Within, Guesses

LEMMA DeeperSound ==
  ASSUME NoInv, Searching, BelowSound, UNCHANGED <<suite, suite_contents, cache_ess, call>>,
         Ready(Top), Guesses(Top),
         NEW f \in FrameType, frames' = Append(frames, f), Within(Top, f.musts)
  PROVE  Top' = f /\ BelowSound'
<1>1. /\ frames \in Seq(FrameType) /\ frames # <<>> /\ Len(frames) \in Nat \ {0}
      /\ Top' = f /\ Below' = Below \cup {Len(frames)} /\ frames'[Len(frames)] = Top
      /\ \A i \in Below : frames'[i] = frames[i]
  BY SearchFacts, Deeper
<1>2. PICK n : n = Len(frames)
  OBVIOUS
<1>3. DOMAIN frames = Below \cup {n} /\ frames[n] = Top
  BY <1>1, <1>2, FrameNumbers DEF Below, Top
<1>4. /\ DOMAIN frames' = Below \cup {n, n + 1} /\ frames'[n] = Top /\ frames'[n + 1] = f
      /\ n \in Nat /\ Below = 1 .. n - 1
  <2>1. Len(frames') = n + 1 /\ frames'[n + 1] = f /\ DOMAIN frames' = 1 .. n + 1 /\ n \in Nat \ {0}
    BY <1>1, <1>2
  <2>2. \A k \in Nat \ {0} : 1 .. k + 1 = (1 .. k - 1) \cup {k, k + 1}
    OBVIOUS
  <2> QED  BY <1>1, <1>2, <2>1, <2>2 DEF Below
<1>5. ASSUME NEW i \in Below
      PROVE  /\ Ready(frames[i])' /\ Guesses(frames'[i])
             /\ \A j \in DOMAIN frames' : i < j => Within(frames'[i], frames'[j].musts)
  <2>1. /\ frames'[i] = frames[i] /\ Ready(frames[i]) /\ Guesses(frames[i])
        /\ \A j \in DOMAIN frames : i < j => Within(frames[i], frames[j].musts)
    BY <1>1, <1>5 DEF BelowSound
  <2>2. Ready(frames[i])'
    BY <2>1, ReadyKept
  <2>3. Within(frames[i], Top.musts)
    <3>1. i < n
      BY <1>4, <1>5
    <3> QED  BY <1>3, <2>1, <3>1
  <2>4. Top.musts \subseteq f.musts
    BY DEF Within
  <2>5. ASSUME NEW j \in DOMAIN frames', i < j PROVE Within(frames[i], frames'[j].musts)
    <3>1. CASE j = n + 1
      BY <1>4, <2>3, <2>4, <3>1, WithinGrows
    <3>2. CASE j = n
      BY <1>4, <2>3, <3>2
    <3>3. CASE j \in Below
      BY <1>1, <1>3, <2>1, <2>5, <3>3
    <3> QED  BY <1>4, <2>5, <3>1, <3>2, <3>3
  <2> QED  BY <2>1, <2>2, <2>5
<1>6. /\ Ready(frames[n])' /\ Guesses(frames'[n])
      /\ \A j \in DOMAIN frames' : n < j => Within(frames'[n], frames'[j].musts)
  <2>1. Ready(frames[n])'
    BY <1>4, ReadyKept
  <2>2. ASSUME NEW j \in DOMAIN frames', n < j PROVE j = n + 1
    BY <1>4, <2>2
  <2> QED  BY <1>4, <2>1, <2>2
<1>7. Below' = Below \cup {n}
  BY <1>1, <1>2
<1>8. ASSUME NEW i \in Below'
      PROVE  /\ Ready(frames[i])' /\ Guesses(frames'[i])
             /\ \A j \in DOMAIN frames' : i < j => Within(frames'[i], frames'[j].musts)
  <2>1. CASE i \in Below
    BY <1>5, <2>1
  <2>2. CASE i = n
    BY <1>6, <2>2
  <2> QED  BY <1>7, <1>8, <2>1, <2>2
<1> QED  BY <1>1, <1>8 DEF BelowSound, Within, Guesses

LEMMA CacheKept ==
  ASSUME CacheSound, UNCHANGED <<suite, cache_inst>>, answer' = answer \/ answer'.of = {} \/ ~answer'.verdict
  PROVE  CacheSound'
<1>1. /\ EssentialsInstallable' <=> EssentialsInstallable
      /\ Solutions(suite)' = Solutions(suite) /\ Installable(suite)' = Installable(suite)
  BY DEF EssentialsInstallable, Installable, Solutions, Consistents, Consistent, Unsatisfied
<1>2. EssentialChoices' = EssentialChoices
  BY DEF EssentialChoices
<1> QED  BY <1>1, <1>2 DEF CacheSound

LEMMA RefusalSound ==
  ASSUME YesInv, NEW contents, NEW bad, Return(FALSE, contents, bad, cache_inst), suite' = suite
  PROVE  YesInv'
<1>1. pc' = "idle" /\ cache_inst' = cache_inst /\ (answer' = answer \/ ~answer'.verdict)
  BY DEF Return
<1>2. CacheSound'
  BY <1>1, CacheKept DEF YesInv
<1> QED  BY <1>1, <1>2 DEF YesInv, SearchSound, Searching

\* A frame that gives up leaves the one below as it was.
LEMMA FailSound ==
  ASSUME NoInv, YesInv, Searching, Fail, UNCHANGED <<suite, cache_ess>>
  PROVE  YesInv'
<1>1. CASE Len(frames) = 1
  BY <1>1, RefusalSound DEF Fail
<1>2. CASE Len(frames) # 1
  <2> DEFINE n == Len(frames) - 1
             rest == SubSeq(frames, 1, n)
             caller == frames[n]
             back == [rest[n] EXCEPT !.never = NeverAgain(caller)]
  <2>1. n \in Nat /\ n >= 1 /\ Len(frames) \in Nat /\ n = Len(frames) - 1
    <3>1. Len(frames) \in Nat \ {0, 1}
      BY <1>2, SearchFacts
    <3>2. ASSUME NEW k \in Nat \ {0, 1} PROVE k - 1 \in Nat /\ k - 1 >= 1
      OBVIOUS
    <3> QED  BY <3>1, <3>2
  <2>2. /\ DOMAIN rest = 1 .. n /\ Len(rest) = n
        /\ \A i \in 1 .. n : rest[i] = frames[i] /\ i \in DOMAIN frames /\ frames[i] \in FrameType
    <3>1. frames \in Seq(FrameType) /\ \A i \in 1 .. n : frames[i] \in FrameType /\ i \in DOMAIN frames
      <4>1. frames \in Seq(FrameType)
        BY SearchFacts
      <4> QED  BY <4>1, <2>1
    <3> HIDE DEF n
    <3>2. rest = [i \in 1 .. n |-> frames[i]]
      BY <2>1, <3>1
    <3> QED  BY <2>1, <3>1, <3>2
  <2>3. /\ frames' = [rest EXCEPT ![n] = back]
        /\ pc' = "options" /\ loop' = NoLoop
        /\ UNCHANGED <<suite_contents, cache_broken, cache_inst, call, answer>>
    BY <1>2 DEF Fail
  <2>4. rest[n] = caller /\ caller \in FrameType /\ n \in DOMAIN rest
    BY <2>1, <2>2
  <2>5. /\ back.musts = caller.musts /\ back.check = caller.check
        /\ back.choices = caller.choices /\ back.rebuild = caller.rebuild
        /\ back.options = caller.options /\ back.last = caller.last /\ back.tried = caller.tried
    BY <2>4 DEF FrameType
  <2>6. Below = 1 .. n
    BY <2>1 DEF Below
  <2> HIDE DEF n, rest, back
  <2>7. /\ DOMAIN frames' = 1 .. n
        /\ \A i \in 1 .. n : frames'[i] = IF i = n THEN back ELSE frames[i]
    BY <2>2, <2>3
  <2>8. Len(frames') = n /\ Top' = back /\ Below' = 1 .. n - 1
    <3>1. Len(frames') = n
      BY <2>1, <2>2, <2>3
    <3> QED  BY <2>1, <2>7, <3>1 DEF Top, Below
  <2>9. CacheSound'
    BY <2>3, CacheKept DEF YesInv
  <2>10. SearchSound'
    <3> SUFFICES ASSUME EssentialsInstallable PROVE BelowSound' /\ Ready(Top)' /\ Guesses(Top')
      BY <2>3, InstallableKept DEF SearchSound
    <3>1. BelowSound
      BY DEF YesInv, SearchSound
    <3>2. \A i \in 1 .. n : /\ Ready(frames[i]) /\ Guesses(frames[i])
                            /\ \A j \in 1 .. n : i < j => Within(frames[i], frames[j].musts)
      BY <2>2, <2>6, <3>1 DEF BelowSound
    <3>3. Ready(caller) /\ Guesses(caller)
      BY <2>1, <3>2
    <3>4. Ready(back)
      BY <2>5, <3>3 DEF Ready, FrameSound, AlternativesSound, Served, Lost, Guess
    <3>5. Ready(Top)' /\ Guesses(Top')
      BY <2>3, <2>5, <2>8, <3>3, <3>4, ReadyKept DEF Guesses
    <3>6. ASSUME NEW i \in 1 .. n - 1
          PROVE  /\ Ready(frames[i])' /\ Guesses(frames'[i])
                 /\ \A j \in DOMAIN frames' : i < j => Within(frames'[i], frames'[j].musts)
      <4>1. i \in 1 .. n /\ i # n /\ frames'[i] = frames[i]
        BY <2>1, <2>7
      <4>2. Ready(frames[i])'
        BY <2>3, <3>2, <4>1, ReadyKept
      <4>3. ASSUME NEW j \in DOMAIN frames', i < j PROVE Within(frames'[i], frames'[j].musts)
        <5>1. Within(frames[i], frames[j].musts) /\ frames'[j].musts = frames[j].musts
          <6>1. j \in 1 .. n /\ frames'[j] = IF j = n THEN back ELSE frames[j]
            BY <2>7
          <6>2. back.musts = frames[n].musts
            BY <2>5 DEF caller
          <6> QED  BY <3>2, <4>1, <4>3, <6>1, <6>2
        <5> QED  BY <4>1, <5>1
      <4> QED  BY <3>2, <4>1, <4>2, <4>3
    <3> QED  BY <2>8, <3>5, <3>6 DEF BelowSound, Within, Guesses
  <2> QED  BY <2>9, <2>10 DEF YesInv
<1> QED  BY <1>1, <1>2

LEMMA SolutionFacts ==
  ASSUME NEW V \in Solutions(suite)
  PROVE  /\ V \in SUBSET Package /\ V \subseteq suite /\ Essential \cap suite \subseteq V
         /\ V \cap Broken = {}
         /\ \A p \in V : Conflicts[p] \cap V = {} /\ \A clause \in Dependencies[p] : clause \cap V # {}
<1>1. /\ V \in SUBSET Package /\ V \subseteq suite /\ Essential \cap suite \subseteq V
      /\ Consistent(V)
  BY DEF Solutions, Consistents
<1>2. \A p \in V : Conflicts[p] \cap V = {} /\ \A clause \in Dependencies[p] : clause \cap V # {}
  BY <1>1 DEF Consistent, Unsatisfied
<1>3. V \cap Broken = {}
  <2> SUFFICES ASSUME NEW b \in V, b \in Broken PROVE FALSE
    OBVIOUS
  <2>1. {} \in Dependencies[b]
    BY BuilderAssumption
  <2> QED  BY <1>2, <2>1
<1> QED  BY <1>1, <1>2, <1>3

LEMMA SolutionIf ==
  ASSUME NEW V \in SUBSET Package, V \subseteq suite, Essential \cap suite \subseteq V,
         \A p \in V : Conflicts[p] \cap V = {} /\ \A clause \in Dependencies[p] : clause \cap V # {}
  PROVE  V \in Solutions(suite)
<1>1. V \in Consistents
  BY DEF Consistents, Consistent, Unsatisfied
<1> QED  BY <1>1 DEF Solutions

\* An equivalent package of the suite can join a package in a solution.
LEMMA EquivalentToo ==
  ASSUME NEW V \in Solutions(suite), NEW p \in V, NEW e \in Equivalents[p], e \in suite
  PROVE  V \cup {e} \in Solutions(suite)
<1>1. /\ V \in SUBSET Package /\ V \subseteq suite /\ Essential \cap suite \subseteq V
      /\ \A q \in V : Conflicts[q] \cap V = {} /\ \A clause \in Dependencies[q] : clause \cap V # {}
  BY SolutionFacts
<1>2. e \in Package /\ p \in Package
  BY <1>1, UniverseTypes
<1>3. Conflicts[e] = Conflicts[p] /\ Dependencies[e] = Dependencies[p]
  BY <1>2, BuilderAssumption
<1>4. ASSUME NEW q \in V PROVE e \notin Conflicts[q] /\ q \notin Conflicts[e]
  <2>1. q \notin Conflicts[e]
    BY <1>1, <1>3
  <2> QED  BY <1>1, <1>2, <2>1, ConflictFacts
<1>5. e \notin Conflicts[e]
  BY <1>2, ConflictFacts
<1>6. V \cup {e} \in SUBSET Package /\ V \cup {e} \subseteq suite
      /\ Essential \cap suite \subseteq V \cup {e}
  BY <1>1, <1>2
<1>7. ASSUME NEW q \in V \cup {e}
      PROVE  /\ Conflicts[q] \cap (V \cup {e}) = {}
             /\ \A clause \in Dependencies[q] : clause \cap (V \cup {e}) # {}
  BY <1>1, <1>3, <1>4, <1>5
<1> QED  BY <1>6, <1>7, SolutionIf

\* A search that succeeds adds a solution to the cache.
LEMMA SucceedSound ==
  ASSUME NoInv, PlaceInv, YesInv, Searching, UNCHANGED <<suite, cache_ess>>,
         NEW M, Succeed(M),
         EssentialsInstallable =>
           /\ Sound(M) /\ {call.t} \cup cache_ess.start \subseteq M
           /\ \A p \in M : \A clause \in Dependencies[p] : clause \cap (M \cup SettledOnes) # {}
  PROVE  YesInv'
<1> DEFINE eqv == IF call.method = "compute" /\ Cardinality(Equivalents[call.t]) > 1
                  THEN Equivalents[call.t] \cap suite_contents ELSE {}
           W == M \cup SettledOnes
<1>1. /\ pc' = "idle" /\ cache_inst' = cache_inst \cup M \cup eqv
      /\ answer' = answer \/ answer' = [of |-> {call.t}, verdict |-> TRUE]
  <2>1. /\ pc' = "idle" /\ cache_inst' = (cache_inst \cup M) \cup eqv
        /\ IF call.method = "compute" THEN UNCHANGED <<call, answer>>
           ELSE call' = NoCall /\ answer' = [of |-> {call.t}, verdict |-> TRUE]
    BY DEF Succeed, Return
  <2> QED  BY <2>1
<1>2. eqv \subseteq Equivalents[call.t] /\ eqv \subseteq suite
  BY DEF NoInv, ContentsInSync, Searching
<1> HIDE DEF eqv
<1>3. /\ EssentialsInstallable' <=> EssentialsInstallable
      /\ Solutions(suite)' = Solutions(suite) /\ Installable(suite)' = Installable(suite)
      /\ EssentialChoices' = EssentialChoices
  BY DEF EssentialsInstallable, Installable, Solutions, Consistents, Consistent, Unsatisfied,
         EssentialChoices
<1>4. CacheSound'
  <2> SUFFICES ASSUME EssentialsInstallable
               PROVE  /\ \A p \in cache_inst' \cap suite : \E V \in Solutions(suite) :
                           p \in V /\ V \subseteq cache_inst' \cup EssentialChoices
                      /\ cache_inst' \cap Broken = {}
                      /\ \A p \in answer'.of : answer'.verdict => p \in Installable(suite)
    BY <1>3 DEF CacheSound
  <2>1. W \in Solutions(suite)
    BY SolutionFound
  <2>2. call.t \in W /\ SettledOnes \subseteq EssentialChoices
    BY DEF SettledOnes, Settled
  <2>3. /\ \A p \in cache_inst \cap suite : \E V \in Solutions(suite) :
             p \in V /\ V \subseteq cache_inst \cup EssentialChoices
        /\ cache_inst \cap Broken = {}
        /\ \A p \in answer.of : answer.verdict => p \in Installable(suite)
    BY DEF YesInv, CacheSound
  <2> HIDE DEF W
  <2>4. ASSUME NEW e \in eqv PROVE W \cup {e} \in Solutions(suite)
    BY <1>2, <2>1, <2>2, <2>4, EquivalentToo
  <2>5. W \subseteq M \cup EssentialChoices /\ M \subseteq W
    BY <2>2 DEF W
  <2>6. ASSUME NEW p \in cache_inst' \cap suite
        PROVE  \E V \in Solutions(suite) : p \in V /\ V \subseteq cache_inst' \cup EssentialChoices
    <3>1. CASE p \in cache_inst
      <4>1. PICK V \in Solutions(suite) : p \in V /\ V \subseteq cache_inst \cup EssentialChoices
        BY <2>3, <2>6, <3>1
      <4> QED  BY <1>1, <4>1
    <3>2. CASE p \in M
      BY <1>1, <2>1, <2>5, <3>2
    <3>3. CASE p \in eqv
      <4>1. W \cup {p} \subseteq cache_inst' \cup EssentialChoices
        BY <1>1, <2>5, <3>3
      <4> QED  BY <2>4, <3>3, <4>1
    <3> QED  BY <1>1, <2>6, <3>1, <3>2, <3>3
  <2>7. cache_inst' \cap Broken = {}
    <3>1. W \cap Broken = {}
      BY <2>1, SolutionFacts
    <3>2. ASSUME NEW e \in eqv PROVE e \notin Broken
      <4>1. PICK V : V = W \cup {e}
        OBVIOUS
      <4>2. V \in Solutions(suite)
        BY <2>4, <4>1
      <4>3. V \cap Broken = {}
        BY <4>2, SolutionFacts
      <4> QED  BY <4>1, <4>3
    <3> QED  BY <1>1, <2>3, <2>5, <3>1, <3>2
  <2>8. \A p \in answer'.of : answer'.verdict => p \in Installable(suite)
    <3>1. call.t \in Installable(suite)
      BY <2>1, <2>2 DEF Installable
    <3> QED  BY <1>1, <2>3, <3>1
  <2> QED  BY <2>6, <2>7, <2>8
<1> QED  BY <1>1, <1>4 DEF YesInv, SearchSound, Searching

(***************************************************************************)
(* Where the tester is idle, and a search starts.                          *)
(***************************************************************************)

LEMMA IdleSound ==
  ASSUME YesInv, ~Searching', UNCHANGED <<suite, cache_inst>>,
         answer' = answer \/ answer'.of = {} \/ ~answer'.verdict
  PROVE  YesInv'
BY CacheKept DEF YesInv, SearchSound

LEMMA LoopOfFields ==
  ASSUME NEW musts, NEW never, NEW choices, NEW checks
  PROVE  LET l == Loop(musts, never, choices, checks)
         IN  /\ l.musts = musts /\ l.never = never /\ l.choices = choices
             /\ l.check = checks /\ l.cur = {} /\ l.dependencies = {} /\ ~l.failed
BY DEF Loop

\* A search begins with the package and the essential set.
LEMMA EnterSound ==
  ASSUME NoInv, PlaceInv, YesInv, Enter
  PROVE  YesInv'
<1>1. /\ pc = "enter" /\ UNCHANGED <<suite, cache_ess>> /\ call \in CheckType
      /\ cache_ess \in EssentialType /\ (EssentialsInstallable' <=> EssentialsInstallable)
  BY InstallableKept DEF Enter, NoInv, Inv, SearchOK
<1>2. CASE call.t \in cache_ess.never /\ call.t \in suite_contents
  <2>1. Return(FALSE, suite_contents \ {call.t}, cache_broken \cup {call.t}, cache_inst)
    BY <1>2 DEF Enter
  <2> QED  BY <1>1, <2>1, RefusalSound
<1>3. CASE call.t \in cache_ess.never /\ call.t \notin suite_contents
  <2>1. pc' = "KeyError" /\ UNCHANGED <<cache_inst, answer>>
    BY <1>1, <1>3 DEF Enter
  <2> QED  BY <1>1, <2>1, IdleSound DEF Searching
<1>4. CASE call.t \notin cache_ess.never
  <2> DEFINE start == {call.t} \cup cache_ess.start
             f == Frame(start, cache_ess.never, cache_ess.choices, {call.t})
  <2>1. /\ frames' = <<f>> /\ pc' = "main" /\ loop' = LoopOf(f)
        /\ UNCHANGED <<suite_contents, cache_broken, cache_inst, call, answer>>
    BY <1>1, <1>4 DEF Enter
  <2>2. /\ f.musts = start
        /\ loop'.musts = start /\ loop'.choices = cache_ess.choices
        /\ loop'.check = {call.t} /\ loop'.dependencies = {} /\ ~loop'.failed
    BY <2>1, FrameFields
  <2> HIDE DEF f
  <2>3. Top' = f /\ Below' = {}
    BY <2>1 DEF Top, Below
  <2>4. CacheSound'
    BY <1>1, <2>1, CacheKept DEF YesInv
  <2>5. ASSUME EssentialsInstallable PROVE BelowSound' /\ MainSound'
    <3>1. SettledOnes' = SettledOnes
      BY <1>1, SettledKept
    <3>2. /\ cache_ess.start \subseteq suite_contents
          /\ \A p \in cache_ess.start : \A clause \in Dependencies[p] :
               Met(clause, cache_ess.start \cup SettledOnes, cache_ess.choices)
      BY <1>1, <2>5, EssentialThere
    <3>3. call.t \in suite_contents
      BY <1>1, <2>5 DEF PlaceInv, PlacesOK
    <3>4. Peaceful(cache_ess.start)
      <4>1. PICK W \in Possible : TRUE
        BY <2>5, SomePossible
      <4>2. cache_ess.start \subseteq W
        BY <1>1, <4>1 DEF NoInv, CachesOK, EssentialOK
      <4> QED  BY <4>1, <4>2, PossibleFacts DEF Peaceful
    <3>5. LoopServed({})'
      <4> SUFFICES ASSUME NEW p \in start \ {call.t}, NEW clause \in Dependencies[p]
                   PROVE  Met(clause, start \cup SettledOnes, cache_ess.choices \cup {})
        BY <2>2, <3>1 DEF LoopServed, Met
      <4> QED  BY <3>2 DEF Met
    <3>6. LoopPending'
      BY <2>2 DEF LoopPending
    <3>7. LoopGood({})'
      <4> SUFFICES start \ {} \subseteq suite_contents /\ Peaceful(start \ ({} \cup {call.t}))
        BY <2>1, <2>2 DEF LoopGood, Peaceful
      <4> QED  BY <3>2, <3>3, <3>4 DEF Peaceful
    <3>8. BelowSound'
      BY <2>3 DEF BelowSound
    <3> QED  BY <1>1, <2>1, <2>2, <2>3, <3>5, <3>6, <3>7, <3>8 DEF MainSound
  <2>6. SearchSound'
    BY <1>1, <2>1, <2>5 DEF SearchSound
  <2> QED  BY <2>4, <2>6 DEF YesInv
<1> QED  BY <1>2, <1>3, <1>4

\* A step of the loop of a search.
LEMMA LoopStepSound ==
  ASSUME NoInv, PlaceInv, YesInv, CheckPackage \/ CheckDependency
  PROVE  YesInv'
<1>1. /\ InLoop /\ ~loop.failed /\ pc' \in {pc, "KeyError"}
      /\ UNCHANGED <<suite, cache_inst, cache_ess, call, frames, answer>>
      /\ Top' = Top /\ Below' = Below
  BY LoopStep
<1>2. EssentialsInstallable' <=> EssentialsInstallable
  BY <1>1, InstallableKept
<1>3. CacheSound'
  BY <1>1, CacheKept DEF YesInv
<1>4. CASE ~Searching'
  BY <1>1, <1>4, IdleSound
<1>5. CASE Searching' /\ ~EssentialsInstallable
  BY <1>2, <1>3, <1>5 DEF YesInv, SearchSound
<1>6. CASE Searching' /\ EssentialsInstallable
  <2>1. Searching /\ pc' = pc /\ pc \in {"main", "try"} /\ pc' # "KeyError"
    BY <1>1, <1>6 DEF Searching, InLoop
  <2>2. BelowSound /\ (pc = "main" => MainSound)
        /\ (pc = "try" => TrySound /\ Ready(Top) /\ Guesses(Top))
    BY <1>6, <2>1 DEF YesInv, SearchSound
  <2>3. LoopPending /\ Top.musts \subseteq loop.musts
    BY <1>1, <2>1, <2>2 DEF MainSound, TrySound, LoopSound, Within
  <2>4. BelowSound'
    <3> SUFFICES ASSUME NEW i \in Below PROVE Ready(frames[i])'
      BY <1>1, <2>2 DEF BelowSound, Within, Guesses
    <3>1. PICK f : f = frames[i]
      OBVIOUS
    <3>2. Ready(f) /\ Within(f, Top.musts)
      <4>1. Len(frames) \in DOMAIN frames /\ i < Len(frames)
        <5>1. frames \in Seq(FrameType) /\ frames # <<>> /\ Len(frames) \in Nat \ {0}
          BY <2>1, SearchFacts
        <5>2. \A n \in Nat \ {0} : \A j \in 1 .. n - 1 : j < n
          OBVIOUS
        <5> QED  BY <5>1, <5>2, FrameNumbers DEF Below
      <4> QED  BY <2>2, <3>1, <4>1 DEF BelowSound, Top
    <3>3. Within(f, loop.musts)
      BY <2>3, <3>2, WithinGrows
    <3>4. Ready(f)'
      BY <1>6, <2>1, <2>3, <3>2, <3>3, LoopReady
    <3> QED  BY <1>1, <3>1, <3>4
  <2>5. loop.musts \subseteq loop'.musts
    <3>1. CASE CheckPackage
      BY <3>1, PackageOutcome
    <3>2. CASE CheckDependency
      BY <3>2, DependencyOutcome DEF Fails, Takes, Chooses
    <3> QED  BY <3>1, <3>2
  <2>6. ASSUME ~loop'.failed, NEW musts, NEW choices, LoopSound(musts, choices),
               Covered(loop.musts \ (musts \cup loop.check), loop.never)
        PROVE  /\ LoopSound(musts, choices)' /\ (LoopLost => LoopLost')
               /\ \A choice \in loop.choices : Hopeless(choice, loop.musts) =>
                    choice \in loop'.choices /\ Hopeless(choice, loop.musts)'
    BY <2>6, CheckPackageSound, CheckDependencySound
  <2>7. CASE pc = "main"
    <3>1. Top'.musts \subseteq loop'.musts
      BY <1>1, <2>3, <2>5
    <3>2. ASSUME ~loop'.failed
          PROVE  /\ {call.t} \cup cache_ess.start \subseteq loop'.musts
                 /\ LoopServed({})' /\ LoopPending'
                 /\ LoopGood({})' \/ \E choice \in loop'.choices : Hopeless(choice, loop.musts)'
      <4>1. /\ {call.t} \cup cache_ess.start \subseteq loop.musts /\ LoopServed({})
            /\ LoopGood({}) \/ \E choice \in loop.choices : Hopeless(choice, loop.musts)
        BY <1>1, <2>2, <2>7 DEF MainSound
      <4>2. CASE LoopGood({})
        <5>1. PICK none : none = {}
          OBVIOUS
        <5>2. Covered(loop.musts \ (none \cup loop.check), loop.never)
          BY <1>1, <2>1, <2>7, <5>1 DEF NoInv, FramesOK, CoveredOK
        <5>3. LoopSound(none, none)
          BY <2>3, <4>1, <4>2, <5>1 DEF LoopSound
        <5>4. LoopSound(none, none)'
          BY <2>6, <3>2, <5>2, <5>3
        <5> QED  BY <2>5, <4>1, <5>1, <5>4 DEF LoopSound
      <4>3. CASE \E choice \in loop.choices : Hopeless(choice, loop.musts)
        <5>1. PICK none, all : none = {} /\ all = loop.musts
          OBVIOUS
        <5>2. Covered(loop.musts \ (all \cup loop.check), loop.never)
          BY <5>1 DEF Covered
        <5>3. LoopSound(all, none)
          BY <2>3, <4>1, <5>1 DEF LoopSound, LoopGood, Peaceful
        <5>4. LoopSound(all, none)'
          BY <2>6, <3>2, <5>2, <5>3
        <5>5. PICK choice \in loop.choices : Hopeless(choice, loop.musts)
          BY <4>3
        <5>6. choice \in loop'.choices /\ Hopeless(choice, loop.musts)'
          BY <2>6, <3>2, <5>2, <5>3, <5>5
        <5> QED  BY <2>5, <4>1, <5>1, <5>4, <5>6 DEF LoopSound
      <4> QED  BY <4>1, <4>2, <4>3
    <3>3. MainSound'
      BY <1>1, <3>1, <3>2 DEF MainSound
    <3> QED  BY <1>3, <2>1, <2>4, <2>7, <3>3 DEF YesInv, SearchSound
  <2>8. CASE pc = "try"
    <3>1. Within(Top, loop.musts)
      BY <2>2, <2>8 DEF TrySound
    <3>2. Within(Top', loop'.musts)
      BY <1>1, <2>5, <3>1, WithinGrows
    <3>3. PICK f : f = Top
      OBVIOUS
    <3>4. Ready(f)'
      BY <1>6, <2>1, <2>2, <2>3, <2>8, <3>1, <3>3, LoopReady
    <3>5. ASSUME ~loop'.failed
          PROVE  /\ LoopSound(Top.musts, Top.choices)'
                 /\ Hopeless(Guess(Top), Top.musts)' => LoopLost'
      <4>1. LoopSound(f.musts, f.choices) /\ (Hopeless(Guess(f), f.musts) => LoopLost)
        BY <1>1, <2>2, <2>8, <3>3 DEF TrySound
      <4>2. PICK musts, choices : musts = f.musts /\ choices = f.choices
        OBVIOUS
      <4>3. LoopSound(musts, choices)
        BY <4>1, <4>2
      <4>4. Covered(loop.musts \ (musts \cup loop.check), loop.never)
        BY <1>1, <2>1, <2>8, <3>3, <4>2 DEF NoInv, FramesOK, CoveredOK
      <4>5. LoopSound(musts, choices)' /\ (LoopLost => LoopLost')
        BY <2>6, <3>5, <4>3, <4>4
      <4>6. suite_contents' = suite_contents
        <5>1. CASE CheckPackage
          BY <5>1, PackageOutcome
        <5>2. CASE CheckDependency
          BY <3>5, <5>2, DependencyOutcome DEF Fails
        <5> QED  BY <5>1, <5>2
      <4>7. Hopeless(Guess(f), f.musts)' => Hopeless(Guess(f), f.musts)
        BY <4>6 DEF Hopeless, Guess
      <4> QED  BY <1>1, <3>3, <4>1, <4>2, <4>5, <4>7
    <3>6. TrySound'
      BY <3>2, <3>5 DEF TrySound, Within
    <3>7. Ready(Top)' /\ Guesses(Top)'
      BY <1>1, <2>2, <2>8, <3>3, <3>4 DEF Guesses
    <3> QED  BY <1>3, <2>1, <2>4, <2>8, <3>6, <3>7 DEF YesInv, SearchSound
  <2> QED  BY <2>1, <2>7, <2>8
<1> QED  BY <1>4, <1>5, <1>6

(***************************************************************************)
(* Where a loop ends, one step of the search at a time.                    *)
(***************************************************************************)

\* Where the search goes on from a new top frame.
LEMMA GoOnSound ==
  ASSUME NoInv, YesInv, UNCHANGED <<suite, cache_inst, cache_ess, call, answer>>,
         Searching', EssentialsInstallable => SearchSound'
  PROVE  YesInv'
<1>1. EssentialsInstallable' <=> EssentialsInstallable
  BY InstallableKept
<1>2. CacheSound'
  BY CacheKept DEF YesInv
<1> QED  BY <1>1, <1>2 DEF YesInv, SearchSound

LEMMA MainLoopSound ==
  ASSUME NoInv, PlaceInv, YesInv, MainLoopEnds
  PROVE  YesInv'
<1>1. pc = "main" /\ LoopEnded /\ UNCHANGED <<suite, cache_ess>> /\ Searching /\ InLoop
  BY DEF MainLoopEnds, Searching, InLoop
<1>2. CASE loop.failed
  <2>1. Fail
    BY <1>2 DEF MainLoopEnds
  <2> QED  BY <1>1, <2>1, FailSound
<1> SUFFICES ASSUME ~loop.failed PROVE YesInv'
  BY <1>2
<1>3. loop.check = {} /\ loop.dependencies = {} /\ ~LoopLost
  BY <1>1 DEF LoopEnded, LoopLost
<1>4. ASSUME EssentialsInstallable
      PROVE  /\ BelowSound /\ Top.musts \subseteq loop.musts
             /\ {call.t} \cup cache_ess.start \subseteq loop.musts
             /\ \A p \in loop.musts : \A clause \in Dependencies[p] :
                  Met(clause, loop.musts \cup SettledOnes, loop.choices)
             /\ \/ Sound(loop.musts)
                \/ \E choice \in loop.choices : Hopeless(choice, loop.musts)
  <2>1. BelowSound /\ MainSound
    BY <1>1, <1>4 DEF YesInv, SearchSound
  <2>2. LoopServed({}) /\ (LoopGood({}) \/ \E choice \in loop.choices : Hopeless(choice, loop.musts))
    BY <2>1 DEF MainSound
  <2>3. LoopGood({}) => Sound(loop.musts)
    BY <1>3 DEF LoopGood, Sound, Peaceful
  <2>4. \A p \in loop.musts : \A clause \in Dependencies[p] :
          Met(clause, loop.musts \cup SettledOnes, loop.choices)
    BY <1>3, <2>2 DEF LoopServed, Met
  <2> QED  BY <2>1, <2>2, <2>3, <2>4 DEF MainSound
<1>5. CASE loop.choices = {}
  <2>1. Succeed(loop.musts)
    BY <1>5 DEF MainLoopEnds
  <2>2. ASSUME EssentialsInstallable
        PROVE  /\ Sound(loop.musts) /\ {call.t} \cup cache_ess.start \subseteq loop.musts
               /\ \A p \in loop.musts : \A clause \in Dependencies[p] :
                    clause \cap (loop.musts \cup SettledOnes) # {}
    BY <1>4, <1>5, <2>2 DEF Met
  <2> QED  BY <1>1, <2>1, <2>2, SucceedSound
<1>6. CASE loop.choices # {}
  <2>0. PICK f : f = Frame(loop.musts, loop.never, loop.choices, {})
    OBVIOUS
  <2>1. /\ frames' = WithTop(f) /\ pc' = "prune"
        /\ UNCHANGED <<suite_contents, cache_broken, cache_inst, call, answer>>
    BY <1>6, <2>0 DEF MainLoopEnds
  <2>2. /\ f.musts = loop.musts /\ f.choices = loop.choices /\ f.check = {}
        /\ f.rebuild = {} /\ f.options = {} /\ f.last = {} /\ f.tried = {}
    BY <2>0, FrameFields
  <2>3. f \in FrameType
    BY <1>1, <2>0, LoopTypes, FrameTypes DEF NoInv
  <2>4. ASSUME EssentialsInstallable PROVE SearchSound'
    <3>1. Top' = f /\ BelowSound'
      BY <1>1, <1>4, <2>1, <2>2, <2>3, <2>4, TopSound
    <3>2. Guess(f) = {} /\ UNION f.rebuild \subseteq suite_contents
      BY <2>2 DEF Guess
    <3>3. FrameSound(f)
      <4>1. Served(f)
        BY <1>4, <2>2, <2>4 DEF Served, Met
      <4>2. Lost(f) \/ (f.musts \subseteq suite_contents /\ Peaceful(f.musts \ f.check))
        BY <1>4, <2>2, <2>4 DEF Lost, Sound, Peaceful
      <4> QED  BY <1>4, <2>2, <2>4, <4>1, <4>2 DEF FrameSound
    <3>4. FrameSound(f)'
      BY <1>1, <2>1, <3>3, ReadyKept
    <3>5. PruneSound'
      BY <2>1, <3>1, <3>2, <3>4 DEF PruneSound, Guess
    <3> QED  BY <2>1, <3>1, <3>5 DEF SearchSound
  <2> QED  BY <1>1, <2>1, <2>4, GoOnSound DEF Searching
<1> QED  BY <1>5, <1>6

LEMMA WithoutChoiceFields ==
  ASSUME NEW f \in FrameType, NEW choice, NEW remain \in SUBSET Package, NEW g,
         g = WithoutChoice(f, choice, remain)
  PROVE  /\ g \in FrameType /\ g.choices = f.choices \ {choice}
         /\ g.last = f.last /\ g.options = f.options /\ g.tried = f.tried
         /\ IF choice \cap f.musts # {}
            THEN g.musts = f.musts /\ g.check = f.check /\ g.rebuild = f.rebuild
            ELSE IF Cardinality(remain) = 1
            THEN g.musts = f.musts \cup remain /\ g.check = f.check \cup remain /\ g.rebuild = f.rebuild
            ELSE g.musts = f.musts /\ g.check = f.check /\ g.rebuild = f.rebuild \cup {remain}
<1>1. /\ f.choices \ {choice} \in SUBSET SUBSET Package
      /\ f.check \cup remain \in SUBSET Package /\ f.musts \cup remain \in SUBSET Package
      /\ f.rebuild \cup {remain} \in SUBSET SUBSET Package
  BY DEF FrameType
<1>2. CASE choice \cap f.musts # {}
  <2>1. g = [f EXCEPT !.choices = @ \ {choice}]
    BY <1>2 DEF WithoutChoice
  <2> QED  BY <1>1, <1>2, <2>1 DEF FrameType
<1>3. CASE choice \cap f.musts = {} /\ Cardinality(remain) = 1
  <2>1. g = [f EXCEPT !.choices = @ \ {choice}, !.check = @ \cup remain, !.musts = @ \cup remain]
    BY <1>3 DEF WithoutChoice
  <2>2. g \in FrameType
    BY <1>1, <2>1 DEF FrameType
  <2> QED  BY <1>1, <1>3, <2>1, <2>2 DEF FrameType
<1>4. CASE choice \cap f.musts = {} /\ Cardinality(remain) # 1
  <2>1. g = [f EXCEPT !.choices = @ \ {choice}, !.rebuild = @ \cup {remain}]
    BY <1>4 DEF WithoutChoice
  <2>2. g \in FrameType
    BY <1>1, <2>1 DEF FrameType
  <2> QED  BY <1>1, <1>4, <2>1, <2>2 DEF FrameType
<1> QED  BY <1>2, <1>3, <1>4

\* What pruning does to a frame leaves it sound.
LEMMA WithoutChoiceSound ==
  ASSUME NEW f, FrameSound(f), UNION f.rebuild \subseteq suite_contents, Guess(f) = {},
         NEW choice, NEW remain, remain \subseteq choice \cap suite_contents,
         choice \cap f.musts # {} \/ remain # {},
         NEW g, g.choices = f.choices \ {choice},
         g.last = f.last, g.options = f.options, g.tried = f.tried,
         IF choice \cap f.musts # {}
         THEN g.musts = f.musts /\ g.check = f.check /\ g.rebuild = f.rebuild
         ELSE IF Cardinality(remain) = 1
         THEN g.musts = f.musts \cup remain /\ g.check = f.check \cup remain /\ g.rebuild = f.rebuild
         ELSE g.musts = f.musts /\ g.check = f.check /\ g.rebuild = f.rebuild \cup {remain}
  PROVE  /\ f.musts \subseteq g.musts /\ FrameSound(g)
         /\ UNION g.rebuild \subseteq suite_contents /\ Guess(g) = {}
<1>1. remain \subseteq choice /\ remain \subseteq suite_contents
  OBVIOUS
<1>2. /\ f.last = {} /\ f.options = {} /\ f.tried = {} 
      /\ g.last = {} /\ g.options = {} /\ g.tried = {} /\ Guess(g) = {}
  BY DEF Guess
<1>3. /\ {call.t} \cup cache_ess.start \subseteq f.musts /\ f.check \subseteq f.musts
      /\ \A p \in f.musts \ f.check : \A clause \in Dependencies[p] :
           Met(clause, f.musts \cup SettledOnes, f.choices \cup f.rebuild)
      /\ \/ \E c \in f.choices \cup f.rebuild : Hopeless(c, f.musts)
         \/ \E p \in f.check : Doomed(p, f.musts)
         \/ f.musts \subseteq suite_contents /\ Peaceful(f.musts \ f.check)
  BY <1>2 DEF FrameSound, Served, Lost
<1>4. CASE choice \cap f.musts # {}
  <2>1. /\ g.musts = f.musts /\ g.choices = f.choices \ {choice}
        /\ g.check = f.check /\ g.rebuild = f.rebuild
        /\ g.last = {} /\ g.options = {} /\ g.tried = {}
    BY <1>2, <1>4
  <2>2. Served(g)
    BY <1>3, <1>4, <2>1 DEF Served, Met
  <2>3. Lost(g) \/ (g.musts \subseteq suite_contents /\ Peaceful(g.musts \ g.check))
    <3>1. ~Hopeless(choice, f.musts)
      BY <1>4 DEF Hopeless
    <3> QED  BY <1>3, <2>1, <3>1 DEF Lost
  <2>4. FrameSound(g)
    BY <1>3, <2>1, <2>2, <2>3 DEF FrameSound
  <2> QED  BY <1>2, <2>1, <2>4
<1>5. CASE choice \cap f.musts = {} /\ Cardinality(remain) = 1
  <2>1. /\ g.musts = f.musts \cup remain /\ g.choices = f.choices \ {choice}
        /\ g.check = f.check \cup remain /\ g.rebuild = f.rebuild
        /\ g.last = {} /\ g.options = {} /\ g.tried = {}
    BY <1>2, <1>5
  <2>2. remain # {}
    BY <1>5
  <2>3. Served(g)
    BY <1>1, <1>3, <2>1, <2>2 DEF Served, Met
  <2>4. Lost(g) \/ (g.musts \subseteq suite_contents /\ Peaceful(g.musts \ g.check))
    <3>1. \A c : Hopeless(c, f.musts) => c # choice /\ Hopeless(c, g.musts)
      BY <1>1, <2>1, <2>2 DEF Hopeless
    <3>2. \A p : Doomed(p, f.musts) => Doomed(p, g.musts)
      BY <1>1, <2>1 DEF Doomed, Hopeless
    <3>3. g.musts \subseteq f.musts \cup suite_contents /\ g.musts \ g.check \subseteq f.musts \ f.check
      BY <1>1, <2>1
    <3> QED  BY <1>3, <2>1, <3>1, <3>2, <3>3 DEF Lost, Peaceful
  <2>5. FrameSound(g)
    BY <1>3, <2>1, <2>3, <2>4 DEF FrameSound
  <2> QED  BY <1>2, <2>1, <2>5
<1>6. CASE choice \cap f.musts = {} /\ Cardinality(remain) # 1
  <2>1. /\ g.musts = f.musts /\ g.choices = f.choices \ {choice}
        /\ g.check = f.check /\ g.rebuild = f.rebuild \cup {remain}
        /\ g.last = {} /\ g.options = {} /\ g.tried = {}
    BY <1>2, <1>6
  <2>2. remain # {}
    BY <1>6
  <2>3. Served(g)
    <3>1. ASSUME NEW clause, Met(clause, f.musts \cup SettledOnes, f.choices \cup f.rebuild)
          PROVE  Met(clause, g.musts \cup SettledOnes, g.choices \cup g.rebuild)
      <4>1. choice \subseteq clause => remain \subseteq clause /\ remain \in g.rebuild
        BY <1>1, <2>1
      <4> QED  BY <2>1, <3>1, <4>1 DEF Met
    <3> QED  BY <1>3, <2>1, <3>1 DEF Served
  <2>4. Lost(g) \/ (g.musts \subseteq suite_contents /\ Peaceful(g.musts \ g.check))
    <3>1. ~Hopeless(choice, f.musts)
      BY <1>1, <2>2 DEF Hopeless
    <3> QED  BY <1>3, <2>1, <3>1 DEF Lost
  <2>5. FrameSound(g)
    BY <1>3, <2>1, <2>3, <2>4 DEF FrameSound
  <2>6. UNION g.rebuild \subseteq suite_contents
    BY <1>1, <2>1
  <2> QED  BY <1>2, <2>1, <2>5, <2>6
<1> QED  BY <1>4, <1>5, <1>6

LEMMA PruneStepSound ==
  ASSUME NoInv, PlaceInv, YesInv, Prune
  PROVE  YesInv'
<1>1. pc = "prune" /\ UNCHANGED <<suite, cache_ess>> /\ Searching
  BY DEF Prune, Searching
<1>2. PICK choice \in Top.choices :
        LET remain == (choice \ Top.never) \ cache_broken
        IN  IF choice \cap Top.musts = {} /\ remain = {} THEN Fail
            ELSE /\ frames' = WithTop(WithoutChoice(Top, choice, remain))
                 /\ UNCHANGED <<suite_contents, cache_broken, cache_inst, call, pc, loop, answer>>
  BY Zenon DEF Prune
<1> DEFINE remain == (choice \ Top.never) \ cache_broken
<1>3. CASE Fail
  BY <1>1, <1>3, FailSound
<1>4. CASE /\ choice \cap Top.musts # {} \/ remain # {}
           /\ frames' = WithTop(WithoutChoice(Top, choice, remain))
           /\ UNCHANGED <<suite_contents, cache_broken, cache_inst, call, pc, loop, answer>>
  <2>1. ASSUME EssentialsInstallable PROVE SearchSound'
    <3>1. PICK f, r : f = Top /\ r = remain
      OBVIOUS
    <3>2. BelowSound /\ FrameSound(f) /\ UNION f.rebuild \subseteq suite_contents /\ Guess(f) = {}
      BY <1>1, <2>1, <3>1 DEF YesInv, SearchSound, PruneSound
    <3>3. PICK g : g = WithoutChoice(f, choice, r)
      OBVIOUS
    <3>4. /\ g \in FrameType /\ f.musts \subseteq g.musts /\ FrameSound(g)
          /\ UNION g.rebuild \subseteq suite_contents /\ Guess(g) = {}
      <4>1. f \in FrameType /\ UNION f.choices \subseteq suite
        BY <1>1, <2>1, <3>1, SearchFacts, FramesWithin DEF FrameWithin
      <4>2. r \subseteq choice \cap suite_contents /\ r \in SUBSET Package
        BY <1>1, <3>1, <4>1 DEF NoInv, ContentsInSync, Inv, TypeOK
      <4>3. /\ g \in FrameType /\ g.choices = f.choices \ {choice}
            /\ g.last = f.last /\ g.options = f.options /\ g.tried = f.tried
            /\ IF choice \cap f.musts # {}
               THEN g.musts = f.musts /\ g.check = f.check /\ g.rebuild = f.rebuild
               ELSE IF Cardinality(r) = 1
               THEN g.musts = f.musts \cup r /\ g.check = f.check \cup r /\ g.rebuild = f.rebuild
               ELSE g.musts = f.musts /\ g.check = f.check /\ g.rebuild = f.rebuild \cup {r}
        BY <3>3, <4>1, <4>2, WithoutChoiceFields
      <4>4. choice \cap f.musts # {} \/ r # {}
        BY <1>4, <3>1
      <4>5. /\ f.musts \subseteq g.musts /\ FrameSound(g)
            /\ UNION g.rebuild \subseteq suite_contents /\ Guess(g) = {}
        BY <3>2, <4>2, <4>3, <4>4, WithoutChoiceSound
      <4> QED  BY <4>3, <4>5
    <3>5. Top' = g /\ BelowSound'
      BY <1>1, <1>4, <3>1, <3>2, <3>3, <3>4, TopSound
    <3>6. FrameSound(g)'
      BY <1>1, <1>4, <3>4, ReadyKept
    <3>7. PruneSound'
      BY <1>4, <3>4, <3>5, <3>6 DEF PruneSound, Guess
    <3> QED  BY <1>1, <1>4, <3>5, <3>7 DEF SearchSound
  <2> QED  BY <1>1, <1>4, <2>1, GoOnSound DEF Searching
<1> QED  BY <1>2, <1>3, <1>4

LEMMA PrunedSound ==
  ASSUME NoInv, PlaceInv, YesInv, Pruned
  PROVE  YesInv'
<1>1. pc = "prune" /\ UNCHANGED <<suite, cache_ess>> /\ Searching /\ Top.choices = {}
  BY DEF Pruned, Searching
<1>2. PICK f : f = Frame(Top.musts, Top.never, Top.rebuild, Top.check)
  OBVIOUS
<1>3. /\ f \in FrameType /\ f.musts = Top.musts /\ f.choices = Top.rebuild /\ f.check = Top.check
      /\ f.rebuild = {} /\ f.options = {} /\ f.last = {} /\ f.tried = {}
      /\ LET l == LoopOf(f)
         IN  /\ l.musts = Top.musts /\ l.choices = Top.rebuild /\ l.check = Top.check
             /\ l.cur = {} /\ l.dependencies = {} /\ ~l.failed
  BY <1>1, <1>2, TopFields, FrameTypes, FrameFields
<1>4. ASSUME EssentialsInstallable
      PROVE  /\ BelowSound /\ Guess(f) = {} /\ FrameSound(f) /\ UNION f.choices \subseteq suite_contents
             /\ {call.t} \cup cache_ess.start \subseteq f.musts /\ f.check \subseteq f.musts
             /\ \A p \in f.musts \ f.check : \A clause \in Dependencies[p] :
                  Met(clause, f.musts \cup SettledOnes, f.choices)
             /\ \/ \E choice \in f.choices : Hopeless(choice, f.musts)
                \/ \E p \in f.check : Doomed(p, f.musts)
                \/ f.musts \subseteq suite_contents /\ Peaceful(f.musts \ f.check)
  <2>1. BelowSound /\ PruneSound
    BY <1>1, <1>4 DEF YesInv, SearchSound
  <2>2. FrameSound(Top) /\ UNION Top.rebuild \subseteq suite_contents /\ Top.last = {}
    BY <2>1 DEF PruneSound, Guess
  <2>3. Guess(f) = {}
    BY <1>3 DEF Guess
  <2>4. /\ {call.t} \cup cache_ess.start \subseteq f.musts /\ f.check \subseteq f.musts
        /\ \A p \in f.musts \ f.check : \A clause \in Dependencies[p] :
             Met(clause, f.musts \cup SettledOnes, f.choices)
        /\ \/ \E choice \in f.choices : Hopeless(choice, f.musts)
           \/ \E p \in f.check : Doomed(p, f.musts)
           \/ f.musts \subseteq suite_contents /\ Peaceful(f.musts \ f.check)
    BY <1>1, <1>3, <2>2 DEF FrameSound, Served, Lost
  <2>5. FrameSound(f)
    BY <1>3, <2>4 DEF FrameSound, Served, Lost
  <2> QED  BY <1>3, <2>1, <2>2, <2>3, <2>4, <2>5
<1>5. CASE f.check = {} /\ f.choices = {}
  <2>1. Succeed(f.musts)
    BY <1>2, <1>5 DEF Pruned
  <2>2. ASSUME EssentialsInstallable
        PROVE  /\ Sound(f.musts) /\ {call.t} \cup cache_ess.start \subseteq f.musts
               /\ \A p \in f.musts : \A clause \in Dependencies[p] :
                    clause \cap (f.musts \cup SettledOnes) # {}
    BY <1>4, <1>5, <2>2 DEF Met, Sound
  <2> QED  BY <1>1, <2>1, <2>2, SucceedSound
<1>6. CASE ~(f.check = {} /\ f.choices = {})
  <2>1. /\ frames' = WithTop(f)
        /\ IF f.check = {} THEN pc' = "resolve" /\ loop' = NoLoop
           ELSE pc' = "main" /\ loop' = LoopOf(f)
        /\ UNCHANGED <<suite_contents, cache_broken, cache_inst, call, answer>>
    BY <1>2, <1>6 DEF Pruned
  <2>2. ASSUME EssentialsInstallable PROVE SearchSound'
    <3>1. Top' = f /\ BelowSound'
      BY <1>1, <1>3, <1>4, <2>1, <2>2, TopSound
    <3>2. CASE f.check = {}
      <4>1. Ready(f)
        BY <1>3, <1>4, <2>2, <3>2 DEF Ready, AlternativesSound
      <4>2. Ready(f)'
        BY <1>1, <2>1, <4>1, ReadyKept
      <4>3. Ready(Top)' /\ (Guess(Top) = {})'
        BY <1>4, <2>2, <3>1, <4>2 DEF Guess
      <4> QED  BY <2>1, <3>1, <3>2, <4>3 DEF SearchSound
    <3>3. CASE f.check # {}
      <4>1. /\ loop'.musts = f.musts /\ loop'.choices = f.choices /\ loop'.check = f.check
            /\ loop'.cur = {} /\ loop'.dependencies = {} /\ ~loop'.failed
        BY <1>3, <2>1, <3>3
      <4>2. LoopServed({})'
        BY <1>1, <1>4, <2>2, <4>1, SettledKept DEF LoopServed, Met
      <4>3. LoopPending'
        BY <1>4, <2>2, <4>1 DEF LoopPending
      <4>4. LoopGood({})' \/ \E choice \in loop'.choices : Hopeless(choice, loop.musts)'
        <5>1. CASE \E choice \in f.choices : Hopeless(choice, f.musts)
          BY <2>1, <4>1, <5>1 DEF Hopeless
        <5>2. CASE \E p \in f.check : Doomed(p, f.musts)
          <6>1. LoopLost'
            BY <2>1, <4>1, <5>2 DEF LoopLost, Doomed, Hopeless
          <6> QED  BY <6>1 DEF LoopGood
        <5>3. CASE f.musts \subseteq suite_contents /\ Peaceful(f.musts \ f.check)
          BY <2>1, <4>1, <5>3 DEF LoopGood, Peaceful
        <5> QED  BY <1>4, <2>2, <5>1, <5>2, <5>3
      <4>5. MainSound'
        BY <1>1, <1>4, <2>1, <2>2, <3>1, <4>1, <4>2, <4>3, <4>4 DEF MainSound
      <4> QED  BY <2>1, <3>1, <3>3, <4>5 DEF SearchSound
    <3> QED  BY <3>2, <3>3
  <2> QED  BY <1>1, <2>1, <2>2, GoOnSound DEF Searching
<1> QED  BY <1>5, <1>6

LEMMA ResolveSound ==
  ASSUME NoInv, PlaceInv, YesInv, ResolveChoice
  PROVE  YesInv'
<1>1. pc = "resolve" /\ UNCHANGED <<suite, cache_ess>> /\ Searching
  BY DEF ResolveChoice, Searching
<1>2. PICK g : g = Top
  OBVIOUS
<1>3. g \in FrameType
  BY <1>1, <1>2, SearchFacts
<1>4. ASSUME EssentialsInstallable
      PROVE  /\ BelowSound /\ AlternativesSound(g) /\ g.check = {} /\ g.rebuild = {}
             /\ g.options = {} /\ g.last = {} /\ g.tried = {}
             /\ {call.t} \cup cache_ess.start \subseteq g.musts
             /\ \A p \in g.musts : \A clause \in Dependencies[p] :
                  Met(clause, g.musts \cup SettledOnes, g.choices)
             /\ \/ \E choice \in g.choices : Hopeless(choice, g.musts)
                \/ Sound(g.musts)
  <2>1. BelowSound /\ Ready(g) /\ Guess(g) = {}
    BY <1>1, <1>2, <1>4 DEF YesInv, SearchSound
  <2>2. /\ FrameSound(g) /\ AlternativesSound(g) /\ g.check = {} /\ g.rebuild = {}
        /\ g.options = {} /\ g.last = {} /\ g.tried = {}
    BY <2>1 DEF Ready, Guess
  <2>3. /\ g.choices \cup g.rebuild = g.choices /\ g.musts \ g.check = g.musts
    BY <2>2
  <2> QED  BY <2>1, <2>2, <2>3 DEF FrameSound, Served, Lost, Sound
<1>5. CASE g.choices = {}
  <2>1. Succeed(g.musts)
    BY <1>2, <1>5 DEF ResolveChoice
  <2>2. ASSUME EssentialsInstallable
        PROVE  /\ Sound(g.musts) /\ {call.t} \cup cache_ess.start \subseteq g.musts
               /\ \A p \in g.musts : \A clause \in Dependencies[p] :
                    clause \cap (g.musts \cup SettledOnes) # {}
    BY <1>4, <1>5, <2>2 DEF Met
  <2> QED  BY <1>1, <2>1, <2>2, SucceedSound
<1>6. CASE g.choices # {}
  <2>1. PICK choice \in g.choices : \E last \in choice :
          frames' = WithTop([g EXCEPT !.choices = @ \ {choice},
                                      !.options = choice \ {last}, !.last = {last}])
    BY <1>2, <1>6 DEF ResolveChoice
  <2>2. PICK last \in choice :
          frames' = WithTop([g EXCEPT !.choices = @ \ {choice},
                                      !.options = choice \ {last}, !.last = {last}])
    BY <2>1
  <2>3. pc' = "options" /\ UNCHANGED <<loop, call, answer, suite_contents, cache_broken, cache_inst>>
    BY <1>2, <1>6 DEF ResolveChoice
  <2>4. PICK f : f = [g EXCEPT !.choices = @ \ {choice}, !.options = choice \ {last}, !.last = {last}]
    OBVIOUS
  <2>5. f \in FrameType
    <3>1. g.choices \ {choice} \in SUBSET SUBSET Package /\ choice \ {last} \in SUBSET Package
          /\ {last} \in SUBSET Package
      BY <1>3, <2>1, <2>2 DEF FrameType
    <3> QED  BY <1>3, <2>4, <3>1 DEF FrameType
  <2>6. /\ f.musts = g.musts /\ f.check = g.check /\ f.rebuild = g.rebuild /\ f.tried = g.tried
        /\ f.choices = g.choices \ {choice} /\ f.options = choice \ {last} /\ f.last = {last}
    BY <1>3, <2>4, <2>5 DEF FrameType
  <2>7. ASSUME EssentialsInstallable PROVE SearchSound'
    <3>1. Top' = f /\ BelowSound'
      BY <1>1, <1>2, <1>4, <2>2, <2>3, <2>4, <2>5, <2>6, <2>7, TopSound
    <3>2. Guess(f) = choice
      BY <1>4, <2>2, <2>6, <2>7 DEF Guess
    <3>3. Served(f)
      BY <1>4, <2>6, <2>7, <3>2 DEF Served, Met
    <3>4. Lost(f) \/ (f.musts \subseteq suite_contents /\ Peaceful(f.musts \ f.check))
      <4>1. Sound(g.musts) => f.musts \subseteq suite_contents /\ Peaceful(f.musts \ f.check)
        BY <2>6 DEF Sound, Peaceful
      <4>2. ASSUME NEW c \in g.choices, Hopeless(c, g.musts) PROVE Lost(f)
        BY <2>6, <3>2, <4>2 DEF Lost
      <4> QED  BY <1>4, <2>7, <4>1, <4>2
    <3>5. FrameSound(f)
      BY <1>4, <2>6, <2>7, <3>3, <3>4 DEF FrameSound
    <3>6. AlternativesSound(f)
      <4>1. (UNION f.choices) \cup Guess(f) \subseteq UNION g.choices
        BY <2>1, <2>6, <3>2
      <4> QED  BY <1>4, <2>6, <2>7, <4>1 DEF AlternativesSound
    <3>7. Ready(f)
      BY <1>4, <2>6, <2>7, <3>5, <3>6 DEF Ready
    <3>8. Ready(f)'
      BY <1>1, <2>3, <3>7, ReadyKept
    <3>9. Ready(Top)' /\ Guesses(Top)'
      BY <2>6, <3>1, <3>8 DEF Guesses
    <3> QED  BY <2>3, <3>1, <3>9 DEF SearchSound
  <2> QED  BY <1>1, <2>3, <2>7, GoOnSound DEF Searching
<1> QED  BY <1>5, <1>6

\* Who is in no clause that is lost, is lost with more taken that is there.
LEMMA MoreTaken ==
  ASSUME NEW musts, NEW more, more \subseteq musts \cup suite_contents
  PROVE  /\ \A clause : Hopeless(clause, musts) => Hopeless(clause, more)
         /\ \A p : Doomed(p, musts) => Doomed(p, more)
BY DEF Hopeless, Doomed

LEMMA TryOptionSound ==
  ASSUME NoInv, PlaceInv, YesInv, TryOption
  PROVE  YesInv'
<1>1. /\ pc = "options" /\ Searching
      /\ UNCHANGED <<suite, suite_contents, cache_inst, cache_ess, call, answer>>
  BY DEF TryOption, Searching, caches
<1>2. PICK g : g = Top
  OBVIOUS
<1>3. g \in FrameType
  BY <1>1, <1>2, SearchFacts
<1>4. ASSUME EssentialsInstallable
      PROVE  /\ BelowSound /\ AlternativesSound(g) /\ g.check = {} /\ g.rebuild = {}
             /\ Guesses(g) /\ g.last # {}
             /\ {call.t} \cup cache_ess.start \subseteq g.musts
             /\ \A p \in g.musts : \A clause \in Dependencies[p] :
                  Met(clause, g.musts \cup SettledOnes, g.choices) \/ Guess(g) \subseteq clause
             /\ \/ \E choice \in g.choices : Hopeless(choice, g.musts)
                \/ Hopeless(Guess(g), g.musts)
                \/ Sound(g.musts)
  <2>1. BelowSound /\ Ready(g) /\ Guesses(g)
    BY <1>1, <1>2, <1>4 DEF YesInv, SearchSound
  <2>2. /\ FrameSound(g) /\ AlternativesSound(g) /\ g.check = {} /\ g.rebuild = {}
        /\ g.last # {}
    BY <2>1 DEF Ready, Guesses
  <2>3. /\ g.choices \cup g.rebuild = g.choices /\ g.musts \ g.check = g.musts
    BY <2>2
  <2> QED  BY <2>1, <2>2, <2>3 DEF FrameSound, Served, Lost, Sound
<1>5. CASE g.options = {}
  <2>1. PICK f : f = Frame(g.musts \cup g.last, g.never, g.choices, g.last)
    OBVIOUS
  <2>2. frames' = WithTop(f) /\ pc' = "main" /\ loop' = LoopOf(f)
    BY <1>2, <1>5, <2>1 DEF TryOption
  <2>3. /\ f \in FrameType /\ f.musts = g.musts \cup g.last
        /\ loop'.musts = g.musts \cup g.last /\ loop'.choices = g.choices /\ loop'.check = g.last
        /\ loop'.cur = {} /\ loop'.dependencies = {} /\ ~loop'.failed
    <3>1. /\ g.musts \cup g.last \in SUBSET Package /\ g.never \in SUBSET Package
          /\ g.choices \in SUBSET SUBSET Package /\ g.last \in SUBSET Package
      BY <1>3 DEF FrameType
    <3>2. f \in FrameType
      BY <2>1, <3>1, FrameTypes
    <3> QED  BY <2>1, <2>2, <3>2, FrameFields
  <2>4. ASSUME EssentialsInstallable PROVE SearchSound'
    <3>1. Top' = f /\ BelowSound'
      BY <1>1, <1>2, <1>4, <2>2, <2>3, <2>4, TopSound
    <3>2. LoopServed({})'
      <4> SUFFICES ASSUME NEW p \in (g.musts \cup g.last) \ g.last, NEW clause \in Dependencies[p]
                   PROVE  Met(clause, g.musts \cup g.last \cup SettledOnes, g.choices)
        BY <1>1, <2>3, SettledKept DEF LoopServed, Met
      <4>1. Met(clause, g.musts \cup SettledOnes, g.choices) \/ Guess(g) \subseteq clause
        BY <1>4, <2>4
      <4>2. g.last \subseteq Guess(g) /\ g.last # {}
        BY <1>4, <2>4 DEF Guess
      <4> QED  BY <4>1, <4>2 DEF Met
    <3>3. LoopPending'
      BY <2>3 DEF LoopPending
    <3>4. PICK last : g.last = {last}
      BY <1>4, <2>4 DEF Guesses
    <3>5. last \in suite_contents \cup g.musts \/ Doomed(last, g.musts)
      BY <1>4, <2>4, <3>4 DEF AlternativesSound, Guess
    <3>6. ASSUME last \notin suite_contents \cup g.musts PROVE LoopLost'
      <4>1. Doomed(last, g.musts \cup {last})
        BY <3>5, <3>6 DEF Doomed
      <4> QED  BY <1>1, <2>3, <3>4, <4>1 DEF LoopLost, Doomed, Hopeless
    <3>7. LoopGood({})' \/ \E choice \in loop'.choices : Hopeless(choice, loop.musts)'
      <4>1. CASE last \notin suite_contents \cup g.musts
        BY <3>6, <4>1 DEF LoopGood
      <4>2. CASE last \in suite_contents \cup g.musts
        <5>1. g.musts \cup g.last \subseteq g.musts \cup suite_contents
          BY <3>4, <4>2
        <5>2. ~Hopeless(Guess(g), g.musts)
          BY <3>4, <4>2 DEF Hopeless, Guess
        <5>3. ASSUME NEW choice \in g.choices, Hopeless(choice, g.musts)
              PROVE  \E c \in loop'.choices : Hopeless(c, loop.musts)'
          <6>1. Hopeless(choice, g.musts \cup g.last)
            BY <5>1, <5>3, MoreTaken
          <6> QED  BY <1>1, <2>3, <6>1 DEF Hopeless
        <5>4. ASSUME Sound(g.musts) PROVE LoopGood({})'
          BY <1>1, <2>3, <5>1, <5>4 DEF LoopGood, Sound, Peaceful
        <5> QED  BY <1>4, <2>4, <5>2, <5>3, <5>4
      <4> QED  BY <4>1, <4>2
    <3>8. MainSound'
      BY <1>1, <1>4, <2>3, <2>4, <3>1, <3>2, <3>3, <3>7 DEF MainSound
    <3> QED  BY <2>2, <3>1, <3>8 DEF SearchSound
  <2> QED  BY <1>1, <2>2, <2>4, GoOnSound DEF Searching
<1>6. CASE g.options # {}
  <2>1. PICK p \in g.options :
          /\ frames' = WithTop([g EXCEPT !.options = OptionsLeft(@, p), !.tried = {p}])
          /\ pc' = "try" /\ loop' = Loop(g.musts \cup {p}, {}, {}, {p})
    BY <1>2, <1>6 DEF TryOption
  <2>2. PICK f : f = [g EXCEPT !.options = OptionsLeft(@, p), !.tried = {p}]
    OBVIOUS
  <2>3. f \in FrameType
    <3>1. g.options \ {p} \in SUBSET Package /\ {p} \in SUBSET Package
      BY <1>3, <2>1 DEF FrameType
    <3> QED  BY <1>3, <2>2, <3>1 DEF FrameType, OptionsLeft
  <2>4. /\ f.musts = g.musts /\ f.check = g.check /\ f.rebuild = g.rebuild /\ f.tried = {p}
        /\ f.choices = g.choices /\ f.options = g.options \ {p} /\ f.last = g.last
    BY <1>3, <2>2, <2>3 DEF FrameType, OptionsLeft
  <2>5. /\ loop'.musts = g.musts \cup {p} /\ loop'.choices = {} /\ loop'.check = {p}
        /\ loop'.cur = {} /\ loop'.dependencies = {} /\ ~loop'.failed
    BY <2>1, LoopOfFields
  <2>6. ASSUME EssentialsInstallable PROVE SearchSound'
    <3>1. Top' = f /\ BelowSound'
      BY <1>1, <1>2, <1>4, <2>1, <2>2, <2>3, <2>4, <2>6, TopSound
    <3>2. Guess(f) \subseteq Guess(g) /\ p \in Guess(f)
      BY <2>1, <2>4 DEF Guess
    <3>3. Served(f)
      BY <1>4, <2>4, <2>6, <3>2 DEF Served, Met
    <3>4. Lost(f) \/ (f.musts \subseteq suite_contents /\ Peaceful(f.musts \ f.check))
      <4>1. Sound(g.musts) => f.musts \subseteq suite_contents /\ Peaceful(f.musts \ f.check)
        BY <2>4 DEF Sound, Peaceful
      <4>2. ASSUME NEW c \in g.choices, Hopeless(c, g.musts) PROVE Lost(f)
        BY <2>4, <4>2 DEF Lost
      <4>3. ASSUME Hopeless(Guess(g), g.musts) PROVE Lost(f)
        <5>1. Hopeless(Guess(f), f.musts)
          BY <2>4, <3>2, <4>3 DEF Hopeless
        <5> QED  BY <1>4, <2>4, <2>6, <5>1 DEF Lost
      <4> QED  BY <1>4, <2>6, <4>1, <4>2, <4>3
    <3>5. FrameSound(f)
      BY <1>4, <2>4, <2>6, <3>3, <3>4 DEF FrameSound
    <3>6. AlternativesSound(f)
      BY <1>4, <2>4, <2>6, <3>2 DEF AlternativesSound
    <3>7. Ready(f)
      BY <1>4, <2>4, <2>6, <3>5, <3>6 DEF Ready
    <3>8. Ready(f)'
      BY <1>1, <3>7, ReadyKept
    <3>9. Ready(Top)' /\ Guesses(Top)'
      BY <1>4, <2>4, <2>6, <3>1, <3>8 DEF Guesses
    <3>10. LoopServed(f.choices)'
      <4> SUFFICES ASSUME NEW q \in (g.musts \cup {p}) \ {p}, NEW clause \in Dependencies[q]
                   PROVE  Met(clause, g.musts \cup {p} \cup SettledOnes, g.choices)
        BY <1>1, <2>4, <2>5, SettledKept DEF LoopServed, Met
      <4>1. Met(clause, g.musts \cup SettledOnes, g.choices) \/ Guess(g) \subseteq clause
        BY <1>4, <2>6
      <4> QED  BY <3>2, <4>1 DEF Met
    <3>11. LoopPending'
      BY <2>5 DEF LoopPending
    <3>12. ASSUME p \notin suite_contents \cup g.musts PROVE LoopLost'
      <4>1. Doomed(p, g.musts)
        BY <1>4, <2>6, <3>2, <3>12 DEF AlternativesSound
      <4>2. Doomed(p, g.musts \cup {p})
        BY <4>1 DEF Doomed
      <4> QED  BY <1>1, <2>5, <4>2 DEF LoopLost, Doomed, Hopeless
    <3>13. LoopGood(f.musts)'
      <4>1. CASE p \in suite_contents \cup g.musts
        BY <1>1, <2>4, <2>5, <4>1 DEF LoopGood, Peaceful
      <4>2. CASE p \notin suite_contents \cup g.musts
        BY <3>12, <4>2 DEF LoopGood
      <4> QED  BY <4>1, <4>2
    <3>14. Hopeless(Guess(f), f.musts)' => LoopLost'
      BY <1>1, <2>4, <3>2, <3>12 DEF Hopeless, Guess
    <3>15. LoopSound(f.musts, f.choices)'
      BY <3>10, <3>11, <3>13 DEF LoopSound
    <3>16. Within(f, g.musts \cup {p})
      BY <2>4 DEF Within
    <3>17. TrySound'
      BY <2>5, <3>1, <3>14, <3>15, <3>16 DEF TrySound, Within
    <3> QED  BY <2>1, <3>1, <3>9, <3>17 DEF SearchSound
  <2> QED  BY <1>1, <2>1, <2>6, GoOnSound DEF Searching
<1> QED  BY <1>5, <1>6

\* What a tentative choice adds goes with what is taken already, if that is not
\* among what it excludes.
LEMMA TryTaken ==
  ASSUME NoInv, YesInv, EssentialsInstallable, pc = "try", LoopEnded, ~loop.failed, NEW g, g = Top
  PROVE  /\ BelowSound /\ Ready(g) /\ Guesses(g) /\ Within(g, loop.musts)
         /\ loop.check = {} /\ loop.dependencies = {} /\ g.musts \subseteq loop.musts
         /\ loop.musts \subseteq g.musts \cup suite_contents
         /\ {call.t} \cup cache_ess.start \subseteq loop.musts
         /\ \A p \in loop.musts : \A clause \in Dependencies[p] :
              Met(clause, loop.musts \cup SettledOnes, loop.choices \cup g.choices)
         /\ g.musts \cap loop.never = {} =>
              \/ \E choice \in g.choices : Hopeless(choice, loop.musts)
              \/ Sound(loop.musts)
<1>1. Searching /\ InLoop
  BY DEF Searching, InLoop
<1>2. BelowSound /\ Ready(g) /\ Guesses(g) /\ TrySound
  BY <1>1 DEF YesInv, SearchSound
<1>3. loop.check = {} /\ loop.dependencies = {} /\ ~LoopLost
  BY DEF LoopEnded, LoopLost
<1>4. /\ Within(g, loop.musts) /\ LoopServed(g.choices) /\ LoopGood(g.musts)
      /\ ~Hopeless(Guess(g), g.musts)
  BY <1>2, <1>3 DEF TrySound, LoopSound
<1>5. g.musts \subseteq loop.musts
  BY <1>4 DEF Within
<1>6. /\ loop.musts \ g.musts \subseteq suite_contents
      /\ Peaceful(loop.musts \ g.musts)
  BY <1>3, <1>4 DEF LoopGood, Peaceful
<1>7. \A p \in loop.musts : \A clause \in Dependencies[p] :
        Met(clause, loop.musts \cup SettledOnes, loop.choices \cup g.choices)
  BY <1>3, <1>4 DEF LoopServed
<1>8. /\ {call.t} \cup cache_ess.start \subseteq g.musts /\ g.check = {} /\ g.rebuild = {}
      /\ \/ \E choice \in g.choices : Hopeless(choice, g.musts)
         \/ Sound(g.musts)
  <2>1. FrameSound(g) /\ g.check = {} /\ g.rebuild = {}
    BY <1>2 DEF Ready
  <2>2. g.choices \cup g.rebuild = g.choices /\ g.musts \ g.check = g.musts
    BY <2>1
  <2> QED  BY <1>4, <2>1, <2>2 DEF FrameSound, Lost, Sound
<1>9. ASSUME g.musts \cap loop.never = {}
      PROVE  (\E choice \in g.choices : Hopeless(choice, loop.musts)) \/ Sound(loop.musts)
  <2>1. CASE \E choice \in g.choices : Hopeless(choice, g.musts)
    <3>1. PICK choice \in g.choices : Hopeless(choice, g.musts)
      BY <2>1
    <3>2. loop.musts \subseteq g.musts \cup suite_contents
      BY <1>6
    <3> QED  BY <3>1, <3>2, MoreTaken
  <2>2. CASE Sound(g.musts)
    <3>1. loop.musts \subseteq suite_contents
      BY <1>6, <2>2 DEF Sound
    <3>2. Covered(loop.musts \ g.musts, loop.never)
      BY <1>1, <1>3 DEF NoInv, FramesOK, CoveredOK
    <3>3. loop.musts \in SUBSET Package
      BY <1>1, LoopTypes DEF NoInv
    <3>4. ASSUME NEW q \in loop.musts, NEW r \in loop.musts, r \in Conflicts[q] PROVE FALSE
      <4>1. q \in Package /\ r \in Package /\ q \in Conflicts[r]
        BY <3>3, <3>4, ConflictFacts
      <4>2. q \in suite_contents /\ r \in suite_contents
        BY <3>1
      <4>3. CASE q \in g.musts /\ r \in g.musts
        BY <2>2, <3>4, <4>3 DEF Sound, Peaceful
      <4>4. CASE q \notin g.musts /\ r \notin g.musts
        BY <1>6, <3>4, <4>4 DEF Peaceful
      <4>5. CASE q \in g.musts /\ r \notin g.musts
        <5>1. q \in loop.never
          BY <3>2, <4>1, <4>2, <4>5 DEF Covered
        <5> QED  BY <1>9, <4>5, <5>1
      <4>6. CASE q \notin g.musts /\ r \in g.musts
        <5>1. r \in loop.never
          BY <3>2, <3>4, <4>2, <4>6 DEF Covered
        <5> QED  BY <1>9, <4>6, <5>1
      <4> QED  BY <4>3, <4>4, <4>5, <4>6
    <3>5. Peaceful(loop.musts)
      BY <3>4 DEF Peaceful
    <3> QED  BY <3>1, <3>5 DEF Sound
  <2> QED  BY <1>8, <2>1, <2>2
<1> QED  BY <1>2, <1>3, <1>4, <1>5, <1>6, <1>7, <1>8, <1>9

LEMMA TryLoopSound ==
  ASSUME NoInv, PlaceInv, YesInv, ShortcutsAreSafe, TryLoopEnds
  PROVE  YesInv'
<1>1. /\ pc = "try" /\ LoopEnded /\ Searching /\ InLoop
      /\ UNCHANGED <<suite, suite_contents, cache_inst, cache_ess, call, answer>>
  BY DEF TryLoopEnds, Searching, InLoop, caches
<1>2. PICK g : g = Top
  OBVIOUS
<1>3. g \in FrameType /\ loop \in LoopType
  BY <1>1, <1>2, SearchFacts, LoopTypes DEF NoInv
<1>4. CASE pc' = "options" /\ loop' = NoLoop /\ UNCHANGED frames
  <2>1. ASSUME EssentialsInstallable PROVE SearchSound'
    <3>1. BelowSound /\ Ready(g) /\ Guesses(g)
      BY <1>1, <1>2, <2>1 DEF YesInv, SearchSound
    <3>2. Ready(Top)' /\ Guesses(Top)'
      <4>1. Ready(g)' /\ Top' = g
        BY <1>1, <1>2, <1>4, <3>1, ReadyKept DEF Top
      <4> QED  BY <3>1, <4>1 DEF Guesses
    <3>3. BelowSound'
      <4>1. Below' = Below
        BY <1>4 DEF Below
      <4>2. ASSUME NEW i \in Below PROVE Ready(frames[i])'
        <5>1. Ready(frames[i])
          BY <3>1 DEF BelowSound
        <5> QED  BY <1>1, <1>4, <5>1, ReadyKept
      <4> QED  BY <1>4, <3>1, <4>1, <4>2 DEF BelowSound, Within, Guesses
    <3> QED  BY <1>4, <3>2, <3>3 DEF SearchSound
  <2> QED  BY <1>1, <1>4, <2>1, GoOnSound DEF Searching
<1>5. CASE /\ ~loop.failed /\ WithoutConsequences
           /\ frames' = WithTop(Frame(Top.musts \cup loop.musts, Top.never, Top.choices, {}))
           /\ pc' = "resolve" /\ loop' = NoLoop
  <2>1. PICK f : f = Frame(g.musts \cup loop.musts, g.never, g.choices, {})
    OBVIOUS
  <2>2. /\ f \in FrameType /\ f.musts = g.musts \cup loop.musts /\ f.choices = g.choices
        /\ f.check = {} /\ f.rebuild = {} /\ f.options = {} /\ f.last = {} /\ f.tried = {}
    <3>1. /\ g.musts \cup loop.musts \in SUBSET Package /\ g.never \in SUBSET Package
          /\ g.choices \in SUBSET SUBSET Package
      BY <1>3 DEF FrameType, LoopType
    <3> QED  BY <2>1, <3>1, FrameTypes, FrameFields
  <2>3. ASSUME EssentialsInstallable PROVE SearchSound'
    <3>1. /\ BelowSound /\ Ready(g) /\ g.musts \subseteq loop.musts
          /\ loop.musts \subseteq g.musts \cup suite_contents
          /\ {call.t} \cup cache_ess.start \subseteq loop.musts
          /\ \A p \in loop.musts : \A clause \in Dependencies[p] :
               Met(clause, loop.musts \cup SettledOnes, loop.choices \cup g.choices)
          /\ g.musts \cap loop.never = {} =>
               \/ \E choice \in g.choices : Hopeless(choice, loop.musts)
               \/ Sound(loop.musts)
      BY <1>1, <1>2, <1>5, <2>3, TryTaken
    <3>2. g.musts \cap loop.never = {} /\ loop.choices \subseteq g.choices
      BY <1>1, <1>2, <1>5 DEF ShortcutsAreSafe, WithoutConsequences
    <3>3. f.musts = loop.musts /\ loop.choices \cup g.choices = f.choices /\ Guess(f) = {}
      BY <2>2, <3>1, <3>2 DEF Guess
    <3>4. Top' = f /\ BelowSound'
      BY <1>1, <1>2, <1>5, <2>1, <2>2, <3>1, <3>3, TopSound
    <3>5. Served(f)
      BY <2>2, <3>1, <3>3 DEF Served, Met
    <3>6. Lost(f) \/ (f.musts \subseteq suite_contents /\ Peaceful(f.musts \ f.check))
      BY <2>2, <3>1, <3>2, <3>3 DEF Lost, Sound, Peaceful
    <3>7. FrameSound(f)
      BY <2>2, <3>1, <3>3, <3>5, <3>6 DEF FrameSound
    <3>8. AlternativesSound(f)
      <4> SUFFICES ASSUME NEW p \in UNION g.choices
                   PROVE  p \in suite_contents \cup loop.musts \/ Doomed(p, loop.musts)
        BY <2>2, <3>3 DEF AlternativesSound
      <4>1. p \in suite_contents \cup g.musts \/ Doomed(p, g.musts)
        BY <3>1 DEF Ready, AlternativesSound
      <4> QED  BY <3>1, <4>1, MoreTaken
    <3>9. Ready(f)
      BY <2>2, <3>7, <3>8 DEF Ready
    <3>10. Ready(f)'
      BY <1>1, <3>9, ReadyKept
    <3>11. Ready(Top)' /\ (Guess(Top) = {})'
      BY <3>3, <3>4, <3>10 DEF Guess
    <3> QED  BY <1>5, <3>4, <3>11 DEF SearchSound
  <2> QED  BY <1>1, <1>5, <2>3, GoOnSound DEF Searching
<1>6. CASE /\ ~loop.failed /\ Top.musts \cap loop.never = {}
           /\ LET f == Frame(loop.musts, loop.never \cup Top.never, loop.choices \cup Top.choices,
                             Top.tried)
              IN  frames' = Append(frames, f) /\ pc' = "main" /\ loop' = LoopOf(f)
  <2>1. PICK f : f = Frame(loop.musts, loop.never \cup g.never, loop.choices \cup g.choices, g.tried)
    OBVIOUS
  <2>2. frames' = Append(frames, f) /\ pc' = "main" /\ loop' = LoopOf(f)
    BY <1>2, <1>6, <2>1
  <2>3. /\ f \in FrameType /\ f.musts = loop.musts
        /\ loop'.musts = loop.musts /\ loop'.choices = loop.choices \cup g.choices
        /\ loop'.check = g.tried
        /\ loop'.cur = {} /\ loop'.dependencies = {} /\ ~loop'.failed
    <3>1. /\ loop.musts \in SUBSET Package /\ loop.never \cup g.never \in SUBSET Package
          /\ loop.choices \cup g.choices \in SUBSET SUBSET Package /\ g.tried \in SUBSET Package
      BY <1>3 DEF FrameType, LoopType
    <3> QED  BY <2>1, <2>2, <3>1, FrameTypes, FrameFields
  <2>4. ASSUME EssentialsInstallable PROVE SearchSound'
    <3>1. /\ BelowSound /\ Ready(g) /\ Guesses(g) /\ Within(g, loop.musts)
          /\ {call.t} \cup cache_ess.start \subseteq loop.musts
          /\ \A p \in loop.musts : \A clause \in Dependencies[p] :
               Met(clause, loop.musts \cup SettledOnes, loop.choices \cup g.choices)
          /\ \/ \E choice \in g.choices : Hopeless(choice, loop.musts)
             \/ Sound(loop.musts)
      BY <1>1, <1>2, <1>6, <2>4, TryTaken
    <3>2. Top' = f /\ BelowSound'
      BY <1>1, <1>2, <2>2, <2>3, <2>4, <3>1, DeeperSound
    <3>3. LoopServed({})'
      BY <1>1, <2>3, <3>1, SettledKept DEF LoopServed, Met
    <3>4. g.tried \subseteq loop.musts
      <4>1. PICK p \in Package : g.tried = {p}
        BY <1>1, <1>2 DEF NoInv, LoopsOK, TryOK
      <4> QED  BY <3>1, <4>1 DEF Within
    <3>5. LoopPending'
      BY <2>3, <3>4 DEF LoopPending
    <3>6. LoopGood({})' \/ \E choice \in loop'.choices : Hopeless(choice, loop.musts)'
      <4>1. ASSUME NEW choice \in g.choices, Hopeless(choice, loop.musts)
            PROVE  \E c \in loop'.choices : Hopeless(c, loop.musts)'
        BY <1>1, <2>3, <4>1 DEF Hopeless
      <4>2. ASSUME Sound(loop.musts) PROVE LoopGood({})'
        BY <1>1, <2>3, <4>2 DEF LoopGood, Sound, Peaceful
      <4> QED  BY <3>1, <4>1, <4>2
    <3>7. MainSound'
      BY <1>1, <2>3, <3>1, <3>2, <3>3, <3>5, <3>6 DEF MainSound
    <3> QED  BY <2>2, <3>2, <3>7 DEF SearchSound
  <2> QED  BY <1>1, <2>2, <2>4, GoOnSound DEF Searching
<1> QED  BY <1>4, <1>5, <1>6 DEF TryLoopEnds

LEMMA QuerySound ==
  ASSUME NoInv, YesInv, \/ \E t \in Package : is_installable(t)
                        \/ compute_installability \/ ComputeNext
  PROVE  YesInv'
<1>1. UNCHANGED <<suite, cache_inst>>
  BY DEF is_installable, compute_installability, ComputeNext, caches
<1>2. ASSUME NEW t \in Package, is_installable(t) PROVE YesInv'
  <2>1. CASE t \notin suite_contents \/ t \in Broken \/ t \in cache_inst
    <3>1. /\ answer' = [of |-> {t}, verdict |-> t \in suite_contents \ Broken]
          /\ UNCHANGED <<call, pc, frames, loop>> /\ pc = "idle" /\ t \in suite
      BY <1>2, <2>1 DEF is_installable, Idle, search
    <3>2. /\ EssentialsInstallable' <=> EssentialsInstallable
          /\ Solutions(suite)' = Solutions(suite) /\ Installable(suite)' = Installable(suite)
          /\ EssentialChoices' = EssentialChoices
      BY <1>1 DEF EssentialsInstallable, Installable, Solutions, Consistents, Consistent,
                  Unsatisfied, EssentialChoices
    <3>3. ASSUME EssentialsInstallable, answer'.verdict PROVE t \in Installable(suite)
      <4>1. t \in cache_inst \cap suite
        BY <2>1, <3>1, <3>3
      <4> QED  BY <3>3, <4>1 DEF YesInv, CacheSound, Installable
    <3>4. CacheSound'
      <4>1. answer'.of = {t}
        BY <3>1
      <4> QED  BY <1>1, <3>2, <3>3, <4>1 DEF YesInv, CacheSound
    <3> QED  BY <3>1, <3>4 DEF YesInv, SearchSound, Searching
  <2>2. CASE ~(t \notin suite_contents \/ t \in Broken \/ t \in cache_inst)
    <3>1. answer' = NoAnswer /\ Begin(t)
      BY <1>2, <2>2 DEF is_installable
    <3>2. pc' \in {"essential", "enter"} /\ answer'.of = {}
      BY <3>1 DEF Begin, NoAnswer
    <3> QED  BY <1>1, <3>2, IdleSound DEF Searching
  <2> QED  BY <2>1, <2>2
<1>3. CASE compute_installability
  <2>1. answer'.of = {} /\ pc' = "idle"
    BY <1>3 DEF compute_installability, NoAnswer, Idle
  <2> QED  BY <1>1, <2>1, IdleSound DEF Searching
<1>4. CASE ComputeNext
  <2>1. answer' = answer /\ pc' \in {"idle", "essential", "enter"}
    BY <1>4 DEF ComputeNext, Idle, Begin
  <2> QED  BY <1>1, <2>1, IdleSound DEF Searching
<1> QED  BY <1>2, <1>3, <1>4

LEMMA EssentialLoopEndsSound ==
  ASSUME YesInv, EssentialLoopEnds
  PROVE  YesInv'
<1>1. UNCHANGED <<suite, cache_inst, answer>> /\ pc' \in {"essential", "enter"}
  BY DEF EssentialLoopEnds
<1> QED  BY <1>1, IdleSound DEF Searching

LEMMA AddSound ==
  ASSUME YesInv, NEW p \in Package, add_binary(p)
  PROVE  YesInv'
<1>1. /\ suite' = suite \cup {p} /\ pc' = "idle" /\ answer'.of = {}
      /\ cache_inst' = {} \/ (p \in Broken /\ cache_inst' = cache_inst)
  BY DEF add_binary, Idle, search, caches, NoAnswer
<1>2. EssentialChoices' = EssentialChoices
  BY DEF EssentialChoices
<1>3. CacheSound'
  <2>1. CASE cache_inst' = {}
    BY <1>1, <2>1 DEF CacheSound
  <2>2. CASE p \in Broken /\ cache_inst' = cache_inst /\ EssentialsInstallable'
    <3>1. EssentialsInstallable /\ Essential \cap suite' = Essential \cap suite
      BY <1>1, <2>2, AddedInstallable
    <3>2. /\ \A q \in cache_inst \cap suite : \E W \in Solutions(suite) :
               q \in W /\ W \subseteq cache_inst \cup EssentialChoices
          /\ cache_inst \cap Broken = {}
      BY <3>1 DEF YesInv, CacheSound
    <3>3. ASSUME NEW W \in Solutions(suite) PROVE W \in Solutions(suite)'
      <4>1. W \in Consistents /\ W \subseteq suite' /\ Essential \cap suite' \subseteq W
        BY <1>1, <3>1 DEF Solutions
      <4> QED  BY <4>1 DEF Solutions, Consistents, Consistent, Unsatisfied
    <3>4. cache_inst' \cap suite' \subseteq cache_inst \cap suite
      BY <1>1, <2>2, <3>2
    <3> QED  BY <1>1, <1>2, <2>2, <3>2, <3>3, <3>4 DEF CacheSound
  <2> QED  BY <1>1, <2>1, <2>2 DEF CacheSound
<1> QED  BY <1>1, <1>3 DEF YesInv, SearchSound, Searching

LEMMA RemoveSound ==
  ASSUME EssentialsStay, NoInv, YesInv, NEW p \in Removable, remove_binary(p)
  PROVE  YesInv'
<1>1. /\ suite' = suite \ {p} /\ pc' = "idle" /\ pc = "idle" /\ answer'.of = {}
      /\ p \in suite /\ p \notin Essential /\ p \notin EssentialChoices
      /\ cache_inst' = {} \/ cache_inst' = cache_inst
  BY DEF remove_binary, Idle, search, NoAnswer, EssentialsStay, InstWithout
<1>2. EssentialChoices' = EssentialChoices
  BY DEF EssentialChoices
<1>3. CacheSound'
  <2>1. CASE cache_inst' = {}
    BY <1>1, <2>1 DEF CacheSound
  <2>2. CASE cache_inst' = cache_inst /\ cache_inst' # {} /\ EssentialsInstallable'
    <3>1. EssentialsInstallable
      BY <1>1, <2>2, RemovedInstallable DEF EssentialsInstallable
    <3>2. /\ \A q \in cache_inst \cap suite : \E W \in Solutions(suite) :
               q \in W /\ W \subseteq cache_inst \cup EssentialChoices
          /\ cache_inst \cap Broken = {}
      BY <3>1 DEF YesInv, CacheSound
    <3>3. ASSUME NEW W \in Solutions(suite), p \notin W PROVE W \in Solutions(suite)'
      <4>1. W \in Consistents /\ W \subseteq suite' /\ Essential \cap suite' \subseteq W
        BY <1>1, <3>3 DEF Solutions
      <4> QED  BY <4>1 DEF Solutions, Consistents, Consistent, Unsatisfied
    <3>4. \/ p \in cache_broken \/ p \in Broken \/ p \notin cache_inst
          \/ reverse_dependencies(p) = {}
      <4>1. CASE p \in suite_contents
        <5>1. cache_inst' = InstWithout(p)
          BY <4>1 DEF remove_binary
        <5> QED  BY <2>2, <5>1 DEF InstWithout
      <4>2. CASE p \notin suite_contents
        BY <1>1, <4>2 DEF NoInv, ContentsInSync
      <4> QED  BY <4>1, <4>2
    <3>5. ASSUME NEW q \in cache_inst \cap suite, q # p
          PROVE  \E W \in Solutions(suite)' : q \in W /\ W \subseteq cache_inst \cup EssentialChoices
      <4>1. PICK W \in Solutions(suite) : q \in W /\ W \subseteq cache_inst \cup EssentialChoices
        BY <3>2, <3>5
      <4>2. /\ W \in SUBSET Package /\ W \subseteq suite /\ Essential \cap suite \subseteq W
            /\ W \cap Broken = {}
            /\ \A r \in W : Conflicts[r] \cap W = {} /\ \A clause \in Dependencies[r] : clause \cap W # {}
        BY SolutionFacts
      <4>3. CASE p \notin W
        BY <3>3, <4>1, <4>3
      <4>4. CASE p \in W
        <5>1. p \notin cache_broken
          <6>1. PICK V \in Possible : W \subseteq V
            BY SolutionPossible
          <6> QED  BY <4>4, <6>1 DEF NoInv, CachesOK, BrokenOK
        <5>2. reverse_dependencies(p) = {}
          BY <1>1, <3>4, <4>1, <4>2, <4>4, <5>1
        <5>3. \A r \in W : \A clause \in Dependencies[r] : p \notin clause
          BY <4>2, <5>2 DEF reverse_dependencies
        <5>4. PICK V : V = W \ {p}
          OBVIOUS
        <5>5. /\ V \in SUBSET Package /\ V \subseteq suite /\ Essential \cap suite \subseteq V
              /\ p \notin V /\ q \in V /\ V \subseteq cache_inst \cup EssentialChoices
          BY <1>1, <3>5, <4>1, <4>2, <5>4
        <5>6. \A r \in V : Conflicts[r] \cap V = {} /\ \A clause \in Dependencies[r] : clause \cap V # {}
          BY <4>2, <5>3, <5>4
        <5>7. V \in Solutions(suite)
          BY <5>5, <5>6, SolutionIf
        <5> QED  BY <3>3, <5>5, <5>7
      <4> QED  BY <4>3, <4>4
    <3> QED  BY <1>1, <1>2, <2>2, <3>2, <3>5 DEF CacheSound
  <2> QED  BY <1>1, <2>1, <2>2 DEF CacheSound
<1> QED  BY <1>1, <1>3 DEF YesInv, SearchSound, Searching

LEMMA StutterSound ==
  ASSUME NoInv, YesInv, UNCHANGED vars
  PROVE  YesInv'
<1>1. UNCHANGED <<suite, suite_contents, cache_broken, cache_inst, cache_ess, call, pc, frames,
                  loop, answer>>
  BY DEF vars, caches, search
<1>2. CASE ~Searching
  BY <1>1, <1>2, IdleSound DEF Searching
<1>3. CASE Searching
  <2>1. ASSUME EssentialsInstallable PROVE SearchSound'
    <3>1. /\ SettledOnes' = SettledOnes
          /\ \A clause, musts : Hopeless(clause, musts)' <=> Hopeless(clause, musts)
          /\ \A p, musts : Doomed(p, musts)' <=> Doomed(p, musts)
          /\ \A f : FrameSound(f)' <=> FrameSound(f)
          /\ \A f : Ready(f)' <=> Ready(f)
      BY <1>1, ReadyKept
    <3>2. Top' = Top /\ Below' = Below
      BY <1>1 DEF Top, Below
    <3>3. SearchSound
      BY DEF YesInv
    <3>4. BelowSound'
      <4>1. ASSUME NEW i \in Below PROVE Ready(frames[i])'
        <5>1. Ready(frames[i])
          BY <1>3, <2>1, <3>3, <4>1 DEF SearchSound, BelowSound
        <5> QED  BY <1>1, <3>1, <5>1
      <4> QED  BY <1>1, <1>3, <2>1, <3>2, <3>3, <4>1 DEF SearchSound, BelowSound, Within, Guesses
    <3>5. /\ Ready(Top) <=> Ready(Top)'
          /\ FrameSound(Top) <=> FrameSound(Top)'
      BY <3>1, <3>2
    <3>6. LoopLost' <=> LoopLost
      BY <1>1, <3>1 DEF LoopLost
    <3>7. \A choices : LoopServed(choices)' <=> LoopServed(choices)
      BY <1>1, <3>1 DEF LoopServed, Met
    <3>8. \A musts : LoopGood(musts)' <=> LoopGood(musts)
      BY <1>1, <3>6 DEF LoopGood, Peaceful
    <3>9. LoopPending' <=> LoopPending
      BY <1>1 DEF LoopPending
    <3>10. MainSound => MainSound'
      BY <1>1, <3>1, <3>2, <3>7, <3>8, <3>9 DEF MainSound
    <3>11. TrySound => TrySound'
      <4>1. PICK f : f = Top
        OBVIOUS
      <4>2. \A musts, choices : LoopSound(musts, choices)' <=> LoopSound(musts, choices)
        BY <3>7, <3>8, <3>9 DEF LoopSound
      <4>3. Hopeless(Guess(f), f.musts)' <=> Hopeless(Guess(f), f.musts)
        BY <3>1 DEF Guess
      <4> QED  BY <1>1, <3>2, <3>6, <4>1, <4>2, <4>3 DEF TrySound, Within
    <3>12. PruneSound => PruneSound'
      BY <1>1, <3>2, <3>5 DEF PruneSound, Guess
    <3> QED
      BY <1>1, <1>3, <2>1, <3>2, <3>3, <3>4, <3>5, <3>10, <3>11, <3>12
      DEF SearchSound, Guess, Guesses
  <2> QED  BY <1>1, <1>3, <2>1, GoOnSound DEF Searching
<1> QED  BY <1>2, <1>3

LEMMA NextYes ==
  ASSUME EssentialsStay, NoInv, PlaceInv, ShortcutsAreSafe, YesInv, [Next]_vars
  PROVE  YesInv'
<1>1. ASSUME NEW p \in Package, add_binary(p) \/ is_installable(p) PROVE YesInv'
  BY <1>1, AddSound, QuerySound
<1>2. ASSUME NEW p \in Removable, remove_binary(p) PROVE YesInv'
  BY <1>2, RemoveSound
<1> QED
  BY <1>1, <1>2, QuerySound, EnterSound, LoopStepSound, EssentialLoopEndsSound, MainLoopSound,
     PruneStepSound, PrunedSound, ResolveSound, TryOptionSound, TryLoopSound, StutterSound
  DEF Next, Step

LEMMA InitYes ==
  ASSUME Init
  PROVE  YesInv
<1>1. ~Searching /\ cache_inst = {} /\ answer.of = {}
  BY DEF Init, Searching, NoAnswer
<1> QED  BY <1>1 DEF YesInv, CacheSound, SearchSound

LEMMA YesInvImplies ==
  ASSUME YesInv
  PROVE  YesIsRight
BY DEF YesInv, CacheSound, YesIsRight, Installable

LEMMA PlacesAreKept ==
  ASSUME EssentialsStay
  PROVE  Spec => [](NoInv /\ PlaceInv)
<1>1. Init => NoInv /\ PlaceInv
  BY InitNo, InitPlace
<1>2. NoInv /\ PlaceInv /\ [Next]_vars => (NoInv /\ PlaceInv)'
  <2>1. Essential \cap Removable = {}
    BY DEF EssentialsStay
  <2> QED  BY <2>1, NextNo, NextPlace
<1> QED  BY <1>1, <1>2, PTL DEF Spec

\* As long as no package that the essential ones are or may need to choose is
\* removed, no package is taken to be broken that is not in the contents, so that
\* set.remove never ends a search in a KeyError (_check_inst, _check_loop), in a
\* suite whose essential packages are installable together.
THEOREM NoKeyErrors ==
  ASSUME EssentialsStay
  PROVE  Spec => [](EssentialsInstallable => pc # "KeyError")
<1>1. NoInv /\ PlaceInv => (EssentialsInstallable => pc # "KeyError")
  BY DEF PlaceInv, PlacesOK
<1> QED  BY <1>1, PlacesAreKept, PTL

\* As long as no package that the essential ones are or may need to choose is
\* removed, and no search takes an option for one without consequences that
\* excludes what it has taken, every yes is right: what is_installable says of a
\* package, and each of those that _check_inst and compute_installability keep as
\* installable, is in a solution of the suite with its essential packages.
THEOREM YesIsRightButForShortcuts ==
  ASSUME EssentialsStay
  PROVE  Spec /\ []ShortcutsAreSafe => []YesIsRight
<1>1. Init => YesInv
  BY InitYes
<1>2. NoInv /\ PlaceInv /\ ShortcutsAreSafe /\ YesInv /\ [Next]_vars => YesInv'
  BY NextYes
<1>3. YesInv => YesIsRight
  BY YesInvImplies
<1> QED  BY <1>1, <1>2, <1>3, PlacesAreKept, PTL DEF Spec

=============================================================================
