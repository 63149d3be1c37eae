---------------------------- MODULE ExcusesProofs ----------------------------
(***************************************************************************)
(* Proofs about the module Excuses: whatever excuses are collected, and    *)
(* whatever the order of their names, the walk over the reverse            *)
(* dependencies keeps as many excuses as can stay and no other.  Then      *)
(* about ExcuseFinder: its collection is one Excuses allows, so all of     *)
(* this holds of it, and its valid excuses have the packages they need.    *)
(***************************************************************************)
EXTENDS ExcuseFinder, Induction

Mark == {PASS, REJECTED_WAITING_FOR_ANOTHER_ITEM, REJECTED_BLOCKED_BY_ANOTHER_ITEM}

\* The worklist, the excuses told and the valid ones share out the names.
WorklistOK ==
  /\ \A m, n \in DOMAIN invalid : m # n => invalid[m] \cap invalid[n] = {}
  /\ Listed \cap invalidated = {}
  /\ valid = Names \ (Listed \cup invalidated)

\* What a valid excuse has been told: its dependencies on what is invalidated are
\* marked, no others, and each dependency has an alternative left.
MarksOK ==
  /\ lost \in [Names -> [Names -> Mark]]
  /\ \A x \in valid : ~excuses[x].forced =>
       /\ \A f \in Names : lost[x][f] # PASS <=> f \in invalidated /\ x \in rdeps(f)
       /\ \A d \in all_deps(x) : HasValidState(lost[x], d)

\* Verdicts follow, but for a forced excuse with an impossible dependency.
VerdictsOK ==
  /\ \A x \in valid : is_valid(x) /\ ~IsImpossible(x)
  /\ \A x \in Names \ valid : ~is_valid(x) \/ (excuses[x].forced /\ IsImpossible(x))

MaximalOK == \A S \in SUBSET actionable : Supported(S) => S \subseteq valid

VarTypes ==
  /\ phase \in {"collect", "invalidate", "done", "asserts"}
  /\ Names \subseteq Name
  /\ excuses \in [Names -> Excuse]
  /\ actionable \subseteq Names
  /\ valid \subseteq Names
  /\ invalid \in Seq(SUBSET Names)
  /\ invalidated \subseteq Names

Collecting ==
  phase = "collect" =>
    /\ valid = {} /\ invalid = <<>> /\ invalidated = {}
    /\ actionable = {e \in Names : is_valid(e)}

Inv ==
  /\ VarTypes
  /\ Collecting
  /\ phase # "collect" => WorklistOK /\ MarksOK /\ VerdictsOK
  /\ phase = "invalidate" => MaximalOK
  /\ AssertsOnlyIfForced

-----------------------------------------------------------------------------
(***************************************************************************)
(* A step that changes verdicts only leaves the dependencies as they are.  *)
(***************************************************************************)

OnlyVerdicts ==
  /\ DOMAIN excuses' = DOMAIN excuses
  /\ \A e \in DOMAIN excuses : /\ excuses'[e].packages = excuses[e].packages
                               /\ excuses'[e].depends = excuses[e].depends
                               /\ excuses'[e].forced = excuses[e].forced

\* The alternatives of a package stay.
LEMMA SameAlternatives ==
  ASSUME OnlyVerdicts
  PROVE  \A p : Alternatives(p)' = Alternatives(p)
<1>1. \A p : Bringing(p)' = Bringing(p)
  BY DEF OnlyVerdicts, Bringing, Names
<1> QED  BY <1>1 DEF Alternatives

\* So do the dependencies, the reverse dependencies and what is impossible.
LEMMA SameDependencies ==
  ASSUME OnlyVerdicts
  PROVE  /\ Names' = Names
         /\ \A e \in Names : /\ all_deps(e)' = all_deps(e)
                             /\ IsImpossible(e)' = IsImpossible(e)
         /\ \A e : rdeps(e)' = rdeps(e)
<1>1. Names' = Names
  BY DEF OnlyVerdicts, Names
<1>2. \A d : UNION {Alternatives(p)' : p \in d} = UNION {Alternatives(p) : p \in d}
  BY SameAlternatives
<1>3. ASSUME NEW e \in Names  PROVE all_deps(e)' = all_deps(e)
  <2>1. excuses'[e].depends = excuses[e].depends
    BY DEF OnlyVerdicts, Names
  <2> QED  BY <1>2, <2>1 DEF all_deps
<1>4. \A e \in Names : IsImpossible(e)' = IsImpossible(e)
  BY <1>3 DEF IsImpossible
<1>5. \A e : rdeps(e)' = rdeps(e)
  BY <1>1, <1>3 DEF rdeps
<1> QED  BY <1>1, <1>3, <1>4, <1>5

\* And which excuses support each other.
LEMMA SameSupported ==
  ASSUME OnlyVerdicts, NEW S \in SUBSET Names
  PROVE  Supported(S)' = Supported(S)
<1>1. \A e \in S : /\ excuses'[e].forced = excuses[e].forced
                   /\ all_deps(e)' = all_deps(e)
                   /\ IsImpossible(e)' = IsImpossible(e)
  BY SameDependencies DEF OnlyVerdicts, Names
<1> QED  BY <1>1 DEF Supported

\* An alternative is the impossible or an excuse.
LEMMA AlternativesAreNames ==
  ASSUME NEW x, NEW d \in all_deps(x), NEW a \in d
  PROVE  a = Impossible \/ a \in Names
BY DEF all_deps, Alternatives, Bringing

\* No dependency is without alternatives.
LEMMA DependencyNotEmpty ==
  ASSUME excuses \in [Names -> Excuse], NEW x \in Names, NEW d \in all_deps(x)
  PROVE  d # {}
<1>1. PICK c \in excuses[x].depends : d = UNION {Alternatives(p) : p \in c}
  BY DEF all_deps
<1>2. excuses[x] \in Excuse
  OBVIOUS
<1>3. c # {}
  BY <1>2 DEF Excuse
<1>4. PICK p \in c : TRUE
  BY <1>3
<1>5. Alternatives(p) # {}
  BY DEF Alternatives
<1> QED  BY <1>1, <1>4, <1>5

\* Judging changes the verdict only.
LEMMA JudgedExcuse ==
  ASSUME NEW exc \in Excuse, NEW v \in PolicyVerdict
  PROVE  /\ Judged(exc, v) \in Excuse
         /\ Judged(exc, v).packages = exc.packages
         /\ Judged(exc, v).depends = exc.depends
         /\ Judged(exc, v).forced = exc.forced
         /\ Judged(exc, v).verdict = IF is_rejected(v) /\ exc.forced THEN PASS_HINTED ELSE v
BY DEF Judged, Excuse, PolicyVerdict, PASS_HINTED, NOT_APPLICABLE, REJECTED_PERMANENTLY

-----------------------------------------------------------------------------
(***************************************************************************)
(* Verdicts of dependencies.                                               *)
(***************************************************************************)

\* A dependency without a valid alternative is rejected.
LEMMA DependencyVerdictRejected ==
  ASSUME NEW x, NEW d \in all_deps(x), d # {}, NEW marks \in [Names -> Mark],
         ~HasValidState(marks, d)
  PROVE  DependencyVerdict(marks, d) \in {REJECTED_WAITING_FOR_ANOTHER_ITEM,
           REJECTED_BLOCKED_BY_ANOTHER_ITEM, REJECTED_PERMANENTLY}
<1> DEFINE V == {StateVerdict(marks, a) : a \in d}
           Rej == {REJECTED_WAITING_FOR_ANOTHER_ITEM, REJECTED_BLOCKED_BY_ANOTHER_ITEM,
                   REJECTED_PERMANENTLY}
<1>1. \A a \in d : StateVerdict(marks, a) \in Rej
  BY AlternativesAreNames DEF HasValidState, StateVerdict, Mark
<1>2. V # {} /\ V \subseteq Rej
  BY <1>1
<1>3. \E v \in V : \A w \in V : v <= w
  BY <1>2 DEF REJECTED_WAITING_FOR_ANOTHER_ITEM, REJECTED_BLOCKED_BY_ANOTHER_ITEM,
              REJECTED_PERMANENTLY
<1>4. \E v \in V : \A a \in d : v <= StateVerdict(marks, a)
  BY <1>3
<1>5. DependencyVerdict(marks, d) \in V
  BY <1>4 DEF DependencyVerdict
<1> QED  BY <1>2, <1>5

\* An excuse that falls is rejected.
LEMMA FallenRejected ==
  ASSUME Inv, phase = "invalidate", NEW e \in Names, NEW x \in Falling(e)
  PROVE  Fallen(e, x) \in PolicyVerdict /\ is_rejected(Fallen(e, x))
<1> DEFINE Rej == {REJECTED_WAITING_FOR_ANOTHER_ITEM, REJECTED_BLOCKED_BY_ANOTHER_ITEM,
                   REJECTED_PERMANENTLY}
           D == {DependencyVerdict(Marks(e, x), d) : d \in Failing(e, x)}
           vs == D \cup {excuses[x].verdict}
<1>1. x \in Names /\ x \in valid /\ x \in rdeps(e)
  BY DEF Falling, Told, rdeps
<1>2. Marks(e, x) \in [Names -> Mark]
  BY <1>1 DEF Inv, MarksOK, Marks, RdepVerdict, Mark
<1>3. lost[x] \in [Names -> Mark]
  BY <1>1 DEF Inv, MarksOK
<1>4. \A d \in Failing(e, x) : d # {}
  <2> SUFFICES ASSUME NEW d \in Failing(e, x)  PROVE d # {}
    OBVIOUS
  <2>1. HasValidState(lost[x], d)
    BY <1>1 DEF Inv, MarksOK, Failing, Falling, Told
  <2> QED  BY <2>1 DEF HasValidState
<1>5. \A d \in Failing(e, x) : DependencyVerdict(Marks(e, x), d) \in Rej
  BY <1>2, <1>4, DependencyVerdictRejected DEF Failing
<1>6. D # {} /\ D \subseteq Rej
  BY <1>5 DEF Falling
<1>7. excuses[x].verdict \in PolicyVerdict
  BY <1>1 DEF Inv, VarTypes, Excuse
<1>8. ~is_rejected(excuses[x].verdict)
  BY <1>1 DEF Inv, VerdictsOK, is_valid
<1>9. excuses[x].verdict \in {NOT_APPLICABLE, PASS, PASS_HINTED}
  BY <1>7, <1>8 DEF is_rejected, PolicyVerdict, NOT_APPLICABLE, PASS, PASS_HINTED,
                    REJECTED_TEMPORARILY, REJECTED_PERMANENTLY
<1>10. \E v \in D : \A w \in D : w <= v
  BY <1>6 DEF REJECTED_WAITING_FOR_ANOTHER_ITEM, REJECTED_BLOCKED_BY_ANOTHER_ITEM,
              REJECTED_PERMANENTLY
<1>11. \E v \in vs : \A w \in vs : w <= v
  BY <1>6, <1>9, <1>10 DEF REJECTED_WAITING_FOR_ANOTHER_ITEM, REJECTED_BLOCKED_BY_ANOTHER_ITEM,
              REJECTED_PERMANENTLY, NOT_APPLICABLE, PASS, PASS_HINTED
<1>12. Fallen(e, x) \in vs /\ \A w \in vs : w <= Fallen(e, x)
  BY <1>11 DEF Fallen
<1>13. Fallen(e, x) \in Rej
  BY <1>6, <1>9, <1>12 DEF REJECTED_WAITING_FOR_ANOTHER_ITEM, REJECTED_BLOCKED_BY_ANOTHER_ITEM,
              REJECTED_PERMANENTLY, NOT_APPLICABLE, PASS, PASS_HINTED
<1> QED
  BY <1>13 DEF is_rejected, PolicyVerdict, REJECTED_WAITING_FOR_ANOTHER_ITEM,
               REJECTED_BLOCKED_BY_ANOTHER_ITEM, REJECTED_PERMANENTLY, NOT_APPLICABLE,
               REJECTED_TEMPORARILY

-----------------------------------------------------------------------------
(***************************************************************************)
(* The worklist.                                                           *)
(***************************************************************************)

\* Pushing a set gives a list of sets.
LEMMA PushType ==
  ASSUME NEW T, NEW b \in Seq(SUBSET T), NEW S \in SUBSET T
  PROVE  Push(b, S) \in Seq(SUBSET T)
BY DEF Push

\* What is listed after pushing a set.
LEMMA PushListed ==
  ASSUME NEW T, NEW b \in Seq(SUBSET T), NEW S \in SUBSET T
  PROVE  \A x : x \in Members(Push(b, S)) <=> x \in Members(b) \/ x \in S
<1>1. CASE S = {}
  BY <1>1 DEF Push
<1>2. CASE S # {}
  <2>1. /\ DOMAIN Append(b, S) = DOMAIN b \cup {Len(b) + 1}
        /\ \A n \in DOMAIN b : Append(b, S)[n] = b[n]
        /\ Append(b, S)[Len(b) + 1] = S
    OBVIOUS
  <2>2. Members(Append(b, S)) = Members(b) \cup S
    BY <2>1 DEF Members
  <2> QED  BY <1>2, <2>2 DEF Push
<1> QED  BY <1>1, <1>2

\* ... and if the set is new to the list, the list stays without repetitions.
LEMMA PushDisjoint ==
  ASSUME NEW T, NEW b \in Seq(SUBSET T), NEW S \in SUBSET T,
         \A m, n \in DOMAIN b : m # n => b[m] \cap b[n] = {},
         \A n \in DOMAIN b : b[n] \cap S = {}
  PROVE  \A m, n \in DOMAIN Push(b, S) : m # n => Push(b, S)[m] \cap Push(b, S)[n] = {}
<1>1. CASE S = {}
  BY <1>1 DEF Push
<1>2. CASE S # {}
  <2>1. /\ DOMAIN Append(b, S) = DOMAIN b \cup {Len(b) + 1}
        /\ \A n \in DOMAIN b : Append(b, S)[n] = b[n]
        /\ Append(b, S)[Len(b) + 1] = S
    OBVIOUS
  <2> QED  BY <1>2, <2>1 DEF Push
<1> QED  BY <1>1, <1>2

\* Popping the last set: the list is what was before it, and that set.
LEMMA PopListed ==
  ASSUME NEW T, NEW b \in Seq(SUBSET T), b # <<>>
  PROVE  LET n == Len(b)
             front == SubSeq(b, 1, n - 1)
         IN  /\ n \in Nat /\ n > 0 /\ n \in DOMAIN b
             /\ front \in Seq(SUBSET T)
             /\ DOMAIN front = 1 .. n - 1
             /\ \A m \in 1 .. n - 1 : front[m] = b[m]
             /\ Members(b) = Members(front) \cup b[n]
<1> DEFINE n == Len(b)
           front == SubSeq(b, 1, n - 1)
<1>1. n \in Nat /\ n > 0 /\ DOMAIN b = 1 .. n
  OBVIOUS
<1>2. front \in Seq(SUBSET T) /\ DOMAIN front = 1 .. n - 1 /\ \A m \in 1 .. n - 1 : front[m] = b[m]
  OBVIOUS
<1>3. 1 .. n = (1 .. n - 1) \cup {n}
  BY <1>1
<1>4. Members(b) = Members(front) \cup b[n]
  BY <1>1, <1>2, <1>3 DEF Members
<1> QED  BY <1>1, <1>2, <1>4

\* One round: e leaves the worklist and the fallen excuses join it.
LEMMA RoundListed ==
  ASSUME NEW T, NEW b \in Seq(SUBSET T), b # <<>>, NEW e \in b[Len(b)], NEW F \in SUBSET T,
         \A m, n \in DOMAIN b : m # n => b[m] \cap b[n] = {},
         \A n \in DOMAIN b : b[n] \cap F = {}
  PROVE  LET c == Push(Push(SubSeq(b, 1, Len(b) - 1), b[Len(b)] \ {e}), F)
         IN  /\ c \in Seq(SUBSET T)
             /\ Members(c) = (Members(b) \ {e}) \cup F
             /\ \A m, n \in DOMAIN c : m # n => c[m] \cap c[n] = {}
<1> DEFINE k == Len(b)
           front == SubSeq(b, 1, k - 1)
           R == b[k] \ {e}
           mid == Push(front, R)
           c == Push(mid, F)
<1>1. /\ k \in Nat /\ k > 0 /\ k \in DOMAIN b
      /\ front \in Seq(SUBSET T) /\ DOMAIN front = 1 .. k - 1
      /\ \A m \in 1 .. k - 1 : front[m] = b[m]
      /\ Members(b) = Members(front) \cup b[k]
  BY PopListed
<1>2. b[k] \in SUBSET T
  BY <1>1
<1>3. 1 .. k - 1 \subseteq DOMAIN b /\ \A m \in 1 .. k - 1 : m # k
  BY <1>1
<1>4. \A m, n \in DOMAIN front : m # n => front[m] \cap front[n] = {}
  BY <1>1, <1>3
<1>5. \A n \in DOMAIN front : front[n] \cap b[k] = {}
  BY <1>1, <1>3
<1>6. /\ mid \in Seq(SUBSET T)
      /\ Members(mid) = Members(front) \cup R
  <2>1. R \in SUBSET T /\ front \in Seq(SUBSET T)
    BY <1>1, <1>2
  <2> HIDE DEF front, k, R
  <2>2. mid \in Seq(SUBSET T)
    BY <2>1, PushType, Zenon
  <2>3. \A x : x \in Members(mid) <=> x \in Members(front) \/ x \in R
    BY <2>1, PushListed, Zenon
  <2> QED  BY <2>2, <2>3
<1>7. \A n \in DOMAIN front : front[n] \cap R = {}
  BY <1>5
<1>8. \A m, n \in DOMAIN mid : m # n => mid[m] \cap mid[n] = {}
  BY <1>1, <1>2, <1>4, <1>7, PushDisjoint
<1>9. e \notin Members(front)
  BY <1>5 DEF Members
<1>10. Members(mid) = Members(b) \ {e}
  BY <1>1, <1>6, <1>9
<1>11. \A n \in DOMAIN mid : mid[n] \cap F = {}
  <2>1. Members(b) \cap F = {}
    BY DEF Members
  <2> HIDE DEF mid
  <2>2. \A n \in DOMAIN mid : mid[n] \subseteq Members(mid)
    BY DEF Members
  <2> QED  BY <1>10, <2>1, <2>2
<1>12. c \in Seq(SUBSET T)
       /\ Members(c) = Members(mid) \cup F
  <2> HIDE DEF mid
  <2>1. mid \in Seq(SUBSET T) /\ F \in SUBSET T
    BY <1>6
  <2>2. c \in Seq(SUBSET T)
    BY <2>1, PushType, Zenon
  <2>3. \A x : x \in Members(c) <=> x \in Members(mid) \/ x \in F
    BY <2>1, PushListed, Zenon
  <2> QED  BY <2>2, <2>3
<1>13. \A m, n \in DOMAIN c : m # n => c[m] \cap c[n] = {}
  BY <1>6, <1>8, <1>11, PushDisjoint
<1> QED  BY <1>10, <1>12, <1>13

-----------------------------------------------------------------------------
(***************************************************************************)
(* The invariant.                                                          *)
(***************************************************************************)

LEMMA InitInv == Init => Inv
BY DEF Init, Inv, VarTypes, Collecting, AssertsOnlyIfForced, Names, NoExcuses, Excuse

LEMMA CollectInv == Inv /\ Collect => Inv'
<1> SUFFICES ASSUME Inv, Collect  PROVE Inv'
  OBVIOUS
<1>1. excuses' \in [Names' -> Excuse]
  BY DEF Collect, Names
<1>2. VarTypes'
  BY <1>1 DEF Collect, Inv, VarTypes, Collecting, Names
<1>3. Collecting'
  BY DEF Collect, Inv, Collecting, Names, is_valid
<1> QED  BY <1>2, <1>3 DEF Inv, Collect, AssertsOnlyIfForced

\* An impossible excuse is rejected for good, unless it is forced.
LEMMA AddDependenciesInv == Inv /\ AddDependencies => Inv'
<1> SUFFICES ASSUME Inv, AddDependencies  PROVE Inv'
  OBVIOUS
<1> DEFINE W == {e \in Names : e \notin actionable \/ IsImpossible(e)}
           v(e) == worst_of(excuses[e].verdict, REJECTED_PERMANENTLY)
<1>1. /\ excuses \in [Names -> Excuse] /\ actionable = {e \in Names : is_valid(e)}
      /\ invalidated = {}
  BY DEF Inv, VarTypes, Collecting, AddDependencies
<1>2. \A e \in Names : v(e) \in PolicyVerdict /\ is_rejected(v(e))
  BY <1>1 DEF worst_of, Excuse, PolicyVerdict, is_rejected, REJECTED_TEMPORARILY,
              REJECTED_PERMANENTLY, NOT_APPLICABLE
<1>3. \A e \in Names :
        /\ excuses'[e] \in Excuse
        /\ excuses'[e].packages = excuses[e].packages
        /\ excuses'[e].depends = excuses[e].depends
        /\ excuses'[e].forced = excuses[e].forced
        /\ IsImpossible(e) /\ ~excuses[e].forced => is_rejected(excuses'[e].verdict)
        /\ ~IsImpossible(e) => excuses'[e] = excuses[e]
  <2> SUFFICES ASSUME NEW e \in Names
               PROVE  /\ excuses'[e] \in Excuse
                      /\ excuses'[e].packages = excuses[e].packages
                      /\ excuses'[e].depends = excuses[e].depends
                      /\ excuses'[e].forced = excuses[e].forced
                      /\ IsImpossible(e) /\ ~excuses[e].forced => is_rejected(excuses'[e].verdict)
                      /\ ~IsImpossible(e) => excuses'[e] = excuses[e]
    OBVIOUS
  <2>1. excuses[e] \in Excuse
    BY <1>1
  <2>2. excuses'[e] = IF IsImpossible(e) THEN Judged(excuses[e], v(e)) ELSE excuses[e]
    BY DEF AddDependencies
  <2> HIDE DEF v
  <2> QED  BY <1>2, <2>1, <2>2, JudgedExcuse
<1>4. Names' = Names /\ OnlyVerdicts
  BY <1>3 DEF AddDependencies, Names, OnlyVerdicts
<1>5. /\ \A e \in Names : all_deps(e)' = all_deps(e) /\ IsImpossible(e)' = IsImpossible(e)
      /\ \A e : rdeps(e)' = rdeps(e)
  BY <1>4, SameDependencies
<1>6. valid' = Names \ W /\ W \subseteq Names /\ valid' \subseteq actionable
  BY <1>1 DEF AddDependencies
<1>7. invalid' \in Seq(SUBSET Names) /\ Listed' = W
      /\ \A m, n \in DOMAIN invalid' : m # n => invalid'[m] \cap invalid'[n] = {}
  <2>1. invalid' = Push(<<>>, W)
    BY DEF AddDependencies
  <2> HIDE DEF W
  <2>2. <<>> \in Seq(SUBSET Names) /\ W \in SUBSET Names
    BY <1>6
  <2>3. Members(<<>>) = {}
    BY DEF Members
  <2>4. Push(<<>>, W) \in Seq(SUBSET Names) /\ Members(Push(<<>>, W)) = Members(<<>>) \cup W
    <3>1. Push(<<>>, W) \in Seq(SUBSET Names)
      BY <2>2, PushType, Zenon
    <3>2. \A x : x \in Members(Push(<<>>, W)) <=> x \in Members(<<>>) \/ x \in W
      BY <2>2, PushListed, Zenon
    <3> QED  BY <3>1, <3>2
  <2>5. \A m, n \in DOMAIN Push(<<>>, W) : m # n => Push(<<>>, W)[m] \cap Push(<<>>, W)[n] = {}
    <3>1. \A m, n \in DOMAIN <<>> : m # n => <<>>[m] \cap <<>>[n] = {}
      OBVIOUS
    <3>2. \A n \in DOMAIN <<>> : <<>>[n] \cap W = {}
      OBVIOUS
    <3> QED  BY <2>2, <3>1, <3>2, PushDisjoint, Zenon
  <2> QED  BY <2>1, <2>3, <2>4, <2>5 DEF Listed
<1>8. VarTypes'
  BY <1>1, <1>3, <1>4, <1>6, <1>7 DEF AddDependencies, VarTypes, Names, Inv
<1>9. WorklistOK'
  BY <1>1, <1>4, <1>6, <1>7 DEF AddDependencies, WorklistOK
<1>10. MarksOK'
  <2>1. lost' = [e \in Names |-> [f \in Names |-> PASS]]
    BY DEF AddDependencies
  <2>2. invalidated' = {}
    BY <1>1 DEF AddDependencies
  <2>3. lost' \in [Names' -> [Names' -> Mark]]
    BY <1>4, <2>1 DEF Mark
  <2>4. ASSUME NEW x \in valid', NEW d \in all_deps(x)  PROVE HasValidState(lost'[x], d)
    <3>1. x \in Names /\ d # {Impossible}
      BY <1>6 DEF IsImpossible, AddDependencies
    <3>2. d # {}
      BY <1>1, <3>1, DependencyNotEmpty
    <3>3. PICK a \in d : a # Impossible
      BY <3>1, <3>2
    <3> QED  BY <2>1, <3>1, <3>3, AlternativesAreNames DEF HasValidState, StateVerdict
  <2>5. \A x \in valid' : /\ x \in Names
                          /\ \A f \in Names : lost'[x][f] = PASS
                          /\ \A d \in all_deps(x)' : HasValidState(lost'[x], d)
    BY <1>5, <1>6, <2>1, <2>4
  <2> QED  BY <1>4, <2>2, <2>3, <2>5 DEF MarksOK, HasValidState, StateVerdict
<1>11. VerdictsOK'
  <2>1. \A x \in valid' : x \in Names /\ ~IsImpossible(x) /\ is_valid(x)
    BY <1>1, <1>6
  <2>2. \A x \in Names \ valid' : IsImpossible(x) \/ ~is_valid(x)
    BY <1>1, <1>6
  <2>3. \A x \in valid' : is_valid(x)' /\ ~IsImpossible(x)'
    BY <1>3, <1>5, <2>1 DEF is_valid
  <2>4. \A x \in Names \ valid' : ~is_valid(x)' \/ (excuses'[x].forced /\ IsImpossible(x)')
    BY <1>3, <1>5, <2>2 DEF is_valid
  <2> QED  BY <1>4, <2>3, <2>4 DEF VerdictsOK
<1>12. MaximalOK'
  <2> SUFFICES ASSUME NEW S \in SUBSET actionable, Supported(S)  PROVE S \subseteq valid'
    <3>1. actionable' = actionable /\ actionable \subseteq Names
      BY <1>1 DEF AddDependencies
    <3> QED  BY <1>4, <3>1, SameSupported DEF MaximalOK
  <2> QED  BY DEF Supported, AddDependencies
<1>13. Collecting' /\ AssertsOnlyIfForced' /\ phase' = "invalidate"
  BY DEF AddDependencies, Collecting, AssertsOnlyIfForced
<1> QED  BY <1>8, <1>9, <1>10, <1>11, <1>12, <1>13 DEF Inv

\* What may stay together is not lost when e is told of: an excuse of a supported
\* set has for each dependency an alternative in the set, which is valid.
LEMMA FallingNotSupported ==
  ASSUME Inv, phase = "invalidate", NEW e \in Names, e \notin valid,
         NEW S \in SUBSET actionable, Supported(S), NEW x \in S
  PROVE  x \notin Falling(e)
<1> SUFFICES ASSUME x \in Falling(e)  PROVE FALSE
  OBVIOUS
<1>1. x \in valid /\ ~excuses[x].forced /\ x \in Names
  BY DEF Falling, Told, Inv, VarTypes
<1>2. PICK d \in all_deps(x) : ~HasValidState(Marks(e, x), d)
  BY DEF Falling, Failing
<1>3. PICK a \in d : a \in S
  BY <1>1, <1>2 DEF Supported
<1>4. a \in valid /\ a \in Names /\ a # e
  BY <1>3 DEF Inv, MaximalOK, VarTypes
<1>5. a # Impossible
  BY <1>4, NameAssumption DEF Inv, VarTypes
<1>6. a \notin invalidated
  BY <1>4 DEF Inv, WorklistOK
<1>7. lost[x][a] = PASS
  BY <1>1, <1>4, <1>6 DEF Inv, MarksOK
<1>8. lost[x] \in [Names -> Mark]
  BY <1>1 DEF Inv, MarksOK
<1>9. Marks(e, x)[a] = PASS
  BY <1>4, <1>7, <1>8 DEF Marks
<1> QED  BY <1>2, <1>3, <1>5, <1>9 DEF HasValidState, StateVerdict

LEMMA InvalidateInv == Inv /\ Invalidate => Inv'
<1> SUFFICES ASSUME Inv, Invalidate  PROVE Inv'
  OBVIOUS
<1> DEFINE n == Len(invalid)
<1>0. /\ phase = "invalidate" /\ phase' = "invalidate" /\ invalid # <<>>
      /\ actionable' = actionable
      /\ WorklistOK /\ MarksOK /\ VerdictsOK /\ MaximalOK
  BY DEF Invalidate, Inv
<1>1. PICK e \in invalid[n] :
        /\ lost' = [x \in Names |-> IF x \in Told(e) THEN Marks(e, x) ELSE lost[x]]
        /\ excuses' = [x \in Names |-> IF x \in Falling(e) THEN Judged(excuses[x], Fallen(e, x))
                                       ELSE excuses[x]]
        /\ valid' = valid \ Falling(e)
        /\ invalid' = Push(Push(SubSeq(invalid, 1, n - 1), invalid[n] \ {e}), Falling(e))
        /\ invalidated' = invalidated \cup {e}
  BY DEF Invalidate
<1>2. /\ invalid \in Seq(SUBSET Names) /\ excuses \in [Names -> Excuse]
      /\ valid \subseteq Names /\ invalidated \subseteq Names
      /\ Names \subseteq Name /\ actionable \subseteq Names
  BY DEF Inv, VarTypes
<1>3. n \in DOMAIN invalid
  BY <1>0, <1>2, PopListed
<1>4. e \in Names /\ e \in Listed /\ e \notin invalidated /\ e \notin valid
  BY <1>0, <1>2, <1>3 DEF Listed, Members, WorklistOK
<1>5. Falling(e) \subseteq valid /\ \A x \in Falling(e) : ~excuses[x].forced
  BY DEF Falling, Told
<1>6. \A x \in Falling(e) : Fallen(e, x) \in PolicyVerdict /\ is_rejected(Fallen(e, x))
  BY <1>0, <1>4, FallenRejected
<1>7. \A x \in Names :
        /\ excuses'[x] \in Excuse
        /\ excuses'[x].packages = excuses[x].packages
        /\ excuses'[x].depends = excuses[x].depends
        /\ excuses'[x].forced = excuses[x].forced
        /\ x \in Falling(e) => is_rejected(excuses'[x].verdict)
        /\ x \notin Falling(e) => excuses'[x] = excuses[x]
  <2> SUFFICES ASSUME NEW x \in Names
               PROVE  /\ excuses'[x] \in Excuse
                      /\ excuses'[x].packages = excuses[x].packages
                      /\ excuses'[x].depends = excuses[x].depends
                      /\ excuses'[x].forced = excuses[x].forced
                      /\ x \in Falling(e) => is_rejected(excuses'[x].verdict)
                      /\ x \notin Falling(e) => excuses'[x] = excuses[x]
    OBVIOUS
  <2>1. excuses[x] \in Excuse
    BY <1>2
  <2>2. excuses'[x] = IF x \in Falling(e) THEN Judged(excuses[x], Fallen(e, x)) ELSE excuses[x]
    BY <1>1
  <2>3. CASE x \in Falling(e)
    BY <1>5, <1>6, <2>1, <2>2, <2>3, JudgedExcuse
  <2>4. CASE x \notin Falling(e)
    BY <2>1, <2>2, <2>4
  <2> QED  BY <2>3, <2>4
<1>8. Names' = Names /\ OnlyVerdicts
  BY <1>1, <1>7 DEF Names, OnlyVerdicts
<1>9. /\ \A x \in Names : all_deps(x)' = all_deps(x) /\ IsImpossible(x)' = IsImpossible(x)
      /\ \A x : rdeps(x)' = rdeps(x)
  BY <1>8, SameDependencies
<1>10. /\ invalid' \in Seq(SUBSET Names)
       /\ Listed' = (Listed \ {e}) \cup Falling(e)
       /\ \A m, k \in DOMAIN invalid' : m # k => invalid'[m] \cap invalid'[k] = {}
  <2>1. \A k \in DOMAIN invalid : invalid[k] \cap Falling(e) = {}
    BY <1>0, <1>5 DEF WorklistOK, Listed, Members
  <2>2. \A m, k \in DOMAIN invalid : m # k => invalid[m] \cap invalid[k] = {}
    BY <1>0 DEF WorklistOK
  <2>3. Falling(e) \in SUBSET Names
    BY <1>2, <1>5
  <2> DEFINE F == Falling(e)
             c == Push(Push(SubSeq(invalid, 1, n - 1), invalid[n] \ {e}), F)
  <2>4. /\ c \in Seq(SUBSET Names)
        /\ Members(c) = (Members(invalid) \ {e}) \cup F
        /\ \A m, k \in DOMAIN c : m # k => c[m] \cap c[k] = {}
    <3> HIDE DEF F
    <3>1. /\ F \in SUBSET Names
          /\ \A k \in DOMAIN invalid : invalid[k] \cap F = {}
      BY <2>1, <2>3 DEF F
    <3> QED  BY <1>0, <1>2, <2>2, <3>1, RoundListed
  <2>5. invalid' = c
    BY <1>1
  <2> HIDE DEF c
  <2> QED  BY <2>4, <2>5 DEF Listed
<1>11. VarTypes'
  BY <1>0, <1>1, <1>2, <1>4, <1>7, <1>8, <1>10 DEF VarTypes
<1>12. WorklistOK'
  <2>1. Listed' \cap invalidated' = {}
    BY <1>0, <1>1, <1>4, <1>5, <1>10 DEF WorklistOK
  <2>2. valid' = Names' \ (Listed' \cup invalidated')
    BY <1>0, <1>1, <1>4, <1>5, <1>8, <1>10 DEF WorklistOK
  <2> QED  BY <1>10, <2>1, <2>2 DEF WorklistOK
<1>13. MarksOK'
  <2>1. lost \in [Names -> [Names -> Mark]]
    BY <1>0 DEF MarksOK
  <2>2. RdepVerdict(e) \in Mark /\ RdepVerdict(e) # PASS
    BY DEF RdepVerdict, Mark, PASS, REJECTED_WAITING_FOR_ANOTHER_ITEM,
           REJECTED_BLOCKED_BY_ANOTHER_ITEM
  <2>3. \A x \in Names : lost'[x] \in [Names -> Mark]
    BY <1>1, <1>4, <2>1, <2>2 DEF Marks
  <2>4. lost' \in [Names' -> [Names' -> Mark]]
    BY <1>1, <1>8, <2>3
  <2>5. ASSUME NEW x \in valid', ~excuses'[x].forced
        PROVE  /\ \A f \in Names : lost'[x][f] # PASS <=> f \in invalidated' /\ x \in rdeps(f)
               /\ \A d \in all_deps(x) : HasValidState(lost'[x], d)
    <3>1. x \in valid /\ x \in Names /\ x \notin Falling(e) /\ ~excuses[x].forced
      BY <1>1, <1>2, <1>7, <2>5
    <3>2. /\ \A f \in Names : lost[x][f] # PASS <=> f \in invalidated /\ x \in rdeps(f)
          /\ \A d \in all_deps(x) : HasValidState(lost[x], d)
      BY <1>0, <3>1 DEF MarksOK
    <3>3. CASE x \in rdeps(e)
      <4>1. x \in Told(e)
        BY <3>1, <3>3 DEF Told
      <4>2. lost'[x] = [lost[x] EXCEPT ![e] = RdepVerdict(e)]
        BY <1>1, <3>1, <4>1 DEF Marks
      <4>3. \A f \in Names : lost'[x][f] # PASS <=> f \in invalidated' /\ x \in rdeps(f)
        BY <1>1, <1>4, <2>1, <2>2, <3>1, <3>2, <3>3, <4>2
      <4>4. \A d \in all_deps(x) : HasValidState(Marks(e, x), d)
        BY <3>1, <4>1 DEF Falling, Failing
      <4> QED  BY <4>2, <4>3, <4>4 DEF Marks
    <3>4. CASE x \notin rdeps(e)
      <4>1. x \notin Told(e)
        BY <3>4 DEF Told
      <4>2. lost'[x] = lost[x]
        BY <1>1, <3>1, <4>1
      <4> QED  BY <1>1, <3>2, <3>4, <4>2
    <3> QED  BY <3>3, <3>4
  <2>6. \A x \in valid' : x \in Names
    BY <1>1, <1>2
  <2> QED  BY <1>8, <1>9, <2>4, <2>5, <2>6 DEF MarksOK, HasValidState, StateVerdict
<1>14. VerdictsOK'
  <2>1. \A x \in valid' : is_valid(x)' /\ ~IsImpossible(x)'
    BY <1>0, <1>1, <1>2, <1>7, <1>9 DEF VerdictsOK, is_valid
  <2>2. \A x \in Names \ valid' : ~is_valid(x)' \/ (excuses'[x].forced /\ IsImpossible(x)')
    BY <1>0, <1>1, <1>7, <1>9 DEF VerdictsOK, is_valid
  <2> QED  BY <1>8, <2>1, <2>2 DEF VerdictsOK
<1>15. MaximalOK'
  <2> SUFFICES ASSUME NEW S \in SUBSET actionable, Supported(S)  PROVE S \subseteq valid'
    BY <1>0, <1>2, <1>8, SameSupported DEF MaximalOK
  <2>1. S \subseteq valid
    BY <1>0 DEF MaximalOK
  <2>2. \A x \in S : x \notin Falling(e)
    BY <1>0, <1>4, FallingNotSupported
  <2> QED  BY <1>1, <2>1, <2>2
<1>16. Collecting' /\ AssertsOnlyIfForced'
  BY <1>0 DEF Collecting, AssertsOnlyIfForced
<1> QED  BY <1>0, <1>11, <1>12, <1>13, <1>14, <1>15, <1>16 DEF Inv

\* The comparisons fail only if a forced excuse is impossible.
LEMMA FinishInv == Inv /\ Finish => Inv'
<1> SUFFICES ASSUME Inv, Finish  PROVE Inv'
  OBVIOUS
<1>1. /\ UNCHANGED <<excuses, valid, invalid, invalidated, lost>>
      /\ phase = "invalidate" /\ invalid = <<>> /\ phase' \in {"done", "asserts"}
  BY DEF Finish
<1>2. WorklistOK /\ MarksOK /\ VerdictsOK
  BY <1>1 DEF Inv
<1>3. OnlyVerdicts
  BY <1>1 DEF OnlyVerdicts
<1>4. /\ Names' = Names
      /\ \A x \in Names : all_deps(x)' = all_deps(x) /\ IsImpossible(x)' = IsImpossible(x)
      /\ \A x : rdeps(x)' = rdeps(x)
  BY <1>3, SameDependencies
<1>5. VarTypes'
  BY <1>1, <1>4 DEF Inv, VarTypes, Finish
<1>6. WorklistOK'
  BY <1>1, <1>2, <1>4 DEF WorklistOK, Listed, Members
<1>7. MarksOK'
  <2>1. \A x \in valid : x \in Names
    BY DEF Inv, VarTypes
  <2> QED  BY <1>1, <1>2, <1>4, <2>1 DEF MarksOK, HasValidState, StateVerdict
<1>8. VerdictsOK'
  <2>1. \A x \in valid : x \in Names
    BY DEF Inv, VarTypes
  <2> QED  BY <1>1, <1>2, <1>4, <2>1 DEF VerdictsOK, is_valid
<1>9. AssertsOnlyIfForced'
  <2> SUFFICES ASSUME \A x \in Names : ~(excuses[x].forced /\ IsImpossible(x))
               PROVE  phase' = "done"
    BY <1>1, <1>4 DEF AssertsOnlyIfForced
  <2>1. Listed = {}
    BY <1>1 DEF Listed, Members
  <2>2. valid = {x \in Names : is_valid(x)}
    BY <1>2 DEF VerdictsOK, WorklistOK
  <2>3. invalidated = {x \in Names : ~is_valid(x)}
    BY <1>2, <2>1, <2>2 DEF WorklistOK, Inv, VarTypes
  <2> QED  BY <2>2, <2>3 DEF Finish
<1> QED  BY <1>1, <1>5, <1>6, <1>7, <1>8, <1>9 DEF Inv, Collecting

LEMMA StutterInv == Inv /\ UNCHANGED vars => Inv'
<1> SUFFICES ASSUME Inv, UNCHANGED vars  PROVE Inv'
  OBVIOUS
<1>1. OnlyVerdicts /\ Names' = Names
  BY DEF vars, OnlyVerdicts, Names
<1>2. /\ \A x \in Names : all_deps(x)' = all_deps(x) /\ IsImpossible(x)' = IsImpossible(x)
      /\ \A x : rdeps(x)' = rdeps(x)
  BY <1>1, SameDependencies
<1>3. VarTypes' /\ Collecting' /\ AssertsOnlyIfForced'
  BY <1>1, <1>2 DEF Inv, VarTypes, Collecting, AssertsOnlyIfForced, is_valid, vars
<1>4. valid \subseteq Names
  BY DEF Inv, VarTypes
<1>5. WorklistOK => WorklistOK'
  BY <1>1 DEF WorklistOK, Listed, Members, vars
<1>6. MarksOK => MarksOK'
  BY <1>1, <1>2, <1>4 DEF MarksOK, HasValidState, StateVerdict, vars
<1>7. VerdictsOK => VerdictsOK'
  BY <1>1, <1>2, <1>4 DEF VerdictsOK, is_valid, vars
<1>8. MaximalOK => MaximalOK'
  BY <1>1, SameSupported DEF MaximalOK, vars, Inv, VarTypes
<1> QED  BY <1>3, <1>5, <1>6, <1>7, <1>8 DEF Inv, vars

\* Excuses, verdicts, worklist and marks always fit together.
THEOREM AlwaysInv == Spec => []Inv
<1>1. Inv /\ [Next]_vars => Inv'
  BY CollectInv, AddDependenciesInv, InvalidateInv, FinishInv, StutterInv DEF Next
<1> QED  BY <1>1, InitInv, PTL DEF Spec

\* The variables have their types, whatever the excuses.
THEOREM TypeCorrect == Spec => []TypeOK
<1>1. Inv => TypeOK
  BY DEF Inv, VarTypes, TypeOK, MarksOK, Mark, PolicyVerdict, PASS, NOT_APPLICABLE,
         REJECTED_WAITING_FOR_ANOTHER_ITEM, REJECTED_BLOCKED_BY_ANOTHER_ITEM,
         REJECTED_PERMANENTLY
<1> QED  BY <1>1, AlwaysInv, PTL

\* No excuse is lost that could have stayed, whatever the dependencies between
\* excuses, cycles included, and whatever the order of the worklist.
THEOREM NothingLostInVain == Spec => []NoneLostInVain
<1>1. Inv => NoneLostInVain
  BY DEF Inv, MaximalOK, NoneLostInVain
<1> QED  BY <1>1, AlwaysInv, PTL

\* And none is kept that cannot: the excuses left support each other.
THEOREM SupportIsLeft == Spec => []LeftSupported
<1>1. Inv => LeftSupported
  <2> SUFFICES ASSUME Inv, invalid = <<>>, phase \in {"invalidate", "done"}, NEW x \in valid
               PROVE  /\ ~IsImpossible(x)
                      /\ excuses[x].forced \/ \A d \in all_deps(x) : d \cap valid # {}
    BY DEF LeftSupported, Supported
  <2>1. WorklistOK /\ MarksOK /\ VerdictsOK /\ x \in Names
    BY DEF Inv, VarTypes
  <2>2. ASSUME ~excuses[x].forced, NEW d \in all_deps(x)  PROVE d \cap valid # {}
    <3>1. PICK a \in d : StateVerdict(lost[x], a) = PASS
      BY <2>1, <2>2 DEF MarksOK, HasValidState
    <3>2. a \in Names /\ lost[x][a] = PASS
      BY <3>1, AlternativesAreNames DEF StateVerdict, PASS, REJECTED_PERMANENTLY
    <3>3. x \in rdeps(a)
      BY <2>1 DEF rdeps
    <3>4. a \notin invalidated
      BY <2>1, <2>2, <3>2, <3>3 DEF MarksOK
    <3>5. Listed = {}
      BY DEF Listed, Members
    <3> QED  BY <2>1, <3>2, <3>4, <3>5 DEF WorklistOK
  <2> QED  BY <2>1, <2>2 DEF VerdictsOK
<1> QED  BY <1>1, AlwaysInv, PTL

\* Every excuse is told of at most once.
THEOREM EachInvalidatedOnce == Spec => []InvalidatedOnce
<1>1. Inv => InvalidatedOnce
  BY DEF Inv, WorklistOK, InvalidatedOnce
<1> QED  BY <1>1, AlwaysInv, PTL

\* The comparisons at the end fail for no other reason than a forced excuse with
\* a dependency nothing can satisfy.
THEOREM AssertionsHold == Spec => []AssertsOnlyIfForced
<1>1. Inv => AssertsOnlyIfForced
  BY DEF Inv
<1> QED  BY <1>1, AlwaysInv, PTL

-----------------------------------------------------------------------------
(***************************************************************************)
(* The excuse finder collects excuses as Collect allows.  What a policy    *)
(* says is a verdict and dependencies on packages.                         *)
(***************************************************************************)

Dependencies == SUBSET ((SUBSET PackageId) \ {{}})
IsSaid(r) == r.verdict \in PolicyVerdict /\ r.depends \in Dependencies

\* The verdicts are these.
LEMMA Verdicts ==
  /\ {NOT_APPLICABLE, PASS, PASS_HINTED, REJECTED_TEMPORARILY, REJECTED_NEEDS_APPROVAL,
      REJECTED_CANNOT_DETERMINE_IF_PERMANENT, REJECTED_PERMANENTLY} \subseteq PolicyVerdict
  /\ \A v, w \in PolicyVerdict :
       /\ worst_of(v, w) \in PolicyVerdict
       /\ ~is_rejected(worst_of(v, w)) => ~is_rejected(v) /\ ~is_rejected(w)
  /\ is_rejected(REJECTED_PERMANENTLY) /\ is_rejected(REJECTED_CANNOT_DETERMINE_IF_PERMANENT)
BY DEF PolicyVerdict, NOT_APPLICABLE, PASS, PASS_HINTED, REJECTED_TEMPORARILY, REJECTED_NEEDS_APPROVAL,
       REJECTED_CANNOT_DETERMINE_IF_PERMANENT, REJECTED_PERMANENTLY, worst_of, is_rejected

\* The worst of some verdicts is one of them.
LEMMA WorstIs ==
  ASSUME NEW S \in SUBSET PolicyVerdict, S # {}
  PROVE  Worst(S) \in S /\ \A w \in S : w <= Worst(S)
<1>1. S \in SUBSET Nat /\ \A n \in S : n <= 8
  BY DEF PolicyVerdict, NOT_APPLICABLE, REJECTED_PERMANENTLY
<1>2. \E m \in S : \A n \in S : n <= m
  BY <1>1, Greatest
<1> QED  BY <1>2 DEF Worst

\* What policies say together is no better than what each of them says.
LEMMA TogetherIs ==
  ASSUME NEW S, S # {}, \A r \in S : IsSaid(r)
  PROVE  /\ IsSaid(Together(S))
         /\ \A r \in S : /\ r.depends \subseteq Together(S).depends
                         /\ ~is_rejected(Together(S).verdict) => ~is_rejected(r.verdict)
<1> DEFINE V == {r.verdict : r \in S}
<1>1. V \in SUBSET PolicyVerdict /\ V # {}
  BY DEF IsSaid
<1>2. Worst(V) \in V /\ \A w \in V : w <= Worst(V)
  BY <1>1, WorstIs
<1>3. Together(S).verdict = Worst(V) /\ Together(S).depends = UNION {r.depends : r \in S}
  BY DEF Together, Says
<1>4. UNION {r.depends : r \in S} \in Dependencies
  BY DEF IsSaid, Dependencies
<1>5. ASSUME NEW r \in S, ~is_rejected(Worst(V)) PROVE ~is_rejected(r.verdict)
  <2>1. r.verdict \in V
    OBVIOUS
  <2> HIDE DEF V
  <2>2. r.verdict \in PolicyVerdict /\ Worst(V) \in PolicyVerdict /\ r.verdict <= Worst(V)
    BY <1>1, <1>2, <2>1
  <2> QED  BY <1>5, <2>2 DEF is_rejected, PolicyVerdict, REJECTED_TEMPORARILY, NOT_APPLICABLE, REJECTED_PERMANENTLY
<1> HIDE DEF V
<1> QED  BY <1>1, <1>2, <1>3, <1>4, <1>5 DEF IsSaid

\* A source that is there has a version and binaries.
LEMMA SourcesAre ==
  /\ \A u \in Suite, s \in Source : SuiteSources[u][s] # NoSource =>
       /\ SuiteSources[u][s].version \in Nat /\ SuiteSources[u][s].binaries \subseteq BinId
       /\ SourceId(s, SuiteSources[u][s].version) \in PackageId \ BinId
  /\ \A s \in Source : TargetSources[s] # NoSource =>
       TargetSources[s].version \in Nat /\ TargetSources[s].binaries \subseteq BinId
  /\ \A u \in Suite : SuiteBinaries[u] \subseteq BinId
  /\ \A b \in BinId : /\ Bin[b].source \in Source /\ Bin[b].arch \in Arch
                      /\ Bin[b].depends \subseteq SUBSET BinId
                      /\ Bin[b].builtusing \subseteq Source \X Nat
  /\ BinId \subseteq PackageId /\ PrimarySuite \in Suite /\ TargetBinaries \subseteq BinId
<1> DEFINE R == [version : Nat, binaries : SUBSET BinId, fakesrc : BOOLEAN, main : BOOLEAN]
<1>1. \A u \in Suite, s \in Source : SuiteSources[u][s] \in R \/ SuiteSources[u][s] = NoSource
  BY ArchiveAssumption
<1>2. \A s \in Source : TargetSources[s] \in R \/ TargetSources[s] = NoSource
  BY ArchiveAssumption
<1>3. \A r \in R : r.version \in Nat /\ r.binaries \subseteq BinId
  OBVIOUS
<1> HIDE DEF R
<1> QED  BY <1>1, <1>2, <1>3, ArchiveAssumption

LEMMA DependsSaid ==
  ASSUME NEW i, NEW a, NEW packages
  PROVE  IsSaid(DependsPolicy(i, a, packages))
<1> DEFINE checked == CheckedBinaries(i, a, packages)
           here == TargetBinaries \cup OnArch(packages, a)
           ds == {d \in UNION {Bin[b].depends : b \in checked} : d # {} /\ d \cap here = {}}
<1>1. checked \subseteq BinId
  BY DEF CheckedBinaries, OnArch
<1>2. \A b \in checked : Bin[b].depends \subseteq SUBSET PackageId
  BY <1>1, SourcesAre
<1>3. ds \in Dependencies
  BY <1>2 DEF Dependencies
<1>4. DependsPolicy(i, a, packages).depends = ds
      /\ DependsPolicy(i, a, packages).verdict \in {PASS, REJECTED_PERMANENTLY}
  BY DEF DependsPolicy, Says
<1> QED  BY <1>3, <1>4, Verdicts DEF IsSaid

LEMMA NewerAre ==
  ASSUME NEW p \in BinId
  PROVE  FindNewerBinaries(p) \subseteq PackageId
<1>1. ASSUME NEW u \in Suite PROVE NewerIn(u, p) \subseteq PackageId
  <2> DEFINE n == Lookup(SuiteBinaries[u], Bin[p].name, Bin[p].arch)
             src == SuiteSources[u][Bin[p].source]
  <2>1. n = NoBin \/ n \in SuiteBinaries[u]
    <3>1. CASE \E b \in SuiteBinaries[u] : Bin[b].name = Bin[p].name /\ Bin[b].arch = Bin[p].arch
      BY <3>1 DEF Lookup
    <3> QED  BY <3>1 DEF Lookup
  <2>2. n = NoBin \/ n \in PackageId
    BY <2>1, SourcesAre
  <2>3. src # NoSource => SourceId(Bin[p].source, src.version) \in PackageId
    BY SourcesAre
  <2>4. NewerIn(u, p) \subseteq IF n # NoBin /\ ~IsCruft(n, SuiteSources[u]) THEN {n}
                               ELSE IF src = NoSource THEN {} ELSE {SourceId(Bin[p].source, src.version)}
    BY DEF NewerIn
  <2> QED  BY <2>2, <2>3, <2>4
<1> QED  BY <1>1 DEF FindNewerBinaries

LEMMA ImplicitDependencySaid ==
  ASSUME NEW i, NEW a, NEW m
  PROVE  IsSaid(ImplicitDependencyPolicy(i, a, m))
<1>1. IsSaid(Passes)
  BY Verdicts DEF IsSaid, Passes, Says, Dependencies
<1>2. ASSUME NEW t, NEW s PROVE IsSaid(CheckUpgrade(i, a, t, s))
  <2> DEFINE hit == {p \in BinId : /\ \E d \in Bin[p].depends : t \in d
                                   /\ ~SkipReverseDependency(i, a, p)
                                   /\ BreaksInstallability(t, s, p)}
             good(p) == {n \in FindNewerBinaries(p) : n \notin BinId \/ ~BreaksInstallability(t, s, n)}
  <2>1. \A p \in hit : good(p) \subseteq PackageId
    BY NewerAre
  <2>2. {good(p) : p \in hit} \ {{}} \in Dependencies
    BY <2>1 DEF Dependencies
  <2>3. CheckUpgrade(i, a, t, s).depends = {good(p) : p \in hit} \ {{}}
        /\ CheckUpgrade(i, a, t, s).verdict \in {PASS, REJECTED_PERMANENTLY}
    BY DEF CheckUpgrade, Says
  <2> QED  BY <2>2, <2>3, Verdicts DEF IsSaid
<1>3. \E T : ImplicitDependencyPolicy(i, a, m) \in
               {Passes, Together({Passes} \cup {CheckUpgrade(i, a, t, Successor(i, t)) : t \in T})}
  BY DEF ImplicitDependencyPolicy
<1>4. ASSUME NEW T PROVE IsSaid(Together({Passes} \cup {CheckUpgrade(i, a, t, Successor(i, t)) : t \in T}))
  BY <1>1, <1>2, TogetherIs
<1> QED  BY <1>1, <1>3, <1>4

\* The dependency on what a binary was built using: the source, in the version
\* that the suite of the item or the primary suite has.
UsingOf(i, a) == UNION {Bin[b].builtusing : b \in OnArch(SourceU(i).binaries, a)}
IsThere(sources, bu) == sources[bu[1]] # NoSource /\ sources[bu[1]].version >= bu[2]
UsingSuite(i, bu) == IF IsThere(SuiteSources[i.suite], bu) THEN i.suite ELSE PrimarySuite
UsedSource(i, bu) == SourceId(bu[1], SuiteSources[UsingSuite(i, bu)][bu[1]].version)

LEMMA BuiltUsingSaid ==
  ASSUME NEW i, i.suite \in Suite, NEW a
  PROVE  /\ IsSaid(BuiltUsingPolicy(i, a))
         /\ a \notin BreakArches => \A bu \in UsingOf(i, a) :
              \/ IsThere(TargetSources, bu)
              \/ is_rejected(BuiltUsingPolicy(i, a).verdict)
              \/ /\ IsThere(SuiteSources[UsingSuite(i, bu)], bu) /\ UsingSuite(i, bu) \in Suite
                 /\ {UsedSource(i, bu)} \in BuiltUsingPolicy(i, a).depends
<1> DEFINE missing == {bu \in UsingOf(i, a) : ~IsThere(TargetSources, bu)}
           found == {bu \in missing : IsThere(SuiteSources[UsingSuite(i, bu)], bu)}
<1>1. UsingOf(i, a) \subseteq Source \X Nat
  BY SourcesAre DEF UsingOf, OnArch
<1>2. \A bu \in UsingOf(i, a) : bu[1] \in Source
  BY <1>1
<1>3. \A bu : UsingSuite(i, bu) \in Suite
  BY SourcesAre DEF UsingSuite
<1>4. \A bu \in found : UsedSource(i, bu) \in PackageId
  BY <1>2, <1>3, SourcesAre DEF IsThere, UsedSource
<1>5. IsSaid(Passes)
  BY Verdicts DEF IsSaid, Passes, Says, Dependencies
<1>6. BuiltUsingPolicy(i, a) = IF a \in BreakArches THEN Passes
        ELSE Says(IF found = missing THEN PASS ELSE REJECTED_PERMANENTLY, {{UsedSource(i, bu)} : bu \in found})
  BY Zenon DEF BuiltUsingPolicy, UsingOf, IsThere, UsingSuite, UsedSource
<1>7. {{UsedSource(i, bu)} : bu \in found} \in Dependencies
  BY <1>4 DEF Dependencies
<1> HIDE DEF missing, found
<1>8. IsSaid(BuiltUsingPolicy(i, a))
  BY <1>5, <1>6, <1>7, Verdicts DEF IsSaid, Says
<1>9. ASSUME a \notin BreakArches, NEW bu \in UsingOf(i, a), ~IsThere(TargetSources, bu),
             ~is_rejected(BuiltUsingPolicy(i, a).verdict)
      PROVE  /\ IsThere(SuiteSources[UsingSuite(i, bu)], bu)
             /\ {UsedSource(i, bu)} \in BuiltUsingPolicy(i, a).depends
  <2>1. found = missing
    BY <1>6, <1>9, Verdicts DEF Says
  <2>2. bu \in found
    BY <1>9, <2>1 DEF missing
  <2>3. IsThere(SuiteSources[UsingSuite(i, bu)], bu)
    BY <2>2 DEF found
  <2>4. BuiltUsingPolicy(i, a).depends = {{UsedSource(i, b)} : b \in found}
    BY <1>6, <1>9 DEF Says
  <2> QED  BY <2>2, <2>3, <2>4
<1> QED  BY <1>3, <1>8, <1>9

LEMMA OthersSaid ==
  ASSUME NEW i, NEW a
  PROVE  /\ IsSaid(RCBugPolicy(i)) /\ IsSaid(PiupartsPolicy(i))
         /\ IsSaid(BlockPolicy(i, a)) /\ IsSaid(BuiltOnBuilddPolicy(i, a))
<1>1. \A v \in PolicyVerdict : IsSaid(Says(v, {}))
  BY DEF IsSaid, Says, Dependencies
<1>2. RCBugPolicy(i) \in {Says(v, {}) : v \in {NOT_APPLICABLE, REJECTED_PERMANENTLY, PASS_HINTED, PASS}}
  BY DEF RCBugPolicy, NotApplicable, Passes
<1>3. PiupartsPolicy(i) \in {Says(v, {}) : v \in {NOT_APPLICABLE, REJECTED_PERMANENTLY, PASS_HINTED, PASS, REJECTED_TEMPORARILY}}
  BY DEF PiupartsPolicy, NotApplicable
<1>4. BlockPolicy(i, a) \in {Says(v, {}) : v \in {REJECTED_NEEDS_APPROVAL, PASS}}
  BY DEF BlockPolicy
<1>5. BuiltOnBuilddPolicy(i, a) \in {Says(v, {}) : v \in {REJECTED_CANNOT_DETERMINE_IF_PERMANENT, REJECTED_PERMANENTLY, PASS_HINTED, PASS}}
  BY DEF BuiltOnBuilddPolicy
<1> QED  BY <1>1, <1>2, <1>3, <1>4, <1>5, Verdicts

LEMMA ArchSaid ==
  ASSUME NEW i, i.suite \in Suite, NEW a, NEW packages, NEW m
  PROVE  /\ \A r \in ArchPolicies(i, a, packages, m) : IsSaid(r)
         /\ {DependsPolicy(i, a, packages), BuiltUsingPolicy(i, a)} \subseteq ArchPolicies(i, a, packages, m)
BY DependsSaid, ImplicitDependencySaid, BuiltUsingSaid, OthersSaid DEF ArchPolicies

\* What an excuse is told on an architecture.
Heard(said, i, a, packages) ==
  /\ DependsPolicy(i, a, packages).depends \cup BuiltUsingPolicy(i, a).depends \subseteq said.depends
  /\ ~is_rejected(said.verdict) => ~is_rejected(BuiltUsingPolicy(i, a).verdict)

LEMMA SrcSaid ==
  ASSUME NEW i, i.suite \in Suite, judged_elsewhere[i].verdict \in PolicyVerdict, NEW packages, NEW m
  PROVE  LET said == apply_src_policies(i, packages, m)
         IN  IsSaid(said) /\ \A a \in Arch : Heard(said, i, a, packages)
<1> DEFINE S == {RCBugPolicy(i), PiupartsPolicy(i), BlockPolicy(i, SourceItem),
                 Says(judged_elsewhere[i].verdict, {})}
                  \cup UNION {ArchPolicies(i, a, packages, m) : a \in Arch}
<1>1. IsSaid(Says(judged_elsewhere[i].verdict, {}))
  BY DEF IsSaid, Says, Dependencies
<1>2. S # {} /\ \A r \in S : IsSaid(r)
  BY <1>1, OthersSaid, ArchSaid
<1>3. \A a \in Arch : {DependsPolicy(i, a, packages), BuiltUsingPolicy(i, a)} \subseteq S
  BY ArchSaid
<1>4. apply_src_policies(i, packages, m) = Together(S)
  BY DEF apply_src_policies
<1> HIDE DEF S
<1>5. /\ IsSaid(Together(S))
      /\ \A r \in S : /\ r.depends \subseteq Together(S).depends
                      /\ ~is_rejected(Together(S).verdict) => ~is_rejected(r.verdict)
  BY <1>2, TogetherIs
<1> QED  BY <1>3, <1>4, <1>5 DEF Heard

LEMMA SrcarchSaid ==
  ASSUME NEW i, i.suite \in Suite, NEW packages
  PROVE  LET said == apply_srcarch_policies(i, packages)
         IN  IsSaid(said) /\ Heard(said, i, i.arch, packages)
<1> DEFINE S == {BlockPolicy(i, i.arch)} \cup ArchPolicies(i, i.arch, packages, FALSE)
<1>1. S # {} /\ \A r \in S : IsSaid(r)
  BY OthersSaid, ArchSaid
<1>2. {DependsPolicy(i, i.arch, packages), BuiltUsingPolicy(i, i.arch)} \subseteq S
  BY DEF ArchPolicies
<1>3. apply_srcarch_policies(i, packages) = Together(S)
  BY DEF apply_srcarch_policies
<1> HIDE DEF S
<1>4. /\ IsSaid(Together(S))
      /\ \A r \in S : /\ r.depends \subseteq Together(S).depends
                      /\ ~is_rejected(Together(S).verdict) => ~is_rejected(r.verdict)
  BY <1>1, TogetherIs
<1> QED  BY <1>2, <1>3, <1>4 DEF Heard

-----------------------------------------------------------------------------
\* The item of an excuse, of a source that is there, and what it was told.
IsUpdate(i) ==
  /\ i.package \in Source /\ i.suite \in Suite /\ SourceU(i) # NoSource
  /\ i.version = SourceU(i).version /\ ~i.removal /\ i.arch \in Arch \cup {SourceItem}

WasTold(i, exc) ==
  /\ exc.packages \subseteq SourceU(i).binaries \cup {SourceId(i.package, i.version)}
  /\ ~is_rejected(exc.verdict) => \A a \in ArchsOf(i) :
       /\ DependsPolicy(i, a, exc.packages).depends \cup BuiltUsingPolicy(i, a).depends \subseteq exc.depends
       /\ exc.forced \/ ~is_rejected(BuiltUsingPolicy(i, a).verdict)

JudgedOK == \A i \in Name : judged_elsewhere[i].verdict \in PolicyVerdict

LEMMA UpdatesAre ==
  ASSUME NEW s, NEW u, <<s, u>> \in Offered, NEW a \in Arch \cup {SourceItem}
  PROVE  /\ IsUpdate(Update(s, u, a)) /\ Update(s, u, a) \in Name
         /\ SourceU(Update(s, u, a)) = SuiteSources[u][s]
         /\ Update(s, u, a).package = s /\ Update(s, u, a).suite = u /\ Update(s, u, a).arch = a
         /\ ~Update(s, u, a).removal
<1>1. s \in Source /\ u \in Suite /\ SuiteSources[u][s] # NoSource
  BY DEF Offered
<1>2. Update(<<s, u>>[1], <<s, u>>[2], a) \in Name
  BY FinderAssumption
<1> QED  BY <1>1, <1>2 DEF Update, IsUpdate, SourceU

LEMMA RejectedExcuse ==
  ASSUME NEW packages \in SUBSET PackageId, NEW v \in PolicyVerdict
  PROVE  Rejected(v, packages) \in Excuse /\ Rejected(v, packages).verdict = v
         /\ Rejected(v, packages).packages = packages
BY DEF Rejected, Excuse

\* Excuses for removals.
LEMMA RemovalIs ==
  ASSUME NEW s
  PROVE  RemovalExcuse(s) \in Excuse /\ RemovalExcuse(s).packages = {}
<1>1. \A v \in PolicyVerdict : Rejected(v, {}) \in Excuse /\ Rejected(v, {}).packages = {}
  BY RejectedExcuse
<1> QED  BY <1>1, Verdicts DEF RemovalExcuse

\* Excuses for binNMUs.
LEMMA SrcarchIs ==
  ASSUME NEW i, IsUpdate(i), i.arch # SourceItem
  PROVE  SrcarchExcuse(i) \in Excuse /\ WasTold(i, SrcarchExcuse(i))
<1> DEFINE packages == Visited(i)
           said == apply_srcarch_policies(i, packages)
           verdict == IF Wrong(i) THEN REJECTED_PERMANENTLY ELSE PASS
           exc == [verdict |-> worst_of(verdict, said.verdict), forced |-> FALSE,
                   packages |-> packages, depends |-> said.depends]
<1>1. packages \subseteq SourceU(i).binaries /\ packages \subseteq PackageId
  BY SourcesAre DEF Visited, OnArch
<1>2. IsSaid(said) /\ Heard(said, i, i.arch, packages)
  BY SrcarchSaid DEF IsUpdate
<1>3. verdict \in PolicyVerdict
  BY Verdicts
<1>4. SrcarchExcuse(i) \in {Rejected(REJECTED_PERMANENTLY, {}), exc}
  BY DEF SrcarchExcuse
<1>5. ArchsOf(i) = {i.arch}
  BY DEF ArchsOf
<1> HIDE DEF packages, said, verdict
<1>6. worst_of(verdict, said.verdict) \in PolicyVerdict
      /\ (~is_rejected(worst_of(verdict, said.verdict)) => ~is_rejected(said.verdict))
  BY <1>2, <1>3, Verdicts DEF IsSaid
<1>7. exc \in Excuse
  <2>1. said.depends \in SUBSET ((SUBSET PackageId) \ {{}})
    BY <1>2 DEF IsSaid, Dependencies
  <2> QED  BY <1>1, <1>6, <2>1 DEF Excuse
<1>8. WasTold(i, exc)
  BY <1>1, <1>2, <1>5, <1>6 DEF WasTold, Heard
<1>9. LET no == Rejected(REJECTED_PERMANENTLY, {}) IN no \in Excuse /\ WasTold(i, no)
  BY RejectedExcuse, Verdicts DEF WasTold
<1> HIDE DEF exc
<1> QED  BY <1>4, <1>7, <1>8, <1>9

\* Excuses for new versions.
LEMMA SourceIs ==
  ASSUME JudgedOK, NEW i \in Name, IsUpdate(i), i.arch = SourceItem
  PROVE  SourceExcuse(i) \in Excuse /\ WasTold(i, SourceExcuse(i))
<1> DEFINE packages == SourceU(i).binaries \cup {SourceId(i.package, i.version)}
           m == \E a \in Range(Considered) : MissingBuild(i, a)
           said == apply_src_policies(i, packages, m)
           verdict == IF NotYetBuilt(i) THEN REJECTED_CANNOT_DETERMINE_IF_PERMANENT
                      ELSE worst_of(BuildVerdict(i), said.verdict)
           exc == [verdict |-> verdict, forced |-> FALSE, packages |-> packages, depends |-> said.depends]
           no == Rejected(REJECTED_PERMANENTLY, {SourceId(i.package, i.version)})
           hinted == HintsFor("force", i.package, i.version) # {}
<1>1. packages \subseteq PackageId /\ {SourceId(i.package, i.version)} \subseteq packages
  BY SourcesAre DEF IsUpdate, SourceU
<1>2. IsSaid(said) /\ \A a \in Arch : Heard(said, i, a, packages)
  BY SrcSaid DEF IsUpdate, JudgedOK
<1>3. BuildVerdict(i) \in PolicyVerdict
  <2>1. BuildVerdict(i) \in {REJECTED_PERMANENTLY, REJECTED_CANNOT_DETERMINE_IF_PERMANENT, PASS}
    BY DEF BuildVerdict
  <2> QED  BY <2>1, Verdicts
<1>4. SourceExcuse(i) \in {no, Forced(exc, hinted)}
  BY DEF SourceExcuse
<1>5. ArchsOf(i) = Arch
  BY DEF ArchsOf
<1> HIDE DEF said, m
<1>6. verdict \in PolicyVerdict /\ (~is_rejected(verdict) => ~is_rejected(said.verdict))
  <2>1. worst_of(BuildVerdict(i), said.verdict) \in PolicyVerdict
        /\ (~is_rejected(worst_of(BuildVerdict(i), said.verdict)) => ~is_rejected(said.verdict))
    BY <1>2, <1>3, Verdicts DEF IsSaid
  <2> QED  BY <2>1, Verdicts
<1>7. no \in Excuse /\ WasTold(i, no)
  BY <1>1, RejectedExcuse, Verdicts DEF WasTold
<1> HIDE DEF packages, verdict, no
<1>8. exc \in Excuse
  <2>1. said.depends \in SUBSET ((SUBSET PackageId) \ {{}})
    BY <1>2 DEF IsSaid, Dependencies
  <2> QED  BY <1>1, <1>6, <2>1 DEF Excuse
<1>9. /\ exc.packages = packages /\ exc.depends = said.depends /\ exc.verdict = verdict
      /\ exc.forced = FALSE
  OBVIOUS
<1> HIDE DEF exc
<1> DEFINE f == [exc EXCEPT !.forced = hinted]
<1>10. /\ f \in Excuse /\ f.packages = packages /\ f.depends = said.depends /\ f.forced = hinted
       /\ hinted \in BOOLEAN
  BY <1>8, <1>9 DEF Excuse
<1>11. Forced(exc, hinted) = Judged(f, verdict)
  BY <1>9 DEF Forced
<1> HIDE DEF f, hinted
<1>12. /\ Forced(exc, hinted) \in Excuse
       /\ Forced(exc, hinted).packages = packages
       /\ Forced(exc, hinted).depends = said.depends
       /\ Forced(exc, hinted).forced = hinted
       /\ ~hinted => Forced(exc, hinted).verdict = verdict
  BY <1>6, <1>10, <1>11, JudgedExcuse
<1>13. WasTold(i, Forced(exc, hinted))
  <2>1. ASSUME ~is_rejected(Forced(exc, hinted).verdict), NEW a \in Arch
        PROVE  /\ DependsPolicy(i, a, packages).depends \cup BuiltUsingPolicy(i, a).depends \subseteq said.depends
               /\ hinted \/ ~is_rejected(BuiltUsingPolicy(i, a).verdict)
    BY <1>2, <1>6, <1>12, <2>1 DEF Heard
  <2>2. packages \subseteq SourceU(i).binaries \cup {SourceId(i.package, i.version)}
    BY DEF packages
  <2> QED  BY <1>5, <1>12, <2>1, <2>2 DEF WasTold
<1> QED  BY <1>4, <1>7, <1>12, <1>13

-----------------------------------------------------------------------------
\* What is to be looked at has no excuse yet, but for remove hints, which come last.
NotYet(w) ==
  /\ w.step = 1 => \A i \in Names : ~(i.removal /\ i.package = w.package)
  /\ w.step = 2 => \A i \in Names : ~(~i.removal /\ i.package = w.package /\ i.suite = w.suite)

\* What an excuse says of its item.
ExcuseOf(i) ==
  IF i.removal THEN excuses[i].packages = {} ELSE IsUpdate(i) /\ WasTold(i, excuses[i])

FinderOK ==
  /\ JudgedOK
  /\ todo \subseteq Work
  /\ IF phase = "collect"
     THEN (\A w \in todo : NotYet(w)) /\ \A i \in Names : ExcuseOf(i)
     ELSE todo = {}

LEMMA WorkIs ==
  ASSUME NEW w \in Work
  PROVE  /\ w.step \in {1, 2, 3}
         /\ w.step = 1 => w.package \in InTarget /\ w = Task(1, w.package, Target, TargetSources[w.package].version)
         /\ w.step = 2 => /\ <<w.package, w.suite>> \in Offered
                          /\ w = Task(2, w.package, w.suite, SuiteSources[w.suite][w.package].version)
<1>1. CASE w \in {Task(1, s, Target, TargetSources[s].version) : s \in InTarget}
  BY <1>1 DEF Task
<1>2. CASE w \in {Task(2, p[1], p[2], SuiteSources[p[2]][p[1]].version) : p \in Offered}
  <2>1. PICK p \in Offered : w = Task(2, p[1], p[2], SuiteSources[p[2]][p[1]].version)
    BY <1>2
  <2>2. p = <<p[1], p[2]>>
    BY DEF Offered
  <2> QED  BY <2>1, <2>2 DEF Task
<1>3. CASE w \in {Task(3, h.package, Target, h.version) : h \in RemoveHints}
  BY <1>3 DEF Task
<1> QED  BY <1>1, <1>2, <1>3 DEF Work

LEMMA NextWorkIs ==
  ASSUME todo \subseteq Work, todo # {}
  PROVE  NextWork \in todo /\ \A x \in todo : NextWork.step <= x.step
<1>1. \A x \in todo : x.step \in {1, 2, 3}
  BY WorkIs
<1>2. \E w \in todo : \A x \in todo : w.step <= x.step
  <2>1. CASE \E w \in todo : w.step = 1
    BY <1>1, <2>1
  <2>2. CASE ~(\E w \in todo : w.step = 1) /\ \E w \in todo : w.step = 2
    BY <1>1, <2>2
  <2>3. CASE ~(\E w \in todo : w.step = 1) /\ ~(\E w \in todo : w.step = 2)
    BY <1>1, <2>3
  <2> QED  BY <2>1, <2>2, <2>3
<1> QED  BY <1>2 DEF NextWork

\* New excuses for items that are not actionable are collected.
LEMMA RecordCollects ==
  ASSUME Inv, FinderOK, NEW w \in todo, NEW D \in SUBSET Name, NEW exc \in [D -> Excuse],
         Record(w, exc),
         \A i \in D : /\ i \notin actionable
                      /\ IF i.removal THEN exc[i].packages = {} ELSE IsUpdate(i) /\ WasTold(i, exc[i]),
         \A x \in todo \ {w} :
           /\ x.step = 1 => \A i \in D : ~(i.removal /\ i.package = x.package)
           /\ x.step = 2 => \A i \in D : ~(~i.removal /\ i.package = x.package /\ i.suite = x.suite)
  PROVE  Collect /\ FinderOK'
<1>1. /\ excuses' = [i \in Names \cup D |-> IF i \in D THEN exc[i] ELSE excuses[i]]
      /\ actionable' = actionable \cup {i \in D : ~is_rejected(exc[i].verdict)}
      /\ phase = "collect" /\ todo' = todo \ {w}
      /\ UNCHANGED <<phase, valid, invalid, invalidated, lost, hints, judged_elsewhere>>
  BY DEF Record
<1>2. Names' = Names \cup D /\ Names \subseteq Name /\ excuses \in [Names -> Excuse]
      /\ actionable = {i \in Names : ~is_rejected(excuses[i].verdict)}
  BY <1>1 DEF Names, Inv, VarTypes, Collecting, is_valid
<1>3. \A i \in Names \cup D : excuses'[i] = IF i \in D THEN exc[i] ELSE excuses[i]
  BY <1>1
<1>4. Collect
  <2>1. actionable' = {i \in Names \cup D : ~is_rejected(excuses'[i].verdict)}
    BY <1>1, <1>2, <1>3
  <2>2. DOMAIN excuses' = Names \cup D
    BY <1>1
  <2>3. excuses' = [i \in DOMAIN excuses' |-> excuses'[i]]
    BY <1>1
  <2> QED  BY <1>1, <1>2, <1>3, <2>1, <2>2, <2>3 DEF Collect
<1>5. JudgedOK' /\ todo' \subseteq Work'
  BY <1>1 DEF FinderOK, JudgedOK, Work, RemoveHints
<1>6. \A x \in todo' : NotYet(x)'
  BY <1>1, <1>2 DEF FinderOK, NotYet
<1>7. \A i \in Names' : ExcuseOf(i)'
  <2> TAKE i \in Names'
  <2>1. i \notin D => ExcuseOf(i)
    BY <1>1, <1>2 DEF FinderOK
  <2> QED  BY <1>2, <1>3, <2>1 DEF ExcuseOf
<1> QED  BY <1>1, <1>4, <1>5, <1>6, <1>7 DEF FinderOK

LEMMA RemoveSourceCollects ==
  ASSUME Inv, FinderOK, NEW w \in todo, should_remove_source(w)
  PROVE  Collect /\ FinderOK'
<1> DEFINE s == w.package
           D == IF SuiteSources[PrimarySuite][s] = NoSource THEN {Removal(s)} ELSE {}
           exc == [i \in D |-> RemovalExcuse(s)]
<1>1. w \in Work /\ w.step = 1 /\ s \in InTarget
  BY WorkIs DEF should_remove_source, FinderOK
<1>2. Record(w, exc)
  <2>1. CASE SuiteSources[PrimarySuite][s] = NoSource
    BY <2>1 DEF should_remove_source
  <2>2. CASE SuiteSources[PrimarySuite][s] # NoSource
    <3>1. exc = NoExcuses
      BY <2>2 DEF NoExcuses
    <3> QED  BY <2>2, <3>1 DEF should_remove_source
  <2> QED  BY <2>1, <2>2
<1>3. phase = "collect" /\ NotYet(w)
  BY <1>2 DEF Record, FinderOK
<1>4. D \in SUBSET Name /\ exc \in [D -> Excuse]
  BY <1>1, RemovalIs, FinderAssumption
<1>5. \A i \in D : i.removal /\ i.package = s /\ exc[i].packages = {}
  BY RemovalIs DEF Removal
<1>6. \A i \in D : i \notin actionable
  BY <1>1, <1>3, <1>5 DEF NotYet, Inv, VarTypes
<1>7. \A x \in todo \ {w} : x.step = 1 => x.package # s
  BY <1>1, WorkIs DEF FinderOK
<1> HIDE DEF D, exc, s
<1> QED  BY <1>2, <1>4, <1>5, <1>6, <1>7, RecordCollects

LEMMA UpgradeCollects ==
  ASSUME Inv, FinderOK, NEW w \in todo, should_upgrade(w)
  PROVE  Collect /\ FinderOK'
<1> DEFINE s == w.package
           u == w.suite
           new == Update(s, u, SourceItem)
<1>1. w \in Work /\ w.step = 2 /\ <<s, u>> \in Offered
  BY WorkIs DEF should_upgrade, FinderOK
<1>2. SUFFICES ASSUME NEW D \in SUBSET Name, NEW exc \in [D -> Excuse], Record(w, exc),
                      \A i \in D : /\ IsUpdate(i) /\ WasTold(i, exc[i])
                                   /\ i.package = s /\ i.suite = u /\ ~i.removal
               PROVE  Collect /\ FinderOK'
  <2>1. CASE SourceT(new) # NoSource /\ SourceT(new).version = new.version
    <3>1. PICK order \in SetToSeqs(SourceT(new).binaries) :
            Record(w, [i \in SrcarchItems(s, u, order) |-> SrcarchExcuse(i)])
      BY <2>1 DEF should_upgrade
    <3> DEFINE D == SrcarchItems(s, u, order)
               exc == [i \in D |-> SrcarchExcuse(i)]
    <3>2. \A i \in D : /\ i \in Name /\ IsUpdate(i) /\ i.arch # SourceItem
                       /\ i.package = s /\ i.suite = u /\ ~i.removal
      <4> SUFFICES ASSUME NEW i \in D
                   PROVE  /\ i \in Name /\ IsUpdate(i) /\ i.arch # SourceItem
                          /\ i.package = s /\ i.suite = u /\ ~i.removal
        OBVIOUS
      <4>1. PICK a \in Arch : i = Update(s, u, a)
        BY DEF SrcarchItems
      <4>2. a # SourceItem
        BY FinderAssumption
      <4> QED  BY <1>1, <4>1, <4>2, UpdatesAre
    <3>3. \A i \in D : SrcarchExcuse(i) \in Excuse /\ WasTold(i, SrcarchExcuse(i))
      BY <3>2, SrcarchIs
    <3> HIDE DEF D
    <3>4. Record(w, exc)
      BY <3>1 DEF D
    <3>5. D \in SUBSET Name /\ exc \in [D -> Excuse] /\ \A i \in D : exc[i] = SrcarchExcuse(i)
      BY <3>2, <3>3
    <3> HIDE DEF exc
    <3> QED  BY <1>2, <3>2, <3>3, <3>4, <3>5
  <2>2. CASE ~(SourceT(new) # NoSource /\ SourceT(new).version = new.version)
    <3> DEFINE D == {new}
               exc == [i \in D |-> SourceExcuse(i)]
    <3>1. Record(w, exc)
      BY <2>2 DEF should_upgrade
    <3>2. /\ new \in Name /\ IsUpdate(new) /\ new.arch = SourceItem
          /\ new.package = s /\ new.suite = u /\ ~new.removal
      BY <1>1, UpdatesAre
    <3>3. SourceExcuse(new) \in Excuse /\ WasTold(new, SourceExcuse(new))
      BY <3>2, SourceIs DEF FinderOK
    <3>4. D \in SUBSET Name /\ exc \in [D -> Excuse] /\ \A i \in D : exc[i] = SourceExcuse(i)
      BY <3>2, <3>3
    <3>5. \A i \in D : /\ IsUpdate(i) /\ WasTold(i, exc[i])
                       /\ i.package = s /\ i.suite = u /\ ~i.removal
      BY <3>2, <3>3
    <3> HIDE DEF D, exc
    <3> QED  BY <1>2, <3>1, <3>4, <3>5
  <2> QED  BY <2>1, <2>2
<1>3. phase = "collect" /\ NotYet(w)
  BY <1>2 DEF Record, FinderOK
<1>4. \A i \in D : i \notin actionable
  BY <1>1, <1>2, <1>3 DEF NotYet, Inv, VarTypes
<1>5. \A x \in todo \ {w} : x.step = 2 => ~(x.package = s /\ x.suite = u)
  BY <1>1, WorkIs DEF FinderOK
<1> HIDE DEF s, u
<1> QED  BY <1>2, <1>4, <1>5, RecordCollects

LEMMA RemoveHintCollects ==
  ASSUME Inv, FinderOK, NEW w \in todo, process_remove_hint(w), \A x \in todo : w.step <= x.step
  PROVE  Collect /\ FinderOK'
<1> DEFINE s == w.package
           ignored == \/ s \notin InTarget
                      \/ \E i \in actionable : i.package = s
                      \/ TargetSources[s].version # w.version
           D == IF ignored THEN {} ELSE {Removal(s)}
           exc == [i \in D |-> RemovalExcuse(s)]
<1>1. w.step = 3 /\ Record(w, IF ignored THEN NoExcuses ELSE [i \in {Removal(s)} |-> RemovalExcuse(s)])
  BY DEF process_remove_hint
<1>2. Record(w, exc)
  <2>1. exc = IF ignored THEN NoExcuses ELSE [i \in {Removal(s)} |-> RemovalExcuse(s)]
    BY DEF NoExcuses
  <2> QED  BY <1>1, <2>1
<1>3. \A i \in D : i.removal /\ i.package = s /\ exc[i].packages = {} /\ i \notin actionable
  BY RemovalIs DEF Removal
<1>4. D \in SUBSET Name /\ exc \in [D -> Excuse]
  BY RemovalIs, FinderAssumption
<1>5. \A x \in todo : x.step \notin {1, 2}
  BY <1>1, WorkIs DEF FinderOK
<1> HIDE DEF D, exc, s, ignored
<1> QED  BY <1>2, <1>3, <1>4, <1>5, RecordCollects

LEMMA ConsiderCollects ==
  ASSUME Inv, FinderOK, Consider
  PROVE  Collect /\ FinderOK'
<1>1. NextWork \in todo /\ \A x \in todo : NextWork.step <= x.step
  BY NextWorkIs DEF Consider, FinderOK
<1> DEFINE w == NextWork
<1>2. should_remove_source(w) \/ should_upgrade(w) \/ process_remove_hint(w)
  BY DEF Consider
<1> HIDE DEF w
<1> QED  BY <1>1, <1>2, RemoveSourceCollects, UpgradeCollects, RemoveHintCollects DEF w

-----------------------------------------------------------------------------
\* The invalidation changes verdicts only, and adds no actionable item.
LEMMA InvalidationJudges ==
  ASSUME Inv, AddDependencies \/ Invalidate \/ Finish
  PROVE  OnlyVerdicts /\ Names' = Names /\ phase' # "collect"
<1>1. excuses \in [Names -> Excuse]
  BY DEF Inv, VarTypes
<1>2. \A e, v : /\ Judged(excuses[e], v).packages = excuses[e].packages
                /\ Judged(excuses[e], v).depends = excuses[e].depends
                /\ Judged(excuses[e], v).forced = excuses[e].forced
               \/ e \notin Names
  BY <1>1 DEF Judged, Excuse
<1>3. CASE AddDependencies
  BY <1>2, <1>3 DEF AddDependencies, OnlyVerdicts, Names
<1>4. CASE Invalidate
  <2>1. PICK e : excuses' = [x \in Names |-> IF x \in Falling(e) THEN Judged(excuses[x], Fallen(e, x))
                                          ELSE excuses[x]]
    BY <1>4 DEF Invalidate
  <2>2. phase' = "invalidate"
    BY <1>4 DEF Invalidate
  <2> QED  BY <1>2, <2>1, <2>2 DEF OnlyVerdicts, Names
<1>5. CASE Finish
  BY <1>5 DEF Finish, OnlyVerdicts, Names
<1> QED  BY <1>3, <1>4, <1>5

LEMMA FinderStep ==
  ASSUME Inv, FinderOK, [FinderNext]_finder_vars
  PROVE  [Next]_vars /\ FinderOK'
<1>1. CASE Consider
  BY <1>1, ConsiderCollects DEF Next
<1>2. CASE find_actionable_excuses
  <2>1. Next /\ todo = {} /\ UNCHANGED <<hints, judged_elsewhere, todo>> /\ phase' # "collect"
    BY <1>2, InvalidationJudges DEF find_actionable_excuses, Next
  <2> QED  BY <2>1 DEF FinderOK, JudgedOK, Work, RemoveHints
<1>3. CASE UNCHANGED finder_vars
  <2>1. UNCHANGED vars /\ UNCHANGED <<hints, judged_elsewhere, todo>>
    BY <1>3 DEF finder_vars
  <2>2. Names' = Names /\ phase' = phase /\ \A i \in Names : excuses'[i] = excuses[i]
    BY <2>1 DEF vars, Names
  <2>3. \A x : NotYet(x) => NotYet(x)'
    BY <2>2 DEF NotYet
  <2>4. \A i \in Names : ExcuseOf(i) => ExcuseOf(i)'
    BY <2>2 DEF ExcuseOf
  <2>5. JudgedOK' = JudgedOK /\ Work' = Work /\ todo' = todo
    BY <2>1 DEF JudgedOK, Work, RemoveHints
  <2> QED  BY <2>1, <2>2, <2>3, <2>4, <2>5 DEF FinderOK
<1> QED  BY <1>1, <1>2, <1>3 DEF FinderNext

LEMMA FinderInitOK == FinderInit => Init /\ FinderOK
<1> SUFFICES ASSUME FinderInit PROVE Init /\ FinderOK
  OBVIOUS
<1>1. Names = {} /\ phase = "collect" /\ todo = Work /\ Init
  BY DEF FinderInit, Init, Names, NoExcuses
<1>2. JudgedOK
  BY FinderAssumption DEF FinderInit, JudgedOK
<1> QED  BY <1>1, <1>2 DEF FinderOK, NotYet

LEMMA StepInv == Inv /\ [Next]_vars => Inv'
BY CollectInv, AddDependenciesInv, InvalidateInv, FinishInv, StutterInv DEF Next

LEMMA FinderAlwaysOK == FinderSpec => [](Inv /\ FinderOK)
<1>1. FinderInit => Inv /\ FinderOK
  BY FinderInitOK, InitInv
<1>2. Inv /\ FinderOK /\ [FinderNext]_finder_vars => (Inv /\ FinderOK)'
  BY FinderStep, StepInv
<1> QED  BY <1>1, <1>2, PTL DEF FinderSpec

\* The finder implements Excuses: whatever the archive, the hints and the
\* judgements, the actionable items are always those whose excuse passes,
\* although excuses are replaced on the way, and nothing else happens than that
\* excuses are collected and then invalidate each other.
THEOREM FinderImplementsExcuses == FinderSpec => ImplementsExcuses
<1>1. FinderInit => Init
  BY FinderInitOK
<1>2. Inv /\ FinderOK /\ [FinderNext]_finder_vars => [Next]_vars
  BY FinderStep
<1>3. FinderSpec => Spec
  BY <1>1, <1>2, FinderAlwaysOK, PTL DEF FinderSpec, Spec
<1> QED  BY <1>3 DEF ImplementsExcuses

-----------------------------------------------------------------------------
(***************************************************************************)
(* What is left meets its needs.                                           *)
(***************************************************************************)

\* An excuse names the source of its item and no other, and one that was
\* actionable when the collection ended knows what it needs.
Asks(i, exc) ==
  \A a \in ArchsOf(i) :
    /\ DependsPolicy(i, a, exc.packages).depends \cup BuiltUsingPolicy(i, a).depends \subseteq exc.depends
    /\ exc.forced \/ ~is_rejected(BuiltUsingPolicy(i, a).verdict)
NamesItsSource(i) ==
  IF i.removal THEN excuses[i].packages = {}
  ELSE /\ IsUpdate(i)
       /\ excuses[i].packages \subseteq SourceU(i).binaries \cup {SourceId(i.package, i.version)}

NeedsOK ==
  phase # "collect" =>
    /\ \A i \in Names : NamesItsSource(i)
    /\ \A i \in actionable : ~i.removal => Asks(i, excuses[i])
    /\ valid \subseteq actionable
    /\ phase = "done" => valid = actionable /\ invalid = <<>>

LEMMA NeedsStep ==
  ASSUME Inv, FinderOK, NeedsOK, [FinderNext]_finder_vars
  PROVE  NeedsOK'
<1>1. CASE Consider
  BY <1>1, ConsiderCollects DEF Collect, NeedsOK
<1>2. CASE find_actionable_excuses
  <2>1. OnlyVerdicts /\ Names' = Names
    BY <1>2, InvalidationJudges DEF find_actionable_excuses
  <2>2. \A i \in Names : NamesItsSource(i)
    BY DEF FinderOK, NeedsOK, ExcuseOf, WasTold, NamesItsSource
  <2>3. \A i \in Names : NamesItsSource(i)'
    BY <2>1, <2>2 DEF OnlyVerdicts, NamesItsSource, Names
  <2>4. actionable \subseteq Names /\ \A i \in actionable : ~i.removal => Asks(i, excuses[i])
    <3>1. CASE phase = "collect"
      <4>1. \A i \in actionable : i \in Names /\ ~is_rejected(excuses[i].verdict)
        BY <3>1 DEF Inv, Collecting, is_valid
      <4> QED  BY <3>1, <4>1 DEF FinderOK, ExcuseOf, WasTold, Asks
    <3>2. CASE phase # "collect"
      BY <3>2 DEF NeedsOK, Inv, VarTypes
    <3> QED  BY <3>1, <3>2
  <2>5. \A i \in actionable : ~i.removal => Asks(i, excuses'[i])
    BY <2>1, <2>4 DEF OnlyVerdicts, Asks, Names
  <2>6. actionable' \subseteq actionable /\ valid' \subseteq actionable'
        /\ (phase' = "done" => valid' = actionable' /\ invalid' = <<>>)
    <3>1. CASE AddDependencies
      BY <3>1 DEF AddDependencies
    <3>2. CASE Invalidate
      BY <3>2 DEF Invalidate, NeedsOK
    <3>3. CASE Finish
      BY <3>3 DEF Finish, NeedsOK
    <3> QED  BY <1>2, <3>1, <3>2, <3>3 DEF find_actionable_excuses
  <2>7. \A i \in actionable' : ~i.removal => Asks(i, excuses[i])'
    BY <2>5, <2>6
  <2> QED  BY <2>1, <2>3, <2>6, <2>7 DEF NeedsOK
<1>3. CASE UNCHANGED finder_vars
  BY <1>3 DEF finder_vars, vars, NeedsOK, NamesItsSource, Names
<1> QED  BY <1>1, <1>2, <1>3 DEF FinderNext

LEMMA NeedsHold == FinderSpec => []NeedsOK
<1>1. FinderInit => NeedsOK
  BY DEF FinderInit, Init, NeedsOK
<1>2. Inv /\ FinderOK /\ NeedsOK /\ [FinderNext]_finder_vars => NeedsOK'
  BY NeedsStep
<1> QED  BY <1>1, <1>2, FinderAlwaysOK, PTL DEF FinderSpec

\* A dependency that an item asked for is with an item that is left.
LEMMA AskedIsGranted ==
  ASSUME Inv, NeedsOK, LeftSupported, phase = "done",
         NEW i \in actionable, ~excuses[i].forced, NEW d \in excuses[i].depends
  PROVE  \E j \in actionable, p \in d : p \in excuses[j].packages
<1>1. valid = actionable /\ invalid = <<>> /\ Supported(valid)
  BY DEF NeedsOK, LeftSupported
<1>2. UNION {Alternatives(p) : p \in d} \in all_deps(i)
  BY DEF all_deps
<1>3. PICK j \in valid : j \in UNION {Alternatives(p) : p \in d}
  BY <1>1, <1>2 DEF Supported
<1>4. PICK p \in d : j \in Alternatives(p)
  BY <1>3
<1>5. j # Impossible
  BY NameAssumption DEF Inv, VarTypes
<1>6. p \in excuses[j].packages
  BY <1>4, <1>5 DEF Alternatives, Bringing
<1> QED  BY <1>1, <1>4, <1>6

\* Whatever the archive, the hints and the judgements: among the items left, each
\* dependency is met in the target suite or by what migrates, but for old
\* binaries that an excuse counts as its own, and each source that a binary
\* was built using is or comes there (DependsPolicy, BuiltUsingPolicy and
\* find_actionable_excuses).
THEOREM NeedsAreMet == FinderSpec => []NeedsMet
<1>1. Inv /\ NeedsOK /\ LeftSupported => NeedsMet
  <2> SUFFICES ASSUME Inv, NeedsOK, LeftSupported, phase = "done",
                      NEW i \in actionable, ~i.removal, ~excuses[i].forced
               PROVE  /\ \A d \in Unmet(i) : \E j \in actionable : d \cap (excuses[j].packages \ Brings(j)) # {}
                      /\ \A a \in ArchsOf(i) \ BreakArches : \A b \in OnArch(SourceU(i).binaries, a) :
                           \A bu \in Bin[b].builtusing :
                             \/ TargetSources[bu[1]] # NoSource /\ TargetSources[bu[1]].version >= bu[2]
                             \/ \E j \in actionable : j.package = bu[1] /\ j.version >= bu[2] /\ ~j.removal
    BY DEF NeedsMet, DependenciesMetButCruft
  <2> DEFINE packages == excuses[i].packages
  <2>1. /\ Asks(i, excuses[i])
        /\ \A j \in actionable : j \in Names /\ NamesItsSource(j)
    BY DEF NeedsOK, Inv, VarTypes
  <2>2. ASSUME NEW d \in Unmet(i)
        PROVE  \E j \in actionable : d \cap (excuses[j].packages \ Brings(j)) # {}
    <3>1. /\ d # {} /\ d \cap TargetBinaries = {}
          /\ \A j \in actionable : d \cap Brings(j) = {}
      BY DEF Unmet, Arriving
    <3>2. PICK a \in ArchsOf(i) : \E b \in CheckedBinaries(i, a, packages) : d \in Bin[b].depends
      BY DEF Unmet
    <3>3. CASE d \cap OnArch(packages, a) # {}
      <4>1. PICK p \in d : p \in packages
        BY <3>3 DEF OnArch
      <4> QED  BY <3>1, <4>1
    <3>4. CASE d \cap OnArch(packages, a) = {}
      <4>1. d \in DependsPolicy(i, a, packages).depends
        BY <3>1, <3>2, <3>4 DEF DependsPolicy, Says
      <4>2. d \in excuses[i].depends
        BY <2>1, <3>2, <4>1 DEF Asks
      <4>3. PICK j \in actionable, p \in d : p \in excuses[j].packages
        BY <4>2, AskedIsGranted
      <4> QED  BY <3>1, <4>3
    <3> QED  BY <3>3, <3>4
  <2>3. ASSUME NEW a \in ArchsOf(i) \ BreakArches, NEW b \in OnArch(SourceU(i).binaries, a),
               NEW bu \in Bin[b].builtusing,
               ~(TargetSources[bu[1]] # NoSource /\ TargetSources[bu[1]].version >= bu[2])
        PROVE  \E j \in actionable : j.package = bu[1] /\ j.version >= bu[2] /\ ~j.removal
    <3>1. bu \in UsingOf(i, a) /\ ~IsThere(TargetSources, bu)
      BY <2>3 DEF UsingOf, IsThere
    <3>2. IsUpdate(i)
      BY <2>1 DEF NamesItsSource
    <3>3. ~is_rejected(BuiltUsingPolicy(i, a).verdict)
      BY <2>1 DEF Asks
    <3>4. /\ IsThere(SuiteSources[UsingSuite(i, bu)], bu) /\ UsingSuite(i, bu) \in Suite
          /\ {UsedSource(i, bu)} \in BuiltUsingPolicy(i, a).depends
      BY <3>1, <3>2, <3>3, BuiltUsingSaid DEF IsUpdate
    <3>5. {UsedSource(i, bu)} \in excuses[i].depends
      BY <2>1, <3>4 DEF Asks
    <3>6. PICK j \in actionable : UsedSource(i, bu) \in excuses[j].packages
      BY <3>5, AskedIsGranted
    <3>7. ~j.removal /\ IsUpdate(j)
          /\ excuses[j].packages \subseteq SourceU(j).binaries \cup {SourceId(j.package, j.version)}
      BY <2>1, <3>6 DEF NamesItsSource
    <3> DEFINE v == SuiteSources[UsingSuite(i, bu)][bu[1]].version
    <3>8. bu[1] \in Source /\ v >= bu[2]
      <4>1. b \in BinId
        BY DEF OnArch
      <4>2. bu \in Source \X Nat
        BY <4>1, SourcesAre
      <4> QED  BY <3>4, <4>2 DEF IsThere
    <3>9. UsedSource(i, bu) \notin BinId
      BY <3>4, <3>8, SourcesAre DEF UsedSource, IsThere
    <3>10. SourceU(j).binaries \subseteq BinId
      BY <3>7, SourcesAre DEF IsUpdate, SourceU
    <3>11. UsedSource(i, bu) = SourceId(j.package, j.version)
      BY <3>6, <3>7, <3>9, <3>10
    <3>12. SourceId(bu[1], v).source = bu[1] /\ SourceId(bu[1], v).version = v
           /\ SourceId(j.package, j.version).source = j.package
           /\ SourceId(j.package, j.version).version = j.version
      BY DEF SourceId
    <3>13. bu[1] = j.package /\ v = j.version
      BY <3>11, <3>12 DEF UsedSource
    <3> QED  BY <3>7, <3>8, <3>13
  <2> QED  BY <2>2, <2>3
<1> QED  BY <1>1, FinderAlwaysOK, NeedsHold, FinderImplementsExcuses, SupportIsLeft, PTL DEF ImplementsExcuses

(***************************************************************************)
(* Nothing is blocked in vain.                                             *)
(***************************************************************************)

\* Which items there are: updates of sources in another version than the target
\* suite has, binNMUs of those in the same, and removals of what has left the
\* primary suite or has a remove hint.
IsNamed(i) ==
  IF i.removal
  THEN \/ SuiteSources[PrimarySuite][i.package] = NoSource
       \/ HintsFor("remove", i.package, TargetSources[i.package].version) # {}
  ELSE /\ IsUpdate(i)
       /\ i.arch # SourceItem <=> SourceT(i) # NoSource /\ SourceT(i).version = i.version

NamedOK == \A i \in Names : IsNamed(i)

LEMMA NamesGrow ==
  ASSUME NamedOK, UNCHANGED hints, \A i \in Names' \ Names : IsNamed(i)
  PROVE  NamedOK'
<1>1. \A i : IsNamed(i)' <=> IsNamed(i)
  BY DEF IsNamed, HintsFor
<1> QED  BY <1>1 DEF NamedOK

LEMMA RecordNames ==
  ASSUME NEW w, NEW exc, Record(w, exc)
  PROVE  Names' = Names \cup DOMAIN exc /\ UNCHANGED hints
BY DEF Record, Names

LEMMA HintedWork ==
  ASSUME NEW w \in Work, w.step = 3
  PROVE  HintsFor("remove", w.package, w.version) # {}
<1>1. \A s, p, q : Task(1, s, Target, p).step = 1 /\ Task(2, s, p, q).step = 2
  BY DEF Task
<1>2. PICK h \in RemoveHints : w = Task(3, h.package, Target, h.version)
  BY <1>1 DEF Work
<1> QED  BY <1>2 DEF Task, RemoveHints, HintsFor

LEMMA NamedStep ==
  ASSUME Inv, FinderOK, NamedOK, [FinderNext]_finder_vars
  PROVE  NamedOK'
<1>1. CASE Consider
  <2>1. PICK w \in todo : should_remove_source(w) \/ should_upgrade(w) \/ process_remove_hint(w)
    <3>1. NextWork \in todo
      BY NextWorkIs, <1>1 DEF Consider, FinderOK
    <3> QED  BY <1>1, <3>1 DEF Consider
  <2>2. w \in Work
    BY DEF FinderOK
  <2> DEFINE s == w.package
             u == w.suite
             new == Update(s, u, SourceItem)
  <2>3. CASE should_remove_source(w)
    <3>1. CASE SuiteSources[PrimarySuite][s] = NoSource
      <4>1. Record(w, [i \in {Removal(s)} |-> RemovalExcuse(s)])
        BY <2>3, <3>1 DEF should_remove_source
      <4>2. Names' = Names \cup {Removal(s)} /\ UNCHANGED hints
        BY <4>1, RecordNames
      <4>3. Removal(s).removal /\ Removal(s).package = s
        BY DEF Removal
      <4> QED  BY NamesGrow, <3>1, <4>2, <4>3 DEF IsNamed
    <3>2. CASE SuiteSources[PrimarySuite][s] # NoSource
      <4>1. Record(w, NoExcuses) /\ DOMAIN NoExcuses = {}
        BY <2>3, <3>2 DEF should_remove_source, NoExcuses
      <4>2. Names' = Names \cup {} /\ UNCHANGED hints
        BY <4>1, RecordNames
      <4> QED  BY NamesGrow, <4>2
    <3> QED  BY <3>1, <3>2
  <2>4. CASE should_upgrade(w)
    <3>1. <<s, u>> \in Offered
      BY <2>2, <2>4, WorkIs DEF should_upgrade
    <3>2. ASSUME NEW a \in Arch \cup {SourceItem}
          PROVE  /\ IsUpdate(Update(s, u, a)) /\ ~Update(s, u, a).removal /\ Update(s, u, a).arch = a
                 /\ SourceT(Update(s, u, a)) = SourceT(new) /\ Update(s, u, a).version = new.version
      BY <3>1, UpdatesAre DEF SourceT, Update
    <3>3. CASE SourceT(new) # NoSource /\ SourceT(new).version = new.version
      <4>1. PICK order \in SetToSeqs(SourceT(new).binaries) :
              Record(w, [i \in SrcarchItems(s, u, order) |-> SrcarchExcuse(i)])
        BY <2>4, <3>3 DEF should_upgrade
      <4>2. Names' = Names \cup SrcarchItems(s, u, order) /\ UNCHANGED hints
        BY <4>1, RecordNames
      <4>3. \A i \in SrcarchItems(s, u, order) : \E a \in Arch : i = Update(s, u, a)
        BY DEF SrcarchItems
      <4>4. \A a \in Arch : a # SourceItem
        BY FinderAssumption
      <4>5. \A i \in SrcarchItems(s, u, order) : IsNamed(i)
        BY <3>2, <3>3, <4>3, <4>4 DEF IsNamed
      <4> QED  BY NamesGrow, <4>2, <4>5
    <3>4. CASE ~(SourceT(new) # NoSource /\ SourceT(new).version = new.version)
      <4>1. Record(w, [i \in {new} |-> SourceExcuse(i)])
        BY <2>4, <3>4 DEF should_upgrade
      <4>2. Names' = Names \cup {new} /\ UNCHANGED hints
        BY <4>1, RecordNames
      <4>3. IsNamed(new)
        BY <3>2, <3>4 DEF IsNamed
      <4> QED  BY NamesGrow, <4>2, <4>3
    <3> QED  BY <3>3, <3>4
  <2>5. CASE process_remove_hint(w)
    <3> DEFINE ignored == \/ s \notin InTarget
                          \/ \E i \in actionable : i.package = s
                          \/ TargetSources[s].version # w.version
    <3>1. Record(w, IF ignored THEN NoExcuses ELSE [i \in {Removal(s)} |-> RemovalExcuse(s)])
      BY <2>5 DEF process_remove_hint
    <3>2. CASE ignored
      <4>1. Record(w, NoExcuses) /\ DOMAIN NoExcuses = {}
        BY <3>1, <3>2 DEF NoExcuses
      <4>2. Names' = Names \cup {} /\ UNCHANGED hints
        BY <4>1, RecordNames
      <4> QED  BY NamesGrow, <4>2
    <3>3. CASE ~ignored
      <4>1. Record(w, [i \in {Removal(s)} |-> RemovalExcuse(s)])
        BY <3>1, <3>3
      <4>2. Names' = Names \cup {Removal(s)} /\ UNCHANGED hints
        BY <4>1, RecordNames
      <4>3. Removal(s).removal /\ Removal(s).package = s
        BY DEF Removal
      <4>4. HintsFor("remove", s, TargetSources[s].version) # {}
        BY <2>2, <2>5, <3>3, HintedWork DEF process_remove_hint
      <4> QED  BY NamesGrow, <4>2, <4>3, <4>4, <3>3 DEF IsNamed
    <3> QED  BY <3>2, <3>3
  <2> QED  BY <2>1, <2>3, <2>4, <2>5
<1>2. CASE find_actionable_excuses
  <2>1. Names' = Names \cup {} /\ UNCHANGED hints
    BY <1>2, InvalidationJudges DEF find_actionable_excuses
  <2> QED  BY NamesGrow, <2>1
<1>3. CASE UNCHANGED finder_vars
  <2>1. Names' = Names \cup {} /\ UNCHANGED hints
    BY <1>3 DEF finder_vars, vars, Names
  <2> QED  BY NamesGrow, <2>1
<1> QED  BY <1>1, <1>2, <1>3 DEF FinderNext

\* A binary of a loaded suite is found by its name and architecture, and with its source.
LEMMA LookupIs ==
  ASSUME NEW sources, NEW bins \in SUBSET BinId, Loaded(sources, bins), NEW b \in BinId
  PROVE  LET n == Lookup(bins, Bin[b].name, Bin[b].arch)
         IN  /\ b \in bins => n = b
             /\ n \in BinId => n \in bins /\ SameBinary(n, b)
             /\ n \notin BinId => n = NoBin /\ \A c \in bins : ~SameBinary(c, b)
<1> DEFINE n == Lookup(bins, Bin[b].name, Bin[b].arch)
<1>1. NoBin \notin BinId
  BY ArchiveAssumption
<1>2. CASE \E c \in bins : Bin[c].name = Bin[b].name /\ Bin[c].arch = Bin[b].arch
  <2>1. n \in bins /\ SameBinary(n, b)
    BY <1>2 DEF Lookup, SameBinary
  <2>2. b \in bins => n = b
    BY <2>1 DEF Loaded
  <2> QED  BY <2>1, <2>2
<1>3. CASE ~\E c \in bins : Bin[c].name = Bin[b].name /\ Bin[c].arch = Bin[b].arch
  BY <1>1, <1>3 DEF Lookup, SameBinary
<1> QED  BY <1>2, <1>3

\* What a suite has of a source, and what is brought from there.
LEMMA BringsIs ==
  ASSUME SteadyArchive, NEW i, IsUpdate(i)
  PROVE  /\ Brings(i) \subseteq SuiteBinaries[i.suite] /\ Brings(i) \subseteq BinId
         /\ \A b \in Brings(i) :
              /\ Bin[b].source = i.package /\ ~IsCruft(b, SuiteSources[i.suite])
              /\ i.arch = SourceItem \/ (i.arch = Bin[b].arch /\ ~Bin[b].arch_all)
         /\ \A b \in SuiteBinaries[i.suite] :
              /\ Bin[b].source = i.package /\ ~IsCruft(b, SuiteSources[i.suite])
              /\ i.arch = SourceItem \/ (i.arch = Bin[b].arch /\ ~Bin[b].arch_all)
              => b \in Brings(i)
<1>1. SourceU(i).binaries = {b \in SuiteBinaries[i.suite] : Bin[b].source = i.package}
  BY DEF SteadyArchive, Loaded, IsUpdate, SourceU
<1>2. SuiteBinaries[i.suite] \subseteq BinId
  BY SourcesAre DEF IsUpdate
<1>3. SourceU(i) = SuiteSources[i.suite][i.package]
  BY DEF SourceU
<1> QED  BY <1>1, <1>2, <1>3 DEF Brings, IsCruft, IsUpdate

\* The binaries of a name and an architecture all come with one item.
LEMMA OneBrings ==
  ASSUME SteadyArchive, NEW b \in BinId, NEW c \in BinId, SameBinary(b, c)
  PROVE  Bin[b].source = Bin[c].source
BY DEF SteadyArchive, BinariesStay

\* A binary that breaks with the replacement of another one cannot stay, nor come, with it.
LEMMA BreaksAfter ==
  ASSUME SteadyArchive, NamedOK, NEW i \in Names, ~i.removal, NEW a \in ArchsOf(i),
         NEW t \in SourceT(i).binaries, SourceT(i) # NoSource, Bin[t].arch = a,
         ~IsCruft(t, TargetSources), Successor(i, t) # t,
         Successor(i, t) = NoBin =>
           /\ Lookup(TargetBinaries, Bin[t].name, a) \notin SmoothAllowed
           /\ ~ /\ SourceT(i).version = SourceU(i).version
                /\ ~IsPrimary(i)
                /\ Bin[Lookup(TargetBinaries, Bin[t].name, a)].arch_all,
         NEW M \in SUBSET Names, i \in M, \A j, k \in M : j # k => j.package # k.package,
         NEW cruft,
         NEW x \in BinId, BreaksInstallability(t, Successor(i, t), x)
  PROVE  BrokenIn(After(M, cruft), x)
<1> DEFINE s == Successor(i, t)
           new == UNION {Brings(j) : j \in M}
           n == Lookup(SuiteBinaries[i.suite], Bin[t].name, Bin[t].arch)
<1>1. /\ IsUpdate(i) /\ i.package \in Source /\ i.suite \in Suite /\ SourceU(i) # NoSource
      /\ i.arch # SourceItem <=> SourceT(i).version = i.version
      /\ i.version = SourceU(i).version
  BY DEF NamedOK, IsNamed, IsUpdate
<1>2. /\ t \in TargetBinaries /\ t \in BinId /\ Bin[t].source = i.package
      /\ SuiteBinaries[i.suite] \subseteq BinId
  <2>1. SourceT(i).binaries = {b \in TargetBinaries : Bin[b].source = i.package}
    BY <1>1 DEF SteadyArchive, Loaded, SourceT
  <2> QED  BY <1>1, <2>1, SourcesAre
<1>3. Lookup(TargetBinaries, Bin[t].name, a) = t
  BY <1>2, LookupIs, SourcesAre DEF SteadyArchive
<1>4. /\ n \in BinId => n \in SuiteBinaries[i.suite] /\ SameBinary(n, t) /\ Bin[n].source = i.package
      /\ n \notin BinId => n = NoBin /\ \A c \in SuiteBinaries[i.suite] : ~SameBinary(c, t)
  BY <1>1, <1>2, LookupIs, OneBrings DEF SteadyArchive
<1>5. /\ n \in BinId /\ ~IsCruft(n, SuiteSources[i.suite]) => s = n
      /\ n \in BinId /\ IsCruft(n, SuiteSources[i.suite]) => s = NoBin
      /\ n \notin BinId => s = NoBin
  BY <1>4 DEF Successor, IsCruft, SourceU
<1>6. ASSUME NEW e \in new, SameBinary(e, t) PROVE e = s
  <2>1. PICK j \in M : e \in Brings(j)
    BY <1>6
  <2>2. ~j.removal
    BY <2>1 DEF Brings
  <2>3. IsUpdate(j)
    BY <2>2 DEF NamedOK, IsNamed
  <2>4. e \in BinId /\ Bin[e].source = j.package
    BY <2>1, <2>3, BringsIs
  <2>5. j.package = i.package
    BY <1>2, <1>6, <2>4, OneBrings
  <2>6. j = i
    BY <2>5
  <2>7. e \in SuiteBinaries[i.suite] /\ ~IsCruft(e, SuiteSources[i.suite])
    BY <1>1, <2>1, <2>6, BringsIs
  <2>8. n = e
    <3>1. n \in BinId
      BY <1>4, <1>6, <2>7
    <3>2. SameBinary(e, n)
      BY <1>4, <1>6, <3>1 DEF SameBinary
    <3> QED  BY <1>1, <1>4, <2>7, <3>1, <3>2 DEF SteadyArchive, Loaded
  <2> QED  BY <1>5, <2>4, <2>7, <2>8
<1>7. t \notin After(M, cruft)
  <2>1. t \notin new
    BY <1>6 DEF SameBinary
  <2>2. CASE s # NoBin
    <3>1. n \in BinId /\ s = n /\ ~IsCruft(n, SuiteSources[i.suite])
      BY <1>5, <2>2
    <3>2. n \in SuiteBinaries[i.suite] /\ SameBinary(n, t) /\ Bin[n].source = i.package
      BY <1>4, <3>1
    <3>3. i.arch = SourceItem \/ (i.arch = Bin[n].arch /\ ~Bin[n].arch_all)
      <4>1. SUFFICES ASSUME i.arch # SourceItem PROVE i.arch = Bin[n].arch /\ ~Bin[n].arch_all
        OBVIOUS
      <4>2. i.arch = Bin[t].arch
        BY <4>1 DEF ArchsOf
      <4>3. ~Bin[n].arch_all
        BY <1>1, <1>2, <3>1, <3>2, <4>1 DEF SteadyArchive, BinariesBuilt, SourceT, SourceU
      <4> QED  BY <3>2, <4>2, <4>3 DEF SameBinary
    <3>4. n \in new
      BY <1>1, <3>1, <3>2, <3>3, BringsIs
    <3>5. Lookup(new, Bin[t].name, Bin[t].arch) # NoBin
      <4>1. new \subseteq BinId
        <5>1. ASSUME NEW j \in M PROVE Brings(j) \subseteq BinId
          <6>1. CASE j.removal
            BY <6>1 DEF Brings
          <6>2. CASE ~j.removal
            BY <6>2, BringsIs DEF NamedOK, IsNamed
          <6> QED  BY <6>1, <6>2
        <5> QED  BY <5>1
      <4>2. Lookup(new, Bin[t].name, Bin[t].arch) \in new
        BY <3>2, <3>4 DEF Lookup, SameBinary
      <4> QED  BY <4>1, <4>2, ArchiveAssumption
    <3> QED  BY <2>1, <3>5 DEF After
  <2>3. CASE s = NoBin
    <3>1. t \notin SmoothAllowed
      BY <1>3, <2>3
    <3>2. i.arch = SourceItem
      <4>1. SUFFICES ASSUME i.arch # SourceItem PROVE FALSE
        OBVIOUS
      <4>2. SourceT(i).version = SourceU(i).version
        BY <1>1, <4>1
      <4>3. ~(Bin[t].arch_all /\ i.suite # PrimarySuite)
        BY <1>3, <2>3, <4>2 DEF IsPrimary
      <4>4. PICK b \in BinId : /\ b \in SuiteBinaries[i.suite] /\ SameBinary(b, t)
                               /\ ~IsCruft(b, SuiteSources[i.suite])
        BY <1>1, <1>2, <4>2, <4>3 DEF SteadyArchive, BinariesBuilt, SourceT, SourceU
      <4>5. n \in BinId
        BY <1>4, <4>4
      <4>6. n = b
        <5>1. SameBinary(n, b)
          BY <1>4, <4>4, <4>5 DEF SameBinary
        <5> QED  BY <1>1, <1>4, <4>4, <4>5, <5>1 DEF SteadyArchive, Loaded
      <4>7. s = n
        BY <1>5, <4>4, <4>6
      <4> QED  BY <2>3, <4>5, <4>7, ArchiveAssumption
    <3> QED  BY <1>2, <2>1, <3>1, <3>2 DEF After
  <2> QED  BY <2>2, <2>3
<1>8. PICK d \in Bin[x].depends : /\ t \in d
                                  /\ \A e \in d \ Bin[x].conflicts : Bin[e].name = Bin[t].name /\ e # s
  BY DEF BreaksInstallability
<1>9. ASSUME NEW e \in d \ Bin[x].conflicts, e \in After(M, cruft) PROVE FALSE
  <2>1. d \subseteq BinId /\ SameBinary(e, t)
    <3>1. d \subseteq BinId
      BY SourcesAre
    <3>2. Bin[e].arch = Bin[x].arch /\ Bin[t].arch = Bin[x].arch
      BY <1>8 DEF SteadyArchive, BinariesStay
    <3> QED  BY <1>8, <3>1, <3>2 DEF SameBinary
  <2>2. e \notin new
    BY <1>6, <1>8, <2>1
  <2>3. e \in TargetBinaries
    BY <1>9, <2>2 DEF After
  <2>4. e = t
    BY <1>2, <2>1, <2>3 DEF SteadyArchive, Loaded
  <2> QED  BY <1>7, <1>9, <2>4
<1> QED  BY <1>9 DEF BrokenIn

\* Why an update is rejected for what it breaks: a package that nothing mends.
LEMMA WhyRejected ==
  ASSUME NEW i, NEW a, ImplicitDependencyPolicy(i, a, FALSE).verdict = REJECTED_PERMANENTLY
  PROVE  /\ SourceT(i) # NoSource
         /\ \E t \in SourceT(i).binaries, p \in BinId :
              /\ Bin[t].arch = a /\ a \notin NewArches \cup BreakArches
              /\ ~IsCruft(t, TargetSources) /\ Successor(i, t) # t
              /\ Successor(i, t) = NoBin =>
                   /\ Lookup(TargetBinaries, Bin[t].name, a) \notin SmoothAllowed
                   /\ ~ /\ SourceT(i).version = SourceU(i).version
                        /\ ~IsPrimary(i)
                        /\ Bin[Lookup(TargetBinaries, Bin[t].name, a)].arch_all
              /\ \E d \in Bin[p].depends : t \in d
              /\ ~SkipReverseDependency(i, a, p)
              /\ BreaksInstallability(t, Successor(i, t), p)
              /\ \A m \in FindNewerBinaries(p) : m \in BinId /\ BreaksInstallability(t, Successor(i, t), m)
<1>1. /\ PASS # REJECTED_PERMANENTLY /\ Passes.verdict = PASS
      /\ \A T, S : Says(T, S).verdict = T
  BY DEF PASS, REJECTED_PERMANENTLY, Passes, Says
<1> DEFINE Checks(t) ==
             /\ Bin[t].arch = a /\ a \notin NewArches \cup BreakArches
             /\ ~IsCruft(t, TargetSources) /\ Successor(i, t) # t
             /\ Successor(i, t) = NoBin =>
                  /\ Lookup(TargetBinaries, Bin[t].name, a) \notin SmoothAllowed
                  /\ ~ /\ SourceT(i).version = SourceU(i).version
                       /\ ~IsPrimary(i)
                       /\ Bin[Lookup(TargetBinaries, Bin[t].name, a)].arch_all
<1>2. SourceT(i) # NoSource
  BY <1>1 DEF ImplicitDependencyPolicy
<1>3. PICK T : /\ \A t \in T : t \in SourceT(i).binaries /\ Checks(t)
               /\ ImplicitDependencyPolicy(i, a, FALSE) =
                    Together({Passes} \cup {CheckUpgrade(i, a, t, Successor(i, t)) : t \in T})
  <2> DEFINE T == {t \in {x \in SourceT(i).binaries :
                           /\ Bin[x].arch = a
                           /\ a \notin NewArches \cup BreakArches
                           /\ Lookup(TargetBinaries, Bin[x].name, a) # NoBin
                           /\ ~IsCruft(x, TargetSources)} :
                     /\ Successor(i, t) # t
                     /\ Successor(i, t) = NoBin =>
                          /\ Lookup(TargetBinaries, Bin[t].name, a) \notin SmoothAllowed
                          /\ ~ /\ SourceT(i).version = SourceU(i).version
                               /\ ~IsPrimary(i)
                               /\ Bin[Lookup(TargetBinaries, Bin[t].name, a)].arch_all}
  <2>1. ImplicitDependencyPolicy(i, a, FALSE) =
          Together({Passes} \cup {CheckUpgrade(i, a, t, Successor(i, t)) : t \in T})
    BY <1>2 DEF ImplicitDependencyPolicy
  <2>2. \A t \in T : t \in SourceT(i).binaries /\ Checks(t)
    OBVIOUS
  <2> HIDE DEF T, Checks
  <2> QED  BY <2>1, <2>2
<1> DEFINE V == {r.verdict : r \in {Passes} \cup {CheckUpgrade(i, a, t, Successor(i, t)) : t \in T}}
<1>4. \A t, s : CheckUpgrade(i, a, t, s).verdict \in {PASS, REJECTED_PERMANENTLY}
  BY <1>1 DEF CheckUpgrade
<1>5. Worst(V) = REJECTED_PERMANENTLY /\ Worst(V) \in V
  <2>1. Worst(V) = REJECTED_PERMANENTLY
    BY <1>1, <1>3 DEF Together
  <2>2. V \in SUBSET PolicyVerdict /\ V # {}
    BY <1>1, <1>4, Verdicts
  <2> HIDE DEF V
  <2> QED  BY <2>1, <2>2, WorstIs
<1>6. PICK t \in T : CheckUpgrade(i, a, t, Successor(i, t)).verdict = REJECTED_PERMANENTLY
  BY <1>1, <1>5
<1>7. PICK p \in BinId :
        /\ \E d \in Bin[p].depends : t \in d
        /\ ~SkipReverseDependency(i, a, p)
        /\ BreaksInstallability(t, Successor(i, t), p)
        /\ {m \in FindNewerBinaries(p) : m \notin BinId \/ ~BreaksInstallability(t, Successor(i, t), m)} = {}
  BY <1>1, <1>6 DEF CheckUpgrade
<1>8. \A m \in FindNewerBinaries(p) : m \in BinId /\ BreaksInstallability(t, Successor(i, t), m)
  BY <1>7
<1> QED  BY <1>2, <1>3, <1>7, <1>8

\* A package of the target suite that may not be removed stays in a set of
\* items' migration, or a newer one comes for it.
LEMMA StaysOrNewer ==
  ASSUME SteadyArchive, NamedOK, NEW M \in SUBSET Names,
         NEW cruft \in SUBSET {t \in TargetBinaries : IsCruft(t, TargetSources)},
         NEW p \in TargetBinaries, ~CanBeRemoved(p),
         \A m \in FindNewerBinaries(p) : m \in BinId
  PROVE  \E q \in BinId : q \in After(M, cruft) /\ SameBinary(q, p) /\ (q = p \/ q \in FindNewerBinaries(p))
<1> DEFINE new == UNION {Brings(j) : j \in M}
           s == Bin[p].source
<1>1. /\ p \in BinId /\ s \in Source /\ TargetSources[s] # NoSource
      /\ ~IsCruft(p, TargetSources) /\ s \in InTarget
      /\ Bin[p].source_version = TargetSources[s].version /\ TargetSources[s].version \in Nat
  BY SourcesAre DEF SteadyArchive, Loaded, CanBeRemoved, InTarget, IsCruft, IsCurrent
<1>2. SUFFICES ASSUME p \notin After(M, cruft)
               PROVE  \E q \in BinId : /\ q \in After(M, cruft) /\ SameBinary(q, p)
                                       /\ q \in FindNewerBinaries(p)
  BY <1>1 DEF SameBinary
<1>3. p \notin new /\ p \notin cruft
  BY <1>1, <1>2 DEF After
<1>4. PICK j \in M : /\ j.package = s
                     /\ \/ j.arch = SourceItem
                        \/ \E q \in Brings(j) : SameBinary(q, p)
  <2>1. CASE Lookup(new, Bin[p].name, Bin[p].arch) # NoBin
    <3>1. PICK q \in new : SameBinary(q, p)
      BY <2>1 DEF Lookup, SameBinary
    <3>2. PICK j \in M : q \in Brings(j)
      BY <3>1
    <3>3. IsUpdate(j)
      BY <3>2 DEF Brings, NamedOK, IsNamed
    <3>4. q \in BinId /\ Bin[q].source = j.package
      BY <3>2, <3>3, BringsIs
    <3> QED  BY <1>1, <3>1, <3>2, <3>4, OneBrings
  <2>2. CASE Lookup(new, Bin[p].name, Bin[p].arch) = NoBin
    BY <1>1, <1>2, <1>3, <2>2 DEF After
  <2> QED  BY <2>1, <2>2
<1>5. ~j.removal
  BY <1>4 DEF NamedOK, IsNamed, CanBeRemoved
<1>6. /\ IsUpdate(j) /\ j.suite \in Suite /\ SuiteSources[j.suite][s] # NoSource
      /\ j.version = SuiteSources[j.suite][s].version
      /\ j.arch # SourceItem <=> SuiteSources[j.suite][s].version = TargetSources[s].version
  BY <1>1, <1>4, <1>5 DEF NamedOK, IsNamed, IsUpdate, SourceU, SourceT
<1> DEFINE u == j.suite
           n == Lookup(SuiteBinaries[u], Bin[p].name, Bin[p].arch)
<1>7. /\ SuiteSources[u][s].version \in Nat /\ SuiteSources[u][s].version >= TargetSources[s].version
      /\ SourceId(s, SuiteSources[u][s].version) \notin BinId
  BY <1>1, <1>6, SourcesAre DEF SteadyArchive, NothingOlder
<1>8. OnArch(SuiteBinaries[u], Bin[p].arch) # {}
  <2>1. CASE j.arch = SourceItem
    BY <1>1, <1>6, <2>1 DEF SteadyArchive, BinariesBuilt
  <2>2. CASE j.arch # SourceItem
    <3>1. PICK q \in Brings(j) : SameBinary(q, p)
      BY <1>4, <2>2
    <3>2. q \in SuiteBinaries[u] /\ q \in BinId
      BY <1>6, <3>1, BringsIs
    <3> QED  BY <3>1, <3>2 DEF OnArch, SameBinary
  <2> QED  BY <2>1, <2>2
<1>9. /\ n \in BinId => n \in SuiteBinaries[u] /\ SameBinary(n, p) /\ Bin[n].source = s
      /\ n \notin BinId => n = NoBin /\ \A c \in SuiteBinaries[u] : ~SameBinary(c, p)
  BY <1>1, <1>6, LookupIs, OneBrings, SourcesAre DEF SteadyArchive
<1>10. NewerIn(u, p) \subseteq FindNewerBinaries(p)
  BY <1>6 DEF FindNewerBinaries
<1>11. n \in BinId /\ ~IsCruft(n, SuiteSources[u])
  <2>1. CASE j.arch # SourceItem
    <3>1. PICK q \in Brings(j) : SameBinary(q, p)
      BY <1>4, <2>1
    <3>2. q \in SuiteBinaries[u] /\ q \in BinId /\ ~IsCruft(q, SuiteSources[u])
      BY <1>6, <3>1, BringsIs
    <3>3. n \in BinId
      BY <1>9, <3>1, <3>2
    <3>4. n = q
      <4>1. SameBinary(n, q)
        BY <1>9, <3>1, <3>3 DEF SameBinary
      <4> QED  BY <1>6, <1>9, <3>2, <3>3, <4>1 DEF SteadyArchive, Loaded
    <3> QED  BY <3>2, <3>4
  <2>2. CASE j.arch = SourceItem
    <3>1. SUFFICES ASSUME ~(n # NoBin /\ ~IsCruft(n, SuiteSources[u])) PROVE FALSE
      BY <1>9
    <3> DEFINE id == SourceId(s, SuiteSources[u][s].version)
    <3>2. SuiteSources[u][s].version > TargetSources[s].version
      BY <1>1, <1>6, <1>7, <2>2
    <3>3. id.version > Bin[p].source_version
      BY <1>1, <3>2 DEF SourceId
    <3>4. id \in NewerIn(u, p)
      BY <1>6, <1>8, <3>1, <3>3 DEF NewerIn
    <3> QED  BY <1>7, <1>10, <3>4
  <2> QED  BY <2>1, <2>2
<1>12. n \in Brings(j)
  <2>1. CASE j.arch # SourceItem
    <3>1. PICK q \in Brings(j) : SameBinary(q, p)
      BY <1>4, <2>1
    <3>2. q \in SuiteBinaries[u] /\ q \in BinId
      BY <1>6, <3>1, BringsIs
    <3>3. SameBinary(n, q)
      BY <1>9, <1>11, <3>1 DEF SameBinary
    <3> QED  BY <1>6, <1>9, <1>11, <3>1, <3>2, <3>3 DEF SteadyArchive, Loaded
  <2>2. CASE j.arch = SourceItem
    BY <1>4, <1>6, <1>9, <1>11, <2>2, BringsIs
  <2> QED  BY <2>1, <2>2
<1>13. n \in After(M, cruft)
  BY <1>12 DEF After
<1>14. n # p
  BY <1>2, <1>13
<1>15. Bin[n].version > Bin[p].version
  BY <1>6, <1>9, <1>11, <1>14 DEF SteadyArchive, NothingOlder
<1>16. n \in NewerIn(u, p)
  BY <1>8, <1>11, <1>15, ArchiveAssumption DEF NewerIn
<1> QED  BY <1>9, <1>10, <1>11, <1>13, <1>16

LEMMA NamesAreNamed == FinderSpec => []NamedOK
<1>1. FinderInit => NamedOK
  BY DEF FinderInit, Init, NamedOK, Names, NoExcuses
<1>2. Inv /\ FinderOK /\ NamedOK /\ [FinderNext]_finder_vars => NamedOK'
  BY NamedStep
<1> QED  BY <1>1, <1>2, FinderAlwaysOK, PTL DEF FinderSpec

\* In an archive where nothing goes back, moves or gets lost, an item that
\* ImplicitDependencyPolicy rejects for good breaks an installable package of the
\* target suite, whichever of the other items and of the removals of cruft
\* migrate with it, whatever may be kept for a smooth update.
THEOREM BlockedForAReason ==
  ASSUME SteadyArchive
  PROVE  FinderSpec => []NotBlockedInVain
<1>1. NamedOK => NotBlockedInVain
  <2> SUFFICES ASSUME NamedOK, NEW i \in Names, ~i.removal, NEW a \in ArchsOf(i),
                      ImplicitDependencyPolicy(i, a, FALSE).verdict = REJECTED_PERMANENTLY,
                      NEW M \in SUBSET Names, i \in M, \A j, k \in M : j # k => j.package # k.package,
                      NEW cruft \in SUBSET {t \in TargetBinaries : IsCruft(t, TargetSources)}
               PROVE  ~Harmless(After(M, cruft))
    BY DEF NotBlockedInVain
  <2>1. SourceT(i) # NoSource
    BY WhyRejected
  <2>2. PICK t \in SourceT(i).binaries, p \in BinId :
          /\ Bin[t].arch = a /\ a \notin NewArches \cup BreakArches
          /\ ~IsCruft(t, TargetSources) /\ Successor(i, t) # t
          /\ Successor(i, t) = NoBin =>
               /\ Lookup(TargetBinaries, Bin[t].name, a) \notin SmoothAllowed
               /\ ~ /\ SourceT(i).version = SourceU(i).version
                    /\ ~IsPrimary(i)
                    /\ Bin[Lookup(TargetBinaries, Bin[t].name, a)].arch_all
          /\ \E d \in Bin[p].depends : t \in d
          /\ ~SkipReverseDependency(i, a, p)
          /\ BreaksInstallability(t, Successor(i, t), p)
          /\ \A m \in FindNewerBinaries(p) : m \in BinId /\ BreaksInstallability(t, Successor(i, t), m)
    BY WhyRejected
  <2>3. /\ p \in TargetBinaries /\ ~CanBeRemoved(p) /\ p \notin Uninstallable
        /\ <<Bin[p].name, a>> \notin AllowUninst
    BY <2>2 DEF SkipReverseDependency
  <2>4. PICK q \in BinId : q \in After(M, cruft) /\ SameBinary(q, p) /\ (q = p \/ q \in FindNewerBinaries(p))
    BY <2>2, <2>3, StaysOrNewer
  <2>5. BrokenIn(After(M, cruft), q)
    BY <2>1, <2>2, <2>4, BreaksAfter
  <2>6. Bin[q].name = Bin[p].name /\ Bin[q].arch = a
    <3>1. Bin[p].arch = a
      BY <2>2 DEF SteadyArchive, BinariesStay
    <3> QED  BY <2>4, <3>1 DEF SameBinary
  <2>7. Lookup(TargetBinaries, Bin[q].name, Bin[q].arch) = p
    <3>1. Lookup(TargetBinaries, Bin[p].name, Bin[p].arch) = p
      BY <2>2, <2>3, LookupIs, SourcesAre DEF SteadyArchive
    <3> QED  BY <2>4, <3>1 DEF SameBinary
  <2> QED  BY <2>2, <2>3, <2>4, <2>5, <2>6, <2>7 DEF Harmless
<1> QED  BY <1>1, NamesAreNamed, PTL

=============================================================================
