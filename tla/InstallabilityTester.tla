------------------------- MODULE InstallabilityTester -------------------------
(***************************************************************************)
(* The installability tester: class InstallabilityTester of                *)
(* britney2/installability/tester.py, over the read-only universe of       *)
(* package relations (universe.py).                                        *)
(*                                                                         *)
(* The target suite gains and loses binaries; between these changes the    *)
(* tester is asked whether a package is installable.  It answers from its  *)
(* caches or by a backtracking search, whose every step may fill a cache.  *)
(* The search iterates over Python sets, so each choice of a next element  *)
(* is nondeterministic.                                                    *)
(*                                                                         *)
(* Abstracted: one architecture (the relations of a package stay within    *)
(* its own, and the essential set is cached for each), and statistics.     *)
(***************************************************************************)
EXTENDS Naturals, Sequences, FiniteSets

CONSTANTS
  Package,       \* the universe: binary packages
  Dependencies,  \* the clauses of a package, each the set of its alternatives
  Conflicts,     \* negative dependencies, with the reverse ones merged in
  Equivalents,   \* packages_equivalent_to, a package itself included
  Essential,     \* essential_packages
  Broken,        \* broken_packages: never installable, their relations nulled
  InitialSuite,  \* the target suite as it was loaded
  Removable,     \* packages that migrations remove
  NoEssential    \* no pseudo-essential set is cached

ASSUME UniverseAssumption ==
  /\ IsFiniteSet(Package)
  /\ Dependencies \in [Package -> SUBSET SUBSET Package]
  /\ Conflicts \in [Package -> SUBSET Package]
  /\ Equivalents \in [Package -> SUBSET Package]
  /\ Essential \cup Broken \cup InitialSuite \cup Removable \subseteq Package

\* What the builder leaves in the universe.
ASSUME BuilderAssumption ==
  /\ \A p, q \in Package : q \in Conflicts[p] => p # q /\ p \in Conflicts[q]
  /\ \A p, q \in Package : q \in Equivalents[p] =>
       /\ Equivalents[p] = Equivalents[q] /\ p \in Equivalents[p]
       /\ Dependencies[p] = Dependencies[q] /\ Conflicts[p] = Conflicts[q]
       /\ \A r \in Package : \A clause \in Dependencies[r] : p \in clause <=> q \in clause
  /\ \A b \in Broken : Dependencies[b] = {{}} /\ Conflicts[b] = {}
  /\ \A p \in Package : Broken \cap UNION Dependencies[p] = {}

VARIABLES
  suite,           \* the binaries of the target suite
  suite_contents,  \* what the tester takes to be there
  cache_broken, cache_inst, cache_ess,
  call,            \* the method under way
  pc,              \* where in _check_inst
  frames,          \* the recursive calls of _check_inst
  loop,            \* the _check_loop under way
  answer           \* of the last is_installable, until the suite changes

caches == <<cache_broken, cache_inst, cache_ess>>
search == <<call, pc, frames, loop>>
vars == <<suite, suite_contents, caches, search, answer>>

NoCall == [method |-> "none"]
NoLoop == [check |-> {}]
NoAnswer == [of |-> {}, verdict |-> TRUE]
Idle == pc = "idle"

reverse_dependencies(p) == {q \in Package : p \in UNION Dependencies[q]}

\* _cache_essential_transitive_dependencies
EssentialClosure ==
  LET Closed(S) == \A p \in S : UNION Dependencies[p] \subseteq S
  IN  CHOOSE S \in SUBSET Package :
        /\ Essential \subseteq S /\ Closed(S)
        /\ \A T \in SUBSET Package : Essential \subseteq T /\ Closed(T) => S \subseteq T

(***************************************************************************)
(* The suite changes: add_binary and remove_binary.                        *)
(***************************************************************************)

\* Mutant: known broken packages are not tried again.
ContentsWithKept(p) == suite_contents \cup {p}

\* Packages taken to be broken may be installable now.
ContentsWith(p) == suite_contents \cup {p} \cup cache_broken

\* The package may become an alternative for the essential set.
EssentialWith(p) == IF p \in EssentialClosure THEN NoEssential ELSE cache_ess

\* (nothing adds a binary that is there: a replaced one is removed first)
add_binary(p) ==
  /\ Idle /\ call = NoCall /\ p \notin suite
  /\ suite' = suite \cup {p}
  /\ IF p \in Broken THEN suite_contents' = suite_contents \cup {p} /\ UNCHANGED caches
     ELSE /\ suite_contents' = ContentsWith(p)
          /\ cache_inst' = {} /\ cache_broken' = {}
          /\ cache_ess' = EssentialWith(p)
  /\ answer' = NoAnswer
  /\ UNCHANGED search

\* Mutant: the cache is kept although it holds the package.
InstWithoutKept(p) == cache_inst

InstWithout(p) ==
  IF reverse_dependencies(p) # {} /\ p \notin Broken /\ p \in cache_inst THEN {} ELSE cache_inst

remove_binary(p) ==
  /\ Idle /\ call = NoCall /\ p \in suite
  /\ suite' = suite \ {p}
  /\ cache_broken' = cache_broken \ {p}
  /\ IF p \in suite_contents
     THEN /\ suite_contents' = suite_contents \ {p}
          /\ cache_ess' = IF cache_ess # NoEssential /\ p \in cache_ess.start THEN NoEssential
                          ELSE cache_ess
          /\ cache_inst' = InstWithout(p)
     ELSE UNCHANGED <<suite_contents, cache_ess, cache_inst>>
  /\ answer' = NoAnswer
  /\ UNCHANGED search

(***************************************************************************)
(* Calls and their returns.                                                *)
(***************************************************************************)

Frame(musts, never, choices, check) ==
  [musts |-> musts, never |-> never, choices |-> choices, check |-> check,
   rebuild |-> {}, options |-> {}, last |-> {}, tried |-> {}]

Loop(musts, never, choices, check) ==
  [musts |-> musts, never |-> never, choices |-> choices, check |-> check,
   cur |-> {}, dependencies |-> {}, failed |-> FALSE]

LoopOf(f) == Loop(f.musts, f.never, f.choices, f.check)

\* _check_inst(t) begins; without a pseudo-essential set, it computes one.
Begin(t) ==
  IF cache_ess = NoEssential
  THEN LET base == Essential \cap suite_contents
       IN  /\ pc' = "essential" /\ loop' = Loop(base, {}, {}, base)
           /\ frames' = <<Frame({t}, {}, {}, {t})>>
  ELSE pc' = "enter" /\ loop' = NoLoop /\ frames' = <<Frame({t}, {}, {}, {t})>>

is_installable(t) ==
  /\ Idle /\ call = NoCall /\ t \in suite
  /\ IF t \notin suite_contents \/ t \in Broken \/ t \in cache_inst
     THEN /\ answer' = [of |-> {t}, verdict |-> t \in suite_contents \ Broken]
          /\ UNCHANGED search
     ELSE /\ call' = [method |-> "is_installable", t |-> t]
          /\ answer' = NoAnswer
          /\ Begin(t)
  /\ UNCHANGED <<suite, suite_contents, caches>>

compute_installability ==
  /\ Idle /\ call = NoCall
  /\ call' = [method |-> "compute", tcopy |-> suite_contents]
  /\ answer' = NoAnswer
  /\ UNCHANGED <<suite, suite_contents, caches, pc, frames, loop>>

ComputeNext ==
  /\ Idle /\ call # NoCall
  /\ LET left == call.tcopy \ (cache_inst \cup cache_broken)
     IN  IF left = {} THEN call' = NoCall /\ UNCHANGED <<pc, frames, loop>>
         ELSE \E t \in left :
                call' = [method |-> "compute", tcopy |-> left \ {t}, t |-> t] /\ Begin(t)
  /\ UNCHANGED <<suite, suite_contents, caches, answer>>

\* _check_inst returns to is_installable or to compute_installability, which
\* extends the verdict to equivalent packages.
Return(verdict, contents, broken, inst) ==
  LET eqv == IF call.method = "compute" /\ Cardinality(Equivalents[call.t]) > 1
             THEN Equivalents[call.t] \cap contents ELSE {}
  IN  /\ pc' = "idle" /\ frames' = <<>> /\ loop' = NoLoop
      /\ suite_contents' = IF verdict THEN contents ELSE contents \ eqv
      /\ cache_broken' = IF verdict THEN broken ELSE broken \cup eqv
      /\ cache_inst' = IF verdict THEN inst \cup eqv ELSE inst
      /\ IF call.method = "compute" THEN UNCHANGED <<call, answer>>
         ELSE call' = NoCall /\ answer' = [of |-> {call.t}, verdict |-> verdict]

(***************************************************************************)
(* _check_loop: finds what is certain to follow from the packages of       *)
(* check.  It works on musts, never and choices of its caller: the         *)
(* essential set, a frame of _check_inst, or a tentative choice.           *)
(***************************************************************************)

InLoop == pc \in {"essential", "main", "try"}

\* Of equivalent candidates only one is kept.
Representatives(candidates) ==
  {r \in SUBSET candidates :
     \A p \in candidates : Cardinality(r \cap Equivalents[p]) = 1}

Unsatisfied(clauses, musts) == {c \in clauses : c \cap musts = {}}

CheckPackage ==
  /\ InLoop /\ ~loop.failed /\ loop.dependencies = {}
  /\ \E cur \in loop.check :
       loop' = IF Conflicts[cur] # {} /\ cur \in loop.never
               THEN [loop EXCEPT !.check = @ \ {cur}, !.failed = TRUE]
               ELSE [loop EXCEPT !.check = @ \ {cur}, !.cur = {cur},
                                 !.never = @ \cup (Conflicts[cur] \cap suite_contents),
                                 !.dependencies = Unsatisfied(Dependencies[cur], loop.musts)]
  /\ UNCHANGED <<suite, suite_contents, caches, call, pc, frames, answer>>

\* Mutant: a clause that only conflicts make unsatisfiable counts as well.
IsBrokenHastily(clause) == loop.cur \cap cache_broken = {}

\* The clause could not be satisfied even if never were empty.
IsBroken(clause) == loop.cur \cap cache_broken = {} /\ clause \cap loop.never = {}

\* set.remove raises a KeyError if the package is not in the suite.
MarkBroken ==
  /\ cache_broken' = cache_broken \cup loop.cur
  /\ suite_contents' = suite_contents \ loop.cur
  /\ pc' = IF loop.cur \subseteq suite_contents THEN pc ELSE "KeyError"

CheckDependency ==
  /\ InLoop /\ ~loop.failed
  /\ \E clause \in loop.dependencies :
       LET candidates == (clause \cap suite_contents) \ loop.never
       IN  IF candidates = {}
           THEN /\ loop' = [loop EXCEPT !.dependencies = {}, !.failed = TRUE]
                /\ IF IsBroken(clause) THEN MarkBroken
                   ELSE UNCHANGED <<cache_broken, suite_contents, pc>>
           ELSE /\ \E chosen \in Representatives(candidates) :
                     loop' = IF Cardinality(chosen) = 1
                             THEN [loop EXCEPT
                                     !.check = @ \cup chosen, !.musts = @ \cup chosen,
                                     !.dependencies = Unsatisfied(@ \ {clause}, loop.musts \cup chosen)]
                             ELSE [loop EXCEPT !.choices = @ \cup {chosen},
                                               !.dependencies = @ \ {clause}]
                /\ UNCHANGED <<cache_broken, suite_contents, pc>>
  /\ UNCHANGED <<suite, cache_inst, cache_ess, call, frames, answer>>

LoopEnded == loop.failed \/ (loop.check = {} /\ loop.dependencies = {})

(***************************************************************************)
(* _get_min_pseudo_ess_set and the start of _check_inst.                   *)
(***************************************************************************)

\* A choice is settled if an alternative needs nothing new and conflicts with
\* nothing new; the alternative is checked, but not added to the set.
Settles(c) ==
  Conflicts[c] \subseteq loop.never /\ Unsatisfied(Dependencies[c], loop.musts) = {}

EssentialLoopEnds ==
  /\ pc = "essential" /\ LoopEnded
  /\ LET left == Unsatisfied(loop.choices, loop.musts)
         settled == {choice \in left : \E c \in choice : Settles(c)}
     IN  \E picked \in [settled -> Package] :
           /\ \A choice \in settled : picked[choice] \in choice /\ Settles(picked[choice])
           /\ LET base == loop.check \cup {picked[choice] : choice \in settled}
              IN  IF loop.choices # {} /\ base # {}
                  THEN /\ loop' = Loop(loop.musts, loop.never, left \ settled, base)
                       /\ UNCHANGED <<pc, cache_ess>>
                  ELSE /\ cache_ess' = [start |-> loop.musts,
                                        never |-> loop.never \cup UNION {Conflicts[p] : p \in loop.musts},
                                        choices |-> left \ settled]
                       /\ pc' = "enter" /\ loop' = NoLoop
  /\ UNCHANGED <<suite, suite_contents, cache_broken, cache_inst, call, frames, answer>>

Enter ==
  /\ pc = "enter"
  /\ IF call.t \in cache_ess.never
     THEN IF call.t \in suite_contents
          THEN Return(FALSE, suite_contents \ {call.t}, cache_broken \cup {call.t}, cache_inst)
          ELSE /\ pc' = "KeyError" /\ cache_broken' = cache_broken \cup {call.t}
               /\ UNCHANGED <<suite_contents, cache_inst, call, frames, loop, answer>>
     ELSE LET f == Frame({call.t} \cup cache_ess.start, cache_ess.never, cache_ess.choices, {call.t})
          IN  /\ frames' = <<f>> /\ pc' = "main" /\ loop' = LoopOf(f)
              /\ UNCHANGED <<suite_contents, cache_broken, cache_inst, call, answer>>
  /\ UNCHANGED <<suite, cache_ess>>

(***************************************************************************)
(* _check_inst: what follows for certain, then the choices left.           *)
(***************************************************************************)

Top == frames[Len(frames)]
WithTop(f) == [frames EXCEPT ![Len(frames)] = f]

\* A frame that finds its package installable makes all its callers return
\* True; one that does not takes its caller on to the next option.
Succeed(musts) == Return(TRUE, suite_contents, cache_broken, cache_inst \cup musts)

NeverAgain(f) == f.never \cup f.tried

Fail ==
  IF Len(frames) = 1 THEN Return(FALSE, suite_contents, cache_broken, cache_inst)
  ELSE LET caller == frames[Len(frames) - 1]
       IN  /\ frames' = [SubSeq(frames, 1, Len(frames) - 1) EXCEPT
                           ![Len(frames) - 1].never = NeverAgain(caller)]
           /\ pc' = "options" /\ loop' = NoLoop
           /\ UNCHANGED <<suite_contents, cache_broken, cache_inst, call, answer>>

MainLoopEnds ==
  /\ pc = "main" /\ LoopEnded
  /\ IF loop.failed THEN Fail
     ELSE IF loop.choices = {} THEN Succeed(loop.musts)
     ELSE /\ frames' = WithTop(Frame(loop.musts, loop.never, loop.choices, {}))
          /\ pc' = "prune" /\ loop' = NoLoop
          /\ UNCHANGED <<suite_contents, cache_broken, cache_inst, call, answer>>
  /\ UNCHANGED <<suite, cache_ess>>

\* A choice that musts satisfies is gone, one with a single alternative left is
\* made, any other is still deferred.
WithoutChoice(f, choice, remain) ==
  IF choice \cap f.musts # {} THEN [f EXCEPT !.choices = @ \ {choice}]
  ELSE IF Cardinality(remain) = 1
  THEN [f EXCEPT !.choices = @ \ {choice}, !.check = @ \cup remain, !.musts = @ \cup remain]
  ELSE [f EXCEPT !.choices = @ \ {choice}, !.rebuild = @ \cup {remain}]

\* _prune_choices, one choice after the other.
Prune ==
  /\ pc = "prune"
  /\ \E choice \in Top.choices :
       LET remain == (choice \ Top.never) \ cache_broken
       IN  IF choice \cap Top.musts = {} /\ remain = {} THEN Fail
           ELSE /\ frames' = WithTop(WithoutChoice(Top, choice, remain))
                /\ UNCHANGED <<suite_contents, cache_broken, cache_inst, call, pc, loop, answer>>
  /\ UNCHANGED <<suite, cache_ess>>

Pruned ==
  /\ pc = "prune" /\ Top.choices = {}
  /\ LET f == Frame(Top.musts, Top.never, Top.rebuild, Top.check)
     IN  IF f.check = {} /\ f.choices = {} THEN Succeed(f.musts)
         ELSE /\ frames' = WithTop(f)
              /\ IF f.check = {} THEN pc' = "resolve" /\ loop' = NoLoop
                 ELSE pc' = "main" /\ loop' = LoopOf(f)
              /\ UNCHANGED <<suite_contents, cache_broken, cache_inst, call, answer>>
  /\ UNCHANGED <<suite, cache_ess>>

(***************************************************************************)
(* resolve_choices: guesses, one choice at a time.                         *)
(***************************************************************************)

ResolveChoice ==
  /\ pc = "resolve"
  /\ IF Top.choices = {} THEN Succeed(Top.musts)
     ELSE /\ \E choice \in Top.choices : \E last \in choice :
               frames' = WithTop([Top EXCEPT !.choices = @ \ {choice},
                                             !.options = choice \ {last}, !.last = {last}])
          /\ pc' = "options"
          /\ UNCHANGED <<loop, call, answer, suite_contents, cache_broken, cache_inst>>
  /\ UNCHANGED <<suite, cache_ess>>

\* Mutant: the option tried stays an option.
OptionsLeftUnpicked(options, p) == options

OptionsLeft(options, p) == options \ {p}

\* Without an option left, the last one is taken without a way back.
TryOption ==
  /\ pc = "options"
  /\ IF Top.options = {}
     THEN LET f == Frame(Top.musts \cup Top.last, Top.never, Top.choices, Top.last)
          IN  frames' = WithTop(f) /\ pc' = "main" /\ loop' = LoopOf(f)
     ELSE \E p \in Top.options :
            /\ frames' = WithTop([Top EXCEPT !.options = OptionsLeft(@, p), !.tried = {p}])
            /\ pc' = "try"
            /\ loop' = Loop(Top.musts \cup {p}, {}, {}, {p})
  /\ UNCHANGED <<suite, suite_contents, caches, call, answer>>

\* Mutant: new conflicts do not keep an option from being picked for good.
WithoutConsequencesHastily == loop.choices \subseteq Top.choices

WithoutConsequences == loop.never \subseteq Top.never /\ loop.choices \subseteq Top.choices

\* The option is no good, has no consequences, is certain to fail, or is tried
\* in a recursive call.
TryLoopEnds ==
  /\ pc = "try" /\ LoopEnded
  /\ IF loop.failed
     THEN pc' = "options" /\ loop' = NoLoop /\ UNCHANGED frames
     ELSE IF WithoutConsequences
     THEN /\ frames' = WithTop(Frame(Top.musts \cup loop.musts, Top.never, Top.choices, {}))
          /\ pc' = "resolve" /\ loop' = NoLoop
     ELSE IF Top.musts \cap loop.never # {}
     THEN pc' = "options" /\ loop' = NoLoop /\ UNCHANGED frames
     ELSE LET f == Frame(loop.musts, loop.never \cup Top.never, loop.choices \cup Top.choices, Top.tried)
          IN  frames' = Append(frames, f) /\ pc' = "main" /\ loop' = LoopOf(f)
  /\ UNCHANGED <<suite, suite_contents, caches, call, answer>>

(***************************************************************************)
(* The specification.                                                      *)
(***************************************************************************)

Init ==
  /\ suite = InitialSuite /\ suite_contents = InitialSuite
  /\ cache_broken = {} /\ cache_inst = {} /\ cache_ess = NoEssential
  /\ call = NoCall /\ pc = "idle" /\ frames = <<>> /\ loop = NoLoop
  /\ answer = NoAnswer

Step ==
  \/ ComputeNext \/ Enter
  \/ CheckPackage \/ CheckDependency \/ EssentialLoopEnds \/ MainLoopEnds
  \/ Prune \/ Pruned \/ ResolveChoice \/ TryOption \/ TryLoopEnds

Next ==
  \/ \E p \in Package : add_binary(p) \/ is_installable(p)
  \/ \E p \in Removable : remove_binary(p)
  \/ compute_installability
  \/ Step

\* A call goes on until it returns: the program has one thread.
Spec == Init /\ [][Next]_vars /\ WF_vars(Step)

(***************************************************************************)
(* Properties.                                                             *)
(***************************************************************************)

LoopType ==
  [musts : SUBSET Package, never : SUBSET Package, choices : SUBSET SUBSET Package,
   check : SUBSET Package, cur : SUBSET Package, dependencies : SUBSET SUBSET Package,
   failed : BOOLEAN]

FrameType ==
  [musts : SUBSET Package, never : SUBSET Package, choices : SUBSET SUBSET Package,
   check : SUBSET Package, rebuild : SUBSET SUBSET Package, options : SUBSET Package,
   last : SUBSET Package, tried : SUBSET Package]

EssentialType ==
  [start : SUBSET Package, never : SUBSET Package, choices : SUBSET SUBSET Package]

\* The calls that check a package.
CheckType == [method : {"is_installable"}, t : Package]
               \cup [method : {"compute"}, tcopy : SUBSET Package, t : Package]

\* Every part of the state keeps its type.
TypeOK ==
  /\ suite \in SUBSET Package /\ suite_contents \in SUBSET Package
  /\ cache_broken \in SUBSET Package /\ cache_inst \in SUBSET Package
  /\ cache_ess = NoEssential \/ cache_ess \in EssentialType
  /\ \/ call = NoCall \/ call \in CheckType
     \/ call \in [method : {"compute"}, tcopy : SUBSET Package]
  /\ pc \in {"idle", "essential", "enter", "main", "prune", "resolve", "options", "try", "KeyError"}
  /\ frames \in Seq(FrameType)
  /\ loop = NoLoop \/ loop \in LoopType
  /\ answer \in [of : SUBSET Package, verdict : BOOLEAN]

\* What installable means: with all essential packages of the suite, every
\* dependency satisfied within the suite and no two packages in conflict.
Consistent(S) ==
  \A p \in S : Conflicts[p] \cap S = {} /\ Unsatisfied(Dependencies[p], S) = {}

\* (a set that TLC enumerates once)
Consistents == {W \cup {} : W \in {S \in SUBSET Package : Consistent(S)}}
Solutions(S) == {W \in Consistents : W \subseteq S /\ Essential \cap S \subseteq W}
Installable(S) == UNION Solutions(S)

\* Without it nothing is installable in this sense.
EssentialsInstallable == Solutions(suite) # {}

\* A yes is right: who is said to be installable, now or from the cache, is,
\* whatever was asked, added and removed before, and in whatever order the sets
\* are walked ("Returns True iff the package is installable").
YesIsRight ==
  EssentialsInstallable =>
    /\ \A p \in answer.of : answer.verdict => p \in Installable(suite)
    /\ cache_inst \cap suite \subseteq Installable(suite)

\* A no is right, and so is what later ones rest on, even half way through a
\* search: no package said or taken to be broken is installable, and the cached
\* essential set "will always follow" (comment on _cache_ess), be it by an
\* equivalent package, while what it excludes never does.
NoIsRight ==
  /\ \A p \in answer.of : ~answer.verdict => p \notin Installable(suite)
  /\ cache_broken \cap Installable(suite) = {}
  /\ cache_ess # NoEssential =>
       \A W \in Solutions(suite) :
         /\ \A p \in cache_ess.start : ({p} \cup Equivalents[p]) \cap W # {}
         /\ cache_ess.never \cap W = {}

\* The tester loses no package of the suite but those it takes to be broken,
\* so that a later addition can bring them back.
ContentsInSync ==
  pc # "KeyError" => cache_broken \subseteq suite /\ suite_contents = suite \ cache_broken

\* Every search and every sweep over the suite comes to its end, and not in a
\* KeyError of suite_contents.remove.
Returns == call # NoCall ~> call = NoCall

==============================================================================
