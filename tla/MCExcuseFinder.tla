--------------------------- MODULE MCExcuseFinder ---------------------------
(***************************************************************************)
(* A small archive for ExcuseFinder.  A new lib drops lib1 for lib2 and    *)
(* leaves lib1 behind in unstable; app moves from lib1 to lib2, plug needs *)
(* the new app or alt, and is built using lib; alt comes with an old tool  *)
(* that late needs, gone has left unstable, nmu is rebuilt against lib2,   *)
(* which stay does not like, and tp comes from an additional suite.  doc,  *)
(* which app brings for all architectures, needs the new lib, and lib is   *)
(* also built for hurd, a broken architecture, where nothing has what it   *)
(* needs.  imp needs extra, a new binary for all architectures of a source *)
(* that does not change: no excuse brings it.                              *)
(***************************************************************************)
EXTENDS ExcuseFinder, TLC

CONSTANTS lib, app, plug, alt, late, imp, gone, nmu, stay, tp, amd64, hurd, unstable, tpu,
  lib1, lib2, libh, doc2, app1, app2, plug1, alt1, late1, imp1, old1, gone1, nmu1, nmu2, stay1, extra1, tp1, tp2

Binary(name, version, source, source_version, depends) ==
  [name |-> name, version |-> version, source |-> source, source_version |-> source_version,
   arch |-> amd64, arch_all |-> FALSE, depends |-> depends, conflicts |-> {}, builtusing |-> {}]
MCBin ==
     lib1 :> Binary("lib1", 1, lib, 1, {})
  @@ lib2 :> Binary("lib2", 2, lib, 2, {})
  @@ libh :> [Binary("lib2", 2, lib, 2, {{}}) EXCEPT !.arch = hurd]
  @@ doc2 :> [Binary("doc", 2, app, 2, {{lib2}}) EXCEPT !.arch_all = TRUE]
  @@ app1 :> Binary("app", 1, app, 1, {{lib1}})
  @@ app2 :> Binary("app", 2, app, 2, {{lib2}})
  @@ plug1 :> [Binary("plug", 1, plug, 1, {{app2, alt1}}) EXCEPT !.builtusing = {<<lib, 2>>}]
  @@ alt1 :> Binary("alt", 1, alt, 1, {})
  @@ old1 :> Binary("old", 1, alt, 0, {})
  @@ late1 :> Binary("late", 1, late, 1, {{lib2}, {old1}, {tp2, plug1}})
  @@ imp1 :> Binary("imp", 1, imp, 1, {{nmu2}, {extra1}})
  @@ gone1 :> Binary("gone", 1, gone, 1, {{app1, app2}})
  @@ nmu1 :> Binary("nmu", 1, nmu, 1, {{lib1}})
  @@ nmu2 :> Binary("nmu", 2, nmu, 1, {{lib2}})
  @@ stay1 :> Binary("stay", 1, stay, 1, {{nmu1}})
  @@ extra1 :> [Binary("extra", 1, stay, 1, {}) EXCEPT !.arch_all = TRUE]
  @@ tp1 :> Binary("tp", 1, tp, 1, {})
  @@ tp2 :> Binary("tp", 2, tp, 2, {{late1}})

Src(version, bins) ==
  [version |-> version, binaries |-> bins, fakesrc |-> FALSE, main |-> TRUE]
Sources(some) == [s \in Source |-> IF s \in DOMAIN some THEN some[s] ELSE NoSource]

MCTargetSources ==
  Sources(lib :> Src(1, {lib1}) @@ app :> Src(1, {app1}) @@ gone :> Src(1, {gone1})
            @@ nmu :> Src(1, {nmu1}) @@ stay :> Src(1, {stay1}) @@ tp :> Src(1, {tp1}))
MCSuiteSources ==
  unstable :> Sources(lib :> Src(2, {lib1, lib2, libh}) @@ app :> Src(2, {app2, doc2}) @@ plug :> Src(1, {plug1})
                        @@ alt :> Src(1, {alt1, old1}) @@ late :> Src(1, {late1})
                        @@ imp :> Src(1, {imp1}) @@ nmu :> Src(1, {nmu2}) @@ stay :> Src(1, {stay1, extra1}) @@ tp :> Src(1, {tp1}))
  @@ tpu :> Sources(tp :> Src(2, {tp2}))
MCSuiteBinaries ==
  unstable :> {lib1, lib2, libh, app2, doc2, plug1, alt1, old1, late1, imp1, nmu2, stay1, extra1, tp1} @@ tpu :> {tp2}

MCSourceRank == [s \in Source |-> CASE s = lib -> 1 [] s = app -> 2 [] s = plug -> 3 [] s = alt -> 4
  [] s = late -> 5 [] s = imp -> 6 [] s = gone -> 7 [] s = nmu -> 8 [] s = tp -> 9 [] s = stay -> 10]
MCName == [package : Source, version : 0 .. 2, suite : {unstable, tpu, Target},
           arch : {amd64, hurd, SourceItem}, removal : BOOLEAN]
MCRank == [i \in MCName |->
  1000 * MCSourceRank[i.package] + 100 * i.version + (IF i.removal THEN 10 ELSE 0)
    + (IF i.arch = amd64 THEN 2 ELSE IF i.arch = hurd THEN 4 ELSE 0)
    + (IF i.suite = unstable THEN 0 ELSE 1) + (IF i.suite = Target THEN 20000 ELSE 0)]
MCPackageId == BinId \cup {SourceId(s, v) : s \in Source, v \in 0 .. 2}
MCArchOrder == <<amd64, hurd>>
MCPackageRank == [b \in BinId |-> MCSourceRank[MCBin[b].source] + MCBin[b].version]

Plain(type, s, v, u, removal) ==
  [type |-> type, package |-> s, version |-> v, suite |-> u, arch |-> SourceItem,
   removal |-> removal, ignored |-> {}]
\* The hints of a run: force hints for the excuse that needs the impossible and for
\* one that needs others, blocks of an update, of a removal and of everything new,
\* what lifts them, removals, and bugs and test results to ignore.
MCHints ==
  {Plain("force", imp, 1, unstable, FALSE), Plain("unblock", tp, 2, tpu, FALSE),
   Plain("remove", stay, 1, unstable, FALSE),
   Plain("ignore-piuparts", late, 1, unstable, FALSE)}
MCMoreHints ==
  {{Plain("force", plug, 1, unstable, FALSE), Plain("remove", app, 1, unstable, FALSE)},
   {[Plain("ignore-rc-bugs", app, 2, unstable, FALSE) EXCEPT !.ignored = {7, 8}],
    Plain("block-all", "new-source", 0, unstable, FALSE), Plain("unblock", plug, 1, unstable, FALSE)},
   {[Plain("ignore-rc-bugs", app, 2, unstable, FALSE) EXCEPT !.ignored = {7}],
    Plain("block", gone, 0, unstable, TRUE)}}
MCHintSets == {H \cup G : H \in SUBSET MCHints, G \in MCMoreHints}
MCJudgement(f) ==
  [i \in Name |-> [verdict |-> IF i.package \in DOMAIN f THEN f[i.package] ELSE PASS,
                   tests_pass |-> FALSE]]
MCJudgements ==
  {MCJudgement(lib :> v @@ alt :> w) : v \in {PASS, REJECTED_TEMPORARILY, REJECTED_PERMANENTLY},
                                       w \in {PASS, REJECTED_TEMPORARILY}}
MCRcBugs == {<<app, 7>>}
MCPiuparts == [s \in Source |-> IF s = late THEN "F" ELSE "P"]
NoResults == [s \in Source |-> "X"]
AllBuildd == [b \in BinId |-> "buildd"]

ASSUME SteadyArchive
=============================================================================
