------------------------- MODULE MCMigrationManager -------------------------
(***************************************************************************)
(* Archives for MigrationManager.  In unstable, A/2 drops the library lib1 *)
(* for lib2 and takes the binaries x and h over from B and E, whose lists  *)
(* still name them, as the suite loader leaves them; D is gone; E was      *)
(* rebuilt on i386 only; c is cruft of B.  In the second archive an        *)
(* additional suite (tpu) holds A/2, with x, while unstable holds A/3      *)
(* without.                                                                *)
(***************************************************************************)
EXTENDS MigrationManager

CONSTANTS unstable, tpu, A, B, D, E,
          app1, lib1at1, b1, x1, c0, d1, e1, h1,
          app2, lib2at2, x2, b2, e2, h2, app3, n2,
          app, lib1, lib2, x, b, c, d, e, h, n, v, lib, amd64, i386

LOCAL Package(k, ver, src, srcver, provides) ==
  [key |-> k, version |-> ver, source |-> src, source_version |-> srcver,
   provides |-> provides, arch_all |-> FALSE]

MCBin ==
  [p \in BinId |->
     CASE p = app1  -> Package(app, 1, A, 1, {})
       [] p = lib1at1 -> Package(lib1, 1, A, 1, {<<lib, 1>>})
       [] p = b1    -> Package(b, 1, B, 1, {})
       [] p = x1    -> Package(x, 1, B, 1, {<<v, 1>>})
       [] p = c0    -> Package(c, 0, B, 0, {<<v, 1>>})
       [] p = d1    -> Package(d, 1, D, 1, {<<v, 1>>})
       [] p = e1    -> Package(e, 1, E, 1, {<<lib, 1>>})
       [] p = h1    -> Package(h, 1, E, 1, {})
       [] p = app2  -> Package(app, 2, A, 2, {<<v, 2>>})
       [] p = lib2at2 -> Package(lib2, 2, A, 2, {<<lib, 2>>})
       [] p = x2    -> Package(x, 2, A, 2, {})
       [] p = b2    -> Package(b, 2, B, 2, {})
       [] p = e2    -> Package(e, 2, E, 1, {})
       [] p = h2    -> Package(h, 2, A, 2, {<<v, 2>>})
       [] p = app3  -> Package(app, 3, A, 3, {})
       [] p = n2    -> Package(n, 2, A, 2, {<<v, 1>>})]

MCArchOf == [k \in Key |-> IF k \in {e, h} THEN i386 ELSE amd64]

LOCAL Src(ver, bins) == [version |-> ver, binaries |-> bins]

\* The first archive: one source suite.
UnstableSources ==
  [s \in Suite |-> [p \in Source |-> CASE p = A -> Src(2, {app2, lib2at2, x2, h2})
                                       [] p = B -> Src(2, {b2, x2})
                                       [] p = E -> Src(1, {e2, h2})
                                       [] OTHER -> NoSource]]

Filed(bins) == [k \in Key |-> IF \E p \in bins : MCBin[p].key = k
                              THEN CHOOSE p \in bins : MCBin[p].key = k ELSE NoBin]

UnstableBinaries == [s \in Suite |-> Filed({app2, lib2at2, x2, b2, e2, h2})]

TestingSources ==
  [p \in Source |-> CASE p = A -> Src(1, {app1, lib1at1})
                      [] p = B -> Src(1, {b1, x1, c0})
                      [] p = D -> Src(1, {d1})
                      [] p = E -> Src(1, {e1, h1})]

TestingBinaries == Filed({app1, lib1at1, b1, x1, c0, d1, e1, h1})

Update(p, arch, suite) == [kind |-> "update", package |-> p, arch |-> arch, suite |-> suite]
Removal(p) == [kind |-> "remove_source", package |-> p]

UnstableItems == {Update(A, SourceItem, unstable), Update(B, SourceItem, unstable),
                  Update(E, i386, unstable), Removal(D)}

\* The second archive: two source suites.
TwoSuitesSources ==
  [s \in Suite |-> [p \in Source |->
     CASE p = A /\ s = tpu      -> Src(2, {app2, x2, n2})
       [] p = A /\ s = unstable -> Src(3, {app3})
       [] p = B /\ s = unstable -> Src(2, {b2})
       [] OTHER                 -> NoSource]]

TwoSuitesBinaries ==
  [s \in Suite |-> IF s = tpu THEN Filed({app2, x2, n2}) ELSE Filed({app3, b2})]

TwoSuitesTestingSources ==
  [p \in Source |-> CASE p = A -> Src(1, {app1})
                      [] p = B -> Src(1, {b1, x1})
                      [] OTHER -> NoSource]
TwoSuitesTestingBinaries == Filed({app1, b1, x1})

TwoSuitesItems == {Update(A, SourceItem, tpu), Update(A, SourceItem, unstable),
                   Update(B, SourceItem, unstable)}

=============================================================================
