CONSTANTS
  unstable = unstable  tpu = tpu
  A = A  B = B  D = D  E = E
  app1 = app1  lib1at1 = lib1at1  b1 = b1  x1 = x1  c0 = c0  d1 = d1  e1 = e1  h1 = h1
  app2 = app2  lib2at2 = lib2at2  x2 = x2  b2 = b2  e2 = e2  h2 = h2  app3 = app3  n2 = n2
  app = app  lib1 = lib1  lib2 = lib2  x = x  b = b  c = c  d = d  e = e  h = h  n = n
  v = v  lib = lib  amd64 = amd64  i386 = i386
  NoSource = NoSource  NoBin = NoBin
  Source = {A, B, D, E}
  Arch = {amd64, i386}
  Key = {app, lib1, lib2, x, b, c, d, e, h, n}
  Virtual = {v, lib}
  BinId = {app1, lib1at1, b1, x1, c0, d1, e1, h1, app2, lib2at2, x2, b2, e2, h2, app3, n2}
  Bin <- MCBin
  ArchOf <- MCArchOf
  Suite = {unstable}
  PrimarySuite = unstable
  SuiteSources <- UnstableSources
  SuiteBinaries <- UnstableBinaries
  OutOfSync = {}
  SmoothAllowed = {lib1at1}
  InitialSources <- TestingSources
  InitialBinaries <- TestingBinaries
  UpgradeMe <- UnstableItems
  MaxUndo = 6
SPECIFICATION Spec
INVARIANTS TablesRestorable BinariesRestorable TablesAgree SourcePkgConsistency CandidatesDefined
PROPERTY SuiteIsNested
CHECK_DEADLOCK FALSE
