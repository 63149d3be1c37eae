SPECIFICATION FinderSpec
CONSTANTS
  lib = lib  app = app  plug = plug  alt = alt  late = late  imp = imp
  gone = gone  nmu = nmu  stay = stay  tp = tp  amd64 = amd64  hurd = hurd  unstable = unstable  tpu = tpu
  lib1 = lib1  lib2 = lib2  app1 = app1  app2 = app2  plug1 = plug1  alt1 = alt1
  late1 = late1  imp1 = imp1  old1 = old1  gone1 = gone1  nmu1 = nmu1  nmu2 = nmu2
  stay1 = stay1  extra1 = extra1  libh = libh  doc2 = doc2
  tp1 = tp1  tp2 = tp2
  Source = {lib, app, plug, alt, late, imp, gone, nmu, stay, tp}
  Arch = {amd64, hurd}
  BinId = {lib1, lib2, libh, doc2, app1, app2, plug1, alt1, late1, imp1, old1, gone1, nmu1, nmu2, stay1, extra1, tp1, tp2}
  Suite = {unstable, tpu}
  PrimarySuite = unstable
  Bin <- MCBin
  TargetSources <- MCTargetSources
  TargetBinaries = {lib1, app1, gone1, nmu1, stay1, tp1}
  SuiteSources <- MCSuiteSources
  SuiteBinaries <- MCSuiteBinaries
  NoSource = NoSource
  NoBin = NoBin
  PackageRank <- MCPackageRank
  Broken = {libh}
  Uninstallable = {}
  NobreakallArches = {amd64}
  NewArches = {}
  BreakArches = {hurd}
  SmoothAllowed = {}
  AllowUninst = {}
  KeyPackages = {}
  RcBugs <- MCRcBugs
  TargetRcBugs = {}
  Piuparts <- MCPiuparts
  TargetPiuparts <- NoResults
  BuiltOnBuildd <- AllBuildd
  ArchOrder <- MCArchOrder
  OutOfSync = {hurd}
  IgnoreCruft = TRUE
  HintSets <- MCHintSets
  Judgements <- MCJudgements
  Name <- MCName
  Rank <- MCRank
  PackageId <- MCPackageId
  Impossible = Impossible
INVARIANTS NoneLostInVain LeftSupported InvalidatedOnce AssertsOnlyIfForced NeedsMet NotBlockedInVain
PROPERTIES FinderEnds ImplementsExcuses
CHECK_DEADLOCK FALSE
