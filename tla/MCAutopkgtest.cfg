SPECIFICATION FairSpec
CONSTANTS
  Packages <- MCPackages
  Kernels = {}
  RDepends <- MCRDepends
  MoreTriggers <- MCMoreTriggers
  TestVersions <- MCTestVersions
  Configs <- MCConfigs
  Outcomes = {"PASS", "FAIL", "broken"}
  MaxVersion = 2
  MaxFaults = 1
INVARIANTS NeverUnknown BestResultWins OrphansExplained NotAskedTwice
PROPERTIES RegressionsHideBehindOldPasses AllAnswered
