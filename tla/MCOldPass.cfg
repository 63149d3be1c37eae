SPECIFICATION Spec
CONSTANTS
  Packages <- MCPackages
  Kernels = {}
  RDepends <- MCRDepends
  MoreTriggers <- MCMoreTriggers
  TestVersions <- MCTestVersions
  Configs <- MCDebciOnly
  Outcomes = {"PASS", "FAIL", "broken"}
  MaxVersion = 2
  MaxFaults = 1
PROPERTY RegressionsDoNotMigrate
