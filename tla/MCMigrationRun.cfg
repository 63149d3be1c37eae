CONSTANTS
  A = A  B = B  C = C  M = M  T = T  lib = lib  old = old  O = O
  amd64 = amd64  mips = mips  mipsel = mipsel
  p = p  q = q  r = r  s = s  t = t  m = m
  Arch = {amd64, mips, mipsel}
  Package = {p, q, r, s, t, m}
  Item = {A, B, C, M, T, lib, old, O}
  ArchOf <- MCArchOf
  Uninst <- MCUninst
  AllowUninst <- MCAllowUninst
  KeepInstallable = {s}
  Within <- SameName
  UpgradeMe = {A, B, C, M, T}
  NewCruft <- MCNewCruft
  OldCruft = {old}
  Obsolete = {O}
  Excludes <- MCExcludes
  Setup <- MCSetup
SPECIFICATION Spec
INVARIANTS ItemsOnce NuninstIsCorrect SelectedIsApplied NothingLost GivesUpLast NeverStuck
PROPERTIES NeverRegresses Terminates
CHECK_DEADLOCK FALSE
