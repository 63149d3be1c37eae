SPECIFICATION Spec
CONSTANTS
  E = E
  a = a
  b = b
  d = d
  m = m
  n = n
  x = x
  z = z
  z2 = z2
  t = t
  p = p
  q = q
  r = r
  v = v
  p2 = p2
  p3 = p3
  q2 = q2
  q3 = q3
  NoEssential = NoEssential
  Package = {E, a, b, d, m, n, x, z, z2, p, q}
  Dependencies <- MixedDependencies
  Conflicts <- MixedConflicts
  Equivalents <- EquivalentPair
  Essential = {E}
  Broken = {}
  InitialSuite = {E, a, d, m, n, x, z, z2, p, q}
  Removable = {d, z, z2}

INVARIANTS YesIsRight NoIsRight ContentsInSync
PROPERTY Returns
CHECK_DEADLOCK FALSE
