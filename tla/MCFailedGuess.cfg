SPECIFICATION Spec
CONSTANTS
  E = E
  a = a
  b = b
  d = d
  m = m
  n = n
  x = x
  z = z
  z2 = z2
  t = t
  p = p
  q = q
  r = r
  v = v
  p2 = p2
  p3 = p3
  q2 = q2
  q3 = q3
  NoEssential = NoEssential
  Package = {p, q, r, v, p2, p3, q2, q3, t}
  Dependencies <- GuessDependencies
  Conflicts <- GuessConflicts
  Equivalents <- EachAlone
  Essential = {}
  Broken = {}
  InitialSuite = {p, q, r, v, p2, p3, q2, q3, t}
  Removable = {}

INVARIANT YesIsRight
CHECK_DEADLOCK FALSE
