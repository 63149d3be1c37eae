SPECIFICATION Spec
CONSTANTS
  i1 = i1  i2 = i2  i3 = i3  i4 = i4
  n1 = n1  n2 = n2  n3 = n3  n4 = n4  o1 = o1  o2 = o2  o3 = o3  bad = bad
  Package = {n1, n2, n3, n4, o1, o2, o3, bad}
  Archives <- MCArchives
  Items <- MCItems
  Rank <- MCRank
INVARIANT BrokenIsClosed
CHECK_DEADLOCK FALSE
