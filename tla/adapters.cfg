SPECIFICATION Spec
CONSTANTS
  a = a
  b = b
  c = c
  p = p
  q = q
  s1 = s1
  s2 = s2
  k1 = k1
  k2 = k2
  d1 = d1
  d2 = d2
  c1 = c1
  c2 = c2
  o1 = o1
  u1 = u1
  x1 = x1
  x2 = x2
SYMMETRY Symmetry
INVARIANTS TurnsKnown WithinLimits SignInsKept CatalogsShared
PROPERTIES ClaimsKept
CHECK_DEADLOCK FALSE
