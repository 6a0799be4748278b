SPECIFICATION Spec
CONSTANTS
  r1 = r1
  r2 = r2
  s1 = s1
  s2 = s2
  c1 = c1
  d1 = d1
  Nil = Nil
PROPERTIES CapacityReturns PaymentsSettle 
CHECK_DEADLOCK FALSE
