SPECIFICATION Spec
CONSTANTS
  a = a
  b = b
  one = one
  n1 = n1
  n2 = n2
  w = w
  x = x
  y = y
  z = z
  Nobody = Nobody
  None = None
SYMMETRY Symmetry
INVARIANTS  NavigationRight SettingsKept 
PROPERTIES LateAnswersLoseNothing
CHECK_DEADLOCK FALSE
