SPECIFICATION Spec
CONSTANTS
  Tabs = {t1, t2}
  Users = {alice}
  Nobody = nobody
  MaxPairs = 4
  Worlds <- MCWorlds
SYMMETRY Symmetry
INVARIANTS SessionSurvives 
PROPERTIES LoggedOutStaysOut
CHECK_DEADLOCK FALSE
