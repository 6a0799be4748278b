SPECIFICATION MCSpec
CONSTANTS
  h = h
  one = one
  a = a
  b = b
  None = None
  Webhooks = {h}
  Clerks = {one}
  Jobs = {"refund"}
  Amount = 2
  Faults = 1
  Crashes = 1
SYMMETRY Symmetry
INVARIANTS CreditedOnce  PanelsTruthful 
PROPERTY OrderOnlyAdvances
CHECK_DEADLOCK FALSE
