SPECIFICATION MCSpec
CONSTANTS
  a = a
  b = b
  c = c
  d = d
  u = u
  v = v
  None = None
  Requests = {a, b, c, d}
  Other = {d}
  Renewed = {}
  Big = {}
  Ttl = 2
  Lease = 2
  Backoff = 1
  MaxClaim = 1
  MaxExec = 1
  MaxRenewed = 1
  MaxMisses = 0
  MaxFaults = 2
  MaxTime = 5
SYMMETRY Symmetry
INVARIANTS NoOverlap OneResult WithdrawnOnce
PROPERTY SuccessKept
CHECK_DEADLOCK FALSE
