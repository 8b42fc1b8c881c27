SPECIFICATION Spec
CONSTANTS
  Clients = {c1, c2}
  Keys <- OneKey
  Requests <- ListRequests
  MaxRev = 4
  None = None
SYMMETRY ClientSymmetry
INVARIANT RangeIsSnapshot
