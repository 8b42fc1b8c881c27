SPECIFICATION Spec
CONSTANTS
  Clients = {c1, c2}
  Keys <- OneKey
  Requests <- CreateRequests
  MaxRev = 4
  None = None
SYMMETRY ClientSymmetry
INVARIANT CreateNeedsAbsence
