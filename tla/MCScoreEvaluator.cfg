SPECIFICATION Spec
CONSTANTS
  s1 = s1
  s2 = s2
  s3 = s3
  n1 = n1
  n2 = n2
  Schedulers = {s1, s2, s3}
  Nodes = {n1, n2}
  NodesOf <- MCNodesOf
  Attempts = 1
  MaxScore = 2
  Limits = {3}
  CanFail = TRUE
  NoNode = NoNode
INVARIANTS
  PermitsAgree
  WinnerIsBest
  UnfiredIsCurrent
PROPERTY PunctualIsAnswered
CHECK_DEADLOCK FALSE
