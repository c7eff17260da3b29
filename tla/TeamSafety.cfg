CONSTANTS
  p1 = p1  p2 = p2  p3 = p3  n1 = n1
  Players = {p1, p2, p3}
  Npcs = {n1}
  None = None
  Orders <- MCOrders
  Requests <- MCRequests
  MAX_TEAMROWS = 3
  MAX_TEAM_ROWLEN = 2
  MAX_TEAM_MEMBERS = 3
  MaxGone = 1
SYMMETRY Symmetry
SPECIFICATION Spec
INVARIANTS TeamOK EveryoneInOneRow FirstRowHolds AssocsAgree
PROPERTIES RowsWithin OthersStay
CHECK_DEADLOCK FALSE
