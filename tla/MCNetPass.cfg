SPECIFICATION Spec

CONSTANTS
  None = None
  Slot = {0, 1}
  NeoName = {"neo"}
  TableOrders <- MCOrders
  Uptime = 9
  MaxTick = 2
  MaxChanges = 3
  MaxErrors = 1

INVARIANT TypeOK
INVARIANT HoldersRight
INVARIANT RowsAreConnections
INVARIANT LateJoinersKnown
INVARIANT NeoNamesTheirOwn
INVARIANT CvarsAsServed
CHECK_DEADLOCK FALSE
