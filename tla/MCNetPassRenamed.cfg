SPECIFICATION Spec

CONSTANTS
  None = None
  Slot = {0, 1}
  NeoName = {"neo"}
  TableOrders <- MCOrders
  Uptime = 9
  MaxTick = 2
  MaxChanges = 2
  MaxErrors = 1

INVARIANT NamesAreLatest
CHECK_DEADLOCK FALSE
