CONSTANTS
  Clients = {c1, c2}
  size = 3
  Ids <- OneDevice
  Modes = {"regular"}
  Ops = {"mount", "get", "new", "put", "flush", "isbusy", "close"}
  Asks = {}
  MaxHolds = 1
SPECIFICATION Spec
PROPERTIES EveryCallReturns
\* After Close nothing happens any more.
CHECK_DEADLOCK FALSE
