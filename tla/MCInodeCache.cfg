CONSTANTS
  Clients = {c1, c2}
  size = 3
  Ids <- TwoDevices
  Modes = {"regular"}
  Ops = {"mount", "get", "new", "put", "flush", "isbusy", "putnil", "close"}
  Asks = {}
  MaxHolds = 2
SPECIFICATION Spec
SYMMETRY ClientSymmetry
INVARIANTS TypeOK CountIsUsers HeldInodeReady ChangesAreSaved
PROPERTIES ImplementsOpenInodes
\* After Close nothing happens any more.
CHECK_DEADLOCK FALSE
