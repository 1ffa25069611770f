\* Three clients, two buffers, blocks that are not in the cache: every get
\* evicts a buffer, or finds all of them in use.
CONSTANTS
  Clients = {c1, c2, c3}
  numslots = 2
  numhash = 4
  Devices = {0}
  Numbers = {1, 2, 3}
  Values = {0}
  Modes = {"NORMAL"}
  Flags = {"none", "ONE_SHOT"}
  Ops = {"mount", "get", "put"}
  Asks = {}
  MaxHits = 0
SPECIFICATION Spec
SYMMETRY ClientSymmetry
INVARIANTS TypeOK  FailsOnlyIfAllInUse
PROPERTIES ImplementsLRUPool
\* A panic takes the process down.
CHECK_DEADLOCK FALSE
