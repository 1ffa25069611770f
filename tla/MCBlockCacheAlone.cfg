\* One client, colliding blocks, devices that come and go.
CONSTANTS
  Clients = {c1}
  numslots = 2
  numhash = 2
  Devices = {0}
  Numbers = {1, 2, 3}
  Values = {0}
  Modes = {"NORMAL", "NO_READ"}
  Flags = {"none", "ONE_SHOT", "WRITE_IMMED"}
  Ops = {"mount", "unmount", "invalidate", "get", "put", "flush", "close"}
  Asks = {}
  MaxHits = 0
SPECIFICATION Spec
INVARIANTS CachedIsFound
PROPERTIES EveryCallReturns
\* After Close nothing happens any more.
CHECK_DEADLOCK FALSE
