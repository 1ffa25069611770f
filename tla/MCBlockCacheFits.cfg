\* The blocks in use fit into the cache and are asked for again.
CONSTANTS
  Clients = {c1, c2}
  numslots = 2
  numhash = 4
  Devices = {0}
  Numbers = {1, 2}
  Values = {0, 1}
  Modes = {"NORMAL"}
  Flags = {"none", "WRITE_IMMED"}
  Ops = {"mount", "get", "put", "flush"}
  Asks = {"cached"}
  MaxHits = 0
SPECIFICATION Spec
SYMMETRY ClientSymmetry
INVARIANTS LatestKept
