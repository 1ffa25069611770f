\* Two inodes and two data zones (zones 3 and 4), one map block each with
\* four 2-bit words; the second half of each block is past the end of the map.
CONSTANTS
  Clients = {c1, c2}
  CharBit = 1
  Words = 4
  Inodes = 2
  Zones = 5
  Firstdatazone = 3
  ImapBlocks = 1
  ZmapBlocks = 1
SPECIFICATION Spec
INVARIANTS TypeOK MapsMatchUse FailsOnlyWhenFull
PROPERTIES ImplementsAllocator EveryCallReturns
\* After Close nothing happens any more.
CHECK_DEADLOCK FALSE
