\* Two clients that search and change one directory, stray unlocks included.
CONSTANTS
  Clients = {c1, c2}
  Entries <- SomeEntries
  Dots = {"."}
  SlotsPerBlock = 2
  MaxSlots = 4
  Calls <- SomeCalls
SPECIFICATION Spec
INVARIANTS TypeOK InodeGotIsLinked
PROPERTIES ImplementsAtomicDirectory EveryCallReturns
\* After Close nothing happens any more.
CHECK_DEADLOCK FALSE
