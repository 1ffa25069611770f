\* Two clients, every mix of reads, writes and locking, stray calls included.
CONSTANTS
  Clients = {c1, c2}
  Blocksize = 2
  MaxSize = 3
  Spans <- MixedSpans
  Values = {0, 1}
  Wild = {"unlock", "pastEnd"}
SPECIFICATION Spec
INVARIANTS TypeOK ReadersSeeStableFile
PROPERTIES ImplementsAtomicFile EveryCallReturns
\* After Close nothing happens any more.
CHECK_DEADLOCK FALSE
