CONSTANTS
  Threads = {t1, t2}
  Pids = {1, 2}
  Inodes = {1, 2, 3}
  OPEN_MAX = 1
  NR_FILPS = 2
  Requests <- SomeRequests
  MaxLost = 1
  Wild = {}
SPECIFICATION Spec
INVARIANTS TypeOK CountIsReferences UsedIsAllocated 
 
\* A crash ends everything.
CHECK_DEADLOCK FALSE
