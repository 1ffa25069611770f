\* A slot that had a device is used for another one.
CONSTANTS
  Clients = {c1, c2}
  NR_DEVICES = 3
  Devs = {root, d, e, f}
  RootDev = root
  Strange = {f}
  Names = {2, 3}
  Files = {3}
  Requests <- SomeRequests
  nil = nil
  Wild = {"reuse"}
SPECIFICATION Spec
INVARIANTS NeverPanics
\* After Shutdown nothing happens any more.
CHECK_DEADLOCK FALSE
