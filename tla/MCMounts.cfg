\* Three slots, the first one that of the root device.
CONSTANTS
  Clients = {c1, c2}
  NR_DEVICES = 3
  Devs = {root, d, e, f}
  RootDev = root
  Strange = {f}
  Names = {2, 3}
  Files = {3}
  Requests <- SomeRequests
  nil = nil
  Wild = {}
SPECIFICATION Spec
INVARIANTS CountIsReferences MountedIsRead MountPointsLead UsedIsMounted
PROPERTIES EveryCallReturns
\* After Shutdown nothing happens any more.
CHECK_DEADLOCK FALSE
