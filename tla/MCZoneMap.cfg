\* Two files that run out of zones.
CONSTANTS
  Files = {f, g}
  Zones = {z1, z2, z3, z4}
  NO_ZONE = NO_ZONE
  Illegal = Illegal
  Blocksize = 2
  dzones = 1
  nr_indirects = 2
  Chunks <- Near
  Values = {1}
  BootByte = 0
  OldByte = 3
  Ops = {"remove"}
SPECIFICATION Spec
SYMMETRY Symmetry
INVARIANTS TypeOK NoZoneShared NoZoneLost
PROPERTIES ImplementsSparseFiles
\* Files may all be gone.
CHECK_DEADLOCK FALSE
