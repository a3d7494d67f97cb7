SPECIFICATION Spec
CONSTANTS
  Backups <- ThreeBackups
  Pools = {p1, p2, p3}
  Settings <- OnlyCrashes
SYMMETRY Symmetric
INVARIANTS
  ParentsExist
