SPECIFICATION Spec
CONSTANTS
  Backups <- FourBackups
  Pools = {p1, p2, p3, p4}
  Settings <- EitherSetting
SYMMETRY Symmetric
INVARIANTS
  Intact
  LinksCounted
  RowsAgree
  PoolsReferenced
  LinksExact
  ParentsVisible
