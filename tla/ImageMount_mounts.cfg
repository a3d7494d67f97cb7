SPECIFICATION Spec
CHECK_DEADLOCK FALSE
CONSTANTS
  Images = {i1}
  Callers = {g1, g2}
  Tickets = {t1, t2}
  Unmounter = Unmounter
  None = None
  MaxCrashes = 1
INVARIANTS
  InUseLeftAlone
  MountedRecorded
PROPERTIES
  CallsReturn
  UnusedUnmounted
