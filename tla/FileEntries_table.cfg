SPECIFICATION Spec
CONSTANTS
  Contents = {c1}
  Client <- TwoClients
  MaxEntries = 5
  Settings <- AllModes
INVARIANTS
  TypeOK
  StayLinked
  IndexFlagged
  Charged
  OneList
  OneFlag
  SearchExhausted
