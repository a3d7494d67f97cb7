SPECIFICATION Spec
CONSTANTS
  Contents = {c1}
  Client <- TwoClients
  MaxEntries = 5
  Settings <- Defragmented
INVARIANTS
  Linked
