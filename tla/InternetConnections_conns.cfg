SPECIFICATION Spec
CONSTANTS
  Conns = {c1, c2}
  Callers = {g1, g2}
  Clients = {k1}
  Workers = {w1}
  WorkerOf <- SharedWorker
  None = None
INVARIANTS
  SparesExact
  NothingUsedAfterDestroy
  HandedOver
PROPERTIES
  CallsReturn
  ConnectionsEnd
