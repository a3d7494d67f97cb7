SPECIFICATION Spec
CONSTANTS
  Files <- OneFile
  Clients <- TwoClients
  EntryIds <- OneId
  FileOf <- FileOne
  Threads = {t1, t2}
  MaxBufferSize = 2
  NotCached = NotCached
SYMMETRY Symmetric
INVARIANTS
  ExactReadCurrent
  AllReadCurrent
  FlushWritesOwed
  PreferKeepsContent
