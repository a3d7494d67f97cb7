SPECIFICATION FairSpec
CONSTANTS
  Files <- ThreeFiles
  Clients <- OneClient
  EntryIds <- TwoIds
  FileOf <- OuterFiles
  Threads = {t1}
  MaxBufferSize = 2
  NotCached = NotCached
INVARIANTS
  PreferKeepsContent
PROPERTIES
  FlushServed
  BufferDrains
  RefinesStore
