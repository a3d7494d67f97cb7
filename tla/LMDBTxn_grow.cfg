SPECIFICATION FairSpec
CONSTANTS
  Keys <- TwoKeys
  EntryIds <- OneId
  Readers = {r1, r2}
  Writer = Writer
  CreatedHere = FALSE
  MayFail = TRUE
CHECK_DEADLOCK FALSE
INVARIANTS
  WholeBatches
  RoomAfterGrowth
PROPERTIES
  BatchesEnd
  LookupsEnd
