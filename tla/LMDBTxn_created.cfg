SPECIFICATION Spec
CONSTANTS
  Keys <- TwoKeys
  EntryIds <- OneId
  Readers = {r1}
  Writer = Writer
  CreatedHere = TRUE
  MayFail = FALSE
CHECK_DEADLOCK FALSE
INVARIANTS
  OneTransaction
