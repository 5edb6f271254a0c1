CONSTANTS
  NSlots = 1
  Ctx = 8
  Batch = 8
  UBatch = 2
  AddBos = 0
  CacheReuse = 0
  CtxShifts = {TRUE}
  Prompts <- SteppedPrompts
  Keeps = {0}
  Discards = {0}
  Caching = {TRUE}
  Vocab = {1}
  MaxRequests = 3
  EarlyRequest = FALSE
  DecodeMayFail = TRUE
SPECIFICATION Spec
CHECK_DEADLOCK FALSE
INVARIANTS
  Conditioned
