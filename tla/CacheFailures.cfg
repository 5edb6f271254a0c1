CONSTANTS
  NSlots = 1
  Ctx = 8
  Batch = 8
  UBatch = 2
  AddBos = 0
  CacheReuse = 0
  CtxShifts = {TRUE, FALSE}
  Prompts <- SteppedPrompts
  Keeps = {0}
  Discards = {0}
  Caching = {TRUE, FALSE}
  Vocab = {1}
  MaxRequests = 2
  EarlyRequest = TRUE
  DecodeMayFail = TRUE
SPECIFICATION FairSpec
CHECK_DEADLOCK FALSE
INVARIANTS
  NoWrongToken
PROPERTIES
  RoundEnds
