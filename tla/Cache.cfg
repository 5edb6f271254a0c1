CONSTANTS
  NSlots = 2
  Ctx = 5
  Batch = 3
  UBatch = 2
  AddBos = 1
  CacheReuse = 2
  CtxShifts = {TRUE}
  Prompts <- FewPrompts
  Keeps <- KeepPrompt
  Discards = {2}
  Caching = {TRUE}
  Vocab = {1}
  MaxRequests = 3
  EarlyRequest = FALSE
  DecodeMayFail = FALSE
SPECIFICATION Spec
CHECK_DEADLOCK FALSE
INVARIANTS
  TypeOK
  Conditioned
  CacheNamed
  RoomForBatch
  RoomIsFound
