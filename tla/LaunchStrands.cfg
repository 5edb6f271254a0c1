CONSTANTS
  s1 = s1
  s2 = s2
  p = p
  q = q
  m = m
  tp1 = tp1
  tp2 = tp2
  tq = tq
  tm = tm
  NoTask = NoTask
  AnySlot = AnySlot
  TaskIds = {tp1, tp2, tq}
  Slots = {s1}
  Requests = {p, q}
  TasksOf <- TwoClients
  Monitor = {}
  Callback = {}
  BadCallback = {}
  Stream = {q}
  WantSlot <- AnyWanted
  PromptBatches = 1
  Predict = 2
  CtxShift = FALSE
  LaunchMayFail = TRUE
  DecodeMayFail = FALSE
  StreamMayDrop = FALSE
  MayTerminate = FALSE
SPECIFICATION Spec
CHECK_DEADLOCK FALSE
INVARIANTS
  DeferredHasWaker
