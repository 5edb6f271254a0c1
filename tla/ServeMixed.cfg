CONSTANTS
  s1 = s1
  s2 = s2
  p = p
  q = q
  m = m
  tp1 = tp1
  tp2 = tp2
  tq = tq
  tm = tm
  NoTask = NoTask
  AnySlot = AnySlot
  TaskIds = {tp1, tp2, tq, tm}
  Slots = {s1}
  Requests = {p, q, m}
  TasksOf <- ThreeClients
  Monitor = {m}
  Callback = {p}
  BadCallback = {p}
  Stream = {q}
  WantSlot <- AnyWanted
  PromptBatches = 1
  Predict = 2
  CtxShift = FALSE
  LaunchMayFail = TRUE
  DecodeMayFail = TRUE
  StreamMayDrop = TRUE
  MayTerminate = FALSE
SPECIFICATION Spec
CHECK_DEADLOCK FALSE
INVARIANTS
  NoTaskLost
  RunOnce
PROPERTIES
  KeepsPromise
