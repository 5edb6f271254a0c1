CONSTANTS
  Tokens <- SomeTokens
  StopWords <- SomeStops
  Indents = {0, 1}
  Predict = 5
SPECIFICATION Spec
CHECK_DEADLOCK FALSE
INVARIANTS
  TypeOK
  ContentBeforeStop
  StopWordWithheld
  WholeCharacters
  HeldForReason
