CONSTANTS
  Tokens <- SomeTokens
  StopWords <- SomeStops
  Indents = {0}
  Predict = 3
SPECIFICATION Spec
CHECK_DEADLOCK FALSE
INVARIANTS
  StreamIsContent
