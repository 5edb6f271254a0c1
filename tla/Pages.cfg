CONSTANTS
  NPages = 4
  Ranges <- SomeRanges
  RasterMayStop = TRUE
  MayInterrupt = TRUE
SPECIFICATION Spec
INVARIANTS
  TypeOK
  OwnText
  LossTraced
PROPERTIES
  NeverRevised
