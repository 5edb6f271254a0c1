CONSTANTS
  Uploads = {1, 2}
  MaxFiles = 2
  MayRestart = TRUE
  Tabs = {1, 2}
SPECIFICATION FairSpec
CHECK_DEADLOCK FALSE
INVARIANTS
  TypeOK
  EventsHaveDocuments
  TimelineSorted
  AllOrNothing
  ShownIsStored
PROPERTIES
  LossIsReported
  ShownGrows
  ChatSeesShown
  LoadingEnds
