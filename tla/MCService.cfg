\* Three starts, restores and --set-pin in all; two failures or crashes.
SPECIFICATION FairSpec
CONSTANTS
  MaxCommits = 1
  MaxActs = 3
  MaxFaults = 2
  QueueSize = 2
  MaxRevision = 2
INVARIANTS
  Inv
  CommittedDataSurvives
  PageShowsNewest
PROPERTIES
  FailedRestoreKeepsPrior
  PageCatchesUp
CHECK_DEADLOCK FALSE
