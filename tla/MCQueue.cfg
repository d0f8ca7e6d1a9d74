\* Storage failures, lost links, crashes, kegs replaced, and a reset after
\* which measurements of the first boot are still queued.
SPECIFICATION Spec
CONSTANTS
  Slots = 1
  MaxSeq = 1
  MaxRecovery = 2
  MaxBoot = 2
  FullBoots = {1}
  MaxKeg = 2
  MaxUptime = 1
  UptimeModulus = 4
  QueueCap = 1
  RetryCap = 1
INVARIANTS
  Inv
  MeasurementsKeepTheirKeg
  RecoveredOnce
  NoCounterQuarantined
  NoSnapshotForgotten
