\* What the code does against FinalizingAwaitsResult.
SPECIFICATION Spec
CONSTANTS
  s1 = s1
  s2 = s2
  Sids = {s1, s2}
  NoSid = NoSid
  Capacity = 1
  MaxSeq = 3
  MaxLifetime = 9
  MaxResultPulses = 5
  ClockModulus = 1
  FlowGap = 0
  Settling = 0
  NoBoot = 0
  Kinds = {"pour"}
  MaxBoot = 1
  MaxPulses = 1
  MaxEvents = 3
  MaxFaults = 1
INVARIANTS
  FinalizingAwaitsResult
