\* Liveness, for pours and calibration captures.
SPECIFICATION FairSpec
CONSTANTS
  s1 = s1
  Sids = {s1}
  NoSid = NoSid
  Capacity = 1
  MaxSeq = 3
  MaxLifetime = 9
  MaxResultPulses = 5
  ClockModulus = 1
  FlowGap = 0
  Settling = 0
  NoBoot = 0
  Kinds = {"pour", "capture"}
  MaxBoot = 2
  MaxPulses = 1
  MaxEvents = 3
  MaxFaults = 1
PROPERTIES
  EveryResultReleased
