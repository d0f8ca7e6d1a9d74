\* Liveness, and the event store, with one edge per drained batch.
SPECIFICATION FairSpec
CONSTANTS
  s1 = s1
  Sids = {s1}
  NoSid = NoSid
  Capacity = 2
  MaxSeq = 3
  MaxLifetime = 2
  MaxResultPulses = 2
  ClockModulus = 8
  FlowGap = 1
  Settling = 2
  Ttls = {2}
  MaxPending = 1
  MaxStall = 1
PROPERTIES
  EveryEventCloses
  EveryResultIsSent
  ImplementsEventStore
