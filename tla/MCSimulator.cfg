\* The simulated controller over two boots, with every scenario call.
SPECIFICATION Spec
CONSTANTS
  s1 = s1
  Sids = {s1}
  NoSid = NoSid
  Capacity = 1
  MaxSeq = 2
  MaxLifetime = 3
  MaxResultPulses = 2
  FlowGap = 1
  Settling = 1
  Ttl = 2
  Interval = 2
  MaxAdvance = 1
  MaxBoot = 2
  MaxDelayed = 1
  MaxBatch = 2
PROPERTIES
  ImplementsEventStore
  ReleasedWasRead
  DeadlinesAreExact
