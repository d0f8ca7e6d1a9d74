\* Accounting, timing and the event store, with a clock that rolls over
\* within every pour, one result slot and saturating counters.
SPECIFICATION Spec
CONSTANTS
  s1 = s1
  s2 = s2
  Sids = {s1, s2}
  NoSid = NoSid
  Capacity = 1
  MaxSeq = 3
  MaxLifetime = 3
  MaxResultPulses = 2
  ClockModulus = 8
  FlowGap = 1
  Settling = 2
  Ttls = {2}
  MaxPending = 2
  MaxStall = 2
SYMMETRY Symmetry
INVARIANTS
  Inv
  PulsesConserved
PROPERTIES
  EventsEndOnTime
  SeparatePoursStaySeparate
