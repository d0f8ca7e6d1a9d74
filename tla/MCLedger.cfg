\* Two kegs, calibrations, sessions and pours; six transactions after the set-up.
SPECIFICATION Spec
CONSTANTS
  p1 = p1
  p2 = p2
  People = {p1, p2}
  NoOne = NoOne
  Unknown = Unknown
  Pulses = 2
  Masses = {6, 12}
  Scale = 12
  KegSize = 20
  Percents = {50}
  Ounce = 6
  Rates = {1}
  Deposit = 5
  o1 = o1
  o2 = o2
  o3 = o3
  Ordinals = {o1, o2, o3}
  NoOrdinal = NoOrdinal
  MinIncluded = 2
  MaxFactor = 100
  MaxRows = 2
  MaxSteps = 6
SYMMETRY Symmetry
INVARIANTS
  Inv
  ChargesAreBooked
  PoursKeepTheirContext
  CalibrationFollowsSamples
  CaptureConsumedOnce
PROPERTIES
  RemainingAsCorrected
CHECK_DEADLOCK FALSE
