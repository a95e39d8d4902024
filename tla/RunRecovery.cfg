SPECIFICATION FairSpec
CONSTANTS
  Preparers = {p1}
  TrackASubmitters = {p1}
  TrackBSubmitters = {p1}
  TrackAs = {a1, a2}
  TrackBs = {b1, b2}
  Absent = Absent
  Torn = Torn
  Fixed = Fixed
  MaxFaults = 3
INVARIANTS StagesAreGrounded ReadyIsComplete
PROPERTIES CanonicalImmutable FinalizingCompletes
