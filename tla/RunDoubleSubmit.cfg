SPECIFICATION Spec
CONSTANTS
  Preparers = {p1}
  TrackASubmitters = {p1}
  TrackBSubmitters = {p1, p2}
  TrackAs = {a1}
  TrackBs = {b1}
  Absent = Absent
  Torn = Torn
  Fixed = Fixed
  MaxFaults = 0
INVARIANTS ReadyIsComplete
