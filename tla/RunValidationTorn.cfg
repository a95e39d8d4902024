SPECIFICATION FairSpec
CONSTANTS
  Preparers = {p1}
  TrackASubmitters = {p1}
  TrackBSubmitters = {p1}
  TrackAs = {a1}
  TrackBs = {b1}
  Absent = Absent
  Torn = Torn
  Fixed = Fixed
  MaxFaults = 1
PROPERTIES FinalizingRecovers
