SPECIFICATION MCSpec
CONSTANTS
  Operators = {o1, o2}
  AttachmentIds = {1, 2}
  Hashes = {h1, h2}
  Names = {n1}
  h1 = h1
  h2 = h2
  n1 = n1
  Requests <- MCRequests
  Payloads = {p1, p2}
  Times = {t1}
  TrackOutputs = {a1}
  CandidateSets = {c1}
  MaxFaults = 1
CHECK_DEADLOCK FALSE
INVARIANTS EnginesAreGrounded
PROPERTIES FailClosed RunSettles
