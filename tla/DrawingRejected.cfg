SPECIFICATION DrawingSpec
CONSTANTS
  Handlers = {k1}
  ExtractedIds = {e1}
  ManualIds = {}
  Values = {v1}
  Reviewers = {r1, r2}
  MaxTime = 1
  Fields = {f1}
  NoValue = NoValue
  TornArtifact = TornArtifact
  NoHandler = NoHandler
  MaxArtifacts = 4
  Sent <- MCSent
  MaxDrawingFaults = 0
  e1 = e1
  r1 = r1
  r2 = r2
  v1 = v1
INVARIANT RejectedIsNotShown
CHECK_DEADLOCK FALSE
