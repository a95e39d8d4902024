SPECIFICATION MCSpec
CONSTANTS
  Plans <- MCPlans
  ExpansionChoices <- MCExpansions
  Clauses <- MCClauses
  Elements <- MCElements
  Indexed = {11, 12, 13, 14, 16, 17}
  Boxed = {11, 12, 13, 14, 17}
  Document <- MCDocument
  Revision <- MCRevision
  Sources <- MCSources
  Links <- MCLinks
  Asks <- MCAsks
  Says <- MCSays
  Subjects = {"station", "road"}
  Anchors = {"ratio"}
  Intents = {"site"}
  Derived <- MCDerived
  Protected = {"t3"}
  Measures <- MCMeasures
  SearchText <- MCSearchText
  MaxSearchRequests = 4
  MaxIssues = 2
  MaxQueries = 2
  RoleLimit = 2
  CandidateCap = 2
  MaxEvidence = 3
  MaxElements = 2
  RefDepth = 2
  RefNodes = 2
  RefFanout = 2
  Attachments <- MCAttachments
  Drafts <- MCDrafts
  Worded = {11, 12, 13, 14, 17}
  GivenNumbers = {300}
  Numbers <- MCNumbers
  NoHash = NoHash
  NotYet = NotYet
  Handlers = {k1, k2}
  ExtractedIds = {e1}
  ManualIds = {m1}
  Values = {v1, v2}
  Reviewers = {r1, r2}
  MaxTime = 2
  MaxArtifacts = 4
  Sent <- MCSent
  e1 = e1
  m1 = m1
  r1 = r1
  r2 = r2
  v1 = v1
  v2 = v2
  Fields = {f1}
  NoValue = NoValue
  TornArtifact = TornArtifact
  NoHandler = NoHandler
  MaxDrawingFaults = 1
  Builders = {b1, b2}
  Directories = {o1, o2}
  Databases = {d1, d2}
  FinalizedDatabases = {d1, d2}
  RunDatabase = d1
  RuleSets = {g, h}
  GoodRules = {g}
  d1 = d1
  d2 = d2
  g = g
  h = h
  Damaged = Damaged
  RequiredChecks = {"CITATION_PAGE_BBOX"}
  Nothing = Nothing
  MaxEdits = 1
  MaxBuildCrashes = 1
  q1 = q1
  x2 = x2
  Preparers = {q1}
  TrackASubmitters = {q1}
  TrackBSubmitters = {q1, q2}
  TrackAs = {a1}
  TrackBs = {x1, x2}
  Absent = Absent
  Torn = Torn
  Fixed = Fixed
  MaxFaults = 0
SYMMETRY MCSymmetry
CHECK_DEADLOCK FALSE
INVARIANTS
  CapsAreHonest
  ResolvedIsSupported
  AnswersAreGrounded
  ReadyMeansAllAnswered
  DrawingIsTraced
  ReadyIsEarned
  JournalLegal
