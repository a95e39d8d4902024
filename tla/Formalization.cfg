SPECIFICATION MCSpec
CONSTANTS
  Clients = {c1}
  IssueIds = {i1}
  Facets = {f1}
  Titles = {t1}
  SourceKeys = {}
  Idents = {}
  EvidenceIds = {e1}
  Databases = {d1, d2}
  NoKey = NoKey
  NoIdent = NoIdent
  NoDatabase = NoDatabase
  NoTitle = NoTitle
  MaxRevision = 5
  Formalizers = {g1, g2}
  NoProc = NoProc
  MaxFaults = 4
SYMMETRY Symmetry
CHECK_DEADLOCK FALSE
INVARIANTS SnapshotIsRevision RunTextIsBound BoundRunsStay
PROPERTIES RunOfCurrentRevision
