SPECIFICATION MCSpec
CONSTANTS
  Clients = {c1, c2}
  IssueIds = {i1, i2}
  Facets = {f1}
  Titles = {t1}
  SourceKeys = {k1}
  Idents = {d1, d2}
  EvidenceIds = {e1}
  Databases = {d1, d2}
  NoKey = NoKey
  NoIdent = NoIdent
  NoDatabase = NoDatabase
  NoTitle = NoTitle
  MaxRevision = 4
  Openers = {p1, p2}
  Inodes = {n1, n2}
  NoInode = NoInode
  MaxStops = 2
SYMMETRY Symmetry
INVARIANTS ReplayReproducesStore StoreIsWhole
PROPERTIES InvalidationCoversDependents RebindStalesAllIssues SelectionUnderBinding
