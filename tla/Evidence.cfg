SPECIFICATION MCSpec
CONSTANTS
  Importers = {p1, p2}
  Items = {1, 2}
  Docs = {d1, d2}
  Editions = {1}
  DocIds = {h1}
  NoId = NoId
  d1 = d1
  d2 = d2
  h1 = h1
  Batches <- MCBatches
  PageCount <- MCPageCount
  Cites <- MCCites
  Articled = {d1, d2}
  MaxSwaps = 1
  Migrators = {m1, m2}
  DbContents = {c1, c2}
  NoFile = NoFile
  MaxSourceSwaps = 2
  Graphs <- MCGraphs
  Manifests <- MCManifests
  MaxGraphSwaps = 1
CHECK_DEADLOCK FALSE
INVARIANTS PublishedIsWhole ReportMatchesOutput NothingLost
PROPERTIES AuthorityRefined ImportEnds
