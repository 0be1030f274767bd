\* Linking: five small trees, two files edited at a time.
\* Clustering: every graph of four nodes with edges of two strengths, and one edit of it.
\* Retrieval: graphs of four nodes with up to seven edges; one seed or two.
\* The linking of a tree whose files have one content each may stop.
CONSTANTS
  PathOrder <- MCPathOrder
  Menus <- MCMenus
  Tearable <- MCTearable
  Absent <- MCAbsent
  MaxPending = 2
  Nodes = {1, 2, 3, 4}
  Weights = {0, 1, 2}
  NoId = NoId
  Resolution <- MCResolution
  MaxEdits = 1
  Symbols = {1, 2, 3, 4}
  Graphs <- MCGraphs
  SeedLists <- MCSeedLists
  Depths = {0, 2, 4}
  Budgets = {1, 3, 5}
  NL = NL
  Gone = Gone
  Altered = Altered
  Versions = {"v1", "v2"}
  Words = {"a", "b"}
  Layouts <- MCLayouts
  MaxAlterations = 2
SPECIFICATION EngineSpec
INVARIANTS EngineTypeOK IncrementalIsCold PatchIsExact InstallRepairs NearestFirst AnswerIsSound
PROPERTIES SitesKeepTheirEdges ModularityGrows IdsAreStable UserLinesSurvive UninstallRestores
CHECK_DEADLOCK FALSE
