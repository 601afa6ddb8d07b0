CONSTANTS
  a = a
  b = b
  None = None
  Tabs <- TwoTabs
  Habits <- Each
  QueueMax = 2
  NewsMax = 1
  MaxLoads = 1
SPECIFICATION FairSpec
INVARIANTS WorkerTypeOK CatalogueStands
PROPERTIES Serves NothingHeardUnder LineMoves ShutsDown
