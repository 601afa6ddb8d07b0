CONSTANTS
  a = a
  b = b
  None = None
  Tabs <- TwoTabs
  Habits <- Each
  QueueMax = 2
  NewsMax = 1
  MaxLoads = 1
SPECIFICATION Spec
PROPERTIES ReplacesAsAsked
