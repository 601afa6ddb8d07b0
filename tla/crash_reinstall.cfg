CONSTANTS
  a = a
  b = b
  f1 = f1
  f2 = f2
  NoFile = NoFile
  Damaged = Damaged
  Tabs <- OneTab
  Files <- TwoFiles
  Shipped <- ShippedByOne
  Bundles <- AskedByOne
  MaxPlay = 1
  Troubles = {"crash"}
SPECIFICATION Spec
INVARIANTS OriginalsKept
