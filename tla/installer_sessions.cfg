CONSTANTS
  a = a
  b = b
  c = c
  f1 = f1
  f2 = f2
  NoFile = NoFile
  Damaged = Damaged
  Tabs <- ThreeTabs
  Files <- TwoFiles
  Shipped <- ShippedByThree
  Bundles <- AskedByThree
  MaxPlay = 2
  Troubles = {"legacy", "digest", "record", "texts", "bindings", "palettes"}
SPECIFICATION Spec
CONSTRAINT OneSession
INVARIANTS GameWhole ProgressKept
