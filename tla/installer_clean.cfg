CONSTANTS
  a = a
  b = b
  f1 = f1
  f2 = f2
  NoFile = NoFile
  Damaged = Damaged
  Tabs <- TwoTabs
  Files <- TwoFiles
  Shipped <- ShippedByTwo
  Bundles <- AskedByTwo
  MaxPlay = 1
  Troubles = {}
SPECIFICATION FairSpec
INVARIANTS TypeOK ExtrasRecoverable
PROPERTIES SwitchesWhole CallReturns
