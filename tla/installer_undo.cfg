CONSTANTS
  a = a
  b = b
  f1 = f1
  f2 = f2
  NoFile = NoFile
  Damaged = Damaged
  Tabs <- OneTab
  Files <- TwoFiles
  Shipped <- ShippedByOne
  Bundles <- AskedByNone
  MaxPlay = 0
  Troubles = {"undo", "restore", "crash", "digest"}
SYMMETRY FilesAlike
SPECIFICATION Spec
INVARIANTS FileInv
 
