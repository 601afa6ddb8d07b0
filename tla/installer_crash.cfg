CONSTANTS
  a = a
  b = b
  f1 = f1
  f2 = f2
  NoFile = NoFile
  Damaged = Damaged
  Tabs <- OneTab
  Files <- TwoFiles
  Shipped <- ShippedByOne
  Bundles <- AskedByOne
  MaxPlay = 2
  Troubles = {"crash", "restore"}
SYMMETRY FilesAlike
SPECIFICATION Spec
INVARIANTS LibraryHonest Undoable
PROPERTIES CrashDestroysNothing
