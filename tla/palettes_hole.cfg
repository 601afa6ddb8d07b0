CONSTANTS
  p = p
  p2 = p2
  q = q
  b = b
  Unknown = Unknown
  Names <- AllNames
  Baked <- BakedNames
  Suffixed <- SuffixedNames
  Bundled <- Bundle
  Room = 2
  Modes = {"replace"}
  Troubles = {}
SPECIFICATION Spec
PROPERTIES RollbackLeavesNoHole
