SPECIFICATION Spec
CONSTANTS
  MaxHandles = 4
  CacheMax = 2
  Mode = "UNEEK"
  Discs = {"disc1", "brokenDisc", "gcDisc"}
  GcDiscs = {}
  Names = {f1, f2, f3}
  Missing <- OneDiscMissing
  Free = Free
  NoFile = NoFile
  MaxClient = 1
  MaxSelect = 3
INVARIANTS OneOwner ReadsRight
SYMMETRY NameSymmetry
