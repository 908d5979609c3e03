SPECIFICATION Spec
CONSTANTS
  Names = {"tmp", "x"}
  Tmp = "tmp"
  MaxDepth = 3
  MaxEntries = 4
  Clients = {"ES", "DI"}
  DI = "DI"
  MaxFile = 2
  Modes <- MCModes
  Obcd <- MCObcd
  SaveHack <- MCSaveHack
  Files <- MCFiles
  Targets <- MCTargets
  MaxSize = 1
INVARIANTS NoOrphans OneOwner RawOnlyIfAsked
PROPERTIES NothingElseVanishes Answered
