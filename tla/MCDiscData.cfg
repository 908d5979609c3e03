SPECIFICATION FairDataSpec
CONSTANTS
  g1 = g1
  g2 = g2
  Games <- MCGames
  Offsets <- MCOffsets
  Unused <- MCUnused
  Replaced <- MCReplaced
  Sectors = 4
  SectorBlocks = 1
  Units = 2
  Data = 1
  Raw = 2
  PartUnit = 1
  BlockMax = 2
  FileMax = 2
  NoFile = NoFile
  Junk = Junk
INVARIANT ReadsRight
PROPERTY ReadEnds
