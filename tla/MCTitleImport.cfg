SPECIFICATION Spec
CONSTANTS
  Titles = {"a", "b"}
  Ids = {1, 2, 3}
  Hashes = {"h0", "h1", "h2", "h3"}
  Imports <- MCImports
  Pieces = 2
  MaxFaults = 1
  FirstMap <- MCFirstMap
  None = None
  Bad = Bad
INVARIANTS MapSound NoDuplicates InstalledComplete
PROPERTY SharedStable
