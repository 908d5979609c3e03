SPECIFICATION Spec
CONSTANTS
  Menu = menu
  Channels = {c}
  Discs = {d}
  Ioses = {ios}
  None = None
  Handles = 1
  EmptyLoads = FALSE
  MaxUids = 4
INVARIANTS ListsTruthful LaunchHonoured NoBootLoop UidKept
