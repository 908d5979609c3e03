SPECIFICATION FairSpec
CONSTANTS
  Gamecount = 3
  WbfsGames = {0, 1}
  DmlGames = {2}
  Broken = {1}
  NoGame = NoGame
  MenuCommands = {"select", "load", "eject"}
  Polite = TRUE
  MaxTimers = 2
  MaxRequests = 2
INVARIANTS  NoMissedChange
PROPERTY ImplementsChanger
CHECK_DEADLOCK FALSE
