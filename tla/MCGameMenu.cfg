SPECIFICATION Spec
CONSTANTS
  Games <- MCGames
  Initial <- MCInitial
  Media <- MCMedia
  Channels = 3
  EntryCount = 2
  Real = Real
  None = None
VIEW MCView
INVARIANTS ChoiceKept SettingsSettle ListComplete CursorInList
