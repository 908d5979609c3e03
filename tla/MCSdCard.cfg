SPECIFICATION SdSpec
CONSTANTS
  Cards = {a, b}
  NoCard = NoCard
  MaxSwaps = 2
  MaxDiscover = 2
  MaxRequests = 2
  MaxTries = 2
INVARIANTS TransferTruthful SwapNoticed
PROPERTY JobsEnd
CHECK_DEADLOCK FALSE
