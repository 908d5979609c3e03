SPECIFICATION FairSpec
CONSTANTS
  MaxPage = 4
  MinPage = 2
  BlockPages = 2
  Data = {d1}
  Erased = Erased
  Mixed = Mixed
  Tags = {t1, t2}
  NoTag = NoTag
  Ops = {"reset", "status", "read", "write", "erase", "unknown"}
  WritePages = {1, 3}
  BootReads = 2
  MaxJobs = 1
INVARIANTS OneAnswer
PROPERTIES BootAreaIntact AnswerTruthful AllAnswered
CHECK_DEADLOCK FALSE
