SPECIFICATION FairSpec
CONSTANTS
  InSize = 2
  OutSize = 2
  SlowSize = 4
  Tags = {t1}
  NoTag = NoTag
  Ops = {"fastPing", "fastWrite", "slowPing"}
  MaxSilentJobs = 0
PROPERTIES
  FastAnswered
  AllAnswered
CHECK_DEADLOCK FALSE
