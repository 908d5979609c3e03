SPECIFICATION Spec
CONSTANTS
  InSize = 2
  OutSize = 2
  SlowSize = 5
  Tags = {t1, t2}
  NoTag = NoTag
  Ops = {"fastPing", "slowPing", "jump", "boot2run"}
  MaxSilentJobs = 1
INVARIANTS BootAnswerRead
PROPERTIES JobStable ImplementsService
CHECK_DEADLOCK FALSE
VIEW LiveState
SYMMETRY TagSymmetry
