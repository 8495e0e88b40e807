\* Two tasks: one with numbers of every length, one that competes with it.
CONSTANTS
  a = a
  b = b
  Tasks = {a, b}
  NoTask = NoTask
  Jobs <- MCJobs
  LimbBits = 2
  BlockLimbs = 2
  MulBlocks = 1
SPECIFICATION FairSpec
INVARIANTS
  ResultIsRight
  EngineHasOneUser
  WaitMeansDone
PROPERTIES
  CallsReturn
