\* Three calls: one to run, one to revive it, one to revive it again.
CONSTANTS
  MaxCount = 2
  MaxSends = 3
SPECIFICATION AckFairSpec
INVARIANTS
  OneAckAfterStop
  LeaksOnlyByRestart
PROPERTIES
  StopEndsEveryTask
