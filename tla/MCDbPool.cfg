SPECIFICATION PoolSpec
CONSTANTS
  Ranks = {"r1", "r2"}
  Reads = {"q"}
  QueueSize = 3
  MaxOutstanding = 2
  Null = Null
INVARIANTS RankKept BackupThenWorker PoolConsistent
PROPERTIES ShutdownEnds
CHECK_DEADLOCK FALSE
