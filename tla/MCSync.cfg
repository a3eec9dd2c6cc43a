\* A tree of four objects; two pushes or two pulls alone, with one fault, or one
\* push beside one pull.
CONSTANTS
  Location <- OnDisk
  Kids <- Names
  Root = "r"
  AtFirst = {{}, {"b"}}
  MaxChanges = 2
  MaxBatchKeys = 2
  BatchBytes = 2
  Size <- Stored
  JobChoices = {1, 2}
  Prefetch = 1
  MaxPushes = 2
  MaxFaults = 1
  PullSize <- Stored
  PullJobs = 2
  MaxPulls = 2
  MaxCuts = 1
SPECIFICATION SyncSpec
INVARIANTS PushSound  PullSound
PROPERTY SyncEnds
CHECK_DEADLOCK FALSE
