SPECIFICATION FairSpec
CONSTANTS
  NArtifacts = 1
  MaxScans = 2
  Workers = {scheduler, watcher}
  Scheduler = scheduler
  MaxAttempts = 2
  MaxCrashes = 1
INVARIANT PollsExclude
PROPERTIES EndedStaysEnded ScanSettles
CHECK_DEADLOCK FALSE
