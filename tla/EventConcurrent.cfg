SPECIFICATION Spec
CONSTANTS
  upstream = upstream
  dependent = dependent
  Deliveries = {d1, d2}
  Agents = {upstream, dependent}
  Playbooks = {p1}
  RunOnce = {upstream}
  DependsOn <- Chain
  MaxRetries = 1
  Workers = {w1, w2}
  Crashes = TRUE
INVARIANTS
  NotReplayed
  RunsBounded
  CompletedIsClean
PROPERTIES
  CompletedIsFinal
CHECK_DEADLOCK FALSE
