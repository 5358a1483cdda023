SPECIFICATION FairSpec
CONSTANTS
  upstream = upstream
  dependent = dependent
  Deliveries = {d1, d2}
  Agents = {upstream, dependent}
  Playbooks = {p1}
  RunOnce = {upstream}
  DependsOn <- Chain
  MaxRetries = 1
  Workers = {w1}
  Crashes = FALSE
PROPERTIES
  Settles
CHECK_DEADLOCK FALSE
