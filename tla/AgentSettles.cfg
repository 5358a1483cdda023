SPECIFICATION AgentFairSpec
CONSTANTS
  Runs = {a1}
  Requests = {r1, r2, r3, r4}
  People = {p1, p2}
  Admins = {p2}
  AdminTools = {FALSE}
  Workers = {w1}
  Crashes = FALSE
  NSteps = 3
  GatedSteps = {1, 3}
  RetriedSteps = {2}
  StepRetries = 1
  FallbackFrom = 1
  FallbackTo = 2
  Aware = {TRUE, FALSE}
  MaxSteps = 5
  MaxRetries = 1
INVARIANT CompletedRanEveryStep
PROPERTIES RunSettles ImplementsSmartAction
CHECK_DEADLOCK FALSE
