SPECIFICATION AgentSpec
CONSTANTS
  Runs = {a1}
  Requests = {r1}
  People = {p1, p2}
  Admins = {p2}
  AdminTools = {FALSE}
  Workers = {w1}
  Crashes = FALSE
  NSteps = 1
  GatedSteps = {1}
  RetriedSteps = {}
  StepRetries = 1
  FallbackFrom = 0
  FallbackTo = 1
  Aware = {FALSE}
  MaxSteps = 3
  MaxRetries = 1
PROPERTY RejectionEndsRun
CHECK_DEADLOCK FALSE
