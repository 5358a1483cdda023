SPECIFICATION AgentSpec
CONSTANTS
  Runs = {a1, a2}
  Requests = {r1, r2}
  People = {p1, p2}
  Admins = {p2}
  AdminTools = {FALSE}
  Workers = {w1}
  Crashes = TRUE
  NSteps = 2
  GatedSteps = {2}
  RetriedSteps = {2}
  StepRetries = 1
  FallbackFrom = 1
  FallbackTo = 2
  Aware = {FALSE}
  MaxSteps = 3
  MaxRetries = 1
INVARIANTS AgentTypeOK CancelRevokes AgreesWithDecision
PROPERTIES FinishedIsQuiet OutcomeIsFinal
CHECK_DEADLOCK FALSE
