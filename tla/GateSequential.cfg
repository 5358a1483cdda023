SPECIFICATION FairSpec
CONSTANTS
  Requests = {r1}
  Kinds = {"psa", "m365", "teams", "runbook", "power", "workflow"}
  Workers = {w1}
  PowerCli = TRUE
  Crashes = FALSE
  MaxEdits = 2
  MaxApplied = 2
INVARIANTS
  SucceedsOnce
  WritesWhatWasApproved
  RunFollowsDecision
PROPERTIES
  DecisionIsFinal
  ClaimIsSettled
CHECK_DEADLOCK FALSE
