SPECIFICATION Spec
CONSTANTS
  Requests = {r1}
  Kinds = {"psa", "m365", "teams", "runbook", "power", "workflow"}
  Workers = {w1, w2}
  PowerCli = FALSE
  Crashes = TRUE
  MaxEdits = 2
  MaxApplied = 2
INVARIANTS
  IndInv
  ClaimExcludes
  ClaimedSucceedsOnce
  ClaimedRowIsTruthful
  WrittenOnlyIfApproved
PROPERTIES
  ImplementsReservation
CHECK_DEADLOCK FALSE
