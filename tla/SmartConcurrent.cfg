SPECIFICATION Spec
CONSTANTS
  Requests = {r1}
  People = {p1, p2}
  Admins = {p2}
  AdminTools = {TRUE, FALSE}
  Workers = {w1, w2}
  Crashes = TRUE
SYMMETRY Symmetry
INVARIANTS RunsForAuthorized OutcomeIsBacked
CHECK_DEADLOCK FALSE
