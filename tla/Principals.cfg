SPECIFICATION Spec
CONSTANTS
  Ids = {p1, p2}
  Clients = {c1, c2}
  Roles = {viewer}
  Credentials = {k1, k2}
  Sessions = {s1}
  Workers = {w1}
SYMMETRY Symmetry
INVARIANTS PrincipalsInv InactiveIsShutOut ConfinedToItsClient
PROPERTY AdminRemains
CHECK_DEADLOCK FALSE
