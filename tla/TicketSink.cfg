SPECIFICATION Spec
CONSTANTS
  Clients = {c1, c2}
  Instances = {i1}
  Companies = {x1, x2}
  ExternalIds = {e1}
  Workers = {w1, w2}
SYMMETRY Symmetry
INVARIANT OwnersFollowMappings
PROPERTY OwnerIsKept
CHECK_DEADLOCK FALSE
