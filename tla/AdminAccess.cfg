SPECIFICATION Spec
CONSTANTS
  Requests = {r1, r2}
  Roles = {o1, o2}
  Users = {u1}
  Permissions = {p1, p2}
SYMMETRY Symmetry
CHECK_DEADLOCK FALSE
INVARIANTS AccessAsSaved OneRolePerUser NoLeftoverGrants
