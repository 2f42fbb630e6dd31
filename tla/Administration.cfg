SPECIFICATION Spec
CONSTANTS
  Users = {u1, u2}
  Codes = {k1, k2}
  InitialAdmins = {u1, u2}
  Calls = {c1, c2}
SYMMETRY Symmetry
CONSTRAINTS WithdrawalsDoNotOverlap UsesDoNotOverlap FewAtOnce FewCodes
ACTION_CONSTRAINTS DeployApart ByHandApart
INVARIANTS TypeOK CodeUsedOnce
PROPERTIES LastAdminStays BootstrapFindsNoAdmin
CHECK_DEADLOCK FALSE
