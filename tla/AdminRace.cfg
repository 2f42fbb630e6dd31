SPECIFICATION Spec
CONSTANTS
  Users = {u1, u2}
  Codes = {k1}
  InitialAdmins = {u1, u2}
  Calls = {c1, c2}
SYMMETRY Symmetry
ACTION_CONSTRAINT ByHandApart
PROPERTY LastAdminStays
CHECK_DEADLOCK FALSE
