SPECIFICATION Spec
CONSTANTS
  None = None
  Users = {u1}
  Passwords = {p1, p2}
  Tokens = {t1, t2, t3}
  Requests = {r1, r2}
  MaxFaults = 0
SYMMETRY Symmetry
INVARIANTS
  ResetEndsSessions
CHECK_DEADLOCK FALSE
