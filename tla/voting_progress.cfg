SPECIFICATION FairSpec
CONSTANTS
  o1 = o1
  o2 = o2
  q1 = q1
  None = None
  Polls = {p1}
  Users = {u1, u2}
  Tokens = {t1}
  Keys = {k1, k2}
  OptionIds = {o1, o2, q1}
  OptionsOf <- BothOptions
  Multi = {p1}
  Bodies <- MixedBodies
  Reqs = {r1, r2}
  Faults = FALSE
INVARIANTS
  NoEntitlementBurnt
PROPERTIES
  RequestsEnd
CHECK_DEADLOCK FALSE
