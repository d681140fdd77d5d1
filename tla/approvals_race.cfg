SPECIFICATION Spec
CONSTANTS
  None = None
  Users = {u1, u2}
  Entities = {e1}
  Positions = {1, 2}
  LastMonth = 1
  Ids = {i1, i2}
  Requests = {r1, r2}
  MaxOthers = 1
  MaxFaults = 0
INVARIANTS
  SafeUnderRace
