SPECIFICATION Spec
CONSTANTS
  None = None
  Poll = poll
  d = d
  u = u
  Users = {u}
  Devices = {d}
  AccountOf <- OneAccount
  Pages = {a, b}
  DeviceOf <- OneDevice
  Tokens = {t1, t2, t3, t4, t5}
  OptionIds = {o1, o2}
  Choices <- Clicks
  MaxFaults = 2
SYMMETRY Symmetry
INVARIANTS
  VotesSound
  ThanksMeansCounted
PROPERTIES
  TokenKept
CHECK_DEADLOCK FALSE
