SPECIFICATION Spec
CONSTANTS
  s1 = s1
  s2 = s2
  s3 = s3
  u1 = u1
  a1 = a1
  a2 = a2
  b1 = b1
  None = None
  Submissions = {s1, s2, s3}
  Users = {u1}
  Author <- OneAuthor
  Assets = {}
  Images <- NoImages
  b2 = b2
  Bases = {b1, b2}
  Slugs = {1, 2, 3, 4, 5, 6, 7}
  Candidates <- Addresses
  Base <- OneBase
  Requests = {r1, r2}
  Workers = {w1}
  StrikeLimit = 3
  MaxAttempts = 3
  BatchLimit = 20
  MaxFaults = 0
  MaxPolls = 0
SYMMETRY Symmetry
INVARIANTS
  StrikesSuspend
CHECK_DEADLOCK FALSE
