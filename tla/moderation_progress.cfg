SPECIFICATION FairSpec
CONSTANTS
  s1 = s1
  s2 = s2
  s3 = s3
  u1 = u1
  a1 = a1
  a2 = a2
  b1 = b1
  b2 = b2
  None = None
  Submissions = {s1}
  Users = {u1}
  Author <- OneAuthor
  Assets = {}
  Images <- NoImages
  Requests = {r1, r2}
  Workers = {w1, w2}
  Bases = {b1, b2}
  Slugs = {1, 2, 3, 4, 5, 6, 7}
  Candidates <- Addresses
  Base <- TwoBases
  StrikeLimit = 1
  MaxAttempts = 2
  BatchLimit = 1
  MaxFaults = 1
  MaxPolls = 0
PROPERTIES
  DecisionsFinal
  NothingWaits
CHECK_DEADLOCK FALSE
