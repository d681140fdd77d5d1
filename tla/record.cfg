SPECIFICATION RecordSpec
CONSTANTS
  Parts = {"files", "desk", "mail", "dump", "newsroom", "follows", "compass", "import",
           "offices", "elections", "captcha"}
  Datasets <- SomeDatasets
  Nowhere = "nowhere"
  MaxLoads = 3
  Urls = {"u1"}
  Digests = {"h1"}
  NoHash = "no hash"
  Labels = {"l1"}
  Named = {"p1"}
  Summaries = {"t1"}
  Null = "nil"
  Wire <- SomeWire
  Forms <- SomeForms
  Deliveries = {r1, r2}
  PerPage = 1
  MaxSources = 3
  MaxDeliveries = 2
  MaxEdits = 2
  Challenges = {x1, x2}
  Requests = {r1, r2}
  TicksPerSecond = 2
  TTLSeconds = 1
  Lag = 1
  LastTick = 4
  None = None
  r1 = r1
  r2 = r2
  x1 = x1
  x2 = x2
  Uploads = {r1, r2}
  Visitors = {x1, x2}
  Pictures <- SomePictures
  Links = {"l1", "l2"}
  HostOf <- SomeHosts
  MaxBytes = 2
  MaxUploads = 2
  MaxCrashes = 1
  MaxPasses = 2
  Parties = {"party"}
  People = {"person"}
  Fields = {"field"}
  Texts = {"t1", "t2"}
  Nil = "nil"
  Values = {"value"}
  Recorders = {r1, r2}
  Reports <- SomeReports
  MaxSteps = 5
  Addresses <- SomeAddresses
  Zone <- SomeZone
  MaxLength = 254
  MaxChecks = 2
  Polls = {"poll"}
  Options = {"o1", "o2"}
  Accounts = {"a1", "a2"}
  Fresh = {"a1"}
  MinParticipants = 2
  NoShare = NoShare
  MaxDumps = 2
  Entities = {"a", "b"}
  Content <- SomeContent
  Clicks = {r1, r2}
  FeedLimit = 2
  MaxContent = 3
  MaxClicks = 2
  About <- Positions
  ScoredParties = {1, 2}
  ScoredPersons = {11}
  Entries <- SomeEntries
  Published <- SomePublished
  Sheets <- SomeSheets
  Chamber <- SomeChamber
  MaxRows = 40
  SlugLength <- SlugsOfParties
  CountryLength = 2
  MaxMerged = 8
  MaxTokenLen = 150
  Solid = 1
  MaxChanges = 3
  MaxVisits = 1
  MembershipKeys <- SomeMemberships
  RoleKeys <- SomeRoles
  CountryOf <- Lands
  Home = "home"
  PartyOrder <- NamesInOrder
  PastElections <- SomeElections
  MaxWrites = 4
  MaxCountryPages = 1
  ElectionRows <- SomeElectionRows
  ResultRows <- SomeResultRows
  ContestantOrder <- ContestantsInOrder
  BarLimit = 1
  LastDay = 4
  MaxWritten = 5
SYMMETRY Symmetry
INVARIANTS
  TypesOK
  OneRowEach
  EveryArticleListed
  FeedInOrder
  MeasuredOnce
  PercentIsMean
  Reconstructed
  SeatedOnce
  ElectionPages
  OnceWhileRemembered
  CopiesWhole
  RestIsKept
  DraftsDecidedOnce
  DumpReconciles
  RefusedForCause
PROPERTIES
  DeliveriesDecideNothing
  TwiceTheSame
  ReportsFiledAndClosed
CHECK_DEADLOCK FALSE
