CONSTANTS
  Databases = {"sqlite", "postgres"}
  h1 = h1
  h2 = h2
  q1 = q1
  q2 = q2
  s1 = s1
  kit = kit
  kat = kat
  Parents = {ann}
  Pupils = {kit, kat}
  Questions = {q1, q2}
  Mapped = {q1}
  Batches <- MCBatches
  Posts = {h1, h2}
  MaxPosts = 3
  NoQuestion = NoQuestion
  Slots = {a, b}
  MaxClicks = 3
  MaxCommits = 4
  Entries = {e1, e2}
  TheFeed = e1
  MaxPresses = 2
  MaxSaves = 3
  Drafts = {d, e}
  NoDraft = NoDraft
  MaxSubmits = 3
  TimesOfDay = {0, 1020, 1080}
  CalendarDays = {4, 9}
  Blank = Blank
  StoredEvents <- MCStoredEvents
  NewEvent <- MCNewEvent
  MaxTouches = 3
  Invitations = {i, j}
  NoInvitation = NoInvitation
  MaxTaps = 7
  Taxonomy <- MCTaxonomy
  PracticeDays = {1, 2, 3, 4, 5, 6, 7, 8, 9, 10}
  FirstSkill = "throwing"
  Offered <- MCOffered
  MaxAppends = 1
  WindowDays = 6
  Logarithms <- MCLogarithms
  NoSource = NoSource
  Schedules <- MCSchedules
  Zones <- MCZones
  UnknownZone = UnknownZone
  MaxOccurrences = 3
  Uploads <- MCUploads
  MaxRecords = 2
  MaxFieldsPerRecord = 2
  MaxFieldCharacters = 2
  MaxGuardiansPerRow = 1
  LETTER = LETTER
  DELIMITER = DELIMITER
  QUOTE = QUOTE
  LF = LF
  CR = CR
  Hosts <- MCHosts
  Paths = {"server", "extra"}
  StartLimitBurst = 3
  MaxRequests = 2
  MaxAttempts = 4
  Clubs = {red, blue}
  RosterTeam = red
  Players = {kit, kat}
  Viewer = ann
  Kin = {ann, bob}
  Clouds <- MCClouds
  Request = {"health", "app"}
  Versions = {1, 2}
  MaxHistory = 4
  MaxMoves = 2
SPECIFICATION SurroundingsSpec
SYMMETRY Symmetry
INVARIANTS
  CorrectAnswersAreCredited
  DraftsBecomeTheirEvents
  PagesTellTheTruth
  CalculationsAgree
  ProjectionsAreEntitled
  MachineIsAsPlanned
PROPERTIES
  PagesNeverGoBack
CHECK_DEADLOCK FALSE
