CONSTANTS
  Databases = {"postgres"}
  h1 = h1
  h2 = h2
  r1 = r1
  r2 = r2
  r3 = r3
  ann = ann
  bob = bob
  cat = cat
  kit = kit
  kat = kat
  Clients = {h1, h2}
  Dates = {1, 2}
  Times = {0, 1}
  Reasons = {rain}
  Reschedule = Reschedule
  NoReason = NoReason
  NoClient = NoClient
  LastInstant = 3
  InstantFromWallTime <- MCInstant
  Attempts = {r1, r2, r3}
  Accounts = {ann, bob}
  RequestIds = {id}
  Inputs = {game, party}
  NoId = NoId
  Snack = {party}
  NoDuty = NoDuty
  NoSeries = NoSeries
  NoAttempt = NoAttempt
  People = {ann, bob}
  Teams = {red, blue}
  Seasons = {spring}
  Children = {kit}
  Nobody = Nobody
  NoTeam = NoTeam
  NoSeason = NoSeason
  NoChild = NoChild
  Family = {kit, kat}
  Grownups = {ann, bob, cat}
  Managers = {cat}
  Guards <- MCGuards
  Replies = {yes}
  Urls = {u1, u2, u3}
  Feeds = {f1, f2}
  Visits = {h1, h2}
  NoFeed = NoFeed
  NoUrl = NoUrl
  Keys = {kit, kat}
  Guardians = {ann}
  Files <- MCFiles
  Forms = {form1}
  Servers = {h1, h2}
  NoFile = NoFile
  NoPreview = NoPreview
  RosterBound = 2
  SignIns = {r1, r2, r3}
  Challenges = {c1, c2}
  Subjects = {apple}
  Addresses = {e1, e2}
  NoAddress = NoAddress
  NoAccount = NoAccount
SPECIFICATION RecordsSpec
SYMMETRY Symmetry
PROPERTIES
  HumanCancellationStands
CHECK_DEADLOCK FALSE
