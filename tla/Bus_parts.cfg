SPECIFICATION PartsSpec
CONSTANTS
  alice = alice
  bob = bob
  carol = carol
  sys = sys
  room = room
  dm = dm
  Nobody = Nobody
  Agents = {alice, bob}
  Humans = {bob}
  RoomIDs = {sys, dm}
  SystemRoom = sys
  Participants <- PairDM
  Handlers = {h1, h2}
  Calls = {"register", "deregister", "join", "leave", "kick_all", "create", "delete", "hide", "show", "attention", "role", "prune", "clear", "restart", "dm"}
  Modes = {"rooms", "presence", "reactions", "images", "records", "names", "sounds", "storage"}
  Workers = {h1, h2}
  Uploads = {u1}
  NoUpload = NoUpload
  Reactors = {r1}
  MaxPosts = 2
  Requests = {h1, h2}
  Scopes = {here, any}
  Anywhere = any
  Curators = {h1, h2}
  Records = {i1, i2}
  Names = {n1, n2}
  Sounds = {s1, s2}
  MemoryCap = 2
  MaxFleets = 1
  MaxSounds = 1
  MaxVersion = 2
  MaxCards = 1
  MaxEdits = 2
SYMMETRY MCSymmetry
INVARIANTS
  MembersRegistered
  HoldersPresent
  ListeningShown
  ReactionsTheirs
  ImagesServed
  SavedWhenQuiet
  SoundsPlayable
  StartsWithLatest
PROPERTIES
  ArrivalShows
  AlertsAlternate
  AlertsDeserved
  ReactionsKept
  CurationKept
CHECK_DEADLOCK FALSE
