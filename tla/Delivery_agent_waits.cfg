SPECIFICATION SideSpec
CONSTANTS
  alice = alice
  bob = bob
  sys = sys
  dm = dm
  room = room
  System = System
  Everywhere = Everywhere
  Agents = {alice, bob}
  Humans = {bob}
  RoomIDs = {sys, room}
  SystemRoom = sys
  Peers <- MCPeers
  Posters = {p1}
  Listeners = {w1, w2}
  ServeTwoWaits = TRUE
  Readers = {bob}
  Calls = {"join", "leave", "create", "announce", "send", "agent_wait"}
  ChanCap = 1
  RecentWindow = 5
  MaxID = 5
  MaxCrashes = 0
  States = {"working", "waiting", "thinking"}
  Nothing = "none"
  IdleTimeout = 3
  ForwardTimeout = 5
  TurnEndGrace = 2
  BusWaits = {1, 4}
  MaxTools = 3
  Profiles = {work, home}
  Accounts = {a1, a2}
  Nobody = Nobody
  MaxBackups = 3
  MaxRescues = 2
  MaxCalls = 2
  MaxGen = 2
  MaxAccidents = 1
INVARIANTS
  LostOnlyByRaces
  LatestOnItsWay
  StallsNoticed
  LoginsKept
PROPERTIES
  ReadersCatchUp
  LoginFiled
  CopyFollows
CHECK_DEADLOCK FALSE
