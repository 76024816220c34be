SPECIFICATION RacesSpec
CONSTANTS
  alice = alice
  bob = bob
  sys = sys
  dm = dm
  room = room
  System = System
  Everywhere = Everywhere
  Agents = {alice, bob}
  Humans = {}
  RoomIDs = {sys, dm}
  SystemRoom = sys
  Peers <- MCPeers
  Posters = {p1, p2}
  Listeners = {w1}
  ServeTwoWaits = FALSE
  Readers = {bob}
  Calls = {"dm", "delete", "send", "room_wait", "mark_read", "replay"}
  ChanCap = 1
  RecentWindow = 5
  MaxID = 5
  MaxCrashes = 1
SYMMETRY MCSymmetry
INVARIANTS
  UniqueIDs
  LostOnlyByRaces
  RepeatedOnlyOutOfOrder
PROPERTIES
  LedgerSpec
