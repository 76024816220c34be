SPECIFICATION Spec
CONSTANTS
  alice = alice
  bob = bob
  sys = sys
  dm = dm
  room = room
  System = System
  Everywhere = Everywhere
  Agents = {alice, bob}
  Humans = {}
  RoomIDs = {sys, dm}
  SystemRoom = sys
  Peers <- MCPeers
  Posters = {p1}
  Listeners = {w1}
  ServeTwoWaits = FALSE
  Readers = {bob}
  Calls = {"dm", "delete", "send", "room_wait"}
  ChanCap = 2
  RecentWindow = 5
  MaxID = 6
  MaxCrashes = 1
PROPERTIES
  SendReachesMembers
