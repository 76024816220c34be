SPECIFICATION Spec
CONSTANTS
  leader = leader
  reviewer = reviewer
  specialist = specialist
  zoe = zoe
  ann = ann
  bob = bob
  room = room
  NoKey = NoKey
  Nobody = Nobody
  Catalog = {leader, reviewer, specialist}
  CustomKeys = {zoe}
  Default <- MCDefault
  Agents = {ann, bob}
  NameOf <- MCName
  RoomIDs = {room}
  Handlers = {h1}
  Payloads <- MCCyclePayloads
  Calls = {"put"}
INVARIANTS
  NoExtendsCycle
