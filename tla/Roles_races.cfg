SPECIFICATION RacesSpec
CONSTANTS
  leader = leader
  reviewer = reviewer
  specialist = specialist
  zoe = zoe
  ann = ann
  bob = bob
  room = room
  NoKey = NoKey
  Nobody = Nobody
  Catalog = {leader, reviewer, specialist}
  CustomKeys = {zoe}
  Default <- MCDefault
  Agents = {ann, bob}
  NameOf <- MCName
  RoomIDs = {room}
  Handlers = {h1, h2}
  Payloads <- MCPayloads
  Calls = {"put", "delete", "reset", "assign", "unassign", "register", "deregister", "clear", "restart"}
  Profiles = {work, home}
  Ticker = Ticker
  Button = Button
  Webs = {web}
  Clis = {}
  MaxEvents = 2
  Terminals = {t1, t2}
  Wrapped = {t1}
  Pool = {n1, n2}
  Interval = 1
  Window = 1
SYMMETRY MCSymmetry
INVARIANTS
  SingletonHeld
  RolesFitForOne
  SavedForOne
  IdentitiesApart
PROPERTIES
  NumbersOwn
  AskedOnce
  OpenSessionsKept
CHECK_DEADLOCK FALSE
