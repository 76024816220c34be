SPECIFICATION RecoverySpec
CONSTANTS
  work = work
  private = private
  Profiles = {work}
  FirstLogins <- Shared
  Handlers = {}
  Ticker = Ticker
  Free = Free
  MaxRescues = 3
  Calls = {"login", "remove", "toggle"}
  MaxToken = 3
  MaxFaults = 1
  MaxStops = 1
  Cap = 1
INVARIANTS
  VerdictsEarned
  NoGhostLeft
PROPERTIES
  LoginsSurvive
  RotationsLand
  InterruptEnds
CHECK_DEADLOCK FALSE
