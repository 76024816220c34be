SPECIFICATION SwitchSpec
CONSTANTS
  work = work
  private = private
  Profiles = {work, private}
  FirstLogins <- Shared
  Handlers = {h1}
  Ticker = Ticker
  Free = Free
  MaxRescues = 3
  Calls = {"switch"}
  MaxToken = 3
  MaxFaults = 1
  MaxStops = 0
INVARIANTS
  SingleFlight
  RespentOnlyThroughGaps
  RotationKept
CHECK_DEADLOCK FALSE
