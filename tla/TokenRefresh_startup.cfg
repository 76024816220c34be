SPECIFICATION Spec
CONSTANTS
  work = work
  private = private
  Profiles = {work}
  FirstLogins <- Shared
  Handlers = {h1}
  Ticker = Ticker
  Free = Free
  MaxRescues = 3
  Calls = {"switch"}
  MaxToken = 2
  MaxFaults = 0
  MaxStops = 0
INVARIANTS
  RunsKeepDirectory
CHECK_DEADLOCK FALSE
