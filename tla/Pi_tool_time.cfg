SPECIFICATION Spec
CONSTANTS
  IdleTimeout = 3
  ForwardTimeout = 5
  TurnEndGrace = 2
  BusWaits = {1, 4}
  MaxTools = 3
PROPERTIES
  ToolsSuspendBudgets
CHECK_DEADLOCK FALSE
