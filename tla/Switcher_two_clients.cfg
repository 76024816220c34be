SPECIFICATION Spec
CONSTANTS
  Profiles = {work, home, spare}
  Accounts = {a1, a2}
  Nobody = Nobody
  MaxBackups = 2
  Calls = {"switch", "add", "import", "login"}
  MaxWaiting = 2
  MaxGen = 1
  MaxAccidents = 0

PROPERTIES
  OnlyDanglingDropped
CHECK_DEADLOCK FALSE
