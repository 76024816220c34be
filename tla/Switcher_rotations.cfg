SPECIFICATION Spec
CONSTANTS
  Profiles = {work, home}
  Accounts = {a1, a2}
  Nobody = Nobody
  MaxBackups = 3
  Calls = {"switch", "add", "import", "rename", "remove", "rotate", "login", "logout"}
  MaxWaiting = 1
  MaxGen = 2
  MaxAccidents = 1
SYMMETRY MCSymmetry
INVARIANTS
  LoginsKept
CHECK_DEADLOCK FALSE
