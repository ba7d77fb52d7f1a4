SPECIFICATION Spec
CONSTANTS
  Processes = {g1, g2}
  NoProcess = NoProcess
  Junk = Junk
  Tears = {}
  MatterAccess = FALSE
  MaxEntries = 3
  MaxDeaths = 0
CHECK_DEADLOCK FALSE
INVARIANTS
  RegistriesCurrent
