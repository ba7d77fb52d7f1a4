SPECIFICATION Spec
CONSTANTS
  Processes = {g1, g2}
  NoProcess = NoProcess
  Junk = Junk
  Tears = {}
  MatterAccess = TRUE
  MaxEntries = 4
  MaxDeaths = 0
CHECK_DEADLOCK FALSE
INVARIANTS
  ChainVerifies
