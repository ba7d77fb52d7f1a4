SPECIFICATION FairSpec
CONSTANTS
  Processes = {g1, g2}
  NoProcess = NoProcess
  Junk = Junk
  Tears = {"part"}
  MatterAccess = FALSE
  MaxEntries = 4
  MaxDeaths = 2
CHECK_DEADLOCK FALSE
INVARIANTS
  TypeOK
  OneWriter
  ChainUnforked
  AckedStored
PROPERTIES
  ImplementsLedger
  ShutdownFreesLease
