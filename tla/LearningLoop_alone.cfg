SPECIFICATION Spec
CONSTANTS
  client = client
  acme = acme
  Commands = {p1}
  Texts = {client, generic}
  Entities = {acme}
  Names <- MCNames
  Skills = {skill}
  Absent = Absent
  Empty = Empty
  HotLines = 1
  MarkerLines = 2
  MaxCommands = 5
  MaxKills = 1
  MaxLaunches = 1
INVARIANT OnlyApproved
INVARIANT WallAtLaunch
INVARIANT MemoryFollowsLedger
INVARIANT RecordsStand
INVARIANT ApprovedInstalled
CHECK_DEADLOCK FALSE
