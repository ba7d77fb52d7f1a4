SPECIFICATION Spec
CONSTANTS
  client = client
  acme = acme
  Commands = {p1, p2}
  Texts = {client, generic}
  Entities = {acme}
  Names <- MCNames
  Skills = {skill}
  Absent = Absent
  Empty = Empty
  HotLines = 1
  MarkerLines = 2
  MaxCommands = 4
  MaxKills = 0
  MaxLaunches = 1
INVARIANT OnlyApproved
CHECK_DEADLOCK FALSE
