SPECIFICATION Spec
CONSTANTS
  gate = gate
  operator = operator
  Pollers = {a, b}
  Purgers = {c}
  Processes = {gate, operator}
  Home <- PurgeApart
  Gate = gate
  WorkProducts = {w}
  SubIssues = {s}
  Texts = {text}
  NoText = NoText
  Unparsable = Unparsable
  None = None
  Documents <- MCDocuments
  DefaultRetention = 2
  MaxTime = 2
  MaxPolls = 2
  MaxPurges = 1
  MaxRecords = 2
  MaxDeaths = 1
  MaxFaults = 1
INVARIANT BoundTraceKept
CHECK_DEADLOCK FALSE
