SPECIFICATION Spec
CONSTANTS
  gate = gate
  operator = operator
  Pollers = {a}
  Purgers = {c}
  Processes = {gate}
  Home <- OneProcess
  Gate = gate
  WorkProducts = {w}
  SubIssues = {}
  Texts = {text}
  NoText = NoText
  Unparsable = Unparsable
  None = None
  Documents <- MCDocuments
  DefaultRetention = 2
  MaxTime = 1
  MaxPolls = 0
  MaxPurges = 0
  MaxRecords = 2
  MaxDeaths = 1
  MaxFaults = 1
INVARIANT EveryTraceResolves
CHECK_DEADLOCK FALSE
