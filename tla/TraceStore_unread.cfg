SPECIFICATION Spec
CONSTANTS
  gate = gate
  operator = operator
  Pollers = {a}
  Purgers = {c}
  Processes = {gate}
  Home <- OneProcess
  Gate = gate
  WorkProducts = {w}
  SubIssues = {}
  Texts = {text}
  NoText = NoText
  Unparsable = Unparsable
  None = None
  Documents <- MCDocuments
  DefaultRetention = 2
  MaxTime = 2
  MaxPolls = 0
  MaxPurges = 1
  MaxRecords = 2
  MaxDeaths = 1
  MaxFaults = 1
INVARIANT EveryPurgeStrips
CHECK_DEADLOCK FALSE
