SPECIFICATION Spec
CONSTANTS
  gate = gate
  operator = operator
  Pollers = {a, b}
  Purgers = {c}
  Processes = {gate}
  Home <- OneProcess
  Gate = gate
  WorkProducts = {w}
  SubIssues = {s}
  Texts = {text}
  NoText = NoText
  Unparsable = Unparsable
  None = None
  Documents <- MCDocuments
  DefaultRetention = 2
  MaxTime = 2
  MaxPolls = 2
  MaxPurges = 2
  MaxRecords = 2
  MaxDeaths = 1
  MaxFaults = 1
INVARIANT NoSilentGap
INVARIANT RepeatsOnlyAfterFailure
INVARIANT BoundTraceKept
INVARIANT ExpiredTextGone
CONSTRAINT Bounded
SYMMETRY Symmetry
CHECK_DEADLOCK FALSE
