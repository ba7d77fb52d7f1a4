SPECIFICATION Spec
SYMMETRY Symmetry
CONSTANTS
  Handlers = {h1, h2}
  Tools = {"court_filing"}
  HumanTools = {"court_filing"}
  p1 = p1
  p2 = p2
  sha = sha
  Payloads = {p1, p2}
  Shas = {sha}
  ShaOf <- MCShaOf
  BulkyPayloads = {p2}
  Issues = {}
  NoIssue = NoIssue
  Approvals = {a1, a2}
  NoApproval = NoApproval
  NoRequest = NoRequest
  NoOp = NoOp
  NoPayload = NoPayload
  PollerSha = PollerSha
  MaxRequests = 3
  MaxFaults = 1
  MaxCrashes = 1
CHECK_DEADLOCK FALSE
INVARIANTS
  TypeOK
  HumanGateHonoured
  AtMostOnceDispatch
  ReservedBeforeDispatch
  AckedIsDurable
  HonestLedger
PROPERTIES
  ImplementsOneShot
