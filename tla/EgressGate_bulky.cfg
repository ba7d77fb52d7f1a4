SPECIFICATION Spec
CONSTANTS
  Handlers = {h1}
  Tools = {"court_filing"}
  HumanTools = {"court_filing"}
  p1 = p1
  p2 = p2
  sha = sha
  Payloads = {p1, p2}
  Shas = {sha}
  ShaOf <- MCShaOf
  BulkyPayloads = {p2}
  Issues = {i1}
  NoIssue = NoIssue
  Approvals = {a1, a2}
  NoApproval = NoApproval
  NoRequest = NoRequest
  NoOp = NoOp
  NoPayload = NoPayload
  PollerSha = PollerSha
  MaxRequests = 2
  MaxFaults = 0
  MaxCrashes = 0
CHECK_DEADLOCK FALSE
INVARIANTS
  AnsweredApprovalIsReceipted
