SPECIFICATION FairSpec
CONSTANTS
  Handlers = {h1}
  Tools = {"court_filing", "send_email"}
  HumanTools = {"court_filing"}
  p1 = p1
  p2 = p2
  sha = sha
  Payloads = {p1}
  Shas = {sha}
  ShaOf <- MCShaOf
  BulkyPayloads = {}
  Issues = {i1}
  NoIssue = NoIssue
  Approvals = {a1, a2}
  NoApproval = NoApproval
  NoRequest = NoRequest
  NoOp = NoOp
  NoPayload = NoPayload
  PollerSha = PollerSha
  MaxRequests = 2
  MaxFaults = 1
  MaxCrashes = 1
CHECK_DEADLOCK FALSE
PROPERTY RejectionNoticed
