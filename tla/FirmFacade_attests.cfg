SPECIFICATION Spec
CONSTANTS
  None = None
  Malformed = Malformed
  Company = Company
  RequireAuth = TRUE
  facade = facade
  clerk = clerk
  m1 = m1
  other = other
  fresh = fresh
  a1 = a1
  a2 = a2
  Agents = {facade, clerk}
  Callers = {1, 2}
  Matters = {m1, other, fresh}
  Foreign = {other}
  Fresh = {fresh}
  Products <- MCProducts
  Approvals = {a1}
  Facade = facade
  Policies <- MCPolicies
  Posts <- MCPosts
  MaxWork = 2
INVARIANT AttestedWasDecided
CHECK_DEADLOCK FALSE
