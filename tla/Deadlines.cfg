SPECIFICATION Spec
CONSTANTS
  None = None
  Inputs <- MCInputs
INVARIANT FollowsTheRule
CHECK_DEADLOCK FALSE
