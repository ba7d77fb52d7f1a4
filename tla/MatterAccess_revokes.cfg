\* Revokes and roster edits, with failing appends and torn ledgers.
SPECIFICATION Spec
CONSTANTS
  jane = jane
  admin = admin
  matter = matter
  signature = signature
  listsJane = listsJane
  listsBoth = listsBoth
  listsNobody = listsNobody
  listsTwice = listsTwice
  malformed = malformed
  distinct = distinct
  shared = shared
  ambiguous = ambiguous
  NoDocument = NoDocument
  NoEvent = NoEvent
  Users = {jane, admin}
  Matters = {matter}
  Boundaries = {signature}
  Documents = {listsJane, listsBoth, listsNobody, listsTwice, malformed}
  Says <- MCSays
  Enforced = {listsJane, listsBoth}
  Directories = {distinct, shared, ambiguous}
  Found <- MCFound
  MaxLines = 4
  MaxTime = 1
  MaxFaults = 1
INVARIANTS RestartAgrees RevokeHolds GrantUntilExpiry OnlyTheNamed
