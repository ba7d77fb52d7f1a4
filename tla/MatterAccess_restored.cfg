\* A roster edited away and back again.
SPECIFICATION Spec
CONSTANTS
  jane = jane
  admin = admin
  matter = matter
  signature = signature
  listsJane = listsJane
  listsBoth = listsBoth
  listsNobody = listsNobody
  listsTwice = listsTwice
  malformed = malformed
  distinct = distinct
  shared = shared
  ambiguous = ambiguous
  NoDocument = NoDocument
  NoEvent = NoEvent
  Users = {jane, admin}
  Matters = {matter}
  Boundaries = {signature}
  Documents = {listsJane, listsBoth, listsNobody, listsTwice, malformed}
  Says <- MCSays
  Enforced = {listsJane, listsBoth}
  Directories = {distinct, shared, ambiguous}
  Found <- MCFound
  MaxLines = 4
  MaxTime = 1
  MaxFaults = 1
INVARIANT AddedBackRestores
