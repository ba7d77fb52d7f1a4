\* Registrations, failures, restarts and requests under two settings.
SPECIFICATION Spec
CONSTANTS
  m1 = m1
  m2 = m2
  brief = brief
  roe = roe
  Matters = {m1, m2}
  Documents = {brief}
  Citations = {roe}
  Cites <- DocumentCites
  NoMatter = NoMatter
  NoDocument = NoDocument
  Requests <- MCRequests
  Settings <- MCSettings
  MaxLedger = 3
  MaxEgress = 1
  MaxFaults = 2
INVARIANTS RegistriesFollowLedger FloorsHonoured ClearOnlyIfStandard CitationsVerified
