CONSTANTS
  MaxRequests = 1
  MaxRevision = 1
  MaxCrashes = 1
  p1 = p1
  p2 = p2
  g1 = g1
  g2 = g2
  a1 = a1
  a2 = a2
  s1 = s1
  Operations <- MCAll
  Procs = {p1, p2}
  Groups = {g1, g2}
  Accounts = {a1, a2}
  Sites = {s1}
  GroupOf <- MCGroupOf
  SiteOf <- MCOneSite
  NoAccount = NoAccount
  NoGroup = NoGroup
  NoProc = NoProc
SPECIFICATION Spec
CHECK_DEADLOCK FALSE
PROPERTIES OnlyOwnRequestsFail
