CONSTANTS
  MaxRequests = 1
  MaxRevision = 0
  MaxCrashes = 2
  p1 = p1
  p2 = p2
  g1 = g1
  g2 = g2
  a1 = a1
  a2 = a2
  s1 = s1
  Operations <- MCNoRebind
  Procs = {p1, p2}
  Groups = {g1}
  Accounts = {a1}
  Sites = {s1}
  GroupOf <- MCOneGroup
  SiteOf <- MCOneSite
  NoAccount = NoAccount
  NoGroup = NoGroup
  NoProc = NoProc
SPECIFICATION ServedSpec
CHECK_DEADLOCK FALSE
PROPERTIES HandlersReturn DeletionFinishes CommittedConnectSettles
