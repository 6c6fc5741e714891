SPECIFICATION FairSpec
CONSTANTS
  App = App
  Extensions = {ext}
  NoProc = NoProc
  seed = seed
  first = first
  second = second
  Seeds = {seed}
  Keys = {}
  Watched = {}
  Addresses = {first, second}
  NoAddress = NoAddress
  Derived <- MCDerived
  Limit = 2
  MaxGroups = 1
  MaxFaults = 1
PROPERTIES RemovalFinishes OperationEnds
