SPECIFICATION Spec
CONSTANTS
  App = App
  Extensions = {ext}
  NoProc = NoProc
  seed = seed
  first = first
  second = second
  Seeds = {seed}
  Keys = {first}
  Watched = {second}
  Addresses = {first, second}
  NoAddress = NoAddress
  Derived <- MCDerived
  Limit = 2
  MaxGroups = 2
  MaxFaults = 2
INVARIANTS NeverRefused AdoptionAccepts
PROPERTIES Implements RemovalLeavesNothing RemovalIsLocal
