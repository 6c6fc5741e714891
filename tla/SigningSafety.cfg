CONSTANTS
  p1 = p1
  p2 = p2
  Procs = {p1, p2}
  NoProc = NoProc
  Home = home
  Chains = {home, other}
  NoChain = NoChain
  Last = 2
  SwitchRequests <- MCItems
  Mixes <- MCMixes
  SwitchMixes <- MCSwitchMixes
  MaxFaults = 1
SPECIFICATION Spec
SYMMETRY MCSymmetry
INVARIANTS
  PaidOnce
  AnswersAreTrue
  OneTransactionPerNonce
  KeyOnlyWhileActive
  RemovedLeavesNothing
  ChainIsDecided
  SomeHandlerGoesOn
CHECK_DEADLOCK FALSE
