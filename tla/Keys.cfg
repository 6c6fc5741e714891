CONSTANTS
  P = 43
  N = 31
  Gx = 2
  Gy = 12
  LastWord = 47
  LastIndex = 1
  Seeds <- MCSeeds
  Digests <- MCDigests
SPECIFICATION Spec
INVARIANTS
  SignaturesNameTheirAccount
  OneFormOfSignature
  PublicFollowsSecret
CHECK_DEADLOCK FALSE
