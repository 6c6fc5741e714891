CONSTANTS
  a1 = a1
  a2 = a2
  https = https
  http = http
  chrome = chrome
  domain = domain
  None = None
  Accounts = {a1, a2}
  SafariSites = {https, http}
  ChromeSites = {chrome}
  Domains = {domain}
  Domain <- MCDomain
SPECIFICATION Spec
SYMMETRY MCSymmetry
INVARIANTS
  DisconnectedStaysHidden
PROPERTIES
  OnlyTheNamedAccountLeaves
