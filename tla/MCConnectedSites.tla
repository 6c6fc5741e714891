--------------------------- MODULE MCConnectedSites ---------------------------
EXTENDS ConnectedSites, TLC

CONSTANTS a1, a2, https, http, chrome, domain

\* One domain, with two origins in Safari and one in Chrome.
MCDomain == [s \in {https, http, chrome} |-> domain]
MCSymmetry == Permutations({a1, a2}) \cup Permutations({https, http})
=============================================================================
