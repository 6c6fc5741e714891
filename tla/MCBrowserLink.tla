---------------------------- MODULE MCBrowserLink ----------------------------
EXTENDS BrowserLink, TLC

CONSTANTS a1, a2
MCSymmetry == Permutations({a1, a2})
=============================================================================
