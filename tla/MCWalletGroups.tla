---------------------------- MODULE MCWalletGroups ----------------------------
EXTENDS WalletGroups, TLC

\* One seed phrase with two indexes; the user also has the private key of its first account
\* and may watch its second one.
CONSTANTS seed, first, second
MCDerived == seed :> (0 :> first @@ 1 :> second)
=============================================================================
