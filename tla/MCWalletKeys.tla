---------------------------- MODULE MCWalletKeys ----------------------------
EXTENDS WalletKeys, TLC

\* Both indices have a child; the first has none, because its hash is the order or makes the
\* sum zero; neither has one.
Seed(secret, first, second) == [parent |-> secret, childHash |-> 0 :> first @@ 1 :> second]
MCSeeds == {Seed(1, 5, 9), Seed(1, N, 9), Seed(22, 9, 5), Seed(30, N + 1, N)}
MCDigests == {0, 1, 2, 15, 16, N - 1, N, N + 1, LastWord}
=============================================================================
