-------------------------- MODULE MCSigningApproval --------------------------
EXTENDS SigningApproval, TLC

CONSTANTS p1, p2
MCItems == 1..Last
MCSymmetry == Permutations({p1, p2})

\* Payments of every sort against each other, and each request that does not pay beside one.
MCMixes == {<<"send", "own">>, <<"batch", "own">>, <<"own", "own">>,
            <<"switch", "own">>, <<"siwe", "own">>, <<"message", "own">>}

\* Two requests in a queue: the second can only be approved when the first is decided or has
\* run out.
MCQueues == {<<"send", "send">>, <<"switch", "siwe">>}
MCNoMixes == {}

\* The chain is also switched directly, and its network deleted, beside the switch that a
\* request asks for.
MCSwitchMixes == {<<"switch", "own">>}
=============================================================================
