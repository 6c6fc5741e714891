-------------------------- MODULE MCConnectApproval --------------------------
(* Small instances of ConnectApproval for TLC.                               *)
EXTENDS ConnectApproval, TLC

CONSTANTS p1, p2, g1, g2, a1, a2, s1

\* Each group owns one account.
MCGroupOf == a1 :> g1 @@ a2 :> g2

MCOneGroup == a1 :> g1

\* Every handler, or those of one question.
MCAll == Kinds
MCDelete == {"prepare", "approve", "delete"}
MCNoRebind == {"prepare", "approve", "reject", "status", "delete"}

\* All requests come from one site and profile.
MCOneSite == [r \in Requests |-> s1]

\* Handlers are interchangeable, and so are the two groups with their accounts.
MCSymmetry ==
  {h @@ w : h \in Permutations({p1, p2}),
            w \in {g1 :> g1 @@ g2 :> g2 @@ a1 :> a1 @@ a2 :> a2,
                   g1 :> g2 @@ g2 :> g1 @@ a1 :> a2 @@ a2 :> a1}}
=============================================================================
