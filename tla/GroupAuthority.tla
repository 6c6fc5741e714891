---------------------------- MODULE GroupAuthority ----------------------------
(* What the rest of the wallet may rely on about the life of a wallet group,    *)
(* however imports, connections and removals interleave, fail and are resumed:  *)
(* authority is given only to an active group, a removal only takes away, and   *)
(* a group is gone only when nothing of it is left, and for ever.               *)
CONSTANTS
  Groups      \* every group there may ever be

VARIABLES
  phase,      \* of each group: not yet registered, active, in deletion, or gone
  secrets,    \* the groups whose secret exists
  named       \* the groups that a connection, a default account or a balance names

vars == <<phase, secrets, named>>

Phases == {"new", "active", "deleting", "gone"}
Active == {g \in Groups : phase[g] = "active"}

Init ==
  /\ phase \in [Groups -> {"new", "active"}]
  /\ secrets \subseteq Groups
  /\ named \subseteq Active

To(g, next) == phase' = [phase EXCEPT ![g] = next]

-----------------------------------------------------------------------------
(* Import.  A watched group has no secret, and a key may be there already.      *)

Save(g) ==
  /\ phase[g] = "new"
  /\ secrets' = secrets \cup {g} /\ UNCHANGED <<phase, named>>

Register(g) ==
  /\ phase[g] = "new" /\ To(g, "active")
  /\ secrets' \in {secrets, secrets \cup {g}} /\ UNCHANGED named

Abandon(g) ==
  /\ phase[g] = "new" /\ To(g, "gone")
  /\ secrets' = secrets \ {g} /\ UNCHANGED named

\* An import that was answered with an error takes its secret back, although the group may
\* have been registered.
TakeBack(g) ==
  /\ phase[g] \in {"new", "active"}
  /\ secrets' = secrets \ {g} /\ UNCHANGED <<phase, named>>

-----------------------------------------------------------------------------
(* Connections and balances come and go, and are only added for active groups.  *)

Relate == named' \subseteq named \cup Active /\ UNCHANGED <<phase, secrets>>

-----------------------------------------------------------------------------
(* Removal.                                                                     *)

Begin(g) == phase[g] = "active" /\ To(g, "deleting") /\ UNCHANGED <<secrets, named>>

Forget(g) ==
  /\ phase[g] = "deleting"
  /\ secrets' = secrets \ {g} /\ UNCHANGED <<phase, named>>

Finish(g) ==
  /\ phase[g] = "deleting" /\ g \notin secrets /\ g \notin named
  /\ To(g, "gone") /\ UNCHANGED <<secrets, named>>

-----------------------------------------------------------------------------
Next ==
  \/ Relate
  \/ \E g \in Groups :
       \/ Save(g) \/ Register(g) \/ Abandon(g) \/ TakeBack(g)
       \/ Begin(g) \/ Forget(g) \/ Finish(g)

Spec == Init /\ [][Next]_vars

\* Nothing of a group that is gone is left, and it has no authority to lose any more.
GoneHasNothing ==
  /\ secrets \subseteq Groups /\ named \subseteq Groups /\ phase \in [Groups -> Phases]
  /\ \A g \in Groups : phase[g] = "gone" => g \notin secrets /\ g \notin named

\* A removal, once begun, only takes away and only ends.
RemovalOnlyTakes ==
  [][\A g \in Groups : phase[g] \in {"deleting", "gone"} =>
       /\ phase'[g] \in {phase[g], "gone"}
       /\ g \in secrets' => g \in secrets
       /\ g \in named' => g \in named]_vars
=============================================================================
