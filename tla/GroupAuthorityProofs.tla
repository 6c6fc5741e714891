-------------------------- MODULE GroupAuthorityProofs --------------------------
(* What every system that implements GroupAuthority promises: a group that is gone *)
(* has nothing left, and a removal that was begun only takes away.                 *)
EXTENDS GroupAuthority, TLAPS

\* Giving up an import leaves nothing because only a registered group was ever named.
Inv == GoneHasNothing /\ \A g \in named : phase[g] \in {"active", "deleting"}

LEMMA InvStays == ASSUME Inv, Next PROVE Inv'
<1> USE DEF Inv, GoneHasNothing, Phases, Active, To
<1>1. CASE Relate
  BY <1>1 DEF Relate
<1>2. ASSUME NEW g \in Groups, Save(g) \/ Register(g) \/ TakeBack(g) \/ Abandon(g) PROVE Inv'
  BY <1>2 DEF Save, Register, TakeBack, Abandon
<1>3. ASSUME NEW g \in Groups, Begin(g) \/ Forget(g) \/ Finish(g) PROVE Inv'
  BY <1>3 DEF Begin, Forget, Finish
<1> QED
  BY <1>1, <1>2, <1>3 DEF Next

LEMMA InvHolds == Spec => []Inv
<1>1. Init => Inv
  BY DEF Init, Inv, GoneHasNothing, Phases, Active
<1>2. Inv /\ [Next]_vars => Inv'
  <2>1. ASSUME Inv, UNCHANGED vars PROVE Inv'
    BY <2>1 DEF Inv, GoneHasNothing, vars
  <2> QED
    BY <2>1, InvStays
<1> QED
  BY <1>1, <1>2, PTL DEF Spec

\* Nothing of a group that is gone is left: no secret, connection, default account or balance
\* (finishGroupRemoval, WalletGroupManager.swift).
THEOREM NothingIsLeft == Spec => []GoneHasNothing
<1>1. Inv => GoneHasNothing
  BY DEF Inv
<1> QED
  BY <1>1, InvHolds, PTL

\* A removal, once it is begun, gives nothing back and can only end, whatever else is imported,
\* connected or removed meanwhile (WalletGroupManager.swift, WalletRegistryAdoption.swift).
THEOREM NothingComesBack == Spec => RemovalOnlyTakes
<1> DEFINE Step == \A g \in Groups : phase[g] \in {"deleting", "gone"} =>
                     /\ phase'[g] \in {phase[g], "gone"}
                     /\ g \in secrets' => g \in secrets
                     /\ g \in named' => g \in named
<1>1. ASSUME Inv, Next PROVE Step
  <2> USE DEF Inv, GoneHasNothing, Phases, Active, To
  <2>1. CASE Relate
    BY <1>1, <2>1 DEF Relate
  <2>2. ASSUME NEW g \in Groups, Save(g) \/ Register(g) \/ TakeBack(g) \/ Abandon(g) PROVE Step
    BY <1>1, <2>2 DEF Save, Register, TakeBack, Abandon
  <2>3. ASSUME NEW g \in Groups, Begin(g) \/ Forget(g) \/ Finish(g) PROVE Step
    BY <1>1, <2>3 DEF Begin, Forget, Finish
  <2> QED
    BY <1>1, <2>1, <2>2, <2>3 DEF Next
<1>2. Inv /\ [Next]_vars => [Step]_vars
  BY <1>1
<1> QED
  BY <1>2, InvHolds, PTL DEF Spec, RemovalOnlyTakes
=============================================================================
