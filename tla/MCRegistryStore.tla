--------------------------- MODULE MCRegistryStore ---------------------------
(* Small instances of RegistryStore for TLC.                                 *)
EXTENDS RegistryStore, TLC

CONSTANTS p1, p2, a1, a2, MaxRevision, OldSchema, Homes

\* A registry is its revision, its home projection and its schema.
MCRegistries ==
  [revision : 0..MaxRevision, home : Homes, old : {FALSE}]
    \cup IF OldSchema THEN [revision : {0}, home : {a1}, old : {TRUE}] ELSE {}
MCLegacy == {r \in MCRegistries : r.old}
MCRevision == [r \in MCRegistries |-> r.revision]
MCProjection == [r \in MCRegistries |-> r.home]
MCMigrated == [r \in MCLegacy |-> [revision |-> r.revision + 1, home |-> r.home, old |-> FALSE]]
MCTransitions ==
  {<<NoRegistry, r>> : r \in {n \in MCRegistries : n.revision = 0 /\ ~n.old}} \cup
  {t \in MCRegistries \X MCRegistries :
     /\ t[2].revision = t[1].revision + 1 /\ ~t[2].old
     /\ t[1].old => t[2].home = t[1].home}

MCSymmetry == Permutations({p1, p2})
=============================================================================
