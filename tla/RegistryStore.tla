---------------------------- MODULE RegistryStore ----------------------------
(* WalletRegistryStore: the wallet registry on disk, for any number of          *)
(* processes and threads (WalletRegistry.swift).  A transition is three durable *)
(* writes under one flock: a journal of the whole transition, the projection    *)
(* file that an older build reads its signing address from, and the registry    *)
(* itself; then the journal is removed.  Every entry first completes the        *)
(* transition it finds in the journal.  Any write may fail before or after it   *)
(* took effect, any process may die between two of them, and a loss of power    *)
(* brings back what the last directory sync, or a write since, left on the disk.*)
(*                                                                              *)
(* Abstracted: a registry is a value with a revision and a home projection;     *)
(* what a transition may change inside it is Transitions (validateTransition).  *)
(* The files never hold data that does not decode.                              *)
EXTENDS Naturals

CONSTANTS
  Procs,        \* processes and threads that open the registry
  NoProc,
  Registries,   \* the registries that validate() accepts
  NoRegistry,   \* no registry file
  Revision,     \* the revision of each registry
  Legacy,       \* the registries of schema 1
  Migrated,     \* what migrateLegacyRegistry makes of each of them
  Transitions,  \* <<from, to>> that create or validateTransition accept
  Addresses,    \* what the projection file may name
  NoAddress,    \* no projection file
  Projection,   \* the projection of each registry
  Foreign       \* the addresses a downgraded build may write to the projection

ASSUME ProcAssumption == NoProc \notin Procs
ASSUME RegistryAssumption ==
  /\ NoRegistry \notin Registries
  /\ Revision \in [Registries -> Nat]
  /\ NoAddress \notin Addresses /\ Foreign \subseteq Addresses
  /\ Projection \in [Registries -> Addresses \cup {NoAddress}]
ASSUME TransitionAssumption ==
  /\ Transitions \subseteq (Registries \cup {NoRegistry}) \X Registries
  /\ \A r \in Registries : <<NoRegistry, r>> \in Transitions => Revision[r] = 0
  /\ \A r, n \in Registries : <<r, n>> \in Transitions => Revision[n] = Revision[r] + 1
ASSUME LegacyAssumption ==
  /\ Legacy \subseteq Registries
  /\ Migrated \in [Legacy -> Registries \ Legacy]
  /\ \A r \in Registries \cup {NoRegistry}, n \in Registries :
       <<r, n>> \in Transitions => n \notin Legacy
  /\ \A r \in Legacy : <<r, Migrated[r]>> \in Transitions

VARIABLES
  files,      \* the three files as any process reads them
  survivors,  \* the contents of the three files that a loss of power may bring back
  lock,       \* who holds the flock
  op,         \* what each process is doing
  known,      \* the registry each process was last given
  acked       \* the last transition reported as done

vars == <<files, survivors, lock, op, known, acked>>

Stored == Registries \cup {NoRegistry}

Transition ==
  {t \in [previous : Stored, next : Registries, oldProjection : Addresses \cup {NoAddress}] :
     <<t.previous, t.next>> \in Transitions}
NoJournal == [previous |-> NoRegistry, next |-> NoRegistry, oldProjection |-> NoAddress]

Files == [registry : Stored, projection : Addresses \cup {NoAddress},
          journal : Transition \cup {NoJournal}]

ProjectionOf(r) == IF r = NoRegistry THEN NoAddress ELSE Projection[r]

\* The registry the next entry will find: a journal is always completed.
Effective(f) == IF f.journal = NoJournal THEN f.registry ELSE f.journal.next

Kinds == {"load", "update", "create", "validate"}

Steps ==
  {"idle", "lock", "recover", "recoverProjection", "recoverRegistry", "recoverRemove",
   "read", "repair", "journal", "projection", "registry", "remove", "restore",
   "removeAborted", "verify", "done", "failed"}

\* An operation: the call, its next step, what follows a recovery, the registry it is
\* about to commit, whether that is the migration of an old one, and (for the proofs
\* only) what was in effect when it took the lock.
Operation ==
  [kind : Kinds \cup {"none"}, at : Steps, after : {"read", "verify"},
   commit : Stored, migrates : BOOLEAN, base : Stored]
Idle == [kind |-> "none", at |-> "idle", after |-> "read", commit |-> NoRegistry,
         migrates |-> FALSE, base |-> NoRegistry]

Init ==
  /\ files \in {[registry |-> r, projection |-> ProjectionOf(r), journal |-> NoJournal] :
                r \in Legacy \cup {NoRegistry}}
  /\ survivors = {files}
  /\ lock = NoProc
  /\ op = [p \in Procs |-> Idle]
  /\ known = [p \in Procs |-> NoRegistry]
  /\ acked = NoRegistry

Goto(p, step) == op' = [op EXCEPT ![p].at = step]

-----------------------------------------------------------------------------
(* Durable writes: a temporary file, a rename, a sync of the directory that     *)
(* holds all three files.  An error leaves the write undone or unsynchronised.  *)

Synced(f) == files' = f /\ survivors' = {f}
Unsynced(f) == files' \in {files, f} /\ survivors' = survivors \cup {files'}

Durably(p, f, next, failed) ==
  /\ \/ Synced(f) /\ Goto(p, next)
     \/ Unsynced(f) /\ Goto(p, failed)
  /\ UNCHANGED <<lock, known, acked>>

Skip(p, next) == Goto(p, next) /\ UNCHANGED <<files, survivors, lock, known, acked>>

\* Removing a projection that is not there touches and synchronises nothing.
Apply(p, address, next, failed) ==
  IF address = NoAddress /\ files.projection = NoAddress
    THEN Skip(p, next)
    ELSE Durably(p, [files EXCEPT !.projection = address], next, failed)

-----------------------------------------------------------------------------
(* Entering and leaving.                                                       *)

Enter(p, kind) ==
  /\ op[p] = Idle
  /\ kind \in {"update", "validate"} => known[p] # NoRegistry
  /\ op' = [op EXCEPT ![p] = [Idle EXCEPT !.kind = kind, !.at = "lock"]]
  /\ UNCHANGED <<files, survivors, lock, known, acked>>

\* Faulty: the lock excludes no one.
AcquireShared(p) ==
  /\ op[p].at = "lock"
  /\ lock' = p
  /\ op' = [op EXCEPT ![p].at = "recover", ![p].base = Effective(files)]
  /\ UNCHANGED <<files, survivors, known, acked>>

Acquire(p) ==
  /\ op[p].at = "lock" /\ lock = NoProc
  /\ lock' = p
  /\ op' = [op EXCEPT ![p].at = "recover", ![p].base = Effective(files)]
  /\ UNCHANGED <<files, survivors, known, acked>>

Unlock(p) == lock' = NoProc /\ op' = [op EXCEPT ![p] = Idle] /\ UNCHANGED <<files, survivors>>

Return(p) ==
  /\ op[p].at = "done"
  /\ known' = CASE op[p].kind = "load" -> [known EXCEPT ![p] = files.registry]
                [] op[p].kind = "validate" -> known
                [] OTHER -> [known EXCEPT ![p] = op[p].commit]
  /\ acked' = IF op[p].kind \in {"update", "create"} THEN op[p].commit ELSE acked
  /\ Unlock(p)

Throw(p) == op[p].at = "failed" /\ Unlock(p) /\ UNCHANGED <<known, acked>>

-----------------------------------------------------------------------------
(* recoverTransitionUnlocked.                                                  *)

ReadJournal(p) ==
  /\ op[p].at = "recover"
  /\ \/ files.journal = NoJournal /\ Skip(p, op[p].after)
     \/ /\ files.journal # NoJournal
        /\ Skip(p, IF files.registry \in {files.journal.previous, files.journal.next}
                     THEN "recoverProjection" ELSE "failed")

RecoverProjection(p) ==
  /\ op[p].at = "recoverProjection"
  /\ Apply(p, ProjectionOf(files.journal.next), "recoverRegistry", "failed")

\* Faulty: a transition whose registry was not written is dropped instead of completed.
RecoverBackward(p) == op[p].at = "recoverRegistry" /\ Skip(p, "recoverRemove")

RecoverRegistry(p) ==
  /\ op[p].at = "recoverRegistry"
  /\ IF files.registry = files.journal.next
       THEN Skip(p, "recoverRemove")
       ELSE Durably(p, [files EXCEPT !.registry = files.journal.next], "recoverRemove", "failed")

RecoverRemove(p) ==
  /\ op[p].at = "recoverRemove"
  /\ Durably(p, [files EXCEPT !.journal = NoJournal], op[p].after, "failed")

-----------------------------------------------------------------------------
(* The body of each entry: loadRegistryUnlocked, and what follows it.           *)

Begin(p, next, migrates) ==
  /\ op' = [op EXCEPT ![p].at = "journal", ![p].commit = next, ![p].migrates = migrates]
  /\ UNCHANGED <<files, survivors, lock, known, acked>>

MigrateLegacy(p) ==
  /\ op[p].at = "read" /\ files.registry \in Legacy
  /\ Begin(p, Migrated[files.registry], TRUE)

ReadForLoad(p) ==
  /\ op[p].at = "read" /\ op[p].kind = "load" /\ files.registry \notin Legacy
  /\ Skip(p, IF files.registry = NoRegistry THEN "done" ELSE "repair")

\* Faulty: an existing projection is trusted.
RepairMissingOnly(p) ==
  /\ op[p].at = "repair"
  /\ IF files.projection # NoAddress
       THEN Skip(p, "done")
       ELSE Apply(p, Projection[files.registry], "done", "failed")

RepairProjection(p) ==
  /\ op[p].at = "repair"
  /\ IF files.projection = Projection[files.registry]
       THEN Skip(p, "done")
       ELSE Apply(p, Projection[files.registry], "done", "failed")

\* The transform may throw, and so may validate and validateTransition.
ReadForUpdate(p) ==
  /\ op[p].at = "read" /\ op[p].kind = "update" /\ files.registry \notin Legacy
  /\ \/ /\ files.registry # NoRegistry
        /\ Revision[files.registry] = Revision[known[p]]
        /\ \E next \in Registries :
             <<files.registry, next>> \in Transitions /\ Begin(p, next, FALSE)
     \/ Skip(p, "failed")

ReadForCreate(p) ==
  /\ op[p].at = "read" /\ op[p].kind = "create" /\ files.registry \notin Legacy
  /\ \/ /\ files.registry = NoRegistry
        /\ \E next \in Registries :
             <<NoRegistry, next>> \in Transitions /\ Begin(p, next, FALSE)
     \/ Skip(p, "failed")

ReadForValidate(p) ==
  /\ op[p].at = "read" /\ op[p].kind = "validate" /\ files.registry \notin Legacy
  /\ Skip(p, IF files.registry = known[p] /\ files.projection = Projection[known[p]]
               THEN "done" ELSE "failed")

-----------------------------------------------------------------------------
(* commitTransitionUnlocked and commitOrRecoverUnlocked.                        *)

Committed(p) == IF op[p].migrates THEN "read" ELSE "done"

\* A failed commit recovers, then looks whether its registry is in place after all.
DurablyOrRecover(p, f, next) ==
  /\ \/ Synced(f) /\ Goto(p, next)
     \/ /\ Unsynced(f)
        /\ op' = [op EXCEPT ![p].at = "recover", ![p].after = "verify"]
  /\ UNCHANGED <<lock, known, acked>>

WriteJournal(p) ==
  /\ op[p].at = "journal"
  /\ DurablyOrRecover(p,
       [files EXCEPT !.journal = [previous |-> files.registry, next |-> op[p].commit,
                                  oldProjection |-> files.projection]], "projection")

ApplyProjection(p) ==
  /\ op[p].at = "projection"
  /\ Apply(p, ProjectionOf(op[p].commit), "registry", "restore")

\* A projection that cannot be applied is put back and the transition given up.
RestoreProjection(p) ==
  /\ op[p].at = "restore"
  /\ IF files.journal.oldProjection = NoAddress /\ files.projection = NoAddress
       THEN Skip(p, "removeAborted")
       ELSE DurablyOrRecover(p, [files EXCEPT !.projection = files.journal.oldProjection],
                             "removeAborted")

RemoveAborted(p) ==
  /\ op[p].at = "removeAborted"
  /\ \/ Synced([files EXCEPT !.journal = NoJournal])
     \/ Unsynced([files EXCEPT !.journal = NoJournal])
  /\ op' = [op EXCEPT ![p].at = "recover", ![p].after = "verify"]
  /\ UNCHANGED <<lock, known, acked>>

WriteRegistry(p) ==
  /\ op[p].at = "registry"
  /\ DurablyOrRecover(p, [files EXCEPT !.registry = op[p].commit], "remove")

RemoveJournal(p) ==
  /\ op[p].at = "remove"
  /\ DurablyOrRecover(p, [files EXCEPT !.journal = NoJournal], Committed(p))

\* Faulty: a commit that was recovered is taken to have succeeded.
VerifyTrusting(p) == op[p].at = "verify" /\ Skip(p, Committed(p))

\* Faulty: a transition that did not commit is tried again until it does.
VerifyRetrying(p) ==
  /\ op[p].at = "verify"
  /\ IF files.registry = op[p].commit
       THEN Skip(p, Committed(p))
       ELSE Begin(p, op[p].commit, op[p].migrates)

\* loadRegistryUnlocked again: a registry of the old schema starts its migration over.
Verify(p) ==
  /\ op[p].at = "verify"
  /\ IF files.registry \in Legacy
       THEN Begin(p, Migrated[files.registry], TRUE)
       ELSE Skip(p, IF files.registry = op[p].commit THEN Committed(p) ELSE "failed")

\* A file that exists cannot be read, or the body of withLockedReady throws.
ReadFails(p) ==
  /\ \/ op[p].at \in {"recover", "read", "repair", "verify"}
     \/ op[p].at = "done" /\ op[p].kind = "load"
  /\ Skip(p, "failed")

-----------------------------------------------------------------------------
(* The environment.                                                            *)

\* A process dies at any point; the kernel drops its flock.
Crash(p) ==
  /\ op[p] # Idle \/ known[p] # NoRegistry
  /\ op' = [op EXCEPT ![p] = Idle]
  /\ known' = [known EXCEPT ![p] = NoRegistry]
  /\ lock' = IF lock = p THEN NoProc ELSE lock
  /\ UNCHANGED <<files, survivors, acked>>

PowerLoss ==
  /\ files' \in survivors
  /\ survivors' = {files'}
  /\ lock' = NoProc
  /\ op' = [p \in Procs |-> Idle]
  /\ known' = [p \in Procs |-> NoRegistry]
  /\ UNCHANGED acked

\* An older build runs in place of this one and writes its own active address.
Downgrade(address) ==
  /\ \A p \in Procs : op[p] = Idle
  /\ files.registry # NoRegistry
  /\ Unsynced([files EXCEPT !.projection = address])
  /\ UNCHANGED <<lock, op, known, acked>>

Continue(p) ==
  \/ ReadJournal(p) \/ RecoverProjection(p) \/ RecoverRegistry(p) \/ RecoverRemove(p)
  \/ MigrateLegacy(p) \/ ReadForLoad(p) \/ RepairProjection(p)
  \/ ReadForUpdate(p) \/ ReadForCreate(p) \/ ReadForValidate(p)
  \/ WriteJournal(p) \/ ApplyProjection(p) \/ RestoreProjection(p) \/ RemoveAborted(p)
  \/ WriteRegistry(p) \/ RemoveJournal(p) \/ Verify(p) \/ ReadFails(p)
  \/ Return(p) \/ Throw(p)

Next ==
  \/ \E p \in Procs : \/ \E kind \in Kinds : Enter(p, kind)
                      \/ Acquire(p) \/ Continue(p) \/ Crash(p)
  \/ PowerLoss
  \/ \E address \in Foreign : Downgrade(address)

Spec == Init /\ [][Next]_vars

\* The holder of the lock runs on, and flock grants it to a waiting process in the end.
FairSpec == Spec /\ \A p \in Procs : WF_vars(Continue(p)) /\ SF_vars(Acquire(p))

-----------------------------------------------------------------------------
TypeOK ==
  /\ files \in Files
  /\ survivors \subseteq Files
  /\ lock \in Procs \cup {NoProc}
  /\ op \in [Procs -> Operation]
  /\ known \in [Procs -> Stored]
  /\ acked \in Stored

\* What a loss of power or a process death leaves on the disk can always be opened: the
\* journal's transition starts from, or has reached, the registry beside it.  Otherwise
\* every later entry would throw transitionConflict.
AlwaysRecoverable ==
  \A f \in survivors \cup {files} :
    f.journal # NoJournal => f.registry \in {f.journal.previous, f.journal.next}

\* The projection is fail-closed: in every state a crash can expose, it names no account
\* but the home of the stored registry, of the transition in the journal, or what a
\* downgraded build wrote.
ProjectionFailsClosed ==
  \A f \in survivors \cup {files} :
    f.projection \in {NoAddress, ProjectionOf(f.registry), ProjectionOf(f.journal.next)}
                       \cup Foreign

\* A transition reported as done outlives every crash and loss of power.
SuccessIsDurable ==
  acked # NoRegistry =>
    \A f \in survivors \cup {files} :
      /\ Effective(f) # NoRegistry
      /\ Effective(f) = acked \/ Revision[Effective(f)] > Revision[acked]

\* Equal revisions mean equal registries, so comparing revisions compares contents: what a
\* process was last given is the stored registry or an older revision of it.
RevisionNamesContent ==
  \A p \in Procs :
    known[p] # NoRegistry /\ files.registry # NoRegistry
      /\ Revision[files.registry] <= Revision[known[p]] => files.registry = known[p]

\* An entry that succeeds leaves no journal, and the projection of its registry.
ReturnsConsistent ==
  \A p \in Procs :
    op[p].at = "done" =>
      files.journal = NoJournal /\ files.projection = ProjectionOf(files.registry)

\* Every entry returns, whatever fails on its way.
EntryReturns == \A p \in Procs : op[p].at # "idle" ~> op[p] = Idle

\* "A projection failure before registry commit restores the previous projection and leaves
\* the previous registry": a transition that meets failures is given up.  (The code's
\* migration of a schema-1 registry meets its own failure by migrating again, without end.)
FailureEndsTransition ==
  \A p \in Procs : op[p].at = "restore" ~> op[p].at \in {"idle", "failed", "done"}

\* The store is a compare-and-swap register: what a holder of the lock does shows when it
\* lets go of it.
Atomic == INSTANCE AtomicRegistry WITH
  registry <- IF lock = NoProc THEN Effective(files) ELSE op[lock].base,
  unsure <- {Effective(f) : f \in survivors},
  calls <- [p \in Procs |-> IF op[p] = Idle THEN "idle" ELSE op[p].kind]

Implements == Atomic!Spec
=============================================================================
