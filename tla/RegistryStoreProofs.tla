------------------------- MODULE RegistryStoreProofs -------------------------
(* What RegistryStore guarantees for any number of processes, registries,       *)
(* transitions and addresses, and for any sequence of failed writes, deaths,    *)
(* losses of power and downgrades.  Only the holder of the lock touches the     *)
(* files, so the inductive invariant has one part about the files that a crash  *)
(* can expose and one about how far the holder of the lock has come.            *)
EXTENDS RegistryStore, TLAPS

-----------------------------------------------------------------------------
(* The inductive invariant.                                                    *)

\* r is s or a later revision of the registry.
Since(s, r) ==
  s # NoRegistry => r # NoRegistry /\ (r = s \/ Revision[r] > Revision[s])

\* What a crash can expose can be recovered and fails closed.
FileOK(f) ==
  /\ f.projection \in {NoAddress, ProjectionOf(f.registry), ProjectionOf(f.journal.next)} \cup Foreign
  /\ f.registry = NoRegistry => f.projection \in {NoAddress, ProjectionOf(f.journal.next)}
  /\ f.journal # NoJournal =>
       /\ f.registry \in {f.journal.previous, f.journal.next}
       /\ f.journal.oldProjection \in {NoAddress, ProjectionOf(f.journal.previous)} \cup Foreign
       /\ f.journal.previous = NoRegistry => f.journal.oldProjection = NoAddress

FilesInv ==
  /\ files \in survivors
  /\ \A f \in survivors : FileOK(f) /\ Since(acked, Effective(f))

KnownInv == \A p \in Procs : Since(known[p], files.registry)

Outside == {"idle", "lock"}
Recovering == {"recover", "recoverProjection", "recoverRegistry", "recoverRemove"}
Writing == {"projection", "restore", "removeAborted", "registry", "remove"}

\* Exactly the holder of the lock is inside an entry.
ControlInv ==
  \A p \in Procs :
    /\ op[p].at \notin Outside <=> lock = p
    /\ op[p].at = "idle" <=> op[p] = Idle
    /\ op[p].at = "lock" =>
         op[p].commit = NoRegistry /\ op[p].after = "read" /\ ~op[p].migrates
    /\ op[p].at # "idle" => op[p].kind \in Kinds
    /\ op[p].kind \in {"update", "validate"} => known[p] # NoRegistry

\* What the holder has in mind: nothing yet, a migration, or its caller's transition.
Purpose(p) ==
  /\ op[p].commit = NoRegistry => op[p].after = "read" /\ ~op[p].migrates
  /\ op[p].commit # NoRegistry =>
       /\ <<op[p].base, op[p].commit>> \in Transitions
       /\ op[p].migrates => op[p].base \in Legacy /\ op[p].commit = Migrated[op[p].base]
       /\ ~op[p].migrates =>
            /\ op[p].base \notin Legacy
            /\ \/ op[p].kind = "update" /\ op[p].base = known[p]
               \/ op[p].kind = "create" /\ op[p].base = NoRegistry
  /\ Since(acked, op[p].base) /\ Since(known[p], op[p].base)

\* What the files hold between its writes.
Position(p) ==
  /\ \/ Effective(files) = op[p].base
     \/ op[p].commit # NoRegistry /\ Effective(files) = op[p].commit
  /\ op[p].commit = NoRegistry => Effective(files) = op[p].base
  /\ op[p].commit # NoRegistry /\ files.journal # NoJournal =>
       files.journal.previous = op[p].base /\ files.journal.next = op[p].commit
  /\ op[p].at \in Recovering /\ op[p].after = "read" => op[p].commit = NoRegistry
  /\ op[p].at \in Recovering \ {"recover"} => files.journal # NoJournal
  /\ op[p].at \in {"recoverRegistry", "recoverRemove"} =>
       files.projection = ProjectionOf(files.journal.next)
  /\ op[p].at = "recoverRemove" => files.registry = files.journal.next
  /\ op[p].at \in {"read", "repair", "journal", "verify", "done"} => files.journal = NoJournal
  /\ op[p].at \in {"read", "repair"} /\ op[p].commit # NoRegistry =>
       op[p].migrates /\ files.registry = op[p].commit
  /\ op[p].at = "repair" =>
       /\ op[p].kind = "load" /\ files.registry \notin Legacy
       /\ files.registry # NoRegistry
  /\ op[p].at \in {"journal", "verify"} \cup Writing => op[p].commit # NoRegistry
  /\ op[p].at = "journal" => files.registry = op[p].base
  /\ op[p].at \in Writing =>
       /\ files.journal # NoJournal
       /\ files.registry = IF op[p].at = "remove" THEN op[p].commit ELSE op[p].base
  /\ op[p].at \in {"registry", "remove"} => files.projection = ProjectionOf(op[p].commit)
  /\ op[p].at = "removeAborted" => files.projection = files.journal.oldProjection
  /\ op[p].at = "remove" => survivors = {files}

\* A transition seen to be committed is committed in whatever a crash exposes.
Settled(p) ==
  /\ op[p].commit # NoRegistry
  /\ files.registry = op[p].commit /\ files.journal = NoJournal
  /\ \/ op[p].at \in {"recover", "verify"}
     \/ op[p].at = "done" /\ op[p].kind \in {"update", "create"}
  => /\ files.projection = ProjectionOf(op[p].commit)
     /\ \A f \in survivors : Effective(f) = op[p].commit

\* What an entry is about to return.
Finished(p) ==
  op[p].at = "done" =>
    /\ files.projection = ProjectionOf(files.registry)
    /\ CASE op[p].kind = "load" ->
              files.registry = IF op[p].base \in Legacy THEN Migrated[op[p].base] ELSE op[p].base
         [] op[p].kind = "validate" -> files.registry = op[p].base /\ files.registry = known[p]
         [] OTHER -> /\ op[p].commit # NoRegistry /\ ~op[p].migrates
                     /\ files.registry = op[p].commit

HolderInv ==
  \A p \in Procs : lock = p => Purpose(p) /\ Position(p) /\ Settled(p) /\ Finished(p)

IInv == TypeOK /\ FilesInv /\ KnownInv /\ ControlInv /\ HolderInv

-----------------------------------------------------------------------------
(* Operations on the data.                                                     *)

LEMMA SinceTransitive ==
  ASSUME NEW r \in Stored, NEW s \in Stored, NEW t \in Stored, Since(r, s), Since(s, t)
  PROVE  Since(r, t)
  BY RegistryAssumption DEF Since, Stored

LEMMA TransitionAdvances ==
  ASSUME NEW r \in Stored, NEW n \in Stored, <<r, n>> \in Transitions
  PROVE  /\ n \in Registries \ Legacy /\ n # r
         /\ Since(r, n)
         /\ r # NoRegistry => Revision[n] = Revision[r] + 1
  BY TransitionAssumption, RegistryAssumption, LegacyAssumption DEF Since, Stored

LEMMA ProjectionTyped ==
  ASSUME NEW r \in Stored
  PROVE  ProjectionOf(r) \in Addresses \cup {NoAddress}
  BY RegistryAssumption DEF Stored, ProjectionOf

LEMMA NoJournalFields ==
  NoJournal.next = NoRegistry /\ NoJournal.previous = NoRegistry /\ NoJournal.oldProjection = NoAddress
  BY DEF NoJournal

LEMMA JournalTyped ==
  ASSUME NEW f \in Files
  PROVE  /\ f.registry \in Stored /\ f.projection \in Addresses \cup {NoAddress}
         /\ f.journal \in Transition \cup {NoJournal}
         /\ f.journal.previous \in Stored /\ f.journal.next \in Stored
         /\ f.journal.oldProjection \in Addresses \cup {NoAddress}
         /\ f.journal # NoJournal =>
              /\ <<f.journal.previous, f.journal.next>> \in Transitions
              /\ f.journal.next \in Registries
         /\ Effective(f) \in Stored
<1>1. f.registry \in Stored /\ f.projection \in Addresses \cup {NoAddress}
        /\ f.journal \in Transition \cup {NoJournal}
  BY DEF Files
<1>2. CASE f.journal = NoJournal
  BY <1>1, <1>2, NoJournalFields DEF Stored, Effective
<1>3. CASE f.journal # NoJournal
  <2>1. f.journal \in Transition
    BY <1>1, <1>3
  <2> QED
    BY <1>1, <1>3, <2>1 DEF Transition, Stored, Effective
<1> QED
  BY <1>2, <1>3

\* Writing one file leaves the files well typed.
LEMMA WrittenTyped ==
  ASSUME NEW f \in Files
  PROVE  /\ \A a \in Addresses \cup {NoAddress} : [f EXCEPT !.projection = a] \in Files
         /\ \A r \in Stored : [f EXCEPT !.registry = r] \in Files
         /\ \A t \in Transition \cup {NoJournal} : [f EXCEPT !.journal = t] \in Files
  BY DEF Files

LEMMA WrittenFields ==
  ASSUME NEW f \in Files, NEW v
  PROVE  /\ [f EXCEPT !.projection = v].projection = v
         /\ [f EXCEPT !.projection = v].registry = f.registry
         /\ [f EXCEPT !.projection = v].journal = f.journal
         /\ [f EXCEPT !.registry = v].registry = v
         /\ [f EXCEPT !.registry = v].projection = f.projection
         /\ [f EXCEPT !.registry = v].journal = f.journal
         /\ [f EXCEPT !.journal = v].journal = v
         /\ [f EXCEPT !.journal = v].registry = f.registry
         /\ [f EXCEPT !.journal = v].projection = f.projection
  BY DEF Files

-----------------------------------------------------------------------------
(* One step of the holder of the lock: where it goes, and what it writes.       *)

\* The holder goes on to a step; the other processes stay where they are.
Became(p, at, after, commit, migrates) ==
  /\ op' \in [Procs -> Operation]
  /\ op'[p].at = at /\ op'[p].after = after /\ op'[p].commit = commit
  /\ op'[p].migrates = migrates
  /\ op'[p].kind = op[p].kind /\ op'[p].base = op[p].base
  /\ \A q \in Procs : q # p => op'[q] = op[q]

LEMMA GotoBecame ==
  ASSUME TypeOK, NEW p \in Procs, NEW step \in Steps, Goto(p, step)
  PROVE  Became(p, step, op[p].after, op[p].commit, op[p].migrates)
  BY DEF Goto, Became, TypeOK, Operation

LEMMA RecoverBecame ==
  ASSUME TypeOK, NEW p \in Procs,
         op' = [op EXCEPT ![p].at = "recover", ![p].after = "verify"]
  PROVE  Became(p, "recover", "verify", op[p].commit, op[p].migrates)
  BY DEF Became, TypeOK, Operation, Steps

LEMMA BeginBecame ==
  ASSUME TypeOK, NEW p \in Procs, NEW next \in Stored, NEW migrates \in BOOLEAN,
         op' = [op EXCEPT ![p].at = "journal", ![p].commit = next, ![p].migrates = migrates]
  PROVE  Became(p, "journal", op[p].after, next, migrates)
  BY DEF Became, TypeOK, Operation, Steps

\* What a write, or a failed one, can leave.
LEMMA WrittenFiles ==
  ASSUME TypeOK, FilesInv, NEW f \in Files, FileOK(f), Since(acked, Effective(f)),
         acked' = acked, Synced(f) \/ Unsynced(f)
  PROVE  /\ FilesInv' /\ files' \in Files /\ survivors' \subseteq Files
         /\ files' \in {files, f}
         /\ (files' = files /\ survivors' = survivors) \/ (files' = f /\ survivors' \subseteq survivors \cup {f})
<1>1. survivors' \subseteq survivors \cup {f} /\ files' \in survivors'
  BY DEF Synced, Unsynced, FilesInv
<1>2. \A g \in survivors' : FileOK(g) /\ Since(acked', Effective(g))
  BY <1>1 DEF FilesInv
<1>3. FilesInv'
  BY <1>1, <1>2 DEF FilesInv
<1> QED
  BY <1>1, <1>3 DEF Synced, Unsynced, TypeOK, FilesInv

\* A step of the holder that keeps the parts of the invariant about itself keeps all of it.
LEMMA HolderStep ==
  ASSUME IInv, NEW p \in Procs, lock = p, NEW at \in Steps \ Outside, NEW after, NEW commit,
         NEW migrates, Became(p, at, after, commit, migrates), UNCHANGED <<lock, known, acked>>,
         files' \in Files, survivors' \subseteq Files, FilesInv',
         Since(files.registry, files'.registry),
         Purpose(p)', Position(p)', Settled(p)', Finished(p)'
  PROVE  IInv'
<1>1. TypeOK'
  BY DEF IInv, TypeOK, Became
<1>2. KnownInv'
  <2> SUFFICES ASSUME NEW q \in Procs
               PROVE  Since(known[q], files.registry)'
    BY DEF KnownInv
  <2>1. Since(known[q], files.registry)
    BY DEF IInv, KnownInv
  <2>2. known[q] \in Stored /\ files.registry \in Stored /\ files'.registry \in Stored
    BY JournalTyped DEF IInv, TypeOK
  <2>3. Since(known[q], files'.registry)
    BY <2>1, <2>2, SinceTransitive
  <2> QED
    BY <2>3 DEF Since
<1>3. ControlInv'
  <2> SUFFICES ASSUME NEW q \in Procs
               PROVE  (/\ op[q].at \notin Outside <=> lock = q
                       /\ op[q].at = "idle" <=> op[q] = Idle
                       /\ op[q].at = "lock" =>
                            op[q].commit = NoRegistry /\ op[q].after = "read" /\ ~op[q].migrates
                       /\ op[q].at # "idle" => op[q].kind \in Kinds
                       /\ op[q].kind \in {"update", "validate"} => known[q] # NoRegistry)'
    BY DEF ControlInv
  <2>1. CASE q # p
    BY <2>1 DEF IInv, ControlInv, Became
  <2>2. CASE q = p
    BY <2>2 DEF IInv, ControlInv, Became, Outside, Idle
  <2> QED
    BY <2>1, <2>2
<1>4. HolderInv'
  BY DEF HolderInv
<1> QED
  BY <1>1, <1>2, <1>3, <1>4 DEF IInv

\* What the holder has in mind does not change as it goes.
LEMMA PurposeKept ==
  ASSUME IInv, NEW p \in Procs, lock = p, NEW at, NEW after,
         Became(p, at, after, op[p].commit, op[p].migrates),
         UNCHANGED <<lock, known, acked>>,
         op[p].commit = NoRegistry => after = "read"
  PROVE  Purpose(p)'
<1>1. Purpose(p)
  BY DEF IInv, HolderInv
<1> QED
  BY <1>1 DEF Purpose, Became, Since

\* The facts about the holder that the steps below start from.
LEMMA HolderFacts ==
  ASSUME IInv, NEW p \in Procs, op[p].at \notin Outside
  PROVE  /\ lock = p /\ op[p] \in Operation /\ files \in Files /\ files \in survivors
         /\ FileOK(files) /\ Since(acked, Effective(files))
         /\ Purpose(p) /\ Position(p) /\ Settled(p) /\ Finished(p)
         /\ op[p].kind \in Kinds
         /\ op[p].kind \in {"update", "validate"} => known[p] # NoRegistry
         /\ op[p].base \in Stored /\ op[p].commit \in Stored /\ known[p] \in Stored
         /\ Since(files.registry, files.registry)
         /\ op[p].commit = NoRegistry => op[p].after = "read"
<1>1. lock = p
  BY DEF IInv, ControlInv
<1>2. op[p] \in Operation /\ files \in Files
  BY DEF IInv, TypeOK
<1>3. files \in survivors /\ FileOK(files) /\ Since(acked, Effective(files))
  BY DEF IInv, FilesInv
<1>4. Purpose(p) /\ Position(p) /\ Settled(p) /\ Finished(p)
  BY <1>1 DEF IInv, HolderInv
<1>5. /\ op[p].kind \in {"update", "validate"} => known[p] # NoRegistry
      /\ op[p].kind \in Kinds
  BY DEF IInv, ControlInv, Outside
<1>6. op[p].base \in Stored /\ op[p].commit \in Stored
  BY <1>2 DEF Operation
<1>7. known[p] \in Stored
  BY DEF IInv, TypeOK
<1> QED
  BY <1>1, <1>2, <1>3, <1>4, <1>5, <1>6, <1>7 DEF Since, Purpose

\* A step that writes nothing.
LEMMA QuietStep ==
  ASSUME IInv, NEW p \in Procs, op[p].at \notin Outside, NEW step \in Steps \ Outside,
         Skip(p, step)
  PROVE  /\ Became(p, step, op[p].after, op[p].commit, op[p].migrates)
         /\ UNCHANGED <<files, survivors, lock, known, acked>>
         /\ Purpose(p)'
         /\ Position(p)' /\ Settled(p)' /\ Finished(p)' => IInv'
<1>1. Became(p, step, op[p].after, op[p].commit, op[p].migrates)
  BY GotoBecame DEF IInv, Skip
<1>2. UNCHANGED <<files, survivors, lock, known, acked>>
  BY DEF Skip
<1>3. op[p].commit = NoRegistry => op[p].after = "read"
  BY HolderFacts DEF Purpose
<1>4. Purpose(p)'
  BY <1>1, <1>2, <1>3, HolderFacts, PurposeKept
<1>5. FilesInv'
  BY <1>2 DEF IInv, FilesInv, FileOK, Since, Effective, ProjectionOf
<1>6. ASSUME Position(p)', Settled(p)', Finished(p)' PROVE IInv'
  BY <1>1, <1>2, <1>4, <1>5, <1>6, HolderStep, HolderFacts DEF IInv, TypeOK
<1> QED
  BY <1>1, <1>2, <1>4, <1>6

\* A step that writes one file.
LEMMA WriteStep ==
  ASSUME IInv, NEW p \in Procs, op[p].at \notin Outside,
         NEW f \in Files, FileOK(f), Since(acked, Effective(f)), Since(files.registry, f.registry),
         Synced(f) \/ Unsynced(f), UNCHANGED <<lock, known, acked>>,
         NEW at \in Steps \ Outside, NEW after,
         Became(p, at, after, op[p].commit, op[p].migrates),
         op[p].commit = NoRegistry => after = "read"
  PROVE  /\ (files' = files /\ survivors' = survivors) \/ (files' = f /\ survivors' \subseteq survivors \cup {f})
         /\ Purpose(p)'
         /\ Position(p)' /\ Settled(p)' /\ Finished(p)' => IInv'
<1>1. /\ FilesInv' /\ files' \in Files /\ survivors' \subseteq Files /\ files' \in {files, f}
      /\ (files' = files /\ survivors' = survivors) \/ (files' = f /\ survivors' \subseteq survivors \cup {f})
  BY WrittenFiles DEF IInv
<1>2. Purpose(p)'
  BY HolderFacts, PurposeKept
<1>3. Since(files.registry, files'.registry)
  BY <1>1, HolderFacts
<1>4. ASSUME Position(p)', Settled(p)', Finished(p)' PROVE IInv'
  BY <1>1, <1>2, <1>3, <1>4, HolderStep, HolderFacts
<1> QED
  BY <1>1, <1>2, <1>4

-----------------------------------------------------------------------------
(* The steps of recovery.                                                      *)

LEMMA ReadJournalKeeps ==
  ASSUME IInv, NEW p \in Procs, ReadJournal(p) PROVE IInv'
<1>1. op[p].at = "recover" /\ op[p].at \notin Outside
  BY DEF ReadJournal, Outside
<1>2. CASE files.journal = NoJournal
  <2>1. op[p].after \in {"read", "verify"}
    BY <1>1, HolderFacts DEF Operation
  <2> op[p].after \in Steps \ Outside
    BY <2>1 DEF Steps, Outside
  <2>2. Skip(p, op[p].after)
    BY <1>2 DEF ReadJournal
  <2>3. /\ Became(p, op[p].after, op[p].after, op[p].commit, op[p].migrates)
        /\ UNCHANGED <<files, survivors, lock, known, acked>>
        /\ Position(p)' /\ Settled(p)' /\ Finished(p)' => IInv'
    BY <1>1, <2>2, QuietStep
  <2>4. Position(p) /\ Purpose(p) /\ Settled(p)
    BY <1>1, HolderFacts
  <2>5. Position(p)'
    BY <1>1, <1>2, <2>1, <2>3, <2>4
    DEF Position, Purpose, Became, Recovering, Writing, Effective
  <2>6. Settled(p)'
    BY <1>1, <1>2, <2>1, <2>3, <2>4 DEF Settled, Became, Effective, ProjectionOf
  <2>7. Finished(p)'
    BY <2>1, <2>3 DEF Finished, Became
  <2> QED
    BY <2>3, <2>5, <2>6, <2>7
<1>3. CASE files.journal # NoJournal
  <2>1. PICK step \in {"recoverProjection", "failed"} : Skip(p, step)
    BY <1>3 DEF ReadJournal
  <2>2. step \in Steps \ Outside
    BY DEF Steps, Outside
  <2>3. /\ Became(p, step, op[p].after, op[p].commit, op[p].migrates)
        /\ UNCHANGED <<files, survivors, lock, known, acked>>
        /\ Position(p)' /\ Settled(p)' /\ Finished(p)' => IInv'
    BY <1>1, <2>1, <2>2, QuietStep
  <2>4. Position(p)
    BY <1>1, HolderFacts
  <2>5. Position(p)'
    BY <1>1, <1>3, <2>3, <2>4 DEF Position, Became, Recovering, Writing, Effective
  <2>6. Settled(p)' /\ Finished(p)'
    BY <1>3, <2>3 DEF Settled, Finished, Became
  <2> QED
    BY <2>3, <2>5, <2>6
<1> QED
  BY <1>2, <1>3

LEMMA ReadFailsKeeps ==
  ASSUME IInv, NEW p \in Procs, ReadFails(p) PROVE IInv'
<1>1. op[p].at \notin Outside /\ "failed" \in Steps \ Outside /\ Skip(p, "failed")
  BY DEF ReadFails, Steps, Outside
<1>2. /\ Became(p, "failed", op[p].after, op[p].commit, op[p].migrates)
      /\ UNCHANGED <<files, survivors, lock, known, acked>>
      /\ Position(p)' /\ Settled(p)' /\ Finished(p)' => IInv'
  BY <1>1, QuietStep
<1>3. Position(p)
  BY <1>1, HolderFacts
<1>4. Position(p)' /\ Settled(p)' /\ Finished(p)'
  BY <1>2, <1>3 DEF Position, Settled, Finished, Became, Recovering, Writing, Effective
<1> QED
  BY <1>2, <1>4

LEMMA RecoverProjectionKeeps ==
  ASSUME IInv, NEW p \in Procs, RecoverProjection(p) PROVE IInv'
<1> DEFINE next == files.journal.next
<1> DEFINE f == [files EXCEPT !.projection = ProjectionOf(next)]
<1> HIDE DEF f
<1>1. op[p].at = "recoverProjection" /\ op[p].at \notin Outside
  BY DEF RecoverProjection, Outside
<1>2. /\ Position(p) /\ FileOK(files) /\ files \in Files /\ Since(acked, Effective(files))
      /\ op[p].commit = NoRegistry => op[p].after = "read"
      /\ next \in Registries /\ files.journal # NoJournal
  BY <1>1, HolderFacts, JournalTyped DEF Position, Recovering
<1>3. "recoverRegistry" \in Steps \ Outside /\ "failed" \in Steps \ Outside
  BY DEF Steps, Outside
<1>4. CASE ProjectionOf(next) = NoAddress /\ files.projection = NoAddress
  <2>1. Skip(p, "recoverRegistry")
    BY <1>4 DEF RecoverProjection, Apply
  <2>2. /\ Became(p, "recoverRegistry", op[p].after, op[p].commit, op[p].migrates)
        /\ UNCHANGED <<files, survivors, lock, known, acked>>
        /\ Position(p)' /\ Settled(p)' /\ Finished(p)' => IInv'
    BY <1>1, <1>3, <2>1, QuietStep
  <2>3. Position(p)' /\ Settled(p)' /\ Finished(p)'
    BY <1>1, <1>2, <1>4, <2>2
    DEF Position, Settled, Finished, Became, Recovering, Writing, Effective, ProjectionOf
  <2> QED
    BY <2>2, <2>3
<1>5. CASE ~(ProjectionOf(next) = NoAddress /\ files.projection = NoAddress)
  <2>1. f \in Files /\ f.projection = ProjectionOf(next) /\ f.registry = files.registry
          /\ f.journal = files.journal
    BY <1>2, WrittenTyped, WrittenFields, ProjectionTyped DEF Stored, f
  <2>2. PICK step \in {"recoverRegistry", "failed"} :
          /\ Goto(p, step) /\ UNCHANGED <<lock, known, acked>> /\ (Synced(f) \/ Unsynced(f))
          /\ step = "recoverRegistry" => Synced(f)
    BY <1>5 DEF RecoverProjection, Apply, Durably, f
  <2> step \in Steps \ Outside
    BY <1>3
  <2>3. FileOK(f) /\ Effective(f) = Effective(files) /\ Since(files.registry, f.registry)
    BY <1>2, <2>1 DEF FileOK, Effective, Since, ProjectionOf
  <2>4. Became(p, step, op[p].after, op[p].commit, op[p].migrates)
    BY <2>2, <1>3, GotoBecame DEF IInv
  <2>5. /\ files' = files \/ files' = f
        /\ Position(p)' /\ Settled(p)' /\ Finished(p)' => IInv'
    BY <1>1, <1>2, <1>3, <2>1, <2>2, <2>3, <2>4, WriteStep
  <2>6. Position(p)'
    BY <1>1, <1>2, <2>1, <2>2, <2>3, <2>4, <2>5
    DEF Position, Became, Recovering, Writing, Effective, Synced, ProjectionOf
  <2>7. Settled(p)' /\ Finished(p)'
    BY <2>4 DEF Settled, Finished, Became
  <2> QED
    BY <2>5, <2>6, <2>7
<1> QED
  BY <1>4, <1>5

LEMMA RecoverRegistryKeeps ==
  ASSUME IInv, NEW p \in Procs, RecoverRegistry(p) PROVE IInv'
<1> DEFINE next == files.journal.next
<1> DEFINE f == [files EXCEPT !.registry = next]
<1> HIDE DEF f
<1>1. op[p].at = "recoverRegistry" /\ op[p].at \notin Outside
  BY DEF RecoverRegistry, Outside
<1>2. /\ Position(p) /\ FileOK(files) /\ files \in Files /\ Since(acked, Effective(files))
      /\ op[p].commit = NoRegistry => op[p].after = "read"
      /\ next \in Registries /\ files.journal # NoJournal
      /\ <<files.journal.previous, next>> \in Transitions
      /\ files.journal.previous \in Stored
  BY <1>1, HolderFacts, JournalTyped DEF Position, Recovering
<1>3. "recoverRemove" \in Steps \ Outside /\ "failed" \in Steps \ Outside
  BY DEF Steps, Outside
<1>4. CASE files.registry = next
  <2>1. Skip(p, "recoverRemove")
    BY <1>4 DEF RecoverRegistry
  <2>2. /\ Became(p, "recoverRemove", op[p].after, op[p].commit, op[p].migrates)
        /\ UNCHANGED <<files, survivors, lock, known, acked>>
        /\ Position(p)' /\ Settled(p)' /\ Finished(p)' => IInv'
    BY <1>1, <1>3, <2>1, QuietStep
  <2>3. Position(p)' /\ Settled(p)' /\ Finished(p)'
    BY <1>1, <1>2, <1>4, <2>2
    DEF Position, Settled, Finished, Became, Recovering, Writing, Effective, ProjectionOf
  <2> QED
    BY <2>2, <2>3
<1>5. CASE files.registry # next
  <2>1. f \in Files /\ f.projection = files.projection /\ f.registry = next
          /\ f.journal = files.journal
    BY <1>2, WrittenTyped, WrittenFields DEF Stored, f
  <2>2. PICK step \in {"recoverRemove", "failed"} :
          /\ Goto(p, step) /\ UNCHANGED <<lock, known, acked>> /\ (Synced(f) \/ Unsynced(f))
          /\ step = "recoverRemove" => Synced(f)
    BY <1>5 DEF RecoverRegistry, Durably, f
  <2> step \in Steps \ Outside
    BY <1>3
  <2>3. files.registry = files.journal.previous
    BY <1>2, <1>5 DEF FileOK
  <2>4. Since(files.registry, f.registry)
    BY <1>2, <2>1, <2>3, TransitionAdvances DEF Stored
  <2>5. Effective(f) = Effective(files)
    BY <1>2, <2>1 DEF Effective
  <2>6. files.projection = ProjectionOf(next)
    BY <1>1, <1>2 DEF Position
  <2>7. FileOK(f)
    BY <1>2, <2>1, <2>6, RegistryAssumption DEF FileOK
  <2>8. Became(p, step, op[p].after, op[p].commit, op[p].migrates)
    BY <2>2, <1>3, GotoBecame DEF IInv
  <2>9. /\ files' = files \/ files' = f
        /\ Position(p)' /\ Settled(p)' /\ Finished(p)' => IInv'
    BY <1>1, <1>2, <1>3, <2>1, <2>2, <2>4, <2>5, <2>7, <2>8, WriteStep
  <2>10. Position(p)'
    BY <1>1, <1>2, <2>1, <2>2, <2>6, <2>8, <2>9
    DEF Position, Became, Recovering, Writing, Effective, Synced, ProjectionOf
  <2>11. Settled(p)' /\ Finished(p)'
    BY <2>8 DEF Settled, Finished, Became
  <2> QED
    BY <2>9, <2>10, <2>11
<1> QED
  BY <1>4, <1>5

LEMMA RecoverRemoveKeeps ==
  ASSUME IInv, NEW p \in Procs, RecoverRemove(p) PROVE IInv'
<1> DEFINE f == [files EXCEPT !.journal = NoJournal]
<1> HIDE DEF f
<1>1. op[p].at = "recoverRemove" /\ op[p].at \notin Outside
  BY DEF RecoverRemove, Outside
<1>2. /\ Position(p) /\ FileOK(files) /\ files \in Files /\ Since(acked, Effective(files))
      /\ op[p].commit = NoRegistry => op[p].after = "read"
      /\ files.journal # NoJournal /\ files.registry = files.journal.next
      /\ files.projection = ProjectionOf(files.registry)
      /\ files.registry \in Registries /\ op[p].after \in {"read", "verify"}
      /\ Since(files.registry, files.registry)
  BY <1>1, HolderFacts, JournalTyped DEF Position, Recovering, Operation
<1>3. {"read", "verify", "failed"} \subseteq Steps \ Outside
  BY DEF Steps, Outside
<1>4. f \in Files /\ f.projection = files.projection /\ f.registry = files.registry
        /\ f.journal = NoJournal
  BY <1>2, WrittenTyped, WrittenFields DEF f
<1>5. PICK step \in {op[p].after, "failed"} :
        /\ Goto(p, step) /\ UNCHANGED <<lock, known, acked>> /\ (Synced(f) \/ Unsynced(f))
        /\ step = op[p].after => Synced(f)
  BY <1>2 DEF RecoverRemove, Durably, f
<1> step \in Steps \ Outside
  BY <1>2, <1>3
<1>6. Effective(f) = Effective(files) /\ FileOK(f) /\ Since(files.registry, f.registry)
  BY <1>2, <1>4, RegistryAssumption DEF Effective, FileOK, Since
<1>7. Became(p, step, op[p].after, op[p].commit, op[p].migrates)
  BY <1>5, GotoBecame DEF IInv
<1>8. /\ (files' = files /\ survivors' = survivors) \/ (files' = f /\ survivors' \subseteq survivors \cup {f})
      /\ Position(p)' /\ Settled(p)' /\ Finished(p)' => IInv'
  BY <1>1, <1>2, <1>4, <1>5, <1>6, <1>7, WriteStep
<1>9. Position(p)'
  BY <1>1, <1>2, <1>4, <1>5, <1>6, <1>7, <1>8
  DEF Position, Became, Recovering, Writing, Effective, Synced
<1>10. Settled(p)'
  BY <1>2, <1>4, <1>5, <1>7 DEF Settled, Became, Synced, Effective, ProjectionOf
<1>11. Finished(p)'
  BY <1>2, <1>7 DEF Finished, Became
<1> QED
  BY <1>8, <1>9, <1>10, <1>11

-----------------------------------------------------------------------------
(* The body of each entry.                                                     *)

\* After the first recovery, or a migration, the registry is the base or what became of it.
LEMMA ReadingFacts ==
  ASSUME IInv, NEW p \in Procs, op[p].at \in {"read", "repair", "verify"}
  PROVE  /\ op[p].at \notin Outside /\ files.journal = NoJournal
         /\ op[p].at # "verify" =>
              /\ \/ files.registry = op[p].base
                 \/ /\ op[p].migrates /\ op[p].base \in Legacy
                    /\ files.registry = Migrated[op[p].base]
              /\ files.registry \notin Legacy =>
                   files.registry =
                     IF op[p].base \in Legacy THEN Migrated[op[p].base] ELSE op[p].base
<1>1. op[p].at \notin Outside
  BY DEF Outside
<1>2. Position(p) /\ Purpose(p)
  BY <1>1, HolderFacts
<1>3. files.journal = NoJournal
  BY <1>2 DEF Position
<1>4. CASE op[p].commit = NoRegistry
  BY <1>1, <1>2, <1>3, <1>4 DEF Position, Effective
<1>5. CASE op[p].commit # NoRegistry
  <2>1. CASE op[p].at = "verify"
    BY <1>1, <1>3, <2>1
  <2>2. CASE op[p].at # "verify"
    <3>1. op[p].migrates /\ files.registry = op[p].commit
      BY <1>2, <1>5, <2>2 DEF Position
    <3> QED
      BY <1>1, <1>2, <1>3, <1>5, <3>1 DEF Purpose
  <2> QED
    BY <2>1, <2>2
<1> QED
  BY <1>4, <1>5

LEMMA ReadForLoadKeeps ==
  ASSUME IInv, NEW p \in Procs, ReadForLoad(p) PROVE IInv'
<1>1. op[p].at = "read" /\ op[p].at \notin Outside /\ op[p].kind = "load"
        /\ files.registry \notin Legacy
  BY DEF ReadForLoad, Outside
<1>2. PICK step \in {"done", "repair"} :
        /\ Skip(p, step)
        /\ step = "done" <=> files.registry = NoRegistry
  BY DEF ReadForLoad
<1> step \in Steps \ Outside
  BY DEF Steps, Outside
<1>3. /\ Became(p, step, op[p].after, op[p].commit, op[p].migrates)
      /\ UNCHANGED <<files, survivors, lock, known, acked>>
      /\ Position(p)' /\ Settled(p)' /\ Finished(p)' => IInv'
  BY <1>1, <1>2, QuietStep
<1>4. Position(p) /\ Purpose(p) /\ FileOK(files) /\ files.journal = NoJournal
        /\ files.registry = IF op[p].base \in Legacy THEN Migrated[op[p].base] ELSE op[p].base
  BY <1>1, HolderFacts, ReadingFacts
<1>5. Position(p)'
  BY <1>1, <1>2, <1>3, <1>4 DEF Position, Became, Recovering, Writing, Effective
<1>6. Settled(p)'
  BY <1>1, <1>2, <1>3 DEF Settled, Became
<1>7. Finished(p)'
  <2>1. files.registry = NoRegistry => files.projection = NoAddress
    BY <1>4, NoJournalFields DEF FileOK, ProjectionOf
  <2> QED
    BY <1>1, <1>2, <1>3, <1>4, <2>1 DEF Finished, Became, ProjectionOf
<1> QED
  BY <1>3, <1>5, <1>6, <1>7

\* A transition begins from the registry that is in effect.
LEMMA BeginKeeps ==
  ASSUME IInv, NEW p \in Procs, op[p].at \notin Outside, files.journal = NoJournal,
         NEW next \in Stored, NEW migrates \in BOOLEAN, Begin(p, next, migrates),
         files.registry = op[p].base, <<op[p].base, next>> \in Transitions,
         migrates => op[p].base \in Legacy /\ next = Migrated[op[p].base],
         ~migrates =>
           /\ op[p].base \notin Legacy
           /\ \/ op[p].kind = "update" /\ op[p].base = known[p]
              \/ op[p].kind = "create" /\ op[p].base = NoRegistry
  PROVE  IInv'
<1>1. Became(p, "journal", op[p].after, next, migrates)
  BY BeginBecame DEF IInv, Begin
<1>2. UNCHANGED <<files, survivors, lock, known, acked>>
  BY DEF Begin
<1>3. Purpose(p) /\ Position(p) /\ lock = p /\ Since(files.registry, files.registry)
  BY HolderFacts
<1>4. next # NoRegistry /\ "journal" \in Steps \ Outside
  BY TransitionAdvances, HolderFacts, RegistryAssumption DEF Steps, Outside
<1>5. Purpose(p)'
  BY <1>1, <1>2, <1>3, <1>4 DEF Purpose, Became, Since
<1>6. Position(p)'
  BY <1>1, <1>2, <1>3, <1>4 DEF Position, Became, Recovering, Writing, Effective
<1>7. Settled(p)' /\ Finished(p)'
  BY <1>1 DEF Settled, Finished, Became
<1>8. FilesInv'
  BY <1>2 DEF IInv, FilesInv, FileOK, Since, Effective, ProjectionOf
<1>9. files' \in Files /\ survivors' \subseteq Files /\ Since(files.registry, files'.registry)
  BY <1>2, <1>3 DEF IInv, TypeOK
<1> QED
  BY <1>1, <1>2, <1>3, <1>4, <1>5, <1>6, <1>7, <1>8, <1>9, HolderStep

LEMMA MigrateLegacyKeeps ==
  ASSUME IInv, NEW p \in Procs, MigrateLegacy(p) PROVE IInv'
<1>1. op[p].at = "read" /\ files.registry \in Legacy /\ Begin(p, Migrated[files.registry], TRUE)
  BY DEF MigrateLegacy
<1>2. op[p].at \notin Outside /\ files.journal = NoJournal /\ files.registry = op[p].base
  BY <1>1, ReadingFacts, LegacyAssumption
<1>3. Migrated[files.registry] \in Stored /\ <<op[p].base, Migrated[op[p].base]>> \in Transitions
  BY <1>1, <1>2, LegacyAssumption DEF Stored
<1> QED
  BY <1>1, <1>2, <1>3, BeginKeeps

LEMMA ReadForUpdateKeeps ==
  ASSUME IInv, NEW p \in Procs, ReadForUpdate(p) PROVE IInv'
<1>1. op[p].at = "read" /\ op[p].kind = "update" /\ files.registry \notin Legacy
  BY DEF ReadForUpdate
<1>2. op[p].at \notin Outside /\ files.journal = NoJournal
  BY <1>1, ReadingFacts
<1>3. CASE Skip(p, "failed")
  <2>1. "failed" \in Steps \ Outside
    BY DEF Steps, Outside
  <2>2. /\ Became(p, "failed", op[p].after, op[p].commit, op[p].migrates)
        /\ UNCHANGED <<files, survivors, lock, known, acked>>
        /\ Position(p)' /\ Settled(p)' /\ Finished(p)' => IInv'
    BY <1>2, <1>3, <2>1, QuietStep
  <2>3. Position(p)' /\ Settled(p)' /\ Finished(p)'
    BY <1>2, <2>2, HolderFacts
    DEF Position, Settled, Finished, Became, Recovering, Writing, Effective
  <2> QED
    BY <2>2, <2>3
<1>4. CASE \E next \in Registries :
             /\ files.registry # NoRegistry /\ Revision[files.registry] = Revision[known[p]]
             /\ <<files.registry, next>> \in Transitions /\ Begin(p, next, FALSE)
  <2>1. PICK next \in Registries :
          /\ files.registry # NoRegistry /\ Revision[files.registry] = Revision[known[p]]
          /\ <<files.registry, next>> \in Transitions /\ Begin(p, next, FALSE)
    BY <1>4
  <2>2. known[p] # NoRegistry /\ known[p] \in Stored /\ op[p].base \in Stored
          /\ files.registry \in Stored /\ Since(known[p], op[p].base)
    BY <1>1, <1>2, HolderFacts, JournalTyped DEF Purpose
  <2>3. op[p].base # NoRegistry /\ known[p] \in Registries /\ op[p].base \in Registries
          /\ files.registry \in Registries
          /\ (op[p].base = known[p] \/ Revision[op[p].base] > Revision[known[p]])
    BY <2>1, <2>2 DEF Since, Stored
  <2>4. files.registry = op[p].base
    <3> SUFFICES ASSUME files.registry # op[p].base PROVE FALSE
      OBVIOUS
    <3>1. op[p].base \in Legacy /\ files.registry = Migrated[op[p].base]
      BY <1>1, ReadingFacts
    <3>2. Revision[files.registry] = Revision[op[p].base] + 1
      BY <2>3, <3>1, LegacyAssumption, TransitionAssumption
    <3>3. Revision[files.registry] = Revision[known[p]]
      BY <2>1
    <3>4. Revision[op[p].base] \in Nat /\ Revision[known[p]] \in Nat
      BY <2>3, RegistryAssumption
    <3> QED
      BY <2>3, <3>2, <3>3, <3>4
  <2>5. op[p].base = known[p]
    BY <2>1, <2>3, <2>4, RegistryAssumption
  <2> QED
    BY <1>1, <1>2, <2>1, <2>4, <2>5, BeginKeeps DEF Stored
<1> QED
  BY <1>3, <1>4 DEF ReadForUpdate

LEMMA ReadForCreateKeeps ==
  ASSUME IInv, NEW p \in Procs, ReadForCreate(p) PROVE IInv'
<1>1. op[p].at = "read" /\ op[p].kind = "create" /\ files.registry \notin Legacy
  BY DEF ReadForCreate
<1>2. op[p].at \notin Outside /\ files.journal = NoJournal
  BY <1>1, ReadingFacts
<1>3. CASE Skip(p, "failed")
  <2>1. "failed" \in Steps \ Outside
    BY DEF Steps, Outside
  <2>2. /\ Became(p, "failed", op[p].after, op[p].commit, op[p].migrates)
        /\ UNCHANGED <<files, survivors, lock, known, acked>>
        /\ Position(p)' /\ Settled(p)' /\ Finished(p)' => IInv'
    BY <1>2, <1>3, <2>1, QuietStep
  <2>3. Position(p)' /\ Settled(p)' /\ Finished(p)'
    BY <1>2, <2>2, HolderFacts
    DEF Position, Settled, Finished, Became, Recovering, Writing, Effective
  <2> QED
    BY <2>2, <2>3
<1>4. CASE \E next \in Registries :
             /\ files.registry = NoRegistry /\ <<NoRegistry, next>> \in Transitions
             /\ Begin(p, next, FALSE)
  <2>1. PICK next \in Registries :
          /\ files.registry = NoRegistry /\ <<NoRegistry, next>> \in Transitions
          /\ Begin(p, next, FALSE)
    BY <1>4
  <2>2. files.registry = op[p].base
    BY <1>1, <2>1, ReadingFacts, LegacyAssumption, RegistryAssumption
  <2> QED
    BY <1>1, <1>2, <2>1, <2>2, BeginKeeps DEF Stored
<1> QED
  BY <1>3, <1>4 DEF ReadForCreate

LEMMA ReadForValidateKeeps ==
  ASSUME IInv, NEW p \in Procs, ReadForValidate(p) PROVE IInv'
<1>1. op[p].at = "read" /\ op[p].kind = "validate"
  BY DEF ReadForValidate
<1>2. op[p].at \notin Outside /\ files.journal = NoJournal
  BY <1>1, ReadingFacts
<1>3. PICK step \in {"done", "failed"} :
        /\ Skip(p, step)
        /\ step = "done" =>
             files.registry = known[p] /\ files.projection = Projection[known[p]]
  BY DEF ReadForValidate
<1> step \in Steps \ Outside
  BY DEF Steps, Outside
<1>4. /\ Became(p, step, op[p].after, op[p].commit, op[p].migrates)
      /\ UNCHANGED <<files, survivors, lock, known, acked>>
      /\ Position(p)' /\ Settled(p)' /\ Finished(p)' => IInv'
  BY <1>2, <1>3, QuietStep
<1>5. Position(p)' /\ Settled(p)'
  BY <1>1, <1>2, <1>3, <1>4, HolderFacts
  DEF Position, Settled, Became, Recovering, Writing, Effective
<1>6. Finished(p)'
  <2>1. known[p] # NoRegistry /\ known[p] \in Stored /\ op[p].base \in Stored
          /\ files.registry \in Stored /\ Since(known[p], op[p].base)
    BY <1>1, <1>2, HolderFacts, JournalTyped DEF Purpose
  <2>2. ASSUME step = "done" PROVE files.registry = op[p].base
    <3> SUFFICES ASSUME files.registry # op[p].base PROVE FALSE
      OBVIOUS
    <3>1. op[p].base \in Legacy /\ files.registry = Migrated[op[p].base]
      BY <1>1, ReadingFacts
    <3>2. Revision[files.registry] = Revision[op[p].base] + 1
      BY <3>1, LegacyAssumption, TransitionAssumption
    <3>3. op[p].base \in Registries /\ files.registry = known[p]
      BY <1>3, <2>2, <3>1, LegacyAssumption
    <3> QED
      BY <2>1, <3>2, <3>3, RegistryAssumption DEF Since
  <2> QED
    BY <1>1, <1>3, <1>4, <2>1, <2>2 DEF Finished, Became, ProjectionOf
<1> QED
  BY <1>4, <1>5, <1>6

LEMMA RepairProjectionKeeps ==
  ASSUME IInv, NEW p \in Procs, RepairProjection(p) PROVE IInv'
<1> DEFINE home == Projection[files.registry]
<1> DEFINE f == [files EXCEPT !.projection = home]
<1> HIDE DEF f
<1>1. op[p].at = "repair" /\ op[p].at \notin Outside
  BY DEF RepairProjection, Outside
<1>2. /\ Position(p) /\ FileOK(files) /\ files \in Files /\ Since(acked, Effective(files))
      /\ op[p].commit = NoRegistry => op[p].after = "read"
      /\ files.registry # NoRegistry /\ op[p].kind = "load" /\ files.journal = NoJournal
      /\ home = ProjectionOf(files.registry) /\ files.registry \in Stored
      /\ Since(files.registry, files.registry)
      /\ files.registry = IF op[p].base \in Legacy THEN Migrated[op[p].base] ELSE op[p].base
  BY <1>1, HolderFacts, ReadingFacts, JournalTyped DEF Position, ProjectionOf
<1>3. "done" \in Steps \ Outside /\ "failed" \in Steps \ Outside
  BY DEF Steps, Outside
<1>4. CASE Skip(p, "done") /\ files.projection = home
  <2>1. /\ Became(p, "done", op[p].after, op[p].commit, op[p].migrates)
        /\ UNCHANGED <<files, survivors, lock, known, acked>>
        /\ Position(p)' /\ Settled(p)' /\ Finished(p)' => IInv'
    BY <1>1, <1>3, <1>4, QuietStep
  <2>2. Position(p)' /\ Settled(p)'
    BY <1>1, <1>2, <2>1 DEF Position, Settled, Became, Recovering, Writing, Effective
  <2>3. Finished(p)'
    BY <1>2, <1>4, <2>1 DEF Finished, Became, ProjectionOf
  <2> QED
    BY <2>1, <2>2, <2>3
<1>5. CASE Durably(p, f, "done", "failed")
  <2>1. f \in Files /\ f.projection = home /\ f.registry = files.registry
          /\ f.journal = files.journal
    BY <1>2, WrittenTyped, WrittenFields, ProjectionTyped DEF f
  <2>2. PICK step \in {"done", "failed"} :
          /\ Goto(p, step) /\ UNCHANGED <<lock, known, acked>> /\ (Synced(f) \/ Unsynced(f))
          /\ step = "done" => Synced(f)
    BY <1>5 DEF Durably
  <2> step \in Steps \ Outside
    BY <1>3
  <2>3. Effective(f) = Effective(files) /\ Since(files.registry, f.registry)
    BY <1>2, <2>1 DEF Effective
  <2>4. FileOK(f)
    BY <1>2, <2>1 DEF FileOK
  <2>5. Became(p, step, op[p].after, op[p].commit, op[p].migrates)
    BY <2>2, GotoBecame DEF IInv
  <2>6. /\ files' = files \/ files' = f
        /\ Position(p)' /\ Settled(p)' /\ Finished(p)' => IInv'
    BY <1>1, <1>2, <2>1, <2>2, <2>3, <2>4, <2>5, WriteStep
  <2>7. Position(p)' /\ Settled(p)'
    BY <1>1, <1>2, <2>1, <2>2, <2>5, <2>6
    DEF Position, Settled, Became, Recovering, Writing, Effective
  <2>8. Finished(p)'
    BY <1>2, <2>1, <2>2, <2>5 DEF Finished, Became, Synced, ProjectionOf
  <2> QED
    BY <2>6, <2>7, <2>8
<1> QED
  BY <1>4, <1>5 DEF RepairProjection, Apply, f

-----------------------------------------------------------------------------
(* The steps of a commit.                                                      *)

\* A durable write of a commit goes on, or its failure starts a recovery.
LEMMA CommitWrites ==
  ASSUME IInv, NEW p \in Procs, op[p].commit # NoRegistry, op[p].at \notin Outside,
         NEW f \in Files, FileOK(f), Since(acked, Effective(f)), Since(files.registry, f.registry),
         NEW next \in Steps \ Outside, DurablyOrRecover(p, f, next)
  PROVE  \/ /\ files' = f /\ survivors' = {f}
            /\ Became(p, next, op[p].after, op[p].commit, op[p].migrates)
            /\ UNCHANGED <<lock, known, acked>>
            /\ Position(p)' /\ Settled(p)' /\ Finished(p)' => IInv'
         \/ /\ (files' = files /\ survivors' = survivors) \/ (files' = f /\ survivors' \subseteq survivors \cup {f})
            /\ Became(p, "recover", "verify", op[p].commit, op[p].migrates)
            /\ UNCHANGED <<lock, known, acked>>
            /\ Position(p)' /\ Settled(p)' /\ Finished(p)' => IInv'
<1>1. UNCHANGED <<lock, known, acked>> /\ "recover" \in Steps \ Outside
  BY DEF DurablyOrRecover, Steps, Outside
<1>2. CASE Synced(f) /\ Goto(p, next)
  <2>1. Became(p, next, op[p].after, op[p].commit, op[p].migrates)
    BY <1>2, GotoBecame DEF IInv
  <2>2. Position(p)' /\ Settled(p)' /\ Finished(p)' => IInv'
    BY <1>1, <1>2, <2>1, WriteStep
  <2> QED
    BY <1>1, <1>2, <2>1, <2>2 DEF Synced
<1>3. CASE Unsynced(f) /\ op' = [op EXCEPT ![p].at = "recover", ![p].after = "verify"]
  <2>1. Became(p, "recover", "verify", op[p].commit, op[p].migrates)
    BY <1>3, RecoverBecame DEF IInv
  <2> QED
    BY <1>1, <1>3, <2>1, WriteStep
<1> QED
  BY <1>2, <1>3 DEF DurablyOrRecover

LEMMA WriteJournalKeeps ==
  ASSUME IInv, NEW p \in Procs, WriteJournal(p) PROVE IInv'
<1> DEFINE t == [previous |-> files.registry, next |-> op[p].commit,
                 oldProjection |-> files.projection]
<1> DEFINE f == [files EXCEPT !.journal = t]
<1> HIDE DEF t, f
<1>1. op[p].at = "journal" /\ op[p].at \notin Outside
  BY DEF WriteJournal, Outside
<1>2. /\ Position(p) /\ FileOK(files) /\ files \in Files
      /\ op[p].commit # NoRegistry /\ files.journal = NoJournal /\ files.registry = op[p].base
      /\ Since(acked, op[p].base) /\ <<op[p].base, op[p].commit>> \in Transitions
      /\ op[p].base \in Stored /\ op[p].commit \in Stored /\ acked \in Stored
      /\ Since(files.registry, files.registry)
  BY <1>1, HolderFacts DEF Position, Purpose, IInv, TypeOK
<1>3. op[p].commit \in Registries /\ op[p].commit # op[p].base /\ Since(op[p].base, op[p].commit)
  BY <1>2, TransitionAdvances
<1>4. t \in Transition /\ t # NoJournal /\ t.previous = files.registry /\ t.next = op[p].commit
        /\ t.oldProjection = files.projection
  <2>1. /\ t.previous = files.registry /\ t.next = op[p].commit
        /\ t.oldProjection = files.projection
    BY DEF t
  <2>2. files.projection \in Addresses \cup {NoAddress} /\ files.registry \in Stored
    BY <1>2, JournalTyped
  <2>3. t \in [previous : Stored, next : Registries, oldProjection : Addresses \cup {NoAddress}]
    BY <1>3, <2>2 DEF t
  <2>4. t \in Transition
    BY <1>2, <2>1, <2>3 DEF Transition
  <2>5. t # NoJournal
    BY <1>2, <2>1, NoJournalFields
  <2> QED
    BY <2>1, <2>4, <2>5
<1>5. f \in Files /\ f.projection = files.projection /\ f.registry = files.registry /\ f.journal = t
  BY <1>2, <1>4, WrittenTyped, WrittenFields DEF f
<1>6. Effective(f) = op[p].commit /\ Since(acked, Effective(f)) /\ Since(files.registry, f.registry)
  BY <1>2, <1>3, <1>4, <1>5, SinceTransitive DEF Effective
<1>7. FileOK(f)
  BY <1>2, <1>4, <1>5, NoJournalFields DEF FileOK, ProjectionOf
<1>8. "projection" \in Steps \ Outside /\ DurablyOrRecover(p, f, "projection")
  BY DEF WriteJournal, Steps, Outside, f, t
<1>9. CASE /\ files' = f /\ Became(p, "projection", op[p].after, op[p].commit, op[p].migrates)
           /\ UNCHANGED <<lock, known, acked>>
           /\ Position(p)' /\ Settled(p)' /\ Finished(p)' => IInv'
  <2>1. Position(p)'
    BY <1>2, <1>3, <1>4, <1>5, <1>6, <1>9
    DEF Position, Became, Recovering, Writing, Effective
  <2>2. Settled(p)' /\ Finished(p)'
    BY <1>9 DEF Settled, Finished, Became
  <2> QED
    BY <1>9, <2>1, <2>2
<1>10. CASE /\ files' = files \/ files' = f
            /\ Became(p, "recover", "verify", op[p].commit, op[p].migrates)
            /\ UNCHANGED <<lock, known, acked>>
            /\ Position(p)' /\ Settled(p)' /\ Finished(p)' => IInv'
  <2>1. Position(p)'
    BY <1>2, <1>3, <1>4, <1>5, <1>6, <1>10
    DEF Position, Became, Recovering, Writing, Effective
  <2>2. Settled(p)' /\ Finished(p)'
    BY <1>2, <1>3, <1>5, <1>10 DEF Settled, Finished, Became
  <2> QED
    BY <1>10, <2>1, <2>2
<1> QED
  BY <1>1, <1>2, <1>5, <1>6, <1>7, <1>8, <1>9, <1>10, CommitWrites

\* What the files hold while a commit is being written.
LEMMA WritingFacts ==
  ASSUME IInv, NEW p \in Procs, op[p].at \in Writing
  PROVE  /\ op[p].at \notin Outside /\ op[p].commit # NoRegistry /\ op[p].commit \in Registries
         /\ op[p].base \in Stored /\ op[p].base # op[p].commit
         /\ Since(op[p].base, op[p].commit) /\ Since(acked, op[p].base)
         /\ files \in Files /\ FileOK(files) /\ files.journal # NoJournal
         /\ files.journal.previous = op[p].base /\ files.journal.next = op[p].commit
         /\ files.registry = IF op[p].at = "remove" THEN op[p].commit ELSE op[p].base
         /\ Since(acked, op[p].commit) /\ Effective(files) = op[p].commit
         /\ Position(p)
<1>1. op[p].at \notin Outside
  BY DEF Writing, Outside
<1>2. /\ Position(p) /\ FileOK(files) /\ files \in Files /\ op[p].commit # NoRegistry
      /\ files.journal # NoJournal
      /\ files.journal.previous = op[p].base /\ files.journal.next = op[p].commit
      /\ files.registry = IF op[p].at = "remove" THEN op[p].commit ELSE op[p].base
      /\ Since(acked, op[p].base) /\ <<op[p].base, op[p].commit>> \in Transitions
      /\ op[p].base \in Stored /\ op[p].commit \in Stored /\ acked \in Stored
  BY <1>1, HolderFacts DEF Position, Purpose, IInv, TypeOK
<1>3. op[p].commit \in Registries /\ op[p].base # op[p].commit /\ Since(op[p].base, op[p].commit)
  BY <1>2, TransitionAdvances
<1>4. Since(acked, op[p].commit)
  BY <1>2, <1>3, SinceTransitive
<1>5. Effective(files) = op[p].commit
  BY <1>2 DEF Effective
<1> QED
  BY <1>1, <1>2, <1>3, <1>4, <1>5

LEMMA ApplyProjectionKeeps ==
  ASSUME IInv, NEW p \in Procs, ApplyProjection(p) PROVE IInv'
<1> DEFINE home == ProjectionOf(op[p].commit)
<1> DEFINE f == [files EXCEPT !.projection = home]
<1> HIDE DEF f
<1>1. op[p].at = "projection" /\ op[p].at \in Writing /\ op[p].at \notin Outside
  BY DEF ApplyProjection, Writing, Outside
<1>2. /\ op[p].commit # NoRegistry /\ op[p].commit \in Registries
      /\ op[p].base # op[p].commit /\ files \in Files /\ FileOK(files)
      /\ files.journal # NoJournal /\ files.journal.previous = op[p].base
      /\ files.journal.next = op[p].commit /\ files.registry = op[p].base
      /\ Since(acked, op[p].commit) /\ Effective(files) = op[p].commit /\ Position(p)
  BY <1>1, WritingFacts
<1>3. {"registry", "restore"} \subseteq Steps \ Outside
  BY DEF Steps, Outside
<1>4. CASE Skip(p, "registry") /\ files.projection = home
  <2>1. /\ Became(p, "registry", op[p].after, op[p].commit, op[p].migrates)
        /\ UNCHANGED <<files, survivors, lock, known, acked>>
        /\ Position(p)' /\ Settled(p)' /\ Finished(p)' => IInv'
    BY <1>1, <1>3, <1>4, QuietStep
  <2>2. Position(p)'
    BY <1>1, <1>2, <1>4, <2>1
    DEF Position, Became, Recovering, Writing, Effective, ProjectionOf
  <2>3. Settled(p)' /\ Finished(p)'
    BY <2>1 DEF Settled, Finished, Became
  <2> QED
    BY <2>1, <2>2, <2>3
<1>5. CASE Durably(p, f, "registry", "restore")
  <2>1. f \in Files /\ f.projection = home /\ f.registry = files.registry
          /\ f.journal = files.journal
    BY <1>2, WrittenTyped, WrittenFields, ProjectionTyped DEF f, Stored
  <2>2. PICK step \in {"registry", "restore"} :
          /\ Goto(p, step) /\ UNCHANGED <<lock, known, acked>> /\ (Synced(f) \/ Unsynced(f))
          /\ step = "registry" => Synced(f)
    BY <1>5 DEF Durably
  <2> step \in Steps \ Outside
    BY <1>3
  <2>3. Effective(f) = Effective(files) /\ Since(files.registry, f.registry)
    BY <1>1, <1>2, <2>1, HolderFacts DEF Effective
  <2>4. FileOK(f)
    BY <1>2, <2>1 DEF FileOK
  <2>5. Became(p, step, op[p].after, op[p].commit, op[p].migrates)
    BY <2>2, GotoBecame DEF IInv
  <2>6. /\ files' = files \/ files' = f
        /\ Position(p)' /\ Settled(p)' /\ Finished(p)' => IInv'
    BY <1>1, <1>2, <2>1, <2>2, <2>3, <2>4, <2>5, WriteStep
  <2>7. Position(p)'
    BY <1>1, <1>2, <2>1, <2>2, <2>5, <2>6
    DEF Position, Became, Recovering, Writing, Effective, Synced, ProjectionOf
  <2>8. Settled(p)' /\ Finished(p)'
    BY <2>5 DEF Settled, Finished, Became
  <2> QED
    BY <2>6, <2>7, <2>8
<1> QED
  BY <1>4, <1>5 DEF ApplyProjection, Apply, f

LEMMA RestoreProjectionKeeps ==
  ASSUME IInv, NEW p \in Procs, RestoreProjection(p) PROVE IInv'
<1> DEFINE old == files.journal.oldProjection
<1> DEFINE f == [files EXCEPT !.projection = old]
<1> HIDE DEF f
<1>1. op[p].at = "restore" /\ op[p].at \in Writing /\ op[p].at \notin Outside
  BY DEF RestoreProjection, Writing, Outside
<1>2. /\ op[p].commit # NoRegistry /\ op[p].commit \in Registries
      /\ op[p].base # op[p].commit /\ files \in Files /\ FileOK(files)
      /\ files.journal # NoJournal /\ files.journal.previous = op[p].base
      /\ files.journal.next = op[p].commit /\ files.registry = op[p].base
      /\ Since(acked, op[p].commit) /\ Effective(files) = op[p].commit /\ Position(p)
  BY <1>1, WritingFacts
<1>3. "removeAborted" \in Steps \ Outside
  BY DEF Steps, Outside
<1>4. CASE Skip(p, "removeAborted") /\ files.projection = old
  <2>1. /\ Became(p, "removeAborted", op[p].after, op[p].commit, op[p].migrates)
        /\ UNCHANGED <<files, survivors, lock, known, acked>>
        /\ Position(p)' /\ Settled(p)' /\ Finished(p)' => IInv'
    BY <1>1, <1>3, <1>4, QuietStep
  <2>2. Position(p)'
    BY <1>1, <1>2, <1>4, <2>1 DEF Position, Became, Recovering, Writing, Effective
  <2>3. Settled(p)' /\ Finished(p)'
    BY <2>1 DEF Settled, Finished, Became
  <2> QED
    BY <2>1, <2>2, <2>3
<1>5. CASE DurablyOrRecover(p, f, "removeAborted")
  <2>1. f \in Files /\ f.projection = old /\ f.registry = files.registry
          /\ f.journal = files.journal
    BY <1>2, WrittenTyped, WrittenFields, JournalTyped DEF f
  <2>2. Effective(f) = Effective(files) /\ Since(files.registry, f.registry)
    BY <1>1, <1>2, <2>1, HolderFacts DEF Effective
  <2>3. FileOK(f)
    BY <1>2, <2>1, RegistryAssumption DEF FileOK
  <2>4. CASE /\ files' = f /\ Became(p, "removeAborted", op[p].after, op[p].commit, op[p].migrates)
             /\ UNCHANGED <<lock, known, acked>>
             /\ Position(p)' /\ Settled(p)' /\ Finished(p)' => IInv'
    <3>1. Position(p)'
      BY <1>1, <1>2, <2>1, <2>4 DEF Position, Became, Recovering, Writing, Effective
    <3>2. Settled(p)' /\ Finished(p)'
      BY <2>4 DEF Settled, Finished, Became
    <3> QED
      BY <2>4, <3>1, <3>2
  <2>5. CASE /\ files' = files \/ files' = f
             /\ Became(p, "recover", "verify", op[p].commit, op[p].migrates)
             /\ UNCHANGED <<lock, known, acked>>
             /\ Position(p)' /\ Settled(p)' /\ Finished(p)' => IInv'
    <3>1. Position(p)'
      BY <1>1, <1>2, <2>1, <2>5 DEF Position, Became, Recovering, Writing, Effective
    <3>2. Settled(p)' /\ Finished(p)'
      BY <1>2, <2>1, <2>5 DEF Settled, Finished, Became
    <3> QED
      BY <2>5, <3>1, <3>2
  <2> QED
    BY <1>1, <1>2, <1>3, <1>5, <2>1, <2>2, <2>3, <2>4, <2>5, CommitWrites
<1> QED
  BY <1>4, <1>5 DEF RestoreProjection, f

LEMMA RemoveAbortedKeeps ==
  ASSUME IInv, NEW p \in Procs, RemoveAborted(p) PROVE IInv'
<1> DEFINE f == [files EXCEPT !.journal = NoJournal]
<1> HIDE DEF f
<1>1. op[p].at = "removeAborted" /\ op[p].at \in Writing /\ op[p].at \notin Outside
  BY DEF RemoveAborted, Writing, Outside
<1>2. /\ op[p].commit # NoRegistry /\ op[p].commit \in Registries
      /\ op[p].base # op[p].commit /\ files \in Files /\ FileOK(files)
      /\ files.journal # NoJournal /\ files.journal.previous = op[p].base
      /\ files.journal.next = op[p].commit /\ files.registry = op[p].base
      /\ Since(acked, op[p].base) /\ Position(p)
  BY <1>1, WritingFacts
<1>3. files.projection = files.journal.oldProjection
  BY <1>1, <1>2 DEF Position
<1>4. f \in Files /\ f.projection = files.projection /\ f.registry = files.registry
        /\ f.journal = NoJournal
  BY <1>2, WrittenTyped, WrittenFields DEF f
<1>5. Effective(f) = op[p].base /\ Since(files.registry, f.registry)
  BY <1>1, <1>2, <1>4, HolderFacts DEF Effective
<1>6. FileOK(f)
  BY <1>2, <1>3, <1>4 DEF FileOK
<1>7. Became(p, "recover", "verify", op[p].commit, op[p].migrates)
  BY RecoverBecame DEF IInv, RemoveAborted
<1>8. UNCHANGED <<lock, known, acked>> /\ (Synced(f) \/ Unsynced(f)) /\ "recover" \in Steps \ Outside
  BY DEF RemoveAborted, f, Steps, Outside
<1>9. /\ files' = files \/ files' = f
      /\ Position(p)' /\ Settled(p)' /\ Finished(p)' => IInv'
  BY <1>1, <1>2, <1>4, <1>5, <1>6, <1>7, <1>8, WriteStep
<1>10. Position(p)'
  BY <1>1, <1>2, <1>4, <1>5, <1>7, <1>8, <1>9
  DEF Position, Became, Recovering, Writing, Effective
<1>11. Settled(p)' /\ Finished(p)'
  BY <1>2, <1>4, <1>7, <1>8, <1>9 DEF Settled, Finished, Became
<1> QED
  BY <1>9, <1>10, <1>11

LEMMA WriteRegistryKeeps ==
  ASSUME IInv, NEW p \in Procs, WriteRegistry(p) PROVE IInv'
<1> DEFINE f == [files EXCEPT !.registry = op[p].commit]
<1> HIDE DEF f
<1>1. op[p].at = "registry" /\ op[p].at \in Writing /\ op[p].at \notin Outside
  BY DEF WriteRegistry, Writing, Outside
<1>2. /\ op[p].commit # NoRegistry /\ op[p].commit \in Registries
      /\ op[p].base # op[p].commit /\ files \in Files /\ FileOK(files)
      /\ files.journal # NoJournal /\ files.journal.previous = op[p].base
      /\ files.journal.next = op[p].commit /\ files.registry = op[p].base
      /\ Since(op[p].base, op[p].commit)
      /\ Since(acked, op[p].commit) /\ Effective(files) = op[p].commit /\ Position(p)
  BY <1>1, WritingFacts
<1>3. files.projection = ProjectionOf(op[p].commit)
  BY <1>1, <1>2 DEF Position
<1>4. f \in Files /\ f.projection = files.projection /\ f.registry = op[p].commit
        /\ f.journal = files.journal
  BY <1>2, WrittenTyped, WrittenFields DEF f, Stored
<1>5. Effective(f) = op[p].commit /\ Since(files.registry, f.registry)
  BY <1>2, <1>4 DEF Effective
<1>6. FileOK(f)
  BY <1>2, <1>3, <1>4 DEF FileOK
<1>7. "remove" \in Steps \ Outside /\ DurablyOrRecover(p, f, "remove")
  BY DEF WriteRegistry, Steps, Outside, f
<1>8. CASE /\ files' = f /\ survivors' = {f}
           /\ Became(p, "remove", op[p].after, op[p].commit, op[p].migrates)
           /\ UNCHANGED <<lock, known, acked>>
           /\ Position(p)' /\ Settled(p)' /\ Finished(p)' => IInv'
  <2>1. Position(p)'
    BY <1>2, <1>3, <1>4, <1>5, <1>8
    DEF Position, Became, Recovering, Writing, Effective, ProjectionOf
  <2>2. Settled(p)' /\ Finished(p)'
    BY <1>8 DEF Settled, Finished, Became
  <2> QED
    BY <1>8, <2>1, <2>2
<1>9. CASE /\ files' = files \/ files' = f
           /\ Became(p, "recover", "verify", op[p].commit, op[p].migrates)
           /\ UNCHANGED <<lock, known, acked>>
           /\ Position(p)' /\ Settled(p)' /\ Finished(p)' => IInv'
  <2>1. Position(p)'
    BY <1>2, <1>4, <1>5, <1>9 DEF Position, Became, Recovering, Writing, Effective
  <2>2. Settled(p)' /\ Finished(p)'
    BY <1>2, <1>4, <1>9 DEF Settled, Finished, Became
  <2> QED
    BY <1>9, <2>1, <2>2
<1> QED
  BY <1>1, <1>2, <1>4, <1>5, <1>6, <1>7, <1>8, <1>9, CommitWrites

LEMMA RemoveJournalKeeps ==
  ASSUME IInv, NEW p \in Procs, RemoveJournal(p) PROVE IInv'
<1> DEFINE f == [files EXCEPT !.journal = NoJournal]
<1> DEFINE next == IF op[p].migrates THEN "read" ELSE "done"
<1> HIDE DEF f, next
<1>1. op[p].at = "remove" /\ op[p].at \in Writing /\ op[p].at \notin Outside
  BY DEF RemoveJournal, Writing, Outside
<1>2. /\ op[p].commit # NoRegistry /\ op[p].commit \in Registries
      /\ op[p].base # op[p].commit /\ files \in Files /\ FileOK(files)
      /\ files.journal # NoJournal /\ files.journal.previous = op[p].base
      /\ files.journal.next = op[p].commit /\ files.registry = op[p].commit
      /\ Since(acked, op[p].commit) /\ Effective(files) = op[p].commit /\ Position(p)
  BY <1>1, WritingFacts
<1>3. files.projection = ProjectionOf(op[p].commit) /\ survivors = {files} /\ Purpose(p)
  BY <1>1, <1>2, HolderFacts DEF Position
<1>4. f \in Files /\ f.projection = files.projection /\ f.registry = files.registry
        /\ f.journal = NoJournal
  BY <1>2, WrittenTyped, WrittenFields DEF f
<1>5. Effective(f) = op[p].commit /\ Since(files.registry, f.registry)
  BY <1>1, <1>2, <1>4, HolderFacts DEF Effective
<1>6. FileOK(f)
  BY <1>2, <1>3, <1>4, RegistryAssumption DEF FileOK
<1>7. next \in Steps \ Outside /\ next \in {"read", "done"} /\ DurablyOrRecover(p, f, next)
        /\ (next = "read" <=> op[p].migrates)
  BY DEF RemoveJournal, Committed, Steps, Outside, f, next
<1>8. CASE /\ files' = f /\ survivors' = {f}
           /\ Became(p, next, op[p].after, op[p].commit, op[p].migrates)
           /\ UNCHANGED <<lock, known, acked>>
           /\ Position(p)' /\ Settled(p)' /\ Finished(p)' => IInv'
  <2>1. Position(p)'
    BY <1>2, <1>4, <1>5, <1>7, <1>8 DEF Position, Became, Recovering, Writing, Effective
  <2>2. Settled(p)'
    BY <1>3, <1>4, <1>5, <1>8 DEF Settled, Became, Effective, ProjectionOf
  <2>3. Finished(p)'
    BY <1>2, <1>3, <1>4, <1>7, <1>8 DEF Finished, Became, Purpose, ProjectionOf
  <2> QED
    BY <1>8, <2>1, <2>2, <2>3
<1>9. CASE /\ (files' = files /\ survivors' = survivors) \/ (files' = f /\ survivors' \subseteq survivors \cup {f})
           /\ Became(p, "recover", "verify", op[p].commit, op[p].migrates)
           /\ UNCHANGED <<lock, known, acked>>
           /\ Position(p)' /\ Settled(p)' /\ Finished(p)' => IInv'
  <2>1. Position(p)'
    BY <1>2, <1>4, <1>5, <1>9 DEF Position, Became, Recovering, Writing, Effective
  <2>2. \A g \in survivors' : Effective(g) = op[p].commit
    BY <1>2, <1>3, <1>5, <1>9
  <2>3. Settled(p)'
    BY <1>2, <1>3, <1>4, <1>9, <2>2 DEF Settled, Became, Effective, ProjectionOf
  <2>4. Finished(p)'
    BY <1>9 DEF Finished, Became
  <2> QED
    BY <1>9, <2>1, <2>3, <2>4
<1> QED
  BY <1>1, <1>2, <1>4, <1>5, <1>6, <1>7, <1>8, <1>9, CommitWrites

LEMMA VerifyKeeps ==
  ASSUME IInv, NEW p \in Procs, Verify(p) PROVE IInv'
<1>1. op[p].at = "verify" /\ op[p].at \notin Outside /\ files.journal = NoJournal
  BY ReadingFacts DEF Verify
<1>2. /\ Position(p) /\ Purpose(p) /\ Settled(p) /\ op[p].commit # NoRegistry
      /\ files.registry = op[p].base \/ files.registry = op[p].commit
      /\ op[p].base \in Stored /\ op[p].commit \in Stored
      /\ op[p].commit \in Registries \ Legacy /\ <<op[p].base, op[p].commit>> \in Transitions
      /\ op[p].base # op[p].commit
  BY <1>1, HolderFacts, TransitionAdvances DEF Position, Purpose, Effective
<1>3. CASE files.registry \in Legacy
  <2>1. Begin(p, Migrated[files.registry], TRUE)
    BY <1>3 DEF Verify
  <2>2. files.registry = op[p].base /\ Migrated[files.registry] \in Stored
          /\ <<op[p].base, Migrated[op[p].base]>> \in Transitions
    BY <1>2, <1>3, LegacyAssumption DEF Stored
  <2> QED
    BY <1>1, <1>3, <2>1, <2>2, BeginKeeps
<1>4. CASE files.registry \notin Legacy
  <2>1. PICK step \in {"read", "done", "failed"} :
          /\ Skip(p, step)
          /\ step \in {"read", "done"} => files.registry = op[p].commit
          /\ step = "read" => op[p].migrates
          /\ step = "done" => ~op[p].migrates
    BY <1>4 DEF Verify, Committed
  <2> step \in Steps \ Outside
    BY DEF Steps, Outside
  <2>2. /\ Became(p, step, op[p].after, op[p].commit, op[p].migrates)
        /\ UNCHANGED <<files, survivors, lock, known, acked>>
        /\ Position(p)' /\ Settled(p)' /\ Finished(p)' => IInv'
    BY <1>1, <2>1, QuietStep
  <2>3. Position(p)'
    BY <1>1, <1>2, <2>1, <2>2 DEF Position, Became, Recovering, Writing, Effective
  <2>4. Settled(p)'
    BY <1>1, <1>2, <2>1, <2>2 DEF Settled, Became, Effective, ProjectionOf
  <2>5. files.registry = op[p].commit => files.projection = ProjectionOf(op[p].commit)
    BY <1>1, <1>2 DEF Settled
  <2>6. Finished(p)'
    BY <1>2, <2>1, <2>2, <2>5 DEF Finished, Became, Purpose, ProjectionOf
  <2> QED
    BY <2>2, <2>3, <2>4, <2>6
<1> QED
  BY <1>3, <1>4

-----------------------------------------------------------------------------
(* Entering, leaving, and the environment.                                     *)

LEMMA IdleTyped == Idle \in Operation /\ Idle.at = "idle" /\ Idle.kind = "none"
  BY DEF Idle, Operation, Steps, Kinds, Stored

LEMMA InitHolds == Init => IInv
<1> SUFFICES ASSUME Init PROVE IInv
  OBVIOUS
<1>1. PICK r \in Legacy \cup {NoRegistry} :
        files = [registry |-> r, projection |-> ProjectionOf(r), journal |-> NoJournal]
  BY DEF Init
<1>2. r \in Stored
  BY LegacyAssumption DEF Stored
<1>3. files \in Files
  BY <1>1, <1>2, ProjectionTyped DEF Files
<1>4. TypeOK
  BY <1>3, IdleTyped DEF Init, TypeOK, Stored
<1>5. FilesInv
  BY <1>1, NoJournalFields DEF Init, FilesInv, FileOK, Since, ProjectionOf
<1>6. KnownInv
  BY DEF Init, KnownInv, Since
<1>7. ControlInv
  BY IdleTyped, ProcAssumption DEF Init, ControlInv, Outside
<1>8. HolderInv
  BY ProcAssumption DEF Init, HolderInv
<1> QED
  BY <1>4, <1>5, <1>6, <1>7, <1>8 DEF IInv

\* Steps that leave the files and the reported transition alone.
LEMMA FilesKept ==
  ASSUME FilesInv, UNCHANGED <<files, survivors, acked>> PROVE FilesInv'
  BY DEF FilesInv, FileOK, Since, Effective, ProjectionOf

\* Steps that leave the files and the holder of the lock alone.
LEMMA HolderKept ==
  ASSUME HolderInv, NEW p \in Procs, lock' = lock, lock # p,
         UNCHANGED <<files, survivors, acked>>,
         \A q \in Procs \ {p} : op'[q] = op[q] /\ known'[q] = known[q]
  PROVE  HolderInv'
<1> SUFFICES ASSUME NEW q \in Procs, lock = q
             PROVE  Purpose(q)' /\ Position(q)' /\ Settled(q)' /\ Finished(q)'
  BY DEF HolderInv
<1>1. q \in Procs \ {p} /\ Purpose(q) /\ Position(q) /\ Settled(q) /\ Finished(q)
  BY DEF HolderInv
<1>2. op'[q] = op[q] /\ known'[q] = known[q]
  BY <1>1
<1>3. Purpose(q)'
  BY <1>1, <1>2 DEF Purpose, Since
<1>4. Position(q)'
  BY <1>1, <1>2 DEF Position, Effective, ProjectionOf
<1>5. Settled(q)' /\ Finished(q)'
  BY <1>1, <1>2 DEF Settled, Finished, Effective, ProjectionOf
<1> QED
  BY <1>3, <1>4, <1>5

LEMMA EnterKeeps ==
  ASSUME IInv, NEW p \in Procs, NEW kind \in Kinds, Enter(p, kind) PROVE IInv'
<1> DEFINE o == [Idle EXCEPT !.kind = kind, !.at = "lock"]
<1>1. /\ op[p] = Idle /\ op' = [op EXCEPT ![p] = o] /\ lock # p
      /\ kind \in {"update", "validate"} => known[p] # NoRegistry
      /\ UNCHANGED <<files, survivors, lock, known, acked>>
  BY IdleTyped DEF Enter, IInv, ControlInv, Outside
<1>2. /\ o \in Operation /\ o.at = "lock" /\ o.kind = kind /\ o.commit = NoRegistry
      /\ o.after = "read" /\ ~o.migrates
  BY IdleTyped DEF Idle, Operation, Steps
<1> HIDE DEF o
<1>3. op' \in [Procs -> Operation] /\ op'[p] = o /\ \A q \in Procs \ {p} : op'[q] = op[q]
  BY <1>1, <1>2 DEF IInv, TypeOK
<1>4. TypeOK'
  BY <1>1, <1>3 DEF IInv, TypeOK
<1>5. FilesInv'
  BY <1>1, FilesKept DEF IInv
<1>6. KnownInv'
  BY <1>1 DEF IInv, KnownInv, Since
<1>7. ControlInv'
  BY <1>1, <1>2, <1>3, IdleTyped DEF IInv, ControlInv, Outside
<1>8. HolderInv'
  BY <1>1, <1>3, HolderKept DEF IInv
<1> QED
  BY <1>4, <1>5, <1>6, <1>7, <1>8 DEF IInv

LEMMA AcquireKeeps ==
  ASSUME IInv, NEW p \in Procs, Acquire(p) PROVE IInv'
<1>1. /\ op[p].at = "lock" /\ lock = NoProc /\ lock' = p
      /\ op' = [op EXCEPT ![p].at = "recover", ![p].base = Effective(files)]
      /\ UNCHANGED <<files, survivors, known, acked>>
  BY DEF Acquire
<1>2. /\ files \in Files /\ Effective(files) \in Stored /\ op[p] \in Operation
      /\ op[p].commit = NoRegistry /\ op[p].after = "read" /\ ~op[p].migrates
      /\ op[p].kind \in Kinds
      /\ op[p].kind \in {"update", "validate"} => known[p] # NoRegistry
      /\ Since(acked, Effective(files)) /\ Since(known[p], files.registry)
      /\ FileOK(files) /\ known[p] \in Stored /\ files.registry \in Stored
  BY <1>1, JournalTyped DEF IInv, TypeOK, ControlInv, FilesInv, KnownInv
<1>3. /\ op' \in [Procs -> Operation]
      /\ op'[p].at = "recover" /\ op'[p].base = Effective(files)
      /\ op'[p].commit = NoRegistry /\ op'[p].after = "read" /\ ~op'[p].migrates
      /\ op'[p].kind = op[p].kind
      /\ \A q \in Procs \ {p} : op'[q] = op[q]
  BY <1>1, <1>2 DEF IInv, TypeOK, Operation, Steps
<1>4. TypeOK'
  BY <1>1, <1>3 DEF IInv, TypeOK
<1>5. FilesInv'
  BY <1>1, FilesKept DEF IInv
<1>6. KnownInv'
  BY <1>1 DEF IInv, KnownInv, Since
<1>7. ControlInv'
  <2> SUFFICES ASSUME NEW q \in Procs
               PROVE  (/\ op[q].at \notin Outside <=> lock = q
                       /\ op[q].at = "idle" <=> op[q] = Idle
                       /\ op[q].at = "lock" =>
                            op[q].commit = NoRegistry /\ op[q].after = "read" /\ ~op[q].migrates
                       /\ op[q].at # "idle" => op[q].kind \in Kinds
                       /\ op[q].kind \in {"update", "validate"} => known[q] # NoRegistry)'
    BY DEF ControlInv
  <2>1. CASE q # p
    BY <1>1, <1>3, <2>1, ProcAssumption DEF IInv, ControlInv
  <2>2. CASE q = p
    BY <1>1, <1>2, <1>3, <2>2, IdleTyped DEF Outside
  <2> QED
    BY <2>1, <2>2
<1>8. Since(files.registry, Effective(files))
  <2>1. CASE Effective(files) = files.registry
    BY <2>1 DEF Since
  <2>2. CASE Effective(files) # files.registry
    <3>1. /\ files.registry = files.journal.previous /\ Effective(files) = files.journal.next
          /\ <<files.journal.previous, files.journal.next>> \in Transitions
      BY <1>2, <2>2, JournalTyped DEF Effective, FileOK
    <3> QED
      BY <1>2, <3>1, TransitionAdvances
  <2> QED
    BY <2>1, <2>2
<1>9. Purpose(p)'
  <2>1. Since(known[p], Effective(files))
    BY <1>2, <1>8, SinceTransitive
  <2> QED
    BY <1>1, <1>2, <1>3, <2>1 DEF Purpose, Since
<1>10. Position(p)'
  BY <1>1, <1>3 DEF Position, Effective, Recovering, Writing
<1>11. Settled(p)' /\ Finished(p)'
  BY <1>3 DEF Settled, Finished
<1>12. HolderInv'
  BY <1>1, <1>9, <1>10, <1>11 DEF HolderInv
<1> QED
  BY <1>4, <1>5, <1>6, <1>7, <1>12 DEF IInv

\* What a finished entry returns.
LEMMA ReturnFacts ==
  ASSUME IInv, NEW p \in Procs, op[p].at = "done"
  PROVE  /\ lock = p /\ files.journal = NoJournal /\ files \in survivors
         /\ files.projection = ProjectionOf(files.registry)
         /\ op[p].kind = "load" =>
              files.registry = IF op[p].base \in Legacy THEN Migrated[op[p].base] ELSE op[p].base
         /\ op[p].kind = "validate" => files.registry = op[p].base /\ op[p].base = known[p]
         /\ op[p].kind \in {"update", "create"} =>
              /\ op[p].commit # NoRegistry /\ files.registry = op[p].commit
              /\ \A f \in survivors : Effective(f) = op[p].commit
              /\ <<op[p].base, op[p].commit>> \in Transitions
              /\ op[p].base = IF op[p].kind = "update" THEN known[p] ELSE NoRegistry
         /\ op[p].kind \in Kinds
<1>1. /\ lock = p /\ files \in survivors /\ Purpose(p) /\ Position(p) /\ Settled(p) /\ Finished(p)
      /\ op[p].kind \in Kinds
  BY HolderFacts DEF Outside
<1>2. files.journal = NoJournal
  BY <1>1 DEF Position
<1>3. files.projection = ProjectionOf(files.registry)
  BY <1>1 DEF Finished
<1>4. op[p].kind = "load" =>
         files.registry = IF op[p].base \in Legacy THEN Migrated[op[p].base] ELSE op[p].base
  BY <1>1 DEF Finished
<1>5. op[p].kind = "validate" => files.registry = op[p].base /\ op[p].base = known[p]
  BY <1>1 DEF Finished
<1>6. ASSUME op[p].kind \in {"update", "create"}
      PROVE  /\ op[p].commit # NoRegistry /\ files.registry = op[p].commit
             /\ \A f \in survivors : Effective(f) = op[p].commit
             /\ <<op[p].base, op[p].commit>> \in Transitions
             /\ op[p].base = IF op[p].kind = "update" THEN known[p] ELSE NoRegistry
  <2>1. op[p].commit # NoRegistry /\ ~op[p].migrates /\ files.registry = op[p].commit
    BY <1>1, <1>6 DEF Finished
  <2>2. \A f \in survivors : Effective(f) = op[p].commit
    BY <1>1, <1>2, <1>6, <2>1 DEF Settled
  <2> QED
    BY <1>1, <1>6, <2>1, <2>2 DEF Purpose
<1> QED
  BY <1>1, <1>2, <1>3, <1>4, <1>5, <1>6

\* A process that leaves, or dies, frees its lock.
LEMMA UnlockKeeps ==
  ASSUME IInv, NEW p \in Procs, lock' = NoProc, op' = [op EXCEPT ![p] = Idle],
         \A q \in Procs \ {p} : lock # q,
         UNCHANGED <<files, survivors>>, acked' \in Stored,
         \A f \in survivors : Since(acked', Effective(f)),
         known' \in [Procs -> Stored], Since(known'[p], files.registry),
         \A q \in Procs \ {p} : known'[q] = known[q]
  PROVE  IInv'
<1>1. op' \in [Procs -> Operation] /\ op'[p] = Idle /\ \A q \in Procs \ {p} : op'[q] = op[q]
  BY IdleTyped DEF IInv, TypeOK
<1>2. TypeOK'
  BY <1>1 DEF IInv, TypeOK
<1>3. FilesInv'
  BY DEF IInv, FilesInv
<1>4. KnownInv'
  BY DEF IInv, KnownInv, Since
<1>5. ControlInv'
  <2> SUFFICES ASSUME NEW q \in Procs
               PROVE  (/\ op[q].at \notin Outside <=> lock = q
                       /\ op[q].at = "idle" <=> op[q] = Idle
                       /\ op[q].at = "lock" =>
                            op[q].commit = NoRegistry /\ op[q].after = "read" /\ ~op[q].migrates
                       /\ op[q].at # "idle" => op[q].kind \in Kinds
                       /\ op[q].kind \in {"update", "validate"} => known[q] # NoRegistry)'
    BY DEF ControlInv
  <2>1. CASE q # p
    BY <1>1, <2>1, ProcAssumption DEF IInv, ControlInv
  <2>2. CASE q = p
    BY <1>1, <2>2, IdleTyped, ProcAssumption DEF Outside
  <2> QED
    BY <2>1, <2>2
<1>6. HolderInv'
  BY ProcAssumption DEF HolderInv
<1> QED
  BY <1>2, <1>3, <1>4, <1>5, <1>6 DEF IInv

LEMMA ReturnKeeps ==
  ASSUME IInv, NEW p \in Procs, Return(p) PROVE IInv'
<1>1. op[p].at = "done" /\ lock' = NoProc /\ op' = [op EXCEPT ![p] = Idle]
        /\ UNCHANGED <<files, survivors>>
  BY DEF Return, Unlock
<1>2. /\ lock = p /\ op[p].kind \in Kinds /\ files.registry \in Stored /\ op[p].commit \in Stored
      /\ op[p].kind \in {"update", "create"} =>
           /\ files.registry = op[p].commit
           /\ \A f \in survivors : Effective(f) = op[p].commit
      /\ known \in [Procs -> Stored] /\ acked \in Stored
      /\ Since(known[p], files.registry) /\ Since(files.registry, files.registry)
      /\ \A f \in survivors : Since(acked, Effective(f))
  BY <1>1, ReturnFacts, HolderFacts, JournalTyped DEF IInv, TypeOK, KnownInv, FilesInv, Outside
<1>3. known' \in [Procs -> Stored] /\ (known'[p] = files.registry \/ known'[p] = known[p])
        /\ \A q \in Procs \ {p} : known'[q] = known[q]
  <2>1. CASE op[p].kind = "load"
    BY <1>2, <2>1 DEF Return
  <2>2. CASE op[p].kind = "validate"
    BY <1>2, <2>2 DEF Return
  <2>3. CASE op[p].kind \in {"update", "create"}
    BY <1>2, <2>3 DEF Return
  <2> QED
    BY <1>2, <2>1, <2>2, <2>3 DEF Kinds
<1>4. acked' \in Stored /\ \A f \in survivors : Since(acked', Effective(f))
  BY <1>2 DEF Return, Since
<1>5. Since(known'[p], files.registry)
  BY <1>2, <1>3
<1> QED
  BY <1>1, <1>2, <1>3, <1>4, <1>5, UnlockKeeps

LEMMA ThrowKeeps ==
  ASSUME IInv, NEW p \in Procs, Throw(p) PROVE IInv'
<1>1. /\ lock = p /\ lock' = NoProc /\ op' = [op EXCEPT ![p] = Idle]
      /\ UNCHANGED <<files, survivors, known, acked>>
  BY HolderFacts DEF Throw, Unlock, Outside
<1>2. acked \in Stored /\ \A f \in survivors : Since(acked, Effective(f))
  BY DEF IInv, TypeOK, FilesInv
<1>3. known \in [Procs -> Stored] /\ Since(known[p], files.registry)
  BY DEF IInv, TypeOK, KnownInv
<1> QED
  BY <1>1, <1>2, <1>3, UnlockKeeps

LEMMA CrashKeeps ==
  ASSUME IInv, NEW p \in Procs, Crash(p) PROVE IInv'
<1>1. /\ op' = [op EXCEPT ![p] = Idle] /\ known' = [known EXCEPT ![p] = NoRegistry]
      /\ lock' = IF lock = p THEN NoProc ELSE lock
      /\ UNCHANGED <<files, survivors, acked>>
  BY DEF Crash
<1>2. acked \in Stored /\ \A f \in survivors : Since(acked, Effective(f))
  BY DEF IInv, TypeOK, FilesInv
<1>3. /\ known' \in [Procs -> Stored] /\ known'[p] = NoRegistry
      /\ \A q \in Procs \ {p} : known'[q] = known[q]
  BY <1>1 DEF IInv, TypeOK, Stored
<1>4. Since(known'[p], files.registry)
  BY <1>3 DEF Since
<1>5. CASE lock \in {p, NoProc}
  BY <1>1, <1>2, <1>3, <1>4, <1>5, UnlockKeeps, ProcAssumption
<1>6. CASE lock \notin {p, NoProc}
  <2>1. op' \in [Procs -> Operation] /\ op'[p] = Idle /\ \A q \in Procs \ {p} : op'[q] = op[q]
    BY <1>1, IdleTyped DEF IInv, TypeOK
  <2>2. lock' = lock
    BY <1>1, <1>6
  <2>3. TypeOK'
    BY <1>1, <1>3, <2>1, <2>2 DEF IInv, TypeOK
  <2>4. FilesInv'
    BY <1>1, FilesKept DEF IInv
  <2>5. KnownInv'
    BY <1>1, <1>3, <1>4 DEF IInv, KnownInv, Since
  <2>6. ControlInv'
    BY <1>3, <1>6, <2>1, <2>2, IdleTyped DEF IInv, ControlInv, Outside
  <2>7. HolderInv'
    BY <1>1, <1>3, <1>6, <2>1, <2>2, HolderKept DEF IInv
  <2> QED
    BY <2>3, <2>4, <2>5, <2>6, <2>7 DEF IInv
<1> QED
  BY <1>5, <1>6

LEMMA PowerLossKeeps == IInv /\ PowerLoss => IInv'
<1> SUFFICES ASSUME IInv, PowerLoss PROVE IInv'
  OBVIOUS
<1>1. /\ files' \in survivors /\ survivors' = {files'} /\ lock' = NoProc
      /\ op' = [p \in Procs |-> Idle] /\ known' = [p \in Procs |-> NoRegistry] /\ acked' = acked
  BY DEF PowerLoss
<1>2. TypeOK'
  BY <1>1, IdleTyped DEF IInv, TypeOK, Stored
<1>3. FilesInv'
  BY <1>1 DEF IInv, FilesInv
<1>4. KnownInv'
  BY <1>1 DEF KnownInv, Since
<1>5. ControlInv'
  BY <1>1, IdleTyped, ProcAssumption DEF ControlInv, Outside
<1>6. HolderInv'
  BY <1>1, ProcAssumption DEF HolderInv
<1> QED
  BY <1>2, <1>3, <1>4, <1>5, <1>6 DEF IInv

LEMMA DowngradeKeeps ==
  ASSUME IInv, NEW address \in Foreign, Downgrade(address) PROVE IInv'
<1> DEFINE f == [files EXCEPT !.projection = address]
<1> HIDE DEF f
<1>1. /\ \A p \in Procs : op[p] = Idle
      /\ files.registry # NoRegistry /\ Unsynced(f)
      /\ UNCHANGED <<lock, op, known, acked>>
  BY DEF Downgrade, f
<1>2. files \in Files /\ FileOK(files) /\ Since(acked, Effective(files)) /\ address \in Addresses
  BY RegistryAssumption DEF IInv, TypeOK, FilesInv
<1>3. f \in Files /\ f.projection = address /\ f.registry = files.registry
        /\ f.journal = files.journal
  BY <1>2, WrittenTyped, WrittenFields DEF f
<1>4. FileOK(f) /\ Effective(f) = Effective(files)
  BY <1>1, <1>2, <1>3 DEF FileOK, Effective
<1>5. FilesInv' /\ files' \in Files /\ survivors' \subseteq Files /\ files' \in {files, f}
  BY <1>1, <1>2, <1>3, <1>4, WrittenFiles DEF IInv
<1>6. TypeOK'
  BY <1>1, <1>5 DEF IInv, TypeOK
<1>7. KnownInv'
  BY <1>1, <1>3, <1>5 DEF IInv, KnownInv, Since
<1>8. ControlInv'
  BY <1>1 DEF IInv, ControlInv
<1>9. \A p \in Procs : lock # p
  BY <1>1, IdleTyped DEF IInv, ControlInv, Outside
<1>10. HolderInv'
  BY <1>1, <1>9 DEF HolderInv
<1> QED
  BY <1>5, <1>6, <1>7, <1>8, <1>10 DEF IInv

LEMMA ContinueKeeps ==
  ASSUME IInv, NEW p \in Procs, Continue(p) PROVE IInv'
  BY ReadJournalKeeps, RecoverProjectionKeeps, RecoverRegistryKeeps, RecoverRemoveKeeps,
     MigrateLegacyKeeps, ReadForLoadKeeps, RepairProjectionKeeps, ReadForUpdateKeeps,
     ReadForCreateKeeps, ReadForValidateKeeps, WriteJournalKeeps, ApplyProjectionKeeps,
     RestoreProjectionKeeps, RemoveAbortedKeeps, WriteRegistryKeeps, RemoveJournalKeeps,
     VerifyKeeps, ReadFailsKeeps, ReturnKeeps, ThrowKeeps
  DEF Continue

LEMMA StutterKeeps == IInv /\ UNCHANGED vars => IInv'
<1> SUFFICES ASSUME IInv, UNCHANGED vars PROVE IInv'
  OBVIOUS
<1>1. UNCHANGED <<files, survivors, lock, op, known, acked>>
  BY DEF vars
<1>2. TypeOK' /\ KnownInv' /\ ControlInv'
  BY <1>1 DEF IInv, TypeOK, KnownInv, ControlInv, Since
<1>3. FilesInv'
  BY <1>1, FilesKept DEF IInv
<1>4. HolderInv'
  <2> SUFFICES ASSUME NEW q \in Procs, lock = q
               PROVE  Purpose(q)' /\ Position(q)' /\ Settled(q)' /\ Finished(q)'
    BY <1>1 DEF HolderInv
  <2>1. Purpose(q) /\ Position(q) /\ Settled(q) /\ Finished(q)
    BY DEF IInv, HolderInv
  <2>2. Purpose(q)' /\ Position(q)'
    BY <1>1, <2>1 DEF Purpose, Position, Effective, ProjectionOf, Since
  <2>3. Settled(q)' /\ Finished(q)'
    BY <1>1, <2>1 DEF Settled, Finished, Effective, ProjectionOf
  <2> QED
    BY <2>2, <2>3
<1> QED
  BY <1>2, <1>3, <1>4 DEF IInv

LEMMA Invariant == Spec => []IInv
<1>1. IInv /\ [Next]_vars => IInv'
  <2> SUFFICES ASSUME IInv, [Next]_vars PROVE IInv'
    OBVIOUS
  <2> QED
    BY EnterKeeps, AcquireKeeps, ContinueKeeps, CrashKeeps, PowerLossKeeps, DowngradeKeeps,
       StutterKeeps DEF Next
<1> QED
  BY InitHolds, <1>1, PTL DEF Spec

-----------------------------------------------------------------------------
(* The safety theorems.                                                        *)

\* Every variable keeps its type.
THEOREM TypeCorrect == Spec => []TypeOK
  BY Invariant, PTL DEF IInv

\* Whatever a crash exposes, recoverTransitionUnlocked finds a registry that its journal
\* starts from or has reached.
THEOREM Recoverable == Spec => []AlwaysRecoverable
<1>1. IInv => AlwaysRecoverable
  BY DEF IInv, FilesInv, FileOK, AlwaysRecoverable
<1> QED
  BY <1>1, Invariant, PTL

\* Whatever a crash exposes, the projection names no account but the home of the stored
\* registry or of the journal's, or what a downgraded build wrote.
THEOREM FailsClosed == Spec => []ProjectionFailsClosed
<1>1. IInv => ProjectionFailsClosed
  BY DEF IInv, FilesInv, FileOK, ProjectionFailsClosed
<1> QED
  BY <1>1, Invariant, PTL

\* A transition that update or create reported as done is never lost.
THEOREM Durable == Spec => []SuccessIsDurable
<1>1. IInv => SuccessIsDurable
  BY DEF IInv, FilesInv, Since, SuccessIsDurable
<1> QED
  BY <1>1, Invariant, PTL

\* The revision that update compares tells registries apart.
THEOREM RevisionsNameContents == Spec => []RevisionNamesContent
<1>1. ASSUME IInv PROVE RevisionNamesContent
  <2> SUFFICES ASSUME NEW p \in Procs, known[p] # NoRegistry, files.registry # NoRegistry,
                      Revision[files.registry] <= Revision[known[p]]
               PROVE  files.registry = known[p]
    BY DEF RevisionNamesContent
  <2>1. Since(known[p], files.registry) /\ known[p] \in Registries /\ files.registry \in Registries
    BY <1>1, JournalTyped DEF IInv, KnownInv, TypeOK, Stored
  <2>2. Revision[known[p]] \in Nat /\ Revision[files.registry] \in Nat
    BY <2>1, RegistryAssumption
  <2> QED
    BY <2>1, <2>2 DEF Since
<1> QED
  BY <1>1, Invariant, PTL

\* An entry that succeeds leaves no journal and the projection of its registry.
THEOREM Consistent == Spec => []ReturnsConsistent
<1>1. IInv => ReturnsConsistent
  BY ReturnFacts DEF ReturnsConsistent
<1> QED
  BY <1>1, Invariant, PTL

-----------------------------------------------------------------------------
(* The store implements the compare-and-swap register.                         *)

Register == IF lock = NoProc THEN Effective(files) ELSE op[lock].base
Unsure == {Effective(f) : f \in survivors}
Calls == [p \in Procs |-> IF op[p] = Idle THEN "idle" ELSE op[p].kind]

LEMMA InitSimulated == Init => Atomic!Init
<1> SUFFICES ASSUME Init PROVE Atomic!Init
  OBVIOUS
<1>1. PICK r \in Legacy \cup {NoRegistry} :
        files = [registry |-> r, projection |-> ProjectionOf(r), journal |-> NoJournal]
  BY DEF Init
<1>2. Effective(files) = r /\ survivors = {files} /\ lock = NoProc
  BY <1>1 DEF Init, Effective
<1>3. Unsure = {r}
  BY <1>2 DEF Unsure
<1>4. Calls = [p \in Procs |-> "idle"]
  BY DEF Init, Calls
<1> QED
  BY <1>2, <1>3, <1>4 DEF Init, Atomic!Init, Unsure, Calls

\* A step of the holder of the lock that does not leave keeps its call and its base.
LEMMA InsideStep ==
  ASSUME IInv, NEW p \in Procs, Continue(p), ~Return(p), ~Throw(p)
  PROVE  /\ op[p].at \notin Outside /\ survivors' \subseteq survivors \cup {files'}
         /\ UNCHANGED <<lock, known>>
         /\ \E at, after, commit, migrates : Became(p, at, after, commit, migrates)
<1> DEFINE Moved == /\ survivors' \subseteq survivors \cup {files'} /\ UNCHANGED <<lock, known>>
                    /\ \E at, after, commit, migrates :
                         Became(p, at, after, commit, migrates)
<1>1. ASSUME NEW step \in Steps, Skip(p, step) PROVE Moved
  BY <1>1, GotoBecame DEF Skip, IInv
<1>2. ASSUME NEW next \in Stored, NEW migrates \in BOOLEAN, Begin(p, next, migrates) PROVE Moved
  <2>1. Became(p, "journal", op[p].after, next, migrates)
    BY <1>2, BeginBecame DEF IInv, Begin
  <2> QED
    BY <1>2, <2>1 DEF Begin, Steps
<1>3. ASSUME NEW f, NEW next \in Steps, NEW failed \in Steps, Durably(p, f, next, failed) PROVE Moved
  <2>1. PICK step \in Steps : Goto(p, step)
    BY <1>3 DEF Durably
  <2> QED
    BY <1>3, <2>1, GotoBecame DEF Durably, Synced, Unsynced, IInv
<1>4. ASSUME NEW address, NEW next \in Steps, NEW failed \in Steps, Apply(p, address, next, failed)
      PROVE  Moved
  BY <1>1, <1>3, <1>4 DEF Apply
<1>5. ASSUME NEW f, NEW next \in Steps, DurablyOrRecover(p, f, next) PROVE Moved
  <2>1. CASE Goto(p, next)
    BY <1>5, <2>1, GotoBecame DEF DurablyOrRecover, Synced, Unsynced, IInv
  <2>2. CASE op' = [op EXCEPT ![p].at = "recover", ![p].after = "verify"]
    <3>1. Became(p, "recover", "verify", op[p].commit, op[p].migrates)
      BY <2>2, RecoverBecame DEF IInv
    <3> QED
      BY <1>5, <3>1 DEF DurablyOrRecover, Synced, Unsynced, Steps
  <2> QED
    BY <1>5, <2>1, <2>2 DEF DurablyOrRecover
<1> HIDE DEF Moved
<1>6. /\ "recoverProjection" \in Steps /\ "recoverRegistry" \in Steps /\ "recoverRemove" \in Steps
      /\ "read" \in Steps /\ "repair" \in Steps /\ "projection" \in Steps /\ "registry" \in Steps
      /\ "remove" \in Steps /\ "restore" \in Steps /\ "removeAborted" \in Steps
      /\ "done" \in Steps /\ "failed" \in Steps /\ Committed(p) \in Steps
  BY DEF Steps, Committed
<1>7. op[p].after \in Steps
  BY DEF IInv, TypeOK, Operation, Steps
<1>8. CASE ReadJournal(p)
  BY <1>1, <1>6, <1>7, <1>8 DEF ReadJournal, Outside, Moved
<1>9. CASE RecoverProjection(p)
  BY <1>4, <1>6, <1>9 DEF RecoverProjection, Outside, Moved
<1>10. CASE RecoverRegistry(p)
  BY <1>1, <1>3, <1>6, <1>10 DEF RecoverRegistry, Outside, Moved
<1>11. CASE RecoverRemove(p)
  BY <1>3, <1>6, <1>7, <1>11 DEF RecoverRemove, Outside, Moved
<1>12. CASE MigrateLegacy(p)
  BY <1>2, <1>12, LegacyAssumption DEF MigrateLegacy, Outside, Stored, Moved
<1>13. CASE ReadForLoad(p)
  BY <1>1, <1>6, <1>13 DEF ReadForLoad, Outside, Moved
<1>14. CASE RepairProjection(p)
  BY <1>1, <1>4, <1>6, <1>14 DEF RepairProjection, Outside, Moved
<1>15. CASE ReadForUpdate(p)
  BY <1>1, <1>2, <1>6, <1>15 DEF ReadForUpdate, Outside, Stored, Moved
<1>16. CASE ReadForCreate(p)
  BY <1>1, <1>2, <1>6, <1>16 DEF ReadForCreate, Outside, Stored, Moved
<1>17. CASE ReadForValidate(p)
  BY <1>1, <1>6, <1>17 DEF ReadForValidate, Outside, Moved
<1>18. CASE WriteJournal(p)
  BY <1>5, <1>6, <1>18 DEF WriteJournal, Outside, Moved
<1>19. CASE ApplyProjection(p)
  BY <1>4, <1>6, <1>19 DEF ApplyProjection, Outside, Moved
<1>20. CASE RestoreProjection(p)
  BY <1>1, <1>5, <1>6, <1>20 DEF RestoreProjection, Outside, Moved
<1>21. CASE RemoveAborted(p)
  <2>1. Became(p, "recover", "verify", op[p].commit, op[p].migrates)
    BY <1>21, RecoverBecame DEF IInv, RemoveAborted
  <2> QED
    BY <1>21, <2>1 DEF RemoveAborted, Outside, Synced, Unsynced, Steps
<1>22. CASE WriteRegistry(p)
  BY <1>5, <1>6, <1>22 DEF WriteRegistry, Outside, Moved
<1>23. CASE RemoveJournal(p)
  BY <1>5, <1>6, <1>23 DEF RemoveJournal, Outside, Moved
<1>24. CASE Verify(p)
  <2>1. CASE files.registry \in Legacy
    BY <1>2, <1>24, <2>1, LegacyAssumption DEF Verify, Outside, Stored, Moved
  <2>2. CASE files.registry \notin Legacy
    BY <1>1, <1>6, <1>24, <2>2 DEF Verify, Outside, Moved
  <2> QED
    BY <2>1, <2>2
<1>25. CASE ReadFails(p)
  BY <1>1, <1>6, <1>25 DEF ReadFails, Outside, Moved
<1> QED
  BY <1>8, <1>9, <1>10, <1>11, <1>12, <1>13, <1>14, <1>15, <1>16, <1>17, <1>18, <1>19, <1>20,
     <1>21, <1>22, <1>23, <1>24, <1>25 DEF Continue

\* What is in effect when the holder of the lock leaves, whatever happened to its call.
LEMMA LeftBehind ==
  ASSUME IInv, NEW p \in Procs, lock = p
  PROVE  /\ Register = op[p].base /\ Calls[p] = op[p].kind /\ op[p].kind \in Kinds
         /\ \/ Effective(files) = Register
            \/ /\ Effective(files) \in Registries /\ <<Register, Effective(files)>> \in Transitions
               /\ op[p].kind \in {"load", "validate"} =>
                    Register \in Legacy /\ Effective(files) = Migrated[Register]
<1>1. op[p].at \notin Outside /\ p # NoProc
  BY ProcAssumption DEF IInv, ControlInv
<1>2. Purpose(p) /\ Position(p) /\ op[p].kind \in Kinds /\ op[p].commit \in Stored
        /\ op[p].base \in Stored
  BY <1>1, HolderFacts
<1>3. Register = op[p].base
  BY <1>1 DEF Register
<1>4. Calls[p] = op[p].kind
  BY <1>1, IdleTyped DEF Calls, Outside
<1>5. CASE Effective(files) = op[p].base
  BY <1>2, <1>3, <1>4, <1>5
<1>6. CASE Effective(files) # op[p].base
  <2>1. op[p].commit # NoRegistry /\ Effective(files) = op[p].commit
    BY <1>2, <1>6 DEF Position
  <2>2. <<op[p].base, op[p].commit>> \in Transitions
    BY <1>2, <2>1 DEF Purpose
  <2>3. op[p].commit \in Registries
    BY <1>2, <2>2, TransitionAdvances
  <2>4. op[p].kind \in {"load", "validate"} =>
          op[p].base \in Legacy /\ op[p].commit = Migrated[op[p].base]
    BY <1>2, <2>1 DEF Purpose
  <2> QED
    BY <1>2, <1>3, <1>4, <2>1, <2>2, <2>3, <2>4
<1> QED
  BY <1>5, <1>6

\* What a call may leave behind in the register's own terms.
LEMMA LeavesDoubt ==
  ASSUME IInv, NEW p \in Procs, lock = p
  PROVE  Effective(files) \in Atomic!Doubtful(p)
<1>1. Calls[p] \in Kinds /\ Calls[p] # "idle"
  BY LeftBehind DEF Kinds
<1>2. CASE Calls[p] \in {"load", "validate"}
  <2>1. Effective(files) = Register \/ (Register \in Legacy /\ Effective(files) = Migrated[Register])
    BY <1>2, LeftBehind
  <2> QED
    BY <1>1, <1>2, <2>1 DEF Atomic!Doubtful, Atomic!Opened, Register, Calls
<1>3. CASE Calls[p] \in {"update", "create"}
  <2>1. Effective(files) = Register
          \/ (Effective(files) \in Registries /\ <<Register, Effective(files)>> \in Transitions)
    BY LeftBehind
  <2> QED
    BY <1>1, <1>3, <2>1 DEF Atomic!Doubtful, Atomic!Successors, Register, Calls
<1> QED
  BY <1>1, <1>2, <1>3 DEF Kinds

\* Only one call changes at a time.
LEMMA CallsChange ==
  ASSUME NEW p \in Procs, NEW call, Calls'[p] = call,
         \A q \in Procs \ {p} : Calls'[q] = Calls[q]
  PROVE  Calls' = [Calls EXCEPT ![p] = call]
<1>1. Calls' = [q \in Procs |-> Calls'[q]]
  BY DEF Calls
<1>2. [Calls EXCEPT ![p] = call] = [q \in Procs |-> IF q = p THEN call ELSE Calls[q]]
  BY DEF Calls
<1>3. [q \in Procs |-> Calls'[q]] = [q \in Procs |-> IF q = p THEN call ELSE Calls[q]]
  OBVIOUS
<1> QED
  BY <1>1, <1>2, <1>3

LEMMA EnterSimulated ==
  ASSUME IInv, NEW p \in Procs, NEW kind \in Kinds, Enter(p, kind) PROVE Atomic!Call(p, kind)
<1> DEFINE o == [Idle EXCEPT !.kind = kind, !.at = "lock"]
<1>1. /\ op[p] = Idle /\ op' = [op EXCEPT ![p] = o] /\ lock # p
      /\ kind \in {"update", "validate"} => known[p] # NoRegistry
      /\ UNCHANGED <<files, survivors, lock, known, acked>>
  BY IdleTyped DEF Enter, IInv, ControlInv, Outside
<1>2. o # Idle /\ o.kind = kind
  BY DEF Idle
<1> HIDE DEF o
<1>3. op'[p] = o /\ \A q \in Procs \ {p} : op'[q] = op[q]
  BY <1>1 DEF IInv, TypeOK
<1>4. Calls[p] = "idle" /\ Calls' = [Calls EXCEPT ![p] = kind]
  <2>1. Calls[p] = "idle" /\ Calls'[p] = kind
    BY <1>1, <1>2, <1>3 DEF Calls
  <2>2. \A q \in Procs \ {p} : Calls'[q] = Calls[q]
    BY <1>3 DEF Calls
  <2> QED
    BY <2>1, <2>2, CallsChange
<1>5. lock \in Procs \cup {NoProc}
  BY DEF IInv, TypeOK
<1>6. Register' = Register /\ Unsure' = Unsure
  BY <1>1, <1>3, <1>5 DEF Register, Unsure, Effective
<1> QED
  BY <1>1, <1>4, <1>6 DEF Atomic!Call, Register, Unsure, Calls

\* Taking the lock changes nothing that shows.
LEMMA AcquireSimulated ==
  ASSUME IInv, NEW p \in Procs, Acquire(p) PROVE UNCHANGED Atomic!vars
<1>1. /\ op[p].at = "lock" /\ lock = NoProc /\ lock' = p /\ p # NoProc
      /\ op' = [op EXCEPT ![p].at = "recover", ![p].base = Effective(files)]
      /\ UNCHANGED <<files, survivors, known, acked>>
  BY ProcAssumption DEF Acquire
<1>2. op'[p].at = "recover" /\ op'[p].base = Effective(files) /\ op'[p].kind = op[p].kind
        /\ \A q \in Procs \ {p} : op'[q] = op[q]
  BY <1>1 DEF IInv, TypeOK, Operation
<1>3. op[p] # Idle /\ op'[p] # Idle
  BY <1>1, <1>2, IdleTyped
<1>4. Calls' = Calls
  BY <1>2, <1>3 DEF Calls
<1>5. Register' = Register
  BY <1>1, <1>2 DEF Register
<1>6. Unsure' = Unsure
  BY <1>1 DEF Unsure, Effective
<1> QED
  BY <1>1, <1>4, <1>5, <1>6 DEF Atomic!vars, Register, Unsure, Calls

\* A write of the holder changes at most what a loss of power would leave.
LEMMA InsideSimulated ==
  ASSUME IInv, IInv', NEW p \in Procs, Continue(p), ~Return(p), ~Throw(p) PROVE Atomic!Drift
<1>1. PICK at, after, commit, migrates :
        /\ op[p].at \notin Outside /\ survivors' \subseteq survivors \cup {files'}
        /\ UNCHANGED <<lock, known>> /\ Became(p, at, after, commit, migrates)
  BY InsideStep
<1>2. lock = p /\ lock' = p /\ p # NoProc
  BY <1>1, HolderFacts, ProcAssumption
<1>3. op'[p].at \notin Outside
  BY <1>2 DEF IInv, ControlInv
<1>4. op'[p] # Idle /\ op[p] # Idle
  BY <1>1, <1>3, IdleTyped DEF Outside
<1>5. Calls' = Calls
  BY <1>1, <1>4 DEF Calls, Became
<1>6. Register' = Register /\ Register = op[p].base /\ op'[p].base = op[p].base
  BY <1>1, <1>2 DEF Register, Became
<1>7. Effective(files') = Register
        \/ (Effective(files') \in Registries /\ <<Register, Effective(files')>> \in Transitions)
  <2>1. Purpose(p)' /\ Position(p)'
    BY <1>2 DEF IInv, HolderInv
  <2>2. op'[p].base \in Stored /\ op'[p].commit \in Stored
    BY DEF IInv, TypeOK, Operation
  <2>3. CASE Effective(files') = op'[p].base
    BY <1>6, <2>3
  <2>4. CASE op'[p].commit # NoRegistry /\ Effective(files') = op'[p].commit
    <3>1. <<op'[p].base, op'[p].commit>> \in Transitions
      BY <2>1, <2>4 DEF Purpose
    <3>2. op'[p].commit \in Registries
      BY <2>2, <3>1, TransitionAdvances
    <3> QED
      BY <1>6, <2>4, <3>1, <3>2
  <2> QED
    BY <2>1, <2>3, <2>4 DEF Position, Effective
<1>8. Unsure' \subseteq Unsure \cup {Register} \cup {n \in Registries : <<Register, n>> \in Transitions}
  <2> SUFFICES ASSUME NEW f \in survivors'
               PROVE  Effective(f) \in
                        Unsure \cup {Register} \cup {n \in Registries : <<Register, n>> \in Transitions}
    BY DEF Unsure, Effective
  <2>1. CASE f \in survivors
    BY <2>1 DEF Unsure
  <2>2. CASE f = files'
    BY <1>7, <2>2
  <2> QED
    BY <1>1, <2>1, <2>2
<1> QED
  BY <1>1, <1>5, <1>6, <1>8 DEF Atomic!Drift, Atomic!Successors, Register, Unsure, Calls

\* A process that leaves, or dies, makes its registry and its answer visible.
LEMMA LeaveCalls ==
  ASSUME IInv, NEW p \in Procs, op' = [op EXCEPT ![p] = Idle], UNCHANGED <<files, survivors>>
  PROVE  Calls' = [Calls EXCEPT ![p] = "idle"] /\ Unsure' = Unsure
<1>1. op'[p] = Idle /\ \A q \in Procs \ {p} : op'[q] = op[q]
  BY DEF IInv, TypeOK
<1>2. Calls'[p] = "idle" /\ \A q \in Procs \ {p} : Calls'[q] = Calls[q]
  BY <1>1 DEF Calls
<1>3. Unsure' = Unsure
  BY DEF Unsure, Effective
<1> QED
  BY <1>2, <1>3, CallsChange

LEMMA ReturnSimulated ==
  ASSUME IInv, NEW p \in Procs, Return(p)
  PROVE  Atomic!Load(p) \/ Atomic!Validate(p) \/ Atomic!Swap(p)
<1>1. op[p].at = "done" /\ lock' = NoProc /\ op' = [op EXCEPT ![p] = Idle]
        /\ UNCHANGED <<files, survivors>>
  BY DEF Return, Unlock
<1>2. Calls' = [Calls EXCEPT ![p] = "idle"] /\ Unsure' = Unsure
  BY <1>1, LeaveCalls
<1>3. /\ lock = p /\ files.journal = NoJournal /\ files \in survivors
      /\ op[p].kind \in Kinds
  BY <1>1, ReturnFacts
<1>4. Register = op[p].base /\ Calls[p] = op[p].kind
  BY <1>3, LeftBehind
<1>5. Register' = files.registry
  BY <1>1, <1>3 DEF Register, Effective
<1>6. CASE op[p].kind = "load"
  <2>1. files.registry = IF Register \in Legacy THEN Migrated[Register] ELSE Register
    BY <1>1, <1>4, <1>6, ReturnFacts
  <2>2. known' = [known EXCEPT ![p] = files.registry]
    BY <1>6 DEF Return
  <2> QED
    BY <1>2, <1>4, <1>5, <1>6, <2>1, <2>2
    DEF Atomic!Load, Atomic!Opened, Register, Unsure, Calls
<1>7. CASE op[p].kind = "validate"
  <2>1. files.registry = Register /\ Register = known[p]
    BY <1>1, <1>4, <1>7, ReturnFacts
  <2>2. known' = known
    BY <1>7 DEF Return
  <2> QED
    BY <1>2, <1>4, <1>5, <1>7, <2>1, <2>2 DEF Atomic!Validate, Register, Unsure, Calls
<1>8. CASE op[p].kind \in {"update", "create"}
  <2>1. /\ files.registry = op[p].commit /\ op[p].commit # NoRegistry
        /\ \A f \in survivors : Effective(f) = op[p].commit
        /\ <<Register, op[p].commit>> \in Transitions
        /\ Register = IF op[p].kind = "update" THEN known[p] ELSE NoRegistry
        /\ op[p].kind = "update" => known[p] # NoRegistry
    BY <1>1, <1>4, <1>8, ReturnFacts, HolderFacts DEF Outside
  <2>2. known' = [known EXCEPT ![p] = op[p].commit]
    BY <1>8 DEF Return
  <2>3. Unsure = {op[p].commit}
    BY <1>3, <2>1 DEF Unsure
  <2>4. op[p].commit \in Registries
    BY <2>1, TransitionAssumption
  <2> QED
    BY <1>2, <1>4, <1>5, <1>8, <2>1, <2>2, <2>3, <2>4
    DEF Atomic!Swap, Atomic!Successors, Register, Unsure, Calls
<1> QED
  BY <1>3, <1>6, <1>7, <1>8 DEF Kinds

LEMMA ThrowSimulated ==
  ASSUME IInv, NEW p \in Procs, Throw(p) PROVE Atomic!Fail(p)
<1>1. /\ lock = p /\ lock' = NoProc /\ op' = [op EXCEPT ![p] = Idle]
      /\ UNCHANGED <<files, survivors, known, acked>>
  BY HolderFacts DEF Throw, Unlock, Outside
<1>2. Calls' = [Calls EXCEPT ![p] = "idle"] /\ Unsure' = Unsure
  BY <1>1, LeaveCalls
<1>3. Register' = Effective(files)
  BY <1>1 DEF Register, Effective
<1>4. Calls[p] # "idle"
  BY <1>1, LeftBehind DEF Kinds
<1> QED
  BY <1>1, <1>2, <1>3, <1>4, LeavesDoubt DEF Atomic!Fail, Register, Unsure, Calls

LEMMA CrashSimulated ==
  ASSUME IInv, NEW p \in Procs, Crash(p) PROVE Atomic!Crash(p)
<1>1. /\ op' = [op EXCEPT ![p] = Idle] /\ known' = [known EXCEPT ![p] = NoRegistry]
      /\ lock' = IF lock = p THEN NoProc ELSE lock
      /\ UNCHANGED <<files, survivors, acked>>
  BY DEF Crash
<1>2. Calls' = [Calls EXCEPT ![p] = "idle"] /\ Unsure' = Unsure
  BY <1>1, LeaveCalls
<1>3. Register' \in Atomic!Doubtful(p)
  <2>1. CASE lock = p
    <3>1. Register' = Effective(files)
      BY <1>1, <2>1 DEF Register, Effective
    <3> QED
      BY <2>1, <3>1, LeavesDoubt
  <2>2. CASE lock # p
    <3>1. lock \in Procs \cup {NoProc} /\ \A q \in Procs \ {p} : op'[q] = op[q]
      BY <1>1 DEF IInv, TypeOK
    <3>2. Register' = Register
      BY <1>1, <2>2, <3>1 DEF Register, Effective
    <3>3. Register \in Atomic!Doubtful(p)
      BY DEF Atomic!Doubtful, Register, Calls
    <3> QED
      BY <3>2, <3>3
  <2> QED
    BY <2>1, <2>2
<1> QED
  BY <1>1, <1>2, <1>3 DEF Atomic!Crash, Register, Unsure, Calls

LEMMA PowerLossSimulated == IInv /\ PowerLoss => Atomic!PowerLoss
<1> SUFFICES ASSUME IInv, PowerLoss PROVE Atomic!PowerLoss
  OBVIOUS
<1>1. /\ files' \in survivors /\ survivors' = {files'} /\ lock' = NoProc
      /\ op' = [p \in Procs |-> Idle] /\ known' = [p \in Procs |-> NoRegistry]
  BY DEF PowerLoss
<1>2. Register' = Effective(files') /\ Register' \in Unsure /\ Unsure' = {Register'}
  BY <1>1 DEF Register, Unsure, Effective
<1>3. Calls' = [p \in Procs |-> "idle"]
  BY <1>1 DEF Calls
<1> QED
  BY <1>1, <1>2, <1>3 DEF Atomic!PowerLoss, Register, Unsure, Calls

\* The projection is not part of the register.
LEMMA DowngradeSimulated ==
  ASSUME IInv, NEW address \in Foreign, Downgrade(address) PROVE UNCHANGED Atomic!vars
<1>1. \A p \in Procs : op[p] = Idle
  BY DEF Downgrade
<1>2. lock = NoProc /\ lock' = NoProc
  BY <1>1, IdleTyped DEF Downgrade, IInv, TypeOK, ControlInv, Outside
<1>3. files \in Files /\ files \in survivors
  BY DEF IInv, TypeOK, FilesInv
<1>4. Effective(files') = Effective(files) /\ survivors' = survivors \cup {files'}
        /\ UNCHANGED <<op, known>>
  BY <1>3 DEF Downgrade, Unsynced, Effective, Files
<1>5. Register' = Register
  BY <1>2, <1>4 DEF Register, Effective
<1>6. Unsure' = Unsure
  BY <1>3, <1>4 DEF Unsure, Effective
<1>7. Calls' = Calls
  BY <1>4 DEF Calls
<1> QED
  BY <1>4, <1>5, <1>6, <1>7 DEF Atomic!vars, Register, Unsure, Calls

\* The three files, their lock and their journal behave as one compare-and-swap register:
\* whatever fails, every call has happened as a whole or not at all.
THEOREM Refinement == Spec => Implements
<1>1. ASSUME IInv, IInv', [Next]_vars PROVE [Atomic!Next]_Atomic!vars
  <2>1. ASSUME NEW p \in Procs, NEW kind \in Kinds, Enter(p, kind) PROVE Atomic!Next
    BY <1>1, <2>1, EnterSimulated DEF Atomic!Next, Atomic!Kinds, Kinds
  <2>2. ASSUME NEW p \in Procs, Acquire(p) PROVE UNCHANGED Atomic!vars
    BY <1>1, <2>2, AcquireSimulated
  <2>3. ASSUME NEW p \in Procs, Continue(p) PROVE Atomic!Next
    <3>1. CASE Return(p)
      BY <1>1, <3>1, ReturnSimulated DEF Atomic!Next
    <3>2. CASE Throw(p)
      BY <1>1, <3>2, ThrowSimulated DEF Atomic!Next
    <3>3. CASE ~Return(p) /\ ~Throw(p)
      BY <1>1, <2>3, <3>3, InsideSimulated DEF Atomic!Next
    <3> QED
      BY <3>1, <3>2, <3>3
  <2>4. ASSUME NEW p \in Procs, Crash(p) PROVE Atomic!Next
    BY <1>1, <2>4, CrashSimulated DEF Atomic!Next
  <2>5. ASSUME PowerLoss PROVE Atomic!Next
    BY <1>1, <2>5, PowerLossSimulated DEF Atomic!Next
  <2>6. ASSUME NEW address \in Foreign, Downgrade(address) PROVE UNCHANGED Atomic!vars
    BY <1>1, <2>6, DowngradeSimulated
  <2>7. ASSUME UNCHANGED vars PROVE UNCHANGED Atomic!vars
    BY <2>7 DEF vars, Atomic!vars, Effective
  <2>8. CASE Next
    <3> SUFFICES ASSUME ~UNCHANGED Atomic!vars PROVE Atomic!Next
      OBVIOUS
    <3> QED
      BY <2>8, <2>1, <2>2, <2>3, <2>4, <2>5, <2>6 DEF Next
  <2> QED
    BY <1>1, <2>7, <2>8
<1> QED
  BY InitSimulated, Invariant, <1>1, PTL DEF Spec, Implements, Atomic!Spec

=============================================================================
