---------------------------- MODULE AtomicRegistry ----------------------------
(* What the wallet registry promises its callers: one value, replaced by        *)
(* compare-and-swap.  A call returns what the registry holds, or swaps it from  *)
(* the value its caller had read, or fails.  A failed or interrupted swap has   *)
(* happened as a whole or not at all, and only a swap that no power loss can    *)
(* undo any more is reported as done.                                           *)
CONSTANTS
  Procs,        \* the processes and threads that open the registry
  Registries,   \* the registry values
  NoRegistry,   \* no registry was created yet
  Legacy,       \* the registries of the previous schema
  Migrated,     \* what each of them becomes
  Transitions   \* <<from, to>>: the registry may be replaced by that next one

VARIABLES
  registry,     \* what the registry holds
  unsure,       \* the values it may hold after a loss of power
  calls,        \* what each process is waiting for
  known         \* the registry each process was last given

vars == <<registry, unsure, calls, known>>

Kinds == {"load", "update", "create", "validate"}

Successors(r) == {n \in Registries : <<r, n>> \in Transitions}

\* Opening a registry of the previous schema migrates it; nothing else opens it.
Opened(r) == IF r \in Legacy THEN Migrated[r] ELSE r

\* What a call may leave behind when it is not seen to succeed.
Doubtful(p) ==
  CASE calls[p] = "idle" -> {registry}
    [] calls[p] \in {"load", "validate"} -> {registry, Opened(registry)}
    [] OTHER -> {registry, Opened(registry)} \cup Successors(registry)

-----------------------------------------------------------------------------
Init ==
  /\ registry \in {NoRegistry} \cup Legacy
  /\ unsure = {registry}
  /\ calls = [p \in Procs |-> "idle"]
  /\ known = [p \in Procs |-> NoRegistry]

Call(p, kind) ==
  /\ calls[p] = "idle"
  /\ kind \in {"update", "validate"} => known[p] # NoRegistry
  /\ calls' = [calls EXCEPT ![p] = kind]
  /\ UNCHANGED <<registry, unsure, known>>

Load(p) ==
  /\ calls[p] = "load"
  /\ registry' = Opened(registry)
  /\ known' = [known EXCEPT ![p] = registry']
  /\ calls' = [calls EXCEPT ![p] = "idle"]
  /\ UNCHANGED unsure

Validate(p) ==
  /\ calls[p] = "validate" /\ registry = known[p]
  /\ calls' = [calls EXCEPT ![p] = "idle"]
  /\ UNCHANGED <<registry, unsure, known>>

Swap(p) ==
  /\ \/ calls[p] = "update" /\ registry = known[p] /\ registry # NoRegistry
     \/ calls[p] = "create" /\ registry = NoRegistry
  /\ registry' \in Successors(registry) /\ unsure = {registry'}
  /\ known' = [known EXCEPT ![p] = registry']
  /\ calls' = [calls EXCEPT ![p] = "idle"]
  /\ UNCHANGED unsure

Fail(p) ==
  /\ calls[p] # "idle"
  /\ registry' \in Doubtful(p)
  /\ calls' = [calls EXCEPT ![p] = "idle"]
  /\ UNCHANGED <<unsure, known>>

Crash(p) ==
  /\ registry' \in Doubtful(p)
  /\ calls' = [calls EXCEPT ![p] = "idle"]
  /\ known' = [known EXCEPT ![p] = NoRegistry]
  /\ UNCHANGED unsure

\* A write in progress changes what a loss of power would leave, and losing power
\* ends every process.
Drift ==
  /\ unsure' \subseteq unsure \cup {registry} \cup Successors(registry)
  /\ UNCHANGED <<registry, calls, known>>

PowerLoss ==
  /\ registry' \in unsure
  /\ unsure' = {registry'}
  /\ calls' = [p \in Procs |-> "idle"]
  /\ known' = [p \in Procs |-> NoRegistry]

Next ==
  \/ \E p \in Procs : \/ \E kind \in Kinds : Call(p, kind)
                      \/ Load(p) \/ Validate(p) \/ Swap(p) \/ Fail(p) \/ Crash(p)
  \/ Drift \/ PowerLoss

Spec == Init /\ [][Next]_vars
=============================================================================
