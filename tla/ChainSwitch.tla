----------------------------- MODULE ChainSwitch -----------------------------
(***************************************************************************)
(* The active chain of the wallet (ChainStore.swift): a file with the chain, *)
(* a write-ahead journal of a switch that a request asked for, and a flock.  *)
(* Whether the switch of a journal happened is read from the request's own   *)
(* record, by whoever takes the flock next.  One reader and writer does not  *)
(* take it: the deletion of a network (NetworkStore.resumeRemovalUnlocked),  *)
(* new or resumed, which replaces the active chain when it is the one to go. *)
(* It has only the networks' own lock, and leaves the journal as it is.      *)
(***************************************************************************)
EXTENDS Naturals

CONSTANTS
  Chains, NoChain,
  SwitchRequests,   \* the requests that may ask for a switch
  Procs, NoProc

ASSUME ChainAssumption == NoChain \notin Chains /\ NoProc \notin Procs /\ 0 \notin SwitchRequests

VARIABLES
  chain,       \* active-chain.conf
  journal,     \* active-chain-switch.json
  switchLock,  \* active-chain-switch.lock
  replacing    \* the chain that a deletion of its network has found active
chainVars == <<chain, journal, switchLock, replacing>>

Journal == [req : SwitchRequests, previous : Chains, target : Chains]
NoJournal == [req |-> 0, previous |-> NoChain, target |-> NoChain]

ChainTypeOK ==
  /\ chain \in Chains
  /\ journal \in Journal \cup {NoJournal}
  /\ switchLock \in Procs \cup {NoProc}
  /\ replacing \in Chains \cup {NoChain}

\* Faulty: an interrupted switch is taken as done.
RecoveredForward(consumed) == IF journal = NoJournal THEN chain ELSE journal.target

\* The chain that the journal stands for, when the requests of "consumed" are consumed.
Recovered(consumed) ==
  IF journal = NoJournal THEN chain
  ELSE IF journal.req \in consumed THEN journal.target ELSE journal.previous

BeginSwitch(r, previous, target) ==
  /\ journal' = [req |-> r, previous |-> previous, target |-> target]
  /\ UNCHANGED <<chain, switchLock, replacing>>

RecoverSwitch(consumed) == chain' = Recovered(consumed) /\ journal' = NoJournal

\* The network to go is the active one.  Under networks.lock there is one such deletion.
FindActive == replacing = NoChain /\ replacing' = chain /\ UNCHANGED <<chain, journal, switchLock>>

\* The first network that is left is made the active one, if there is any.  A deletion that
\* dies before that is resumed, and finds the active chain anew.
ReplaceActive ==
  /\ replacing # NoChain /\ replacing' = NoChain
  /\ chain' \in {chain} \cup (Chains \ {replacing})
  /\ UNCHANGED <<journal, switchLock>>

ReleasedSwitch(p) == IF switchLock = p THEN NoProc ELSE switchLock
=============================================================================
