------------------------ MODULE SigningApprovalProofs ------------------------
(***************************************************************************)
(* Proofs about SigningApproval, for any processes, chains, number of        *)
(* requests, mixes of them and number of faults.                             *)
(*                                                                          *)
(* The argument has two levels.  Control says what a handler at each of its  *)
(* steps has in hand: its request, its locks and an undecided record; it is  *)
(* inductive by itself, because no other handler can touch what a handler    *)
(* holds (Respects).  On it rest the four invariants about the data, each    *)
(* one inductive relative to Control:                                        *)
(*   Removal   how far a removal has come,                                   *)
(*   Journalled  what the chain's journal stands for,                        *)
(*   Nonces    which signed transactions are still open, and                 *)
(*   Payments  where the one live transaction of a payment is.               *)
(***************************************************************************)
EXTENDS SigningApproval, TLAPS

RequestSteps == {"check", "chain", "account", "consume", "fail", "grant", "claimSwitch",
                 "journal", "setChain", "finish"}
PaymentSteps == {"lock", "code", "nonce", "posted", "receipt"}
KeySteps == {"resolve", "group", "authenticate"}
SwitchSteps == {"claimSwitch", "journal", "setChain", "finish"}
RemovalSteps == {"mark", "list", "terminate", "disconnect", "remove"}

\* The handler has the lock of the account's nonces, or of the chain's file.
Submitting(o) == o.at \in {"code", "nonce", "posted", "receipt"} \/ (o.at \in KeySteps /\ Paying(o))
Switching(o) ==
  o.at \in {"journal", "setChain", "finish"} \/ (o.at = "consume" /\ kind[o.for] = "switch")

\* What a handler can be about at each step.
Placed(o) ==
  /\ o.at = "idle" => o = Idle
  /\ o.at \in RemovalSteps => o.for = 0
  /\ o.at \in RequestSteps => o.for \in Requests
  /\ o.at \in PaymentSteps => o.for \in Items /\ Pays(o.for)
  /\ o.at \in KeySteps => o.for \in Items /\ kind[o.for] # "switch"
  /\ o.at \in SwitchSteps => kind[o.for] = "switch"
  /\ o.at \in {"claimSwitch", "journal"} \/ (o.at = "account" /\ kind[o.for] # "siwe") =>
       o.previous = Home
  /\ o.at \in {"code", "receipt"} \/ o.stage # "call" => o.for \in Items /\ kind[o.for] = "batch"
  /\ o.at = "posted" => o.stage # "authorize"

\* What it holds.
Holding(p, o) ==
  /\ o.for \in Requests => claim[o.for] = p
  /\ o.at \in RemovalSteps \cup {"authenticate"} => groupLock = p
  /\ Submitting(o) => submission = p
  /\ Switching(o) => switchLock = p
  /\ Switching(o) /\ o.at # "journal" => journal # NoJournal /\ journal.req = o.for

\* Until it is consumed, the record of a request in hand has not been decided by another.
Undecided(o) ==
  o.for \in Requests /\ o.at \notin {"check", "grant", "finish"} =>
    record[o.for] \in {"pending", "expired"}

Handler(p) == Placed(op[p]) /\ Holding(p, op[p]) /\ Undecided(op[p])

\* A payment of the wallet has one handler.
OneHandler(p) ==
  op[p].for \in Items \ Requests =>
    /\ record[op[p].for] = "made"
    /\ \A q \in Procs : op[q].for = op[p].for => q = p

Sorted ==
  /\ \A x \in Items : x \in Requests <=> record[x] \notin {"unmade", "made"}
  /\ due \subseteq Requests /\ scanned \subseteq Requests

Control == TypeOK /\ Sorted /\ \A p \in Procs : Handler(p) /\ OneHandler(p)

-----------------------------------------------------------------------------
Pending == {r \in Items : record[r] = "pending"}

RemovedSoFar(o) ==
  /\ o.at = "mark" => lifecycle # "removed"
  /\ o.at \in RemovalSteps \ {"mark"} => lifecycle = "deleting"
  /\ o.at = "terminate" => Pending \subseteq o.todo
  /\ o.at \in {"disconnect", "remove"} => Pending = {}
  /\ o.at = "remove" => ~connected
  /\ o.at = "authenticate" => Usable

Removal == (\A p \in Procs : RemovedSoFar(op[p])) /\ RemovedLeavesNothing

Switched(o) ==
  settled # NoChain =>
    /\ (o.at = "consume" /\ kind[o.for] = "switch") \/ o.at = "finish" => chain = journal.target
    /\ o.at = "finish" => record[o.for] = "consumed"

Journalled ==
  /\ \A p \in Procs : Switched(op[p])
  /\ journal # NoJournal =>
       kind[journal.req] = "switch" /\ journal.previous = Home /\ journal.target # Home
  /\ settled # NoChain =>
       /\ Recovered(Consumed) = settled
       /\ journal # NoJournal =>
            /\ chain \in {journal.previous, journal.target}
            /\ journal.req \in Consumed => chain = journal.target

\* Payments whose outcome their handler may not know.
Unsure == misheard \cup unrecorded

\* A transaction whose handler has not stopped listening is on the wire only while it is awaited;
\* the nonce a handler has read is not that of a live transaction it should know of.
Nonces ==
  /\ wire \subseteq signed
  /\ \A i \in DOMAIN ledger : ledger[i] \in signed /\ ledger[i].nonce + 1 = i
  /\ \A t \in wire : t.for \notin Unsure => \E p \in Procs : op[p].at = "posted" /\ PostedBy(op[p]) = t
  /\ \A p \in Procs : op[p].at \in KeySteps /\ Paying(op[p]) =>
       \A t \in signed : Live(t) /\ t.nonce = op[p].nonce => t.for \in Unsure
  /\ OneTransactionPerNonce

\* A payment that is under way: a handler has posted it, knows that it was accepted, or could
\* not tell and is about to write that it failed.
UnderWay(t) ==
  \E p \in Procs :
    /\ op[p].for = t.for
    /\ \/ op[p].at = "posted" /\ PostedBy(op[p]) = t
       \/ op[p].at = "consume" /\ Accepted(t)
       \/ op[p].at = "fail" /\ t.for \in misheard
Over(t) ==
  /\ Accepted(t) \/ t.for \in misheard
  /\ record[t.for] \in {"consumed", "expired", "made", "failed"}
  /\ record[t.for] = "failed" => t.for \in misheard
  /\ \A p \in Procs : op[p].for = t.for => op[p].at = "check"

Payments ==
  /\ \A t \in signed : Pays(t.for)
  /\ \A t \in signed : Live(t) /\ t.what = "call" /\ t.for \notin unrecorded => UnderWay(t) \/ Over(t)
  /\ \A t, u \in signed : Live(t) /\ Live(u) /\ t.what = "call" /\ u.what = "call" /\ t.for = u.for
                          /\ t.for \notin unrecorded => t = u
  /\ \A p \in Procs : op[p].at = "consume" /\ Paying(op[p]) => Calls(op[p].for) # {}
  /\ AnswersAreTrue

-----------------------------------------------------------------------------
(* What a step of "p", or of no handler, leaves to the others.               *)

Respects(p) ==
  /\ kind' = kind
  /\ \A q \in Procs \ {p} :
       /\ op'[q] = op[q]
       /\ \A r \in Items : claim[r] = q => claim'[r] = q
       /\ groupLock = q => groupLock' = q
       /\ submission = q => submission' = q
       /\ switchLock = q => switchLock' = q /\ journal' = journal
  /\ \A r \in Items :
       \/ record'[r] = record[r]
       \/ r \in Requests /\ record'[r] = "expired"
       \/ r \in Requests /\ claim[r] \in {p, NoProc} /\ record'[r] \notin {"unmade", "made"}
       \/ record[r] = "unmade" /\ record'[r] = "made"

\* "p" goes on with what it had, or takes up a payment that nobody has made.
Takes(p) ==
  op'[p].for \in Items \ Requests =>
    \/ op'[p].for = op[p].for
    \/ record[op'[p].for] = "unmade" /\ record'[op'[p].for] = "made"

USE DEF recordVars, accountVars, lockVars, nodeVars, fileVars, historyVars

LEMMA Requested ==
  ASSUME kind' = kind
  PROVE  Requests' = Requests
BY DEF Requests

LEMMA GoesTo == ASSUME NEW o \in Op, NEW step \in Steps PROVE [o EXCEPT !.at = step] \in Op
  BY DEF Op

LEMMA InHand ==
  ASSUME Control, NEW p \in Procs
  PROVE  /\ op[p] \in Op /\ p # NoProc /\ 0 \notin Items
         /\ Placed(op[p]) /\ Holding(p, op[p]) /\ Undecided(op[p]) /\ OneHandler(p)
BY ChainAssumption, SigningAssumption DEF Control, TypeOK, Handler

LEMMA OthersKeepHand ==
  ASSUME Control, NEW p \in Procs \cup {NoProc}, Respects(p), NEW q \in Procs, q # p
  PROVE  Handler(q)'
<1>1. op'[q] = op[q] /\ kind' = kind /\ Requests' = Requests
  BY Requested DEF Respects
<1>2. op[q] \in Op /\ q # NoProc /\ Placed(op[q]) /\ Holding(q, op[q]) /\ Undecided(op[q])
  BY InHand
<1>3. Placed(op[q])'
  BY <1>1, <1>2 DEF Placed, Pays
<1>4. Holding(q, op[q])'
  BY <1>1, <1>2 DEF Holding, Submitting, Switching, Paying, Pays, Respects, Requests
<1>5. Undecided(op[q])'
  BY <1>1, <1>2 DEF Undecided, Holding, Respects, Requests, Control, Sorted
<1> QED
  BY <1>3, <1>4, <1>5 DEF Handler

LEMMA OneHandlerKept ==
  ASSUME Control, NEW p \in Procs \cup {NoProc}, Respects(p), p \in Procs => Takes(p),
         NEW q \in Procs
  PROVE  OneHandler(q)'
<1> SUFFICES ASSUME op'[q].for \in Items \ Requests
             PROVE  /\ record'[op'[q].for] = "made"
                    /\ \A s \in Procs : op'[s].for = op'[q].for => s = q
  BY Requested DEF OneHandler, Respects
<1> DEFINE x == op'[q].for
<1>1. \A s \in Procs \ {p} : op'[s] = op[s]
  BY DEF Respects
<1>2. ASSUME NEW s \in Procs, op'[s].for = x
      PROVE  op[s].for = x \/ (record[x] = "unmade" /\ record'[x] = "made" /\ s = p)
  BY <1>1, <1>2 DEF Takes
<1>3. \A s \in Procs : op[s].for = x =>
        record[x] = "made" /\ \A r \in Procs : op[r].for = x => r = s
  BY InHand DEF OneHandler
<1>4. record[x] = "made" => record'[x] = "made"
  BY DEF Respects
<1> QED
  BY <1>2, <1>3, <1>4

LEMMA ControlKept ==
  ASSUME Control, TypeOK', NEW p \in Procs \cup {NoProc}, Respects(p),
         due' \subseteq Requests, scanned' \subseteq Requests,
         p \in Procs => Handler(p)' /\ Takes(p)
  PROVE  Control'
<1>1. \A q \in Procs : Handler(q)'
  BY OthersKeepHand
<1>2. \A q \in Procs : OneHandler(q)'
  BY OneHandlerKept
<1>3. Sorted'
  BY Requested DEF Sorted, Control, Respects
<1> QED
  BY <1>1, <1>2, <1>3 DEF Control

\* The handler that returns drops what it holds and nothing else.
LEMMA ReturnRespects ==
  ASSUME Control, NEW p \in Procs, Return(p), kind' = kind,
         journal' = journal \/ switchLock \in {p, NoProc},
         \A r \in Items :
           \/ record'[r] = record[r]
           \/ r \in Requests /\ record'[r] = "expired"
           \/ r \in Requests /\ claim[r] = p /\ record'[r] \notin {"unmade", "made"}
  PROVE  /\ Respects(p) /\ Handler(p)' /\ Takes(p)
         /\ op' \in [Procs -> Op] /\ claim' \in [Items -> Procs \cup {NoProc}]
         /\ groupLock' \in Procs \cup {NoProc} /\ submission' \in Procs \cup {NoProc}
         /\ switchLock' \in Procs \cup {NoProc}
<1>1. 0 \notin Items /\ Idle \in Op
  BY SigningAssumption, ChainAssumption DEF Items, Idle, Op, Steps, Stages
<1>2. op'[p] = Idle /\ (\A q \in Procs \ {p} : op'[q] = op[q]) /\ op' \in [Procs -> Op]
  BY <1>1 DEF Return, Control, TypeOK
<1>3. /\ claim' \in [Items -> Procs \cup {NoProc}]
      /\ groupLock' \in Procs \cup {NoProc} /\ submission' \in Procs \cup {NoProc}
      /\ switchLock' \in Procs \cup {NoProc}
  BY DEF Return, Release, ReleasedSwitch, Control, TypeOK, ChainTypeOK
<1>4. Respects(p)
  BY <1>2, ChainAssumption DEF Respects, Return, Release, ReleasedSwitch, Control, TypeOK
<1>5. Handler(p)'
  BY <1>1, <1>2 DEF Handler, Placed, Holding, Undecided, Submitting, Switching, Paying, Requests,
                    Idle, RemovalSteps, RequestSteps, PaymentSteps, KeySteps, SwitchSteps
<1>6. Takes(p)
  BY <1>1, <1>2 DEF Takes, Idle
<1> QED
  BY <1>2, <1>3, <1>4, <1>5, <1>6

LEMMA ThrowControl ==
  ASSUME Control, NEW p \in Procs, Throw(p)
  PROVE  Control'
<1>1. TypeOK'
  BY ReturnRespects DEF Throw, Control, TypeOK, ChainTypeOK
<1> QED
  BY <1>1, ReturnRespects, ControlKept DEF Throw, Control, Sorted

LEMMA ProceedControl ==
  ASSUME Control, NEW p \in Procs, NEW o \in Op, Proceed(p, o), o.for = op[p].for,
         Placed(o), Holding(p, o), Undecided(o)
  PROVE  Control'
<1>1. op' = [op EXCEPT ![p] = o] /\ op'[p] = o /\ op' \in [Procs -> Op]
  BY DEF Proceed, Control, TypeOK
<1>2. TypeOK'
  BY <1>1 DEF Proceed, Control, TypeOK, ChainTypeOK
<1>3. Respects(p)
  BY DEF Proceed, Respects
<1>4. Requests' = Requests
  BY Requested DEF Proceed
<1>5. Handler(p)' /\ Takes(p)
  BY <1>1, <1>4 DEF Proceed, Handler, Takes, Placed, Holding, Undecided, Submitting, Switching,
                    Paying, Pays
<1> QED
  BY <1>2, <1>3, <1>5, ControlKept DEF Proceed, Control, Sorted

-----------------------------------------------------------------------------
USE DEF RequestSteps, PaymentSteps, KeySteps, SwitchSteps, RemovalSteps

\* A request that cannot be approved goes to its failure; its handler keeps what it had.
LEMMA RefuseControl ==
  ASSUME Control, NEW p \in Procs, op[p].for \in Items, Refuse(p),
         op[p].at \notin {"check", "grant", "finish"}
  PROVE  Control'
<1>1. CASE kind[op[p].for] = "own"
  BY <1>1, ThrowControl DEF Refuse
<1>2. CASE kind[op[p].for] # "own"
  <2> DEFINE o == [op[p] EXCEPT !.at = "fail"]
  <2>1. o \in Op /\ o.for = op[p].for /\ o.at = "fail" /\ o.stage = op[p].stage /\ o.for \in Requests
    BY <1>2, InHand DEF Op, Steps, Requests
  <2>2. Placed(o) /\ Holding(p, o) /\ Undecided(o)
    BY <2>1, InHand DEF Placed, Holding, Undecided, Submitting, Switching
  <2> QED
    BY <1>2, <2>1, <2>2, ProceedControl DEF Refuse
<1> QED
  BY <1>1, <1>2

\* Reading the pending requests writes those that have expired.
LEMMA NormalizedExpires ==
  ASSUME Control
  PROVE  /\ Normalized \in [Items -> Statuses]
         /\ \A r \in Items : \/ Normalized[r] = record[r]
                             \/ r \in Requests /\ Normalized[r] = "expired" /\ record[r] = "pending"
BY DEF Normalized, Overdue, Statuses, Control, TypeOK, Sorted

LEMMA ApprovalControl ==
  ASSUME Control, NEW p \in Procs,
         \/ \E r \in Items : BeginApproval(p, r)
         \/ CheckRecord(p) \/ ReadActiveChain(p) \/ CheckAccount(p)
  PROVE  Control'
<1> USE InHand
<1>0. Idle \in Op /\ 0 \notin Items
  BY SigningAssumption, ChainAssumption DEF Items, Idle, Op, Steps, Stages
<1>1. ASSUME NEW r \in Items, BeginApproval(p, r) PROVE Control'
  <2>1. /\ op' = [op EXCEPT ![p] = [Idle EXCEPT !.at = "check", !.for = r]]
        /\ [Idle EXCEPT !.at = "check", !.for = r] \in Op
        /\ op'[p].at = "check" /\ op'[p].for = r /\ op'[p].stage = "call"
    <3>1. /\ [Idle EXCEPT !.at = "check", !.for = r] \in Op
          /\ [Idle EXCEPT !.at = "check", !.for = r].stage = "call"
          /\ [Idle EXCEPT !.at = "check", !.for = r].at = "check"
          /\ [Idle EXCEPT !.at = "check", !.for = r].for = r
      BY <1>0 DEF Op, Steps, Idle
    <3>2. op' = [op EXCEPT ![p] = [Idle EXCEPT !.at = "check", !.for = r]]
      BY <1>1 DEF BeginApproval
    <3>3. op \in [Procs -> Op]
      BY DEF Control, TypeOK
    <3> QED
      BY <3>1, <3>2, <3>3
  <2>2. TypeOK'
    <3>1. op' \in [Procs -> Op] /\ claim' \in [Items -> Procs \cup {NoProc}]
      BY <1>1, <2>1 DEF BeginApproval, Control, TypeOK
    <3>2. UNCHANGED <<recordVars, accountVars, groupLock, submission, switchLock, nodeVars,
                      fileVars, activity, faults, historyVars>>
      BY <1>1 DEF BeginApproval
    <3> QED
      BY <3>1, <3>2 DEF Control, TypeOK, ChainTypeOK, recordVars, accountVars, nodeVars, fileVars,
           historyVars
  <2>3. Respects(p)
    BY <1>1 DEF BeginApproval, Respects, Control, TypeOK
  <2>4. Requests' = Requests /\ r \in Requests /\ claim'[r] = p
    BY <1>1, Requested DEF BeginApproval, Control, TypeOK
  <2>5. Placed(op[p])'
    BY <2>1, <2>4 DEF Placed
  <2>6. Holding(p, op[p])'
    BY <2>1, <2>4 DEF Holding, Submitting, Switching
  <2>7. Handler(p)' /\ Takes(p)
    BY <2>1, <2>4, <2>5, <2>6 DEF Handler, Undecided, Takes
  <2> QED
    BY <1>1, <2>2, <2>3, <2>7, ControlKept DEF BeginApproval, Control, Sorted
<1>2. CASE CheckRecord(p)
  <2>1. record' = Normalized /\ record' \in [Items -> Statuses]
        /\ \A r \in Items : record'[r] = record[r] \/ (r \in Requests /\ record'[r] = "expired")
    BY <1>2, NormalizedExpires DEF CheckRecord
  <2>2. CASE Return(p)
    <3>1. TypeOK'
      BY <1>2, <2>1, <2>2, ReturnRespects DEF CheckRecord, Control, TypeOK, ChainTypeOK
    <3> QED
      BY <1>2, <2>1, <2>2, <3>1, ReturnRespects, ControlKept DEF CheckRecord, Control, Sorted
  <2>3. CASE /\ record[op[p].for] = "pending" /\ op[p].for \notin due
             /\ Goto(p, "chain") /\ UNCHANGED lockVars
    <3>1. op' = [op EXCEPT ![p] = [op[p] EXCEPT !.at = "chain"]]
          /\ [op[p] EXCEPT !.at = "chain"] \in Op
      BY <2>3, GoesTo DEF Goto, Steps, Control, TypeOK
    <3>2. TypeOK'
      BY <1>2, <2>1, <2>3, <3>1 DEF CheckRecord, Control, TypeOK, ChainTypeOK
    <3>3. Respects(p)
      BY <1>2, <2>1, <2>3, <3>1 DEF CheckRecord, Respects, Control, TypeOK
    <3>4. Handler(p)' /\ Takes(p)
      BY <1>2, <2>1, <2>3, <3>1
         DEF CheckRecord, Handler, Placed, Holding, Undecided, Submitting, Switching, Takes,
             Requests, Control, TypeOK, Pays, Op
    <3> QED
      BY <1>2, <3>2, <3>3, <3>4, ControlKept DEF CheckRecord, Control, Sorted
  <2> QED
    BY <1>2, <2>2, <2>3 DEF CheckRecord
<1>3. CASE ReadActiveChain(p)
  <2>1. chain' \in Chains /\ journal' \in Journal \cup {NoJournal}
    BY <1>3 DEF ReadActiveChain, RecoverSwitch, Recovered, Control, TypeOK, ChainTypeOK, Journal
  <2> DEFINE o == [op[p] EXCEPT
                     !.at = IF chain' = Home \/ kind[op[p].for] = "siwe" THEN "account" ELSE "fail",
                     !.previous = chain']
  <2>2. op' = [op EXCEPT ![p] = o] /\ o \in Op /\ op[p].at = "chain"
    <3>1. op \in [Procs -> Op] /\ o \in Op
      <4>1. op \in [Procs -> Op]
        BY DEF Control, TypeOK
      <4>2. \A r \in Op, s \in {"account", "fail"}, c \in Chains :
              [r EXCEPT !.at = s, !.previous = c] \in Op
        BY DEF Op, Steps
      <4> QED
        BY <2>1, <4>1, <4>2
    <3>2. op' = [op EXCEPT ![p] = o] /\ op[p].at = "chain"
      BY <1>3, <3>1 DEF ReadActiveChain
    <3> QED
      BY <3>1, <3>2
  <2>3. TypeOK'
    BY <1>3, <2>1, <2>2 DEF ReadActiveChain, Control, TypeOK, ChainTypeOK
  <2>4. Respects(p)
    BY <1>3 DEF ReadActiveChain, Respects, Control, TypeOK
  <2>5. Handler(p)' /\ Takes(p)
    <3>1. /\ op'[p].for = op[p].for /\ op'[p].stage = op[p].stage
          /\ op'[p].at \in {"account", "fail"}
          /\ op'[p].at = "account" /\ kind[op[p].for] # "siwe" => op'[p].previous = Home
      BY <2>2 DEF Op, Control, TypeOK
    <3>2. /\ Requests' = Requests
          /\ UNCHANGED <<kind, record, claim, groupLock, submission, switchLock>>
      BY <1>3, Requested DEF ReadActiveChain
    <3> QED
      BY <2>2, <3>1, <3>2
         DEF Handler, Placed, Holding, Undecided, Submitting, Switching, Takes
  <2> QED
    BY <1>3, <2>3, <2>4, <2>5, ControlKept DEF ReadActiveChain, Control, Sorted
<1>4. CASE CheckAccount(p)
  <2> DEFINE k == kind[op[p].for]
             o == [op[p] EXCEPT !.at = IF ~(connected /\ Usable) THEN "fail"
                                       ELSE IF k \in {"send", "batch"} THEN "lock"
                                       ELSE IF k = "switch" THEN "claimSwitch" ELSE "resolve"]
  <2>1. Proceed(p, o) /\ o \in Op /\ op[p].at = "account" /\ op[p].for \in Requests
    BY <1>4 DEF CheckAccount, Op, Steps, Placed
  <2>2. Placed(o) /\ Holding(p, o) /\ Undecided(o)
    BY <2>1 DEF Placed, Holding, Undecided, Submitting, Switching, Requests, Pays, Paying, Op, Control, TypeOK
  <2> QED
    BY <2>1, <2>2, ProceedControl DEF Op
<1> QED
  BY <1>1, <1>2, <1>3, <1>4

\* A handler that stays with its item only has to be looked at itself.
LEMMA StayControl ==
  ASSUME Control, TypeOK', NEW p \in Procs, Respects(p), Handler(p)', op'[p].for = op[p].for,
         due' = due, scanned' = scanned
  PROVE  Control'
BY ControlKept DEF Takes, Control, Sorted

LEMMA PaymentControl ==
  ASSUME Control, NEW p \in Procs,
         \/ \E x \in Items : BeginOwnTransaction(p, x)
         \/ LockSubmission(p) \/ ReadCode(p) \/ ReadNonce(p) \/ RPCFails(p)
  PROVE  Control'
<1> USE InHand
<1>1. ASSUME NEW x \in Items, BeginOwnTransaction(p, x) PROVE Control'
  <2>0. Idle \in Op
    BY SigningAssumption DEF Items, Idle, Op, Steps, Stages
  <2>1. /\ op' = [op EXCEPT ![p] = [Idle EXCEPT !.at = "lock", !.for = x]]
        /\ [Idle EXCEPT !.at = "lock", !.for = x] \in Op
        /\ op'[p].at = "lock" /\ op'[p].for = x /\ op'[p].stage = "call"
        /\ op' \in [Procs -> Op]
    BY <1>1, <2>0 DEF BeginOwnTransaction, Op, Steps, Idle, Control, TypeOK
  <2>2. TypeOK'
    <3>1. record' \in [Items -> Statuses]
      BY <1>1 DEF BeginOwnTransaction, Control, TypeOK, Statuses
    <3>2. /\ UNCHANGED <<kind, due, scanned, accountVars, lockVars, nodeVars>>
          /\ UNCHANGED <<fileVars, activity, faults, historyVars>>
      BY <1>1 DEF BeginOwnTransaction
    <3> QED
      BY <2>1, <3>1, <3>2 DEF Control, TypeOK, ChainTypeOK
  <2>3. Respects(p)
    BY <1>1 DEF BeginOwnTransaction, Respects, Control, TypeOK
  <2>4. x \notin Requests /\ Requests' = Requests /\ Pays(x)' /\ record'[x] = "made"
    BY <1>1, Requested DEF BeginOwnTransaction, Control, TypeOK, Sorted, Requests, Pays
  <2>5. Placed(op[p])'
    BY <2>1, <2>4 DEF Placed
  <2>6. Holding(p, op[p])'
    BY <2>1, <2>4 DEF Holding, Submitting, Switching
  <2>7. Handler(p)' /\ Takes(p)
    BY <1>1, <2>1, <2>4, <2>5, <2>6 DEF BeginOwnTransaction, Handler, Undecided, Takes
  <2> QED
    BY <1>1, <2>2, <2>3, <2>7, ControlKept DEF BeginOwnTransaction, Control, Sorted
<1>2. CASE LockSubmission(p)
  <2>1. CASE submission # NoProc
    BY <1>2, <2>1, ThrowControl DEF LockSubmission
  <2>2. CASE submission = NoProc
    <3>1. op' = [op EXCEPT ![p] = AfterLock(op[p])] /\ AfterLock(op[p]) \in Op
          /\ op'[p] = AfterLock(op[p])
      <4>1. op \in [Procs -> Op] /\ op' = [op EXCEPT ![p] = AfterLock(op[p])]
        BY <1>2, <2>2 DEF LockSubmission, Control, TypeOK
      <4>2. AfterLock(op[p]) \in Op
        BY <4>1, GoesTo DEF AfterLock, Steps
      <4> QED
        BY <4>1, <4>2
    <3>2. TypeOK'
      BY <1>2, <2>2, <3>1 DEF LockSubmission, Control, TypeOK, ChainTypeOK
    <3>3. Respects(p)
      BY <1>2, <2>2 DEF LockSubmission, Respects, Control, TypeOK
    <3>4. Handler(p)' /\ op'[p].for = op[p].for
      BY <1>2, <2>2, <3>1
         DEF LockSubmission, AfterLock, Handler, Placed, Holding, Undecided, Submitting, Switching,
             Requests, Control, TypeOK, Pays, Op
    <3> QED
      BY <1>2, <2>2, <3>2, <3>3, <3>4, StayControl DEF LockSubmission
  <2> QED
    BY <2>1, <2>2
<1>3. CASE ReadCode(p)
  <2> DEFINE o == [op[p] EXCEPT !.at = "nonce",
                                !.stage = IF code = "missing" THEN "deploy" ELSE "call"]
  <2>1. Proceed(p, o) /\ o \in Op /\ o.for = op[p].for /\ op[p].at = "code" /\ o.at = "nonce"
    BY <1>3 DEF ReadCode, Op, Steps, Stages
  <2>2. Placed(o) /\ Holding(p, o) /\ Undecided(o)
    BY <2>1 DEF Placed, Holding, Undecided, Submitting, Switching, Requests, Pays, Op
  <2> QED
    BY <2>1, <2>2, ProceedControl
<1>4. CASE ReadNonce(p)
  <2> DEFINE batch == kind[op[p].for] = "batch"
             o == [op[p] EXCEPT !.at = "resolve", !.nonce = PendingNonce,
                     !.stage = IF @ = "call" /\ batch /\ code = "deployed" THEN "authorize" ELSE @]
  <2>1. Proceed(p, o) /\ op[p].at = "nonce" /\ PendingNonce \in Nat
    BY <1>4 DEF ReadNonce, PendingNonce, Control, TypeOK
  <2>2. o \in Op /\ o.for = op[p].for /\ o.at = "resolve"
    BY <2>1 DEF Op, Steps, Stages
  <2>3. Placed(o) /\ Holding(p, o) /\ Undecided(o)
    BY <2>1, <2>2 DEF Placed, Holding, Undecided, Submitting, Switching, Requests, Pays, Op, Paying
  <2> QED
    BY <2>1, <2>2, <2>3, ProceedControl
<1>5. CASE RPCFails(p)
  BY <1>5, ThrowControl, RefuseControl DEF RPCFails, Placed
<1> QED
  BY <1>1, <1>2, <1>3, <1>4, <1>5

LEMMA KeyControl ==
  ASSUME Control, NEW p \in Procs,
         ResolveAccount(p) \/ EnterGroup(p) \/ Cancel(p) \/ Sign(p)
  PROVE  Control'
<1> USE InHand
<1>1. CASE ResolveAccount(p)
  <2> DEFINE o == [op[p] EXCEPT !.at = "group"]
  <2>1. op[p].at = "resolve" /\ o \in Op /\ o.for = op[p].for /\ o.at = "group" /\ o.stage = op[p].stage
    BY <1>1 DEF ResolveAccount, Op, Steps
  <2>2. Placed(o) /\ Holding(p, o) /\ Undecided(o)
    BY <2>1 DEF Placed, Holding, Undecided, Submitting, Switching, Paying
  <2> QED
    BY <1>1, <2>1, <2>2, ProceedControl, ThrowControl DEF ResolveAccount
<1>2. CASE EnterGroup(p)
  <2>1. CASE ~Usable
    BY <1>2, <2>1, ThrowControl DEF EnterGroup
  <2>2. CASE Usable
    <3>1. op' = [op EXCEPT ![p] = [op[p] EXCEPT !.at = "authenticate"]]
          /\ [op[p] EXCEPT !.at = "authenticate"] \in Op /\ op[p].at = "group"
      BY <1>2, <2>2, GoesTo DEF EnterGroup, Goto, Steps, Control, TypeOK
    <3>2. TypeOK'
      BY <1>2, <2>2, <3>1 DEF EnterGroup, Control, TypeOK, ChainTypeOK
    <3>3. Respects(p)
      BY <1>2, <2>2, <3>1 DEF EnterGroup, Respects, Control, TypeOK
    <3>4. Handler(p)' /\ op'[p].for = op[p].for
      BY <1>2, <2>2, <3>1
         DEF EnterGroup, Handler, Placed, Holding, Undecided, Submitting, Switching,
             Requests, Control, TypeOK, Pays, Paying, Op
    <3> QED
      BY <1>2, <2>2, <3>2, <3>3, <3>4, StayControl DEF EnterGroup
  <2> QED
    BY <2>1, <2>2
<1>3. CASE Cancel(p)
  BY <1>3, ThrowControl DEF Cancel
<1>4. CASE Sign(p)
  <2>1. op[p].at = "authenticate" /\ op[p].for \in Items /\ kind[op[p].for] # "switch"
    BY <1>4 DEF Sign, Placed
  <2>2. PostedBy(op[p]) \in Transaction
    BY <2>1 DEF PostedBy, Transaction, Op
  <2>3. /\ op' \in [Procs -> Op] /\ op'[p].for = op[p].for
        /\ \A q \in Procs \ {p} : op'[q] = op[q]
        /\ Placed(op[p])' /\ Holding(p, op[p])' /\ Undecided(op[p])'
    <3>1. /\ Requests' = Requests /\ kind' = kind /\ record' = record
          /\ claim' = claim /\ submission' = submission /\ switchLock' = switchLock
      BY <1>4, Requested DEF Sign
    <3>2. CASE Paying(op[p]) /\ op[p].stage # "authorize"
      <4>1. op' = [op EXCEPT ![p].at = "posted"]
        BY <1>4, <3>2 DEF Sign, Goto
      <4>2. /\ op' \in [Procs -> Op] /\ op'[p].for = op[p].for /\ op'[p].stage = op[p].stage
            /\ op'[p].at = "posted" /\ \A q \in Procs \ {p} : op'[q] = op[q]
        <5>1. op \in [Procs -> Op] /\ [op[p] EXCEPT !.at = "posted"] \in Op
          BY GoesTo DEF Steps, Control, TypeOK
        <5> QED
          BY <4>1, <5>1 DEF Op
      <4>3. Submitting(op[p]) /\ Pays(op[p].for) /\ Pays(op[p].for)'
        BY <2>1, <3>1, <3>2, <4>2 DEF Submitting, Paying, Pays
      <4>4. Placed(op[p])'
        BY <2>1, <3>1, <3>2, <4>2, <4>3 DEF Placed, Pays
      <4>5. Holding(p, op[p])'
        BY <3>1, <4>2, <4>3 DEF Holding, Submitting, Switching
      <4>6. Undecided(op[p])'
        BY <2>1, <3>1, <4>2 DEF Undecided
      <4> QED
        BY <4>2, <4>4, <4>5, <4>6
    <3>3. CASE ~(Paying(op[p]) /\ op[p].stage # "authorize")
      <4>1. PICK step \in Steps :
              /\ step = IF Paying(op[p]) THEN "resolve" ELSE "consume"
              /\ op' = [op EXCEPT ![p].at = step, ![p].stage = "call"]
        BY <1>4, <3>3 DEF Sign, Steps
      <4>2. /\ op' \in [Procs -> Op] /\ op'[p].for = op[p].for /\ op'[p].stage = "call"
            /\ op'[p].at = IF Paying(op[p]) THEN "resolve" ELSE "consume"
            /\ \A q \in Procs \ {p} : op'[q] = op[q]
        <5> DEFINE o == [op[p] EXCEPT !.at = step, !.stage = "call"]
        <5>1. o \in Op /\ o.at = step /\ o.stage = "call" /\ o.for = op[p].for
          BY DEF Op, Stages
        <5>2. op' = [op EXCEPT ![p] = o]
          BY <4>1 DEF Control, TypeOK
        <5> HIDE DEF o
        <5> QED
          BY <4>1, <5>1, <5>2 DEF Control, TypeOK
      <4>3. Paying(op[p])' = Paying(op[p]) /\ (Paying(op[p]) => Submitting(op[p]))
            /\ (~Paying(op[p]) => op[p].for \in Requests)
        BY <2>1, <3>1, <4>2 DEF Submitting, Paying, Pays, Requests
      <4>4. Placed(op[p])'
        BY <2>1, <3>1, <4>2, <4>3 DEF Placed, Pays
      <4>5. Holding(p, op[p])'
        BY <2>1, <3>1, <4>2, <4>3 DEF Holding, Submitting, Switching
      <4>6. Undecided(op[p])'
        BY <2>1, <3>1, <4>2 DEF Undecided
      <4> QED
        BY <4>2, <4>4, <4>5, <4>6
    <3> QED
      BY <3>2, <3>3
  <2>4. TypeOK'
    BY <1>4, <2>1, <2>2, <2>3 DEF Sign, Control, TypeOK, ChainTypeOK
  <2>5. Respects(p)
    BY <1>4, <2>1, <2>3 DEF Sign, Respects, Holding, Control, TypeOK
  <2> QED
    BY <1>4, <2>3, <2>4, <2>5, StayControl DEF Sign, Handler
<1> QED
  BY <1>1, <1>2, <1>3, <1>4

LEMMA GotoHand ==
  ASSUME Control, NEW p \in Procs, NEW step \in Steps, Goto(p, step)
  PROVE  /\ op' \in [Procs -> Op] /\ op'[p] \in Op
         /\ op'[p].at = step /\ op'[p].for = op[p].for /\ op'[p].stage = op[p].stage
         /\ op'[p].previous = op[p].previous /\ op'[p].nonce = op[p].nonce
         /\ op'[p].todo = op[p].todo
         /\ \A q \in Procs \ {p} : op'[q] = op[q]
BY DEF Goto, Op, Control, TypeOK

LEMMA NodeControl ==
  ASSUME Control, NEW p \in Procs,
         Answer(p) \/ LoseAnswer(p) \/ Misanswer(p) \/ Receipt(p) \/ NoReceipt(p)
  PROVE  Control'
<1> USE InHand
<1>1. CASE Answer(p)
  <2> DEFINE tx == PostedBy(op[p])
  <2>1. op[p].at = "posted" /\ op[p].for \in Items /\ op[p].stage # "authorize"
        /\ tx.for = op[p].for /\ (op[p].stage = "deploy" => kind[op[p].for] = "batch")
    BY <1>1 DEF Answer, Placed, PostedBy
  <2>2. CASE ~Accepted(tx)
    BY <1>1, <2>1, <2>2, RefuseControl DEF Answer
  <2>3. CASE Accepted(tx) /\ tx.what = "deploy"
    <3> DEFINE o == [op[p] EXCEPT !.at = "receipt"]
    <3>1. Proceed(p, o) /\ o \in Op /\ o.for = op[p].for /\ o.at = "receipt" /\ o.stage = op[p].stage
          /\ kind[op[p].for] = "batch"
      BY <1>1, <2>1, <2>3 DEF Answer, Op, Steps, PostedBy
    <3>2. Placed(o) /\ Holding(p, o) /\ Undecided(o)
      BY <2>1, <3>1 DEF Placed, Holding, Undecided, Submitting, Switching, Pays
    <3> QED
      BY <3>1, <3>2, ProceedControl
  <2>4. CASE Accepted(tx) /\ tx.what # "deploy"
    <3>1. activity' = activity \cup {op[p].for}
          /\ UNCHANGED <<recordVars, accountVars, nodeVars, fileVars, faults, historyVars>>
      BY <1>1, <2>1, <2>4 DEF Answer
    <3>2. CASE Return(p)
      <4>1. TypeOK'
        BY <2>1, <3>1, <3>2, ReturnRespects DEF Control, TypeOK, ChainTypeOK
      <4> QED
        BY <3>1, <3>2, <4>1, ReturnRespects, ControlKept DEF Control, Sorted
    <3>3. CASE kind[op[p].for] # "own" /\ Goto(p, "consume") /\ UNCHANGED lockVars
      <4>1. op' \in [Procs -> Op] /\ op'[p].at = "consume" /\ op'[p].for = op[p].for
            /\ op'[p].stage = op[p].stage /\ \A q \in Procs \ {p} : op'[q] = op[q]
        BY <3>3, GotoHand DEF Steps
      <4>2. TypeOK'
        BY <2>1, <3>1, <3>3, <4>1 DEF Control, TypeOK, ChainTypeOK
      <4>3. Respects(p)
        BY <3>1, <3>3, <4>1 DEF Respects
      <4>4. Handler(p)'
        BY <2>1, <3>1, <3>3, <4>1
           DEF Handler, Placed, Holding, Undecided, Submitting, Switching, Requests, Pays
      <4> QED
        BY <3>1, <4>1, <4>2, <4>3, <4>4, StayControl
    <3> QED
      BY <1>1, <2>1, <2>4, <3>2, <3>3 DEF Answer
  <2> QED
    BY <2>2, <2>3, <2>4
<1>2. CASE LoseAnswer(p) \/ Misanswer(p)
  <2>1. /\ misheard' = misheard \cup {op[p].for} /\ op[p].for \in Items /\ op[p].at = "posted"
        /\ faults' \in 0..MaxFaults
        /\ UNCHANGED <<recordVars, accountVars, nodeVars, fileVars, activity, signed, unrecorded>>
    BY <1>2, SigningAssumption
       DEF LoseAnswer, Misanswer, TakeAsFailed, Fault, Placed, Control, TypeOK
  <2>2. CASE Return(p)
    <3>1. TypeOK'
      BY <2>1, <2>2, ReturnRespects DEF Control, TypeOK, ChainTypeOK
    <3> QED
      BY <2>1, <2>2, <3>1, ReturnRespects, ControlKept DEF Control, Sorted
  <2>3. CASE kind[op[p].for] # "own" /\ Goto(p, "fail") /\ UNCHANGED lockVars
    <3>1. op' \in [Procs -> Op] /\ op'[p].at = "fail" /\ op'[p].for = op[p].for
          /\ op'[p].stage = op[p].stage /\ \A q \in Procs \ {p} : op'[q] = op[q]
      BY <2>3, GotoHand DEF Steps
    <3>2. TypeOK'
      BY <2>1, <2>3, <3>1 DEF Control, TypeOK, ChainTypeOK
    <3>3. Respects(p)
      BY <2>1, <2>3, <3>1 DEF Respects
    <3>4. Handler(p)'
      BY <2>1, <2>3, <3>1
         DEF Handler, Placed, Holding, Undecided, Submitting, Switching, Requests, Pays
    <3> QED
      BY <2>1, <3>1, <3>2, <3>3, <3>4, StayControl
  <2> QED
    BY <1>2, <2>2, <2>3 DEF LoseAnswer, Misanswer, TakeAsFailed
<1>3. CASE Receipt(p)
  <2> DEFINE o == [op[p] EXCEPT !.at = "nonce", !.stage = "call"]
  <2>1. Proceed(p, o) /\ o \in Op /\ o.for = op[p].for /\ o.at = "nonce" /\ o.stage = "call"
        /\ op[p].at = "receipt"
    BY <1>3 DEF Receipt, Op, Steps, Stages
  <2>2. Placed(o) /\ Holding(p, o) /\ Undecided(o)
    BY <2>1 DEF Placed, Holding, Undecided, Submitting, Switching
  <2> QED
    BY <2>1, <2>2, ProceedControl
<1>4. CASE NoReceipt(p)
  BY <1>4, RefuseControl DEF NoReceipt, Placed
<1> QED
  BY <1>1, <1>2, <1>3, <1>4

LEMMA ResultControl ==
  ASSUME Control, NEW p \in Procs,
         PersistFailed(p) \/ PersistConsumed(p) \/ WriteFails(p) \/ Grant(p)
  PROVE  Control'
<1> USE InHand
<1>1. CASE PersistFailed(p)
  <2>1. /\ op[p].for \in Requests /\ op[p].for \in Items /\ claim[op[p].for] = p /\ Return(p)
        /\ record' = [record EXCEPT ![op[p].for] = "failed"]
        /\ UNCHANGED <<kind, due, scanned, accountVars, nodeVars, fileVars, activity, faults,
                       historyVars>>
    BY <1>1 DEF PersistFailed, Placed, Holding, Requests
  <2>2. \A r \in Items :
          \/ record'[r] = record[r]
          \/ r \in Requests /\ claim[r] = p /\ record'[r] \notin {"unmade", "made"}
    BY <2>1 DEF Control, TypeOK
  <2>3. TypeOK'
    BY <2>1, <2>2, ReturnRespects DEF Control, TypeOK, ChainTypeOK, Statuses
  <2> QED
    BY <2>1, <2>2, <2>3, ReturnRespects, ControlKept DEF Control, Sorted
<1>2. CASE PersistConsumed(p)
  <2>1. /\ op[p].for \in Requests /\ op[p].for \in Items /\ claim[op[p].for] = p
        /\ op[p].at = "consume"
        /\ record' = [record EXCEPT ![op[p].for] = "consumed"]
        /\ UNCHANGED <<kind, due, scanned, accountVars, nodeVars, chain, journal, replacing,
                       activity, faults, historyVars>>
    BY <1>2 DEF PersistConsumed, Placed, Holding, Requests
  <2>2. \A r \in Items :
          \/ record'[r] = record[r]
          \/ r \in Requests /\ claim[r] = p /\ record'[r] \notin {"unmade", "made"}
    BY <2>1 DEF Control, TypeOK
  <2>3. record' \in [Items -> Statuses]
    BY <2>1 DEF Control, TypeOK, Statuses
  <2>4. CASE Return(p) /\ kind[op[p].for] \notin {"siwe", "switch"}
    <3>1. TypeOK'
      BY <1>2, <2>1, <2>2, <2>3, <2>4, ReturnRespects
         DEF PersistConsumed, Control, TypeOK, ChainTypeOK
    <3> QED
      BY <2>1, <2>2, <2>4, <3>1, ReturnRespects, ControlKept DEF Control, Sorted
  <2>5. ASSUME NEW step \in {"grant", "finish"}, Goto(p, step), UNCHANGED lockVars,
               step = "grant" => kind[op[p].for] = "siwe",
               step = "finish" => kind[op[p].for] = "switch"
        PROVE  Control'
    <3>1. op' \in [Procs -> Op] /\ op'[p].at = step /\ op'[p].for = op[p].for
          /\ op'[p].stage = op[p].stage /\ \A q \in Procs \ {p} : op'[q] = op[q]
      BY <2>5, GotoHand DEF Steps
    <3>2. settled' \in Chains \cup {NoChain}
      BY <1>2, <2>1 DEF PersistConsumed, Holding, Switching, Control, TypeOK, ChainTypeOK, Journal
    <3>3. TypeOK'
      BY <2>1, <2>3, <2>5, <3>1, <3>2 DEF Control, TypeOK, ChainTypeOK
    <3>4. Respects(p)
      BY <2>1, <2>2, <2>5, <3>1 DEF Respects
    <3>5. Placed(op[p])'
      BY <2>1, <2>5, <3>1 DEF Placed, Requests, Pays
    <3>6. Holding(p, op[p])'
      BY <2>1, <2>5, <3>1 DEF Holding, Submitting, Switching, Requests
    <3>7. Handler(p)'
      BY <2>1, <2>5, <3>1, <3>5, <3>6 DEF Handler, Undecided
    <3> QED
      BY <2>1, <3>1, <3>3, <3>4, <3>7, StayControl
  <2> QED
    BY <1>2, <2>4, <2>5 DEF PersistConsumed
<1>3. CASE WriteFails(p)
  <2>1. /\ Return(p) /\ op[p].for \in Items /\ faults' \in 0..MaxFaults
        /\ unrecorded' = unrecorded \cup {op[p].for}
        /\ UNCHANGED <<recordVars, accountVars, nodeVars, replacing, settled, activity, signed,
                       misheard>>
    BY <1>3, SigningAssumption DEF WriteFails, Fault, Placed, Requests, Control, TypeOK
  <2>2. /\ chain' \in Chains /\ journal' \in Journal \cup {NoJournal}
        /\ journal' = journal \/ switchLock \in {p, NoProc}
    BY <1>3 DEF WriteFails, RecoverSwitch, Recovered, Holding, Switching, Control, TypeOK,
                ChainTypeOK, Journal
  <2>3. TypeOK'
    BY <2>1, <2>2, ReturnRespects DEF Control, TypeOK, ChainTypeOK
  <2> QED
    BY <2>1, <2>2, <2>3, ReturnRespects, ControlKept DEF Control, Sorted
<1>4. CASE Grant(p)
  <2>1. /\ Return(p) /\ connected' \in BOOLEAN
        /\ UNCHANGED <<recordVars, lifecycle, secret, nodeVars, fileVars, activity, faults,
                       historyVars>>
    BY <1>4 DEF Grant, Control, TypeOK
  <2>2. TypeOK'
    BY <2>1, ReturnRespects DEF Control, TypeOK, ChainTypeOK
  <2> QED
    BY <2>1, <2>2, ReturnRespects, ControlKept DEF Control, Sorted
<1> QED
  BY <1>1, <1>2, <1>3, <1>4

LEMMA SwitchControl ==
  ASSUME Control, NEW p \in Procs,
         ClaimChainSwitch(p) \/ WriteJournal(p) \/ SetChain(p) \/ FinishSwitch(p)
  PROVE  Control'
<1> USE InHand
<1>1. CASE ClaimChainSwitch(p)
  <2>1. CASE switchLock # NoProc
    BY <1>1, <2>1, ThrowControl DEF ClaimChainSwitch
  <2>2. CASE switchLock = NoProc
    <3>1. op' \in [Procs -> Op] /\ op'[p].at = "journal" /\ op'[p].for = op[p].for
          /\ op'[p].stage = op[p].stage /\ op'[p].previous = op[p].previous
          /\ \A q \in Procs \ {p} : op'[q] = op[q]
      BY <1>1, <2>2, GotoHand DEF ClaimChainSwitch, Steps
    <3>2. TypeOK'
      BY <1>1, <2>2, <3>1 DEF ClaimChainSwitch, Control, TypeOK, ChainTypeOK
    <3>3. Respects(p)
      BY <1>1, <2>2, <3>1 DEF ClaimChainSwitch, Respects
    <3>4. Handler(p)'
      BY <1>1, <2>2, <3>1 DEF ClaimChainSwitch, Handler, Placed, Holding, Undecided, Submitting,
                              Switching, Requests, Pays
    <3> QED
      BY <1>1, <2>2, <3>1, <3>2, <3>3, <3>4, StayControl DEF ClaimChainSwitch
  <2> QED
    BY <2>1, <2>2
<1>2. CASE WriteJournal(p)
  <2>1. PICK target \in Chains \ {Home} : BeginSwitch(op[p].for, op[p].previous, target)
    BY <1>2 DEF WriteJournal
  <2>2. /\ op' \in [Procs -> Op] /\ op'[p].at = "setChain" /\ op'[p].for = op[p].for
        /\ op'[p].stage = op[p].stage
        /\ \A q \in Procs \ {p} : op'[q] = op[q]
    BY <1>2, GotoHand DEF WriteJournal, Steps
  <2>3. op[p].for \in Requests /\ op[p].for \in Items /\ op[p].previous \in Chains
        /\ kind[op[p].for] = "switch" /\ switchLock = p
    BY <1>2 DEF WriteJournal, Placed, Holding, Switching, Requests, Op
  <2>4. journal' \in Journal /\ journal'.req = op[p].for /\ journal' # NoJournal
        /\ chain' = chain /\ switchLock' = switchLock
    BY <2>1, <2>3, SigningAssumption DEF BeginSwitch, Journal, NoJournal
  <2>5. settled' \in Chains \cup {NoChain} /\ replacing' = replacing
    BY <1>2, <2>1 DEF WriteJournal, BeginSwitch, Control, TypeOK
  <2>6. TypeOK'
    BY <1>2, <2>2, <2>4, <2>5 DEF WriteJournal, Control, TypeOK, ChainTypeOK
  <2>7. Respects(p)
    BY <1>2, <2>2, <2>3, <2>4 DEF WriteJournal, Respects
  <2>8. Handler(p)'
    BY <1>2, <2>2, <2>3, <2>4
       DEF WriteJournal, Handler, Placed, Holding, Undecided, Submitting, Switching, Requests, Pays
  <2> QED
    BY <1>2, <2>2, <2>6, <2>7, <2>8, StayControl DEF WriteJournal
<1>3. CASE SetChain(p)
  <2>1. op' \in [Procs -> Op] /\ op'[p].at = "consume" /\ op'[p].for = op[p].for
        /\ op'[p].stage = op[p].stage /\ \A q \in Procs \ {p} : op'[q] = op[q]
    BY <1>3, GotoHand DEF SetChain, Steps
  <2>2. chain' \in Chains /\ switchLock = p
    BY <1>3 DEF SetChain, Holding, Switching, Control, TypeOK, ChainTypeOK, Journal
  <2>3. TypeOK'
    BY <1>3, <2>1, <2>2 DEF SetChain, Control, TypeOK, ChainTypeOK
  <2>4. Respects(p)
    BY <1>3, <2>1 DEF SetChain, Respects
  <2>5. Handler(p)'
    BY <1>3, <2>1 DEF SetChain, Handler, Placed, Holding, Undecided, Submitting, Switching,
                      Requests, Pays
  <2> QED
    BY <1>3, <2>1, <2>3, <2>4, <2>5, StayControl DEF SetChain
<1>4. CASE FinishSwitch(p)
  <2>1. /\ Return(p) /\ journal' = NoJournal /\ switchLock = p
        /\ UNCHANGED <<recordVars, accountVars, nodeVars, chain, replacing, settled, activity,
                       faults, historyVars>>
    BY <1>4 DEF FinishSwitch, Holding, Switching
  <2>2. TypeOK'
    BY <2>1, ReturnRespects DEF Control, TypeOK, ChainTypeOK
  <2> QED
    BY <2>1, <2>2, ReturnRespects, ControlKept DEF Control, Sorted
<1> QED
  BY <1>1, <1>2, <1>3, <1>4

LEMMA RemovalControl ==
  ASSUME Control, NEW p \in Procs,
         \/ BeginRemoval(p) \/ MarkDeleting(p) \/ ListRequests(p) \/ TerminateRequest(p)
         \/ ForgetSecret(p) \/ RemoveConnections(p) \/ RemoveGroup(p)
  PROVE  Control'
<1> USE InHand
<1>1. CASE BeginRemoval(p)
  <2>1. Idle \in Op
    BY SigningAssumption DEF Idle, Op, Steps, Stages
  <2>2. /\ op' = [op EXCEPT ![p] = [Idle EXCEPT !.at = "mark"]] /\ op' \in [Procs -> Op]
        /\ op'[p].at = "mark" /\ op'[p].for = 0 /\ op'[p].stage = "call"
    BY <1>1, <2>1 DEF BeginRemoval, Op, Steps, Idle, Control, TypeOK
  <2>3. TypeOK'
    BY <1>1, <2>2 DEF BeginRemoval, Control, TypeOK, ChainTypeOK
  <2>4. Respects(p)
    BY <1>1 DEF BeginRemoval, Respects, Control, TypeOK
  <2>5. 0 \notin Requests' /\ groupLock' = p
    BY <1>1 DEF BeginRemoval, Requests
  <2>6. Handler(p)' /\ Takes(p)
    BY <2>2, <2>5 DEF Handler, Placed, Holding, Undecided, Submitting, Switching, Takes
  <2> QED
    BY <1>1, <2>3, <2>4, <2>6, ControlKept DEF BeginRemoval, Control, Sorted
<1>2. ASSUME NEW step \in RemovalSteps, Goto(p, step), op[p].at \in RemovalSteps,
             UNCHANGED <<recordVars, lockVars, nodeVars, fileVars, activity, faults, historyVars>>,
             connected' \in BOOLEAN, lifecycle' \in {"active", "deleting", "removed"},
             secret' \in BOOLEAN
      PROVE  Control'
  <2>1. op' \in [Procs -> Op] /\ op'[p].at = step /\ op'[p].for = op[p].for
        /\ op'[p].stage = op[p].stage /\ \A q \in Procs \ {p} : op'[q] = op[q]
    BY <1>2, GotoHand DEF Steps
  <2>2. TypeOK'
    BY <1>2, <2>1 DEF Control, TypeOK, ChainTypeOK
  <2>3. Respects(p)
    BY <1>2, <2>1 DEF Respects
  <2>4. Handler(p)'
    BY <1>2, <2>1 DEF Handler, Placed, Holding, Undecided, Submitting, Switching, Requests, Pays
  <2> QED
    BY <1>2, <2>1, <2>2, <2>3, <2>4, StayControl
<1>3. CASE MarkDeleting(p)
  BY <1>2, <1>3 DEF MarkDeleting, Control, TypeOK
<1>4. CASE ForgetSecret(p)
  BY <1>2, <1>4 DEF ForgetSecret, Control, TypeOK
<1>5. CASE RemoveConnections(p)
  BY <1>2, <1>5 DEF RemoveConnections, Control, TypeOK
<1>6. ASSUME NEW o \in Op, op[p].at \in RemovalSteps, op' = [op EXCEPT ![p] = o],
             o.at = "terminate", o.for = op[p].for, o.stage = op[p].stage,
             record' \in [Items -> Statuses],
             \A r \in Items : \/ record'[r] = record[r]
                              \/ r \in Requests /\ record'[r] = "expired"
                              \/ r \in Requests /\ claim[r] = NoProc /\ record'[r] = "failed",
             UNCHANGED <<kind, due, scanned, accountVars, lockVars, nodeVars, fileVars, activity,
                         faults, historyVars>>
      PROVE  Control'
  <2>1. op' \in [Procs -> Op] /\ op'[p].at = "terminate" /\ op'[p].for = op[p].for
        /\ op'[p].stage = op[p].stage /\ \A q \in Procs \ {p} : op'[q] = op[q]
    BY <1>6 DEF Control, TypeOK
  <2>2. TypeOK'
    BY <1>6, <2>1 DEF Control, TypeOK, ChainTypeOK
  <2>3. Respects(p)
    BY <1>6, <2>1 DEF Respects
  <2>4. Handler(p)'
    BY <1>6, <2>1 DEF Handler, Placed, Holding, Undecided, Submitting, Switching, Requests, Pays
  <2> QED
    BY <1>6, <2>1, <2>2, <2>3, <2>4, StayControl
<1>7. CASE ListRequests(p)
  <2> DEFINE listed == {r \in Requests : Normalized[r] = "pending"}
             o == [op[p] EXCEPT !.at = "terminate", !.todo = listed]
  <2>1. /\ record' = Normalized /\ record' \in [Items -> Statuses]
        /\ \A r \in Items : record'[r] = record[r] \/ (r \in Requests /\ record'[r] = "expired")
    BY <1>7, NormalizedExpires DEF ListRequests
  <2>2. o \in Op /\ o.at = "terminate" /\ o.for = op[p].for /\ o.stage = op[p].stage
    BY DEF Op, Steps, Requests
  <2>3. op' = [op EXCEPT ![p] = o]
    BY <1>7, <2>1 DEF ListRequests, Control, TypeOK
  <2> HIDE DEF o
  <2> QED
    BY <1>6, <1>7, <2>1, <2>2, <2>3 DEF ListRequests
<1>8. CASE TerminateRequest(p)
  <2> DEFINE r == CHOOSE q \in op[p].todo : \A s \in op[p].todo : q <= s
             o == [op[p] EXCEPT !.todo = @ \ {r}]
  <2>1. CASE claim[r] # NoProc
    BY <1>8, <2>1, ThrowControl DEF TerminateRequest
  <2>2. CASE claim[r] = NoProc
    <3>1. /\ op' = [op EXCEPT ![p].todo = @ \ {r}] /\ op[p].at = "terminate"
          /\ record' = IF r \in Overdue \/ record[r] # "pending" THEN Normalized
                       ELSE [Normalized EXCEPT ![r] = "failed"]
          /\ UNCHANGED <<kind, due, scanned, accountVars, lockVars, nodeVars, fileVars,
                         activity, faults, historyVars>>
      BY <1>8, <2>2 DEF TerminateRequest
    <3>2. o \in Op /\ o.at = op[p].at /\ o.for = op[p].for /\ o.stage = op[p].stage
      BY DEF Op
    <3>3. op' = [op EXCEPT ![p] = o]
      BY <3>1 DEF Control, TypeOK
    <3> HIDE DEF r, o
    <3>4. /\ record' \in [Items -> Statuses]
          /\ \A x \in Items : \/ record'[x] = record[x]
                              \/ x \in Requests /\ record'[x] = "expired"
                              \/ x = r /\ record[x] = "pending" /\ record'[x] = "failed"
      BY <3>1, NormalizedExpires DEF Statuses
    <3>5. \A x \in Items : record[x] = "pending" => x \in Requests
      BY DEF Control, Sorted
    <3> QED
      BY <1>6, <2>2, <3>1, <3>2, <3>3, <3>4, <3>5
  <2> QED
    BY <2>1, <2>2
<1>9. CASE RemoveGroup(p)
  <2>1. /\ Return(p) /\ lifecycle' = "removed"
        /\ UNCHANGED <<recordVars, connected, secret, nodeVars, fileVars, activity, faults,
                       historyVars>>
    BY <1>9 DEF RemoveGroup
  <2>2. TypeOK'
    BY <2>1, ReturnRespects DEF Control, TypeOK, ChainTypeOK
  <2> QED
    BY <2>1, <2>2, ReturnRespects, ControlKept DEF Control, Sorted
<1> QED
  BY <1>1, <1>3, <1>4, <1>5, <1>7, <1>8, <1>9

LEMMA CrashControl ==
  ASSUME Control, NEW p \in Procs, Crash(p)
  PROVE  Control'
<1>1. /\ Return(p) /\ faults' \in 0..MaxFaults
      /\ UNCHANGED <<recordVars, accountVars, nodeVars, fileVars, activity, signed, misheard>>
  BY SigningAssumption DEF Crash, Fault, Control, TypeOK
<1>2. unrecorded' \subseteq Items
  BY InHand DEF Crash, Paying, Placed, Op, Control, TypeOK
<1>3. TypeOK'
  BY <1>1, <1>2, ReturnRespects DEF Control, TypeOK, ChainTypeOK
<1> QED
  BY <1>1, <1>3, ReturnRespects, ControlKept DEF Control, Sorted

\* What no handler does: time, scans, the node, the site and the readers of the chain.
LEMMA EnvironmentControl ==
  ASSUME Control,
         \/ \E r \in Items : Expire(r) \/ DecideClaimed(r) \/ ScanReads(r) \/ ScanWrites(r)
         \/ (\E tx \in wire : Deliver(tx)) \/ Execute
         \/ RecoverChain \/ SwitchChain \/ FindDeleted \/ ReplaceDeleted \/ Disconnect
  PROVE  Control'
<1> USE ChainAssumption
<1>1. ASSUME NEW r \in Items, Expire(r) \/ ScanReads(r) PROVE Control'
  <2>1. TypeOK'
    BY <1>1 DEF Expire, ScanReads, Overdue, Control, TypeOK, ChainTypeOK
  <2>2. due' \subseteq Requests /\ scanned' \subseteq Requests
    BY <1>1 DEF Expire, ScanReads, Overdue, Control, Sorted
  <2> QED
    BY <1>1, <2>1, <2>2, ControlKept DEF Expire, ScanReads, Respects
<1>2. ASSUME NEW r \in Requests, NEW status \in Statuses, r \in Items,
             status = "expired" \/ (claim[r] = NoProc /\ status = "rejected"),
             record' = [record EXCEPT ![r] = status],
             scanned' \subseteq scanned, settled' \in Chains \cup {NoChain},
             UNCHANGED <<kind, due, accountVars, lockVars, nodeVars, chain, journal, replacing,
                         activity, op, faults, historyVars>>
      PROVE  Control'
  <2>1. /\ record' \in [Items -> Statuses]
        /\ \A x \in Items : record'[x] = IF x = r THEN status ELSE record[x]
    BY <1>2 DEF Control, TypeOK
  <2>2. TypeOK'
    BY <1>2, <2>1 DEF Control, TypeOK, ChainTypeOK
  <2>3. Respects(NoProc)
    BY <1>2, <2>1 DEF Respects
  <2> QED
    BY <1>2, <2>2, <2>3, ControlKept DEF Control, Sorted
<1>3. ASSUME NEW r \in Items, DecideClaimed(r) PROVE Control'
  BY <1>2, <1>3 DEF DecideClaimed, Statuses, Control, TypeOK, Sorted
<1>4. ASSUME NEW r \in Items, ScanWrites(r) PROVE Control'
  BY <1>2, <1>4 DEF ScanWrites, Statuses, Control, TypeOK, Sorted
<1>5. ASSUME UNCHANGED <<recordVars, lockVars, op, faults, historyVars, activity>>,
             switchLock = NoProc \/ journal' = journal,
             TypeOK'
      PROVE  Control'
  BY <1>5, ControlKept DEF Respects, Control, Sorted
<1>6. ASSUME NEW tx \in wire, Deliver(tx) PROVE Control'
  <2>1. wire' \subseteq Transaction /\ ledger' \in Seq(Transaction)
    BY <1>6 DEF Deliver, Control, TypeOK
  <2> QED
    BY <1>5, <1>6, <2>1 DEF Deliver, Control, TypeOK, ChainTypeOK
<1>7. CASE Execute
  BY <1>5, <1>7 DEF Execute, Control, TypeOK, ChainTypeOK
<1>8. CASE RecoverChain
  BY <1>5, <1>8 DEF RecoverChain, RecoverSwitch, Recovered, Control, TypeOK, ChainTypeOK, Journal
<1>9. CASE SwitchChain
  <2>1. TypeOK'
    BY <1>9 DEF SwitchChain, Control, TypeOK, ChainTypeOK
  <2> QED
    BY <1>9, <2>1, ControlKept DEF SwitchChain, Respects, Control, Sorted
<1>10. CASE Disconnect
  <2>1. TypeOK'
    BY <1>10 DEF Disconnect, Control, TypeOK, ChainTypeOK
  <2>2. UNCHANGED <<recordVars, lockVars, op, faults, historyVars, activity, journal>>
    BY <1>10 DEF Disconnect
  <2> QED
    BY <1>5, <2>1, <2>2
<1>11. CASE FindDeleted \/ ReplaceDeleted
  <2>1. TypeOK'
    BY <1>11 DEF FindDeleted, FindActive, ReplaceDeleted, ReplaceActive, Control, TypeOK, ChainTypeOK
  <2> QED
    BY <1>5, <1>11, <2>1 DEF FindDeleted, FindActive, ReplaceDeleted, ReplaceActive
<1> QED
  BY <1>1, <1>3, <1>4, <1>6, <1>7, <1>8, <1>9, <1>10, <1>11

LEMMA InitControl == Init => Control
<1> SUFFICES ASSUME Init PROVE Control
  OBVIOUS
<1> USE SigningAssumption, ChainAssumption
<1>1. Idle \in Op /\ 0 \notin Items
  BY DEF Items, Idle, Op, Steps, Stages
<1>2. TypeOK
  <2>1. record \in [Items -> Statuses] /\ claim \in [Items -> Procs \cup {NoProc}]
    BY DEF Init, Statuses
  <2>2. op \in [Procs -> Op] /\ faults \in 0..MaxFaults
    BY <1>1 DEF Init
  <2>3. ledger \in Seq(Transaction)
    BY DEF Init
  <2> QED
    BY <2>1, <2>2, <2>3 DEF Init, TypeOK, ChainTypeOK
<1>3. Sorted
  BY DEF Init, Sorted, Requests
<1>4. ASSUME NEW p \in Procs PROVE Handler(p) /\ OneHandler(p)
  <2>1. op[p] = Idle /\ op[p].at = "idle" /\ op[p].for = 0 /\ op[p].stage = "call"
    BY DEF Init, Idle
  <2> QED
    BY <1>1, <2>1 DEF Handler, Placed, Holding, Undecided, Submitting, Switching, OneHandler, Requests
<1> QED
  BY <1>2, <1>3, <1>4 DEF Control

LEMMA StepControl == Control /\ [Next]_vars => Control'
<1> SUFFICES ASSUME Control, [Next]_vars PROVE Control'
  OBVIOUS
<1>1. ASSUME NEW p \in Procs, Start(p) PROVE Control'
  BY <1>1, ApprovalControl, PaymentControl, RemovalControl DEF Start
<1>2. ASSUME NEW p \in Procs, Wait(p) PROVE Control'
  BY <1>2, KeyControl, ApprovalControl DEF Wait
<1>3. ASSUME NEW p \in Procs, Continue(p) PROVE Control'
  BY <1>3, ApprovalControl, PaymentControl, KeyControl, NodeControl, ResultControl, SwitchControl,
     RemovalControl DEF Continue
<1>4. ASSUME NEW p \in Procs,
             Cancel(p) \/ RPCFails(p) \/ LoseAnswer(p) \/ WriteFails(p) \/ Crash(p)
      PROVE  Control'
  BY <1>4, KeyControl, PaymentControl, NodeControl, ResultControl, CrashControl
<1>5. CASE UNCHANGED vars
  <2>1. Requests' = Requests
    BY <1>5, Requested DEF vars
  <2>2. TypeOK' /\ Sorted'
    BY <1>5, <2>1 DEF vars, Control, TypeOK, ChainTypeOK, Sorted
  <2>3. \A p \in Procs : (Handler(p) /\ OneHandler(p))'
    BY <1>5, <2>1 DEF vars, Control, Handler, Placed, Holding, Undecided, Submitting, Switching,
                      OneHandler, Pays, Paying
  <2> QED
    BY <2>2, <2>3 DEF Control
<1> QED
  BY <1>1, <1>2, <1>3, <1>4, <1>5, EnvironmentControl DEF Next

LEMMA ControlInvariant == Spec => []Control
BY InitControl, StepControl, PTL DEF Spec

\* Every value stays of its type, and so does every lock, record and file a handler relies on at
\* its step (WalletService.swift, TransactionSubmissionLock.swift).
THEOREM TypeCorrect == Spec => []TypeOK
<1>1. Control => TypeOK
  BY DEF Control
<1> QED
  BY <1>1, ControlInvariant, PTL

-----------------------------------------------------------------------------
(* Removal.                                                                  *)

LEMMA RemovalKept ==
  ASSUME Control, Removal, NEW p \in Procs \cup {NoProc},
         UNCHANGED <<lifecycle, secret>>, connected' => connected \/ lifecycle = "active",
         Pending' \subseteq Pending, \A q \in Procs \ {p} : op'[q] = op[q],
         p \in Procs => RemovedSoFar(op[p])'
  PROVE  Removal'
<1>1. ASSUME NEW q \in Procs \ {p} PROVE RemovedSoFar(op[q])'
  <2>1. op'[q] = op[q] /\ RemovedSoFar(op[q])
    BY DEF Removal
  <2> QED
    BY <2>1 DEF RemovedSoFar, Usable
<1>2. RemovedLeavesNothing'
  BY DEF RemovedLeavesNothing, Removal, Pending
<1> QED
  BY <1>1, <1>2 DEF Removal

\* Elsewhere than in a removal and before the key there is nothing to show.
LEMMA Elsewhere ==
  ASSUME NEW p \in Procs, op'[p].at \notin RemovalSteps \cup {"authenticate"}
  PROVE  RemovedSoFar(op[p])'
BY DEF RemovedSoFar

LEMMA ReturnIdles ==
  ASSUME Control, NEW p \in Procs, Return(p)
  PROVE  op'[p].at = "idle" /\ op'[p].for = 0 /\ op'[p].nonce = 0
         /\ \A q \in Procs \ {p} : op'[q] = op[q]
BY DEF Return, Idle, Control, TypeOK

LEMMA ThrowRemoval ==
  ASSUME Control, Removal, NEW p \in Procs, Throw(p)
  PROVE  Removal'
BY RemovalKept, ReturnIdles, Elsewhere DEF Throw, Pending

LEMMA ProceedRemoval ==
  ASSUME Control, Removal, NEW p \in Procs, NEW o, Proceed(p, o),
         o.at \notin RemovalSteps \cup {"authenticate"}
  PROVE  Removal'
<1>1. op'[p] = o /\ \A q \in Procs \ {p} : op'[q] = op[q]
  BY DEF Proceed, Control, TypeOK
<1> QED
  BY <1>1, RemovalKept, Elsewhere DEF Proceed, Pending

LEMMA RefuseRemoval ==
  ASSUME Control, Removal, NEW p \in Procs, Refuse(p)
  PROVE  Removal'
<1>1. [op[p] EXCEPT !.at = "fail"].at = "fail"
  BY InHand DEF Op
<1> QED
  BY <1>1, ThrowRemoval, ProceedRemoval DEF Refuse

\* Records only leave the pending ones.
LEMMA FewerPending ==
  ASSUME Control, NEW r \in Items, NEW status, status # "pending",
         record' = [record EXCEPT ![r] = status]
  PROVE  Pending' \subseteq Pending
BY DEF Pending, Control, TypeOK

LEMMA ApprovalRemoval ==
  ASSUME Control, Removal, NEW p \in Procs,
         \/ \E r \in Items : BeginApproval(p, r) \/ BeginOwnTransaction(p, r)
         \/ CheckRecord(p) \/ ReadActiveChain(p) \/ CheckAccount(p) \/ LockSubmission(p)
         \/ ReadCode(p) \/ ReadNonce(p) \/ RPCFails(p) \/ ResolveAccount(p)
  PROVE  Removal'
<1> USE InHand
<1>1. ASSUME NEW r \in Items, BeginApproval(p, r) PROVE Removal'
  <2>1. op'[p].at = "check" /\ \A q \in Procs \ {p} : op'[q] = op[q]
    BY <1>1 DEF BeginApproval, Idle, Control, TypeOK
  <2> QED
    BY <1>1, <2>1, RemovalKept, Elsewhere DEF BeginApproval, Pending
<1>2. ASSUME NEW x \in Items, BeginOwnTransaction(p, x) PROVE Removal'
  <2>1. op'[p].at = "lock" /\ \A q \in Procs \ {p} : op'[q] = op[q]
    BY <1>2 DEF BeginOwnTransaction, Idle, Control, TypeOK
  <2> QED
    BY <1>2, <2>1, RemovalKept, Elsewhere, FewerPending DEF BeginOwnTransaction
<1>3. CASE CheckRecord(p)
  <2>1. Pending' \subseteq Pending
    BY <1>3, NormalizedExpires DEF CheckRecord, Pending
  <2>2. op'[p].at \in {"idle", "chain"} /\ \A q \in Procs \ {p} : op'[q] = op[q]
    BY <1>3, ReturnIdles, GotoHand DEF CheckRecord, Steps
  <2> QED
    BY <1>3, <2>1, <2>2, RemovalKept, Elsewhere DEF CheckRecord
<1>4. CASE ReadActiveChain(p)
  <2>1. op'[p].at \in {"account", "fail"} /\ \A q \in Procs \ {p} : op'[q] = op[q]
    BY <1>4 DEF ReadActiveChain, Op, Control, TypeOK
  <2> QED
    BY <1>4, <2>1, RemovalKept, Elsewhere DEF ReadActiveChain, Pending
<1>5. CASE LockSubmission(p)
  <2>1. CASE submission = NoProc
    <3>1. op'[p].at \in {"code", "nonce"} /\ \A q \in Procs \ {p} : op'[q] = op[q]
      BY <1>5, <2>1 DEF LockSubmission, AfterLock, Op, Control, TypeOK
    <3> QED
      BY <1>5, <2>1, <3>1, RemovalKept, Elsewhere DEF LockSubmission, Pending
  <2> QED
    BY <1>5, <2>1, ThrowRemoval DEF LockSubmission
<1>6. ASSUME NEW o, Proceed(p, o), o.at \notin RemovalSteps \cup {"authenticate"} PROVE Removal'
  BY <1>6, ProceedRemoval
<1>7. CASE CheckAccount(p)
  BY <1>6, <1>7 DEF CheckAccount, Op
<1>8. CASE ReadCode(p)
  BY <1>6, <1>8 DEF ReadCode, Op
<1>9. CASE ReadNonce(p)
  BY <1>6, <1>9 DEF ReadNonce, Op
<1>10. CASE RPCFails(p)
  BY <1>10, ThrowRemoval, RefuseRemoval DEF RPCFails
<1>11. CASE ResolveAccount(p)
  BY <1>6, <1>11, ThrowRemoval DEF ResolveAccount, Op
<1> QED
  BY <1>1, <1>2, <1>3, <1>4, <1>5, <1>7, <1>8, <1>9, <1>10, <1>11

LEMMA KeyRemoval ==
  ASSUME Control, Removal, NEW p \in Procs, EnterGroup(p) \/ Cancel(p) \/ Sign(p)
  PROVE  Removal'
<1> USE InHand
<1>1. CASE EnterGroup(p)
  <2>1. CASE Usable
    <3>1. op'[p].at = "authenticate" /\ \A q \in Procs \ {p} : op'[q] = op[q]
      BY <1>1, <2>1, GotoHand DEF EnterGroup, Steps
    <3>2. RemovedSoFar(op[p])'
      BY <1>1, <2>1, <3>1 DEF EnterGroup, RemovedSoFar, Usable
    <3> QED
      BY <1>1, <2>1, <3>1, <3>2, RemovalKept DEF EnterGroup, Pending
  <2> QED
    BY <1>1, <2>1, ThrowRemoval DEF EnterGroup
<1>2. CASE Cancel(p)
  BY <1>2, ThrowRemoval DEF Cancel
<1>3. CASE Sign(p)
  <2>1. op'[p].at \in {"posted", "resolve", "consume"} /\ \A q \in Procs \ {p} : op'[q] = op[q]
    BY <1>3 DEF Sign, Goto, Op, Control, TypeOK
  <2> QED
    BY <1>3, <2>1, RemovalKept, Elsewhere DEF Sign, Pending
<1> QED
  BY <1>1, <1>2, <1>3

LEMMA ResultRemoval ==
  ASSUME Control, Removal, NEW p \in Procs,
         \/ Answer(p) \/ LoseAnswer(p) \/ Misanswer(p) \/ Receipt(p) \/ NoReceipt(p)
         \/ PersistFailed(p) \/ PersistConsumed(p) \/ WriteFails(p) \/ Grant(p)
  PROVE  Removal'
<1> USE InHand
<1>1. CASE Answer(p)
  <2>1. CASE Accepted(PostedBy(op[p])) /\ PostedBy(op[p]).what # "deploy"
    <3>1. op'[p].at \in {"idle", "consume"} /\ \A q \in Procs \ {p} : op'[q] = op[q]
      BY <1>1, <2>1, ReturnIdles, GotoHand DEF Answer, Steps
    <3> QED
      BY <1>1, <2>1, <3>1, RemovalKept, Elsewhere DEF Answer, Pending
  <2>2. CASE Accepted(PostedBy(op[p])) /\ PostedBy(op[p]).what = "deploy"
    BY <1>1, <2>2, ProceedRemoval DEF Answer, Op
  <2> QED
    BY <1>1, <2>1, <2>2, RefuseRemoval DEF Answer
<1>2. CASE LoseAnswer(p) \/ Misanswer(p)
  <2>1. TakeAsFailed(p)
    BY <1>2 DEF LoseAnswer, Misanswer
  <2>2. op'[p].at \in {"idle", "fail"} /\ \A q \in Procs \ {p} : op'[q] = op[q]
    BY <2>1, ReturnIdles, GotoHand DEF TakeAsFailed, Steps
  <2> QED
    BY <2>1, <2>2, RemovalKept, Elsewhere DEF TakeAsFailed, Pending
<1>3. CASE Receipt(p)
  BY <1>3, ProceedRemoval DEF Receipt, Op
<1>4. CASE NoReceipt(p)
  BY <1>4, RefuseRemoval DEF NoReceipt
<1>5. CASE PersistFailed(p)
  BY <1>5, ReturnIdles, RemovalKept, Elsewhere, FewerPending DEF PersistFailed, Placed, Requests
<1>6. CASE PersistConsumed(p)
  <2>1. op'[p].at \in {"idle", "grant", "finish"} /\ \A q \in Procs \ {p} : op'[q] = op[q]
    BY <1>6, ReturnIdles, GotoHand DEF PersistConsumed, Steps
  <2>2. Pending' \subseteq Pending
    BY <1>6, FewerPending DEF PersistConsumed, Placed, Requests
  <2> QED
    BY <1>6, <2>1, <2>2, RemovalKept, Elsewhere DEF PersistConsumed
<1>7. CASE WriteFails(p)
  BY <1>7, ReturnIdles, RemovalKept, Elsewhere DEF WriteFails, Pending
<1>8. CASE Grant(p)
  BY <1>8, ReturnIdles, RemovalKept, Elsewhere DEF Grant, Pending
<1> QED
  BY <1>1, <1>2, <1>3, <1>4, <1>5, <1>6, <1>7, <1>8

LEMMA SwitchRemoval ==
  ASSUME Control, Removal, NEW p \in Procs,
         \/ ClaimChainSwitch(p) \/ WriteJournal(p) \/ SetChain(p) \/ FinishSwitch(p) \/ Crash(p)
  PROVE  Removal'
<1>1. CASE ClaimChainSwitch(p)
  <2>1. CASE switchLock = NoProc
    BY <1>1, <2>1, GotoHand, RemovalKept, Elsewhere DEF ClaimChainSwitch, Pending, Steps
  <2> QED
    BY <1>1, <2>1, ThrowRemoval DEF ClaimChainSwitch
<1>2. CASE WriteJournal(p)
  BY <1>2, GotoHand, RemovalKept, Elsewhere DEF WriteJournal, Pending, Steps
<1>3. CASE SetChain(p)
  BY <1>3, GotoHand, RemovalKept, Elsewhere DEF SetChain, Pending, Steps
<1>4. CASE FinishSwitch(p)
  BY <1>4, ReturnIdles, RemovalKept, Elsewhere DEF FinishSwitch, Pending
<1>5. CASE Crash(p)
  BY <1>5, ReturnIdles, RemovalKept, Elsewhere DEF Crash, Pending
<1> QED
  BY <1>1, <1>2, <1>3, <1>4, <1>5

\* One handler at a time holds the group: while one removes, no other removes or has the key.
LEMMA AloneInGroup ==
  ASSUME Control, NEW p \in Procs, NEW q \in Procs, q # p, op[p].at \in RemovalSteps
  PROVE  op[q].at \notin RemovalSteps \cup {"authenticate"}
BY InHand DEF Holding

LEMMA OthersOutside ==
  ASSUME Control, NEW p \in Procs, op[p].at \in RemovalSteps,
         \A q \in Procs \ {p} : op'[q] = op[q], RemovedSoFar(op[p])', RemovedLeavesNothing'
  PROVE  Removal'
BY AloneInGroup, Elsewhere DEF Removal

LEMMA GroupRemoval ==
  ASSUME Control, Removal, NEW p \in Procs,
         \/ BeginRemoval(p) \/ MarkDeleting(p) \/ ListRequests(p) \/ TerminateRequest(p)
         \/ ForgetSecret(p) \/ RemoveConnections(p) \/ RemoveGroup(p)
  PROVE  Removal'
<1> USE InHand
<1>0. RemovedSoFar(op[p]) /\ RemovedLeavesNothing
  BY DEF Removal
<1>1. CASE BeginRemoval(p)
  <2>1. op'[p].at = "mark" /\ \A q \in Procs \ {p} : op'[q] = op[q]
    BY <1>1 DEF BeginRemoval, Idle, Control, TypeOK
  <2>2. RemovedSoFar(op[p])'
    BY <1>1, <2>1 DEF BeginRemoval, RemovedSoFar
  <2> QED
    BY <1>1, <2>1, <2>2, RemovalKept DEF BeginRemoval, Pending
<1>2. CASE MarkDeleting(p)
  <2>1. op'[p].at = "list" /\ \A q \in Procs \ {p} : op'[q] = op[q]
    BY <1>2, GotoHand DEF MarkDeleting, Steps
  <2>2. RemovedSoFar(op[p])' /\ RemovedLeavesNothing'
    BY <1>2, <2>1 DEF MarkDeleting, RemovedSoFar, RemovedLeavesNothing
  <2> QED
    BY <1>2, <2>1, <2>2, OthersOutside DEF MarkDeleting
<1>3. CASE ListRequests(p)
  <2>1. /\ op'[p].at = "terminate" /\ op'[p].todo = {r \in Requests : record'[r] = "pending"}
        /\ \A q \in Procs \ {p} : op'[q] = op[q]
    BY <1>3 DEF ListRequests, Op, Control, TypeOK
  <2>2. Pending' \subseteq op'[p].todo
    BY <1>3, <2>1, NormalizedExpires DEF ListRequests, Pending, Control, Sorted
  <2>3. RemovedSoFar(op[p])' /\ RemovedLeavesNothing'
    BY <1>0, <1>3, <2>1, <2>2 DEF ListRequests, RemovedSoFar, RemovedLeavesNothing
  <2> QED
    BY <1>3, <2>1, <2>3, OthersOutside DEF ListRequests
<1>4. CASE TerminateRequest(p)
  <2> DEFINE r == CHOOSE q \in op[p].todo : \A s \in op[p].todo : q <= s
  <2>1. CASE claim[r] = NoProc
    <3>1. /\ op'[p].at = "terminate" /\ op'[p].todo = op[p].todo \ {r}
          /\ \A q \in Procs \ {p} : op'[q] = op[q]
      BY <1>4, <2>1 DEF TerminateRequest, Op, Control, TypeOK
    <3>2. /\ op[p].at = "terminate"
          /\ UNCHANGED <<lifecycle, connected>>
          /\ record' = IF r \in Overdue \/ record[r] # "pending" THEN Normalized
                       ELSE [Normalized EXCEPT ![r] = "failed"]
      BY <1>4, <2>1 DEF TerminateRequest
    <3> HIDE DEF r
    <3>3. Pending' \subseteq Pending \ {r}
      BY <3>2, NormalizedExpires DEF Pending, Normalized
    <3>4. RemovedSoFar(op[p])' /\ RemovedLeavesNothing'
      BY <1>0, <3>1, <3>2, <3>3 DEF RemovedSoFar, RemovedLeavesNothing
    <3> QED
      BY <3>1, <3>2, <3>4, OthersOutside
  <2> QED
    BY <1>4, <2>1, ThrowRemoval DEF TerminateRequest
<1>5. CASE ForgetSecret(p)
  <2>1. op'[p].at = "disconnect" /\ \A q \in Procs \ {p} : op'[q] = op[q]
    BY <1>5, GotoHand DEF ForgetSecret, Steps
  <2>2. RemovedSoFar(op[p])' /\ RemovedLeavesNothing'
    BY <1>0, <1>5, <2>1 DEF ForgetSecret, RemovedSoFar, RemovedLeavesNothing, Pending
  <2> QED
    BY <1>5, <2>1, <2>2, OthersOutside DEF ForgetSecret
<1>6. CASE RemoveConnections(p)
  <2>1. op'[p].at = "remove" /\ \A q \in Procs \ {p} : op'[q] = op[q]
    BY <1>6, GotoHand DEF RemoveConnections, Steps
  <2>2. RemovedSoFar(op[p])' /\ RemovedLeavesNothing'
    BY <1>0, <1>6, <2>1 DEF RemoveConnections, RemovedSoFar, RemovedLeavesNothing, Pending
  <2> QED
    BY <1>6, <2>1, <2>2, OthersOutside DEF RemoveConnections
<1>7. CASE RemoveGroup(p)
  <2>1. op'[p].at = "idle" /\ \A q \in Procs \ {p} : op'[q] = op[q]
    BY <1>7, ReturnIdles DEF RemoveGroup
  <2>2. RemovedSoFar(op[p])' /\ RemovedLeavesNothing'
    BY <1>0, <1>7, <2>1 DEF RemoveGroup, RemovedSoFar, RemovedLeavesNothing, Pending
  <2> QED
    BY <1>7, <2>1, <2>2, OthersOutside DEF RemoveGroup
<1> QED
  BY <1>1, <1>2, <1>3, <1>4, <1>5, <1>6, <1>7

LEMMA EnvironmentRemoval ==
  ASSUME Control, Removal,
         \/ \E r \in Items : Expire(r) \/ DecideClaimed(r) \/ ScanReads(r) \/ ScanWrites(r)
         \/ (\E tx \in wire : Deliver(tx)) \/ Execute
         \/ RecoverChain \/ SwitchChain \/ FindDeleted \/ ReplaceDeleted \/ Disconnect
         \/ UNCHANGED vars
  PROVE  Removal'
<1>0. NoProc \notin Procs
  BY ChainAssumption
<1>1. op' = op /\ UNCHANGED <<lifecycle, secret>> /\ (connected' => connected)
  BY DEF Expire, DecideClaimed, ScanReads, ScanWrites, Deliver, Execute, RecoverChain, SwitchChain,
         FindDeleted, ReplaceDeleted, Disconnect, vars
<1>2. Pending' \subseteq Pending
  <2>1. ASSUME NEW r \in Items, DecideClaimed(r) \/ ScanWrites(r) PROVE Pending' \subseteq Pending
    BY <2>1, FewerPending DEF DecideClaimed, ScanWrites
  <2> QED
    BY <2>1 DEF Expire, ScanReads, Deliver, Execute, RecoverChain, SwitchChain, FindDeleted,
                ReplaceDeleted, Disconnect, vars, Pending
<1> QED
  BY <1>0, <1>1, <1>2, RemovalKept

LEMMA StepRemoval == Control /\ Removal /\ [Next]_vars => Removal'
BY ApprovalRemoval, KeyRemoval, ResultRemoval, SwitchRemoval, GroupRemoval, EnvironmentRemoval
   DEF Next, Start, Wait, Continue

LEMMA RemovalInvariant == Spec => []Removal
<1>1. Init => Removal
  BY DEF Init, Removal, RemovedSoFar, RemovedLeavesNothing, Idle
<1> QED
  BY <1>1, StepRemoval, ControlInvariant, PTL DEF Spec

\* The user is asked, and the secret read, only for an account that is still there, however long
\* the wait for its group was (Signing.swift, WalletGroupManager.swift).
THEOREM KeyIsThere == Spec => []KeyOnlyWhileActive
<1>1. Removal => KeyOnlyWhileActive
  BY DEF Removal, RemovedSoFar, KeyOnlyWhileActive
<1> QED
  BY <1>1, RemovalInvariant, PTL

\* A removed account keeps neither a connection nor a pending request, whatever was in progress
\* when it was removed and however often the removal was taken up again (WalletGroupManager.swift).
THEOREM NothingIsLeft == Spec => []RemovedLeavesNothing
<1>1. Removal => RemovedLeavesNothing
  BY DEF Removal
<1> QED
  BY <1>1, RemovalInvariant, PTL

-----------------------------------------------------------------------------
(* Steps that neither pay, nor decide a chain, nor read a nonce.             *)

Quiet(p) ==
  /\ UNCHANGED <<kind, chain, journal, settled, wire, ledger, signed, misheard, unrecorded, activity>>
  /\ \A q \in Procs \ {p} : op'[q] = op[q]
  /\ op[p].at \notin {"posted", "consume", "fail"}
  /\ op'[p].at \notin {"posted", "consume", "finish"}
  /\ op'[p].nonce \in {op[p].nonce, 0}
  /\ op'[p].at \in KeySteps /\ Paying(op'[p]) =>
       op[p].at \in KeySteps /\ op'[p].for = op[p].for /\ op'[p].nonce = op[p].nonce
  /\ op'[p].for # 0 =>
       \/ op'[p].at = "check"
       \/ op'[p].for = op[p].for /\ op[p].at # "check"
       \/ record[op'[p].for] \in {"pending", "unmade"}
  /\ \A r \in Items :
       \/ record'[r] = record[r]
       \/ record[r] = "pending" /\ record'[r] = "expired"
       \/ record[r] = "unmade" /\ record'[r] = "made"
       \/ record[r] = "pending" /\ record'[r] = "failed" /\ claim[r] = NoProc

LEMMA QuietReturn ==
  ASSUME Control, NEW p \in Procs, Return(p), op[p].at \notin {"posted", "consume", "fail"},
         UNCHANGED <<kind, chain, journal, settled, wire, ledger, signed, misheard, unrecorded,
                     activity>>,
         \A r \in Items : \/ record'[r] = record[r]
                          \/ record[r] = "pending" /\ record'[r] = "expired"
  PROVE  Quiet(p)
BY ReturnIdles DEF Quiet

LEMMA QuietThrow ==
  ASSUME Control, NEW p \in Procs, Throw(p), op[p].at \notin {"posted", "consume", "fail"}
  PROVE  Quiet(p)
BY QuietReturn DEF Throw

LEMMA QuietGoto ==
  ASSUME Control, NEW p \in Procs, NEW step \in Steps \ {"posted", "consume", "finish"},
         Goto(p, step), op[p].at \notin {"posted", "consume", "fail"},
         op[p].at # "check" \/ record[op[p].for] = "pending",
         step \in KeySteps => op[p].at \in KeySteps,
         UNCHANGED <<kind, chain, journal, settled, wire, ledger, signed, misheard, unrecorded,
                     activity>>,
         \A r \in Items : \/ record'[r] = record[r]
                          \/ record[r] = "pending" /\ record'[r] = "expired"
  PROVE  Quiet(p)
BY GotoHand DEF Quiet

LEMMA QuietProceed ==
  ASSUME Control, NEW p \in Procs, NEW o \in Op, Proceed(p, o),
         op[p].at \notin {"posted", "consume", "fail", "check"},
         o.at \notin {"posted", "consume", "finish"}, o.for = op[p].for, o.nonce = op[p].nonce,
         o.at \in KeySteps /\ Paying(o) => op[p].at \in KeySteps
  PROVE  Quiet(p)
<1>1. op'[p] = o /\ \A q \in Procs \ {p} : op'[q] = op[q]
  BY DEF Proceed, Control, TypeOK
<1>2. Paying(op'[p]) => Paying(o)
  BY <1>1 DEF Paying, Pays, Proceed
<1> QED
  BY <1>1, <1>2 DEF Quiet, Proceed

LEMMA QuietRefuse ==
  ASSUME Control, NEW p \in Procs, Refuse(p), op[p].at \notin {"posted", "consume", "fail", "check"}
  PROVE  Quiet(p)
<1> DEFINE o == [op[p] EXCEPT !.at = "fail"]
<1>1. o \in Op /\ o.at = "fail" /\ o.for = op[p].for /\ o.nonce = op[p].nonce
  BY InHand DEF Op, Steps
<1> QED
  BY <1>1, QuietThrow, QuietProceed DEF Refuse

LEMMA QuietApproval ==
  ASSUME Control, NEW p \in Procs,
         \/ \E r \in Items : BeginApproval(p, r) \/ BeginOwnTransaction(p, r)
         \/ CheckRecord(p) \/ CheckAccount(p) \/ LockSubmission(p) \/ ReadCode(p) \/ RPCFails(p)
         \/ ResolveAccount(p) \/ EnterGroup(p) \/ Cancel(p)
  PROVE  Quiet(p)
<1> USE InHand
<1>1. ASSUME NEW r \in Items, BeginApproval(p, r) PROVE Quiet(p)
  <2>1. /\ op'[p].at = "check" /\ op'[p].nonce = 0 /\ op[p].at = "idle"
        /\ \A q \in Procs \ {p} : op'[q] = op[q]
    <3> DEFINE o == [Idle EXCEPT !.at = "check", !.for = r]
    <3>1. o.at = "check" /\ o.nonce = 0 /\ Idle.at = "idle"
      BY DEF Idle
    <3>2. op' = [op EXCEPT ![p] = o] /\ op[p] = Idle
      BY <1>1 DEF BeginApproval
    <3> HIDE DEF o
    <3> QED
      BY <3>1, <3>2 DEF Control, TypeOK
  <2> QED
    BY <1>1, <2>1 DEF BeginApproval, Quiet
<1>2. ASSUME NEW x \in Items, BeginOwnTransaction(p, x) PROVE Quiet(p)
  <2>1. /\ op'[p].at = "lock" /\ op'[p].for = x /\ op'[p].nonce = 0 /\ op[p].at = "idle"
        /\ \A q \in Procs \ {p} : op'[q] = op[q]
    <3> DEFINE o == [Idle EXCEPT !.at = "lock", !.for = x]
    <3>1. o.at = "lock" /\ o.for = x /\ o.nonce = 0 /\ Idle.at = "idle"
      BY DEF Idle
    <3>2. op' = [op EXCEPT ![p] = o] /\ op[p] = Idle
      BY <1>2 DEF BeginOwnTransaction
    <3> HIDE DEF o
    <3> QED
      BY <3>1, <3>2 DEF Control, TypeOK
  <2>2. \A r \in Items : record'[r] = record[r] \/ (record[r] = "unmade" /\ record'[r] = "made")
    BY <1>2 DEF BeginOwnTransaction, Control, TypeOK
  <2> QED
    BY <1>2, <2>1, <2>2 DEF BeginOwnTransaction, Quiet
<1>3. CASE CheckRecord(p)
  <2>1. \A r \in Items : \/ record'[r] = record[r]
                         \/ record[r] = "pending" /\ record'[r] = "expired"
    BY <1>3, NormalizedExpires DEF CheckRecord
  <2> QED
    BY <1>3, <2>1, QuietReturn, QuietGoto DEF CheckRecord, Steps
<1>4. CASE CheckAccount(p)
  <2> DEFINE k == kind[op[p].for]
             o == [op[p] EXCEPT !.at = IF ~(connected /\ Usable) THEN "fail"
                                       ELSE IF k \in {"send", "batch"} THEN "lock"
                                       ELSE IF k = "switch" THEN "claimSwitch" ELSE "resolve"]
  <2>1. /\ Proceed(p, o) /\ o \in Op /\ op[p].at = "account"
        /\ o.for = op[p].for /\ o.nonce = op[p].nonce
        /\ o.at \in {"fail", "lock", "claimSwitch", "resolve"}
    BY <1>4 DEF CheckAccount, Op, Steps
  <2>2. o.at = "resolve" => ~Paying(o)
    BY <2>1 DEF Paying, Pays, Placed, Requests, Op
  <2> HIDE DEF o
  <2> QED
    BY <2>1, <2>2, QuietProceed
<1>5. CASE LockSubmission(p)
  <2>1. CASE submission = NoProc
    <3>1. /\ op'[p].at \in {"code", "nonce"} /\ op'[p].for = op[p].for
          /\ op'[p].nonce = op[p].nonce /\ \A q \in Procs \ {p} : op'[q] = op[q]
      BY <1>5, <2>1 DEF LockSubmission, AfterLock, Op, Control, TypeOK
    <3> QED
      BY <1>5, <2>1, <3>1 DEF LockSubmission, Quiet
  <2> QED
    BY <1>5, <2>1, QuietThrow DEF LockSubmission
<1>6. CASE ReadCode(p)
  <2> DEFINE o == [op[p] EXCEPT !.at = "nonce",
                                !.stage = IF code = "missing" THEN "deploy" ELSE "call"]
  <2>1. o \in Op /\ o.at = "nonce" /\ o.for = op[p].for /\ o.nonce = op[p].nonce
    BY DEF Op, Steps, Stages
  <2> QED
    BY <1>6, <2>1, QuietProceed DEF ReadCode
<1>7. CASE RPCFails(p)
  BY <1>7, QuietThrow, QuietRefuse DEF RPCFails
<1>8. CASE ResolveAccount(p)
  <2> DEFINE o == [op[p] EXCEPT !.at = "group"]
  <2>1. o \in Op /\ o.at = "group" /\ o.for = op[p].for /\ o.nonce = op[p].nonce
    BY DEF Op, Steps
  <2> QED
    BY <1>8, <2>1, QuietProceed, QuietThrow DEF ResolveAccount
<1>9. CASE EnterGroup(p)
  BY <1>9, QuietThrow, QuietGoto DEF EnterGroup, Steps
<1>10. CASE Cancel(p)
  BY <1>10, QuietThrow DEF Cancel
<1> QED
  BY <1>1, <1>2, <1>3, <1>4, <1>5, <1>6, <1>7, <1>8, <1>9, <1>10

LEMMA QuietRest ==
  ASSUME Control, NEW p \in Procs,
         \/ Receipt(p) \/ NoReceipt(p) \/ Grant(p) \/ ClaimChainSwitch(p)
         \/ BeginRemoval(p) \/ MarkDeleting(p) \/ ListRequests(p) \/ TerminateRequest(p)
         \/ ForgetSecret(p) \/ RemoveConnections(p) \/ RemoveGroup(p)
  PROVE  Quiet(p)
<1> USE InHand
<1>1. CASE Receipt(p)
  <2> DEFINE o == [op[p] EXCEPT !.at = "nonce", !.stage = "call"]
  <2>1. o \in Op /\ o.at = "nonce" /\ o.for = op[p].for /\ o.nonce = op[p].nonce
    BY DEF Op, Steps, Stages
  <2> QED
    BY <1>1, <2>1, QuietProceed DEF Receipt
<1>2. CASE NoReceipt(p)
  BY <1>2, QuietRefuse DEF NoReceipt
<1>3. CASE Grant(p) \/ RemoveGroup(p)
  BY <1>3, QuietReturn DEF Grant, RemoveGroup
<1>4. CASE ClaimChainSwitch(p)
  BY <1>4, QuietThrow, QuietGoto DEF ClaimChainSwitch, Steps
<1>5. CASE MarkDeleting(p) \/ ForgetSecret(p) \/ RemoveConnections(p)
  BY <1>5, QuietGoto DEF MarkDeleting, ForgetSecret, RemoveConnections, Steps
<1>6. CASE BeginRemoval(p)
  <2>1. /\ op'[p].at = "mark" /\ op'[p].for = 0 /\ op'[p].nonce = 0 /\ op[p].at = "idle"
        /\ \A q \in Procs \ {p} : op'[q] = op[q]
    BY <1>6 DEF BeginRemoval, Idle, Control, TypeOK
  <2> QED
    BY <1>6, <2>1 DEF BeginRemoval, Quiet
<1>7. CASE ListRequests(p)
  <2>1. /\ op'[p].at = "terminate" /\ op'[p].for = op[p].for /\ op'[p].nonce = op[p].nonce
        /\ \A q \in Procs \ {p} : op'[q] = op[q]
    BY <1>7 DEF ListRequests, Op, Control, TypeOK
  <2> QED
    BY <1>7, <2>1, NormalizedExpires DEF ListRequests, Quiet
<1>8. CASE TerminateRequest(p)
  <2> DEFINE r == CHOOSE q \in op[p].todo : \A s \in op[p].todo : q <= s
  <2>1. CASE claim[r] = NoProc
    <3>1. /\ op'[p].at = "terminate" /\ op'[p].for = op[p].for /\ op'[p].nonce = op[p].nonce
          /\ \A q \in Procs \ {p} : op'[q] = op[q]
      BY <1>8, <2>1 DEF TerminateRequest, Op, Control, TypeOK
    <3>2. /\ op[p].at = "terminate"
          /\ record' = IF r \in Overdue \/ record[r] # "pending" THEN Normalized
                       ELSE [Normalized EXCEPT ![r] = "failed"]
          /\ UNCHANGED <<kind, fileVars, nodeVars, activity, historyVars>>
      BY <1>8, <2>1 DEF TerminateRequest
    <3> HIDE DEF r
    <3>3. \A x \in Items : \/ record'[x] = record[x]
                           \/ record[x] = "pending" /\ record'[x] = "expired"
                           \/ record[x] = "pending" /\ record'[x] = "failed" /\ claim[x] = NoProc
      BY <2>1, <3>2, NormalizedExpires DEF Normalized
    <3> QED
      BY <3>1, <3>2, <3>3 DEF Quiet
  <2> QED
    BY <1>8, <2>1, QuietThrow DEF TerminateRequest
<1> QED
  BY <1>1, <1>2, <1>3, <1>4, <1>5, <1>6, <1>7, <1>8

-----------------------------------------------------------------------------
(* The journal of the chain.                                                 *)

\* Whose switch the journal is about, and the chain it stands for.
LEMMA JournalIs ==
  ASSUME Control, Journalled, journal # NoJournal
  PROVE  /\ journal \in Journal /\ journal.req \in Items /\ journal.req \in Requests
         /\ journal.target \in Chains
         /\ journal.req \in Consumed <=> record[journal.req] = "consumed"
         /\ Recovered(Consumed) = IF record[journal.req] = "consumed" THEN journal.target
                                  ELSE journal.previous
BY SigningAssumption
   DEF Control, TypeOK, ChainTypeOK, Journal, Journalled, Consumed, Requests, Recovered

LEMMA JournalKept ==
  ASSUME Control, Journalled, NEW p \in Procs \cup {NoProc},
         UNCHANGED <<kind, chain, journal, settled>>,
         \A r \in Items : kind[r] = "switch" =>
           (record'[r] = "consumed" <=> record[r] = "consumed"),
         \A q \in Procs \ {p} : op'[q] = op[q],
         p \in Procs => Switched(op[p])'
  PROVE  Journalled'
<1>1. ASSUME NEW q \in Procs \ {p} PROVE Switched(op[q])'
  <2>1. op'[q] = op[q] /\ Switched(op[q]) /\ Placed(op[q])
    BY InHand DEF Journalled
  <2> QED
    BY <2>1 DEF Switched, Placed, Requests
<1>2. journal # NoJournal => (journal.req \in Consumed' <=> journal.req \in Consumed)
  BY JournalIs DEF Journalled, Consumed, Requests
<1>3. settled # NoChain => Recovered(Consumed)' = Recovered(Consumed)
  BY <1>2 DEF Recovered
<1> QED
  BY <1>1, <1>2, <1>3 DEF Journalled

LEMMA NotSwitching ==
  ASSUME NEW p \in Procs, op'[p].at \notin {"consume", "finish"}
  PROVE  Switched(op[p])'
BY DEF Switched

LEMMA QuietJournal ==
  ASSUME Control, Journalled, NEW p \in Procs, Quiet(p)
  PROVE  Journalled'
<1>1. Switched(op[p])'
  BY NotSwitching DEF Quiet
<1>2. \A r \in Items : kind[r] = "switch" => (record'[r] = "consumed" <=> record[r] = "consumed")
  BY DEF Quiet
<1> QED
  BY <1>1, <1>2, JournalKept DEF Quiet

\* No journal is left, and the chain is the one decided.
LEMMA JournalSettled ==
  ASSUME journal' = NoJournal, settled' # NoChain => chain' = settled',
         \A q \in Procs : op'[q].at # "finish" /\ (op'[q].at = "consume" => kind'[op'[q].for] # "switch")
  PROVE  Journalled'
BY DEF Journalled, Switched, Recovered

\* Without the lock of the chain's file nobody is about to finish a switch.
LEMMA NobodySwitches ==
  ASSUME Control, NEW p \in Procs \cup {NoProc}, switchLock \in {NoProc, p}, NEW q \in Procs, q # p
  PROVE  op[q].at # "finish" /\ (op[q].at = "consume" => kind[op[q].for] # "switch")
BY InHand DEF Holding, Switching

LEMMA WriteJournalled ==
  ASSUME Control, Journalled, NEW p \in Procs, WriteJournal(p)
  PROVE  Journalled'
<1> USE InHand
<1>1. PICK target \in Chains \ {Home} : BeginSwitch(op[p].for, op[p].previous, target)
  BY DEF WriteJournal
<1>2. /\ op[p].at = "journal" /\ op[p].for \in Items /\ op[p].for \in Requests
      /\ kind[op[p].for] = "switch" /\ op[p].previous = Home /\ switchLock = p
      /\ record[op[p].for] # "consumed"
  BY DEF WriteJournal, Placed, Holding, Switching, Undecided, Requests
<1>3. /\ UNCHANGED <<kind, record, chain>>
      /\ settled' = IF op[p].previous = chain THEN settled ELSE NoChain
      /\ journal' = [req |-> op[p].for, previous |-> Home, target |-> target]
  BY <1>1, <1>2 DEF WriteJournal, BeginSwitch
<1>4. journal' # NoJournal /\ journal'.req = op[p].for /\ journal'.previous = Home
      /\ journal'.target = target
  BY <1>3, ChainAssumption, SigningAssumption DEF NoJournal
<1>5. op'[p].at = "setChain" /\ \A q \in Procs \ {p} : op'[q] = op[q]
  BY GotoHand DEF WriteJournal, Steps
<1>6. \A q \in Procs : Switched(op[q])'
  <2> SUFFICES ASSUME NEW q \in Procs PROVE Switched(op[q])'
    OBVIOUS
  <2>1. CASE q = p
    BY <2>1, <1>5, NotSwitching
  <2>2. CASE q # p
    BY <2>2, <1>2, <1>3, <1>5, NobodySwitches DEF Switched
  <2> QED
    BY <2>1, <2>2
<1>7. settled' # NoChain => chain = Home /\ settled' = Home
  <2> SUFFICES ASSUME settled' # NoChain PROVE chain = Home /\ settled = Home
    BY <1>3
  <2>1. settled # NoChain /\ chain = Home
    BY <1>2, <1>3
  <2>2. CASE journal = NoJournal
    BY <2>1, <2>2 DEF Journalled, Recovered
  <2>3. CASE journal # NoJournal
    BY <2>1, <2>3, JournalIs DEF Journalled
  <2> QED
    BY <2>1, <2>2, <2>3
<1>8. journal'.req \notin Consumed'
  BY <1>2, <1>3, <1>4 DEF Consumed, Requests
<1>9. Recovered(Consumed)' = Home
  BY <1>4, <1>8 DEF Recovered
<1> QED
  BY <1>2, <1>3, <1>4, <1>6, <1>7, <1>8, <1>9 DEF Journalled

LEMMA SetChainJournalled ==
  ASSUME Control, Journalled, NEW p \in Procs, SetChain(p)
  PROVE  Journalled'
<1> USE InHand
<1>1. /\ op[p].at = "setChain" /\ op[p].for \in Items /\ op[p].for \in Requests
      /\ switchLock = p /\ journal # NoJournal /\ journal.req = op[p].for
      /\ record[op[p].for] # "consumed"
  BY DEF SetChain, Placed, Holding, Switching, Undecided, Requests
<1>2. /\ UNCHANGED <<kind, record, journal, settled>> /\ chain' = journal.target
      /\ Requests' = Requests
  BY Requested DEF SetChain
<1>3. op'[p].at = "consume" /\ \A q \in Procs \ {p} : op'[q] = op[q]
  BY GotoHand DEF SetChain, Steps
<1>4. \A q \in Procs : Switched(op[q])'
  <2> SUFFICES ASSUME NEW q \in Procs PROVE Switched(op[q])'
    OBVIOUS
  <2>1. CASE q = p
    BY <2>1, <1>2, <1>3 DEF Switched
  <2>2. CASE q # p
    BY <2>2, <1>1, <1>2, <1>3, NobodySwitches DEF Switched
  <2> QED
    BY <2>1, <2>2
<1>5. Consumed' = Consumed /\ (settled # NoChain => Recovered(Consumed)' = Recovered(Consumed))
  BY <1>1, <1>2 DEF Consumed, Recovered
<1> QED
  BY <1>1, <1>2, <1>4, <1>5 DEF Journalled

LEMMA ConsumeJournalled ==
  ASSUME Control, Journalled, NEW p \in Procs, PersistConsumed(p)
  PROVE  Journalled'
<1> USE InHand
<1> DEFINE r == op[p].for
<1>1. /\ op[p].at = "consume" /\ r \in Items /\ r \in Requests /\ record[r] # "consumed"
      /\ record' = [record EXCEPT ![r] = "consumed"]
      /\ UNCHANGED <<kind, chain, journal>>
      /\ settled' = IF kind[r] = "switch" /\ settled # NoChain THEN journal.target ELSE settled
  BY DEF PersistConsumed, Placed, Undecided, Requests
<1>2. \A x \in Items : record'[x] = IF x = r THEN "consumed" ELSE record[x]
  BY <1>1 DEF Control, TypeOK
<1>3. /\ op'[p].at \in {"idle", "grant", "finish"} /\ \A q \in Procs \ {p} : op'[q] = op[q]
      /\ op'[p].at = "finish" => kind[r] = "switch" /\ op'[p].for = r
  BY ReturnIdles, GotoHand DEF PersistConsumed, Steps
<1>4. CASE kind[r] # "switch"
  <2>1. Switched(op[p])'
    BY <1>3, <1>4, NotSwitching
  <2> QED
    BY <1>1, <1>2, <1>3, <1>4, <2>1, JournalKept
<1>5. CASE kind[r] = "switch"
  <2>1. /\ switchLock = p /\ journal # NoJournal /\ journal.req = r
        /\ settled # NoChain => chain = journal.target
    BY <1>1, <1>5 DEF Holding, Switching, Journalled, Switched
  <2>2. \A q \in Procs : Switched(op[q])'
    <3> SUFFICES ASSUME NEW q \in Procs PROVE Switched(op[q])'
      OBVIOUS
    <3>1. CASE q = p
      BY <3>1, <1>1, <1>2, <1>3, <2>1 DEF Switched
    <3>2. CASE q # p
      BY <3>2, <1>1, <1>3, <2>1, NobodySwitches DEF Switched
    <3> QED
      BY <3>1, <3>2
  <2>3. journal.req \in Consumed'
    BY <1>1, <1>2, <2>1 DEF Consumed, Requests
  <2>4. Recovered(Consumed)' = journal.target
    BY <1>1, <2>1, <2>3 DEF Recovered
  <2> QED
    BY <1>1, <1>5, <2>1, <2>2, <2>4 DEF Journalled
<1> QED
  BY <1>4, <1>5

LEMMA UndoneJournalled ==
  ASSUME Control, Journalled, NEW p \in Procs, WriteFails(p)
  PROVE  Journalled'
<1> USE InHand
<1>1. /\ UNCHANGED <<kind, record, settled>>
      /\ op'[p].at = "idle" /\ \A q \in Procs \ {p} : op'[q] = op[q]
  BY ReturnIdles DEF WriteFails
<1>2. CASE kind[op[p].for] = "switch" /\ op[p].at = "consume"
  <2>1. /\ switchLock = p /\ journal # NoJournal /\ journal.req = op[p].for
        /\ record[op[p].for] # "consumed"
    BY <1>2 DEF Holding, Switching, Undecided, Placed
  <2>2. journal' = NoJournal /\ chain' = journal.previous
    BY <1>2, <2>1 DEF WriteFails, RecoverSwitch, Recovered
  <2>3. settled # NoChain => chain' = settled
    BY <2>1, <2>2, JournalIs DEF Journalled
  <2>4. \A q \in Procs : op'[q].at # "finish"
                         /\ (op'[q].at = "consume" => kind'[op'[q].for] # "switch")
    BY <1>1, <2>1, NobodySwitches
  <2> QED
    BY <1>1, <2>2, <2>3, <2>4, JournalSettled
<1>3. CASE ~(kind[op[p].for] = "switch" /\ op[p].at = "consume")
  BY <1>1, <1>3, NotSwitching, JournalKept DEF WriteFails
<1> QED
  BY <1>2, <1>3

LEMMA FinishJournalled ==
  ASSUME Control, Journalled, NEW p \in Procs, FinishSwitch(p)
  PROVE  Journalled'
<1> USE InHand
<1>1. /\ UNCHANGED <<kind, record, chain, settled>> /\ journal' = NoJournal
      /\ op'[p].at = "idle" /\ \A q \in Procs \ {p} : op'[q] = op[q]
  BY ReturnIdles DEF FinishSwitch
<1>2. /\ switchLock = p /\ journal # NoJournal /\ journal.req = op[p].for
      /\ settled # NoChain => chain = journal.target /\ record[op[p].for] = "consumed"
  BY DEF FinishSwitch, Holding, Switching, Journalled, Switched
<1>3. settled # NoChain => chain = settled
  BY <1>2, JournalIs DEF Journalled
<1>4. \A q \in Procs : op'[q].at # "finish"
                       /\ (op'[q].at = "consume" => kind'[op'[q].for] # "switch")
  BY <1>1, <1>2, NobodySwitches
<1> QED
  BY <1>1, <1>3, <1>4, JournalSettled

\* Whoever reads the chain with the lock free makes it what the journal stood for.
LEMMA RecoverJournalled ==
  ASSUME Control, Journalled, NEW p \in Procs \cup {NoProc}, switchLock = NoProc,
         RecoverSwitch(Consumed), UNCHANGED <<kind, record, settled>>,
         \A q \in Procs \ {p} : op'[q] = op[q],
         p \in Procs => op'[p].at \notin {"consume", "finish"}
  PROVE  Journalled'
<1>1. journal' = NoJournal /\ (settled # NoChain => chain' = settled)
  BY DEF RecoverSwitch, Journalled
<1>2. \A q \in Procs : op'[q].at # "finish"
                       /\ (op'[q].at = "consume" => kind'[op'[q].for] # "switch")
  BY NobodySwitches
<1> QED
  BY <1>1, <1>2, JournalSettled

LEMMA OtherJournalled ==
  ASSUME Control, Journalled, NEW p \in Procs,
         \/ ReadActiveChain(p) \/ ReadNonce(p) \/ Sign(p) \/ Answer(p) \/ LoseAnswer(p)
         \/ Misanswer(p) \/ PersistFailed(p) \/ Crash(p)
  PROVE  Journalled'
<1> USE InHand
<1>1. CASE ReadActiveChain(p)
  <2>1. op'[p].at \in {"account", "fail"} /\ \A q \in Procs \ {p} : op'[q] = op[q]
    BY <1>1 DEF ReadActiveChain, Op, Control, TypeOK
  <2> QED
    BY <1>1, <2>1, RecoverJournalled DEF ReadActiveChain
<1>2. ASSUME UNCHANGED <<kind, record, chain, journal, settled>>,
             \A q \in Procs \ {p} : op'[q] = op[q],
             op'[p].at # "finish", op'[p].at = "consume" => kind[op'[p].for] # "switch"
      PROVE  Journalled'
  <2>1. Switched(op[p])'
    BY <1>2 DEF Switched
  <2> QED
    BY <1>2, <2>1, JournalKept
<1>3. CASE ReadNonce(p)
  <2>1. op'[p].at = "resolve" /\ \A q \in Procs \ {p} : op'[q] = op[q]
    BY <1>3 DEF ReadNonce, Proceed, Op, Control, TypeOK
  <2> QED
    BY <1>2, <1>3, <2>1 DEF ReadNonce, Proceed
<1>4. CASE Sign(p)
  <2>1. /\ op'[p].at \in {"posted", "resolve", "consume"} /\ op'[p].for = op[p].for
        /\ \A q \in Procs \ {p} : op'[q] = op[q]
    BY <1>4 DEF Sign, Goto, Op, Control, TypeOK
  <2> QED
    BY <1>2, <1>4, <2>1 DEF Sign, Placed
<1>5. CASE Answer(p)
  <2>1. op[p].at = "posted" /\ kind[op[p].for] # "switch"
    BY <1>5 DEF Answer, Placed, Pays
  <2>2. CASE Accepted(PostedBy(op[p])) /\ PostedBy(op[p]).what # "deploy"
    <3>1. /\ op'[p].at \in {"idle", "consume"} /\ (op'[p].at = "consume" => op'[p].for = op[p].for)
          /\ \A q \in Procs \ {p} : op'[q] = op[q]
      BY <1>5, <2>2, ReturnIdles, GotoHand DEF Answer, Steps
    <3> QED
      BY <1>2, <1>5, <2>1, <2>2, <3>1 DEF Answer
  <2>3. ASSUME NEW o, Proceed(p, o), o.at \in {"receipt", "fail"} PROVE Journalled'
    <3>1. op'[p] = o /\ \A q \in Procs \ {p} : op'[q] = op[q]
      BY <2>3 DEF Proceed, Control, TypeOK
    <3> QED
      BY <1>2, <2>3, <3>1 DEF Proceed
  <2>4. CASE Throw(p)
    BY <1>2, <2>4, ReturnIdles DEF Throw
  <2> QED
    BY <1>5, <2>2, <2>3, <2>4 DEF Answer, Refuse, Op
<1>6. CASE LoseAnswer(p) \/ Misanswer(p)
  <2>1. TakeAsFailed(p)
    BY <1>6 DEF LoseAnswer, Misanswer
  <2>2. op'[p].at \in {"idle", "fail"} /\ \A q \in Procs \ {p} : op'[q] = op[q]
    BY <2>1, ReturnIdles, GotoHand DEF TakeAsFailed, Steps
  <2> QED
    BY <1>2, <2>1, <2>2 DEF TakeAsFailed
<1>7. CASE Crash(p)
  BY <1>2, <1>7, ReturnIdles DEF Crash
<1>8. CASE PersistFailed(p)
  <2>1. record[op[p].for] # "consumed" /\ record' = [record EXCEPT ![op[p].for] = "failed"]
    BY <1>8 DEF PersistFailed, Placed, Undecided
  <2>2. \A r \in Items : record'[r] = "consumed" <=> record[r] = "consumed"
    BY <2>1 DEF Control, TypeOK
  <2> QED
    BY <1>8, <2>2, ReturnIdles, NotSwitching, JournalKept DEF PersistFailed
<1> QED
  BY <1>1, <1>3, <1>4, <1>5, <1>6, <1>7, <1>8

\* The journal is about one request; what becomes of the record of another is nothing to it.
LEMMA OtherScanned ==
  ASSUME Control, Journalled, NEW r \in Items, ScanWrites(r), journal.req # r
  PROVE  Journalled'
<1>1. /\ UNCHANGED <<kind, chain, journal, settled, op>>
      /\ \A x \in Items : x # r => record'[x] = record[x]
  BY DEF ScanWrites, Control, TypeOK
<1>2. ASSUME NEW q \in Procs PROVE Switched(op[q])'
  <2>1. op[q].at = "finish" => op[q].for # r /\ op[q].for \in Items
    BY InHand DEF Holding, Switching, Placed, Requests
  <2> QED
    BY <1>1, <2>1 DEF Journalled, Switched
<1>3. journal # NoJournal => (journal.req \in Consumed' <=> journal.req \in Consumed)
  BY <1>1, JournalIs DEF Consumed, Requests
<1>4. settled # NoChain => Recovered(Consumed)' = Recovered(Consumed)
  BY <1>1, <1>3 DEF Recovered
<1> QED
  BY <1>1, <1>2, <1>3, <1>4 DEF Journalled

\* The deletion of a network changes the chain beside the journal: with one open, that disturbs it.
LEMMA DeletedJournalled ==
  ASSUME Control, Journalled, ReplaceDeleted
  PROVE  Journalled'
<1>1. /\ UNCHANGED <<kind, record, journal, op>>
      /\ settled' = IF chain' = chain THEN settled
                    ELSE IF journal = NoJournal /\ chain = replacing THEN chain' ELSE NoChain
  BY DEF ReplaceDeleted, ReplaceActive
<1>2. CASE chain' = chain
  BY <1>1, <1>2, JournalKept, ChainAssumption
<1>3. CASE chain' # chain /\ journal = NoJournal
  <2>1. \A q \in Procs : op'[q].at # "finish"
                         /\ (op'[q].at = "consume" => kind'[op'[q].for] # "switch")
    BY <1>1, <1>3, InHand DEF Holding, Switching
  <2> QED
    BY <1>1, <1>3, <2>1, JournalSettled
<1>4. CASE chain' # chain /\ journal # NoJournal
  BY <1>1, <1>4 DEF Journalled, Switched
<1> QED
  BY <1>2, <1>3, <1>4

LEMMA EnvironmentJournalled ==
  ASSUME Control, Journalled,
         \/ \E r \in Items : Expire(r) \/ DecideClaimed(r) \/ ScanReads(r) \/ ScanWrites(r)
         \/ (\E tx \in wire : Deliver(tx)) \/ Execute
         \/ RecoverChain \/ SwitchChain \/ FindDeleted \/ ReplaceDeleted \/ Disconnect
         \/ UNCHANGED vars
  PROVE  Journalled'
<1> USE ChainAssumption
<1>1. ASSUME UNCHANGED <<kind, record, chain, journal, settled, op>> PROVE Journalled'
  BY <1>1, JournalKept
<1>2. ASSUME NEW r \in Items, DecideClaimed(r) PROVE Journalled'
  <2>1. \A x \in Items : record'[x] = "consumed" <=> record[x] = "consumed"
    BY <1>2 DEF DecideClaimed, Control, TypeOK
  <2> QED
    BY <1>2, <2>1, JournalKept DEF DecideClaimed
<1>3. ASSUME NEW r \in Items, ScanWrites(r) PROVE Journalled'
  <2>1. CASE record[r] # "consumed"
    <3>1. \A x \in Items : record'[x] = "consumed" <=> record[x] = "consumed"
      BY <1>3, <2>1 DEF ScanWrites, Control, TypeOK
    <3> QED
      BY <1>3, <2>1, <3>1, JournalKept DEF ScanWrites, Control, TypeOK
  <2>2. CASE record[r] = "consumed" /\ journal.req = r
    BY <1>3, <2>2 DEF ScanWrites, Journalled, Switched
  <2>3. CASE record[r] = "consumed" /\ journal.req # r
    BY <1>3, <2>3, OtherScanned
  <2> QED
    BY <2>1, <2>2, <2>3
<1>4. CASE RecoverChain
  BY <1>4, RecoverJournalled DEF RecoverChain
<1>5. CASE SwitchChain
  <2>1. \A q \in Procs : op'[q].at # "finish"
                         /\ (op'[q].at = "consume" => kind'[op'[q].for] # "switch")
    BY <1>5, NobodySwitches DEF SwitchChain
  <2> QED
    BY <1>5, <2>1, JournalSettled DEF SwitchChain
<1>6. CASE ReplaceDeleted
  BY <1>6, DeletedJournalled
<1> QED
  BY <1>1, <1>2, <1>3, <1>4, <1>5, <1>6
     DEF Expire, ScanReads, Deliver, Execute, FindDeleted, FindActive, Disconnect, vars

LEMMA StepJournalled == Control /\ Journalled /\ [Next]_vars => Journalled'
<1> USE QuietApproval, QuietRest, QuietJournal
<1>1. ASSUME Control, Journalled, NEW p \in Procs, Start(p) \/ Wait(p) PROVE Journalled'
  BY <1>1, OtherJournalled DEF Start, Wait
<1>2. ASSUME Control, Journalled, NEW p \in Procs, Continue(p) PROVE Journalled'
  BY <1>2, OtherJournalled, WriteJournalled, SetChainJournalled, ConsumeJournalled,
     FinishJournalled DEF Continue
<1>3. ASSUME Control, Journalled, NEW p \in Procs,
             Cancel(p) \/ RPCFails(p) \/ LoseAnswer(p) \/ WriteFails(p) \/ Crash(p)
      PROVE  Journalled'
  BY <1>3, OtherJournalled, UndoneJournalled
<1> QED
  BY <1>1, <1>2, <1>3, EnvironmentJournalled DEF Next

LEMMA JournalInvariant == Spec => []Journalled
<1>1. Init => Journalled
  BY DEF Init, Journalled, Switched, Recovered, Idle
<1> QED
  BY <1>1, StepJournalled, ControlInvariant, PTL DEF Spec

\* The active chain is the one last decided: a switch that stopped half way counts only when its
\* request was consumed, whoever takes the lock next, and a network that was deleted while it was
\* active is replaced.  What disturbs that is a switch that overtook another, the scan of a record
\* that was consumed late, and a deletion that met a switch under way: from there on nothing is
\* said until the chain is decided anew (ChainStore.swift, WalletService.swift, NetworkStore.swift).
THEOREM ChainIsTheOneDecided == Spec => []ChainIsDecided
<1>1. Journalled => ChainIsDecided
  BY DEF Journalled, ChainIsDecided, Recovered
<1> QED
  BY <1>1, JournalInvariant, PTL

-----------------------------------------------------------------------------
(* The nonces.                                                               *)

\* A posted transaction is awaited, and a nonce in hand is not that of a known transaction.
Awaited(t) == \E p \in Procs : op[p].at = "posted" /\ PostedBy(op[p]) = t
FreshNonce(o) ==
  o.at \in KeySteps /\ Paying(o) =>
    \A t \in signed : Live(t) /\ t.nonce = o.nonce => t.for \in Unsure

\* The ledger holds still: a handler changes its own position and may lose track of its own.
LEMMA NoncesKept ==
  ASSUME Control, Nonces, NEW p \in Procs \cup {NoProc}, UNCHANGED <<kind, wire, ledger, signed>>,
         Unsure \subseteq Unsure', \A q \in Procs \ {p} : op'[q] = op[q],
         p \in Procs => FreshNonce(op[p])',
         p \in Procs /\ op[p].at = "posted" =>
           PostedBy(op[p]) \notin wire \/ op[p].for \in Unsure'
  PROVE  Nonces'
<1>1. \A t : Live(t)' <=> Live(t)
  BY DEF Live, Accepted
<1>2. \A t \in wire' : t.for \notin Unsure' => Awaited(t)'
  <2> SUFFICES ASSUME NEW t \in wire, t.for \notin Unsure' PROVE Awaited(t)'
    OBVIOUS
  <2>1. PICK q \in Procs : op[q].at = "posted" /\ PostedBy(op[q]) = t
    BY DEF Nonces
  <2>2. q # p
    BY <2>1 DEF PostedBy
  <2> QED
    BY <2>1, <2>2 DEF Awaited, PostedBy
<1>3. \A q \in Procs : FreshNonce(op[q])'
  <2> SUFFICES ASSUME NEW q \in Procs \ {p} PROVE FreshNonce(op[q])'
    OBVIOUS
  <2> QED
    BY <1>1 DEF Nonces, FreshNonce, Paying, Pays
<1>4. OneTransactionPerNonce'
  BY <1>1 DEF Nonces, OneTransactionPerNonce, Unsure
<1> QED
  BY <1>2, <1>3, <1>4 DEF Nonces, Awaited, FreshNonce

LEMMA NonceFresh ==
  ASSUME Nonces, NEW p \in Procs
  PROVE  FreshNonce(op[p])
BY DEF Nonces, FreshNonce

LEMMA QuietNonces ==
  ASSUME Control, Nonces, NEW p \in Procs, Quiet(p)
  PROVE  Nonces'
<1>1. \A t : Live(t)' <=> Live(t)
  BY DEF Quiet, Live, Accepted
<1>2. Unsure' = Unsure
  BY DEF Quiet, Unsure
<1>3. FreshNonce(op[p])'
  BY <1>1, <1>2, NonceFresh DEF Quiet, FreshNonce, Paying, Pays
<1> QED
  BY <1>2, <1>3, NoncesKept DEF Quiet

\* One handler has the lock of the nonces.
LEMMA OneSubmits ==
  ASSUME Control, NEW p \in Procs, NEW q \in Procs, Submitting(op[p]), Submitting(op[q])
  PROVE  p = q
BY InHand DEF Holding

LEMMA ReadNonceFresh ==
  ASSUME Control, Nonces, NEW p \in Procs, ReadNonce(p)
  PROVE  Nonces'
<1>1. op[p].at = "nonce" /\ Submitting(op[p])
  BY DEF ReadNonce, Submitting
<1>2. /\ UNCHANGED <<kind, wire, ledger, signed>> /\ Unsure' = Unsure
      /\ op'[p].nonce = PendingNonce /\ \A q \in Procs \ {p} : op'[q] = op[q]
  <2> DEFINE o == [op[p] EXCEPT !.at = "resolve", !.nonce = PendingNonce,
       !.stage = IF @ = "call" /\ kind[op[p].for] = "batch" /\ code = "deployed"
                 THEN "authorize" ELSE @]
  <2>1. Proceed(p, o)
    BY DEF ReadNonce
  <2>2. o.nonce = PendingNonce
    BY InHand DEF Op
  <2> HIDE DEF o
  <2> QED
    BY <2>1, <2>2 DEF Proceed, Control, TypeOK, Unsure
<1>3. ASSUME NEW t \in signed, Live(t), t.nonce = PendingNonce PROVE t.for \in Unsure
  <2>1. t \in wire
    BY <1>3 DEF Nonces, Live, Accepted, PendingNonce, Control, TypeOK
  <2>2. ASSUME NEW q \in Procs, op[q].at = "posted" PROVE FALSE
    BY <2>2, <1>1, OneSubmits DEF Submitting
  <2> QED
    BY <2>1, <2>2 DEF Nonces
<1>4. FreshNonce(op[p])'
  BY <1>2, <1>3 DEF FreshNonce, Live, Accepted
<1> QED
  BY <1>1, <1>2, <1>4, NoncesKept

\* What a signature does: the transaction goes out, or an authorization, a message or a sign-in
\* goes on.
SendsOut(p) ==
  /\ Paying(op[p])
  /\ wire' = wire \cup {PostedBy(op[p])} /\ signed' = signed \cup {PostedBy(op[p])}
  /\ op'[p].at = "posted" /\ op'[p].stage = op[p].stage /\ UNCHANGED activity
HandsBack(p) ==
  /\ UNCHANGED <<wire, signed>>
  /\ op'[p].at = IF Paying(op[p]) THEN "resolve" ELSE "consume"
  /\ activity' = IF Paying(op[p]) THEN activity ELSE activity \cup {op[p].for}

LEMMA SignSteps ==
  ASSUME Control, NEW p \in Procs, Sign(p)
  PROVE  /\ op[p].at = "authenticate" /\ op[p].for \in Items
         /\ op'[p].for = op[p].for /\ op'[p].nonce = op[p].nonce
         /\ \A q \in Procs \ {p} : op'[q] = op[q]
         /\ UNCHANGED <<kind, record, claim, ledger, misheard, unrecorded>>
         /\ SendsOut(p) \/ HandsBack(p)
<1>1. op[p].at = "authenticate" /\ op[p].for \in Items
  BY InHand DEF Sign, Placed, KeySteps
<1>2. UNCHANGED <<kind, record, claim, ledger, misheard, unrecorded>>
  BY DEF Sign
<1>3. CASE Paying(op[p]) /\ op[p].stage # "authorize"
  BY <1>1, <1>2, <1>3, GotoHand DEF Sign, SendsOut, Steps
<1>4. CASE ~(Paying(op[p]) /\ op[p].stage # "authorize")
  <2> DEFINE step == IF Paying(op[p]) THEN "resolve" ELSE "consume"
             o == [op[p] EXCEPT !.at = step, !.stage = "call"]
  <2>1. op' = [op EXCEPT ![p] = o] /\ UNCHANGED <<wire, signed>>
        /\ activity' = IF Paying(op[p]) THEN activity ELSE activity \cup {op[p].for}
    BY <1>4, InHand DEF Sign, Op, Control, TypeOK
  <2>2. o.at = step /\ o.for = op[p].for /\ o.nonce = op[p].nonce
    BY InHand DEF Op
  <2> HIDE DEF o
  <2>3. op'[p] = o /\ \A q \in Procs \ {p} : op'[q] = op[q]
    BY <2>1 DEF Control, TypeOK
  <2> QED
    BY <1>1, <1>2, <2>1, <2>2, <2>3 DEF HandsBack
<1> QED
  BY <1>3, <1>4

LEMMA SendOutNonces ==
  ASSUME Control, Nonces, NEW p \in Procs, Sign(p), SendsOut(p)
  PROVE  Nonces'
<1> DEFINE t == PostedBy(op[p])
<1>1. /\ t.nonce = op[p].nonce
      /\ \A u \in signed : Live(u) /\ u.nonce = t.nonce => u.for \in Unsure
  BY SignSteps, NonceFresh DEF PostedBy, FreshNonce, SendsOut, KeySteps
<1>2. UNCHANGED <<ledger, kind>> /\ Unsure' = Unsure
  BY SignSteps DEF Unsure
<1>3. op'[p].at = "posted" /\ PostedBy(op[p])' = t /\ wire' = wire \cup {t} /\ signed' = signed \cup {t}
  BY SignSteps DEF PostedBy, SendsOut
<1> HIDE DEF t
<1>4. \A u \in wire' : u.for \notin Unsure' => Awaited(u)'
  <2> SUFFICES ASSUME NEW u \in wire', u.for \notin Unsure PROVE Awaited(u)'
    BY <1>2
  <2>1. CASE u = t
    BY <1>3, <2>1 DEF Awaited
  <2>2. CASE u \in wire
    <3>1. PICK q \in Procs : op[q].at = "posted" /\ PostedBy(op[q]) = u
      BY <2>2 DEF Nonces
    <3>2. op'[q] = op[q]
      BY <3>1, SignSteps
    <3> QED
      BY <3>1, <3>2 DEF Awaited, PostedBy
  <2> QED
    BY <1>3, <2>1, <2>2
<1>5. \A q \in Procs : FreshNonce(op[q])'
  <2> SUFFICES ASSUME NEW q \in Procs PROVE FreshNonce(op[q])'
    OBVIOUS
  <2>1. CASE q = p
    BY <1>3, <2>1 DEF FreshNonce, KeySteps
  <2>2. CASE q # p
    <3>1. op'[q] = op[q] /\ ~(op[q].at \in KeySteps /\ Paying(op[q]))
      BY <2>2, SignSteps, OneSubmits DEF Submitting, SendsOut, KeySteps
    <3> QED
      BY <1>2, <3>1 DEF FreshNonce, Paying, Pays
  <2> QED
    BY <2>1, <2>2
<1>6. OneTransactionPerNonce'
  <2> SUFFICES ASSUME NEW u \in signed', NEW v \in signed', u # v, u.nonce = v.nonce,
                      Live(u)', Live(v)'
               PROVE  {u.for, v.for} \cap Unsure # {}
    BY <1>2 DEF OneTransactionPerNonce, Unsure
  <2>1. \A w \in signed' : w # t /\ Live(w)' => w \in signed /\ Live(w)
    BY <1>2, <1>3 DEF Live, Accepted
  <2>2. CASE u # t /\ v # t
    BY <2>1, <2>2 DEF Nonces, OneTransactionPerNonce, Unsure
  <2>3. CASE u = t \/ v = t
    BY <1>1, <2>1, <2>3
  <2> QED
    BY <2>2, <2>3
<1> QED
  BY <1>1, <1>2, <1>3, <1>4, <1>5, <1>6 DEF Nonces, Awaited, FreshNonce

LEMMA SignNonces ==
  ASSUME Control, Nonces, NEW p \in Procs, Sign(p)
  PROVE  Nonces'
<1>1. CASE HandsBack(p)
  <2>1. (\A t : Live(t)' <=> Live(t)) /\ Unsure' = Unsure
    BY <1>1, SignSteps DEF HandsBack, Live, Accepted, Unsure
  <2>2. Paying(op[p])' <=> Paying(op[p])
    BY SignSteps DEF Paying, Pays
  <2>3. FreshNonce(op[p])'
    BY <1>1, <2>1, <2>2, SignSteps, NonceFresh DEF FreshNonce, HandsBack, KeySteps, Paying, Pays
  <2> QED
    BY <1>1, <2>1, <2>3, SignSteps, NoncesKept DEF HandsBack
<1> QED
  BY <1>1, SignSteps, SendOutNonces

\* Answers and results: a handler that leaves the wire has its answer, or is unsure.
LEMMA AnsweredNonces ==
  ASSUME Control, Nonces, NEW p \in Procs, Answer(p) \/ LoseAnswer(p) \/ Misanswer(p)
  PROVE  Nonces'
<1>1. ASSUME UNCHANGED <<kind, wire, ledger, signed>>, Unsure \subseteq Unsure',
             \A q \in Procs \ {p} : op'[q] = op[q], op'[p].at \notin KeySteps,
             PostedBy(op[p]) \notin wire \/ op[p].for \in Unsure'
      PROVE  Nonces'
  BY <1>1, NoncesKept DEF FreshNonce
<1>2. ASSUME Return(p), UNCHANGED <<kind, wire, ledger, signed>>, Unsure \subseteq Unsure',
             PostedBy(op[p]) \notin wire \/ op[p].for \in Unsure'
      PROVE  Nonces'
  BY <1>1, <1>2, ReturnIdles DEF KeySteps
<1>3. ASSUME NEW step \in {"consume", "fail"}, Goto(p, step),
             UNCHANGED <<kind, wire, ledger, signed>>, Unsure \subseteq Unsure',
             PostedBy(op[p]) \notin wire \/ op[p].for \in Unsure'
      PROVE  Nonces'
  BY <1>1, <1>3, GotoHand DEF KeySteps, Steps
<1>4. CASE LoseAnswer(p) \/ Misanswer(p)
  <2>1. TakeAsFailed(p) /\ Unsure \subseteq Unsure' /\ op[p].for \in Unsure'
    BY <1>4 DEF LoseAnswer, Misanswer, TakeAsFailed, Unsure
  <2> QED
    BY <1>2, <1>3, <2>1 DEF TakeAsFailed
<1>5. CASE Answer(p)
  <2>1. PostedBy(op[p]) \notin wire
    BY <1>5 DEF Answer
  <2>2. ASSUME NEW step \in {"receipt", "fail"}, Proceed(p, [op[p] EXCEPT !.at = step])
        PROVE  Nonces'
    <3>1. /\ op'[p].at = step /\ Unsure' = Unsure
          /\ \A q \in Procs \ {p} : op'[q] = op[q]
      BY <2>2, InHand DEF Proceed, Op, Control, TypeOK, Unsure
    <3> QED
      BY <1>1, <2>1, <2>2, <3>1 DEF Proceed, KeySteps
  <2>3. CASE Throw(p)
    BY <1>2, <2>1, <2>3 DEF Throw, Unsure
  <2> QED
    BY <1>2, <1>3, <1>5, <2>1, <2>2, <2>3 DEF Answer, Refuse, Unsure
<1> QED
  BY <1>4, <1>5

LEMMA OtherNonces ==
  ASSUME Control, Nonces, NEW p \in Procs,
         \/ ReadActiveChain(p) \/ PersistFailed(p) \/ PersistConsumed(p) \/ WriteFails(p)
         \/ WriteJournal(p) \/ SetChain(p) \/ FinishSwitch(p) \/ Crash(p)
  PROVE  Nonces'
<1>1. ASSUME UNCHANGED <<kind, wire, ledger, signed>>, Unsure \subseteq Unsure',
             \A q \in Procs \ {p} : op'[q] = op[q], op'[p].at \notin KeySteps,
             op[p].at # "posted" \/ op[p].for \in Unsure'
      PROVE  Nonces'
  BY <1>1, NoncesKept DEF FreshNonce
<1>2. ASSUME Return(p), UNCHANGED <<kind, wire, ledger, signed>>, Unsure \subseteq Unsure',
             op[p].at # "posted" \/ op[p].for \in Unsure'
      PROVE  Nonces'
  BY <1>1, <1>2, ReturnIdles DEF KeySteps
<1>3. ASSUME NEW step \in {"grant", "finish", "setChain", "consume"}, Goto(p, step),
             UNCHANGED <<kind, wire, ledger, signed, misheard, unrecorded>>, op[p].at # "posted"
      PROVE  Nonces'
  BY <1>1, <1>3, GotoHand DEF KeySteps, Steps, Unsure
<1>4. CASE ReadActiveChain(p)
  <2>1. /\ op'[p].at \in {"account", "fail"}
        /\ \A q \in Procs \ {p} : op'[q] = op[q]
    BY <1>4, InHand DEF ReadActiveChain, Op, Control, TypeOK
  <2> QED
    BY <1>1, <1>4, <2>1 DEF ReadActiveChain, KeySteps, Unsure
<1>5. CASE PersistFailed(p) \/ WriteFails(p) \/ FinishSwitch(p)
  BY <1>2, <1>5 DEF PersistFailed, WriteFails, FinishSwitch, Unsure
<1>6. CASE PersistConsumed(p)
  BY <1>2, <1>3, <1>6 DEF PersistConsumed, Unsure
<1>7. CASE WriteJournal(p) \/ SetChain(p)
  BY <1>3, <1>7 DEF WriteJournal, SetChain
<1>8. CASE Crash(p)
  <2>1. op[p].at = "posted" => Paying(op[p])
    BY InHand DEF Placed, Paying, PaymentSteps
  <2> QED
    BY <1>2, <1>8, <2>1 DEF Crash, Unsure
<1> QED
  BY <1>4, <1>5, <1>6, <1>7, <1>8

\* The node takes a transaction of the next nonce, or refuses what it is sent.
LEMMA DeliverNonces ==
  ASSUME Control, Nonces, NEW tx \in wire, Deliver(tx)
  PROVE  Nonces'
<1>1. /\ tx \in signed /\ tx \in Transaction /\ ledger \in Seq(Transaction)
      /\ UNCHANGED <<kind, op, signed>> /\ Unsure' = Unsure /\ wire' = wire \ {tx}
      /\ ledger' = ledger \/ (tx.nonce = PendingNonce /\ ledger' = Append(ledger, tx))
  BY DEF Deliver, Nonces, Control, TypeOK, Unsure
<1>2. \A i \in DOMAIN ledger' : ledger'[i] \in signed' /\ ledger'[i].nonce + 1 = i
  BY <1>1 DEF Nonces, PendingNonce
<1>3. \A t : Live(t)' => Live(t)
  <2>1. \A i \in DOMAIN ledger' : (i \in DOMAIN ledger /\ ledger'[i] = ledger[i]) \/ ledger'[i] = tx
    BY <1>1
  <2> QED
    BY <1>1, <2>1 DEF Live, Accepted
<1>4. \A t \in wire' : t.for \notin Unsure' => Awaited(t)'
  BY <1>1 DEF Nonces, Awaited, PostedBy
<1>5. \A q \in Procs : FreshNonce(op[q])'
  BY <1>1, <1>3, NonceFresh DEF FreshNonce, Paying, Pays
<1>6. wire' \subseteq signed' /\ OneTransactionPerNonce'
  BY <1>1, <1>3 DEF Nonces, OneTransactionPerNonce, Unsure
<1> QED
  BY <1>2, <1>4, <1>5, <1>6 DEF Nonces, Awaited, FreshNonce

LEMMA EnvironmentNonces ==
  ASSUME Control, Nonces,
         \/ \E r \in Items : Expire(r) \/ DecideClaimed(r) \/ ScanReads(r) \/ ScanWrites(r)
         \/ (\E tx \in wire : Deliver(tx)) \/ Execute
         \/ RecoverChain \/ SwitchChain \/ FindDeleted \/ ReplaceDeleted \/ Disconnect
         \/ UNCHANGED vars
  PROVE  Nonces'
<1>1. ASSUME UNCHANGED <<kind, wire, ledger, op, signed, misheard, unrecorded>> PROVE Nonces'
  BY <1>1, NoncesKept, ChainAssumption DEF Unsure
<1> QED
  BY <1>1, DeliverNonces
     DEF Expire, DecideClaimed, ScanReads, ScanWrites, Execute, RecoverChain, SwitchChain,
         FindDeleted, ReplaceDeleted, Disconnect, vars

LEMMA StepNonces == Control /\ Nonces /\ [Next]_vars => Nonces'
<1> USE QuietApproval, QuietRest, QuietNonces, OtherNonces
<1>1. ASSUME Control, Nonces, NEW p \in Procs, Start(p) \/ Wait(p) PROVE Nonces'
  BY <1>1 DEF Start, Wait
<1>2. ASSUME Control, Nonces, NEW p \in Procs, Continue(p) PROVE Nonces'
  BY <1>2, ReadNonceFresh, SignNonces, AnsweredNonces DEF Continue
<1>3. ASSUME Control, Nonces, NEW p \in Procs,
             Cancel(p) \/ RPCFails(p) \/ LoseAnswer(p) \/ WriteFails(p) \/ Crash(p)
      PROVE  Nonces'
  BY <1>3, AnsweredNonces
<1> QED
  BY <1>1, <1>2, <1>3, EnvironmentNonces DEF Next

LEMMA NonceInvariant == Spec => []Nonces
<1>1. Init => Nonces
  BY DEF Init, Nonces, OneTransactionPerNonce, Idle, KeySteps
<1> QED
  BY <1>1, StepNonces, ControlInvariant, PTL DEF Spec

\* "App and dapp sends cannot race the same pending nonce": of one nonce no two transactions are
\* on their way or accepted at once.  One that the node refused is neither, and its nonce is signed
\* again; and of two, one may belong to a handler that stopped listening before the answer, or
\* died (TransactionSubmissionLock.swift, WalletService.swift).
THEOREM NoncesAreNotRaced == Spec => []OneTransactionPerNonce
<1>1. Nonces => OneTransactionPerNonce
  BY DEF Nonces
<1> QED
  BY <1>1, NonceInvariant, PTL

-----------------------------------------------------------------------------
(* The payments.                                                             *)

\* The calls the node has accepted are transactions that were signed.
LEMMA CallsAreLive ==
  ASSUME Nonces, NEW x \in Items, NEW i \in Calls(x)
  PROVE  /\ ledger[i] \in signed /\ Live(ledger[i]) /\ ledger[i].what = "call"
         /\ ledger[i].for = x /\ ledger[i].nonce + 1 = i
BY DEF Nonces, Calls, Live, Accepted

LEMMA AcceptedIsCall ==
  ASSUME NEW t, Accepted(t), t.what = "call"
  PROVE  Calls(t.for) # {}
BY DEF Accepted, Calls

\* A request has one handler that went past the first check, a payment of the wallet has one.
LEMMA OneOnIt ==
  ASSUME Control, NEW p \in Procs, NEW q \in Procs, op[p].for \in Items, op[q].for = op[p].for
  PROVE  p = q
BY InHand DEF Holding, OneHandler

\* Unless its handler waits for the answer, has it, or could not understand it, an undecided
\* payment has no live call.
LEMMA NoCall ==
  ASSUME Control, Nonces, Payments, NEW x \in Items \ unrecorded,
         \A q \in Procs : op[q].for = x =>
           op[q].at \notin {"posted", "consume"} /\ (op[q].at = "fail" => x \notin misheard),
         \/ record[x] \notin {"consumed", "expired", "made", "failed"}
         \/ \E q \in Procs : op[q].for = x /\ op[q].at # "check"
  PROVE  /\ \A t \in signed : t.for = x /\ t.what = "call" => ~Live(t)
         /\ Calls(x) = {}
<1>1. ASSUME NEW t \in signed, t.for = x, t.what = "call", Live(t) PROVE FALSE
  BY <1>1 DEF Payments, UnderWay, Over
<1>2. ASSUME NEW i \in Calls(x) PROVE FALSE
  BY <1>1, CallsAreLive
<1> QED
  BY <1>1, <1>2

\* Where a payment is does not change while the ledger holds still, as long as its handler goes
\* on, and its record is decided by nobody else.
LEMMA WhereaboutsKept ==
  ASSUME Control, Payments, NEW p \in Procs \cup {NoProc}, UNCHANGED <<kind, wire, ledger>>,
         \A q \in Procs \ {p} : op'[q] = op[q],
         misheard \subseteq misheard',
         NEW t \in signed, t.for \in Items, Live(t), t.what = "call", t.for \notin unrecorded,
         p \in Procs =>
           /\ op[p].at \in {"posted", "consume", "fail"} => op[p].for # t.for
           /\ op'[p].for = t.for =>
                \/ op'[p].at = "check"
                \/ op[p].for = t.for /\ op[p].at # "check"
                \/ record[t.for] \in {"pending", "unmade"},
         record'[t.for] = record[t.for] \/ record'[t.for] \in {"consumed", "expired", "made"}
           \/ record[t.for] = "pending"
  PROVE  UnderWay(t)' \/ Over(t)'
<1>1. Accepted(t)' = Accepted(t)
  BY DEF Accepted
<1>2. CASE UnderWay(t)
  <2>1. PICK q \in Procs : /\ op[q].for = t.for
                           /\ \/ op[q].at = "posted" /\ PostedBy(op[q]) = t
                              \/ op[q].at = "consume" /\ Accepted(t)
                              \/ op[q].at = "fail" /\ t.for \in misheard
    BY <1>2 DEF UnderWay
  <2>2. op'[q] = op[q]
    BY <2>1
  <2> QED
    BY <1>1, <2>1, <2>2 DEF UnderWay, PostedBy
<1>3. CASE Over(t)
  <2>1. /\ record'[t.for] \in {"consumed", "expired", "made", "failed"}
        /\ record'[t.for] = "failed" => t.for \in misheard
    BY <1>3 DEF Over
  <2>2. ASSUME NEW q \in Procs, op'[q].for = t.for PROVE op'[q].at = "check"
    BY <1>3, <2>2 DEF Over
  <2> QED
    BY <1>1, <1>3, <2>1, <2>2 DEF Over
<1> QED
  BY <1>2, <1>3 DEF Payments

LEMMA PaymentsKept ==
  ASSUME Control, Nonces, Payments, UNCHANGED <<kind, wire, ledger, signed>>,
         misheard \subseteq misheard', unrecorded \subseteq unrecorded',
         \A t \in signed : Live(t) /\ t.what = "call" /\ t.for \notin unrecorded' =>
           UnderWay(t)' \/ Over(t)',
         \A q \in Procs : op'[q].at = "consume" /\ Paying(op[q])' => Calls(op'[q].for) # {},
         \A r \in Items : Pays(r) =>
           /\ record'[r] = "consumed" => Calls(r) # {}
           /\ record'[r] = "failed" =>
                r \in misheard' \cup unrecorded' \/ Calls(r) = {} \/ record'[r] = record[r]
           /\ record'[r] = "rejected" =>
                r \in unrecorded' \/ Calls(r) = {} \/ record'[r] = record[r],
         \A x \in activity' \ activity : Pays(x) => Calls(x) # {}
  PROVE  Payments'
<1>1. \A t : (Accepted(t) <=> Accepted(t)') /\ (Live(t) <=> Live(t)')
  BY DEF Accepted, Live
<1>2. \A x : Calls(x)' = Calls(x) /\ (Pays(x) <=> Pays(x)')
  BY DEF Calls, Pays
<1>3. AnswersAreTrue'
  <2>1. ASSUME NEW r \in Items, Pays(r), r \notin unrecorded',
               record'[r] = "rejected" \/ (record'[r] = "failed" /\ r \notin misheard')
        PROVE  Calls(r) = {}
    BY <2>1 DEF Payments, AnswersAreTrue
  <2>2. \A x \in activity' : Pays(x) => Calls(x) # {}
    BY DEF Payments, AnswersAreTrue
  <2> QED
    BY <1>2, <2>1, <2>2 DEF AnswersAreTrue
<1> QED
  BY <1>1, <1>2, <1>3 DEF Payments

\* The steps between the answers and the results.
LEMMA OnwardPayments ==
  ASSUME Control, Nonces, Payments, NEW p \in Procs \cup {NoProc},
         UNCHANGED <<kind, wire, ledger, signed>>, misheard \subseteq misheard',
         unrecorded \subseteq unrecorded', \A q \in Procs \ {p} : op'[q] = op[q],
         p \in Procs =>
           /\ \/ op[p].at \notin {"posted", "consume", "fail"} \/ ~Paying(op[p])
              \/ op[p].for \in unrecorded'
           /\ op'[p].at = "consume" => ~Paying(op[p])'
           /\ op'[p].for # 0 =>
                \/ op'[p].at = "check"
                \/ op'[p].for = op[p].for /\ op[p].at # "check"
                \/ record[op'[p].for] \in {"pending", "unmade"},
         \A r \in Items :
           \/ record'[r] = record[r]
           \/ record'[r] \in {"expired", "made"}
           \/ /\ record[r] = "pending" /\ record'[r] \in {"failed", "rejected"}
              /\ ~Pays(r) \/ r \in unrecorded' \/ Calls(r) = {}
           \/ record'[r] = "failed" /\ ~Pays(r)
           \/ record'[r] = "consumed" /\ ~Pays(r),
         \A x \in activity' \ activity : ~Pays(x)
  PROVE  Payments'
<1>1. ASSUME NEW t \in signed, Live(t), t.what = "call", t.for \notin unrecorded'
      PROVE  UnderWay(t)' \/ Over(t)'
  <2>1. t.for \in Items /\ Pays(t.for) /\ t.for # 0 /\ t.for \notin unrecorded
    BY <1>1, SigningAssumption DEF Control, TypeOK, Transaction, Payments, Items
  <2>2. p \in Procs /\ op[p].at \in {"posted", "consume", "fail"} => op[p].for # t.for
    BY <1>1, <2>1 DEF Paying
  <2>3. record'[t.for] = record[t.for] \/ record'[t.for] \in {"consumed", "expired", "made"}
           \/ record[t.for] = "pending"
    BY <1>1, <2>1
  <2>4. p \in Procs /\ op'[p].for = t.for =>
           \/ op'[p].at = "check"
           \/ op[p].for = t.for /\ op[p].at # "check"
           \/ record[t.for] \in {"pending", "unmade"}
    BY <2>1
  <2> QED
    BY <1>1, <2>1, <2>2, <2>3, <2>4, WhereaboutsKept
<1>2. ASSUME NEW q \in Procs, op'[q].at = "consume", Paying(op[q])' PROVE Calls(op'[q].for) # {}
  <2>1. q # p /\ op'[q] = op[q] /\ Paying(op[q])
    BY <1>2 DEF Paying, Pays
  <2> QED
    BY <1>2, <2>1 DEF Payments
<1>3. ASSUME NEW r \in Items, Pays(r)
      PROVE  /\ record'[r] = "consumed" => Calls(r) # {}
             /\ record'[r] \in {"failed", "rejected"} =>
                  r \in unrecorded' \/ Calls(r) = {} \/ record'[r] = record[r]
  BY <1>3 DEF Payments, AnswersAreTrue
<1> QED
  BY <1>1, <1>2, <1>3, PaymentsKept

LEMMA QuietPayments ==
  ASSUME Control, Nonces, Payments, NEW p \in Procs, Quiet(p)
  PROVE  Payments'
<1>1. ASSUME NEW r \in Items, record[r] = "pending", claim[r] = NoProc
      PROVE  r \in unrecorded \/ Calls(r) = {}
  <2>1. \A q \in Procs : op[q].for # r
    BY <1>1, InHand DEF Holding, Control, Sorted
  <2> QED
    BY <1>1, <2>1, NoCall
<1> QED
  BY <1>1, OnwardPayments DEF Quiet

LEMMA SendOutPayments ==
  ASSUME Control, Nonces, Payments, NEW p \in Procs, Sign(p), SendsOut(p)
  PROVE  Payments'
<1> DEFINE t == PostedBy(op[p])
           x == op[p].for
<1>1. /\ t.for = x /\ x \in Items /\ op[p].at = "authenticate" /\ Pays(x)
      /\ op'[p].at = "posted" /\ op'[p].for = x /\ PostedBy(op[p])' = t
      /\ wire' = wire \cup {t} /\ signed' = signed \cup {t}
      /\ \A q \in Procs \ {p} : op'[q] = op[q]
      /\ UNCHANGED <<kind, record, ledger, misheard, unrecorded, activity>>
  BY SignSteps DEF PostedBy, SendsOut, Paying
<1>2. \A u : (Accepted(u) <=> Accepted(u)') /\ (u # t => (Live(u) <=> Live(u)'))
  BY <1>1 DEF Accepted, Live
<1>3. \A y : Calls(y)' = Calls(y) /\ (Pays(y) <=> Pays(y)')
  BY <1>1 DEF Calls, Pays
<1>4. ASSUME NEW u \in signed, u.for = x, u.what = "call", x \notin unrecorded
      PROVE  ~Live(u)
  <2>1. \A q \in Procs : op[q].for = x => op[q].at = "authenticate"
    BY <1>1, OneOnIt
  <2> QED
    BY <1>1, <1>4, <2>1, NoCall
<1> HIDE DEF t, x
<1>5. ASSUME NEW u \in signed', Live(u)', u.what = "call", u.for \notin unrecorded
      PROVE  UnderWay(u)' \/ Over(u)'
  <2>1. CASE u = t
    BY <1>1, <2>1 DEF UnderWay
  <2>2. CASE u # t
    <3>1. u \in signed /\ Live(u) /\ u.for # x
      BY <1>1, <1>2, <1>4, <1>5, <2>2
    <3>2. CASE UnderWay(u)
      <4>1. PICK q \in Procs : /\ op[q].for = u.for
                               /\ \/ op[q].at = "posted" /\ PostedBy(op[q]) = u
                                  \/ op[q].at = "consume" /\ Accepted(u)
                                  \/ op[q].at = "fail" /\ u.for \in misheard
        BY <3>2 DEF UnderWay
      <4>2. op'[q] = op[q]
        BY <1>1, <4>1
      <4> QED
        BY <1>1, <1>2, <4>1, <4>2 DEF UnderWay, PostedBy
    <3>3. CASE Over(u)
      BY <1>1, <1>2, <3>1, <3>3 DEF Over, x
    <3> QED
      BY <1>5, <3>1, <3>2, <3>3 DEF Payments
  <2> QED
    BY <2>1, <2>2
<1>6. ASSUME NEW u \in signed', NEW v \in signed', Live(u)', Live(v)', u.what = "call",
             v.what = "call", u.for = v.for, u.for \notin unrecorded
      PROVE  u = v
  <2>1. CASE u = t \/ v = t
    BY <1>1, <1>2, <1>4, <1>6, <2>1
  <2>2. CASE u # t /\ v # t
    BY <1>1, <1>2, <1>6, <2>2 DEF Payments
  <2> QED
    BY <2>1, <2>2
<1>7. ASSUME NEW q \in Procs, op'[q].at = "consume", Paying(op[q])' PROVE Calls(op[q].for)' # {}
  <2>1. q # p /\ op'[q] = op[q] /\ Paying(op[q])
    BY <1>1, <1>7 DEF Paying, Pays
  <2> QED
    BY <1>3, <1>7, <2>1 DEF Payments
<1>8. AnswersAreTrue'
  BY <1>1, <1>3 DEF Payments, AnswersAreTrue
<1> QED
  BY <1>1, <1>3, <1>5, <1>6, <1>7, <1>8 DEF Payments

LEMMA SignPayments ==
  ASSUME Control, Nonces, Payments, NEW p \in Procs, Sign(p)
  PROVE  Payments'
<1>1. CASE HandsBack(p)
  <2>1. Paying(op[p])' <=> Paying(op[p])
    BY SignSteps DEF Paying, Pays
  <2>2. \A x \in activity' \ activity : ~Pays(x)
    BY <1>1, SignSteps, InHand DEF HandsBack, Paying
  <2> QED
    BY <1>1, <2>1, <2>2, SignSteps, OnwardPayments DEF HandsBack
<1> QED
  BY <1>1, SignSteps, SendOutPayments

\* The node's answer: its transaction is accepted for good, or it is gone.
LEMMA AcceptedPayments ==
  ASSUME Control, Nonces, Payments, NEW p \in Procs, Answer(p),
         Accepted(PostedBy(op[p])), PostedBy(op[p]).what # "deploy"
  PROVE  Payments'
<1> USE InHand
<1> DEFINE x == op[p].for
<1>0. PICK tx : tx = PostedBy(op[p])
  OBVIOUS
<1>1. /\ op[p].at = "posted" /\ x \in Items /\ Pays(x)
      /\ tx.for = x /\ tx.what = "call" /\ Accepted(tx) /\ Calls(x) # {}
  BY <1>0, AcceptedIsCall DEF Answer, Placed, PaymentSteps, PostedBy
<1>2. /\ UNCHANGED <<kind, record, wire, ledger, signed, misheard, unrecorded>>
      /\ activity' = activity \cup {x}
      /\ IF kind[x] = "own" THEN Return(p) ELSE Goto(p, "consume") /\ UNCHANGED lockVars
  BY <1>0, <1>1 DEF Answer
<1>3. /\ \A q \in Procs \ {p} : op'[q] = op[q] /\ op'[q].for # x
      /\ \/ kind[x] = "own" /\ op'[p].at = "idle" /\ op'[p].for = 0
         \/ kind[x] # "own" /\ op'[p].at = "consume" /\ op'[p].for = x
  BY <1>1, <1>2, ReturnIdles, GotoHand, OneOnIt DEF Steps
<1>4. Accepted(tx)'
  BY <1>1, <1>2 DEF Accepted
<1>5. ASSUME NEW t \in signed, Live(t), t.what = "call", t.for \notin unrecorded
      PROVE  UnderWay(t)' \/ Over(t)'
  <2>1. CASE t.for = x
    <3>1. t = tx \/ Over(t)
      BY <1>0, <1>1, <1>5, <2>1, OneOnIt DEF Payments, UnderWay
    <3>2. t = tx
      BY <1>1, <2>1, <3>1 DEF Over
    <3>3. CASE kind[x] = "own"
      <4>1. record[x] = "made" /\ \A q \in Procs : op'[q].for # x
        BY <1>1, <1>3, <3>3 DEF OneHandler, Requests
      <4> QED
        BY <1>1, <1>2, <1>4, <3>2, <4>1 DEF Over
    <3>4. CASE kind[x] # "own"
      BY <1>1, <1>3, <1>4, <3>2, <3>4 DEF UnderWay
    <3> QED
      BY <3>3, <3>4
  <2>2. CASE t.for # x
    <3>1. t.for \in Items /\ t.for # 0
      BY SigningAssumption DEF Control, TypeOK, Transaction, Items
    <3> QED
      BY <1>1, <1>2, <1>3, <1>5, <2>2, <3>1, WhereaboutsKept
  <2> QED
    BY <2>1, <2>2
<1>6. ASSUME NEW q \in Procs, op'[q].at = "consume", Paying(op[q])' PROVE Calls(op'[q].for) # {}
  <2>1. CASE q = p
    BY <1>1, <1>3, <1>6, <2>1
  <2>2. CASE q # p
    <3>1. op'[q] = op[q] /\ Paying(op[q])
      BY <1>2, <1>3, <1>6, <2>2 DEF Paying, Pays
    <3> QED
      BY <1>6, <3>1 DEF Payments
  <2> QED
    BY <2>1, <2>2
<1>7. \A r \in Items : Pays(r) => (record'[r] = "consumed" => Calls(r) # {})
  BY <1>2 DEF Payments, AnswersAreTrue
<1> QED
  BY <1>1, <1>2, <1>5, <1>6, <1>7, PaymentsKept

LEMMA OtherAnswerPayments ==
  ASSUME Control, Nonces, Payments, NEW p \in Procs, Answer(p),
         ~Accepted(PostedBy(op[p])) \/ PostedBy(op[p]).what = "deploy"
  PROVE  Payments'
<1> USE InHand
<1> DEFINE tx == PostedBy(op[p])
           x == op[p].for
<1>1. op[p].at = "posted" /\ x \in Items /\ Pays(x) /\ tx \notin wire
  BY DEF Answer, Placed, PaymentSteps
<1>2. /\ UNCHANGED <<kind, record, wire, ledger, signed, misheard, unrecorded, activity>>
      /\ \A q \in Procs \ {p} : op'[q] = op[q]
      /\ op'[p].at \in {"idle", "fail", "receipt"} /\ op'[p].for \in {0, x}
  <2>1. ASSUME NEW step \in {"receipt", "fail"}, Proceed(p, [op[p] EXCEPT !.at = step])
        PROVE  /\ UNCHANGED <<kind, record, wire, ledger, signed, misheard, unrecorded>>
               /\ op'[p].at = step /\ op'[p].for = x
               /\ \A q \in Procs \ {p} : op'[q] = op[q]
    BY <2>1 DEF Proceed, Op, Control, TypeOK
  <2>2. CASE Throw(p)
    BY <2>2, ReturnIdles DEF Throw, Answer
  <2> QED
    BY <2>1, <2>2 DEF Answer, Refuse
<1>3. ASSUME NEW t \in signed, Live(t), t.what = "call", t.for \notin unrecorded
      PROVE  UnderWay(t)' \/ Over(t)'
  <2>1. t.for # x
    <3> SUFFICES ASSUME t.for = x PROVE FALSE
      OBVIOUS
    <3>1. UnderWay(t)
      BY <1>1, <1>3 DEF Payments, Over
    <3>2. t = tx
      BY <1>1, <3>1, OneOnIt DEF UnderWay
    <3> QED
      BY <1>1, <1>3, <3>2 DEF Live
  <2>2. t.for \in Items /\ t.for # 0
    BY SigningAssumption DEF Control, TypeOK, Transaction, Items
  <2> QED
    BY <1>1, <1>2, <1>3, <2>1, <2>2, WhereaboutsKept
<1>4. ASSUME NEW q \in Procs, op'[q].at = "consume", Paying(op[q])' PROVE Calls(op'[q].for) # {}
  <2>1. op'[q] = op[q] /\ Paying(op[q])
    BY <1>2, <1>4 DEF Paying, Pays
  <2> QED
    BY <1>4, <2>1 DEF Payments
<1>5. \A r \in Items : Pays(r) => (record'[r] = "consumed" => Calls(r) # {})
  BY <1>2 DEF Payments, AnswersAreTrue
<1> QED
  BY <1>2, <1>3, <1>4, <1>5, PaymentsKept

\* No answer, or one that says nothing: the payment is taken to have failed, and never made again.
LEMMA MisheardPayments ==
  ASSUME Control, Nonces, Payments, NEW p \in Procs, LoseAnswer(p) \/ Misanswer(p)
  PROVE  Payments'
<1> USE InHand
<1> DEFINE x == op[p].for
<1>1. op[p].at = "posted" /\ x \in Items /\ Pays(x) /\ TakeAsFailed(p)
  BY DEF LoseAnswer, Misanswer, Placed, PaymentSteps
<1>2. /\ UNCHANGED <<kind, record, wire, ledger, signed, unrecorded, activity>>
      /\ misheard' = misheard \cup {x}
  BY <1>1 DEF TakeAsFailed
<1>3. /\ \A q \in Procs \ {p} : op'[q] = op[q] /\ op'[q].for # x
      /\ \/ kind[x] = "own" /\ op'[p].at = "idle" /\ op'[p].for = 0
         \/ kind[x] # "own" /\ op'[p].at = "fail" /\ op'[p].for = x
  BY <1>1, ReturnIdles, GotoHand, OneOnIt DEF TakeAsFailed, Steps
<1>4. ASSUME NEW t \in signed, Live(t), t.what = "call", t.for \notin unrecorded
      PROVE  UnderWay(t)' \/ Over(t)'
  <2>1. CASE t.for = x /\ kind[x] = "own"
    <3>1. record[x] = "made" /\ \A q \in Procs : op'[q].for # x
      BY <1>1, <1>3, <2>1 DEF OneHandler, Requests
    <3> QED
      BY <1>2, <2>1, <3>1 DEF Over
  <2>2. CASE t.for = x /\ kind[x] # "own"
    BY <1>2, <1>3, <2>2 DEF UnderWay
  <2>3. CASE t.for # x
    <3>1. t.for \in Items /\ t.for # 0
      BY SigningAssumption DEF Control, TypeOK, Transaction, Items
    <3> QED
      BY <1>1, <1>2, <1>3, <1>4, <2>3, <3>1, WhereaboutsKept
  <2> QED
    BY <2>1, <2>2, <2>3
<1>5. ASSUME NEW q \in Procs, op'[q].at = "consume", Paying(op[q])' PROVE Calls(op'[q].for) # {}
  <2>1. op'[q] = op[q] /\ Paying(op[q])
    BY <1>2, <1>3, <1>5 DEF Paying, Pays
  <2> QED
    BY <1>5, <2>1 DEF Payments
<1>6. \A r \in Items : Pays(r) => (record'[r] = "consumed" => Calls(r) # {})
  BY <1>2 DEF Payments, AnswersAreTrue
<1> QED
  BY <1>2, <1>4, <1>5, <1>6, PaymentsKept

\* The handler stops without recording what became of the payment.
LEMMA StoppedPayments ==
  ASSUME Control, Nonces, Payments, NEW p \in Procs, WriteFails(p) \/ Crash(p)
  PROVE  Payments'
<1>1. /\ UNCHANGED <<kind, record, wire, ledger, signed, activity, misheard>>
      /\ unrecorded \subseteq unrecorded' /\ Return(p)
  BY DEF WriteFails, Crash
<1>2. op[p].at \notin {"posted", "consume", "fail"} \/ ~Paying(op[p]) \/ op[p].for \in unrecorded'
  BY DEF WriteFails, Crash
<1> QED
  BY <1>1, <1>2, ReturnIdles, OnwardPayments

LEMMA FailedPayments ==
  ASSUME Control, Nonces, Payments, NEW p \in Procs, PersistFailed(p)
  PROVE  Payments'
<1> DEFINE x == op[p].for
<1>1. /\ op[p].at = "fail" /\ x \in Items /\ record' = [record EXCEPT ![x] = "failed"]
      /\ UNCHANGED <<kind, wire, ledger, signed, misheard, unrecorded, activity>>
  BY InHand DEF PersistFailed, Placed, RequestSteps, Requests
<1>2. \A q \in Procs : op[q].for = x => q = p
  BY <1>1, OneOnIt
<1>3. \A r \in Items : record'[r] = IF r = x THEN "failed" ELSE record[r]
  BY <1>1 DEF Control, TypeOK
<1>4. op'[p].at = "idle" /\ op'[p].for = 0 /\ \A q \in Procs \ {p} : op'[q] = op[q]
  BY ReturnIdles DEF PersistFailed
<1> HIDE DEF x
<1>5. x \in misheard \cup unrecorded \/ Calls(x) = {}
  BY <1>1, <1>2, NoCall DEF x
<1>6. ASSUME NEW t \in signed, Live(t), t.what = "call", t.for \notin unrecorded
      PROVE  UnderWay(t)' \/ Over(t)'
  <2>0. t.for \in Items /\ t.for # 0
    BY SigningAssumption DEF Control, TypeOK, Transaction, Items
  <2>1. CASE t.for = x
    <3>1. x \in misheard
      BY <1>1, <1>2, <1>6, <2>1 DEF Payments, UnderWay, Over, x
    <3>2. \A q \in Procs : op'[q].for # x
      BY <1>2, <1>4, <2>0, <2>1
    <3> QED
      BY <1>1, <1>3, <2>0, <2>1, <3>1, <3>2 DEF Over
  <2>2. CASE t.for # x
    BY <1>1, <1>3, <1>4, <1>6, <2>0, <2>2, WhereaboutsKept DEF x
  <2> QED
    BY <2>1, <2>2
<1>7. ASSUME NEW q \in Procs, op'[q].at = "consume", Paying(op[q])' PROVE Calls(op'[q].for) # {}
  <2>1. op'[q] = op[q] /\ Paying(op[q])
    BY <1>1, <1>4, <1>7 DEF Paying, Pays
  <2> QED
    BY <1>7, <2>1 DEF Payments
<1>8. ASSUME NEW r \in Items, Pays(r)
      PROVE  /\ record'[r] = "consumed" => Calls(r) # {}
             /\ record'[r] = "failed" =>
                  r \in misheard \cup unrecorded \/ Calls(r) = {} \/ record'[r] = record[r]
             /\ record'[r] = "rejected" => record'[r] = record[r]
  BY <1>3, <1>5, <1>8 DEF Payments, AnswersAreTrue
<1> QED
  BY <1>1, <1>6, <1>7, <1>8, PaymentsKept

LEMMA ConsumedPayments ==
  ASSUME Control, Nonces, Payments, NEW p \in Procs, PersistConsumed(p)
  PROVE  Payments'
<1> DEFINE x == op[p].for
<1>1. /\ op[p].at = "consume" /\ x \in Items /\ x \in Requests
      /\ record' = [record EXCEPT ![x] = "consumed"]
      /\ UNCHANGED <<kind, wire, ledger, signed, misheard, unrecorded, activity>>
  BY InHand DEF PersistConsumed, Placed, RequestSteps, Requests
<1>2. \A r \in Items : record'[r] = IF r = x THEN "consumed" ELSE record[r]
  BY <1>1 DEF Control, TypeOK
<1>3. /\ \A q \in Procs \ {p} : op'[q] = op[q] /\ op'[q].for # x
      /\ op'[p].at \in {"idle", "grant", "finish"}
      /\ op'[p].for \in {0, x} /\ (Pays(x) => op'[p].for = 0)
  BY <1>1, ReturnIdles, GotoHand, OneOnIt DEF PersistConsumed, Pays, Steps
<1> HIDE DEF x
<1>4. CASE ~Pays(x)
  BY <1>1, <1>2, <1>3, <1>4, OnwardPayments DEF Paying, x
<1>5. CASE Pays(x)
  <2>1. ASSUME NEW t \in signed, Live(t), t.what = "call", t.for \notin unrecorded
        PROVE  UnderWay(t)' \/ Over(t)'
    <3>1. t.for \in Items /\ t.for # 0
      BY SigningAssumption DEF Control, TypeOK, Transaction, Items
    <3>2. CASE t.for = x
      <4>1. Accepted(t)
        BY <1>1, <2>1, <3>2, OneOnIt DEF Payments, UnderWay, Over, x
      <4>2. Accepted(t)'
        BY <1>1, <4>1 DEF Accepted
      <4> QED
        BY <1>2, <1>3, <1>5, <3>1, <3>2, <4>2 DEF Over
    <3>3. CASE t.for # x
      BY <1>1, <1>2, <1>3, <2>1, <3>1, <3>3, WhereaboutsKept DEF x
    <3> QED
      BY <3>2, <3>3
  <2>2. ASSUME NEW q \in Procs, op'[q].at = "consume", Paying(op[q])' PROVE Calls(op'[q].for) # {}
    <3>1. op'[q] = op[q] /\ Paying(op[q])
      BY <1>1, <1>3, <2>2 DEF Paying, Pays
    <3> QED
      BY <2>2, <3>1 DEF Payments
  <2>3. Calls(x) # {}
    BY <1>1, <1>5, SigningAssumption DEF Payments, Paying, Items, x
  <2>4. ASSUME NEW r \in Items, Pays(r)
        PROVE  /\ record'[r] = "consumed" => Calls(r) # {}
               /\ record'[r] \in {"failed", "rejected"} => record'[r] = record[r]
    BY <1>2, <2>3, <2>4 DEF Payments, AnswersAreTrue
  <2> QED
    BY <1>1, <2>1, <2>2, <2>4, PaymentsKept
<1> QED
  BY <1>4, <1>5

LEMMA SwitchPayments ==
  ASSUME Control, Nonces, Payments, NEW p \in Procs,
         ReadActiveChain(p) \/ WriteJournal(p) \/ SetChain(p) \/ FinishSwitch(p)
  PROVE  Payments'
<1> USE InHand
<1>1. ASSUME UNCHANGED <<kind, record, wire, ledger, signed, misheard, unrecorded, activity>>,
             \A q \in Procs \ {p} : op'[q] = op[q],
             op[p].at \notin {"posted", "consume", "fail", "check"}, op'[p].for \in {0, op[p].for},
             op'[p].at = "consume" => kind[op'[p].for] = "switch"
      PROVE  Payments'
  <2>1. op'[p].at = "consume" => ~Paying(op[p])'
    BY <1>1 DEF Paying, Pays
  <2> QED
    BY <1>1, <2>1, OnwardPayments
<1>2. CASE ReadActiveChain(p)
  <2>1. /\ op'[p].at \in {"account", "fail"} /\ op'[p].for = op[p].for
        /\ \A q \in Procs \ {p} : op'[q] = op[q]
    BY <1>2 DEF ReadActiveChain, Op, Control, TypeOK
  <2> QED
    BY <1>1, <1>2, <2>1 DEF ReadActiveChain
<1>3. CASE WriteJournal(p) \/ SetChain(p)
  BY <1>1, <1>3, GotoHand DEF WriteJournal, SetChain, Steps, Placed, SwitchSteps
<1>4. CASE FinishSwitch(p)
  BY <1>1, <1>4, ReturnIdles DEF FinishSwitch
<1> QED
  BY <1>2, <1>3, <1>4

LEMMA DeliverPayments ==
  ASSUME Control, Nonces, Payments, NEW tx \in wire, Deliver(tx)
  PROVE  Payments'
<1>1. /\ tx \in signed /\ UNCHANGED <<kind, record, op, signed, misheard, unrecorded, activity>>
      /\ wire' = wire \ {tx} /\ ledger \in Seq(Transaction) /\ tx \in Transaction
      /\ ledger' \in {ledger, Append(ledger, tx)}
  BY DEF Deliver, Nonces, Control, TypeOK
<1>2. /\ \A i \in DOMAIN ledger : i \in DOMAIN ledger' /\ ledger'[i] = ledger[i]
      /\ \A i \in DOMAIN ledger' \ DOMAIN ledger : ledger'[i] = tx
  BY <1>1
<1>3. \A t : (Live(t)' => Live(t)) /\ (Accepted(t) => Accepted(t)')
  BY <1>1, <1>2 DEF Live, Accepted
<1>4. \A x : (Pays(x) <=> Pays(x)') /\ (Calls(x) # {} => Calls(x)' # {})
  BY <1>1, <1>2 DEF Pays, Calls
<1>5. \A t : (UnderWay(t) => UnderWay(t)') /\ (Over(t) => Over(t)')
  BY <1>1, <1>3 DEF UnderWay, Over, PostedBy
<1>6. ASSUME NEW r \in Items, Pays(r), r \notin unrecorded,
             record[r] = "rejected" \/ (record[r] = "failed" /\ r \notin misheard)
      PROVE  Calls(r)' = {}
  <2>1. Calls(r) = {}
    BY <1>6 DEF Payments, AnswersAreTrue
  <2>2. ASSUME tx.for = r, tx.what = "call" PROVE FALSE
    <3>1. UnderWay(tx)
      BY <1>1, <1>6, <2>2 DEF Payments, Live, Over
    <3>2. PICK q \in Procs : op[q].for = r /\ op[q].at \in {"posted", "consume", "fail"}
      BY <2>2, <3>1 DEF UnderWay
    <3> QED
      BY <1>6, <3>2, InHand DEF Undecided, Control, Sorted
  <2> QED
    BY <1>1, <1>2, <2>1, <2>2 DEF Calls
<1>7. AnswersAreTrue'
  BY <1>1, <1>4, <1>6 DEF Payments, AnswersAreTrue
<1>8. ASSUME NEW q \in Procs, op'[q].at = "consume", Paying(op[q])' PROVE Calls(op[q].for)' # {}
  BY <1>1, <1>4, <1>8 DEF Payments, Paying
<1> QED
  BY <1>1, <1>3, <1>4, <1>5, <1>7, <1>8 DEF Payments

LEMMA EnvironmentPayments ==
  ASSUME Control, Nonces, Payments,
         \/ \E r \in Items : Expire(r) \/ DecideClaimed(r) \/ ScanReads(r) \/ ScanWrites(r)
         \/ (\E tx \in wire : Deliver(tx)) \/ Execute
         \/ RecoverChain \/ SwitchChain \/ FindDeleted \/ ReplaceDeleted \/ Disconnect
         \/ UNCHANGED vars
  PROVE  Payments'
<1> USE ChainAssumption
<1>1. ASSUME UNCHANGED <<kind, record, wire, ledger, op, signed, misheard, unrecorded, activity>>
      PROVE  Payments'
  BY <1>1, OnwardPayments
<1>2. ASSUME NEW r \in Items, DecideClaimed(r) PROVE Payments'
  <2>1. \A q \in Procs : op[q].for # r
    BY <1>2, InHand DEF DecideClaimed, Holding, Control, Sorted
  <2>2. r \in unrecorded \/ Calls(r) = {}
    BY <1>2, <2>1, NoCall DEF DecideClaimed
  <2>3. \A x \in Items : \/ record'[x] = record[x]
                         \/ x = r /\ record[x] = "pending" /\ record'[x] \in {"expired", "rejected"}
    BY <1>2 DEF DecideClaimed, Control, TypeOK
  <2> QED
    BY <1>2, <2>2, <2>3, OnwardPayments DEF DecideClaimed
<1>3. ASSUME NEW r \in Items, ScanWrites(r) PROVE Payments'
  <2>1. \A x \in Items : record'[x] \in {record[x], "expired"}
    BY <1>3 DEF ScanWrites, Control, TypeOK
  <2> QED
    BY <1>3, <2>1, OnwardPayments DEF ScanWrites
<1> QED
  BY <1>1, <1>2, <1>3, DeliverPayments
     DEF Expire, ScanReads, Execute, RecoverChain, SwitchChain, FindDeleted, ReplaceDeleted,
         Disconnect, vars

LEMMA StepPayments == Control /\ Nonces /\ Payments /\ [Next]_vars => Payments'
<1> USE QuietApproval, QuietRest, QuietPayments
<1>1. ASSUME Control, Nonces, Payments, NEW p \in Procs, ReadNonce(p) PROVE Payments'
  <2>1. /\ UNCHANGED <<kind, record, wire, ledger, signed, misheard, unrecorded, activity>>
        /\ op[p].at = "nonce" /\ op'[p].at = "resolve" /\ op'[p].for = op[p].for
        /\ \A q \in Procs \ {p} : op'[q] = op[q]
    BY <1>1 DEF ReadNonce, Proceed, Op, Control, TypeOK
  <2> QED
    BY <1>1, <2>1, OnwardPayments
<1>2. ASSUME Control, Nonces, Payments, NEW p \in Procs, Start(p) \/ Wait(p) PROVE Payments'
  BY <1>2, SwitchPayments DEF Start, Wait
<1>3. ASSUME Control, Nonces, Payments, NEW p \in Procs, Continue(p) PROVE Payments'
  BY <1>1, <1>3, SignPayments, AcceptedPayments, OtherAnswerPayments, MisheardPayments,
     FailedPayments, ConsumedPayments, SwitchPayments DEF Continue
<1>4. ASSUME Control, Nonces, Payments, NEW p \in Procs,
             Cancel(p) \/ RPCFails(p) \/ LoseAnswer(p) \/ WriteFails(p) \/ Crash(p)
      PROVE  Payments'
  BY <1>4, MisheardPayments, StoppedPayments
<1> QED
  BY <1>2, <1>3, <1>4, EnvironmentPayments DEF Next

LEMMA PaymentInvariant == Spec => []Payments
<1>1. Init => Payments
  BY DEF Init, Payments, AnswersAreTrue, Idle, Requests, Pays
<1> QED
  BY <1>1, StepPayments, ControlInvariant, NonceInvariant, PTL DEF Spec

\* A payment reaches the chain once, also one that the node refused or answered wrongly, and one
\* whose answer was lost; unless its handler died after it had signed, or could not write the
\* record (WalletService.swift: sendTransaction, broadcast, approve, approveBatch).
THEOREM APaymentIsMadeOnce == Spec => []PaidOnce
<1>1. Nonces /\ Payments => PaidOnce
  <2> SUFFICES ASSUME Nonces, Payments, NEW x \in Items \ unrecorded,
                      NEW i \in Calls(x), NEW j \in Calls(x)
               PROVE  i = j
    BY DEF PaidOnce
  <2>1. ledger[i] = ledger[j]
    BY CallsAreLive DEF Payments
  <2>2. ledger[i].nonce + 1 = i /\ ledger[j].nonce + 1 = j
    BY CallsAreLive
  <2> QED
    BY <2>1, <2>2
<1> QED
  BY <1>1, NonceInvariant, PaymentInvariant, PTL

\* What a site and the activity list are told: consumed means that the node accepted the payment.
\* Failed means that it did not only where the node answered plainly: a lost or mistaken answer is
\* written as failed for a payment that may have been accepted, and so is one that an earlier
\* handler had signed when it died.  Rejected means that it did not, but for that last case
\* (PendingWalletRequest.swift, WalletService.swift).
THEOREM ASiteHearsTheTruth == Spec => []AnswersAreTrue
<1>1. Payments => AnswersAreTrue
  BY DEF Payments
<1> QED
  BY <1>1, PaymentInvariant, PTL

-----------------------------------------------------------------------------
(* The locks, from their other side: who has one is at a step that needs it, *)
(* so a lock is never left behind and nobody waits for one that waits.       *)

LateSteps == {"disconnect", "remove"}

\* A handler at "o" may have these locks and no other.
Needs(q, o) ==
  /\ \A r \in Items : claim[r] = q => o.for = r
  /\ groupLock = q => o.at \in RemovalSteps \cup {"authenticate"}
  /\ submission = q => Paying(o)
  /\ switchLock = q => Switching(o)

LocksAreNeeded == \A q \in Procs : Needs(q, op[q])

\* What a step of "p" outside the removal of the group does to it.
Leaves(p) ==
  /\ UNCHANGED <<kind, lifecycle, secret>> /\ connected' \in {connected, connected \/ lifecycle = "active"}
  /\ op'[p].at \notin LateSteps
  /\ \A q \in Procs \ {p} :
       /\ op'[q] = op[q]
       /\ \A r \in Items : claim'[r] = q => claim[r] = q
       /\ groupLock' = q => groupLock = q
       /\ submission' = q => submission = q
       /\ switchLock' = q => switchLock = q
  /\ Needs(p, op[p])'

LEMMA ReturnLeaves ==
  ASSUME Control, NEW p \in Procs, Return(p), kind' = kind,
         UNCHANGED <<lifecycle, secret>>, connected' \in {connected, connected \/ lifecycle = "active"}
  PROVE  Leaves(p)
<1> USE InHand, ChainAssumption
<1>1. op'[p].at \notin LateSteps /\ \A q \in Procs \ {p} : op'[q] = op[q]
  BY ReturnIdles DEF LateSteps
<1>2. /\ \A r \in Items : claim'[r] = IF claim[r] = p THEN NoProc ELSE claim[r]
      /\ groupLock' = (IF groupLock = p THEN NoProc ELSE groupLock)
      /\ submission' = (IF submission = p THEN NoProc ELSE submission)
      /\ switchLock' = (IF switchLock = p THEN NoProc ELSE switchLock)
  BY DEF Return, Release, ReleasedSwitch
<1> QED
  BY <1>1, <1>2 DEF Leaves, Needs

\* The handler goes on with the locks it has.
LEMMA OnLeaves ==
  ASSUME Control, NEW p \in Procs, Needs(p, op[p]), op[p].at \notin RemovalSteps,
         UNCHANGED <<kind, lockVars, lifecycle, secret, connected>>,
         \A q \in Procs \ {p} : op'[q] = op[q],
         op'[p].for = op[p].for, op[p].at # "authenticate",
         op'[p].at \notin LateSteps \cup {"authenticate"},
         Switching(op[p]) => Switching(op[p])'
  PROVE  Leaves(p)
<1>1. Needs(p, op[p])'
  BY DEF Needs, Paying, Pays
<1> QED
  BY <1>1 DEF Leaves

LEMMA ThrowLeaves ==
  ASSUME Control, NEW p \in Procs, Throw(p)
  PROVE  Leaves(p)
BY ReturnLeaves DEF Throw

LEMMA ProceedLeaves ==
  ASSUME Control, NEW p \in Procs, Needs(p, op[p]), NEW o, Proceed(p, o),
         op[p].at \notin RemovalSteps \cup {"authenticate"},
         o.for = op[p].for, o.at \notin LateSteps \cup {"authenticate"},
         Switching(op[p]) => Switching(o)
  PROVE  Leaves(p)
<1>1. op'[p] = o /\ \A q \in Procs \ {p} : op'[q] = op[q]
  BY DEF Proceed, Control, TypeOK
<1>2. Switching(op[p])' <=> Switching(o)
  BY <1>1 DEF Proceed, Switching
<1> QED
  BY <1>1, <1>2, OnLeaves DEF Proceed

LEMMA RefuseLeaves ==
  ASSUME Control, NEW p \in Procs, Needs(p, op[p]), Refuse(p),
         op[p].at \in PaymentSteps
  PROVE  Leaves(p)
<1>1. [op[p] EXCEPT !.at = "fail"].at = "fail" /\ [op[p] EXCEPT !.at = "fail"].for = op[p].for
  BY InHand DEF Op
<1>2. ~Switching(op[p])
  BY DEF Switching, PaymentSteps
<1> QED
  BY <1>1, <1>2, ThrowLeaves, ProceedLeaves DEF Refuse, PaymentSteps, RemovalSteps, LateSteps

LEMMA ApprovalLeaves ==
  ASSUME Control, NEW p \in Procs, Needs(p, op[p]),
         \/ \E r \in Items : BeginApproval(p, r) \/ BeginOwnTransaction(p, r)
         \/ CheckRecord(p) \/ ReadActiveChain(p) \/ CheckAccount(p) \/ LockSubmission(p)
         \/ ReadCode(p) \/ ReadNonce(p) \/ RPCFails(p) \/ ResolveAccount(p)
  PROVE  Leaves(p)
<1> USE InHand DEF LateSteps
<1>0. op \in [Procs -> Op] /\ claim \in [Items -> Procs \cup {NoProc}]
  BY DEF Control, TypeOK
<1>1. ASSUME NEW r \in Items, BeginApproval(p, r) PROVE Leaves(p)
  <2>1. op'[p].at = "check" /\ op'[p].for = r /\ \A q \in Procs \ {p} : op'[q] = op[q]
    BY <1>0, <1>1 DEF BeginApproval, Idle
  <2>2. op[p].for = 0 /\ op[p].at = "idle"
    <3>1. op[p] = Idle
      BY <1>1 DEF BeginApproval
    <3> QED
      BY <3>1 DEF Idle
  <2>3. Needs(p, op[p])'
    BY <1>0, <1>1, <2>1, <2>2 DEF BeginApproval, Needs, Paying, Switching, RemovalSteps
  <2> QED
    BY <1>0, <1>1, <2>1, <2>3 DEF BeginApproval, Leaves
<1>2. ASSUME NEW x \in Items, BeginOwnTransaction(p, x) PROVE Leaves(p)
  <2>1. op'[p].at = "lock" /\ op'[p].for = x /\ \A q \in Procs \ {p} : op'[q] = op[q]
    BY <1>0, <1>2 DEF BeginOwnTransaction, Idle
  <2>2. op[p].for = 0 /\ op[p].at = "idle"
    <3>1. op[p] = Idle
      BY <1>2 DEF BeginOwnTransaction
    <3> QED
      BY <3>1 DEF Idle
  <2>3. Needs(p, op[p])'
    BY <1>2, <2>1, <2>2 DEF BeginOwnTransaction, Needs, Paying, Switching, RemovalSteps
  <2> QED
    BY <1>2, <2>1, <2>3 DEF BeginOwnTransaction, Leaves
<1>3. CASE CheckRecord(p)
  <2>1. CASE Return(p)
    BY <1>3, <2>1, ReturnLeaves DEF CheckRecord
  <2>2. CASE Goto(p, "chain") /\ UNCHANGED lockVars
    <3>1. op'[p].at = "chain" /\ op'[p].for = op[p].for /\ \A q \in Procs \ {p} : op'[q] = op[q]
      BY <2>2, GotoHand DEF Steps
    <3> QED
      BY <1>3, <2>2, <3>1, OnLeaves DEF CheckRecord, Switching, RemovalSteps
  <2> QED
    BY <1>3, <2>1, <2>2 DEF CheckRecord
<1>4. CASE ReadActiveChain(p)
  <2>1. /\ op'[p].at \in {"account", "fail"} /\ op'[p].for = op[p].for
        /\ \A q \in Procs \ {p} : op'[q] = op[q]
    BY <1>0, <1>4 DEF ReadActiveChain, Op
  <2> QED
    BY <1>4, <2>1, OnLeaves DEF ReadActiveChain, Switching, RemovalSteps
<1>5. CASE LockSubmission(p)
  <2>1. CASE submission = NoProc
    <3>1. /\ op'[p].at \in {"code", "nonce"} /\ op'[p].for = op[p].for
          /\ \A q \in Procs \ {p} : op'[q] = op[q]
      BY <1>0, <1>5, <2>1 DEF LockSubmission, AfterLock, Op
    <3>2. Paying(op[p])'
      BY <1>5, <2>1, <3>1 DEF LockSubmission, Placed, PaymentSteps, Paying, Pays
    <3>3. Needs(p, op[p])'
      BY <1>5, <2>1, <3>1, <3>2 DEF LockSubmission, Needs, Switching, RemovalSteps
    <3> QED
      BY <1>5, <2>1, <3>1, <3>3 DEF LockSubmission, Leaves
  <2> QED
    BY <1>5, <2>1, ThrowLeaves DEF LockSubmission
<1>7. CASE CheckAccount(p)
  BY <1>7, ProceedLeaves DEF CheckAccount, Op, Switching, RemovalSteps
<1>8. CASE ReadCode(p)
  BY <1>8, ProceedLeaves DEF ReadCode, Op, Switching, RemovalSteps
<1>9. CASE ReadNonce(p)
  BY <1>9, ProceedLeaves DEF ReadNonce, Op, Switching, RemovalSteps
<1>10. CASE RPCFails(p)
  BY <1>10, ThrowLeaves, RefuseLeaves DEF RPCFails, PaymentSteps
<1>11. CASE ResolveAccount(p)
  BY <1>11, ThrowLeaves, ProceedLeaves DEF ResolveAccount, Op, Switching, RemovalSteps
<1> QED
  BY <1>1, <1>2, <1>3, <1>4, <1>5, <1>7, <1>8, <1>9, <1>10, <1>11

LEMMA KeyLeaves ==
  ASSUME Control, NEW p \in Procs, Needs(p, op[p]), EnterGroup(p) \/ Cancel(p) \/ Sign(p)
  PROVE  Leaves(p)
<1> USE InHand DEF LateSteps
<1>1. CASE EnterGroup(p)
  <2>1. CASE Usable
    <3>1. /\ op'[p].at = "authenticate" /\ op'[p].for = op[p].for
          /\ \A q \in Procs \ {p} : op'[q] = op[q]
      BY <1>1, <2>1, GotoHand DEF EnterGroup, Steps
    <3>2. Needs(p, op[p])'
      BY <1>1, <2>1, <3>1 DEF EnterGroup, Needs, Switching, Paying, Pays
    <3> QED
      BY <1>1, <2>1, <3>1, <3>2 DEF EnterGroup, Leaves
  <2> QED
    BY <1>1, <2>1, ThrowLeaves DEF EnterGroup
<1>2. CASE Cancel(p)
  BY <1>2, ThrowLeaves DEF Cancel
<1>3. CASE Sign(p)
  <2>1. /\ op'[p].at \in {"posted", "resolve", "consume"} /\ op'[p].for = op[p].for
        /\ \A q \in Procs \ {p} : op'[q] = op[q]
    BY <1>3 DEF Sign, Goto, Op, Control, TypeOK
  <2>2. Needs(p, op[p])'
    BY <1>3, <2>1, ChainAssumption DEF Sign, Needs, Switching, Paying, Pays
  <2> QED
    BY <1>3, <2>1, <2>2, ChainAssumption DEF Sign, Leaves
<1> QED
  BY <1>1, <1>2, <1>3

LEMMA ResultLeaves ==
  ASSUME Control, NEW p \in Procs, Needs(p, op[p]),
         \/ Answer(p) \/ LoseAnswer(p) \/ Misanswer(p) \/ Receipt(p) \/ NoReceipt(p)
         \/ PersistFailed(p) \/ PersistConsumed(p) \/ WriteFails(p) \/ Grant(p)
  PROVE  Leaves(p)
<1> USE InHand DEF LateSteps
<1>1. CASE Answer(p)
  <2>1. CASE Accepted(PostedBy(op[p])) /\ PostedBy(op[p]).what # "deploy"
    <3>1. CASE Return(p)
      BY <1>1, <2>1, <3>1, ReturnLeaves DEF Answer
    <3>2. CASE Goto(p, "consume") /\ UNCHANGED lockVars
      <4>1. /\ op'[p].at = "consume" /\ op'[p].for = op[p].for
            /\ \A q \in Procs \ {p} : op'[q] = op[q]
        BY <3>2, GotoHand DEF Steps
      <4> QED
        BY <1>1, <2>1, <3>2, <4>1, OnLeaves DEF Answer, Switching, RemovalSteps
    <3> QED
      BY <1>1, <2>1, <3>1, <3>2 DEF Answer
  <2>2. CASE Accepted(PostedBy(op[p])) /\ PostedBy(op[p]).what = "deploy"
    BY <1>1, <2>2, ProceedLeaves DEF Answer, Op, Switching, RemovalSteps
  <2> QED
    BY <1>1, <2>1, <2>2, RefuseLeaves DEF Answer, PaymentSteps
<1>2. CASE LoseAnswer(p) \/ Misanswer(p)
  <2>0. op[p].at = "posted" /\ TakeAsFailed(p)
    BY <1>2 DEF LoseAnswer, Misanswer
  <2>1. CASE Return(p)
    BY <2>0, <2>1, ReturnLeaves DEF TakeAsFailed
  <2>2. CASE Goto(p, "fail") /\ UNCHANGED lockVars
    <3>1. op'[p].at = "fail" /\ op'[p].for = op[p].for /\ \A q \in Procs \ {p} : op'[q] = op[q]
      BY <2>2, GotoHand DEF Steps
    <3> QED
      BY <2>0, <2>2, <3>1, OnLeaves DEF TakeAsFailed, Switching, RemovalSteps
  <2> QED
    BY <2>0, <2>1, <2>2 DEF TakeAsFailed
<1>3. CASE Receipt(p)
  BY <1>3, ProceedLeaves DEF Receipt, Op, Switching, RemovalSteps
<1>4. CASE NoReceipt(p)
  BY <1>4, RefuseLeaves DEF NoReceipt, PaymentSteps
<1>5. CASE PersistFailed(p)
  BY <1>5, ReturnLeaves DEF PersistFailed
<1>6. CASE PersistConsumed(p)
  <2>1. CASE Return(p)
    BY <1>6, <2>1, ReturnLeaves DEF PersistConsumed
  <2>2. ASSUME NEW step \in {"grant", "finish"}, Goto(p, step), UNCHANGED lockVars,
               kind[op[p].for] = IF step = "grant" THEN "siwe" ELSE "switch"
        PROVE  Leaves(p)
    <3>1. op'[p].at = step /\ op'[p].for = op[p].for /\ \A q \in Procs \ {p} : op'[q] = op[q]
      BY <2>2, GotoHand DEF Steps
    <3> QED
      BY <1>6, <2>2, <3>1, OnLeaves DEF PersistConsumed, Switching, RemovalSteps
  <2> QED
    BY <1>6, <2>1, <2>2 DEF PersistConsumed
<1>7. CASE WriteFails(p)
  BY <1>7, ReturnLeaves DEF WriteFails
<1>8. CASE Grant(p)
  BY <1>8, ReturnLeaves DEF Grant
<1> QED
  BY <1>1, <1>2, <1>3, <1>4, <1>5, <1>6, <1>7, <1>8

LEMMA SwitchLeaves ==
  ASSUME Control, NEW p \in Procs, Needs(p, op[p]),
         \/ ClaimChainSwitch(p) \/ WriteJournal(p) \/ SetChain(p) \/ FinishSwitch(p) \/ Crash(p)
  PROVE  Leaves(p)
<1> USE InHand DEF LateSteps
<1>1. CASE ClaimChainSwitch(p)
  <2>1. CASE switchLock = NoProc
    <3>1. op'[p].at = "journal" /\ op'[p].for = op[p].for /\ \A q \in Procs \ {p} : op'[q] = op[q]
      BY <1>1, <2>1, GotoHand DEF ClaimChainSwitch, Steps
    <3>2. Needs(p, op[p])'
      BY <1>1, <2>1, <3>1 DEF ClaimChainSwitch, Needs, Switching, Paying, Pays, RemovalSteps
    <3> QED
      BY <1>1, <2>1, <3>1, <3>2 DEF ClaimChainSwitch, Leaves
  <2> QED
    BY <1>1, <2>1, ThrowLeaves DEF ClaimChainSwitch
<1>2. CASE WriteJournal(p)
  <2>1. op'[p].at = "setChain" /\ op'[p].for = op[p].for /\ \A q \in Procs \ {p} : op'[q] = op[q]
    BY <1>2, GotoHand DEF WriteJournal, Steps
  <2>2. switchLock' = switchLock
    BY <1>2 DEF WriteJournal, BeginSwitch
  <2> QED
    BY <1>2, <2>1, <2>2, OnLeaves DEF WriteJournal, Switching, RemovalSteps
<1>3. CASE SetChain(p)
  <2>1. op'[p].at = "consume" /\ op'[p].for = op[p].for /\ \A q \in Procs \ {p} : op'[q] = op[q]
    BY <1>3, GotoHand DEF SetChain, Steps
  <2>2. kind[op[p].for] = "switch"
    BY <1>3 DEF SetChain, Placed, SwitchSteps
  <2> QED
    BY <1>3, <2>1, <2>2, OnLeaves DEF SetChain, Switching, RemovalSteps
<1>4. CASE FinishSwitch(p)
  BY <1>4, ReturnLeaves DEF FinishSwitch
<1>5. CASE Crash(p)
  BY <1>5, ReturnLeaves DEF Crash
<1> QED
  BY <1>1, <1>2, <1>3, <1>4, <1>5

LEMMA GroupLeaves ==
  ASSUME Control, NEW p \in Procs, Needs(p, op[p]),
         BeginRemoval(p) \/ ListRequests(p) \/ TerminateRequest(p)
  PROVE  Leaves(p)
<1> USE InHand DEF LateSteps
<1>1. CASE BeginRemoval(p)
  <2>1. op'[p].at = "mark" /\ op'[p].for = 0 /\ \A q \in Procs \ {p} : op'[q] = op[q]
    BY <1>1 DEF BeginRemoval, Idle, Control, TypeOK
  <2>2. op[p].for = 0 /\ op[p].at = "idle"
    <3>1. op[p] = Idle
      BY <1>1 DEF BeginRemoval
    <3> QED
      BY <3>1 DEF Idle
  <2>3. Needs(p, op[p])'
    BY <1>1, <2>1, <2>2 DEF BeginRemoval, Needs, Switching, Paying, Pays, RemovalSteps
  <2> QED
    BY <1>1, <2>1, <2>3 DEF BeginRemoval, Leaves
<1>2. ASSUME UNCHANGED <<kind, lockVars, accountVars>>, op[p].at \in RemovalSteps,
             op'[p].at = "terminate", op'[p].for = op[p].for,
             \A q \in Procs \ {p} : op'[q] = op[q]
      PROVE  Leaves(p)
  <2>1. Needs(p, op[p])'
    BY <1>2 DEF Needs, Switching, Paying, Pays, RemovalSteps
  <2> QED
    BY <1>2, <2>1 DEF Leaves
<1>3. CASE ListRequests(p)
  <2>1. /\ op'[p].at = "terminate" /\ op'[p].for = op[p].for
        /\ \A q \in Procs \ {p} : op'[q] = op[q]
    BY <1>3 DEF ListRequests, Op, Control, TypeOK
  <2> QED
    BY <1>2, <1>3, <2>1 DEF ListRequests, RemovalSteps
<1>4. CASE TerminateRequest(p)
  <2> DEFINE r == CHOOSE q \in op[p].todo : \A s \in op[p].todo : q <= s
  <2>1. CASE claim[r] = NoProc
    <3>1. /\ op'[p].at = "terminate" /\ op'[p].for = op[p].for
          /\ \A q \in Procs \ {p} : op'[q] = op[q]
      BY <1>4, <2>1 DEF TerminateRequest, Op, Control, TypeOK
    <3>2. op[p].at \in RemovalSteps /\ UNCHANGED <<kind, lockVars, accountVars>>
      BY <1>4, <2>1 DEF TerminateRequest, RemovalSteps
    <3> QED
      BY <1>2, <3>1, <3>2
  <2> QED
    BY <1>4, <2>1, ThrowLeaves DEF TerminateRequest
<1> QED
  BY <1>1, <1>3, <1>4

\* Every step of a handler is one of these four, or leaves the group as it is.
LEMMA HandlerLeaves ==
  ASSUME Control, NEW p \in Procs, Needs(p, op[p]),
         \/ Start(p) \/ Wait(p) \/ Continue(p) \/ Cancel(p) \/ RPCFails(p)
         \/ LoseAnswer(p) \/ WriteFails(p) \/ Crash(p)
  PROVE  \/ MarkDeleting(p) \/ ForgetSecret(p) \/ RemoveConnections(p) \/ RemoveGroup(p)
         \/ Leaves(p)
BY ApprovalLeaves, KeyLeaves, ResultLeaves, SwitchLeaves, GroupLeaves DEF Start, Wait, Continue

LEMMA EnvironmentLeaves ==
  ASSUME \/ \E r \in Items : Expire(r) \/ DecideClaimed(r) \/ ScanReads(r) \/ ScanWrites(r)
         \/ (\E tx \in wire : Deliver(tx)) \/ Execute
         \/ RecoverChain \/ SwitchChain \/ FindDeleted \/ ReplaceDeleted \/ Disconnect
         \/ UNCHANGED vars
  PROVE  UNCHANGED <<op, lockVars, kind, lifecycle, secret>> /\ connected' \in {connected, FALSE}
BY DEF Expire, DecideClaimed, ScanReads, ScanWrites, Deliver, Execute, RecoverChain, SwitchChain,
       FindDeleted, FindActive, ReplaceDeleted, ReplaceActive, Disconnect, vars

LEMMA RemovalLocks ==
  ASSUME Control, LocksAreNeeded, NEW p \in Procs,
         MarkDeleting(p) \/ ForgetSecret(p) \/ RemoveConnections(p) \/ RemoveGroup(p)
  PROVE  LocksAreNeeded'
<1> USE InHand
<1>1. ASSUME NEW step \in {"list", "disconnect", "remove"}, Goto(p, step),
             op[p].at \in RemovalSteps, UNCHANGED <<kind, lockVars>>
      PROVE  LocksAreNeeded'
  <2>1. op'[p].at = step /\ op'[p].for = op[p].for /\ \A q \in Procs \ {p} : op'[q] = op[q]
    BY <1>1, GotoHand DEF Steps
  <2>2. ASSUME NEW q \in Procs PROVE Needs(q, op[q])'
    BY <1>1, <2>1 DEF LocksAreNeeded, Needs, Switching, Paying, Pays, RemovalSteps
  <2> QED
    BY <2>2 DEF LocksAreNeeded
<1>2. CASE RemoveGroup(p)
  <2>1. ASSUME NEW q \in Procs PROVE Needs(q, op[q])'
    <3>1. /\ Needs(q, op[q]) /\ kind' = kind /\ op' = [op EXCEPT ![p] = Idle] /\ p # NoProc
          /\ q # NoProc /\ op \in [Procs -> Op]
      BY <1>2, ChainAssumption DEF LocksAreNeeded, RemoveGroup, Return, Control, TypeOK
    <3>2. /\ \A r \in Items : claim'[r] = IF claim[r] = p THEN NoProc ELSE claim[r]
          /\ groupLock' = (IF groupLock = p THEN NoProc ELSE groupLock)
          /\ submission' = (IF submission = p THEN NoProc ELSE submission)
          /\ switchLock' = (IF switchLock = p THEN NoProc ELSE switchLock)
      BY <1>2 DEF RemoveGroup, Return, Release, ReleasedSwitch
    <3> QED
      BY <3>1, <3>2 DEF Needs, Switching, Paying, Pays
  <2> QED
    BY <2>1 DEF LocksAreNeeded
<1> QED
  BY <1>1, <1>2 DEF MarkDeleting, ForgetSecret, RemoveConnections, RemovalSteps

LEMMA StepLocks == Control /\ LocksAreNeeded /\ [Next]_vars => LocksAreNeeded'
<1> SUFFICES ASSUME Control, LocksAreNeeded, [Next]_vars PROVE LocksAreNeeded'
  OBVIOUS
<1>1. ASSUME NEW p \in Procs, Leaves(p) PROVE LocksAreNeeded'
  <2>1. ASSUME NEW q \in Procs \ {p} PROVE Needs(q, op[q])'
    BY <1>1, <2>1 DEF Leaves, LocksAreNeeded, Needs, Switching, Paying, Pays
  <2> QED
    BY <1>1, <2>1 DEF Leaves, LocksAreNeeded
<1>2. ASSUME NEW p \in Procs,
             \/ Start(p) \/ Wait(p) \/ Continue(p) \/ Cancel(p) \/ RPCFails(p)
             \/ LoseAnswer(p) \/ WriteFails(p) \/ Crash(p)
      PROVE  LocksAreNeeded'
  BY <1>1, <1>2, HandlerLeaves, RemovalLocks DEF LocksAreNeeded
<1>3. ASSUME UNCHANGED <<op, lockVars, kind>> PROVE LocksAreNeeded'
  BY <1>3 DEF LocksAreNeeded, Needs, Switching, Paying, Pays
<1> QED
  BY <1>2, <1>3, EnvironmentLeaves DEF Next

LEMMA LocksInvariant == Spec => []LocksAreNeeded
<1>1. Init => LocksAreNeeded
  BY ChainAssumption DEF Init, LocksAreNeeded, Needs
<1> QED
  BY <1>1, StepLocks, ControlInvariant, PTL DEF Spec

\* The flocks that handlers wait for are the group's and the chain's; the others they only try.
WaitsFor(p, q) ==
  \/ op[p].at = "group" /\ groupLock = q
  \/ op[p].at = "chain" /\ switchLock = q

HoldersGoOn ==
  \A p, q \in Procs : WaitsFor(p, q) => op[q] # Idle /\ ~\E r \in Procs : WaitsFor(q, r)

\* A handler waits only for one that is still at work and waits for nobody itself: approvals,
\* removals and switches never wait for each other in a circle, in however many processes, and no
\* lock is left behind by one that returned, threw or died (WalletService.swift,
\* WalletGroupManager.swift, ChainStore.swift).
THEOREM NobodyWaitsInACircle == Spec => []HoldersGoOn
<1>1. LocksAreNeeded => HoldersGoOn
  BY DEF LocksAreNeeded, Needs, HoldersGoOn, WaitsFor, Switching, RemovalSteps, Idle
<1> QED
  BY <1>1, LocksInvariant, PTL

-----------------------------------------------------------------------------
(* The removal as the rest of the wallet sees it.                            *)

\* Once the secret was deleted it is not there again.
Forgotten ==
  /\ lifecycle = "removed" => ~secret
  /\ \A p \in Procs : op[p].at \in LateSteps => ~secret

LEMMA StepForgotten == Control /\ LocksAreNeeded /\ Removal /\ Forgotten /\ [Next]_vars => Forgotten'
<1> SUFFICES ASSUME Control, LocksAreNeeded, Removal, Forgotten, [Next]_vars PROVE Forgotten'
  OBVIOUS
<1> USE DEF Forgotten, LateSteps
<1>1. ASSUME NEW p \in Procs, Leaves(p) PROVE Forgotten'
  BY <1>1 DEF Leaves
<1>2. ASSUME NEW p \in Procs, MarkDeleting(p) PROVE Forgotten'
  BY <1>2, GotoHand DEF MarkDeleting, Steps
<1>3. ASSUME NEW p \in Procs, ForgetSecret(p) PROVE Forgotten'
  BY <1>3 DEF ForgetSecret
<1>4. ASSUME NEW p \in Procs, RemoveConnections(p) PROVE Forgotten'
  BY <1>4, GotoHand DEF RemoveConnections, Steps
<1>5. ASSUME NEW p \in Procs, RemoveGroup(p) PROVE Forgotten'
  BY <1>5, ReturnIdles DEF RemoveGroup
<1>6. ASSUME NEW p \in Procs,
             \/ Start(p) \/ Wait(p) \/ Continue(p) \/ Cancel(p) \/ RPCFails(p)
             \/ LoseAnswer(p) \/ WriteFails(p) \/ Crash(p)
      PROVE  Forgotten'
  BY <1>1, <1>2, <1>3, <1>4, <1>5, <1>6, HandlerLeaves DEF LocksAreNeeded
<1>7. ASSUME UNCHANGED <<op, lifecycle, secret>> PROVE Forgotten'
  BY <1>7
<1> QED
  BY <1>6, <1>7, EnvironmentLeaves DEF Next

LEMMA ForgottenInvariant == Spec => []Forgotten
<1>1. Init => Forgotten
  BY DEF Init, Forgotten, LateSteps, Idle
<1> QED
  BY <1>1, StepForgotten, ControlInvariant, LocksInvariant, RemovalInvariant, PTL DEF Spec

LEMMA StepImplements ==
  ASSUME Control, LocksAreNeeded, Removal, Forgotten, [Next]_vars
  PROVE  [Authority!Next]_(Authority!vars)
<1> USE DEF Authority!vars
<1>0. connected \in BOOLEAN /\ secret \in BOOLEAN /\ lifecycle \in {"active", "deleting", "removed"}
  BY DEF Control, TypeOK
<1>1. ASSUME UNCHANGED <<lifecycle, secret>>,
             connected' \in {connected, connected \/ lifecycle = "active", FALSE}
      PROVE  Authority!Relate
  BY <1>0, <1>1 DEF Authority!Relate, Authority!Active
<1>2. ASSUME NEW p \in Procs, MarkDeleting(p) PROVE Authority!Begin(0) \/ UNCHANGED Authority!vars
  <2>1. lifecycle # "removed" /\ lifecycle' = "deleting" /\ UNCHANGED <<connected, secret>>
    BY <1>2 DEF MarkDeleting, Removal, RemovedSoFar
  <2>2. CASE lifecycle = "active"
    BY <2>1, <2>2 DEF Authority!Begin, Authority!To
  <2> QED
    BY <1>0, <2>1, <2>2
<1>3. ASSUME NEW p \in Procs, ForgetSecret(p) PROVE Authority!Forget(0)
  <2>1. lifecycle = "deleting" /\ secret' = FALSE /\ UNCHANGED <<connected, lifecycle>>
    BY <1>3 DEF ForgetSecret, Removal, RemovedSoFar, RemovalSteps
  <2> QED
    BY <2>1 DEF Authority!Forget
<1>4. ASSUME NEW p \in Procs, RemoveConnections(p) PROVE Authority!Relate
  BY <1>1, <1>4 DEF RemoveConnections
<1>5. ASSUME NEW p \in Procs, RemoveGroup(p) PROVE Authority!Finish(0)
  <2>1. /\ lifecycle = "deleting" /\ ~connected /\ ~secret
        /\ lifecycle' = "removed" /\ UNCHANGED <<connected, secret>>
    BY <1>5 DEF RemoveGroup, Removal, RemovedSoFar, RemovalSteps, Forgotten, LateSteps
  <2> QED
    BY <2>1 DEF Authority!Finish, Authority!To
<1>6. ASSUME NEW p \in Procs, Leaves(p) PROVE Authority!Relate
  BY <1>1, <1>6 DEF Leaves
<1>7. ASSUME NEW p \in Procs,
             \/ Start(p) \/ Wait(p) \/ Continue(p) \/ Cancel(p) \/ RPCFails(p)
             \/ LoseAnswer(p) \/ WriteFails(p) \/ Crash(p)
      PROVE  [Authority!Next]_(Authority!vars)
  BY <1>2, <1>3, <1>4, <1>5, <1>6, <1>7, HandlerLeaves DEF LocksAreNeeded, Authority!Next
<1> QED
  BY <1>1, <1>7, EnvironmentLeaves DEF Next, Authority!Next

\* An approval that began before the group was removed gives it nothing back: as seen by the rest
\* of the wallet, a removal only takes away, and ends when secret and connection are gone
\* (WalletService.swift, WalletGroupManager.swift).
THEOREM RemovalIsAuthoritative == Spec => Implements
<1>1. Init => Authority!Init
  BY DEF Init, Authority!Init, Authority!Active
<1> QED
  BY <1>1, StepImplements, ControlInvariant, LocksInvariant, RemovalInvariant, ForgottenInvariant, PTL
     DEF Spec, Implements, Authority!Spec

-----------------------------------------------------------------------------
(* What every implementation of GroupAuthority has, and so this one.         *)

Promised == INSTANCE GroupAuthorityProofs WITH
  Groups <- {0},
  phase <- [g \in {0} |-> IF lifecycle = "removed" THEN "gone" ELSE lifecycle],
  secrets <- IF secret THEN {0} ELSE {},
  named <- IF connected THEN {0} ELSE {}

LEMMA PromisesKept == Spec => Promised!Spec
<1>1. Authority!Init => Promised!Init
  BY DEF Authority!Init, Promised!Init, Authority!Active, Promised!Active
<1>2. [Authority!Next]_(Authority!vars) => [Promised!Next]_(Promised!vars)
  BY DEF Authority!Next, Authority!vars, Authority!Relate, Authority!Save, Authority!Register,
         Authority!Abandon, Authority!TakeBack, Authority!Begin, Authority!Forget,
         Authority!Finish, Authority!To, Authority!Active,
         Promised!Next, Promised!vars, Promised!Relate, Promised!Save, Promised!Register,
         Promised!Abandon, Promised!TakeBack, Promised!Begin, Promised!Forget,
         Promised!Finish, Promised!To, Promised!Active
<1> QED
  BY <1>1, <1>2, RemovalIsAuthoritative, PTL DEF Implements, Authority!Spec, Promised!Spec

\* No approval, payment or grant that was under way when the group was removed gives it a secret
\* or a connection again, and one that is gone has neither (withPrivateKey, Signing.swift;
\* deleteGroup, WalletGroupManager.swift).
THEOREM RemovalTakesEverything == Spec => []Authority!GoneHasNothing /\ Authority!RemovalOnlyTakes
<1> DEFINE Life == [g \in {0} |-> IF lifecycle = "removed" THEN "gone" ELSE lifecycle]
           OnlyTakes == \A g \in {0} : Life[g] \in {"deleting", "gone"} =>
                      /\ Life'[g] \in {Life[g], "gone"}
                      /\ g \in (IF secret THEN {0} ELSE {})' => g \in (IF secret THEN {0} ELSE {})
                      /\ g \in (IF connected THEN {0} ELSE {})' => g \in (IF connected THEN {0} ELSE {})
<1>1. Promised!GoneHasNothing => Authority!GoneHasNothing
  BY DEF Promised!GoneHasNothing, Authority!GoneHasNothing, Promised!Phases, Authority!Phases
<1>2. [OnlyTakes]_(Promised!vars) => [OnlyTakes]_(Authority!vars)
  BY DEF Authority!vars, Promised!vars
<1> HIDE DEF OnlyTakes
<1>3. Promised!RemovalOnlyTakes => [][OnlyTakes]_(Promised!vars)
  BY PTL DEF Promised!RemovalOnlyTakes, OnlyTakes, Life
<1>4. [][OnlyTakes]_(Authority!vars) => Authority!RemovalOnlyTakes
  BY PTL DEF Authority!RemovalOnlyTakes, OnlyTakes, Life
<1> QED
  BY <1>1, <1>2, <1>3, <1>4, PromisesKept, Promised!NothingIsLeft, Promised!NothingComesBack, PTL
=============================================================================
