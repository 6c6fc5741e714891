--------------------------- MODULE SigningApproval ---------------------------
(***************************************************************************)
(* The approval of requests that sign: a message, a sign-in, a transaction,  *)
(* a batch of calls, and the switch of the chain an older version queued.    *)
(* Beside it run the app's own sends, rejections and polls, expiry, the      *)
(* disconnection of the site and the removal of the wallet group.  A handler *)
(* stops at every await and every durable write, its process may die there,  *)
(* and the node it talks to refuses, answers late, wrongly or never.         *)
(*                                                                          *)
(* Sources: WalletService.swift (approve, approveBatch, sendTransaction,     *)
(* broadcast, status, reject, switchChain), Signing.swift,                   *)
(* AuthorizationService.swift, TransactionSubmissionLock.swift,              *)
(* PendingWalletRequest.swift, WalletGroupManager.swift, NetworkStore.swift. *)
(* One account, alone in its group, and one site; every request was prepared *)
(* for the chain "Home", and no nonce was given by the site.                 *)
(***************************************************************************)
EXTENDS ChainSwitch, Sequences

CONSTANTS
  Home,        \* the chain the requests were prepared for
  Last,        \* requests are numbered in the order of (createdAt, id)
  Mixes,       \* what the numbers may stand for: kinds of requests, or a payment of the wallet
  SwitchMixes, \* bound: the mixes beside which the chain is switched, or its network deleted
  MaxFaults    \* bound on process deaths, failed writes and answers that never came

Items == 1..Last
Kinds == {"message", "siwe", "send", "batch", "switch", "own"}

ASSUME SigningAssumption ==
  /\ Last \in Nat /\ MaxFaults \in Nat
  /\ Home \in Chains /\ SwitchRequests = Items
  /\ Mixes \subseteq [Items -> Kinds] /\ SwitchMixes \subseteq Mixes

VARIABLES
  kind,        \* what each item is
  record,      \* status of each request in PendingRequests
  due,         \* requests whose ten minutes have passed
  scanned,     \* expired records that some scan has read and not yet rewritten
  connected,   \* the site's active connection is to the account
  lifecycle,   \* of the wallet group in the registry
  secret,      \* the protected secret exists
  claim,       \* the per-request flock
  groupLock,   \* the per-group lifecycle claim
  submission,  \* the flock of the account and chain: TransactionSubmissionLock
  code,        \* the batch contract: not on the chain, deployed, or the account's code
  wire,        \* transactions on their way to the node
  ledger,      \* transactions the node has accepted, by nonce
  activity,    \* payments in the activity database
  op, faults,
  signed,      \* history: the transactions ever signed
  misheard,    \* history: payments that got no answer, or one that did not say what happened
  unrecorded,  \* history: payments whose handler died, or could not write the record, after
               \* it had signed
  settled      \* history: the chain last decided, or NoChain once that is disturbed

recordVars == <<kind, record, due, scanned>>
accountVars == <<connected, lifecycle, secret>>
lockVars == <<claim, groupLock, submission, switchLock>>
nodeVars == <<code, wire, ledger>>
fileVars == <<chain, journal, replacing, settled>>
historyVars == <<signed, misheard, unrecorded>>
vars == <<recordVars, accountVars, lockVars, nodeVars, fileVars, activity, op, faults,
          historyVars>>

\* A payment of the wallet has no record: it is made once, or not yet.
Statuses == {"pending", "consumed", "rejected", "expired", "failed", "unmade", "made"}
Stages == {"deploy", "authorize", "call"}
Transaction == [for : Items, what : {"deploy", "call"}, nonce : Nat]
Steps == {"idle", "check", "chain", "account", "lock", "code", "nonce", "resolve", "group",
          "authenticate", "posted", "receipt", "consume", "fail", "grant", "claimSwitch",
          "journal", "setChain", "finish", "mark", "list", "terminate", "disconnect", "remove"}
Op == [at : Steps, for : Items \cup {0}, stage : Stages, nonce : Nat,
       previous : Chains, todo : SUBSET Items]
Idle == [at |-> "idle", for |-> 0, stage |-> "call", nonce |-> 0, previous |-> Home,
         todo |-> {}]

TypeOK ==
  /\ ChainTypeOK
  /\ kind \in Mixes /\ record \in [Items -> Statuses]
  /\ due \subseteq Items /\ scanned \subseteq Items
  /\ connected \in BOOLEAN /\ secret \in BOOLEAN
  /\ lifecycle \in {"active", "deleting", "removed"}
  /\ claim \in [Items -> Procs \cup {NoProc}]
  /\ groupLock \in Procs \cup {NoProc} /\ submission \in Procs \cup {NoProc}
  /\ code \in {"missing", "deployed", "delegated"}
  /\ wire \subseteq Transaction /\ ledger \in Seq(Transaction)
  /\ activity \subseteq Items
  /\ op \in [Procs -> Op] /\ faults \in 0..MaxFaults
  /\ signed \subseteq Transaction /\ misheard \subseteq Items /\ unrecorded \subseteq Items
  /\ settled \in Chains \cup {NoChain}

-----------------------------------------------------------------------------
(* What the handlers read.                                                   *)

Requests == {r \in Items : kind[r] # "own"}
Consumed == {r \in Requests : record[r] = "consumed"}
Overdue == {r \in due : record[r] = "pending"}
Normalized == [r \in Items |-> IF r \in Overdue THEN "expired" ELSE record[r]]
IsHead(r) == \A q \in Requests : record[q] = "pending" /\ q \notin due => r <= q
Usable == lifecycle = "active" /\ secret
Accepted(tx) == \E i \in DOMAIN ledger : ledger[i] = tx
PendingNonce == Len(ledger)
Pays(x) == kind[x] \in {"own", "send", "batch"}
Paying(o) == o.for # 0 /\ Pays(o.for)
PostedBy(o) == [for |-> o.for, what |-> IF o.stage = "deploy" THEN "deploy" ELSE "call",
                nonce |-> o.nonce]

-----------------------------------------------------------------------------
(* Control.  Locks are dropped when a handler returns, throws or dies.       *)

Goto(p, step) == op' = [op EXCEPT ![p].at = step]

Release(p) ==
  /\ claim' = [r \in Items |-> IF claim[r] = p THEN NoProc ELSE claim[r]]
  /\ groupLock' = IF groupLock = p THEN NoProc ELSE groupLock
  /\ submission' = IF submission = p THEN NoProc ELSE submission
  /\ switchLock' = ReleasedSwitch(p)

Return(p) == op' = [op EXCEPT ![p] = Idle] /\ Release(p)

\* The handler throws and nothing durable changes.
Throw(p) ==
  /\ Return(p)
  /\ UNCHANGED <<recordVars, accountVars, nodeVars, fileVars, activity, faults, historyVars>>

\* The handler goes on, and nothing but its own position changes.
Proceed(p, o) ==
  /\ op' = [op EXCEPT ![p] = o]
  /\ UNCHANGED <<recordVars, accountVars, lockVars, nodeVars, fileVars, activity, faults,
                 historyVars>>

\* A request that cannot be approved is persisted as failed; the wallet's own send just throws.
Refuse(p) ==
  IF kind[op[p].for] = "own" THEN Throw(p) ELSE Proceed(p, [op[p] EXCEPT !.at = "fail"])

Fault == faults < MaxFaults /\ faults' = faults + 1

Init ==
  /\ kind \in Mixes /\ record = [r \in Items |-> IF r \in Requests THEN "pending" ELSE "unmade"]
  /\ due = {} /\ scanned = {}
  /\ connected = TRUE /\ lifecycle = "active" /\ secret = TRUE
  /\ claim = [r \in Items |-> NoProc]
  /\ groupLock = NoProc /\ submission = NoProc /\ switchLock = NoProc
  /\ chain = Home /\ journal = NoJournal /\ replacing = NoChain
  /\ settled = Home
  /\ code \in {"missing", "delegated"}
  /\ wire = {} /\ ledger = <<>> /\ activity = {}
  /\ op = [p \in Procs |-> Idle] /\ faults = 0
  /\ signed = {} /\ misheard = {} /\ unrecorded = {}

-----------------------------------------------------------------------------
(* Approval up to the key.                                                   *)

BeginApproval(p, r) ==
  /\ op[p] = Idle /\ r \in Requests /\ claim[r] = NoProc
  /\ claim' = [claim EXCEPT ![r] = p]
  /\ op' = [op EXCEPT ![p] = [Idle EXCEPT !.at = "check", !.for = r]]
  /\ UNCHANGED <<recordVars, accountVars, groupLock, submission, switchLock, nodeVars,
                 fileVars, activity, faults, historyVars>>

\* store.record() and store.pending() persist what has expired; only the head goes on.
CheckRecord(p) ==
  LET r == op[p].for IN
  /\ op[p].at = "check"
  /\ record' = Normalized
  /\ IF record[r] = "pending" /\ r \notin due /\ IsHead(r)
       THEN Goto(p, "chain") /\ UNCHANGED lockVars
       ELSE Return(p)
  /\ UNCHANGED <<kind, due, scanned, accountVars, nodeVars, fileVars, activity, faults,
                 historyVars>>

\* activeChainState: under the switch lock, an interrupted switch is settled first.
ReadActiveChain(p) ==
  /\ op[p].at = "chain" /\ switchLock = NoProc
  /\ RecoverSwitch(Consumed)
  /\ op' = [op EXCEPT
       ![p].at = IF chain' = Home \/ kind[op[p].for] = "siwe" THEN "account" ELSE "fail",
       ![p].previous = chain']
  /\ UNCHANGED <<recordVars, accountVars, lockVars, nodeVars, replacing, settled,
                 activity, faults, historyVars>>

CheckAccount(p) ==
  /\ op[p].at = "account"
  /\ LET k == kind[op[p].for] IN
     Proceed(p, [op[p] EXCEPT !.at =
       IF ~(connected /\ Usable) THEN "fail"
       ELSE IF k \in {"send", "batch"} THEN "lock"
       ELSE IF k = "switch" THEN "claimSwitch" ELSE "resolve"])

\* sendTransaction, and the enable and revoke of AuthorizationService.
BeginOwnTransaction(p, x) ==
  /\ op[p] = Idle /\ record[x] = "unmade" /\ Usable
  /\ record' = [record EXCEPT ![x] = "made"]
  /\ op' = [op EXCEPT ![p] = [Idle EXCEPT !.at = "lock", !.for = x]]
  /\ UNCHANGED <<kind, due, scanned, accountVars, lockVars, nodeVars, fileVars, activity,
                 faults, historyVars>>

AfterLock(o) ==
  [o EXCEPT !.at = IF kind[o.for] = "batch" THEN "code" ELSE "nonce"]

\* Faulty: the wallet's own transactions do not take the claim.
LockOnlyForRequests(p) ==
  /\ op[p].at = "lock"
  /\ IF kind[op[p].for] = "own" \/ submission = NoProc
       THEN /\ submission' = IF kind[op[p].for] = "own" THEN submission ELSE p
            /\ op' = [op EXCEPT ![p] = AfterLock(op[p])]
            /\ UNCHANGED <<recordVars, accountVars, claim, groupLock, switchLock, nodeVars,
                           fileVars, activity, faults, historyVars>>
       ELSE Throw(p)

LockSubmission(p) ==
  /\ op[p].at = "lock"
  /\ IF submission = NoProc
       THEN /\ submission' = p
            /\ op' = [op EXCEPT ![p] = AfterLock(op[p])]
            /\ UNCHANGED <<recordVars, accountVars, claim, groupLock, switchLock, nodeVars,
                           fileVars, activity, faults, historyVars>>
       ELSE Throw(p)

\* ensureBatchImplementation, up to the deployment it may need.
ReadCode(p) ==
  /\ op[p].at = "code"
  /\ Proceed(p, [op[p] EXCEPT !.at = "nonce",
                              !.stage = IF code = "missing" THEN "deploy" ELSE "call"])

\* The pending nonce; a first batch also signs an authorization.
ReadNonce(p) ==
  /\ op[p].at = "nonce"
  /\ LET batch == kind[op[p].for] = "batch" IN
     Proceed(p, [op[p] EXCEPT !.at = "resolve", !.nonce = PendingNonce,
       !.stage = IF @ = "call" /\ batch /\ code = "deployed" THEN "authorize" ELSE @])

\* An RPC call before the signature fails: a batch fails with it, a send stays pending.
RPCFails(p) ==
  /\ op[p].at \in {"code", "nonce"}
  /\ IF kind[op[p].for] = "batch" THEN Refuse(p) ELSE Throw(p)

-----------------------------------------------------------------------------
(* The signature: resolve the account, claim its group, resolve it again,     *)
(* read the secret behind the user's authentication.                          *)

ResolveAccount(p) ==
  /\ op[p].at = "resolve"
  /\ IF lifecycle = "active" THEN Proceed(p, [op[p] EXCEPT !.at = "group"]) ELSE Throw(p)

\* Faulty: what was resolved before the wait is used after it.
EnterGroupAsResolved(p) ==
  /\ op[p].at = "group" /\ groupLock = NoProc
  /\ groupLock' = p /\ Goto(p, "authenticate")
  /\ UNCHANGED <<recordVars, accountVars, claim, submission, switchLock, nodeVars, fileVars,
                 activity, faults, historyVars>>

EnterGroup(p) ==
  /\ op[p].at = "group" /\ groupLock = NoProc
  /\ IF Usable
       THEN /\ groupLock' = p /\ Goto(p, "authenticate")
            /\ UNCHANGED <<recordVars, accountVars, claim, submission, switchLock, nodeVars,
                           fileVars, activity, faults, historyVars>>
       ELSE Throw(p)

\* The user dismisses the prompt: the request stays pending.
Cancel(p) == op[p].at = "authenticate" /\ Throw(p)

Sign(p) ==
  /\ op[p].at = "authenticate"
  /\ groupLock' = NoProc
  /\ IF Paying(op[p]) /\ op[p].stage # "authorize"
       THEN /\ wire' = wire \cup {PostedBy(op[p])}
            /\ signed' = signed \cup {PostedBy(op[p])}
            /\ Goto(p, "posted") /\ UNCHANGED activity
       ELSE /\ activity' = IF Paying(op[p]) THEN activity ELSE activity \cup {op[p].for}
            /\ op' = [op EXCEPT ![p].at = IF Paying(op[p]) THEN "resolve" ELSE "consume",
                                ![p].stage = "call"]
            /\ UNCHANGED <<wire, signed>>
  /\ UNCHANGED <<recordVars, accountVars, claim, submission, switchLock, code, ledger, fileVars,
                 faults, misheard, unrecorded>>

-----------------------------------------------------------------------------
(* The node, and what the wallet hears from it.                               *)

\* It takes one transaction per nonce.  It refuses what comes too late, and may refuse any
\* other: for want of funds, for its fee, for its gas.
Deliver(tx) ==
  /\ tx \in wire
  /\ wire' = wire \ {tx}
  /\ \/ tx.nonce = PendingNonce /\ ledger' = Append(ledger, tx)
     \/ UNCHANGED ledger
  /\ UNCHANGED <<recordVars, accountVars, lockVars, code, fileVars, activity, op, faults,
                 historyVars>>

\* An accepted deployment or first batch is executed.
Execute ==
  /\ \/ /\ code = "missing" /\ \E i \in DOMAIN ledger : ledger[i].what = "deploy"
        /\ code' = "deployed"
     \/ /\ code = "deployed"
        /\ \E i \in DOMAIN ledger : ledger[i].what = "call" /\ kind[ledger[i].for] = "batch"
        /\ code' = "delegated"
  /\ UNCHANGED <<recordVars, accountVars, lockVars, wire, ledger, fileVars, activity, op,
                 faults, historyVars>>

\* Faulty: an error is taken for the answer of a node that knew the transaction already.
AnswerOptimistic(p) ==
  /\ op[p].at = "posted" /\ PostedBy(op[p]) \notin wire
  /\ IF op[p].stage = "deploy"
       THEN Proceed(p, [op[p] EXCEPT !.at = "receipt"]) /\ UNCHANGED activity
       ELSE /\ activity' = activity \cup {op[p].for}
            /\ IF kind[op[p].for] = "own" THEN Return(p)
               ELSE Goto(p, "consume") /\ UNCHANGED lockVars
            /\ UNCHANGED <<recordVars, accountVars, nodeVars, fileVars, faults, historyVars>>

\* eth_sendRawTransaction answers: the hash of what was sent, or an error.  A payment is then
\* recorded as submitted; a failure to record it does not stop the handler.
Answer(p) ==
  LET tx == PostedBy(op[p]) IN
  /\ op[p].at = "posted" /\ tx \notin wire
  /\ IF ~Accepted(tx) THEN Refuse(p) /\ UNCHANGED activity
     ELSE IF tx.what = "deploy"
     THEN Proceed(p, [op[p] EXCEPT !.at = "receipt"]) /\ UNCHANGED activity
     ELSE /\ activity' = activity \cup {tx.for}
          /\ IF kind[tx.for] = "own" THEN Return(p) ELSE Goto(p, "consume") /\ UNCHANGED lockVars
          /\ UNCHANGED <<recordVars, accountVars, nodeVars, fileVars, faults, historyVars>>

\* Faulty: a request whose answer was lost is left to be approved again.
LostLeftPending(p) ==
  /\ op[p].at = "posted" /\ Fault
  /\ misheard' = misheard \cup {op[p].for}
  /\ Return(p)
  /\ UNCHANGED <<recordVars, accountVars, nodeVars, fileVars, activity, signed, unrecorded>>

\* Whatever became of the transaction, the payment is taken to have failed.
TakeAsFailed(p) ==
  /\ misheard' = misheard \cup {op[p].for}
  /\ IF kind[op[p].for] = "own" THEN Return(p) ELSE Goto(p, "fail") /\ UNCHANGED lockVars
  /\ UNCHANGED <<recordVars, accountVars, nodeVars, fileVars, activity, signed, unrecorded>>

\* The connection fails before the answer.
LoseAnswer(p) == op[p].at = "posted" /\ Fault /\ TakeAsFailed(p)

\* The node has taken the transaction and answers with another hash, with no hash, or with an
\* error: that it has it already, for one.  (Of one it has not taken, each is a refusal.)
Misanswer(p) ==
  op[p].at = "posted" /\ Accepted(PostedBy(op[p])) /\ TakeAsFailed(p) /\ UNCHANGED faults

\* The receipt of the deployment; after thirty polls, or when it reverted, the batch fails.
Receipt(p) ==
  /\ op[p].at = "receipt" /\ code # "missing"
  /\ Proceed(p, [op[p] EXCEPT !.at = "nonce", !.stage = "call"])

NoReceipt(p) == op[p].at = "receipt" /\ Refuse(p)

-----------------------------------------------------------------------------
(* The result.                                                                *)

PersistFailed(p) ==
  /\ op[p].at = "fail"
  /\ record' = [record EXCEPT ![op[p].for] = "failed"]
  /\ Return(p)
  /\ UNCHANGED <<kind, due, scanned, accountVars, nodeVars, fileVars, activity, faults,
                 historyVars>>

PersistConsumed(p) ==
  LET r == op[p].for IN
  /\ op[p].at = "consume"
  /\ record' = [record EXCEPT ![r] = "consumed"]
  /\ settled' = IF kind[r] = "switch" /\ settled # NoChain THEN journal.target ELSE settled
  /\ CASE kind[r] = "siwe" -> Goto(p, "grant") /\ UNCHANGED lockVars
       [] kind[r] = "switch" -> Goto(p, "finish") /\ UNCHANGED lockVars
       [] OTHER -> Return(p)
  /\ UNCHANGED <<kind, due, scanned, accountVars, nodeVars, chain, journal, replacing,
                 activity, faults, historyVars>>

\* The record cannot be written: the approval throws and the request stays as it is.  A
\* switch is undone.
WriteFails(p) ==
  /\ op[p].at \in {"consume", "fail"} /\ Fault
  /\ unrecorded' = unrecorded \cup {op[p].for}
  /\ IF kind[op[p].for] = "switch" /\ op[p].at = "consume"
       THEN RecoverSwitch({}) ELSE UNCHANGED <<chain, journal>>
  /\ Return(p)
  /\ UNCHANGED <<recordVars, accountVars, nodeVars, replacing, settled, activity,
                 signed, misheard>>

\* Faulty: the grant is written whatever the registry says by now.
GrantUnchecked(p) ==
  /\ op[p].at = "grant"
  /\ connected' = TRUE /\ Return(p)
  /\ UNCHANGED <<recordVars, lifecycle, secret, nodeVars, fileVars, activity, faults,
                 historyVars>>

\* A sign-in also connects, after it was consumed; the registry is consulted again.
Grant(p) ==
  /\ op[p].at = "grant"
  /\ connected' = (connected \/ lifecycle = "active") /\ Return(p)
  /\ UNCHANGED <<recordVars, lifecycle, secret, nodeVars, fileVars, activity, faults,
                 historyVars>>

-----------------------------------------------------------------------------
(* The switch of the chain.                                                   *)

ClaimChainSwitch(p) ==
  /\ op[p].at = "claimSwitch"
  /\ IF switchLock = NoProc
       THEN /\ switchLock' = p /\ Goto(p, "journal")
            /\ UNCHANGED <<recordVars, accountVars, claim, groupLock, submission, nodeVars,
                           fileVars, activity, faults, historyVars>>
       ELSE Throw(p)

WriteJournal(p) ==
  /\ op[p].at = "journal"
  /\ \E target \in Chains \ {Home} : BeginSwitch(op[p].for, op[p].previous, target)
  /\ settled' = IF op[p].previous = chain THEN settled ELSE NoChain
  /\ Goto(p, "setChain")
  /\ UNCHANGED <<recordVars, accountVars, claim, groupLock, submission, nodeVars, activity,
                 faults, historyVars>>

SetChain(p) ==
  /\ op[p].at = "setChain"
  /\ chain' = journal.target /\ Goto(p, "consume")
  /\ UNCHANGED <<recordVars, accountVars, lockVars, nodeVars, journal, replacing, settled,
                 activity, faults, historyVars>>

FinishSwitch(p) ==
  /\ op[p].at = "finish"
  /\ journal' = NoJournal /\ Return(p)
  /\ UNCHANGED <<recordVars, accountVars, nodeVars, chain, replacing, settled,
                 activity, faults, historyVars>>

\* Whoever else asks the service for the active chain settles an interrupted switch first.
RecoverChain ==
  /\ switchLock = NoProc /\ journal # NoJournal /\ RecoverSwitch(Consumed)
  /\ UNCHANGED <<recordVars, accountVars, lockVars, nodeVars, replacing, settled,
                 activity, op, faults, historyVars>>

\* A connected site switches directly, without a request.
SwitchChain ==
  /\ kind \in SwitchMixes /\ switchLock = NoProc /\ connected /\ Usable
  /\ chain' \in Chains /\ journal' = NoJournal /\ settled' = chain'
  /\ UNCHANGED <<replacing, recordVars, accountVars, lockVars, nodeVars, activity, op,
                 faults, historyVars>>

\* The user deletes a network, or somebody who uses the list of networks resumes that.  What
\* it read may be old by the time it writes, and a journal may then be open.
FindDeleted ==
  /\ kind \in SwitchMixes /\ FindActive
  /\ UNCHANGED <<settled, recordVars, accountVars, claim, groupLock, submission,
                 nodeVars, activity, op, faults, historyVars>>
ReplaceDeleted ==
  /\ ReplaceActive
  /\ settled' = IF chain' = chain THEN settled
                ELSE IF journal = NoJournal /\ chain = replacing THEN chain' ELSE NoChain
  /\ UNCHANGED <<recordVars, accountVars, claim, groupLock, submission, nodeVars, activity, op,
                 faults, historyVars>>

-----------------------------------------------------------------------------
(* The other decisions about a request.                                       *)

Expire(r) ==
  /\ record[r] = "pending" /\ r \notin due /\ due' = due \cup {r}
  /\ UNCHANGED <<kind, record, scanned, accountVars, lockVars, nodeVars, fileVars, activity,
                 op, faults, historyVars>>

\* reject and status take the group's claim, then the request's, and rewrite the record.
DecideClaimed(r) ==
  /\ lifecycle = "active" /\ groupLock = NoProc /\ claim[r] = NoProc
  /\ record[r] = "pending"
  /\ record' = [record EXCEPT ![r] = IF r \in due THEN "expired" ELSE "rejected"]
  /\ UNCHANGED <<kind, due, scanned, accountVars, lockVars, nodeVars, fileVars, activity, op,
                 faults, historyVars>>

\* A scan of the whole directory normalizes what has expired, under no claim.
ScanReads(r) ==
  /\ r \in Overdue \ scanned /\ scanned' = scanned \cup {r}
  /\ UNCHANGED <<kind, record, due, accountVars, lockVars, nodeVars, fileVars, activity, op,
                 faults, historyVars>>
ScanWrites(r) ==
  /\ r \in scanned /\ scanned' = scanned \ {r}
  /\ record' = [record EXCEPT ![r] = "expired"]
  /\ settled' = IF record[r] = "consumed" /\ journal.req = r THEN NoChain ELSE settled
  /\ UNCHANGED <<kind, due, accountVars, lockVars, nodeVars, chain, journal, replacing, activity,
                 op, faults, historyVars>>

Disconnect ==
  /\ connected /\ connected' = FALSE
  /\ UNCHANGED <<recordVars, lifecycle, secret, lockVars, nodeVars, fileVars, activity, op,
                 faults, historyVars>>

-----------------------------------------------------------------------------
(* Removal of the wallet group, resumable.                                    *)

BeginRemoval(p) ==
  /\ op[p] = Idle /\ lifecycle # "removed" /\ groupLock = NoProc
  /\ groupLock' = p
  /\ op' = [op EXCEPT ![p] = [Idle EXCEPT !.at = "mark"]]
  /\ UNCHANGED <<recordVars, accountVars, claim, submission, switchLock, nodeVars, fileVars,
                 activity, faults, historyVars>>

MarkDeleting(p) ==
  /\ op[p].at = "mark"
  /\ lifecycle' = "deleting" /\ Goto(p, "list")
  /\ UNCHANGED <<recordVars, connected, secret, lockVars, nodeVars, fileVars, activity,
                 faults, historyVars>>

ListRequests(p) ==
  /\ op[p].at = "list"
  /\ record' = Normalized
  /\ op' = [op EXCEPT ![p].at = "terminate",
                      ![p].todo = {r \in Requests : record'[r] = "pending"}]
  /\ UNCHANGED <<kind, due, scanned, accountVars, lockVars, nodeVars, fileVars, activity,
                 faults, historyVars>>

\* Faulty: the removal waits for a busy request, holding the group.
TerminateWaiting(p) ==
  /\ op[p].at = "terminate" /\ op[p].todo # {}
  /\ LET r == CHOOSE q \in op[p].todo : \A s \in op[p].todo : q <= s IN
     /\ claim[r] = NoProc
     /\ record' = IF r \in Overdue \/ record[r] # "pending" THEN Normalized
                  ELSE [Normalized EXCEPT ![r] = "failed"]
     /\ op' = [op EXCEPT ![p].todo = @ \ {r}]
     /\ UNCHANGED <<kind, due, scanned, accountVars, lockVars, nodeVars, fileVars, activity,
                    faults, historyVars>>

\* Each listed request is claimed without waiting; a busy one stops the removal.
TerminateRequest(p) ==
  /\ op[p].at = "terminate" /\ op[p].todo # {}
  /\ LET r == CHOOSE q \in op[p].todo : \A s \in op[p].todo : q <= s IN
     IF claim[r] # NoProc THEN Throw(p)
     ELSE /\ record' = IF r \in Overdue \/ record[r] # "pending" THEN Normalized
                       ELSE [Normalized EXCEPT ![r] = "failed"]
          /\ op' = [op EXCEPT ![p].todo = @ \ {r}]
          /\ UNCHANGED <<kind, due, scanned, accountVars, lockVars, nodeVars, fileVars,
                         activity, faults, historyVars>>

ForgetSecret(p) ==
  /\ op[p].at = "terminate" /\ op[p].todo = {}
  /\ secret' = FALSE /\ Goto(p, "disconnect")
  /\ UNCHANGED <<recordVars, connected, lifecycle, lockVars, nodeVars, fileVars, activity,
                 faults, historyVars>>

RemoveConnections(p) ==
  /\ op[p].at = "disconnect"
  /\ connected' = FALSE /\ Goto(p, "remove")
  /\ UNCHANGED <<recordVars, lifecycle, secret, lockVars, nodeVars, fileVars, activity,
                 faults, historyVars>>

RemoveGroup(p) ==
  /\ op[p].at = "remove"
  /\ lifecycle' = "removed" /\ Return(p)
  /\ UNCHANGED <<recordVars, connected, secret, nodeVars, fileVars, activity, faults,
                 historyVars>>

Crash(p) ==
  /\ op[p] # Idle /\ Fault
  /\ unrecorded' = IF Paying(op[p]) /\ op[p].at \in {"posted", "consume", "fail"}
                     THEN unrecorded \cup {op[p].for} ELSE unrecorded
  /\ Return(p)
  /\ UNCHANGED <<recordVars, accountVars, nodeVars, fileVars, activity, signed, misheard>>

-----------------------------------------------------------------------------
Wait(p) == EnterGroup(p) \/ ReadActiveChain(p)

Continue(p) ==
  \/ CheckRecord(p) \/ CheckAccount(p) \/ LockSubmission(p) \/ ReadCode(p) \/ ReadNonce(p)
  \/ ResolveAccount(p) \/ Sign(p) \/ Answer(p) \/ Misanswer(p) \/ Receipt(p) \/ NoReceipt(p)
  \/ PersistFailed(p) \/ PersistConsumed(p) \/ Grant(p)
  \/ ClaimChainSwitch(p) \/ WriteJournal(p) \/ SetChain(p) \/ FinishSwitch(p)
  \/ MarkDeleting(p) \/ ListRequests(p) \/ TerminateRequest(p) \/ ForgetSecret(p)
  \/ RemoveConnections(p) \/ RemoveGroup(p)

Start(p) ==
  \/ \E r \in Items : BeginApproval(p, r)
  \/ (\E x \in Items : BeginOwnTransaction(p, x)) \/ BeginRemoval(p)

Next ==
  \/ \E p \in Procs : Start(p) \/ Wait(p) \/ Continue(p) \/ Cancel(p) \/ RPCFails(p)
                      \/ LoseAnswer(p) \/ WriteFails(p) \/ Crash(p)
  \/ \E r \in Items : Expire(r) \/ DecideClaimed(r) \/ ScanReads(r) \/ ScanWrites(r)
  \/ (\E tx \in wire : Deliver(tx)) \/ Execute
  \/ RecoverChain \/ SwitchChain \/ FindDeleted \/ ReplaceDeleted \/ Disconnect

Spec == Init /\ [][Next]_vars

-----------------------------------------------------------------------------
Calls(x) == {i \in DOMAIN ledger : ledger[i].for = x /\ ledger[i].what = "call"}

\* A payment reaches the chain once, also when the node refused it, answered wrongly or did
\* not answer: the record is then failed, and cannot be approved again.  Only a handler that
\* dies after the signature, or cannot write the record, leaves one that can.
PaidOnce == \A x \in Items \ unrecorded : \A i, j \in Calls(x) : i = j

\* What a site and the activity list are told.  Consumed: the node has accepted the payment,
\* without exception, and so it has what the list shows.  Failed: it has not, if it answered
\* plainly; a lost, malformed or mistaken answer is written down as failed whatever happened.
\* Rejected: it has not, unless an earlier handler died, or could not write, after it signed.
AnswersAreTrue ==
  /\ \A r \in Items : Pays(r) =>
       /\ record[r] = "consumed" => Calls(r) # {}
       /\ record[r] = "failed" /\ r \notin misheard \cup unrecorded => Calls(r) = {}
       /\ record[r] = "rejected" /\ r \notin unrecorded => Calls(r) = {}
  /\ \A x \in activity : Pays(x) => Calls(x) # {}

\* On its way to the node, or accepted by it.
Live(tx) == tx \in wire \/ Accepted(tx)

\* "app and dapp sends cannot race the same pending nonce": no two transactions of one nonce
\* are live at once.  One that the node refused leaves its nonce to the next; one whose
\* handler stopped listening may still be on its way when the next is signed.
OneTransactionPerNonce ==
  \A t, u \in signed : t # u /\ t.nonce = u.nonce /\ Live(t) /\ Live(u) =>
    {t.for, u.for} \cap (misheard \cup unrecorded) # {}

\* The secret is read, and the user asked, only for an account that is still there: the wait
\* for the group's claim can outlast its removal.
KeyOnlyWhileActive == \A p \in Procs : op[p].at = "authenticate" => Usable

\* A removed account has no connection and no request, whatever was being approved meanwhile.
RemovedLeavesNothing ==
  lifecycle = "removed" => ~connected /\ \A r \in Items : record[r] # "pending"

\* When no switch is under way the active chain is the one last decided: a switch that was
\* interrupted counts only if its request was consumed, and a network that was deleted while
\* it was active is replaced.  Three things disturb it: a switch that another one overtook goes
\* back to the chain it had read, a consumed record that a scan overwrote counts as undecided,
\* and the deletion of a network neither waits for a switch under way nor settles its journal.
ChainIsDecided ==
  settled # NoChain /\ journal = NoJournal /\ switchLock = NoProc => chain = settled

\* "Expired records are never consumable."
ExpiredNeverConsumed ==
  [][\A r \in Items : record[r] = "expired" => record'[r] # "consumed"]_vars

\* Handlers never all wait for each other: an approval holds its request while it waits for
\* the group, a removal holds the group while it wants the requests.
SomeHandlerGoesOn ==
  (\E p \in Procs : op[p] # Idle) /\ wire = {} =>
    \E p \in Procs : ENABLED (Wait(p) \/ Continue(p))

-----------------------------------------------------------------------------
(* What the removal of the group is to the rest of the wallet.               *)

Authority == INSTANCE GroupAuthority WITH
  Groups <- {0},
  phase <- [g \in {0} |-> IF lifecycle = "removed" THEN "gone" ELSE lifecycle],
  secrets <- IF secret THEN {0} ELSE {},
  named <- IF connected THEN {0} ELSE {}

\* An approval that began before the group was removed gives it nothing back, and the removal
\* ends only when secret and connection are gone.
Implements == Authority!Spec
=============================================================================
