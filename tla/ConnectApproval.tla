--------------------------- MODULE ConnectApproval ---------------------------
(***************************************************************************)
(* How a plain eth_requestAccounts / wallet_connect request is prepared,    *)
(* reviewed, rebound, approved, rejected, polled, expired and terminalized  *)
(* by the deletion of a wallet group, in the app, the Safari extension and  *)
(* the Chrome helper at once.  Every durable write is a step of its own and *)
(* a process may die between any two of them.                               *)
(*                                                                          *)
(* Sources: WalletService.swift (prepare, rebindConnect, approvePlainConnect,*)
(* reconcileConnectCommit, status, reject), PendingWalletRequest.swift,     *)
(* ConnectionState.swift, ConnectedSitesStore.swift, WalletGroupManager.swift*)
(* and WalletGroupLifecycle.swift.                                          *)
(***************************************************************************)
EXTENDS Naturals

CONSTANTS
  MaxRequests,   \* requests are numbered in the order of (createdAt, id)
  MaxRevision,   \* bound on the account selections of one request
  MaxCrashes,    \* bound on process deaths and failed writes
  Operations,    \* bound on the kinds of handler an instance starts
  Procs,         \* the handlers running in app, extension and helper
  Groups, Accounts, Sites,
  GroupOf,       \* the wallet group that owns each account
  SiteOf,        \* the origin and browser profile that issues each request
  NoAccount, NoGroup, NoProc

Requests == 1..MaxRequests
Kinds == {"prepare", "approve", "reject", "status", "rebind", "delete"}

ASSUME ConstantsAssumption ==
  /\ MaxRequests \in Nat /\ MaxRevision \in Nat /\ MaxCrashes \in Nat
  /\ Operations \subseteq Kinds
  /\ GroupOf \in [Accounts -> Groups]
  /\ SiteOf \in [Requests -> Sites]
  /\ NoAccount \notin Accounts /\ NoGroup \notin Groups /\ NoProc \notin Procs

VARIABLES
  store,       \* the PendingRequests directory: one record per request
  pastExpiry,  \* requests whose ten minutes have passed
  nextRequest, \* the next request to be created
  stale,       \* records an unclaimed expiry scan has read and not yet rewritten
  grants, active, default, markers,  \* the connection-state file
  groups,      \* the lifecycle of each group in the wallet registry
  secrets,     \* groups whose protected secret exists
  claim,       \* the per-request flock
  groupLock,   \* the per-group lifecycle claim
  op,          \* what each handler is doing
  crashes,
  committed,   \* history: the marker each request committed last
  commits      \* history: how many connect commits each request has made

recordVars == <<store, pastExpiry, nextRequest, stale>>
connectionVars == <<grants, active, default, markers, committed, commits>>
registryVars == <<groups, secrets>>
lockVars == <<claim, groupLock>>
vars == <<recordVars, connectionVars, registryVars, lockVars, op, crashes>>

-----------------------------------------------------------------------------
(* Records, markers and the state of a handler.                             *)

Statuses == {"pending", "consumed", "rejected", "expired", "failed"}
MaybeAccount == Accounts \union {NoAccount}

Record == [status : Statuses \union {"absent"}, account : MaybeAccount,
           revision : 0..MaxRevision]
Absent == [status |-> "absent", account |-> NoAccount, revision |-> 0]

Marker == [account : MaybeAccount, revision : 0..MaxRevision]
NoMarker == [account |-> NoAccount, revision |-> 0]

Steps == {"idle", "insert", "review", "group", "claim", "read", "write",
          "commit", "consume", "settle", "mark", "markers", "fail",
          "connections", "remove"}
Op == [kind : Kinds \union {"idle"}, at : Steps, req : 0..MaxRequests, rev : 0..MaxRevision,
       account : MaybeAccount, group : Groups \union {NoGroup},
       mem : Record, todo : SUBSET Requests]
Idle == [kind |-> "idle", at |-> "idle", req |-> 0, rev |-> 0,
         account |-> NoAccount, group |-> NoGroup, mem |-> Absent, todo |-> {}]

TypeOK ==
  /\ store \in [Requests -> Record]
  /\ pastExpiry \subseteq Requests
  /\ nextRequest \in 1..(MaxRequests + 1)
  /\ stale \in [Requests -> Record]
  /\ grants \subseteq Sites \X Accounts
  /\ active \in [Sites -> MaybeAccount]
  /\ default \in MaybeAccount
  /\ markers \in [Requests -> Marker]
  /\ committed \in [Requests -> Marker]
  /\ commits \in [Requests -> Nat]
  /\ groups \in [Groups -> {"active", "deleting", "removed"}]
  /\ secrets \subseteq Groups
  /\ claim \in [Requests -> Procs \union {NoProc}]
  /\ groupLock \in [Groups -> Procs \union {NoProc}]
  /\ op \in [Procs -> Op]
  /\ crashes \in 0..MaxCrashes

-----------------------------------------------------------------------------
(* What the handlers read.                                                  *)

Live(r) == store[r].status = "pending" /\ r \notin pastExpiry

\* The one request of the whole queue, across profiles, that may be decided.
IsHead(r) == Live(r) /\ \A q \in Requests : Live(q) => r <= q

Eligible == {a \in Accounts : groups[GroupOf[a]] = "active"}
HasKey(a) == a \in Eligible /\ GroupOf[a] \in secrets

\* ConnectionState.validate(against:), of a default and an active map.
ValidAgainstRegistry(d, act) ==
  /\ d \in Eligible \union {NoAccount}
  /\ \A s \in Sites : act[s] \in Eligible \union {NoAccount}

\* A marker and a record agree, and the record may still become its result.
Matches(r) ==
  /\ markers[r] # NoMarker
  /\ store[r].account = markers[r].account
  /\ store[r].revision = markers[r].revision
  /\ store[r].status \in {"pending", "consumed"}

AccountsOf(g) == {a \in Accounts : GroupOf[a] = g}

Normalized(records) ==
  [r \in Requests |->
     IF records[r].status = "pending" /\ r \in pastExpiry
     THEN [records[r] EXCEPT !.status = "expired"] ELSE records[r]]

-----------------------------------------------------------------------------
(* Control: locks are dropped when a handler returns, throws or dies.       *)

Goto(p, step) == op' = [op EXCEPT ![p].at = step]

\* Faulty: the group's claim outlives the handler.
ReleaseRequestOnly(p) ==
  /\ claim' = [r \in Requests |-> IF claim[r] = p THEN NoProc ELSE claim[r]]
  /\ UNCHANGED groupLock

Release(p) ==
  /\ claim' = [r \in Requests |-> IF claim[r] = p THEN NoProc ELSE claim[r]]
  /\ groupLock' = [g \in Groups |-> IF groupLock[g] = p THEN NoProc ELSE groupLock[g]]

Return(p) == op' = [op EXCEPT ![p] = Idle] /\ Release(p)

\* A guard of the handler fails: it throws and nothing durable changes.
Throw(p) == Return(p) /\ UNCHANGED <<recordVars, connectionVars, registryVars, crashes>>

Init ==
  /\ store = [r \in Requests |-> Absent]
  /\ pastExpiry = {}
  /\ nextRequest = 1
  /\ stale = [r \in Requests |-> Absent]
  /\ active \in [Sites -> MaybeAccount]
  /\ grants = {grant \in Sites \X Accounts : active[grant[1]] = grant[2]}
  /\ default \in MaybeAccount
  /\ markers = [r \in Requests |-> NoMarker]
  /\ committed = [r \in Requests |-> NoMarker]
  /\ commits = [r \in Requests |-> 0]
  /\ groups = [g \in Groups |-> "active"]
  /\ secrets = Groups
  /\ claim = [r \in Requests |-> NoProc]
  /\ groupLock = [g \in Groups |-> NoProc]
  /\ op = [p \in Procs |-> Idle]
  /\ crashes = 0

-----------------------------------------------------------------------------
(* Preparing a request: read the default connection account, then insert.   *)

PrepareConnect(p) ==
  /\ op[p] = Idle /\ "prepare" \in Operations /\ nextRequest <= MaxRequests
  /\ ValidAgainstRegistry(default, active)
  /\ \E a \in Accounts :
       /\ HasKey(a) /\ (default # NoAccount => a = default)
       /\ op' = [op EXCEPT ![p] = [Idle EXCEPT
            !.kind = "prepare", !.at = "insert", !.req = nextRequest,
            !.mem = [status |-> "pending", account |-> a, revision |-> 0]]]
  /\ nextRequest' = nextRequest + 1
  /\ UNCHANGED <<store, pastExpiry, stale, connectionVars, registryVars, lockVars, crashes>>

InsertRecord(p) ==
  /\ op[p].at = "insert"
  /\ store' = [store EXCEPT ![op[p].req] = op[p].mem]
  /\ op' = [op EXCEPT ![p] = Idle]
  /\ UNCHANGED <<pastExpiry, nextRequest, stale, connectionVars, registryVars,
                 lockVars, crashes>>

-----------------------------------------------------------------------------
(* The popup shows a summary; later its decision reaches native code.       *)

OpenReview(p, r) ==
  /\ op[p] = Idle /\ Live(r)
  /\ \E k \in {"approve", "reject"} \intersect Operations :
       op' = [op EXCEPT ![p] = [Idle EXCEPT
         !.kind = k, !.at = "review", !.req = r,
         !.rev = store[r].revision, !.account = store[r].account]]
  /\ UNCHANGED <<recordVars, connectionVars, registryVars, lockVars, crashes>>

ChooseAccount(p, r) ==
  /\ op[p] = Idle /\ "rebind" \in Operations
  /\ IsHead(r)
  /\ \E a \in Eligible :
       op' = [op EXCEPT ![p] = [Idle EXCEPT
         !.kind = "rebind", !.at = "review", !.req = r,
         !.rev = store[r].revision, !.account = a]]
  /\ UNCHANGED <<recordVars, connectionVars, registryVars, lockVars, crashes>>

TransitionAccount(r) ==
  IF markers[r] # NoMarker THEN markers[r].account ELSE store[r].account

\* withGroupClaim: wait for the account's group, or throw when it is not active.
EnterGroup(p, idleOp, a) ==
  /\ a \in Eligible
  /\ op' = [op EXCEPT ![p] = [idleOp EXCEPT !.at = "group", !.group = GroupOf[a]]]
  /\ UNCHANGED <<recordVars, connectionVars, registryVars, lockVars, crashes>>

SubmitDecision(p) ==
  /\ op[p].at = "review"
  /\ LET a == IF op[p].kind = "rebind" THEN op[p].account
              ELSE TransitionAccount(op[p].req)
     IN IF a \in Eligible THEN EnterGroup(p, op[p], a) ELSE Throw(p)

\* The popup's document goes away with its decision unmade.
ClosePopup(p) == op[p].at = "review" /\ Throw(p)

\* A status poll of a terminal record without a marker reads and returns; only
\* the others take the claims.
PollStatus(p, r) ==
  /\ op[p] = Idle /\ "status" \in Operations
  /\ store[r].status = "pending" \/ markers[r] # NoMarker
  /\ EnterGroup(p, [Idle EXCEPT !.kind = "status", !.req = r], TransitionAccount(r))

AcquireGroup(p) ==
  /\ op[p].at = "group" /\ groupLock[op[p].group] = NoProc
  /\ groupLock' = [groupLock EXCEPT ![op[p].group] = p]
  /\ Goto(p, IF op[p].kind = "delete" THEN "mark" ELSE "claim")
  /\ UNCHANGED <<recordVars, connectionVars, registryVars, claim, crashes>>

\* Faulty: the claim is not exclusive.
ClaimShared(p) ==
  /\ op[p].at = "claim"
  /\ claim' = [claim EXCEPT ![op[p].req] = p]
  /\ Goto(p, "read")
  /\ UNCHANGED <<recordVars, connectionVars, registryVars, groupLock, crashes>>

\* The request claim never waits: a second claimant throws, or a poll answers
\* with what it read before.
ClaimRequest(p) ==
  /\ op[p].at = "claim"
  /\ IF claim[op[p].req] = NoProc
     THEN /\ claim' = [claim EXCEPT ![op[p].req] = p]
          /\ Goto(p, "read")
          /\ UNCHANGED <<recordVars, connectionVars, registryVars, groupLock, crashes>>
     ELSE Throw(p)

-----------------------------------------------------------------------------
(* Under both claims: reconcile a committed marker first, decide otherwise.  *)

\* Reading the record and its marker, a handler goes on to step with rec in memory.
ReadInto(p, step, rec) ==
  /\ op' = [op EXCEPT ![p].at = step, ![p].mem = rec]
  /\ UNCHANGED <<recordVars, connectionVars, registryVars, lockVars, crashes>>

\* Faulty: a crash between the consumed record and the removal of its marker is missed.
RecoverPendingOnly(p) ==
  /\ op[p].at = "read"
  /\ LET r == op[p].req IN
       /\ markers[r] # NoMarker
       /\ IF Matches(r) /\ store[r].status = "pending"
          THEN ReadInto(p, "consume", store[r])
          ELSE Throw(p)

RecoverCommit(p) ==
  /\ op[p].at = "read"
  /\ LET r == op[p].req IN
       /\ markers[r] # NoMarker
       /\ IF Matches(r)
          THEN ReadInto(p, IF store[r].status = "pending" THEN "consume" ELSE "settle",
                        store[r])
          ELSE Throw(p)

\* Faulty: whatever was reviewed, the current record is decided.
ReviewedAnyRevision(p, r) == store[r].status = "pending"

Reviewed(p, r) == store[r].status = "pending" /\ op[p].rev = store[r].revision

\* approve, reject and status write the expiry themselves; rebind only refuses.
MayExpire(p, r) ==
  /\ r \in pastExpiry /\ store[r].status = "pending"
  /\ \/ op[p].kind = "status"
     \/ op[p].kind \in {"approve", "reject"} /\ Reviewed(p, r)

ExpireReviewed(p) ==
  /\ op[p].at = "read"
  /\ LET r == op[p].req IN
       /\ markers[r] = NoMarker
       /\ MayExpire(p, r)
       /\ ReadInto(p, "write", [store[r] EXCEPT !.status = "expired"])

Approvable(p, r) ==
  op[p].kind = "approve" /\ Reviewed(p, r) /\ IsHead(r) /\ HasKey(store[r].account)

Rejectable(p, r) == op[p].kind = "reject" /\ Reviewed(p, r) /\ Live(r)

Rebindable(p, r) ==
  op[p].kind = "rebind" /\ Reviewed(p, r) /\ IsHead(r) /\ op[p].rev < MaxRevision

\* Faulty: the record is decided without a look at its marker.
DecideUnrecovered(p) ==
  /\ op[p].at = "read"
  /\ LET r == op[p].req IN
       \/ Approvable(p, r) /\ ReadInto(p, "commit", store[r])
       \/ /\ Rejectable(p, r)
          /\ ReadInto(p, "write", [store[r] EXCEPT !.status = "rejected"])

\* Faulty: the record says consumed before the connection is durable.
ConsumeBeforeCommit(p) ==
  /\ op[p].at = "read"
  /\ LET r == op[p].req IN
       markers[r] = NoMarker /\ Approvable(p, r) /\ ReadInto(p, "consume", store[r])

DecideRequest(p) ==
  /\ op[p].at = "read"
  /\ LET r == op[p].req IN
       /\ markers[r] = NoMarker
       /\ \/ /\ Approvable(p, r)
             /\ ReadInto(p, "commit", store[r])
          \/ /\ Rejectable(p, r)
             /\ ReadInto(p, "write", [store[r] EXCEPT !.status = "rejected"])
          \/ /\ Rebindable(p, r)
             /\ ReadInto(p, "write",
                  [store[r] EXCEPT !.account = op[p].account, !.revision = @ + 1])

\* Already handled, reviewed at another revision, queued, or without a signer.
RefuseReview(p) ==
  /\ op[p].at = "read"
  /\ LET r == op[p].req IN
       /\ markers[r] = NoMarker
       /\ ~MayExpire(p, r) /\ ~Approvable(p, r) /\ ~Rejectable(p, r) /\ ~Rebindable(p, r)
  /\ Throw(p)

\* The decided record replaces whatever the file holds by now.  A rebind looks at
\* the registry once more before it writes.
WriteRecord(p) ==
  /\ op[p].at = "write"
  /\ IF op[p].kind = "rebind" /\ ~HasKey(op[p].account)
     THEN Throw(p)
     ELSE /\ store' = [store EXCEPT ![op[p].req] = op[p].mem]
          /\ Return(p)
          /\ UNCHANGED <<pastExpiry, nextRequest, stale, connectionVars, registryVars,
                         crashes>>

-----------------------------------------------------------------------------
(* The connect commit: grant, active account, default and marker in one      *)
(* connection-state revision; then the record; then the marker goes.         *)

\* Faulty: the connection is committed without its marker.
CommitUnmarked(p) ==
  /\ op[p].at = "commit"
  /\ LET r == op[p].req
         a == op[p].mem.account
     IN /\ grants' = grants \union {<<SiteOf[r], a>>}
        /\ active' = [active EXCEPT ![SiteOf[r]] = a]
        /\ default' = a
        /\ committed' = [committed EXCEPT ![r] =
             [account |-> a, revision |-> op[p].mem.revision]]
        /\ commits' = [commits EXCEPT ![r] = @ + 1]
        /\ Goto(p, "consume")
        /\ UNCHANGED <<recordVars, markers, registryVars, lockVars, crashes>>

CommitConnect(p) ==
  /\ op[p].at = "commit"
  /\ LET r == op[p].req
         a == op[p].mem.account
         s == SiteOf[r]
         marker == [account |-> a, revision |-> op[p].mem.revision]
     IN IF a \in Eligible /\ ValidAgainstRegistry(default, active) /\ markers[r] = NoMarker
        THEN /\ grants' = grants \union {<<s, a>>}
             /\ active' = [active EXCEPT ![s] = a]
             /\ default' = a
             /\ markers' = [markers EXCEPT ![r] = marker]
             /\ committed' = [committed EXCEPT ![r] = marker]
             /\ commits' = [commits EXCEPT ![r] = @ + 1]
             /\ Goto(p, "consume")
             /\ UNCHANGED <<recordVars, registryVars, lockVars, crashes>>
        ELSE Throw(p)

ConsumeRecord(p) ==
  /\ op[p].at = "consume"
  /\ store' = [store EXCEPT ![op[p].req] = [op[p].mem EXCEPT !.status = "consumed"]]
  /\ Goto(p, "settle")
  /\ UNCHANGED <<pastExpiry, nextRequest, stale, connectionVars, registryVars, lockVars,
                 crashes>>

\* The marker goes only after the consumed record has been read back.
SettleMarker(p) ==
  /\ op[p].at = "settle"
  /\ LET r == op[p].req IN
       IF store[r].status = "consumed" /\ store[r].account = markers[r].account
       THEN /\ markers' = [markers EXCEPT ![r] = NoMarker]
            /\ IF op[p].kind = "delete"
               THEN /\ claim' = [claim EXCEPT ![r] = NoProc]
                    /\ op' = [op EXCEPT ![p].at = "markers", ![p].req = 0,
                                        ![p].mem = Absent]
                    /\ UNCHANGED groupLock
               ELSE Return(p)
            /\ UNCHANGED <<recordVars, grants, active, default, committed, commits,
                           registryVars, crashes>>
       ELSE Throw(p)

-----------------------------------------------------------------------------
(* Deleting a wallet group, or resuming the deletion of one.                 *)

\* Every process resumes a deletion it finds.  Only the app starts one, from the groups
\* that adoption has published: it has one window and one main actor, so by then no other
\* group is left in deletion and no other deletion is being started.
Deletable(g) ==
  \/ groups[g] = "deleting"
  \/ /\ groups[g] = "active"
     /\ \A h \in Groups : groups[h] # "deleting"
     /\ \A q \in Procs : op[q].kind = "delete" => groups[op[q].group] = "removed"

BeginDelete(p, g) ==
  /\ op[p] = Idle /\ "delete" \in Operations /\ Deletable(g)
  /\ op' = [op EXCEPT ![p] = [Idle EXCEPT !.kind = "delete", !.at = "group", !.group = g]]
  /\ UNCHANGED <<recordVars, connectionVars, registryVars, lockVars, crashes>>

\* Faulty: a group already in deletion is refused instead of resumed.
MarkActiveOnly(p) ==
  /\ op[p].at = "mark"
  /\ LET g == op[p].group IN
       IF groups[g] # "active" THEN Throw(p)
       ELSE /\ groups' = [groups EXCEPT ![g] = "deleting"]
            /\ op' = [op EXCEPT ![p].at = "markers",
                 ![p].todo = {r \in Requests : markers[r].account \in AccountsOf(g)}]
            /\ UNCHANGED <<recordVars, connectionVars, secrets, lockVars, crashes>>

MarkDeleting(p) ==
  /\ op[p].at = "mark"
  /\ LET g == op[p].group IN
       IF groups[g] = "removed" THEN Throw(p)
       ELSE /\ groups' = [groups EXCEPT ![g] = "deleting"]
            /\ op' = [op EXCEPT ![p].at = "markers",
                 ![p].todo = {r \in Requests : markers[r].account \in AccountsOf(g)}]
            /\ UNCHANGED <<recordVars, connectionVars, secrets, lockVars, crashes>>

ReconcileMarker(p) ==
  /\ op[p].at = "markers"
  /\ \E r \in op[p].todo :
       IF claim[r] = NoProc /\ Matches(r)
       THEN /\ claim' = [claim EXCEPT ![r] = p]
            /\ op' = [op EXCEPT ![p].at = IF store[r].status = "pending"
                                          THEN "consume" ELSE "settle",
                                ![p].req = r, ![p].mem = store[r],
                                ![p].todo = @ \ {r}]
            /\ UNCHANGED <<recordVars, connectionVars, registryVars, groupLock, crashes>>
       ELSE Throw(p)

ListPending(p) ==
  /\ op[p].at = "markers" /\ op[p].todo = {}
  /\ store' = Normalized(store)
  /\ op' = [op EXCEPT ![p].at = "fail",
       ![p].todo = {r \in Requests : store'[r].status = "pending"
                                       /\ store'[r].account \in AccountsOf(op[p].group)}]
  /\ UNCHANGED <<pastExpiry, nextRequest, stale, connectionVars, registryVars, lockVars,
                 crashes>>

\* Faulty: the record listed before the claim is failed without being read again.
FailListed(p) ==
  /\ op[p].at = "fail"
  /\ \E r \in op[p].todo :
       IF claim[r] # NoProc THEN Throw(p)
       ELSE /\ store' = [store EXCEPT ![r].status = "failed"]
            /\ op' = [op EXCEPT ![p].todo = @ \ {r}]
            /\ UNCHANGED <<pastExpiry, nextRequest, stale, connectionVars, registryVars,
                           lockVars, crashes>>

\* The request claim is taken and released around one read and one write.
FailPending(p) ==
  /\ op[p].at = "fail"
  /\ \E r \in op[p].todo :
       IF claim[r] # NoProc THEN Throw(p)
       ELSE /\ LET records == Normalized(store) IN
                 store' = IF records[r].status = "pending"
                          THEN [records EXCEPT ![r].status = "failed"] ELSE records
            /\ op' = [op EXCEPT ![p].todo = @ \ {r}]
            /\ UNCHANGED <<pastExpiry, nextRequest, stale, connectionVars, registryVars,
                           lockVars, crashes>>

DeleteSecret(p) ==
  /\ op[p].at = "fail" /\ op[p].todo = {}
  /\ secrets' = secrets \ {op[p].group}
  /\ Goto(p, "connections")
  /\ UNCHANGED <<recordVars, connectionVars, groups, lockVars, crashes>>

\* Faulty: dormant grants survive the deletion of their account.
RemoveActiveOnly(p) ==
  /\ op[p].at = "connections"
  /\ LET gone == AccountsOf(op[p].group)
         act == [s \in Sites |-> IF active[s] \in gone THEN NoAccount ELSE active[s]]
         defaults == IF default \notin gone THEN {default}
                     ELSE IF Eligible = {} THEN {NoAccount} ELSE Eligible
     IN \E d \in defaults :
          IF /\ \A r \in Requests : markers[r].account \notin gone
             /\ ValidAgainstRegistry(d, act)
          THEN /\ UNCHANGED grants
               /\ active' = act
               /\ default' = d
               /\ Goto(p, "remove")
               /\ UNCHANGED <<recordVars, markers, committed, commits, registryVars,
                              lockVars, crashes>>
          ELSE Throw(p)

\* One revision drops every grant and active mapping of the group and moves the
\* default to a survivor; it is refused unless the result fits the registry.
RemoveConnections(p) ==
  /\ op[p].at = "connections"
  /\ LET gone == AccountsOf(op[p].group)
         act == [s \in Sites |-> IF active[s] \in gone THEN NoAccount ELSE active[s]]
         defaults == IF default \notin gone THEN {default}
                     ELSE IF Eligible = {} THEN {NoAccount} ELSE Eligible
     IN \E d \in defaults :
          IF /\ \A r \in Requests : markers[r].account \notin gone
             /\ ValidAgainstRegistry(d, act)
          THEN /\ grants' = {grant \in grants : grant[2] \notin gone}
               /\ active' = act
               /\ default' = d
               /\ Goto(p, "remove")
               /\ UNCHANGED <<recordVars, markers, committed, commits, registryVars,
                              lockVars, crashes>>
          ELSE Throw(p)

RemoveGroup(p) ==
  /\ op[p].at = "remove"
  /\ groups' = [groups EXCEPT ![op[p].group] = "removed"]
  /\ Return(p)
  /\ UNCHANGED <<recordVars, connectionVars, secrets, crashes>>

-----------------------------------------------------------------------------
(* Disconnection, time, the unclaimed expiry of the store, and process death. *)

Disconnect(s) ==
  /\ active[s] # NoAccount
  /\ ValidAgainstRegistry(default, active)
  /\ grants' = grants \ {<<s, active[s]>>}
  /\ active' = [active EXCEPT ![s] = NoAccount]
  /\ UNCHANGED <<recordVars, default, markers, committed, commits, registryVars, lockVars,
                 op, crashes>>

\* Ten minutes from its creation, so in creation order.
TenMinutesPass(r) ==
  /\ r < nextRequest /\ r \notin pastExpiry
  /\ \A q \in Requests : q < r => q \in pastExpiry
  /\ pastExpiry' = pastExpiry \union {r}
  /\ UNCHANGED <<store, nextRequest, stale, connectionVars, registryVars, lockVars, op,
                 crashes>>

\* list, summarize, record and pending normalise expired records without any claim:
\* they read every record first and write back the copies they read.
ScanExpired ==
  /\ stale = [r \in Requests |-> Absent]
  /\ \E r \in Requests : store[r].status = "pending" /\ r \in pastExpiry
  /\ stale' = [r \in Requests |->
       IF store[r].status = "pending" /\ r \in pastExpiry THEN store[r] ELSE Absent]
  /\ UNCHANGED <<store, pastExpiry, nextRequest, connectionVars, registryVars, lockVars,
                 op, crashes>>

WriteExpired(r) ==
  /\ stale[r] # Absent
  /\ store' = [store EXCEPT ![r] = [stale[r] EXCEPT !.status = "expired"]]
  /\ stale' = [stale EXCEPT ![r] = Absent]
  /\ UNCHANGED <<pastExpiry, nextRequest, connectionVars, registryVars, lockVars, op,
                 crashes>>

\* The process dies, or a write fails and the handler throws: every lock is freed.
Crash(p) ==
  /\ op[p] # Idle /\ crashes < MaxCrashes
  /\ crashes' = crashes + 1
  /\ Return(p)
  /\ UNCHANGED <<recordVars, connectionVars, registryVars>>

-----------------------------------------------------------------------------

Start(p) ==
  \/ PrepareConnect(p)
  \/ \E r \in Requests : OpenReview(p, r) \/ ChooseAccount(p, r) \/ PollStatus(p, r)
  \/ \E g \in Groups : BeginDelete(p, g)

Continue(p) ==
  \/ InsertRecord(p) \/ SubmitDecision(p) \/ ClosePopup(p) \/ ClaimRequest(p)
  \/ RecoverCommit(p) \/ ExpireReviewed(p) \/ DecideRequest(p) \/ RefuseReview(p)
  \/ WriteRecord(p) \/ CommitConnect(p) \/ ConsumeRecord(p) \/ SettleMarker(p)
  \/ MarkDeleting(p) \/ ReconcileMarker(p) \/ ListPending(p) \/ FailPending(p)
  \/ DeleteSecret(p) \/ RemoveConnections(p) \/ RemoveGroup(p)

Environment ==
  \/ \E s \in Sites : Disconnect(s)
  \/ \E r \in Requests : TenMinutesPass(r) \/ WriteExpired(r)
  \/ ScanExpired

Next ==
  \/ \E p \in Procs : Start(p) \/ AcquireGroup(p) \/ Continue(p) \/ Crash(p)
  \/ Environment

Spec == Init /\ [][Next]_vars

\* A handler that has started runs on, a popup is decided or closed in the end, and flock
\* grants a waiting handler the group's claim, however often others take it first.
HandlersRun == \A p \in Procs : WF_vars(Continue(p)) /\ SF_vars(AcquireGroup(p))

FairSpec == Spec /\ HandlersRun

\* Every launch of the app and every Safari message adopts the registry first, and
\* adoption resumes each group it finds in deletion (WalletRegistryAdoption.ensureAdopted).
Resume(g) == \E p \in Procs : groups[g] = "deleting" /\ BeginDelete(p, g)

\* The page that asked polls its request until it has an answer (bridge.js).
Poll(r) == \E p \in Procs : PollStatus(p, r)

ServedSpec ==
  /\ FairSpec
  /\ \A g \in Groups : SF_vars(Resume(g))
  /\ \A r \in Requests : SF_vars(Poll(r))

-----------------------------------------------------------------------------
(* Safety.                                                                  *)

\* A request is answered "consumed" only with the account and at the revision that a
\* connect commit made durable, whatever crashed, expired or was rebound meanwhile
\* (approvePlainConnect, reconcileConnectCommit).
ConsumedWasCommitted ==
  \A r \in Requests : store[r].status = "consumed" =>
    committed[r] = [account |-> store[r].account, revision |-> store[r].revision]

\* A committed connection keeps its marker until its record says consumed; only the
\* unclaimed expiry of a request that has run out may overwrite that answer.
MarkerUntilConsumed ==
  \A r \in Requests : committed[r] # NoMarker /\ markers[r] = NoMarker =>
    \/ store[r].status = "consumed"
    \/ store[r].status = "expired" /\ r \in pastExpiry

\* A request the user rejected never connects its site, not even when the rejection
\* raced an approval from another surface.
RejectedNeverConnects ==
  \A r \in Requests : store[r].status = "rejected" => committed[r] = NoMarker

\* When a group has left the registry nothing it owned is left behind: no secret, no
\* grant, no active connection, no default and no unsettled commit names it.
RemovedGroupHasNoAuthority ==
  \A g \in Groups : groups[g] = "removed" =>
    /\ g \notin secrets
    /\ \A a \in AccountsOf(g) :
         /\ default # a
         /\ \A s \in Sites : active[s] # a /\ <<s, a>> \notin grants
         /\ \A r \in Requests : markers[r].account # a

\* A request grants authority at most once: it makes no second connect commit, not even the
\* same one again, when a handler comes back to it after a crash between the commit, the
\* consumed record and the removal of the marker (reconcileConnectCommit).
SingleCommit == \A r \in Requests : commits[r] <= 1

\* The account a commit connects is the account its popup showed when the user
\* approved, although the request can be rebound from another surface meanwhile.
ApprovedWhatWasShown ==
  [][\A r \in Requests : commits'[r] # commits[r] =>
       \E p \in Procs : /\ op[p].kind = "approve" /\ op[p].req = r
                        /\ committed'[r] = [account |-> op[p].account,
                                            revision |-> op[p].rev]]_vars

\* A decision is final: consumed, rejected and failed are left only for expired, and
\* only once the request has run out.
FinalDecision ==
  [][\A r \in Requests :
       store[r].status \in {"consumed", "rejected", "failed"}
         /\ store'[r].status # store[r].status =>
       store'[r].status = "expired" /\ r \in pastExpiry]_vars

-----------------------------------------------------------------------------
(* Liveness.                                                                *)

\* Every handler that has left the popup returns: waiting for a group's claim and
\* finding a request claimed never leave two handlers waiting for each other.
HandlersReturn ==
  \A p \in Procs : op[p].at \notin {"idle", "review"} ~> op[p] = Idle

\* "Relaunch resumes an interrupted deleting group": an interrupted deletion finishes once
\* it is resumed, through busy requests, lost races and its own crashes.  One thing alone
\* holds it up for good: a committed connect whose record no longer says pending or
\* consumed.
DeletionFinishes ==
  \A g \in Groups : groups[g] = "deleting" ~>
    \/ groups[g] = "removed"
    \/ \E r \in Requests : markers[r].account \in AccountsOf(g) /\ ~Matches(r)

\* A commit that was interrupted before its record said consumed is completed by the
\* next poll, decision or deletion that comes across its marker, unless the record has
\* meanwhile been overwritten as expired or failed.
CommittedConnectSettles ==
  \A r \in Requests :
    markers[r] # NoMarker ~> markers[r] = NoMarker \/ ~Matches(r)

-----------------------------------------------------------------------------
(* What the documents say and the code does not do.                         *)

\* Deletion "terminalizes matching pending requests": a group is not removed while a
\* request that was to be signed by its account is still pending.
RemovedGroupLeavesNoRequest ==
  \A r \in Requests : Live(r) => groups[GroupOf[store[r].account]] # "removed"

\* Deletion terminalizes only matching requests: those of the group's own accounts.
OnlyOwnRequestsFail ==
  [][\A r \in Requests :
       store'[r].status = "failed" /\ store[r].status # "failed"
         => groups[GroupOf[store[r].account]] = "deleting"]_vars

\* "Persisted status so a suspending service worker and a polling page converge": an
\* answer that was given once is given ever after.
AnswersConverge ==
  [][\A r \in Requests :
       store[r].status \in {"consumed", "rejected", "failed"}
         => store'[r].status = store[r].status]_vars

-----------------------------------------------------------------------------
(* What the deletion of a group is to the rest of the wallet.               *)

GroupsNamed ==
  {g \in Groups : \E a \in AccountsOf(g) :
     \/ default = a
     \/ \E s \in Sites : active[s] = a \/ <<s, a>> \in grants
     \/ \E r \in Requests : markers[r].account = a}

Authority == INSTANCE GroupAuthority WITH
  phase <- [g \in Groups |-> IF groups[g] = "removed" THEN "gone" ELSE groups[g]],
  named <- GroupsNamed

\* A deletion only takes away, whatever connects, recovers or is decided beside it: requests
\* approved in any process give authority to active groups alone, and a group is gone only
\* when no grant, connection, default, unsettled commit or secret is left of it.
Implements == Authority!Spec
=============================================================================
