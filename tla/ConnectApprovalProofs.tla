------------------------ MODULE ConnectApprovalProofs ------------------------
(***************************************************************************)
(* The safety of connect approval for any number of requests, handlers,     *)
(* groups, accounts and crashes.                                            *)
(***************************************************************************)
EXTENDS ConnectApproval, TLAPS

-----------------------------------------------------------------------------
(* The inductive invariant.                                                  *)

\* A handler that names a request names one that exists.
NamesRequest(p) ==
  \/ op[p].at \in {"insert", "review", "claim", "read", "write", "commit", "consume",
                   "settle"}
  \/ op[p].at = "group" /\ op[p].kind # "delete"
  => op[p].req \in Requests

\* From reading a record to the removal of its marker a handler holds its claim.
HoldsClaim(p) ==
  op[p].at \in {"read", "write", "commit", "consume", "settle"} => claim[op[p].req] = p

\* A prepared request has not been stored yet.
InsertsFresh(p) ==
  op[p].at = "insert" =>
    /\ op[p].req < nextRequest
    /\ store[op[p].req].status = "absent"
    /\ op[p].mem.status = "pending"

\* While a handler is deciding, only the expiry scan writes its record.
Undecided(p) ==
  op[p].at \in {"write", "commit", "consume"} =>
    store[op[p].req].status \in {"pending", "expired"}

\* A decision other than a commit is written only where nothing was committed.
Uncommitted(p) ==
  /\ op[p].at \in {"write", "commit"} => committed[op[p].req] = NoMarker
  /\ op[p].at = "write" => op[p].mem.status \in {"pending", "rejected", "expired"}

\* The record about to be written as consumed is the one that was committed.
Consuming(p) ==
  op[p].at = "consume" =>
    committed[op[p].req] =
      [account |-> op[p].mem.account, revision |-> op[p].mem.revision]

HandlerInv(p) ==
  /\ NamesRequest(p) /\ HoldsClaim(p) /\ InsertsFresh(p)
  /\ Undecided(p) /\ Uncommitted(p) /\ Consuming(p)

\* Nothing is stored, scanned or committed before a request is created; only requests
\* that have run out are scanned; a marker is the commit it stands for.
RecordInv(r) ==
  /\ r >= nextRequest => store[r].status = "absent"
  /\ store[r].status = "absent" => committed[r] = NoMarker
  /\ stale[r] # Absent => r \in pastExpiry /\ store[r].status # "absent"
  /\ markers[r] # NoMarker => markers[r] = committed[r]

InsertedOnce ==
  \A p, q \in Procs :
    op[p].at = "insert" /\ op[q].at = "insert" /\ op[p].req = op[q].req => p = q

IInv ==
  /\ TypeOK /\ InsertedOnce
  /\ \A p \in Procs : HandlerInv(p)
  /\ \A r \in Requests : RecordInv(r)
  /\ ConsumedWasCommitted /\ MarkerUntilConsumed /\ RejectedNeverConnects

-----------------------------------------------------------------------------
(* Type correctness, one lemma for each group of actions.                    *)

LEMMA InitTyped == Init => TypeOK
  BY ConstantsAssumption
  DEF Init, TypeOK, Record, Absent, Marker, NoMarker, MaybeAccount, Op, Idle, Steps, Kinds, Statuses,
      Requests

LEMMA IdleTyped == Idle \in Op
  BY ConstantsAssumption DEF Idle, Op, Steps, Kinds, MaybeAccount, Absent, Record, Statuses

LEMMA AbsentTyped == Absent \in Record
  BY ConstantsAssumption DEF Absent, Record, MaybeAccount

\* A well-typed value in one field leaves the state of a handler well typed.
LEMMA OpUpdates ==
  ASSUME NEW o \in Op
  PROVE  /\ \A k \in Kinds : [o EXCEPT !.kind = k] \in Op
         /\ \A step \in Steps : [o EXCEPT !.at = step] \in Op
         /\ \A r \in 0..MaxRequests : [o EXCEPT !.req = r] \in Op
         /\ \A n \in 0..MaxRevision : [o EXCEPT !.rev = n] \in Op
         /\ \A a \in MaybeAccount : [o EXCEPT !.account = a] \in Op
         /\ \A g \in Groups : [o EXCEPT !.group = g] \in Op
         /\ \A rec \in Record : [o EXCEPT !.mem = rec] \in Op
         /\ \A todo \in SUBSET Requests : [o EXCEPT !.todo = todo] \in Op
  BY DEF Op

LEMMA GotoTyped ==
  ASSUME op \in [Procs -> Op], NEW p \in Procs, NEW step \in Steps, Goto(p, step)
  PROVE  op' \in [Procs -> Op]
  BY DEF Op, Goto

LEMMA ReadIntoTyped ==
  ASSUME TypeOK, NEW p \in Procs, NEW step \in Steps, NEW rec \in Record,
         ReadInto(p, step, rec)
  PROVE  TypeOK'
<1>1. [op[p] EXCEPT !.at = step, !.mem = rec] \in Op
  BY OpUpdates DEF TypeOK
<1>2. op' \in [Procs -> Op]
  BY <1>1 DEF ReadInto, TypeOK
<1> QED
  BY <1>2 DEF ReadInto, TypeOK, recordVars, connectionVars, registryVars, lockVars

LEMMA ReturnTyped ==
  ASSUME TypeOK, NEW p \in Procs, Return(p)
  PROVE  /\ op' \in [Procs -> Op]
         /\ claim' \in [Requests -> Procs \union {NoProc}]
         /\ groupLock' \in [Groups -> Procs \union {NoProc}]
  BY ConstantsAssumption
  DEF TypeOK, Return, Release, Op, Idle, Steps, Kinds, Statuses, MaybeAccount, Absent,
      Record, Requests

\* TypeOK without what the handlers are doing.
Durable ==
  /\ store \in [Requests -> Record]
  /\ pastExpiry \subseteq Requests
  /\ nextRequest \in 1..(MaxRequests + 1)
  /\ stale \in [Requests -> Record]
  /\ grants \subseteq Sites \X Accounts
  /\ active \in [Sites -> MaybeAccount]
  /\ default \in MaybeAccount
  /\ markers \in [Requests -> Marker]
  /\ committed \in [Requests -> Marker]
  /\ commits \in [Requests -> Nat]
  /\ groups \in [Groups -> {"active", "deleting", "removed"}]
  /\ secrets \subseteq Groups
  /\ claim \in [Requests -> Procs \union {NoProc}]
  /\ groupLock \in [Groups -> Procs \union {NoProc}]
  /\ crashes \in 0..MaxCrashes

LEMMA TypeParts == TypeOK <=> Durable /\ op \in [Procs -> Op]
  BY DEF TypeOK, Durable

LEMMA TypePartsPrimed == Durable' /\ op' \in [Procs -> Op] => TypeOK'
  BY DEF TypeOK, Durable

LEMMA ThrowTyped ==
  ASSUME TypeOK, NEW p \in Procs, Throw(p)
  PROVE  TypeOK'
<1>1. Return(p)
  BY DEF Throw
<1>2. Durable'
  BY <1>1, ReturnTyped
  DEF Throw, TypeOK, Durable, recordVars, connectionVars, registryVars
<1>3. QED
  BY <1>1, <1>2, ReturnTyped, TypePartsPrimed

LEMMA EnterTyped ==
  ASSUME TypeOK, NEW p \in Procs, NEW o \in Op, NEW a, EnterGroup(p, o, a)
  PROVE  TypeOK'
<1>1. "group" \in Steps /\ GroupOf[a] \in Groups
  BY ConstantsAssumption DEF EnterGroup, Eligible, Steps
<1>2. [o EXCEPT !.at = "group", !.group = GroupOf[a]] \in Op
  BY <1>1, OpUpdates
<1>3. op' \in [Procs -> Op]
  BY <1>2 DEF EnterGroup, TypeOK
<1> QED
  BY <1>3 DEF EnterGroup, TypeOK, recordVars, connectionVars, registryVars, lockVars

LEMMA StartTyped ==
  ASSUME TypeOK, NEW p \in Procs, Start(p)
  PROVE  TypeOK'
<1>1. CASE PrepareConnect(p)
  <2>1. PICK a \in Accounts : op' = [op EXCEPT ![p] = [Idle EXCEPT
            !.kind = "prepare", !.at = "insert", !.req = nextRequest,
            !.mem = [status |-> "pending", account |-> a, revision |-> 0]]]
    BY <1>1 DEF PrepareConnect
  <2>2. /\ "prepare" \in Kinds /\ "insert" \in Steps /\ nextRequest \in 0..MaxRequests
        /\ [status |-> "pending", account |-> a, revision |-> 0] \in Record
    BY <1>1, ConstantsAssumption
    DEF PrepareConnect, TypeOK, Kinds, Steps, Record, Statuses, MaybeAccount
  <2>3. [Idle EXCEPT !.kind = "prepare", !.at = "insert", !.req = nextRequest] \in Op
    BY <2>2, IdleTyped, OpUpdates
  <2>4. [Idle EXCEPT !.kind = "prepare", !.at = "insert", !.req = nextRequest,
           !.mem = [status |-> "pending", account |-> a, revision |-> 0]] \in Op
    BY <2>2, <2>3, OpUpdates
  <2>5. op' \in [Procs -> Op]
    BY <2>1, <2>4 DEF TypeOK
  <2>6. Durable'
    BY <1>1, ConstantsAssumption
    DEF PrepareConnect, TypeOK, Durable, connectionVars, registryVars, lockVars
  <2> QED
    BY <2>5, <2>6, TypePartsPrimed
<1>2. ASSUME NEW r \in Requests, OpenReview(p, r) PROVE TypeOK'
  <2>1. PICK k \in {"approve", "reject"} : op' = [op EXCEPT ![p] = [Idle EXCEPT
         !.kind = k, !.at = "review", !.req = r,
         !.rev = store[r].revision, !.account = store[r].account]]
    BY <1>2 DEF OpenReview
  <2>2. /\ k \in Kinds /\ "review" \in Steps /\ r \in 0..MaxRequests
        /\ store[r].revision \in 0..MaxRevision /\ store[r].account \in MaybeAccount
    BY ConstantsAssumption DEF TypeOK, Record, Kinds, Steps, Requests
  <2>3. [Idle EXCEPT !.kind = k, !.at = "review", !.req = r] \in Op
    BY <2>2, IdleTyped, OpUpdates
  <2>4. [Idle EXCEPT !.kind = k, !.at = "review", !.req = r, !.rev = store[r].revision,
           !.account = store[r].account] \in Op
    BY <2>2, <2>3, OpUpdates
  <2>5. op' \in [Procs -> Op]
    BY <2>1, <2>4 DEF TypeOK
  <2> QED
    BY <1>2, <2>5 DEF OpenReview, TypeOK, recordVars, connectionVars, registryVars, lockVars
<1>3. ASSUME NEW r \in Requests, ChooseAccount(p, r) PROVE TypeOK'
  <2>1. PICK a \in Accounts : op' = [op EXCEPT ![p] = [Idle EXCEPT
         !.kind = "rebind", !.at = "review", !.req = r,
         !.rev = store[r].revision, !.account = a]]
    BY <1>3 DEF ChooseAccount, Eligible
  <2>2. /\ "rebind" \in Kinds /\ "review" \in Steps /\ r \in 0..MaxRequests
        /\ store[r].revision \in 0..MaxRevision /\ a \in MaybeAccount
    BY ConstantsAssumption DEF TypeOK, Record, Kinds, Steps, Requests, MaybeAccount
  <2>3. [Idle EXCEPT !.kind = "rebind", !.at = "review", !.req = r] \in Op
    BY <2>2, IdleTyped, OpUpdates
  <2>4. [Idle EXCEPT !.kind = "rebind", !.at = "review", !.req = r,
           !.rev = store[r].revision, !.account = a] \in Op
    BY <2>2, <2>3, OpUpdates
  <2>5. op' \in [Procs -> Op]
    BY <2>1, <2>4 DEF TypeOK
  <2> QED
    BY <1>3, <2>5
    DEF ChooseAccount, TypeOK, recordVars, connectionVars, registryVars, lockVars
<1>4. ASSUME NEW r \in Requests, PollStatus(p, r) PROVE TypeOK'
  <2>1. "status" \in Kinds /\ r \in 0..MaxRequests
    BY ConstantsAssumption DEF Kinds, Requests
  <2>2. [Idle EXCEPT !.kind = "status", !.req = r] \in Op
    BY <2>1, IdleTyped, OpUpdates
  <2> QED
    BY <1>4, <2>2, EnterTyped DEF PollStatus
<1>5. ASSUME NEW g \in Groups, BeginDelete(p, g) PROVE TypeOK'
  <2>1. "delete" \in Kinds /\ "group" \in Steps
    BY DEF Kinds, Steps
  <2>2. [Idle EXCEPT !.kind = "delete", !.at = "group", !.group = g] \in Op
    BY <2>1, IdleTyped, OpUpdates
  <2>3. op' \in [Procs -> Op]
    BY <1>5, <2>2 DEF BeginDelete, TypeOK
  <2> QED
    BY <1>5, <2>3 DEF BeginDelete, TypeOK, recordVars, connectionVars, registryVars, lockVars
<1> QED
  BY <1>1, <1>2, <1>3, <1>4, <1>5 DEF Start

LEMMA NormalizedTyped ==
  ASSUME NEW records \in [Requests -> Record]
  PROVE  Normalized(records) \in [Requests -> Record]
<1>1. \A r \in Requests : [records[r] EXCEPT !.status = "expired"] \in Record
  BY DEF Record, Statuses
<1> QED
  BY <1>1 DEF Normalized

LEMMA ContinueTyped ==
  ASSUME TypeOK, NEW p \in Procs, NamesRequest(p), AcquireGroup(p) \/ Continue(p) \/ Crash(p)
  PROVE  TypeOK'
<1> SUFFICES ASSUME ~Throw(p) PROVE TypeOK'
  BY ThrowTyped
<1>0. /\ op[p] \in Op /\ op[p].mem \in Record /\ op[p].todo \in SUBSET Requests
      /\ \A r \in Requests : store[r] \in Record
      /\ op[p].at \in {"read", "commit"} => op[p].req \in Requests
  BY DEF TypeOK, Op, NamesRequest
<1>1. CASE InsertRecord(p)
  <2>1. op' \in [Procs -> Op]
    BY <1>1, IdleTyped DEF InsertRecord, TypeOK
  <2>2. store' \in [Requests -> Record]
    BY <1>0, <1>1 DEF InsertRecord, TypeOK
  <2> QED
    BY <1>1, <2>1, <2>2 DEF InsertRecord, TypeOK, connectionVars, registryVars, lockVars
<1>2. CASE SubmitDecision(p)
  BY <1>0, <1>2, EnterTyped DEF SubmitDecision
<1>3. CASE AcquireGroup(p)
  <2>1. "mark" \in Steps /\ "claim" \in Steps
    BY DEF Steps
  <2>2. op' \in [Procs -> Op]
    BY <1>3, <2>1, GotoTyped DEF AcquireGroup, TypeOK
  <2> QED
    BY <1>3, <2>2 DEF AcquireGroup, TypeOK, recordVars, connectionVars, registryVars
<1>4. CASE ClaimRequest(p)
  <2>1. "read" \in Steps
    BY DEF Steps
  <2>2. op' \in [Procs -> Op]
    BY <1>4, <2>1, GotoTyped DEF ClaimRequest, TypeOK
  <2> QED
    BY <1>4, <2>2 DEF ClaimRequest, TypeOK, recordVars, connectionVars, registryVars
<1>5. CASE RecoverCommit(p)
  <2>1. "consume" \in Steps /\ "settle" \in Steps
    BY DEF Steps
  <2> QED
    BY <1>0, <1>5, <2>1, ReadIntoTyped DEF RecoverCommit
<1>6. CASE ExpireReviewed(p)
  <2>1. "write" \in Steps /\ [store[op[p].req] EXCEPT !.status = "expired"] \in Record
    BY <1>0, <1>6 DEF ExpireReviewed, Steps, Record, Statuses
  <2> QED
    BY <1>6, <2>1, ReadIntoTyped DEF ExpireReviewed
<1>7. CASE DecideRequest(p)
  <2> DEFINE r == op[p].req
  <2>1. "write" \in Steps /\ "commit" \in Steps
    BY DEF Steps
  <2>2. [store[r] EXCEPT !.status = "rejected"] \in Record
    BY <1>0, <1>7 DEF DecideRequest, Record, Statuses
  <2>3. Rebindable(p, r) => store[r].revision + 1 \in 0..MaxRevision
    BY <1>0, <1>7, ConstantsAssumption DEF DecideRequest, Rebindable, Reviewed, Record
  <2>4. op[p].account \in MaybeAccount
    BY <1>0 DEF Op
  <2>5. [store[r] EXCEPT !.account = op[p].account] \in Record
    BY <1>0, <1>7, <2>4 DEF DecideRequest, Record
  <2>6. Rebindable(p, r) =>
          [store[r] EXCEPT !.account = op[p].account, !.revision = @ + 1] \in Record
    BY <1>0, <1>7, <2>3, <2>4 DEF DecideRequest, Record
  <2> QED
    BY <1>0, <1>7, <2>1, <2>2, <2>6, ReadIntoTyped DEF DecideRequest
<1>8. ~RefuseReview(p)
  BY DEF RefuseReview
<1>9. CASE WriteRecord(p)
  <2>1. Return(p) /\ store' \in [Requests -> Record]
    BY <1>0, <1>9 DEF WriteRecord, TypeOK
  <2> QED
    BY <1>9, <2>1, ReturnTyped DEF WriteRecord, TypeOK, connectionVars, registryVars
<1>10. CASE CommitConnect(p)
  <2> DEFINE a == op[p].mem.account
             marker == [account |-> a, revision |-> op[p].mem.revision]
  <2>1. "consume" \in Steps /\ a \in Accounts /\ a \in MaybeAccount /\ marker \in Marker
    BY <1>0, <1>10 DEF CommitConnect, Steps, Eligible, MaybeAccount, Marker, Record
  <2>2. op' \in [Procs -> Op]
    BY <1>10, <2>1, GotoTyped DEF CommitConnect, TypeOK
  <2>3. /\ markers' \in [Requests -> Marker] /\ committed' \in [Requests -> Marker]
        /\ commits' \in [Requests -> Nat]
    BY <1>10, <2>1 DEF CommitConnect, TypeOK
  <2>4. /\ active' \in [Sites -> MaybeAccount]
        /\ default' \in MaybeAccount
    BY <1>10, <2>1 DEF CommitConnect, TypeOK
  <2>5. grants' \subseteq Sites \X Accounts
    BY <1>0, <1>10, <2>1, ConstantsAssumption DEF CommitConnect, TypeOK
  <2> QED
    BY <1>10, <2>2, <2>3, <2>4, <2>5
    DEF CommitConnect, TypeOK, recordVars, registryVars, lockVars
<1>11. CASE ConsumeRecord(p)
  <2>1. "settle" \in Steps /\ [op[p].mem EXCEPT !.status = "consumed"] \in Record
    BY <1>0 DEF Steps, Record, Statuses
  <2>2. op' \in [Procs -> Op]
    BY <1>11, <2>1, GotoTyped DEF ConsumeRecord, TypeOK
  <2>3. store' \in [Requests -> Record]
    BY <1>11, <2>1 DEF ConsumeRecord, TypeOK
  <2>4. /\ UNCHANGED <<pastExpiry, nextRequest, stale, crashes, groups, secrets, claim, groupLock>>
        /\ UNCHANGED <<grants, active, default, markers, committed, commits>>
    BY <1>11 DEF ConsumeRecord, connectionVars, registryVars, lockVars
  <2> QED
    BY <2>2, <2>3, <2>4 DEF TypeOK
<1>12. CASE SettleMarker(p)
  <2>1. markers' \in [Requests -> Marker]
    <3>1. NoMarker \in Marker
      BY ConstantsAssumption DEF NoMarker, Marker, MaybeAccount
    <3>2. markers' = markers \/ markers' = [markers EXCEPT ![op[p].req] = NoMarker]
      BY <1>12 DEF SettleMarker, connectionVars
    <3> QED
      BY <3>1, <3>2 DEF TypeOK
  <2>2. CASE op[p].kind = "delete"
    <3>1. "markers" \in Steps /\ 0 \in 0..MaxRequests /\ Absent \in Record
      BY ConstantsAssumption, AbsentTyped DEF Steps
    <3>2. [op[p] EXCEPT !.at = "markers", !.req = 0] \in Op
      BY <1>0, <3>1, OpUpdates
    <3>3. [op[p] EXCEPT !.at = "markers", !.req = 0, !.mem = Absent] \in Op
      BY <3>1, <3>2, OpUpdates
    <3>4. op' = [op EXCEPT ![p] = [op[p] EXCEPT !.at = "markers", !.req = 0, !.mem = Absent]]
      BY <1>12, <2>2 DEF SettleMarker, TypeOK
    <3>5. op' \in [Procs -> Op]
      BY <3>3, <3>4 DEF TypeOK
    <3> QED
      BY <1>12, <2>1, <2>2, <3>5 DEF SettleMarker, TypeOK, recordVars, registryVars
  <2>3. CASE op[p].kind # "delete"
    BY <1>12, <2>1, <2>3, ReturnTyped DEF SettleMarker, TypeOK, recordVars, registryVars
  <2> QED
    BY <2>2, <2>3
<1>13. CASE MarkDeleting(p)
  <2> DEFINE due == {r \in Requests : markers[r].account \in AccountsOf(op[p].group)}
  <2>1. "markers" \in Steps /\ due \in SUBSET Requests
    BY DEF Steps
  <2>2. [op[p] EXCEPT !.at = "markers", !.todo = due] \in Op
    BY <1>0, <2>1, OpUpdates
  <2>3. op' = [op EXCEPT ![p] = [op[p] EXCEPT !.at = "markers", !.todo = due]]
    BY <1>13 DEF MarkDeleting, TypeOK
  <2>4. op' \in [Procs -> Op]
    BY <2>2, <2>3 DEF TypeOK
  <2> QED
    BY <1>13, <2>4 DEF MarkDeleting, TypeOK, recordVars, connectionVars, lockVars
<1>14. CASE ReconcileMarker(p)
  <2>1. PICK r \in op[p].todo, step \in {"consume", "settle"} :
          /\ claim' = [claim EXCEPT ![r] = p]
          /\ op' = [op EXCEPT ![p] = [op[p] EXCEPT !.at = step, !.req = r,
                                                  !.mem = store[r], !.todo = @ \ {r}]]
          /\ UNCHANGED <<recordVars, connectionVars, registryVars, groupLock, crashes>>
    <3>1. PICK r \in op[p].todo :
            /\ claim' = [claim EXCEPT ![r] = p]
            /\ op' = [op EXCEPT ![p].at = IF store[r].status = "pending"
                                          THEN "consume" ELSE "settle",
                                ![p].req = r, ![p].mem = store[r],
                                ![p].todo = @ \ {r}]
            /\ UNCHANGED <<recordVars, connectionVars, registryVars, groupLock, crashes>>
      BY <1>14 DEF ReconcileMarker
    <3> QED
      BY <3>1 DEF TypeOK
  <2>2. /\ step \in Steps /\ r \in Requests /\ r \in 0..MaxRequests
        /\ store[r] \in Record /\ op[p].todo \ {r} \in SUBSET Requests
    BY <1>0, ConstantsAssumption DEF Steps, Requests
  <2>3. [op[p] EXCEPT !.at = step, !.req = r] \in Op
    BY <1>0, <2>2, OpUpdates
  <2>4. [op[p] EXCEPT !.at = step, !.req = r, !.mem = store[r]] \in Op
    BY <2>2, <2>3, OpUpdates
  <2>5. [op[p] EXCEPT !.at = step, !.req = r, !.mem = store[r], !.todo = @ \ {r}] \in Op
    BY <2>2, <2>4 DEF Op
  <2>6. op' \in [Procs -> Op] /\ claim' \in [Requests -> Procs \union {NoProc}]
    BY <2>1, <2>2, <2>5 DEF TypeOK
  <2> QED
    BY <2>1, <2>6 DEF TypeOK, recordVars, connectionVars, registryVars
<1>15. CASE ListPending(p)
  <2> DEFINE due == {r \in Requests : store'[r].status = "pending"
                                       /\ store'[r].account \in AccountsOf(op[p].group)}
  <2>1. store' \in [Requests -> Record]
    BY <1>15, NormalizedTyped DEF ListPending, TypeOK
  <2>2. "fail" \in Steps /\ due \in SUBSET Requests
    BY DEF Steps
  <2>3. [op[p] EXCEPT !.at = "fail", !.todo = due] \in Op
    BY <1>0, <2>2, OpUpdates
  <2>4. op' = [op EXCEPT ![p] = [op[p] EXCEPT !.at = "fail", !.todo = due]]
    BY <1>15 DEF ListPending, TypeOK
  <2>5. op' \in [Procs -> Op]
    BY <2>3, <2>4 DEF TypeOK
  <2> QED
    BY <1>15, <2>1, <2>5 DEF ListPending, TypeOK, connectionVars, registryVars, lockVars
<1>16. CASE FailPending(p)
  <2>1. PICK r \in op[p].todo :
          /\ store' = IF Normalized(store)[r].status = "pending"
                      THEN [Normalized(store) EXCEPT ![r].status = "failed"]
                      ELSE Normalized(store)
          /\ op' = [op EXCEPT ![p] = [op[p] EXCEPT !.todo = @ \ {r}]]
    BY <1>16 DEF FailPending, TypeOK
  <2>2. Normalized(store) \in [Requests -> Record]
    BY NormalizedTyped DEF TypeOK
  <2>3. [Normalized(store)[r] EXCEPT !.status = "failed"] \in Record
    BY <1>0, <2>2 DEF Record, Statuses
  <2>4. store' \in [Requests -> Record]
    BY <2>1, <2>2, <2>3
  <2>5. [op[p] EXCEPT !.todo = @ \ {r}] \in Op
    BY <1>0 DEF Op
  <2>6. op' \in [Procs -> Op]
    BY <2>1, <2>5 DEF TypeOK
  <2> QED
    BY <1>16, <2>4, <2>6 DEF FailPending, TypeOK, connectionVars, registryVars, lockVars
<1>17. CASE DeleteSecret(p)
  <2>1. "connections" \in Steps
    BY DEF Steps
  <2>2. op' \in [Procs -> Op]
    BY <1>17, <2>1, GotoTyped DEF DeleteSecret, TypeOK
  <2> QED
    BY <1>17, <2>2 DEF DeleteSecret, TypeOK, recordVars, connectionVars, lockVars
<1>18. CASE RemoveConnections(p)
  <2> DEFINE gone == AccountsOf(op[p].group)
  <2>1. PICK d \in MaybeAccount :
          /\ grants' = {grant \in grants : grant[2] \notin gone}
          /\ active' = [s \in Sites |-> IF active[s] \in gone THEN NoAccount ELSE active[s]]
          /\ default' = d
          /\ Goto(p, "remove")
          /\ UNCHANGED <<recordVars, markers, committed, commits, registryVars, lockVars,
                         crashes>>
    BY <1>18 DEF RemoveConnections, Eligible, MaybeAccount, TypeOK
  <2>2. "remove" \in Steps
    BY DEF Steps
  <2>3. op' \in [Procs -> Op]
    BY <2>1, <2>2, GotoTyped DEF TypeOK
  <2>4. active' \in [Sites -> MaybeAccount] /\ grants' \subseteq Sites \X Accounts
    BY <2>1 DEF TypeOK, MaybeAccount
  <2> QED
    BY <2>1, <2>3, <2>4 DEF TypeOK, recordVars, registryVars, lockVars
<1>19. CASE RemoveGroup(p)
  <2>1. Return(p) /\ groups' \in [Groups -> {"active", "deleting", "removed"}]
    BY <1>19 DEF RemoveGroup, TypeOK
  <2> QED
    BY <1>19, <2>1, ReturnTyped DEF RemoveGroup, TypeOK, recordVars, connectionVars
<1>20. CASE Crash(p)
  <2>1. Return(p) /\ crashes' \in 0..MaxCrashes
    BY <1>20, ConstantsAssumption DEF Crash, TypeOK
  <2> QED
    BY <1>20, <2>1, ReturnTyped DEF Crash, TypeOK, recordVars, connectionVars, registryVars
<1> QED
  BY <1>1, <1>2, <1>3, <1>4, <1>5, <1>6, <1>7, <1>8, <1>9, <1>10, <1>11, <1>12, <1>13,
     <1>14, <1>15, <1>16, <1>17, <1>18, <1>19, <1>20
  DEF Continue, ClosePopup

LEMMA EnvironmentTyped ==
  ASSUME TypeOK, Environment
  PROVE  TypeOK'
<1>1. ASSUME NEW s \in Sites, Disconnect(s) PROVE TypeOK'
  BY <1>1
  DEF Disconnect, TypeOK, MaybeAccount, recordVars, registryVars, lockVars
<1>2. ASSUME NEW r \in Requests, TenMinutesPass(r) PROVE TypeOK'
  BY <1>2 DEF TenMinutesPass, TypeOK, connectionVars, registryVars, lockVars
<1>3. ASSUME NEW r \in Requests, WriteExpired(r) PROVE TypeOK'
  <2>1. [stale[r] EXCEPT !.status = "expired"] \in Record
    BY DEF TypeOK, Record, Statuses
  <2>2. store' \in [Requests -> Record] /\ stale' \in [Requests -> Record]
    BY <1>3, <2>1, AbsentTyped DEF WriteExpired, TypeOK
  <2> QED
    BY <1>3, <2>2 DEF WriteExpired, TypeOK, connectionVars, registryVars, lockVars
<1>4. CASE ScanExpired
  <2>1. stale' \in [Requests -> Record]
    BY <1>4, AbsentTyped DEF ScanExpired, TypeOK
  <2> QED
    BY <1>4, <2>1 DEF ScanExpired, TypeOK, connectionVars, registryVars, lockVars
<1> QED
  BY <1>1, <1>2, <1>3, <1>4 DEF Environment

-----------------------------------------------------------------------------
(* The invariant is preserved.                                             *)

\* What a handler can change of one record: nothing, its expiry, or what nobody else
\* has claimed.
Touches(p, r) ==
  \/ store'[r] = store[r] /\ markers'[r] = markers[r] /\ committed'[r] = committed[r]
  \/ /\ store[r].status = "pending" /\ store'[r].status = "expired"
     /\ markers'[r] = markers[r] /\ committed'[r] = committed[r]
  \/ /\ claim[r] \in {p, NoProc}
     /\ store[r].status # "absent" /\ store'[r].status # "absent"

\* A step of p moves no other handler and takes no other handler's claim.
MovesOnly(p) ==
  /\ \A q \in Procs \ {p} : op'[q] = op[q]
  /\ \A q \in Procs \ {p}, r \in Requests : claim[r] = q => claim'[r] = q

Safe(r) ==
  /\ store[r].status = "consumed" =>
       committed[r] = [account |-> store[r].account, revision |-> store[r].revision]
  /\ committed[r] # NoMarker /\ markers[r] = NoMarker =>
       \/ store[r].status = "consumed"
       \/ store[r].status = "expired" /\ r \in pastExpiry
  /\ store[r].status = "rejected" => committed[r] = NoMarker

LEMMA IInvParts ==
  IInv <=> /\ TypeOK /\ InsertedOnce
           /\ \A p \in Procs : HandlerInv(p)
           /\ \A r \in Requests : RecordInv(r) /\ Safe(r)
  BY DEF IInv, Safe, ConsumedWasCommitted, MarkerUntilConsumed, RejectedNeverConnects

LEMMA IInvPartsPrimed ==
  /\ TypeOK' /\ InsertedOnce'
  /\ \A p \in Procs : HandlerInv(p)'
  /\ \A r \in Requests : RecordInv(r)' /\ Safe(r)'
  => IInv'
  BY DEF IInv, Safe, ConsumedWasCommitted, MarkerUntilConsumed, RejectedNeverConnects

\* The other handlers keep their part of the invariant.
LEMMA OthersKeep ==
  ASSUME IInv, NEW p \in Procs, NEW q \in Procs \ {p}, MovesOnly(p),
         nextRequest' >= nextRequest, nextRequest' \in Nat,
         \A r \in Requests : Touches(p, r)
  PROVE  HandlerInv(q)'
<1> DEFINE r == op[q].req
<1>1. op'[q] = op[q] /\ HandlerInv(q)
  BY DEF MovesOnly, IInv
<1>2. NamesRequest(q)'
  BY <1>1 DEF HandlerInv, NamesRequest
<1>3. HoldsClaim(q)'
  BY <1>1 DEF HandlerInv, NamesRequest, HoldsClaim, MovesOnly
<1>4. InsertsFresh(q)'
  BY <1>1 DEF HandlerInv, NamesRequest, InsertsFresh, Touches, IInv, TypeOK, Requests
<1>5. op[q].at \in {"write", "commit", "consume"} =>
        \/ store'[r] = store[r] /\ markers'[r] = markers[r] /\ committed'[r] = committed[r]
        \/ store'[r].status = "expired" /\ committed'[r] = committed[r]
  BY <1>1, ConstantsAssumption DEF HandlerInv, NamesRequest, HoldsClaim, Touches
<1>6. Undecided(q)'
  BY <1>1, <1>5 DEF HandlerInv, Undecided
<1>7. Uncommitted(q)'
  BY <1>1, <1>5 DEF HandlerInv, Uncommitted
<1>8. Consuming(q)'
  BY <1>1, <1>5 DEF HandlerInv, Consuming
<1> QED
  BY <1>2, <1>3, <1>4, <1>6, <1>7, <1>8 DEF HandlerInv

\* A step of p preserves the invariant if it preserves p's part and the records'.
LEMMA HandlerStep ==
  ASSUME IInv, TypeOK', NEW p \in Procs, MovesOnly(p), op'[p].at # "insert",
         UNCHANGED nextRequest,
         \A r \in Requests : Touches(p, r) /\ RecordInv(r)' /\ Safe(r)',
         HandlerInv(p)'
  PROVE  IInv'
<1>1. InsertedOnce'
  BY DEF IInv, InsertedOnce, MovesOnly
<1>2. \A q \in Procs \ {p} : HandlerInv(q)'
  BY OthersKeep, ConstantsAssumption DEF IInv, TypeOK
<1> QED
  BY <1>1, <1>2, IInvPartsPrimed

\* Most steps write nothing.
LEMMA QuietStep ==
  ASSUME IInv, TypeOK', NEW p \in Procs, MovesOnly(p), op'[p].at # "insert",
         UNCHANGED <<recordVars, markers, committed>>, HandlerInv(p)'
  PROVE  IInv'
<1>1. \A r \in Requests : RecordInv(r) /\ Safe(r)
  BY IInvParts
<1>2. \A r \in Requests : Touches(p, r) /\ RecordInv(r)' /\ Safe(r)'
  BY <1>1 DEF Touches, RecordInv, Safe, recordVars
<1> QED
  BY <1>2, HandlerStep DEF recordVars

LEMMA ReturnMoves ==
  ASSUME TypeOK, NEW p \in Procs, Return(p)
  PROVE  MovesOnly(p) /\ HandlerInv(p)' /\ op'[p].at = "idle"
<1>1. op'[p] = Idle
  BY DEF Return, TypeOK
<1>2. MovesOnly(p)
  BY DEF MovesOnly, Return, Release, TypeOK
<1> QED
  BY <1>1, <1>2
  DEF Idle, HandlerInv, NamesRequest, HoldsClaim, InsertsFresh, Undecided, Uncommitted,
      Consuming

LEMMA ThrowKeeps ==
  ASSUME IInv, NEW p \in Procs, Throw(p)
  PROVE  IInv'
<1>1. TypeOK' /\ Return(p) /\ UNCHANGED <<recordVars, markers, committed>>
  BY ThrowTyped DEF IInv, Throw, connectionVars
<1>2. MovesOnly(p) /\ HandlerInv(p)' /\ op'[p].at = "idle"
  BY <1>1, ReturnMoves DEF IInv
<1> QED
  BY <1>1, <1>2, QuietStep

LEMMA StartKeeps ==
  ASSUME IInv, NEW p \in Procs, Start(p)
  PROVE  IInv'
<1>0. TypeOK /\ TypeOK'
  BY StartTyped DEF IInv
<1>1. CASE PrepareConnect(p)
  <2>1. /\ op'[p].at = "insert" /\ op'[p].req = nextRequest
        /\ op'[p].mem.status = "pending"
    BY <1>0, <1>1 DEF PrepareConnect, TypeOK, Idle
  <2>2. /\ nextRequest' = nextRequest + 1 /\ nextRequest \in Requests
        /\ UNCHANGED <<store, stale, pastExpiry, markers, committed, claim>>
    BY <1>0, <1>1, ConstantsAssumption
    DEF PrepareConnect, TypeOK, Requests, connectionVars, lockVars
  <2>3. MovesOnly(p)
    BY <1>0, <1>1, <2>2 DEF PrepareConnect, MovesOnly, TypeOK
  <2>4. \A r \in Requests : RecordInv(r) /\ Safe(r)
    BY IInvParts
  <2>5. \A r \in Requests : Touches(p, r) /\ RecordInv(r)' /\ Safe(r)'
    BY <1>0, <2>2, <2>4 DEF Touches, RecordInv, Safe, TypeOK, Requests
  <2>6. \A q \in Procs \ {p} : HandlerInv(q)'
    BY <1>0, <2>2, <2>3, <2>5, OthersKeep DEF TypeOK
  <2>7. HandlerInv(p)'
    BY <1>0, <2>1, <2>2, <2>4
    DEF HandlerInv, NamesRequest, HoldsClaim, InsertsFresh, Undecided, Uncommitted,
        Consuming, RecordInv, TypeOK
  <2>8. \A q \in Procs \ {p} : op[q].at = "insert" => op[q].req < nextRequest
    BY DEF IInv, HandlerInv, InsertsFresh
  <2>9. InsertedOnce'
    BY <2>1, <2>2, <2>3, <2>8, <1>0 DEF IInv, InsertedOnce, MovesOnly, TypeOK
  <2> QED
    BY <1>0, <2>5, <2>6, <2>7, <2>9, IInvPartsPrimed
<1>2. ASSUME NEW r \in Requests, OpenReview(p, r) PROVE IInv'
  <2>1. op'[p].at = "review" /\ op'[p].req = r
    BY <1>0, <1>2 DEF OpenReview, TypeOK, Idle
  <2>2. MovesOnly(p) /\ UNCHANGED <<recordVars, markers, committed>>
    BY <1>0, <1>2 DEF OpenReview, MovesOnly, TypeOK, connectionVars, lockVars
  <2>3. HandlerInv(p)'
    BY <2>1
    DEF HandlerInv, NamesRequest, HoldsClaim, InsertsFresh, Undecided, Uncommitted,
        Consuming
  <2> QED
    BY <1>0, <2>1, <2>2, <2>3, QuietStep
<1>3. ASSUME NEW r \in Requests, ChooseAccount(p, r) PROVE IInv'
  <2>1. op'[p].at = "review" /\ op'[p].req = r
    BY <1>0, <1>3 DEF ChooseAccount, TypeOK, Idle
  <2>2. MovesOnly(p) /\ UNCHANGED <<recordVars, markers, committed>>
    BY <1>0, <1>3 DEF ChooseAccount, MovesOnly, TypeOK, connectionVars, lockVars
  <2>3. HandlerInv(p)'
    BY <2>1
    DEF HandlerInv, NamesRequest, HoldsClaim, InsertsFresh, Undecided, Uncommitted,
        Consuming
  <2> QED
    BY <1>0, <2>1, <2>2, <2>3, QuietStep
<1>4. ASSUME NEW r \in Requests, PollStatus(p, r) PROVE IInv'
  <2>1. op'[p].at = "group" /\ op'[p].req = r
    BY <1>0, <1>4 DEF PollStatus, EnterGroup, TypeOK, Idle
  <2>2. MovesOnly(p) /\ UNCHANGED <<recordVars, markers, committed>>
    BY <1>0, <1>4 DEF PollStatus, EnterGroup, MovesOnly, TypeOK, connectionVars, lockVars
  <2>3. HandlerInv(p)'
    BY <2>1
    DEF HandlerInv, NamesRequest, HoldsClaim, InsertsFresh, Undecided, Uncommitted,
        Consuming
  <2> QED
    BY <1>0, <2>1, <2>2, <2>3, QuietStep
<1>5. ASSUME NEW g \in Groups, BeginDelete(p, g) PROVE IInv'
  <2>1. op'[p].at = "group" /\ op'[p].kind = "delete"
    BY <1>0, <1>5 DEF BeginDelete, TypeOK, Idle
  <2>2. MovesOnly(p) /\ UNCHANGED <<recordVars, markers, committed>>
    BY <1>0, <1>5 DEF BeginDelete, MovesOnly, TypeOK, connectionVars, lockVars
  <2>3. HandlerInv(p)'
    BY <2>1
    DEF HandlerInv, NamesRequest, HoldsClaim, InsertsFresh, Undecided, Uncommitted,
        Consuming
  <2> QED
    BY <1>0, <2>1, <2>2, <2>3, QuietStep
<1> QED
  BY <1>1, <1>2, <1>3, <1>4, <1>5 DEF Start

LEMMA EnvironmentKeeps ==
  ASSUME IInv, Environment
  PROVE  IInv'
<1>0. TypeOK /\ TypeOK'
  BY EnvironmentTyped DEF IInv
<1>1. /\ \A r \in Requests : RecordInv(r) /\ Safe(r)
      /\ \A p \in Procs : HandlerInv(p)
      /\ InsertedOnce
  BY IInvParts
<1>2. UNCHANGED <<op, claim, nextRequest, markers, committed>>
  BY DEF Environment, Disconnect, TenMinutesPass, WriteExpired, ScanExpired, lockVars,
         recordVars, connectionVars
<1>3. InsertedOnce'
  BY <1>1, <1>2 DEF InsertedOnce
<1>4. ASSUME NEW r \in Requests
      PROVE  \/ store'[r] = store[r]
             \/ r \in pastExpiry /\ store[r].status # "absent"
                /\ store'[r].status = "expired"
  BY <1>0, <1>1
  DEF Environment, Disconnect, TenMinutesPass, WriteExpired, ScanExpired, recordVars,
      RecordInv, TypeOK, Record
<1>5. ASSUME NEW r \in Requests
      PROVE  /\ pastExpiry \subseteq pastExpiry'
             /\ stale'[r] # Absent =>
                  stale[r] # Absent \/ (r \in pastExpiry /\ store[r].status = "pending")
  <2>1. pastExpiry \subseteq pastExpiry'
    BY DEF Environment, Disconnect, TenMinutesPass, WriteExpired, ScanExpired, recordVars
  <2>2. CASE ScanExpired
    BY <2>1, <2>2 DEF ScanExpired
  <2>3. CASE ~ScanExpired
    <3>1. stale' = stale \/ \E q \in Requests : stale' = [stale EXCEPT ![q] = Absent]
      BY <2>3 DEF Environment, Disconnect, TenMinutesPass, WriteExpired, recordVars
    <3>2. stale \in [Requests -> Record]
      BY <1>0 DEF TypeOK
    <3>3. CASE stale' = stale
      BY <2>1, <3>3
    <3>4. ASSUME NEW q \in Requests, stale' = [stale EXCEPT ![q] = Absent]
          PROVE  stale'[r] # Absent => stale[r] # Absent
      BY <3>2, <3>4
    <3> QED
      BY <2>1, <3>1, <3>3, <3>4
  <2> QED
    BY <2>2, <2>3
<1>6. ASSUME NEW r \in Requests PROVE RecordInv(r)' /\ Safe(r)'
  <2>1. RecordInv(r)'
    BY <1>1, <1>2, <1>4, <1>5 DEF RecordInv
  <2>2. Safe(r)'
    BY <1>1, <1>2, <1>4, <1>5 DEF Safe
  <2> QED
    BY <2>1, <2>2
<1>7. ASSUME NEW p \in Procs PROVE HandlerInv(p)'
  BY <1>1, <1>2, <1>4
  DEF HandlerInv, NamesRequest, HoldsClaim, InsertsFresh, Undecided, Uncommitted, Consuming
<1> QED
  BY <1>0, <1>3, <1>6, <1>7, IInvPartsPrimed

\* Normalisation expires what has run out and changes nothing else.
NormalStep(r) ==
  \/ store'[r] = store[r]
  \/ store[r].status = "pending" /\ r \in pastExpiry /\ store'[r].status = "expired"

LEMMA NormalizedStep ==
  ASSUME TypeOK, store' = Normalized(store), NEW r \in Requests
  PROVE  NormalStep(r)
  BY DEF NormalStep, Normalized, TypeOK, Record

LEMMA GotoIs ==
  ASSUME op \in [Procs -> Op], NEW p \in Procs, NEW step, Goto(p, step)
  PROVE  /\ op'[p].at = step /\ op'[p].req = op[p].req /\ op'[p].kind = op[p].kind
         /\ op'[p].mem = op[p].mem
         /\ \A q \in Procs \ {p} : op'[q] = op[q]
  BY DEF Goto, Op

LEMMA ReadIntoIs ==
  ASSUME op \in [Procs -> Op], NEW p \in Procs, NEW step, NEW rec, ReadInto(p, step, rec)
  PROVE  /\ op'[p].at = step /\ op'[p].req = op[p].req /\ op'[p].mem = rec
         /\ MovesOnly(p) /\ UNCHANGED <<recordVars, markers, committed, claim>>
<1>1. op'[p].at = step /\ op'[p].req = op[p].req /\ op'[p].mem = rec
  BY DEF ReadInto, Op
<1>2. \A q \in Procs \ {p} : op'[q] = op[q]
  BY DEF ReadInto
<1>3. UNCHANGED <<recordVars, markers, committed, claim>>
  BY DEF ReadInto, connectionVars, lockVars
<1> QED
  BY <1>1, <1>2, <1>3 DEF MovesOnly

LEMMA ContinueKeeps ==
  ASSUME IInv, NEW p \in Procs, AcquireGroup(p) \/ Continue(p) \/ Crash(p)
  PROVE  IInv'
<1> SUFFICES ASSUME ~Throw(p) PROVE IInv'
  BY ThrowKeeps
<1>0. TypeOK /\ TypeOK' /\ op[p] \in Op /\ op \in [Procs -> Op]
  BY ContinueTyped DEF IInv, HandlerInv, TypeOK
<1>1. /\ \A r \in Requests : RecordInv(r) /\ Safe(r)
      /\ HandlerInv(p)
      /\ InsertedOnce
  BY IInvParts
<1>2. CASE InsertRecord(p)
  <2> DEFINE n == op[p].req
  <2>1. /\ store[n].status = "absent" /\ store'[n].status = "pending"
        /\ n \in Requests /\ n < nextRequest /\ committed[n] = NoMarker
        /\ stale[n] = Absent
    BY <1>0, <1>1, <1>2
    DEF InsertRecord, HandlerInv, InsertsFresh, NamesRequest, RecordInv, TypeOK
  <2>2. /\ \A r \in Requests : r # n => store'[r] = store[r]
        /\ UNCHANGED <<stale, pastExpiry, nextRequest, markers, committed, claim>>
        /\ op'[p] = Idle /\ \A q \in Procs : q # p => op'[q] = op[q]
    BY <1>0, <1>2 DEF InsertRecord, TypeOK, connectionVars, lockVars
  <2>3. ASSUME NEW r \in Requests PROVE RecordInv(r)' /\ Safe(r)'
    <3>1. CASE r = n
      BY <1>0, <1>1, <2>1, <2>2, <3>1, ConstantsAssumption
      DEF RecordInv, Safe, TypeOK, Requests
    <3>2. CASE r # n
      BY <1>1, <2>2, <3>2 DEF RecordInv, Safe
    <3> QED
      BY <3>1, <3>2
  <2>4. HandlerInv(p)'
    BY <2>2
    DEF Idle, HandlerInv, NamesRequest, HoldsClaim, InsertsFresh, Undecided, Uncommitted,
        Consuming
  <2>5. ASSUME NEW q \in Procs, q # p PROVE HandlerInv(q)'
    <3>1. HandlerInv(q) /\ op'[q] = op[q]
      BY <2>2, <2>5, IInvParts
    <3>2. op[q].at = "insert" => op[q].req # n
      BY <1>1, <1>2, <2>5 DEF InsertedOnce, InsertRecord
    <3>3. op[q].at \in {"write", "commit", "consume"} => op[q].req # n
      BY <2>1, <3>1 DEF HandlerInv, Undecided
    <3> QED
      BY <2>2, <3>1, <3>2, <3>3
      DEF HandlerInv, NamesRequest, HoldsClaim, InsertsFresh, Undecided, Uncommitted,
          Consuming
  <2>6. InsertedOnce'
    BY <1>1, <2>2 DEF InsertedOnce, Idle
  <2> QED
    BY <1>0, <2>3, <2>4, <2>5, <2>6, IInvPartsPrimed
<1>3. CASE SubmitDecision(p)
  <2>1. PICK a : EnterGroup(p, op[p], a)
    BY <1>3 DEF SubmitDecision
  <2>2. op[p].at = "review" /\ op'[p].at = "group" /\ op'[p].req = op[p].req
    BY <1>0, <1>3, <2>1 DEF SubmitDecision, EnterGroup, Op
  <2>3. MovesOnly(p) /\ UNCHANGED <<recordVars, markers, committed>>
    BY <1>0, <2>1 DEF EnterGroup, MovesOnly, connectionVars, lockVars
  <2>4. HandlerInv(p)'
    BY <1>1, <2>2
    DEF HandlerInv, NamesRequest, HoldsClaim, InsertsFresh, Undecided, Uncommitted,
        Consuming
  <2> QED
    BY <1>0, <2>2, <2>3, <2>4, QuietStep
<1>4. CASE AcquireGroup(p)
  <2>1. MovesOnly(p) /\ UNCHANGED <<recordVars, markers, committed>>
    BY <1>0, <1>4 DEF AcquireGroup, Goto, MovesOnly, TypeOK, connectionVars, lockVars
  <2>2. op'[p].at # "insert" /\ HandlerInv(p)'
    BY <1>0, <1>1, <1>4
    DEF AcquireGroup, Goto, TypeOK, HandlerInv, NamesRequest, HoldsClaim, InsertsFresh,
        Undecided, Uncommitted, Consuming
  <2> QED
    BY <1>0, <2>1, <2>2, QuietStep
<1>5. CASE ClaimRequest(p)
  <2>1. /\ op[p].at = "claim" /\ op[p].req \in Requests /\ claim[op[p].req] = NoProc
        /\ claim' = [claim EXCEPT ![op[p].req] = p] /\ Goto(p, "read")
        /\ UNCHANGED <<recordVars, markers, committed>>
    BY <1>1, <1>5 DEF ClaimRequest, HandlerInv, NamesRequest, connectionVars
  <2>2. claim \in [Requests -> Procs \union {NoProc}] /\ NoProc \notin Procs
    BY <1>0, ConstantsAssumption DEF TypeOK
  <2>3. op'[p].at = "read" /\ op'[p].req = op[p].req /\ MovesOnly(p)
    BY <1>0, <2>1, <2>2, GotoIs DEF MovesOnly
  <2>4. HandlerInv(p)'
    BY <2>1, <2>2, <2>3
    DEF HandlerInv, NamesRequest, HoldsClaim, InsertsFresh, Undecided, Uncommitted,
        Consuming
  <2> QED
    BY <1>0, <2>1, <2>3, <2>4, QuietStep
<1>6. CASE RecoverCommit(p)
  <2> DEFINE r == op[p].req
  <2>1. /\ MovesOnly(p) /\ UNCHANGED <<recordVars, markers, committed, claim>>
        /\ op[p].at = "read" /\ r \in Requests /\ markers[r] # NoMarker /\ Matches(r)
        /\ op'[p].req = r /\ op'[p].mem = store[r]
        /\ op'[p].at = IF store[r].status = "pending" THEN "consume" ELSE "settle"
    BY <1>0, <1>1, <1>6, ReadIntoIs DEF RecoverCommit, HandlerInv, NamesRequest
  <2>2. committed[r] = [account |-> store[r].account, revision |-> store[r].revision]
    BY <1>0, <1>1, <2>1 DEF Matches, RecordInv, TypeOK, Marker
  <2>3. HandlerInv(p)'
    BY <1>1, <2>1, <2>2
    DEF HandlerInv, NamesRequest, HoldsClaim, InsertsFresh, Undecided, Uncommitted,
        Consuming, recordVars
  <2> QED
    BY <1>0, <2>1, <2>3, QuietStep
<1>7. CASE ExpireReviewed(p)
  <2> DEFINE r == op[p].req
  <2>1. /\ MovesOnly(p) /\ UNCHANGED <<recordVars, markers, committed, claim>>
        /\ op[p].at = "read" /\ r \in Requests /\ markers[r] = NoMarker
        /\ store[r].status = "pending"
        /\ op'[p].req = r /\ op'[p].mem.status = "expired" /\ op'[p].at = "write"
    BY <1>0, <1>1, <1>7
    DEF ExpireReviewed, MayExpire, ReadInto, MovesOnly, TypeOK, Record, connectionVars,
        lockVars, HandlerInv, NamesRequest
  <2>2. committed[r] = NoMarker
    BY <1>1, <2>1 DEF Safe
  <2>3. HandlerInv(p)'
    BY <1>1, <2>1, <2>2
    DEF HandlerInv, NamesRequest, HoldsClaim, InsertsFresh, Undecided, Uncommitted,
        Consuming, recordVars
  <2> QED
    BY <1>0, <2>1, <2>3, QuietStep
<1>8. CASE DecideRequest(p)
  <2> DEFINE r == op[p].req
  <2>1. /\ MovesOnly(p) /\ UNCHANGED <<recordVars, markers, committed, claim>>
        /\ op[p].at = "read" /\ r \in Requests /\ markers[r] = NoMarker
        /\ store[r].status = "pending" /\ op'[p].req = r
    BY <1>0, <1>1, <1>8, ReadIntoIs
    DEF DecideRequest, Approvable, Rejectable, Rebindable, Reviewed, HandlerInv, NamesRequest
  <2>2. /\ op'[p].at \in {"commit", "write"}
        /\ op'[p].at = "write" => op'[p].mem.status \in {"pending", "rejected"}
    <3>1. store[r] \in Record
      BY <1>0, <2>1 DEF TypeOK
    <3> DEFINE rejected == [store[r] EXCEPT !.status = "rejected"]
               rebound == [store[r] EXCEPT !.account = op[p].account, !.revision = @ + 1]
    <3>2. rejected.status = "rejected" /\ rebound.status = "pending"
      BY <2>1, <3>1 DEF Record
    <3>3. \/ ReadInto(p, "commit", store[r])
          \/ ReadInto(p, "write", rejected)
          \/ ReadInto(p, "write", rebound)
      BY <1>8 DEF DecideRequest
    <3> HIDE DEF rejected, rebound
    <3> QED
      BY <1>0, <3>2, <3>3, ReadIntoIs
  <2>3. committed[r] = NoMarker
    BY <1>1, <2>1 DEF Safe
  <2>4. HandlerInv(p)'
    BY <1>1, <2>1, <2>2, <2>3
    DEF HandlerInv, NamesRequest, HoldsClaim, InsertsFresh, Undecided, Uncommitted,
        Consuming, recordVars
  <2> QED
    BY <1>0, <2>1, <2>2, <2>4, QuietStep
<1>9. ~RefuseReview(p)
  BY DEF RefuseReview
<1>10. CASE WriteRecord(p)
  <2> DEFINE r == op[p].req
  <2>1. /\ r \in Requests /\ claim[r] = p /\ store[r].status \in {"pending", "expired"}
        /\ committed[r] = NoMarker /\ op[p].mem.status \in {"pending", "rejected", "expired"}
    BY <1>1, <1>10
    DEF WriteRecord, HandlerInv, NamesRequest, HoldsClaim, Undecided, Uncommitted
  <2>2. /\ Return(p) /\ store'[r] = op[p].mem
        /\ \A q \in Requests : q # r => store'[q] = store[q]
        /\ UNCHANGED <<stale, pastExpiry, nextRequest, markers, committed>>
    BY <1>0, <1>10, <2>1 DEF WriteRecord, TypeOK, connectionVars
  <2>3. \A q \in Requests : Touches(p, q) /\ RecordInv(q)' /\ Safe(q)'
    BY <1>0, <1>1, <2>1, <2>2 DEF Touches, RecordInv, Safe, TypeOK, Requests
  <2>4. MovesOnly(p) /\ HandlerInv(p)' /\ op'[p].at = "idle"
    BY <1>0, <2>2, ReturnMoves
  <2> QED
    BY <1>0, <2>2, <2>3, <2>4, HandlerStep
<1>11. CASE CommitConnect(p)
  <2> DEFINE r == op[p].req
             marker == [account |-> op[p].mem.account, revision |-> op[p].mem.revision]
  <2>1. /\ r \in Requests /\ claim[r] = p /\ store[r].status \in {"pending", "expired"}
    BY <1>1, <1>11 DEF CommitConnect, HandlerInv, NamesRequest, HoldsClaim, Undecided
  <2>2. /\ op'[p].at = "consume" /\ op'[p].req = r /\ op'[p].mem = op[p].mem
        /\ markers'[r] = marker /\ committed'[r] = marker
        /\ \A q \in Requests : q # r => markers'[q] = markers[q] /\ committed'[q] = committed[q]
        /\ UNCHANGED <<recordVars, claim>> /\ MovesOnly(p)
    <3>1. /\ Goto(p, "consume") /\ UNCHANGED <<recordVars, claim>>
          /\ markers' = [markers EXCEPT ![r] = marker]
          /\ committed' = [committed EXCEPT ![r] = marker]
      BY <1>11 DEF CommitConnect, lockVars
    <3>2. markers \in [Requests -> Marker] /\ committed \in [Requests -> Marker]
      BY <1>0 DEF TypeOK
    <3> QED
      BY <1>0, <2>1, <3>1, <3>2, GotoIs DEF MovesOnly
  <2>3. marker # NoMarker
    BY <1>11, ConstantsAssumption DEF CommitConnect, Eligible, NoMarker
  <2>4. \A q \in Requests : Touches(p, q) /\ RecordInv(q)' /\ Safe(q)'
    BY <1>0, <1>1, <2>1, <2>2, <2>3 DEF Touches, RecordInv, Safe, recordVars
  <2>5. HandlerInv(p)'
    BY <2>1, <2>2
    DEF HandlerInv, NamesRequest, HoldsClaim, InsertsFresh, Undecided, Uncommitted,
        Consuming, recordVars
  <2> QED
    BY <1>0, <2>2, <2>4, <2>5, HandlerStep DEF recordVars
<1>12. CASE ConsumeRecord(p)
  <2> DEFINE r == op[p].req
  <2>1. /\ r \in Requests /\ claim[r] = p /\ store[r].status \in {"pending", "expired"}
        /\ committed[r] = [account |-> op[p].mem.account, revision |-> op[p].mem.revision]
    BY <1>1, <1>12
    DEF ConsumeRecord, HandlerInv, NamesRequest, HoldsClaim, Undecided, Consuming
  <2>2. /\ store'[r].status = "consumed" /\ store'[r].account = op[p].mem.account
        /\ store'[r].revision = op[p].mem.revision
    BY <1>0, <1>12, <2>1 DEF ConsumeRecord, TypeOK, Op, Record
  <2>3. /\ op'[p].at = "settle" /\ op'[p].req = r
        /\ \A q \in Requests : q # r => store'[q] = store[q]
        /\ UNCHANGED <<stale, pastExpiry, nextRequest, markers, committed, claim>>
        /\ MovesOnly(p)
    BY <1>0, <1>12, <2>1 DEF ConsumeRecord, Goto, MovesOnly, TypeOK, connectionVars, lockVars
  <2>4. \A q \in Requests : Touches(p, q) /\ RecordInv(q)' /\ Safe(q)'
    BY <1>0, <1>1, <2>1, <2>2, <2>3 DEF Touches, RecordInv, Safe, TypeOK, Requests
  <2>5. HandlerInv(p)'
    BY <2>1, <2>3
    DEF HandlerInv, NamesRequest, HoldsClaim, InsertsFresh, Undecided, Uncommitted,
        Consuming
  <2> QED
    BY <1>0, <2>3, <2>4, <2>5, HandlerStep
<1>13. CASE SettleMarker(p)
  <2> DEFINE r == op[p].req
  <2>1. r \in Requests /\ claim[r] = p /\ store[r].status = "consumed"
    BY <1>1, <1>13 DEF SettleMarker, HandlerInv, NamesRequest, HoldsClaim
  <2>2. /\ markers' = [markers EXCEPT ![r] = NoMarker]
        /\ UNCHANGED <<recordVars, committed>>
    BY <1>13 DEF SettleMarker
  <2>3. \A q \in Requests : Touches(p, q) /\ RecordInv(q)' /\ Safe(q)'
    BY <1>0, <1>1, <2>1, <2>2 DEF Touches, RecordInv, Safe, recordVars, TypeOK
  <2>4. /\ MovesOnly(p) /\ HandlerInv(p)' /\ op'[p].at # "insert"
    <3>1. CASE op[p].kind = "delete"
      <4>1. /\ op'[p].at = "markers" /\ \A q \in Procs : q # p => op'[q] = op[q]
            /\ claim' = [claim EXCEPT ![r] = NoProc]
        <5>1. /\ op' = [op EXCEPT ![p].at = "markers", ![p].req = 0, ![p].mem = Absent]
              /\ claim' = [claim EXCEPT ![r] = NoProc]
          BY <1>13, <3>1 DEF SettleMarker
        <5> QED
          BY <1>0, <5>1 DEF Op
      <4>2. MovesOnly(p)
        BY <1>0, <2>1, <4>1 DEF MovesOnly, TypeOK
      <4> QED
        BY <4>1, <4>2
        DEF HandlerInv, NamesRequest, HoldsClaim, InsertsFresh, Undecided,
            Uncommitted, Consuming
    <3>2. CASE op[p].kind # "delete"
      BY <1>0, <1>13, <3>2, ReturnMoves DEF SettleMarker
    <3> QED
      BY <3>1, <3>2
  <2> QED
    BY <1>0, <2>2, <2>3, <2>4, HandlerStep DEF recordVars
<1>14. CASE MarkDeleting(p)
  <2>1. /\ op' = [op EXCEPT ![p].at = "markers",
               ![p].todo = {r \in Requests : markers[r].account \in AccountsOf(op[p].group)}]
        /\ UNCHANGED <<recordVars, markers, committed, claim>>
    BY <1>14 DEF MarkDeleting, connectionVars, lockVars
  <2>2. op'[p].at = "markers" /\ MovesOnly(p)
    BY <1>0, <2>1 DEF MovesOnly, Op
  <2>3. HandlerInv(p)'
    BY <2>2
    DEF HandlerInv, NamesRequest, HoldsClaim, InsertsFresh, Undecided, Uncommitted,
        Consuming
  <2> QED
    BY <1>0, <2>1, <2>2, <2>3, QuietStep
<1>15. CASE ReconcileMarker(p)
  <2>1. PICK r \in op[p].todo :
          /\ claim[r] = NoProc /\ Matches(r)
          /\ claim' = [claim EXCEPT ![r] = p]
          /\ op' = [op EXCEPT ![p].at = IF store[r].status = "pending"
                                        THEN "consume" ELSE "settle",
                              ![p].req = r, ![p].mem = store[r],
                              ![p].todo = @ \ {r}]
          /\ UNCHANGED <<recordVars, connectionVars, registryVars, groupLock, crashes>>
    BY <1>15 DEF ReconcileMarker
  <2>2. /\ r \in Requests /\ claim'[r] = p /\ op'[p].req = r /\ op'[p].mem = store[r]
        /\ op'[p].at = IF store[r].status = "pending" THEN "consume" ELSE "settle"
        /\ UNCHANGED <<store, committed>>
    BY <1>0, <2>1 DEF TypeOK, Op, recordVars, connectionVars
  <2>3. MovesOnly(p) /\ UNCHANGED <<recordVars, markers, committed>>
    BY <1>0, <2>1, <2>2, ConstantsAssumption DEF MovesOnly, TypeOK, connectionVars
  <2>4. markers[r] # NoMarker
    BY <2>1 DEF Matches
  <2>5. store[r].status = "pending" =>
          committed[r] = [account |-> store[r].account, revision |-> store[r].revision]
    BY <1>0, <1>1, <2>1, <2>2, <2>4 DEF Matches, RecordInv, TypeOK, Marker
  <2>6. HandlerInv(p)'
    BY <2>2, <2>5
    DEF HandlerInv, NamesRequest, HoldsClaim, InsertsFresh, Undecided, Uncommitted,
        Consuming
  <2> QED
    BY <1>0, <2>2, <2>3, <2>6, QuietStep
<1>16. CASE ListPending(p)
  <2>1. /\ op'[p].at = "fail" /\ store' = Normalized(store)
        /\ UNCHANGED <<stale, pastExpiry, nextRequest, markers, committed, claim>>
        /\ MovesOnly(p)
    BY <1>0, <1>16 DEF ListPending, MovesOnly, TypeOK, connectionVars, lockVars
  <2>2. \A r \in Requests : NormalStep(r)
    BY <1>0, <2>1, NormalizedStep DEF TypeOK
  <2>3. \A r \in Requests : Touches(p, r) /\ RecordInv(r)' /\ Safe(r)'
    BY <1>0, <1>1, <2>1, <2>2 DEF NormalStep, Touches, RecordInv, Safe, TypeOK, Requests
  <2>4. HandlerInv(p)'
    BY <2>1
    DEF HandlerInv, NamesRequest, HoldsClaim, InsertsFresh, Undecided, Uncommitted,
        Consuming
  <2> QED
    BY <1>0, <2>1, <2>3, <2>4, HandlerStep
<1>17. CASE FailPending(p)
  <2>1. PICK r \in op[p].todo :
          /\ claim[r] = NoProc
          /\ store' = IF Normalized(store)[r].status = "pending"
                      THEN [Normalized(store) EXCEPT ![r].status = "failed"]
                      ELSE Normalized(store)
          /\ op' = [op EXCEPT ![p].todo = @ \ {r}]
    BY <1>17 DEF FailPending
  <2>2. /\ op'[p].at = "fail" /\ r \in Requests
        /\ UNCHANGED <<stale, pastExpiry, nextRequest, markers, committed, claim>>
        /\ MovesOnly(p)
    BY <1>0, <1>17, <2>1 DEF FailPending, MovesOnly, TypeOK, Op, connectionVars, lockVars
  <2>3. ASSUME NEW q \in Requests
        PROVE  \/ NormalStep(q)
               \/ q = r /\ store[q].status = "pending" /\ store'[q].status = "failed"
    <3> DEFINE records == Normalized(store)
    <3>1. records \in [Requests -> Record] /\ store[q] \in Record
      BY <1>0, NormalizedTyped DEF TypeOK
    <3>2. \/ records[q] = store[q]
          \/ /\ store[q].status = "pending" /\ q \in pastExpiry
             /\ records[q].status = "expired"
      BY <3>1 DEF Normalized, Record
    <3>3. store' = IF records[r].status = "pending"
                   THEN [records EXCEPT ![r].status = "failed"] ELSE records
      BY <2>1
    <3> HIDE DEF records
    <3>4. \/ store'[q] = records[q]
          \/ q = r /\ records[q].status = "pending" /\ store'[q].status = "failed"
      BY <3>1, <3>3 DEF Record
    <3> QED
      BY <3>2, <3>4 DEF NormalStep
  <2>4. ASSUME NEW q \in Requests PROVE Touches(p, q) /\ RecordInv(q)' /\ Safe(q)'
    <3>1. RecordInv(q) /\ Safe(q) /\ q \in Nat /\ nextRequest \in Nat
      BY <1>0, <1>1, ConstantsAssumption DEF TypeOK, Requests
    <3>2. CASE NormalStep(q)
      BY <2>2, <3>1, <3>2 DEF NormalStep, Touches, RecordInv, Safe
    <3>3. CASE q = r /\ store[q].status = "pending" /\ store'[q].status = "failed"
      BY <2>1, <2>2, <3>1, <3>3 DEF Touches, RecordInv, Safe
    <3> QED
      BY <2>3, <3>2, <3>3
  <2>5. HandlerInv(p)'
    BY <2>2
    DEF HandlerInv, NamesRequest, HoldsClaim, InsertsFresh, Undecided, Uncommitted,
        Consuming
  <2> QED
    BY <1>0, <2>2, <2>4, <2>5, HandlerStep
<1>18. CASE DeleteSecret(p)
  <2>1. MovesOnly(p) /\ UNCHANGED <<recordVars, markers, committed>>
    BY <1>0, <1>18 DEF DeleteSecret, Goto, MovesOnly, TypeOK, connectionVars, lockVars
  <2>2. op'[p].at # "insert" /\ HandlerInv(p)'
    BY <1>0, <1>1, <1>18
    DEF DeleteSecret, Goto, TypeOK, HandlerInv, NamesRequest, HoldsClaim, InsertsFresh,
        Undecided, Uncommitted, Consuming
  <2> QED
    BY <1>0, <2>1, <2>2, QuietStep
<1>19. CASE RemoveConnections(p)
  <2>1. /\ Goto(p, "remove") /\ UNCHANGED <<recordVars, markers, committed, claim>>
    BY <1>19 DEF RemoveConnections, lockVars
  <2>2. MovesOnly(p) /\ op'[p].at = "remove"
    BY <1>0, <2>1 DEF Goto, MovesOnly, TypeOK
  <2>3. HandlerInv(p)'
    BY <2>2
    DEF HandlerInv, NamesRequest, HoldsClaim, InsertsFresh, Undecided, Uncommitted,
        Consuming
  <2> QED
    BY <1>0, <2>1, <2>2, <2>3, QuietStep
<1>20. CASE RemoveGroup(p)
  BY <1>0, <1>20, ReturnMoves, QuietStep DEF RemoveGroup, connectionVars
<1>21. CASE Crash(p)
  BY <1>0, <1>21, ReturnMoves, QuietStep DEF Crash, connectionVars
<1> QED
  BY <1>2, <1>3, <1>4, <1>5, <1>6, <1>7, <1>8, <1>9, <1>10, <1>11, <1>12, <1>13, <1>14,
     <1>15, <1>16, <1>17, <1>18, <1>19, <1>20, <1>21
  DEF Continue, ClosePopup

-----------------------------------------------------------------------------
(* Theorems.                                                                *)

LEMMA InitIInv == Init => IInv
<1> SUFFICES ASSUME Init PROVE IInv
  OBVIOUS
<1>1. TypeOK
  BY InitTyped
<1>2. \A p \in Procs : op[p].at = "idle"
  BY DEF Init, Idle
<1>3. InsertedOnce /\ \A p \in Procs : HandlerInv(p)
  BY <1>2
  DEF InsertedOnce, HandlerInv, NamesRequest, HoldsClaim, InsertsFresh, Undecided,
      Uncommitted, Consuming
<1>4. \A r \in Requests : RecordInv(r) /\ Safe(r)
  BY DEF Init, RecordInv, Safe, Absent
<1> QED
  BY <1>1, <1>3, <1>4, IInvParts

LEMMA StepIInv == IInv /\ [Next]_vars => IInv'
<1> SUFFICES ASSUME IInv, [Next]_vars PROVE IInv'
  OBVIOUS
<1>1. CASE UNCHANGED vars
  <2>1. UNCHANGED <<store, pastExpiry, nextRequest, stale, grants, active, default, markers,
                    committed, commits, groups, secrets, claim, groupLock, op, crashes>>
    BY <1>1 DEF vars, recordVars, connectionVars, registryVars, lockVars
  <2> QED
    BY <2>1
    DEF IInv, TypeOK, InsertedOnce, HandlerInv, NamesRequest, HoldsClaim, InsertsFresh,
        Undecided, Uncommitted, Consuming, RecordInv, ConsumedWasCommitted,
        MarkerUntilConsumed, RejectedNeverConnects
<1>2. CASE Next
  BY <1>2, StartKeeps, ContinueKeeps, EnvironmentKeeps DEF Next
<1> QED
  BY <1>1, <1>2

LEMMA InvariantHolds == Spec => []IInv
  BY InitIInv, StepIInv, PTL DEF Spec

\* Every variable keeps its type, whatever the number of handlers, requests and groups.
THEOREM TypeCorrect == Spec => []TypeOK
<1>1. IInv => TypeOK
  BY DEF IInv
<1> QED
  BY <1>1, InvariantHolds, PTL

\* A consumed answer is always one a connect commit made durable.
THEOREM ConsumedIsCommitted == Spec => []ConsumedWasCommitted
<1>1. IInv => ConsumedWasCommitted
  BY DEF IInv
<1> QED
  BY <1>1, InvariantHolds, PTL

\* A commit keeps its marker until its record is consumed or has run out.
THEOREM CommitsAreCompleted == Spec => []MarkerUntilConsumed
<1>1. IInv => MarkerUntilConsumed
  BY DEF IInv
<1> QED
  BY <1>1, InvariantHolds, PTL

\* Rejection and connection exclude each other.
THEOREM RejectionIsHonoured == Spec => []RejectedNeverConnects
<1>1. IInv => RejectedNeverConnects
  BY DEF IInv
<1> QED
  BY <1>1, InvariantHolds, PTL

-----------------------------------------------------------------------------
(* What a step may never do.                                                *)

\* The steps that write a record.
WritesRecord(p) ==
  \/ InsertRecord(p) \/ WriteRecord(p) \/ ConsumeRecord(p)
  \/ ListPending(p) \/ FailPending(p)

\* Only the connect commit adds to what was committed.
LEMMA CommittedByCommit ==
  ASSUME [Next]_vars
  PROVE  UNCHANGED <<committed, commits>> \/ \E p \in Procs : CommitConnect(p)
<1>1. CASE UNCHANGED vars
  BY <1>1 DEF vars, connectionVars
<1>2. CASE Environment
  BY <1>2
  DEF Environment, Disconnect, TenMinutesPass, ScanExpired, WriteExpired, connectionVars
<1>3. ASSUME NEW p \in Procs, Start(p) \/ AcquireGroup(p) \/ Crash(p)
      PROVE  UNCHANGED <<committed, commits>>
  BY <1>3
  DEF Start, PrepareConnect, OpenReview, ChooseAccount, PollStatus, EnterGroup,
      BeginDelete, AcquireGroup, Crash, connectionVars
<1>4. ASSUME NEW p \in Procs, Continue(p)
      PROVE  UNCHANGED <<committed, commits>> \/ CommitConnect(p)
  BY <1>4
  DEF Continue, InsertRecord, SubmitDecision, ClosePopup, EnterGroup, Throw, ClaimRequest,
      RecoverCommit, ExpireReviewed, DecideRequest, RefuseReview, ReadInto, WriteRecord,
      ConsumeRecord, SettleMarker, MarkDeleting, ReconcileMarker, ListPending,
      FailPending, DeleteSecret, RemoveConnections, RemoveGroup, connectionVars
<1> QED
  BY <1>1, <1>2, <1>3, <1>4 DEF Next

\* Only those steps and the write of an expiry scan change a record.
LEMMA RecordsByWriters ==
  ASSUME [Next]_vars
  PROVE  \/ UNCHANGED store
         \/ \E p \in Procs : WritesRecord(p)
         \/ \E r \in Requests : WriteExpired(r)
<1>1. CASE UNCHANGED vars
  BY <1>1 DEF vars, recordVars
<1>2. CASE Environment
  BY <1>2 DEF Environment, Disconnect, TenMinutesPass, ScanExpired, recordVars
<1>3. ASSUME NEW p \in Procs, Start(p) \/ AcquireGroup(p) \/ Crash(p)
      PROVE  UNCHANGED store
  BY <1>3
  DEF Start, PrepareConnect, OpenReview, ChooseAccount, PollStatus, EnterGroup,
      BeginDelete, AcquireGroup, Crash, recordVars
<1>4. ASSUME NEW p \in Procs, Continue(p)
      PROVE  UNCHANGED store \/ WritesRecord(p)
  BY <1>4
  DEF WritesRecord, Continue, SubmitDecision, ClosePopup, EnterGroup, Throw, ClaimRequest,
      RecoverCommit, ExpireReviewed, DecideRequest, RefuseReview, ReadInto,
      CommitConnect, SettleMarker, MarkDeleting, ReconcileMarker,
      DeleteSecret, RemoveConnections, RemoveGroup, recordVars
<1> QED
  BY <1>1, <1>2, <1>3, <1>4 DEF Next

\* A request that has made a commit has made one.
Counted == \A r \in Requests : commits[r] = IF committed[r] = NoMarker THEN 0 ELSE 1

LEMMA CommitCounts ==
  ASSUME IInv, Counted, NEW p \in Procs, CommitConnect(p)
  PROVE  Counted'
<1> DEFINE r == op[p].req
           a == op[p].mem.account
           marker == [account |-> a, revision |-> op[p].mem.revision]
<1>1. op[p].at = "commit" /\ r \in Requests /\ committed[r] = NoMarker /\ TypeOK
  BY DEF IInv, HandlerInv, NamesRequest, Uncommitted, CommitConnect
<1>2. CASE UNCHANGED connectionVars
  BY <1>2 DEF Counted, connectionVars
<1>3. CASE /\ a \in Eligible
           /\ committed' = [committed EXCEPT ![r] = marker]
           /\ commits' = [commits EXCEPT ![r] = @ + 1]
  <2>1. marker # NoMarker
    BY <1>3, ConstantsAssumption DEF Eligible, NoMarker
  <2>2. commits[r] = 0
    BY <1>1 DEF Counted
  <2>3. committed'[r] = marker /\ commits'[r] = 1
    BY <1>1, <1>3, <2>2 DEF TypeOK
  <2>4. \A q \in Requests \ {r} : committed'[q] = committed[q] /\ commits'[q] = commits[q]
    BY <1>3, <1>1 DEF TypeOK
  <2> QED
    BY <2>1, <2>3, <2>4 DEF Counted
<1> QED
  BY <1>2, <1>3 DEF CommitConnect, Throw

\* A request makes one connect commit at most, whatever crashed in between.
THEOREM CommittedOnce == Spec => []SingleCommit
<1>1. Init => Counted
  BY DEF Init, Counted
<1>2. IInv /\ Counted /\ [Next]_vars => Counted'
  BY CommittedByCommit, CommitCounts DEF Counted
<1>3. Counted => SingleCommit
  BY DEF Counted, SingleCommit
<1> QED
  BY <1>1, <1>2, <1>3, InvariantHolds, PTL DEF Spec

\* A step that leaves a decision behind lets it expire, and only once it has run out.
KeepsDecision(r) ==
  store[r].status \in {"consumed", "rejected", "failed"}
    /\ store'[r].status # store[r].status =>
  store'[r].status = "expired" /\ r \in pastExpiry

\* No approval, rejection, rebind or deletion ever overwrites another's decision.
THEOREM DecisionsAreFinal == Spec => FinalDecision
<1>1. ASSUME IInv, [Next]_vars, NEW r \in Requests PROVE KeepsDecision(r)
  <2>0. TypeOK
    BY <1>1 DEF IInv
  <2>1. ASSUME NEW p \in Procs, WritesRecord(p) PROVE KeepsDecision(r)
    <3>0. NamesRequest(p) /\ InsertsFresh(p) /\ Undecided(p)
      BY <1>1 DEF IInv, HandlerInv
    <3>1. CASE InsertRecord(p)
      BY <2>0, <3>0, <3>1 DEF InsertRecord, InsertsFresh, KeepsDecision, TypeOK
    <3>2. CASE WriteRecord(p) \/ ConsumeRecord(p)
      BY <2>0, <3>0, <3>2
      DEF WriteRecord, ConsumeRecord, Throw, recordVars, Undecided, KeepsDecision, TypeOK
    <3>3. CASE ListPending(p)
      <4>1. store' = Normalized(store)
        BY <3>3 DEF ListPending
      <4> QED
        BY <1>1, <2>0, <4>1, NormalizedStep DEF NormalStep, KeepsDecision
    <3>4. CASE FailPending(p)
      <4> DEFINE records == Normalized(store)
      <4>1. \/ UNCHANGED store
            \/ \E q \in Requests :
                 store' = IF records[q].status = "pending"
                          THEN [records EXCEPT ![q].status = "failed"] ELSE records
        BY <2>0, <3>4 DEF FailPending, Throw, recordVars, TypeOK, Op
      <4>2. records \in [Requests -> Record]
        BY <2>0, NormalizedTyped DEF TypeOK
      <4>3. records[r] = store[r] \/ store[r].status = "pending"
        BY <2>0 DEF Normalized, TypeOK
      <4> HIDE DEF records
      <4>4. UNCHANGED store \/ store'[r] = records[r] \/ records[r].status = "pending"
        BY <4>1, <4>2 DEF Record
      <4> QED
        BY <4>3, <4>4 DEF KeepsDecision
    <3> QED
      BY <2>1, <3>1, <3>2, <3>3, <3>4 DEF WritesRecord
  <2>2. ASSUME NEW q \in Requests, WriteExpired(q) PROVE KeepsDecision(r)
    <3>1. q \in pastExpiry /\ stale[q] \in Record
      BY <1>1, <2>0, <2>2 DEF WriteExpired, IInv, RecordInv, TypeOK
    <3>2. store' = [store EXCEPT ![q] = [stale[q] EXCEPT !.status = "expired"]]
      BY <2>2 DEF WriteExpired
    <3> QED
      BY <2>0, <3>1, <3>2 DEF KeepsDecision, TypeOK, Record
  <2>3. CASE UNCHANGED store
    BY <2>3 DEF KeepsDecision
  <2> QED
    BY <1>1, <2>1, <2>2, <2>3, RecordsByWriters
<1>2. IInv /\ [Next]_vars => [\A r \in Requests : KeepsDecision(r)]_vars
  BY <1>1
<1>3. [][\A r \in Requests : KeepsDecision(r)]_vars => FinalDecision
  BY PTL DEF FinalDecision, KeepsDecision
<1> QED
  BY <1>2, <1>3, InvariantHolds, PTL DEF Spec

-----------------------------------------------------------------------------
(* An approval commits what its popup showed.                               *)

\* While a request is pending it has moved on from what an approval was shown, or is
\* still what was shown.
ShownOrMoved(p) ==
  op[p].kind = "approve" =>
    LET record == store[op[p].req] IN
      /\ op[p].req \in Requests
      /\ record.status # "absent"
      /\ record.status = "pending" =>
           /\ op[p].rev <= record.revision
           /\ op[p].rev = record.revision => op[p].account = record.account

\* A new account selection is about to be written over the record it was made from.
Rebinding(p) == op[p].at = "write" /\ op[p].mem.status = "pending"

SelectsAnew(p) ==
  Rebinding(p) /\ store[op[p].req].status = "pending" =>
    store[op[p].req].revision < op[p].mem.revision

\* No approval in progress was shown a selection that is still being written.
NotShownYet(p, q) ==
  op[p].kind = "approve" /\ Rebinding(q) /\ op[q].req = op[p].req =>
    op[p].rev < op[q].mem.revision

\* A handler about to commit is an approval of what it was shown.
CommitsShown(p) ==
  op[p].at = "commit" =>
    /\ op[p].kind = "approve"
    /\ op[p].mem.account = op[p].account
    /\ op[p].mem.revision = op[p].rev

Shown ==
  \A p \in Procs :
    /\ ShownOrMoved(p) /\ SelectsAnew(p) /\ CommitsShown(p)
    /\ \A q \in Procs : NotShownYet(p, q)

-----------------------------------------------------------------------------
(* A removed group has no authority.                                        *)

\* Nothing in the connection state names an account of the group.
Disowned(g) ==
  \A a \in AccountsOf(g) :
    /\ default # a
    /\ \A s \in Sites : active[s] # a /\ <<s, a>> \notin grants
    /\ \A r \in Requests : markers[r].account # a

\* How far a deletion has come.
Deleting(p) ==
  /\ op[p].at \in {"mark", "markers", "fail", "connections", "remove"} =>
       op[p].kind = "delete"
  /\ op[p].kind = "delete" =>
       /\ op[p].group \in Groups
       /\ op[p].at \notin {"claim", "read", "write", "commit"}
       /\ op[p].at \in {"markers", "consume", "settle", "fail", "connections", "remove"} =>
            groups[op[p].group] # "active"
       /\ op[p].at \in {"connections", "remove"} => op[p].group \notin secrets
       /\ op[p].at = "remove" => Disowned(op[p].group)

Removed ==
  /\ \A p \in Procs : Deleting(p)
  /\ RemovedGroupHasNoAuthority

LEMMA InitRemoved == Init => Removed
<1> SUFFICES ASSUME Init PROVE Removed
  OBVIOUS
<1>1. \A p \in Procs : Deleting(p)
  BY DEF Init, Idle, Deleting
<1>2. RemovedGroupHasNoAuthority
  BY DEF Init, RemovedGroupHasNoAuthority
<1> QED
  BY <1>1, <1>2 DEF Removed

\* A group never becomes active again, a secret never comes back, and what has been
\* disowned in deletion stays so.
StaysGone ==
  \A g \in Groups :
    /\ groups[g] # "active" => groups'[g] # "active"
    /\ g \notin secrets => g \notin secrets'
    /\ groups[g] # "active" /\ Disowned(g) => Disowned(g)'

LEMMA QuietStaysGone ==
  ASSUME TypeOK, UNCHANGED <<grants, active, default, secrets>>,
         \/ UNCHANGED groups
         \/ \E h \in Groups : \E state \in {"deleting", "removed"} :
              groups' = [groups EXCEPT ![h] = state],
         \/ UNCHANGED markers
         \/ \E r \in Requests : markers' = [markers EXCEPT ![r] = NoMarker]
  PROVE  StaysGone
<1>1. \A g \in Groups : groups[g] # "active" => groups'[g] # "active"
  BY DEF TypeOK
<1>2. \A r \in Requests : markers'[r] = markers[r] \/ markers'[r] = NoMarker
  BY DEF TypeOK
<1>3. \A r \in Requests : \A a \in Accounts : markers[r].account # a => markers'[r].account # a
  BY <1>2, ConstantsAssumption DEF NoMarker
<1>4. \A g \in Groups : Disowned(g) => Disowned(g)'
  BY <1>3 DEF Disowned, AccountsOf
<1> QED
  BY <1>1, <1>4 DEF StaysGone

LEMMA CommitStaysGone ==
  ASSUME TypeOK, NEW p \in Procs, CommitConnect(p)
  PROVE  StaysGone
<1>1. CASE Throw(p)
  BY <1>1, QuietStaysGone DEF Throw, connectionVars, registryVars
<1>2. CASE ~Throw(p)
  <2> DEFINE r == op[p].req
             s == SiteOf[r]
             a == op[p].mem.account
             n == op[p].mem.revision
  <2>1. /\ a \in Eligible
        /\ grants' = grants \union {<<s, a>>}
        /\ active' = [active EXCEPT ![s] = a]
        /\ default' = a
        /\ markers' = [markers EXCEPT ![r] = [account |-> a, revision |-> n]]
        /\ UNCHANGED registryVars
    BY <1>2 DEF CommitConnect
  <2> HIDE DEF r, s, a, n
  <2>2. ASSUME NEW g \in Groups, groups[g] # "active", Disowned(g), NEW b \in AccountsOf(g)
        PROVE  /\ default' # b
               /\ \A t \in Sites : active'[t] # b /\ <<t, b>> \notin grants'
               /\ \A q \in Requests : markers'[q].account # b
    <3>1. b # a
      BY <2>1, <2>2 DEF Eligible, AccountsOf
    <3>2. \A q \in Requests : markers'[q] = markers[q] \/ markers'[q].account = a
      BY <2>1 DEF TypeOK
    <3>3. \A t \in Sites : active'[t] \in {active[t], a}
      BY <2>1 DEF TypeOK
    <3>4. \A t \in Sites : <<t, b>> \notin grants'
      BY <2>1, <2>2, <3>1 DEF Disowned
    <3> QED
      BY <2>1, <2>2, <3>1, <3>2, <3>3, <3>4 DEF Disowned
  <2>3. UNCHANGED <<groups, secrets>>
    BY <2>1 DEF registryVars
  <2>4. ASSUME NEW g \in Groups, groups[g] # "active", Disowned(g) PROVE Disowned(g)'
    BY <2>2, <2>4 DEF Disowned, AccountsOf
  <2> QED
    BY <2>3, <2>4 DEF StaysGone
<1> QED
  BY <1>1, <1>2

\* Dropping a group's connections disowns it, provided that it is no longer active.
LEMMA RemoveConnectionsDisowns ==
  ASSUME TypeOK, NEW p \in Procs, RemoveConnections(p), ~Throw(p),
         NEW g \in Groups, op[p].group = g
  PROVE  StaysGone /\ (groups[g] # "active" => Disowned(g)')
<1> DEFINE gone == AccountsOf(g)
<1>1. PICK d \in {default, NoAccount} \union Eligible :
        /\ default \in gone => d \notin gone \/ d \in Eligible
        /\ default \notin gone => d = default
        /\ \A r \in Requests : markers[r].account \notin gone
        /\ grants' = {grant \in grants : grant[2] \notin gone}
        /\ active' = [s \in Sites |-> IF active[s] \in gone THEN NoAccount ELSE active[s]]
        /\ default' = d
        /\ UNCHANGED <<markers, groups, secrets>>
  BY ConstantsAssumption
  DEF RemoveConnections, AccountsOf, registryVars
<1>2. ASSUME groups[g] # "active", NEW a \in gone
      PROVE  /\ default' # a
             /\ \A s \in Sites : active'[s] # a /\ <<s, a>> \notin grants'
             /\ \A r \in Requests : markers'[r].account # a
  <2>1. a \in Accounts /\ a \notin Eligible /\ a # NoAccount
    BY <1>2, ConstantsAssumption DEF AccountsOf, Eligible
  <2>2. gone \intersect Eligible = {}
    BY <1>2 DEF AccountsOf, Eligible
  <2> QED
    BY <1>1, <1>2, <2>1, <2>2
<1>3. groups[g] # "active" => Disowned(g)'
  BY <1>2 DEF Disowned, AccountsOf
<1>4. ASSUME NEW h \in Groups, groups[h] # "active", Disowned(h), NEW a \in AccountsOf(h)
      PROVE  /\ default' # a
             /\ \A s \in Sites : active'[s] # a /\ <<s, a>> \notin grants'
             /\ \A r \in Requests : markers'[r].account # a
  <2>1. a \in Accounts /\ a \notin Eligible /\ a # NoAccount
    BY <1>4, ConstantsAssumption DEF AccountsOf, Eligible
  <2> QED
    BY <1>1, <1>4, <2>1 DEF Disowned
<1>5. ASSUME NEW h \in Groups, groups[h] # "active", Disowned(h) PROVE Disowned(h)'
  BY <1>4, <1>5 DEF Disowned, AccountsOf
<1> QED
  BY <1>1, <1>3, <1>5 DEF StaysGone

LEMMA StepStaysGone ==
  ASSUME TypeOK, Next, \A p \in Procs : Deleting(p)
  PROVE  StaysGone
<1>1. CASE Environment
  <2>1. ASSUME NEW s \in Sites, Disconnect(s) PROVE StaysGone
    <3>1. /\ grants' \subseteq grants /\ UNCHANGED <<default, markers, groups, secrets>>
          /\ \A t \in Sites : active'[t] \in {active[t], NoAccount}
      BY <2>1 DEF Disconnect, TypeOK, registryVars
    <3>2. \A g \in Groups : \A a \in AccountsOf(g) : a # NoAccount
      BY ConstantsAssumption DEF AccountsOf
    <3>3. \A g \in Groups : Disowned(g) => Disowned(g)'
      BY <3>1, <3>2 DEF Disowned, AccountsOf
    <3> QED
      BY <3>1, <3>3 DEF StaysGone
  <2>2. ASSUME UNCHANGED <<connectionVars, registryVars>> PROVE StaysGone
    BY <2>2, QuietStaysGone DEF connectionVars, registryVars
  <2> QED
    BY <1>1, <2>1, <2>2 DEF Environment, TenMinutesPass, WriteExpired, ScanExpired
<1>2. ASSUME NEW p \in Procs, Start(p) \/ AcquireGroup(p) \/ Crash(p) PROVE StaysGone
  <2>1. UNCHANGED <<connectionVars, registryVars>>
    BY <1>2
    DEF Start, PrepareConnect, OpenReview, ChooseAccount, PollStatus, EnterGroup,
        BeginDelete, AcquireGroup, Crash
  <2> QED
    BY <2>1, QuietStaysGone DEF connectionVars, registryVars
<1>3. ASSUME NEW p \in Procs, Continue(p) PROVE StaysGone
  <2>1. CASE CommitConnect(p)
    BY <2>1, CommitStaysGone
  <2>2. CASE RemoveConnections(p)
    <3>1. CASE Throw(p)
      BY <3>1, QuietStaysGone DEF Throw, connectionVars, registryVars
    <3>2. op[p].group \in Groups
      BY <2>2 DEF RemoveConnections, Deleting
    <3> QED
      BY <2>2, <3>1, <3>2, RemoveConnectionsDisowns
  <2>3. CASE SettleMarker(p)
    BY <2>3, QuietStaysGone, <1>3
    DEF SettleMarker, Throw, connectionVars, registryVars, TypeOK
  <2>4. CASE MarkDeleting(p) \/ RemoveGroup(p)
    <3>1. op[p].group \in Groups
      BY <2>4 DEF MarkDeleting, RemoveGroup, Deleting
    <3> QED
      BY <2>4, <3>1, QuietStaysGone
      DEF MarkDeleting, RemoveGroup, Throw, connectionVars, registryVars
  <2>5. CASE DeleteSecret(p)
    BY <2>5 DEF DeleteSecret, StaysGone, Disowned, AccountsOf, connectionVars
  <2>6. ASSUME UNCHANGED <<connectionVars, registryVars>> PROVE StaysGone
    BY <2>6, QuietStaysGone DEF connectionVars, registryVars
  <2> QED
    BY <1>3, <2>1, <2>2, <2>3, <2>4, <2>5, <2>6
    DEF Continue, InsertRecord, SubmitDecision, ClosePopup, EnterGroup, Throw, ClaimRequest,
        RecoverCommit, ExpireReviewed, DecideRequest, RefuseReview, ReadInto, WriteRecord,
        ConsumeRecord, ReconcileMarker, ListPending, FailPending
<1> QED
  BY <1>1, <1>2, <1>3 DEF Next

\* A handler's step leaves the others where they are.
LEMMA OnlyOwnOp ==
  ASSUME TypeOK, NEW p \in Procs, Start(p) \/ AcquireGroup(p) \/ Continue(p) \/ Crash(p)
  PROVE  \A q \in Procs \ {p} : op'[q] = op[q]
<1>1. CASE Start(p)
  BY <1>1
  DEF Start, PrepareConnect, OpenReview, ChooseAccount, PollStatus, EnterGroup,
      BeginDelete, TypeOK
<1>2. CASE Throw(p) \/ AcquireGroup(p) \/ Crash(p)
  BY <1>2 DEF Throw, AcquireGroup, Crash, Return, Goto, TypeOK
<1>3. CASE InsertRecord(p) \/ SubmitDecision(p) \/ ClosePopup(p) \/ ClaimRequest(p)
  BY <1>2, <1>3 DEF InsertRecord, SubmitDecision, ClosePopup, EnterGroup, ClaimRequest, Goto, TypeOK
<1>4. CASE RecoverCommit(p) \/ ExpireReviewed(p) \/ DecideRequest(p) \/ RefuseReview(p)
  BY <1>2, <1>4
  DEF RecoverCommit, ExpireReviewed, DecideRequest, RefuseReview, ReadInto, TypeOK
<1>5. CASE WriteRecord(p) \/ CommitConnect(p) \/ ConsumeRecord(p) \/ SettleMarker(p)
  BY <1>2, <1>5
  DEF WriteRecord, CommitConnect, ConsumeRecord, SettleMarker, Return, Goto, TypeOK
<1>6. CASE MarkDeleting(p) \/ ReconcileMarker(p) \/ ListPending(p)
  BY <1>2, <1>6 DEF MarkDeleting, ReconcileMarker, ListPending, TypeOK
<1>7. CASE FailPending(p) \/ DeleteSecret(p) \/ RemoveConnections(p) \/ RemoveGroup(p)
  BY <1>2, <1>7
  DEF FailPending, DeleteSecret, RemoveConnections, RemoveGroup, Return, Goto, TypeOK
<1> QED
  BY <1>1, <1>2, <1>3, <1>4, <1>5, <1>6, <1>7 DEF Continue

LEMMA OthersDeleting ==
  ASSUME StaysGone, NEW q \in Procs, Deleting(q), op'[q] = op[q]
  PROVE  Deleting(q)'
<1>1. PICK g : g = op[q].group
  OBVIOUS
<1>2. op[q].kind = "delete" =>
        /\ g \in Groups
        /\ op[q].at \in {"markers", "consume", "settle", "fail", "connections", "remove"} =>
             groups'[g] # "active"
        /\ op[q].at \in {"connections", "remove"} => g \notin secrets'
        /\ op[q].at = "remove" => Disowned(g)'
  BY <1>1 DEF Deleting, StaysGone
<1> QED
  BY <1>1, <1>2 DEF Deleting

\* The steps that sweep a group's requests go on with the same deletion.
SameDeletion(p) == op'[p].kind = op[p].kind /\ op'[p].group = op[p].group

LEMMA DeletionGoesOn ==
  ASSUME TypeOK, NEW p \in Procs, ~Throw(p)
  PROVE  /\ MarkDeleting(p) => SameDeletion(p) /\ op'[p].at = "markers"
         /\ ReconcileMarker(p) => SameDeletion(p) /\ op'[p].at \in {"consume", "settle"}
         /\ ListPending(p) \/ FailPending(p) => SameDeletion(p) /\ op'[p].at = "fail"
<1>0. op[p] \in Op
  BY DEF TypeOK
<1>1. ASSUME MarkDeleting(p) PROVE SameDeletion(p) /\ op'[p].at = "markers"
  <2>1. op' = [op EXCEPT ![p] = [op[p] EXCEPT !.at = "markers",
                 !.todo = {r \in Requests : markers[r].account \in AccountsOf(op[p].group)}]]
    BY <1>1 DEF MarkDeleting, TypeOK
  <2> QED
    BY <1>0, <2>1 DEF SameDeletion, TypeOK, Op
<1>2. ASSUME ReconcileMarker(p) PROVE SameDeletion(p) /\ op'[p].at \in {"consume", "settle"}
  <2>1. PICK r \in op[p].todo :
          op' = [op EXCEPT ![p].at = IF store[r].status = "pending"
                                        THEN "consume" ELSE "settle",
                              ![p].req = r, ![p].mem = store[r],
                              ![p].todo = @ \ {r}]
    BY <1>2 DEF ReconcileMarker
  <2>2. PICK step \in {"consume", "settle"} :
          op' = [op EXCEPT ![p] = [op[p] EXCEPT !.at = step, !.req = r,
                                                !.mem = store[r], !.todo = @ \ {r}]]
    BY <2>1 DEF TypeOK
  <2> QED
    BY <1>0, <2>2 DEF SameDeletion, TypeOK, Op
<1>3. ASSUME ListPending(p) PROVE SameDeletion(p) /\ op'[p].at = "fail"
  <2>1. PICK due : op' = [op EXCEPT ![p] = [op[p] EXCEPT !.at = "fail", !.todo = due]]
    BY <1>3 DEF ListPending, TypeOK
  <2> QED
    BY <1>0, <2>1 DEF SameDeletion, TypeOK, Op
<1>4. ASSUME FailPending(p) PROVE SameDeletion(p) /\ op'[p].at = "fail"
  <2>1. PICK r : op' = [op EXCEPT ![p].todo = @ \ {r}]
    BY <1>4 DEF FailPending
  <2> QED
    BY <1>0, <1>4, <2>1 DEF FailPending, SameDeletion, TypeOK, Op
<1> QED
  BY <1>1, <1>2, <1>3, <1>4

LEMMA OwnDeleting ==
  ASSUME TypeOK, StaysGone, NEW p \in Procs, Deleting(p),
         Start(p) \/ AcquireGroup(p) \/ Continue(p) \/ Crash(p)
  PROVE  Deleting(p)'
<1>0. op[p] \in Op
  BY DEF TypeOK
<1>1. PICK g : g = op[p].group
  OBVIOUS
<1>2. CASE op'[p] = Idle
  BY <1>2 DEF Idle, Deleting
<1>3. Throw(p) \/ Crash(p) => op'[p] = Idle
  BY DEF Throw, Crash, Return, TypeOK
<1>4. CASE Start(p)
  <2>1. \/ op'[p].kind # "delete" /\ op'[p].at \in {"insert", "review", "group"}
        \/ op'[p].kind = "delete" /\ op'[p].group \in Groups /\ op'[p].at = "group"
    <3>1. CASE PrepareConnect(p)
      BY <3>1 DEF PrepareConnect, TypeOK, Idle
    <3>2. ASSUME NEW r \in Requests, OpenReview(p, r) \/ ChooseAccount(p, r)
          PROVE  op'[p].kind # "delete" /\ op'[p].at = "review"
      <4>1. CASE OpenReview(p, r)
        BY <4>1 DEF OpenReview, TypeOK, Idle
      <4>2. CASE ChooseAccount(p, r)
        BY <4>2 DEF ChooseAccount, TypeOK, Idle
      <4> QED
        BY <3>2, <4>1, <4>2
    <3>3. ASSUME NEW r \in Requests, PollStatus(p, r)
          PROVE  op'[p].kind # "delete" /\ op'[p].at = "group"
      BY <3>3 DEF PollStatus, EnterGroup, TypeOK, Idle
    <3>4. ASSUME NEW h \in Groups, BeginDelete(p, h)
          PROVE  op'[p].kind = "delete" /\ op'[p].group \in Groups /\ op'[p].at = "group"
      BY <3>4 DEF BeginDelete, TypeOK, Idle
    <3> QED
      BY <1>4, <3>1, <3>2, <3>3, <3>4 DEF Start
  <2> QED
    BY <2>1 DEF Deleting
<1>5. CASE AcquireGroup(p)
  <2>1. /\ op'[p].kind = op[p].kind /\ op'[p].group = op[p].group
        /\ op'[p].at = IF op[p].kind = "delete" THEN "mark" ELSE "claim"
    BY <1>0, <1>5 DEF AcquireGroup, Goto, TypeOK, Op
  <2> QED
    BY <2>1 DEF Deleting
<1>6. CASE SubmitDecision(p) /\ ~Throw(p)
  <2>1. PICK a \in Accounts : op' = [op EXCEPT ![p] = [op[p] EXCEPT !.at = "group", !.group = GroupOf[a]]]
    BY <1>6 DEF SubmitDecision, EnterGroup, Eligible
  <2>2. op'[p].at = "group" /\ op'[p].group \in Groups
    BY <1>0, <2>1, ConstantsAssumption DEF TypeOK, Op
  <2> QED
    BY <2>2 DEF Deleting
<1>7. CASE /\ \/ ClaimRequest(p) \/ RecoverCommit(p) \/ ExpireReviewed(p)
              \/ DecideRequest(p) \/ CommitConnect(p)
           /\ ~Throw(p)
  <2>1. /\ op'[p].kind = op[p].kind
        /\ op[p].at \in {"claim", "read", "commit"}
        /\ op'[p].at \in {"read", "consume", "settle", "write", "commit"}
    BY <1>0, <1>7
    DEF ClaimRequest, RecoverCommit, ExpireReviewed, DecideRequest, CommitConnect,
        ReadInto, Goto, TypeOK, Op
  <2> QED
    BY <2>1 DEF Deleting
<1>8. CASE (InsertRecord(p) \/ WriteRecord(p) \/ RemoveGroup(p)) /\ ~Throw(p)
  <2>1. op'[p] = Idle
    BY <1>8 DEF InsertRecord, WriteRecord, RemoveGroup, Return, TypeOK
  <2> QED
    BY <1>2, <2>1
<1>9. CASE ConsumeRecord(p)
  <2>1. /\ op'[p].kind = op[p].kind /\ op'[p].group = op[p].group
        /\ op[p].at = "consume" /\ op'[p].at = "settle"
    BY <1>0, <1>9 DEF ConsumeRecord, Goto, TypeOK, Op
  <2> QED
    BY <2>1 DEF Deleting, StaysGone
<1>10. CASE SettleMarker(p) /\ ~Throw(p)
  <2>1. CASE op[p].kind = "delete"
    <3>1. op' = [op EXCEPT ![p] = [op[p] EXCEPT !.at = "markers", !.req = 0, !.mem = Absent]]
      BY <1>10, <2>1 DEF SettleMarker, TypeOK
    <3>2. /\ op'[p].kind = op[p].kind /\ op'[p].group = op[p].group
          /\ op[p].at = "settle" /\ op'[p].at = "markers"
      BY <1>0, <1>10, <3>1 DEF SettleMarker, TypeOK, Op
    <3> QED
      BY <2>1, <3>2 DEF Deleting, StaysGone
  <2>2. CASE op[p].kind # "delete"
    BY <1>2, <1>10, <2>2 DEF SettleMarker, Return, TypeOK
  <2> QED
    BY <2>1, <2>2
<1>11. CASE MarkDeleting(p) /\ ~Throw(p)
  <2>1. g \in Groups /\ groups'[g] = "deleting"
    BY <1>1, <1>11 DEF MarkDeleting, Deleting, TypeOK
  <2>2. op[p].kind = "delete"
    BY <1>11 DEF MarkDeleting, Deleting
  <2> QED
    BY <1>1, <1>11, <2>1, <2>2, DeletionGoesOn DEF SameDeletion, Deleting
<1>12. CASE ReconcileMarker(p) /\ ~Throw(p)
  BY <1>12, DeletionGoesOn DEF ReconcileMarker, SameDeletion, Deleting, StaysGone
<1>13. CASE (ListPending(p) \/ FailPending(p)) /\ ~Throw(p)
  BY <1>13, DeletionGoesOn
  DEF ListPending, FailPending, SameDeletion, Deleting, StaysGone
<1>14. CASE DeleteSecret(p)
  <2>1. /\ op'[p].kind = op[p].kind /\ op'[p].group = g
        /\ op[p].at = "fail" /\ op'[p].at = "connections"
        /\ secrets' = secrets \ {g}
    BY <1>0, <1>1, <1>14 DEF DeleteSecret, Goto, TypeOK, Op
  <2> QED
    BY <1>1, <2>1 DEF Deleting, StaysGone
<1>15. CASE RemoveConnections(p) /\ ~Throw(p)
  <2>1. /\ op'[p].kind = op[p].kind /\ op'[p].group = g
        /\ op[p].at = "connections" /\ op'[p].at = "remove"
    BY <1>0, <1>1, <1>15 DEF RemoveConnections, Goto, TypeOK, Op
  <2>2. g \in Groups /\ groups[g] # "active" /\ g \notin secrets
    BY <1>1, <2>1 DEF Deleting
  <2>3. Disowned(g)'
    BY <1>1, <1>15, <2>2, RemoveConnectionsDisowns
  <2> QED
    BY <1>1, <2>1, <2>2, <2>3 DEF Deleting, StaysGone
<1>16. ~RefuseReview(p) \/ Throw(p)
  BY DEF RefuseReview
<1> QED
  BY <1>2, <1>3, <1>4, <1>5, <1>6, <1>7, <1>8, <1>9, <1>10, <1>11, <1>12, <1>13, <1>14,
     <1>15, <1>16
  DEF Continue, ClosePopup

\* Only the last step of a deletion removes a group.
LEMMA RemovedByDeletion ==
  ASSUME TypeOK, Next, NEW g \in Groups, groups'[g] = "removed"
  PROVE  \/ groups[g] = "removed"
         \/ \E p \in Procs : op[p].at = "remove" /\ op[p].group = g
<1>1. CASE UNCHANGED groups
  BY <1>1
<1>2. ASSUME NEW p \in Procs, MarkDeleting(p), ~Throw(p) PROVE groups[g] = "removed"
  BY <1>2 DEF MarkDeleting, TypeOK
<1>3. ASSUME NEW p \in Procs, RemoveGroup(p)
      PROVE  groups[g] = "removed" \/ (op[p].at = "remove" /\ op[p].group = g)
  BY <1>3 DEF RemoveGroup, TypeOK
<1>4. CASE Environment
  BY <1>4 DEF Environment, Disconnect, TenMinutesPass, WriteExpired, ScanExpired, registryVars
<1>5. ASSUME NEW p \in Procs, Start(p) \/ AcquireGroup(p) \/ Crash(p) \/ Throw(p)
      PROVE  UNCHANGED groups
  BY <1>5
  DEF Start, PrepareConnect, OpenReview, ChooseAccount, PollStatus, EnterGroup,
      BeginDelete, AcquireGroup, Crash, Throw, registryVars
<1>6. ASSUME NEW p \in Procs, Continue(p), ~MarkDeleting(p), ~RemoveGroup(p)
      PROVE  UNCHANGED groups
  BY <1>5, <1>6
  DEF Continue, InsertRecord, SubmitDecision, ClosePopup, EnterGroup, ClaimRequest,
      RecoverCommit, ExpireReviewed, DecideRequest, RefuseReview, ReadInto, WriteRecord,
      CommitConnect, ConsumeRecord, SettleMarker, ReconcileMarker, ListPending,
      FailPending, DeleteSecret, RemoveConnections, registryVars
<1> QED
  BY <1>1, <1>2, <1>3, <1>4, <1>5, <1>6 DEF Next

LEMMA StepRemoved ==
  ASSUME TypeOK, Removed, [Next]_vars
  PROVE  Removed'
<1>1. CASE UNCHANGED vars
  BY <1>1
  DEF Removed, Deleting, Disowned, AccountsOf, RemovedGroupHasNoAuthority, vars,
      connectionVars, registryVars
<1>2. CASE Next
  <2>1. StaysGone
    BY <1>2, StepStaysGone DEF Removed
  <2>2. ASSUME NEW q \in Procs PROVE Deleting(q)'
    <3>1. CASE Environment
      <4>1. op'[q] = op[q]
        BY <3>1 DEF Environment, Disconnect, TenMinutesPass, WriteExpired, ScanExpired
      <4> QED
        BY <2>1, <4>1, OthersDeleting DEF Removed
    <3>2. ASSUME NEW p \in Procs, Start(p) \/ AcquireGroup(p) \/ Continue(p) \/ Crash(p)
          PROVE  Deleting(q)'
      <4>1. CASE q = p
        BY <2>1, <3>2, <4>1, OwnDeleting DEF Removed
      <4>2. CASE q # p
        BY <2>1, <3>2, <4>2, OnlyOwnOp, OthersDeleting DEF Removed
      <4> QED
        BY <4>1, <4>2
    <3> QED
      BY <1>2, <3>1, <3>2 DEF Next
  <2>3. ASSUME NEW g \in Groups, groups'[g] = "removed"
        PROVE  g \notin secrets' /\ Disowned(g)'
    <3>1. groups[g] # "active" /\ g \notin secrets /\ Disowned(g)
      <4>1. CASE groups[g] = "removed"
        BY <4>1 DEF Removed, RemovedGroupHasNoAuthority, Disowned
      <4>2. ASSUME NEW p \in Procs, op[p].at = "remove", op[p].group = g
            PROVE  groups[g] # "active" /\ g \notin secrets /\ Disowned(g)
        BY <4>2 DEF Removed, Deleting
      <4> QED
        BY <1>2, <2>3, <4>1, <4>2, RemovedByDeletion
    <3> QED
      BY <2>1, <3>1 DEF StaysGone
  <2>4. RemovedGroupHasNoAuthority'
    BY <2>3 DEF RemovedGroupHasNoAuthority, Disowned, AccountsOf
  <2> QED
    BY <2>2, <2>4 DEF Removed
<1> QED
  BY <1>1, <1>2

\* Whatever crashed, was resumed or was committed while it was being deleted, a removed
\* group has left no secret, grant, active account, default or unsettled commit.
THEOREM RemovalIsThorough == Spec => []RemovedGroupHasNoAuthority
<1>1. Init => Removed
  BY InitRemoved
<1>2. IInv /\ Removed /\ [Next]_vars => Removed'
  BY StepRemoved DEF IInv
<1>3. Removed => RemovedGroupHasNoAuthority
  BY DEF Removed
<1> QED
  BY <1>1, <1>2, <1>3, InvariantHolds, PTL DEF Spec

-----------------------------------------------------------------------------
(* The approval invariant is preserved.                                      *)

LEMMA InitShown == Init => Shown
  BY DEF Init, Idle, Shown, ShownOrMoved, SelectsAnew, CommitsShown, NotShownYet, Rebinding

\* A step of a handler, seen from the request of an approval: the record keeps what was
\* shown, is created, is decided, or takes the new selection that is being written.
Rewrites(r) ==
  \/ store'[r] = store[r]
  \/ store[r].status = "absent"
  \/ store'[r].status \notin {"pending", "absent"}
  \/ \E q \in Procs :
       Rebinding(q) /\ op[q].req = r /\ store'[r] = op[q].mem /\ op'[q] = Idle

LEMMA StepRewrites ==
  ASSUME IInv, [Next]_vars, NEW r \in Requests
  PROVE  Rewrites(r)
<1>0. TypeOK
  BY DEF IInv
<1>1. ASSUME NEW q \in Requests, WriteExpired(q) PROVE Rewrites(r)
  <2>1. stale[q] \in Record
    BY <1>0 DEF TypeOK
  <2> QED
    BY <1>0, <1>1, <2>1 DEF WriteExpired, Rewrites, TypeOK, Record
<1>2. ASSUME NEW p \in Procs, WritesRecord(p) PROVE Rewrites(r)
  <2>0. NamesRequest(p) /\ InsertsFresh(p) /\ Uncommitted(p) /\ op[p] \in Op
    BY <1>0 DEF IInv, HandlerInv, TypeOK
  <2>1. CASE InsertRecord(p)
    BY <1>0, <2>0, <2>1 DEF InsertRecord, InsertsFresh, Rewrites, TypeOK
  <2>2. CASE WriteRecord(p)
    <3>1. CASE Throw(p)
      BY <3>1 DEF Throw, recordVars, Rewrites
    <3>2. CASE ~Throw(p)
      <4>1. /\ store' = [store EXCEPT ![op[p].req] = op[p].mem] /\ op[p].at = "write"
            /\ op[p].mem.status \in {"pending", "rejected", "expired"}
            /\ op'[p] = Idle
        BY <1>0, <2>0, <2>2, <3>2 DEF WriteRecord, Uncommitted, Return, TypeOK
      <4>2. op[p].req = r => store'[r] = op[p].mem
        BY <1>0, <4>1 DEF TypeOK
      <4>3. op[p].req # r => store'[r] = store[r]
        BY <1>0, <4>1 DEF TypeOK
      <4> QED
        BY <4>1, <4>2, <4>3 DEF Rewrites, Rebinding
    <3> QED
      BY <3>1, <3>2
  <2>3. CASE ConsumeRecord(p)
    <3>1. [op[p].mem EXCEPT !.status = "consumed"].status = "consumed"
      BY <2>0 DEF Op, Record
    <3> QED
      BY <1>0, <2>3, <3>1 DEF ConsumeRecord, Rewrites, TypeOK
  <2>4. CASE ListPending(p)
    BY <1>0, <2>4, NormalizedStep DEF ListPending, NormalStep, Rewrites
  <2>5. CASE FailPending(p)
    <3> DEFINE records == Normalized(store)
    <3>1. \/ UNCHANGED store
          \/ \E q \in Requests :
               store' = IF records[q].status = "pending"
                        THEN [records EXCEPT ![q].status = "failed"] ELSE records
      BY <1>0, <2>0, <2>5 DEF FailPending, Throw, recordVars, Op
    <3>2. records \in [Requests -> Record]
      BY <1>0, NormalizedTyped DEF TypeOK
    <3>3. records[r] = store[r] \/ records[r].status = "expired"
      BY <1>0 DEF Normalized, TypeOK, Record
    <3> HIDE DEF records
    <3>4. UNCHANGED store \/ store'[r] = records[r] \/ store'[r].status = "failed"
      BY <3>1, <3>2 DEF Record
    <3> QED
      BY <3>3, <3>4 DEF Rewrites
  <2> QED
    BY <1>2, <2>1, <2>2, <2>3, <2>4, <2>5 DEF WritesRecord
<1>3. CASE UNCHANGED store
  BY <1>3 DEF Rewrites
<1> QED
  BY <1>1, <1>2, <1>3, RecordsByWriters

\* What a handler was called with.
SameCall(p) ==
  /\ op'[p].kind = op[p].kind /\ op'[p].req = op[p].req
  /\ op'[p].rev = op[p].rev /\ op'[p].account = op[p].account

\* Whatever is written meanwhile, an approval under way keeps what it was shown.
LEMMA KeepsShown ==
  ASSUME IInv, Shown, NEW p \in Procs, SameCall(p), [Next]_vars
  PROVE  /\ ShownOrMoved(p)'
         /\ \A q \in Procs : op'[q] = op[q] => NotShownYet(p, q)'
<1>1. ShownOrMoved(p) /\ \A q \in Procs : NotShownYet(p, q)
  BY DEF Shown
<1>2. op[p] \in Op /\ op[p].rev \in Nat
  BY ConstantsAssumption DEF IInv, TypeOK, Op
<1>3. CASE op[p].kind = "approve"
  <2>1. PICK r \in Requests : r = op[p].req
    BY <1>1, <1>3 DEF ShownOrMoved
  <2>2. /\ store[r].status # "absent"
        /\ store[r].status = "pending" =>
             /\ op[p].rev <= store[r].revision
             /\ op[p].rev = store[r].revision => op[p].account = store[r].account
    BY <1>1, <1>3, <2>1 DEF ShownOrMoved
  <2>3. Rewrites(r)
    BY StepRewrites
  <2>4. ASSUME NEW w \in Procs, Rebinding(w), op[w].req = r, store'[r] = op[w].mem
        PROVE  store'[r].status = "pending" /\ op[p].rev < store'[r].revision
    BY <1>3, <2>1, <2>4 DEF Shown, NotShownYet, Rebinding
  <2>5. /\ store'[r].status # "absent"
        /\ store'[r].status = "pending" =>
             /\ op[p].rev <= store'[r].revision
             /\ op[p].rev = store'[r].revision => op[p].account = store'[r].account
    <3>1. store'[r].revision \in Nat
      <4>1. TypeOK'
        BY StepIInv DEF IInv
      <4> QED
        BY <4>1, ConstantsAssumption DEF TypeOK, Record
    <3> QED
      BY <1>2, <2>2, <2>3, <2>4, <3>1 DEF Rewrites
  <2>6. ShownOrMoved(p)'
    BY <2>1, <2>5 DEF ShownOrMoved, SameCall
  <2> QED
    BY <1>1, <2>6 DEF NotShownYet, Rebinding, SameCall
<1>4. CASE op[p].kind # "approve"
  BY <1>1, <1>4 DEF ShownOrMoved, NotShownYet, SameCall
<1> QED
  BY <1>3, <1>4

LEMMA KeepsSelection ==
  ASSUME IInv, Shown, NEW q \in Procs, op'[q] = op[q], [Next]_vars
  PROVE  SelectsAnew(q)'
<1>1. CASE Rebinding(q)
  <2>0. SelectsAnew(q) /\ HandlerInv(q)
    BY DEF Shown, IInv
  <2>1. PICK r \in Requests : r = op[q].req
    BY <1>1, <2>0 DEF HandlerInv, NamesRequest, Rebinding
  <2>2. claim[r] = q /\ store[r].status \in {"pending", "expired"}
    BY <1>1, <2>0, <2>1 DEF HandlerInv, HoldsClaim, Undecided, Rebinding
  <2>3. ASSUME NEW w \in Procs, Rebinding(w), op[w].req = r PROVE w = q
    BY <2>2, <2>3 DEF IInv, HandlerInv, HoldsClaim, Rebinding
  <2>4. op'[q] # Idle
    BY <1>1 DEF Rebinding, Idle
  <2>5. store'[r] = store[r] \/ store'[r].status # "pending"
    BY <2>2, <2>3, <2>4, StepRewrites DEF Rewrites
  <2> QED
    BY <1>1, <2>0, <2>1, <2>5 DEF SelectsAnew, Rebinding
<1>2. CASE ~Rebinding(q)
  BY <1>2 DEF SelectsAnew, Rebinding
<1> QED
  BY <1>1, <1>2

\* A handler under way keeps what it was started with, or has returned.
LEMMA KeepsItsCall ==
  ASSUME TypeOK, NEW p \in Procs, Deleting(p), AcquireGroup(p) \/ Continue(p) \/ Crash(p),
         op'[p] # Idle
  PROVE  \/ op'[p].kind = "delete"
         \/ SameCall(p)
<1> USE DEF SameCall
<1>0. op[p] \in Op
  BY DEF TypeOK
<1>1. ~Throw(p) /\ ~Crash(p) /\ ~RefuseReview(p) /\ ~InsertRecord(p) /\ ~RemoveGroup(p)
        /\ ~WriteRecord(p)
  BY DEF Throw, Crash, RefuseReview, InsertRecord, RemoveGroup, WriteRecord, Return, TypeOK
<1>2. CASE SubmitDecision(p)
  <2>1. PICK g : op' = [op EXCEPT ![p] = [op[p] EXCEPT !.at = "group", !.group = g]]
    BY <1>1, <1>2 DEF SubmitDecision, EnterGroup
  <2> QED
    BY <1>0, <2>1 DEF TypeOK, Op
<1>3. CASE AcquireGroup(p) \/ ClaimRequest(p) \/ CommitConnect(p) \/ ConsumeRecord(p)
             \/ DeleteSecret(p) \/ RemoveConnections(p)
  <2>1. PICK step : Goto(p, step)
    BY <1>1, <1>3
    DEF AcquireGroup, ClaimRequest, CommitConnect, ConsumeRecord, DeleteSecret,
        RemoveConnections
  <2> QED
    BY <1>0, <2>1 DEF Goto, TypeOK, Op
<1>4. CASE RecoverCommit(p) \/ ExpireReviewed(p) \/ DecideRequest(p)
  <2>1. PICK step, rec : ReadInto(p, step, rec)
    BY <1>1, <1>4 DEF RecoverCommit, ExpireReviewed, DecideRequest
  <2>2. op'[p] = [op[p] EXCEPT !.at = step, !.mem = rec]
    BY <2>1 DEF ReadInto, TypeOK
  <2> QED
    BY <1>0, <2>2 DEF Op
<1>5. CASE SettleMarker(p)
  <2>1. op[p].kind = "delete" /\ op' = [op EXCEPT ![p].at = "markers", ![p].req = 0,
                                                  ![p].mem = Absent]
    BY <1>1, <1>5 DEF SettleMarker, Return, TypeOK
  <2> QED
    BY <1>0, <2>1 DEF TypeOK, Op
<1>6. CASE MarkDeleting(p) \/ ReconcileMarker(p) \/ ListPending(p) \/ FailPending(p)
  <2>1. op[p].at \in {"mark", "markers", "fail"}
    BY <1>6 DEF MarkDeleting, ReconcileMarker, ListPending, FailPending
  <2>2. op[p].kind = "delete"
    BY <2>1 DEF Deleting
  <2>3. op'[p].kind = op[p].kind
    BY <1>1, <1>6, DeletionGoesOn DEF SameDeletion
  <2> QED
    BY <2>2, <2>3
<1> QED
  BY <1>1, <1>2, <1>3, <1>4, <1>5, <1>6 DEF Continue, ClosePopup

\* What a handler is about to write or commit is what it has just read and decided.
LEMMA DecidesWhatItRead ==
  ASSUME IInv, NEW p \in Procs, Deleting(p), AcquireGroup(p) \/ Continue(p) \/ Crash(p),
         NEW r \in Requests, r = op[p].req, op'[p].at \in {"write", "commit"}
  PROVE  /\ UNCHANGED store
         /\ op'[p].at = "commit" =>
              /\ op[p].kind = "approve" /\ Reviewed(p, r) /\ op'[p].mem = store[r]
         /\ op'[p].at = "write" /\ op'[p].mem.status = "pending" =>
              /\ store[r].status = "pending"
              /\ op'[p].mem.revision = store[r].revision + 1
<1>0. TypeOK /\ op[p] \in Op /\ op \in [Procs -> Op] /\ store[r] \in Record
  BY DEF IInv, TypeOK
<1>1. ~Throw(p) /\ ~Crash(p) /\ ~RefuseReview(p) /\ ~InsertRecord(p) /\ ~RemoveGroup(p)
        /\ ~WriteRecord(p)
  BY <1>0
  DEF Throw, Crash, RefuseReview, InsertRecord, RemoveGroup, WriteRecord, Return, Idle
<1>2. ~SubmitDecision(p)
  <2>1. ASSUME SubmitDecision(p) PROVE FALSE
    <3>1. PICK g : op' = [op EXCEPT ![p] = [op[p] EXCEPT !.at = "group", !.group = g]]
      BY <1>1, <2>1 DEF SubmitDecision, EnterGroup
    <3> QED
      BY <1>0, <3>1 DEF Op
  <2> QED
    BY <2>1
<1>3. /\ ~AcquireGroup(p) /\ ~ClaimRequest(p) /\ ~CommitConnect(p) /\ ~ConsumeRecord(p)
      /\ ~DeleteSecret(p) /\ ~RemoveConnections(p)
  <2>1. \A step : Goto(p, step) => op'[p].at = step
    BY <1>0 DEF Goto, Op
  <2>2. ~AcquireGroup(p) /\ ~ClaimRequest(p)
    BY <1>0, <1>1, <2>1 DEF AcquireGroup, ClaimRequest
  <2>3. ~CommitConnect(p) /\ ~ConsumeRecord(p)
    BY <1>0, <1>1, <2>1 DEF CommitConnect, ConsumeRecord
  <2>4. ~DeleteSecret(p) /\ ~RemoveConnections(p)
    BY <1>0, <1>1, <2>1 DEF DeleteSecret, RemoveConnections
  <2> QED
    BY <2>2, <2>3, <2>4
<1>4. ~RecoverCommit(p)
  BY <1>0, <1>1, ReadIntoIs DEF RecoverCommit
<1>5. ~SettleMarker(p)
  <2>1. ASSUME SettleMarker(p) PROVE FALSE
    <3>1. op' = [op EXCEPT ![p].at = "markers", ![p].req = 0, ![p].mem = Absent]
            \/ op'[p] = Idle
      BY <1>0, <1>1, <2>1 DEF SettleMarker, Return
    <3> QED
      BY <1>0, <3>1 DEF Op, Idle
  <2> QED
    BY <2>1
<1>6. /\ ~MarkDeleting(p) /\ ~ReconcileMarker(p) /\ ~ListPending(p) /\ ~FailPending(p)
  BY <1>0, <1>1, DeletionGoesOn DEF SameDeletion
<1>7. CASE ExpireReviewed(p)
  <2>1. [store[r] EXCEPT !.status = "expired"].status = "expired"
    BY <1>0 DEF Record
  <2>2. ReadInto(p, "write", [store[r] EXCEPT !.status = "expired"])
    BY <1>7 DEF ExpireReviewed
  <2> QED
    BY <1>0, <2>1, <2>2, ReadIntoIs DEF recordVars
<1>8. CASE DecideRequest(p)
  <2> DEFINE rejected == [store[r] EXCEPT !.status = "rejected"]
             rebound == [store[r] EXCEPT !.account = op[p].account, !.revision = @ + 1]
  <2>1. rejected.status = "rejected" /\ rebound.revision = store[r].revision + 1
    BY <1>0 DEF Record
  <2>2. \/ Approvable(p, r) /\ ReadInto(p, "commit", store[r])
        \/ ReadInto(p, "write", rejected)
        \/ Rebindable(p, r) /\ ReadInto(p, "write", rebound)
    BY <1>8 DEF DecideRequest
  <2> HIDE DEF rejected, rebound
  <2>3. CASE Approvable(p, r) /\ ReadInto(p, "commit", store[r])
    BY <1>0, <2>3, ReadIntoIs DEF Approvable, recordVars
  <2>4. CASE ReadInto(p, "write", rejected)
    BY <1>0, <2>1, <2>4, ReadIntoIs DEF recordVars
  <2>5. CASE Rebindable(p, r) /\ ReadInto(p, "write", rebound)
    BY <1>0, <2>1, <2>5, ReadIntoIs DEF Rebindable, Reviewed, recordVars
  <2> QED
    BY <2>2, <2>3, <2>4, <2>5
<1> QED
  BY <1>1, <1>2, <1>3, <1>4, <1>5, <1>6, <1>7, <1>8 DEF Continue, ClosePopup

LEMMA StartShown ==
  ASSUME IInv, Shown, NEW p \in Procs, Start(p)
  PROVE  /\ ShownOrMoved(p)' /\ SelectsAnew(p)' /\ CommitsShown(p)'
         /\ \A q \in Procs : NotShownYet(p, q)' /\ NotShownYet(q, p)'
<1>0. TypeOK
  BY DEF IInv
<1>1. op'[p].at \in {"insert", "review", "group"} /\ UNCHANGED store
  <2>1. CASE PrepareConnect(p)
    BY <1>0, <2>1 DEF PrepareConnect, TypeOK, Idle
  <2>2. ASSUME NEW r \in Requests, OpenReview(p, r) \/ ChooseAccount(p, r) \/ PollStatus(p, r)
        PROVE  op'[p].at \in {"review", "group"} /\ UNCHANGED store
    <3>1. CASE OpenReview(p, r)
      BY <1>0, <3>1 DEF OpenReview, TypeOK, Idle, recordVars
    <3>2. CASE ChooseAccount(p, r)
      BY <1>0, <3>2 DEF ChooseAccount, TypeOK, Idle, recordVars
    <3>3. CASE PollStatus(p, r)
      BY <1>0, <3>3 DEF PollStatus, EnterGroup, TypeOK, Idle, recordVars
    <3> QED
      BY <2>2, <3>1, <3>2, <3>3
  <2>3. ASSUME NEW h \in Groups, BeginDelete(p, h)
        PROVE  op'[p].at = "group" /\ UNCHANGED store
    BY <1>0, <2>3 DEF BeginDelete, TypeOK, Idle, recordVars
  <2> QED
    BY <2>1, <2>2, <2>3 DEF Start
<1>2. \/ op'[p].kind # "approve"
      \/ \E r \in Requests : OpenReview(p, r)
  <2>1. PrepareConnect(p) => op'[p].kind = "prepare"
    BY <1>0 DEF PrepareConnect, TypeOK, Idle
  <2>2. ASSUME NEW r \in Requests
        PROVE  ChooseAccount(p, r) \/ PollStatus(p, r) => op'[p].kind \in {"rebind", "status"}
    BY <1>0 DEF ChooseAccount, PollStatus, EnterGroup, TypeOK, Idle
  <2>3. ASSUME NEW h \in Groups PROVE BeginDelete(p, h) => op'[p].kind = "delete"
    BY <1>0 DEF BeginDelete, TypeOK, Idle
  <2> QED
    BY <2>1, <2>2, <2>3 DEF Start
<1>3. SelectsAnew(p)' /\ CommitsShown(p)' /\ \A q \in Procs : NotShownYet(q, p)'
  BY <1>1 DEF SelectsAnew, CommitsShown, NotShownYet, Rebinding
<1>4. ASSUME NEW r \in Requests, OpenReview(p, r)
      PROVE  ShownOrMoved(p)' /\ \A q \in Procs : NotShownYet(p, q)'
  <2>1. /\ op'[p].req = r /\ op'[p].rev = store[r].revision
        /\ op'[p].account = store[r].account /\ store[r].status = "pending"
        /\ \A q \in Procs \ {p} : op'[q] = op[q]
    BY <1>0, <1>4 DEF OpenReview, Live, TypeOK, Idle
  <2>2. store[r].revision \in Nat
    BY <1>0, ConstantsAssumption DEF TypeOK, Record
  <2>3. ShownOrMoved(p)'
    BY <1>1, <2>1, <2>2 DEF ShownOrMoved
  <2>4. \A q \in Procs \ {p} : NotShownYet(p, q)'
    BY <1>1, <2>1 DEF Shown, SelectsAnew, NotShownYet, Rebinding
  <2> QED
    BY <1>3, <2>3, <2>4
<1>5. CASE op'[p].kind # "approve"
  BY <1>3, <1>5 DEF ShownOrMoved, NotShownYet
<1> QED
  BY <1>2, <1>3, <1>4, <1>5

LEMMA ContinueShown ==
  ASSUME IInv, IInv', Removed, Removed', Shown, [Next]_vars,
         NEW p \in Procs, AcquireGroup(p) \/ Continue(p) \/ Crash(p)
  PROVE  /\ ShownOrMoved(p)' /\ SelectsAnew(p)' /\ CommitsShown(p)'
         /\ \A q \in Procs : NotShownYet(p, q)' /\ NotShownYet(q, p)'
<1>0. TypeOK /\ Deleting(p) /\ Deleting(p)'
  BY DEF IInv, Removed
<1>1. CASE op'[p] = Idle
  BY <1>1 DEF Idle, ShownOrMoved, SelectsAnew, CommitsShown, NotShownYet, Rebinding
<1>2. CASE op'[p].kind = "delete"
  <2>1. op'[p].at \notin {"write", "commit"}
    BY <1>0, <1>2 DEF Deleting
  <2> QED
    BY <1>2, <2>1 DEF ShownOrMoved, SelectsAnew, CommitsShown, NotShownYet, Rebinding
<1>3. CASE SameCall(p)
  <2>1. /\ ShownOrMoved(p)'
        /\ \A q \in Procs \ {p} : op'[q] = op[q] /\ NotShownYet(p, q)'
    BY <1>0, <1>3, KeepsShown, OnlyOwnOp
  <2>2. CASE op'[p].at \notin {"write", "commit"}
    BY <2>1, <2>2 DEF SelectsAnew, CommitsShown, NotShownYet, Rebinding
  <2>3. CASE op'[p].at \in {"write", "commit"}
    <3>1. PICK r \in Requests : r = op'[p].req
      BY <2>3 DEF IInv, HandlerInv, NamesRequest
    <3>2. r = op[p].req
      BY <1>3, <3>1 DEF SameCall
    <3>3. /\ UNCHANGED store
          /\ op'[p].at = "commit" =>
               /\ op[p].kind = "approve" /\ Reviewed(p, r) /\ op'[p].mem = store[r]
          /\ op'[p].at = "write" /\ op'[p].mem.status = "pending" =>
               /\ store[r].status = "pending"
               /\ op'[p].mem.revision = store[r].revision + 1
      BY <1>0, <2>3, <3>2, DecidesWhatItRead
    <3>4. store[r].revision \in Nat
      BY <1>0, ConstantsAssumption DEF TypeOK, Record
    <3>5. CommitsShown(p)'
      BY <1>3, <3>2, <3>3 DEF CommitsShown, SameCall, Reviewed, Shown, ShownOrMoved
    <3>6. SelectsAnew(p)'
      BY <3>1, <3>3, <3>4 DEF SelectsAnew, Rebinding
    <3>7. ASSUME NEW q \in Procs PROVE NotShownYet(q, p)'
      <4>1. op'[q].kind = op[q].kind /\ op'[q].req = op[q].req /\ op'[q].rev = op[q].rev
        BY <1>3, <2>1 DEF SameCall
      <4>2. op[q].rev \in Nat
        BY <1>0, ConstantsAssumption DEF TypeOK, Op
      <4>3. ShownOrMoved(q)
        BY DEF Shown
      <4>4. ASSUME op[q].kind = "approve", Rebinding(p)', op[q].req = r
            PROVE  op[q].rev < op'[p].mem.revision
        <5>1. op[q].rev <= store[r].revision
          BY <3>3, <4>3, <4>4 DEF ShownOrMoved, Rebinding
        <5>2. op'[p].mem.revision = store[r].revision + 1
          BY <3>3, <4>4 DEF Rebinding
        <5> QED
          BY <3>4, <4>2, <5>1, <5>2
      <4> QED
        BY <3>1, <4>1, <4>4 DEF NotShownYet
    <3> QED
      BY <2>1, <3>5, <3>6, <3>7
  <2> QED
    BY <2>2, <2>3
<1> QED
  BY <1>0, <1>1, <1>2, <1>3, KeepsItsCall

LEMMA StepShown ==
  ASSUME IInv, Removed, Shown, [Next]_vars
  PROVE  Shown'
<1>1. ASSUME NEW q \in Procs, NEW w \in Procs, op'[q] = op[q], op'[w] = op[w]
      PROVE  /\ ShownOrMoved(q)' /\ SelectsAnew(q)' /\ CommitsShown(q)'
             /\ NotShownYet(q, w)'
  BY <1>1, KeepsShown, KeepsSelection DEF SameCall, Shown, CommitsShown
<1>2. CASE UNCHANGED op
  BY <1>1, <1>2 DEF Shown
<1>3. ASSUME NEW p \in Procs, Start(p) \/ AcquireGroup(p) \/ Continue(p) \/ Crash(p)
      PROVE  Shown'
  <2>1. \A q \in Procs \ {p} : op'[q] = op[q]
    BY <1>3, OnlyOwnOp DEF IInv
  <2>2. /\ ShownOrMoved(p)' /\ SelectsAnew(p)' /\ CommitsShown(p)'
        /\ \A q \in Procs : NotShownYet(p, q)' /\ NotShownYet(q, p)'
    <3>1. IInv' /\ Removed'
      BY StepIInv, StepRemoved DEF IInv
    <3> QED
      BY <1>3, <3>1, StartShown, ContinueShown
  <2> QED
    BY <1>1, <2>1, <2>2 DEF Shown
<1> QED
  BY <1>2, <1>3
  DEF Next, Environment, Disconnect, TenMinutesPass, WriteExpired, ScanExpired, vars

\* However often the request was rebound from another surface, an approval connects the
\* account and the revision that its popup showed, or nothing.
THEOREM ApprovalIsOfWhatWasShown == Spec => ApprovedWhatWasShown
<1> DEFINE Approved(r) ==
             commits'[r] # commits[r] =>
               \E p \in Procs : /\ op[p].kind = "approve" /\ op[p].req = r
                                /\ committed'[r] = [account |-> op[p].account,
                                                    revision |-> op[p].rev]
<1>1. Init => Removed /\ Shown
  BY InitRemoved, InitShown
<1>2. IInv /\ Removed /\ Shown /\ [Next]_vars => Removed' /\ Shown'
  BY StepRemoved, StepShown DEF IInv
<1>3. ASSUME IInv, Shown, [Next]_vars, NEW r \in Requests PROVE Approved(r)
  <2>1. ASSUME NEW p \in Procs, CommitConnect(p), commits'[r] # commits[r]
        PROVE  Approved(r)
    <3>1. /\ op[p].at = "commit" /\ op[p].req = r
          /\ committed'[r] = [account |-> op[p].mem.account, revision |-> op[p].mem.revision]
      BY <1>3, <2>1 DEF CommitConnect, Throw, connectionVars, IInv, TypeOK
    <3>2. CommitsShown(p)
      BY <1>3 DEF Shown
    <3> QED
      BY <3>1, <3>2 DEF CommitsShown
  <2> QED
    BY <1>3, <2>1, CommittedByCommit
<1>4. IInv /\ Shown /\ [Next]_vars => [\A r \in Requests : Approved(r)]_vars
  BY <1>3
<1>5. [][\A r \in Requests : Approved(r)]_vars => ApprovedWhatWasShown
  BY PTL DEF ApprovedWhatWasShown
<1> QED
  BY <1>1, <1>2, <1>4, <1>5, InvariantHolds, PTL DEF Spec

-----------------------------------------------------------------------------
(* The deletion as the rest of the wallet sees it.                          *)

LEMMA NamedOrDisowned == \A g \in Groups : g \in GroupsNamed <=> ~Disowned(g)
BY DEF GroupsNamed, Disowned

LEMMA NamedOrDisownedNext == \A g \in Groups : g \in GroupsNamed' <=> ~Disowned(g)'
BY DEF GroupsNamed, Disowned, AccountsOf

\* Only a deletion changes the registry.
LEMMA RegistryByDeletion ==
  ASSUME TypeOK, Next
  PROVE  \/ UNCHANGED registryVars
         \/ \E p \in Procs : (MarkDeleting(p) /\ ~Throw(p)) \/ DeleteSecret(p) \/ RemoveGroup(p)
<1>1. CASE Environment
  BY <1>1 DEF Environment, Disconnect, TenMinutesPass, WriteExpired, ScanExpired
<1>2. ASSUME NEW p \in Procs, Start(p) \/ AcquireGroup(p) \/ Crash(p) \/ Throw(p)
      PROVE  UNCHANGED registryVars
  BY <1>2
  DEF Start, PrepareConnect, OpenReview, ChooseAccount, PollStatus, EnterGroup,
      BeginDelete, AcquireGroup, Crash, Throw
<1>3. ASSUME NEW p \in Procs, Continue(p), ~MarkDeleting(p), ~DeleteSecret(p), ~RemoveGroup(p)
      PROVE  UNCHANGED registryVars
  BY <1>2, <1>3
  DEF Continue, InsertRecord, SubmitDecision, ClosePopup, EnterGroup, ClaimRequest,
      RecoverCommit, ExpireReviewed, DecideRequest, RefuseReview, ReadInto, WriteRecord,
      CommitConnect, ConsumeRecord, SettleMarker, ReconcileMarker, ListPending,
      FailPending, RemoveConnections, registryVars
<1> QED
  BY <1>1, <1>2, <1>3 DEF Next

\* Connections change beside it, and only an active group can gain one.
LEMMA RelationsChange ==
  ASSUME TypeOK, StaysGone, UNCHANGED registryVars
  PROVE  Authority!Relate
<1>1. ASSUME NEW g \in Groups, g \in GroupsNamed', g \notin GroupsNamed PROVE groups[g] = "active"
  BY <1>1, NamedOrDisowned, NamedOrDisownedNext DEF StaysGone
<1>2. GroupsNamed' \subseteq GroupsNamed \cup {g \in Groups : groups[g] = "active"}
  BY <1>1 DEF GroupsNamed
<1> QED
  BY <1>2 DEF Authority!Relate, Authority!Active, registryVars, TypeOK

LEMMA DeletionSteps ==
  ASSUME TypeOK, Removed, NEW p \in Procs,
         (MarkDeleting(p) /\ ~Throw(p)) \/ DeleteSecret(p) \/ RemoveGroup(p)
  PROVE  \/ \E g \in Groups : Authority!Begin(g) \/ Authority!Forget(g) \/ Authority!Finish(g)
         \/ UNCHANGED Authority!vars
<1> DEFINE g == op[p].group
<1>0. /\ g \in Groups /\ Deleting(p) /\ op[p].kind = "delete"
      /\ groups \in [Groups -> {"active", "deleting", "removed"}]
      /\ groups[g] = "removed" => g \notin secrets /\ Disowned(g)
  BY DEF Removed, Deleting, MarkDeleting, DeleteSecret, RemoveGroup, TypeOK,
         RemovedGroupHasNoAuthority, Disowned
<1> HIDE DEF g
<1> DEFINE phase == [h \in Groups |-> IF groups[h] = "removed" THEN "gone" ELSE groups[h]]
<1>1. CASE MarkDeleting(p) /\ ~Throw(p)
  <2>1. /\ groups[g] # "removed" /\ groups' = [groups EXCEPT ![g] = "deleting"]
        /\ UNCHANGED <<connectionVars, secrets>>
    BY <1>1 DEF MarkDeleting, g
  <2>2. GroupsNamed' = GroupsNamed
    BY <2>1 DEF GroupsNamed, connectionVars, AccountsOf
  <2>3. CASE groups[g] = "active"
    <3>1. phase' = [phase EXCEPT ![g] = "deleting"]
      BY <1>0, <2>1
    <3>2. Authority!Begin(g)
      BY <1>0, <2>1, <2>2, <2>3, <3>1 DEF Authority!Begin, Authority!To
    <3>3. g \in Groups
      BY <1>0
    <3> QED
      BY <3>2, <3>3 DEF Authority!Begin, Authority!To
  <2>4. CASE groups[g] = "deleting"
    <3>1. groups' = groups
      BY <1>0, <2>1, <2>4
    <3> QED
      BY <2>1, <2>2, <3>1 DEF Authority!vars
  <2> QED
    BY <1>0, <2>1, <2>3, <2>4
<1>2. CASE DeleteSecret(p)
  <2>1. /\ groups[g] # "active" /\ secrets' = secrets \ {g}
        /\ UNCHANGED <<connectionVars, groups>>
    BY <1>0, <1>2 DEF DeleteSecret, Deleting, g
  <2>2. GroupsNamed' = GroupsNamed
    BY <2>1 DEF GroupsNamed, connectionVars, AccountsOf
  <2>3. CASE groups[g] = "deleting"
    <3>1. Authority!Forget(g)
      BY <1>0, <2>1, <2>2, <2>3 DEF Authority!Forget
    <3> QED
      BY <1>0, <3>1
  <2>4. CASE groups[g] = "removed"
    <3>1. secrets' = secrets
      BY <1>0, <2>1, <2>4
    <3> QED
      BY <2>1, <2>2, <3>1 DEF Authority!vars
  <2> QED
    BY <1>0, <2>1, <2>3, <2>4
<1>3. CASE RemoveGroup(p)
  <2>1. /\ groups[g] # "active" /\ g \notin secrets /\ Disowned(g)
        /\ groups' = [groups EXCEPT ![g] = "removed"]
        /\ UNCHANGED <<connectionVars, secrets>>
    BY <1>0, <1>3 DEF RemoveGroup, Deleting, g
  <2>2. GroupsNamed' = GroupsNamed /\ g \notin GroupsNamed
    BY <1>0, <2>1, NamedOrDisowned DEF GroupsNamed, connectionVars, AccountsOf
  <2>3. CASE groups[g] = "deleting"
    <3>1. phase' = [phase EXCEPT ![g] = "gone"]
      BY <1>0, <2>1
    <3>2. Authority!Finish(g)
      BY <1>0, <2>1, <2>2, <2>3, <3>1 DEF Authority!Finish, Authority!To
    <3>3. g \in Groups
      BY <1>0
    <3> QED
      BY <3>2, <3>3 DEF Authority!Finish, Authority!To
  <2>4. CASE groups[g] = "removed"
    <3>1. groups' = groups
      BY <1>0, <2>1, <2>4
    <3> QED
      BY <2>1, <2>2, <3>1 DEF Authority!vars
  <2> QED
    BY <1>0, <2>1, <2>3, <2>4
<1> QED
  BY <1>1, <1>2, <1>3

\* Connections approved in any process give authority to active groups alone, and the deletion of
\* a group only takes away and leaves nothing behind: what the abstract GroupAuthority promises
\* (WalletService.swift, ConnectedSitesStore.swift, WalletGroupManager.swift).
THEOREM DeletionIsAuthoritative == Spec => Implements
<1>1. ASSUME Init PROVE Authority!Init
  <2>1. GroupsNamed \subseteq Groups
    BY DEF GroupsNamed
  <2> QED
    BY <1>1, <2>1 DEF Init, Authority!Init, Authority!Active
<1>2. ASSUME IInv, Removed, [Next]_vars PROVE [Authority!Next]_(Authority!vars)
  <2>1. CASE UNCHANGED vars
    <3>1. GroupsNamed' = GroupsNamed
      BY <2>1 DEF vars, GroupsNamed, connectionVars, AccountsOf
    <3> QED
      BY <2>1, <3>1 DEF vars, registryVars, Authority!vars
  <2>2. CASE Next
    <3>1. TypeOK /\ StaysGone
      BY <1>2, <2>2, StepStaysGone DEF IInv, Removed
    <3>2. CASE UNCHANGED registryVars
      BY <3>1, <3>2, RelationsChange DEF Authority!Next
    <3>3. ASSUME NEW p \in Procs, (MarkDeleting(p) /\ ~Throw(p)) \/ DeleteSecret(p) \/ RemoveGroup(p)
          PROVE  [Authority!Next]_(Authority!vars)
      BY <1>2, <3>1, <3>3, DeletionSteps DEF Authority!Next
    <3> QED
      BY <2>2, <3>1, <3>2, <3>3, RegistryByDeletion
  <2> QED
    BY <1>2, <2>1, <2>2
<1>3. IInv /\ Removed /\ [Next]_vars => Removed'
  BY StepRemoved DEF IInv
<1> QED
  BY <1>1, <1>2, <1>3, InitRemoved, InvariantHolds, PTL
     DEF Spec, Implements, Authority!Spec

-----------------------------------------------------------------------------
(* What every implementation of GroupAuthority has, and so this one.         *)

Promised == INSTANCE GroupAuthorityProofs WITH
  phase <- [g \in Groups |-> IF groups[g] = "removed" THEN "gone" ELSE groups[g]],
  named <- GroupsNamed

LEMMA PromisesKept == Spec => Promised!Spec
<1>1. Authority!Init => Promised!Init
  BY DEF Authority!Init, Promised!Init, Authority!Active, Promised!Active
<1>2. [Authority!Next]_(Authority!vars) => [Promised!Next]_(Promised!vars)
  BY DEF Authority!Next, Authority!vars, Authority!Relate, Authority!Save, Authority!Register,
         Authority!Abandon, Authority!TakeBack, Authority!Begin, Authority!Forget,
         Authority!Finish, Authority!To, Authority!Active,
         Promised!Next, Promised!vars, Promised!Relate, Promised!Save, Promised!Register,
         Promised!Abandon, Promised!TakeBack, Promised!Begin, Promised!Forget,
         Promised!Finish, Promised!To, Promised!Active
<1> QED
  BY <1>1, <1>2, DeletionIsAuthoritative, PTL DEF Implements, Authority!Spec, Promised!Spec

\* Whatever is approved, recovered or expired in other processes, a deletion that was begun only
\* takes grants, connections, defaults, commits and the secret away, and a group that is gone has
\* none of them left (deleteGroup, WalletGroupManager.swift; mutate, ConnectionState.swift).
THEOREM DeletionTakesEverything == Spec => []Authority!GoneHasNothing /\ Authority!RemovalOnlyTakes
<1> DEFINE Life == [g \in Groups |-> IF groups[g] = "removed" THEN "gone" ELSE groups[g]]
           OnlyTakes == \A g \in Groups : Life[g] \in {"deleting", "gone"} =>
                      /\ Life'[g] \in {Life[g], "gone"}
                      /\ g \in secrets' => g \in secrets
                      /\ g \in GroupsNamed' => g \in GroupsNamed
<1>1. Promised!GoneHasNothing => Authority!GoneHasNothing
  BY DEF Promised!GoneHasNothing, Authority!GoneHasNothing, Promised!Phases, Authority!Phases
<1>2. [OnlyTakes]_(Promised!vars) => [OnlyTakes]_(Authority!vars)
  BY DEF Authority!vars, Promised!vars
<1> HIDE DEF OnlyTakes
<1>3. Promised!RemovalOnlyTakes => [][OnlyTakes]_(Promised!vars)
  BY PTL DEF Promised!RemovalOnlyTakes, OnlyTakes, Life
<1>4. [][OnlyTakes]_(Authority!vars) => Authority!RemovalOnlyTakes
  BY PTL DEF Authority!RemovalOnlyTakes, OnlyTakes, Life
<1> QED
  BY <1>1, <1>2, <1>3, <1>4, PromisesKept, Promised!NothingIsLeft, Promised!NothingComesBack, PTL

-----------------------------------------------------------------------------
(* Who has a claim is at a step that needs it, so no claim is left behind and *)
(* nobody waits for one that waits.                                          *)

OutsideSteps == {"idle", "insert", "review", "group"}
ClaimedSteps == {"read", "write", "commit", "consume", "settle"}

HoldsOnly(p) ==
  /\ \A g \in Groups : groupLock[g] = p => op[p].group = g /\ op[p].at \notin OutsideSteps
  /\ \A r \in Requests : claim[r] = p => op[p].req = r /\ op[p].at \in ClaimedSteps
  /\ op[p].at = "group" => op[p].group \in Groups

ClaimsAreNeeded == \A p \in Procs : HoldsOnly(p)

\* A step of "p" gives the others no claim.
TakesForItself(p) ==
  /\ \A q \in Procs \ {p} : \A g \in Groups : groupLock'[g] = q => groupLock[g] = q
  /\ \A q \in Procs \ {p} : \A r \in Requests : claim'[r] = q => claim[r] = q

LEMMA ReturnHolds ==
  ASSUME TypeOK, NEW p \in Procs, Return(p)
  PROVE  HoldsOnly(p)' /\ TakesForItself(p)
<1>1. op'[p].at = "idle"
  BY DEF Return, TypeOK, Idle
<1>2. /\ \A r \in Requests : claim'[r] = IF claim[r] = p THEN NoProc ELSE claim[r]
      /\ \A g \in Groups : groupLock'[g] = IF groupLock[g] = p THEN NoProc ELSE groupLock[g]
  BY DEF Return, Release
<1> QED
  BY <1>1, <1>2, ConstantsAssumption DEF HoldsOnly, TakesForItself

\* From outside, a handler starts with nothing.
LEMMA OutsideHolds ==
  ASSUME NEW p \in Procs, HoldsOnly(p), op[p].at \in OutsideSteps, UNCHANGED lockVars,
         op'[p].at = "group" => op'[p].group \in Groups
  PROVE  HoldsOnly(p)' /\ TakesForItself(p)
BY DEF HoldsOnly, TakesForItself, OutsideSteps, ClaimedSteps, lockVars

\* Inside, it goes on with what it has.
LEMMA OnwardHolds ==
  ASSUME NEW p \in Procs, HoldsOnly(p), UNCHANGED lockVars, op'[p].group = op[p].group,
         op'[p].at \notin OutsideSteps,
         op[p].at \in ClaimedSteps => op'[p].req = op[p].req /\ op'[p].at \in ClaimedSteps
  PROVE  HoldsOnly(p)' /\ TakesForItself(p)
BY DEF HoldsOnly, TakesForItself, OutsideSteps, lockVars

LEMMA HandlerHolds ==
  ASSUME TypeOK, NEW p \in Procs, HoldsOnly(p),
         Start(p) \/ AcquireGroup(p) \/ Continue(p) \/ Crash(p)
  PROVE  HoldsOnly(p)' /\ TakesForItself(p)
<1> USE DEF OutsideSteps, ClaimedSteps
<1>0. op[p] \in Op /\ op \in [Procs -> Op] /\ p # NoProc
  BY ConstantsAssumption DEF TypeOK
<1>1. Throw(p) \/ Crash(p) => HoldsOnly(p)' /\ TakesForItself(p)
  BY ReturnHolds DEF Throw, Crash
<1>2. CASE Start(p)
  <2>1. op[p] = Idle /\ UNCHANGED lockVars
    BY <1>2 DEF Start, PrepareConnect, OpenReview, ChooseAccount, PollStatus, EnterGroup,
                BeginDelete
  <2>2. op[p].at = "idle"
    BY <2>1 DEF Idle
  <2>3. op'[p].at = "group" => op'[p].group \in Groups
    <3>1. CASE PrepareConnect(p)
      BY <1>0, <3>1 DEF PrepareConnect, Idle
    <3>2. ASSUME NEW r \in Requests, OpenReview(p, r) \/ ChooseAccount(p, r)
          PROVE  op'[p].at = "review"
      BY <1>0, <3>2 DEF OpenReview, ChooseAccount, Idle
    <3>3. ASSUME NEW r \in Requests, PollStatus(p, r) PROVE op'[p].group \in Groups
      BY <1>0, <3>3, ConstantsAssumption DEF PollStatus, EnterGroup, Idle, Eligible
    <3>4. ASSUME NEW g \in Groups, BeginDelete(p, g) PROVE op'[p].group \in Groups
      BY <1>0, <3>4 DEF BeginDelete, Idle
    <3> QED
      BY <1>2, <3>1, <3>2, <3>3, <3>4 DEF Start
  <2> QED
    BY <2>1, <2>2, <2>3, OutsideHolds
<1>3. CASE AcquireGroup(p)
  <2>1. /\ op'[p].group = op[p].group /\ op'[p].at \notin OutsideSteps
        /\ op[p].at = "group" /\ claim' = claim
        /\ \A g \in Groups : groupLock'[g] = IF g = op[p].group THEN p ELSE groupLock[g]
    BY <1>0, <1>3 DEF AcquireGroup, Goto, TypeOK, Op
  <2> QED
    BY <2>1 DEF HoldsOnly, TakesForItself
<1>4. CASE (InsertRecord(p) \/ SubmitDecision(p)) /\ ~Throw(p)
  <2>1. op[p].at \in {"insert", "review"} /\ UNCHANGED lockVars
    BY <1>4 DEF InsertRecord, SubmitDecision, EnterGroup
  <2>2. op'[p].at = "group" => op'[p].group \in Groups
    <3>1. CASE InsertRecord(p)
      BY <1>0, <3>1 DEF InsertRecord, Idle
    <3>2. CASE SubmitDecision(p) /\ ~Throw(p)
      <4>1. PICK a \in Eligible :
              op' = [op EXCEPT ![p] = [op[p] EXCEPT !.at = "group", !.group = GroupOf[a]]]
        BY <3>2 DEF SubmitDecision, EnterGroup
      <4>2. GroupOf[a] \in Groups /\ op'[p].group = GroupOf[a]
        BY <1>0, <4>1, ConstantsAssumption DEF Eligible, Op
      <4> QED
        BY <4>2
    <3> QED
      BY <1>4, <3>1, <3>2
  <2> QED
    BY <2>1, <2>2, OutsideHolds
<1>5. CASE ClaimRequest(p) /\ ~Throw(p)
  <2>1. /\ op'[p].group = op[p].group /\ op'[p].req = op[p].req /\ op'[p].at = "read"
        /\ op[p].at = "claim" /\ groupLock' = groupLock
        /\ \A r \in Requests : claim'[r] = IF r = op[p].req THEN p ELSE claim[r]
    BY <1>0, <1>5 DEF ClaimRequest, Goto, TypeOK, Op
  <2> QED
    BY <2>1 DEF HoldsOnly, TakesForItself
<1>6. CASE (RecoverCommit(p) \/ ExpireReviewed(p) \/ DecideRequest(p)) /\ ~Throw(p)
  <2>1. /\ op'[p].group = op[p].group /\ op'[p].req = op[p].req
        /\ op[p].at = "read" /\ op'[p].at \in {"consume", "settle", "write", "commit"}
        /\ UNCHANGED lockVars
    BY <1>0, <1>6 DEF RecoverCommit, ExpireReviewed, DecideRequest, ReadInto, Op
  <2> QED
    BY <2>1, OnwardHolds
<1>7. CASE (WriteRecord(p) \/ RemoveGroup(p)) /\ ~Throw(p)
  BY <1>7, ReturnHolds DEF WriteRecord, RemoveGroup
<1>8. CASE (CommitConnect(p) \/ ConsumeRecord(p)) /\ ~Throw(p)
  <2>1. /\ op'[p].group = op[p].group /\ op'[p].req = op[p].req
        /\ op[p].at \in ClaimedSteps /\ op'[p].at \in {"consume", "settle"}
        /\ UNCHANGED lockVars
    BY <1>0, <1>8 DEF CommitConnect, ConsumeRecord, Goto, Op
  <2> QED
    BY <2>1, OnwardHolds
<1>9. CASE SettleMarker(p) /\ ~Throw(p)
  <2>1. CASE op[p].kind = "delete"
    <3>1. op' = [op EXCEPT ![p] = [op[p] EXCEPT !.at = "markers", !.req = 0, !.mem = Absent]]
      BY <1>0, <1>9, <2>1 DEF SettleMarker
    <3>2. /\ op'[p].group = op[p].group /\ op'[p].at = "markers"
          /\ groupLock' = groupLock /\ op[p].at = "settle"
          /\ \A r \in Requests : claim'[r] = IF r = op[p].req THEN NoProc ELSE claim[r]
      BY <1>0, <1>9, <2>1, <3>1 DEF SettleMarker, TypeOK, Op
    <3> QED
      BY <1>0, <3>2, ConstantsAssumption DEF HoldsOnly, TakesForItself
  <2>2. CASE op[p].kind # "delete"
    BY <1>9, <2>2, ReturnHolds DEF SettleMarker
  <2> QED
    BY <2>1, <2>2
<1>10. CASE (MarkDeleting(p) \/ ListPending(p) \/ FailPending(p)) /\ ~Throw(p)
  <2>1. /\ op'[p].group = op[p].group /\ op'[p].at \in {"markers", "fail"}
        /\ op[p].at \in {"mark", "markers", "fail"} /\ UNCHANGED lockVars
    BY <1>10, DeletionGoesOn DEF MarkDeleting, ListPending, FailPending, SameDeletion
  <2> QED
    BY <2>1, OnwardHolds
<1>11. CASE ReconcileMarker(p) /\ ~Throw(p)
  <2>1. PICK r \in op[p].todo :
          /\ claim' = [claim EXCEPT ![r] = p] /\ groupLock' = groupLock
          /\ op' = [op EXCEPT ![p].at = IF store[r].status = "pending" THEN "consume" ELSE "settle",
                              ![p].req = r, ![p].mem = store[r], ![p].todo = @ \ {r}]
    BY <1>11 DEF ReconcileMarker
  <2>2. op'[p].req = r
    BY <1>0, <2>1 DEF Op
  <2>3. /\ op'[p].group = op[p].group /\ op'[p].at \in {"consume", "settle"}
        /\ op[p].at = "markers"
    BY <1>11, DeletionGoesOn DEF ReconcileMarker, SameDeletion
  <2>4. \A q \in Requests : claim'[q] = IF q = r THEN p ELSE claim[q]
    BY <2>1 DEF TypeOK
  <2> QED
    BY <2>1, <2>2, <2>3, <2>4 DEF HoldsOnly, TakesForItself
<1>12. ASSUME NEW step \in {"connections", "remove"}, Goto(p, step), UNCHANGED lockVars,
              op[p].at \in {"fail", "connections"}
       PROVE  HoldsOnly(p)' /\ TakesForItself(p)
  <2>1. op'[p].group = op[p].group /\ op'[p].at = step
    BY <1>0, <1>12 DEF Goto, Op
  <2> QED
    BY <1>12, <2>1, OnwardHolds
<1>13. CASE DeleteSecret(p)
  BY <1>12, <1>13 DEF DeleteSecret
<1>14. CASE RemoveConnections(p) /\ ~Throw(p)
  BY <1>12, <1>14 DEF RemoveConnections
<1> QED
  BY <1>1, <1>2, <1>3, <1>4, <1>5, <1>6, <1>7, <1>8, <1>9, <1>10, <1>11, <1>13, <1>14
  DEF Continue, ClosePopup, RefuseReview

LEMMA StepHolds ==
  ASSUME TypeOK, ClaimsAreNeeded, [Next]_vars
  PROVE  ClaimsAreNeeded'
<1>1. ASSUME NEW p \in Procs, Start(p) \/ AcquireGroup(p) \/ Continue(p) \/ Crash(p)
      PROVE  ClaimsAreNeeded'
  <2>1. HoldsOnly(p)' /\ TakesForItself(p) /\ \A q \in Procs \ {p} : op'[q] = op[q]
    BY <1>1, HandlerHolds, OnlyOwnOp DEF ClaimsAreNeeded
  <2>2. ASSUME NEW q \in Procs \ {p} PROVE HoldsOnly(q)'
    BY <2>1, <2>2 DEF ClaimsAreNeeded, HoldsOnly, TakesForItself
  <2> QED
    BY <2>1, <2>2 DEF ClaimsAreNeeded
<1>2. ASSUME UNCHANGED <<op, lockVars>> PROVE ClaimsAreNeeded'
  BY <1>2 DEF ClaimsAreNeeded, HoldsOnly, lockVars
<1> QED
  BY <1>1, <1>2
  DEF Next, Environment, Disconnect, TenMinutesPass, WriteExpired, ScanExpired, vars

\* The group's claim is the one a handler waits for; a request's claim it only tries.
WaitsFor(p, q) == op[p].at = "group" /\ groupLock[op[p].group] = q

HoldersGoOn ==
  \A p, q \in Procs : WaitsFor(p, q) =>
    /\ op[q].at \notin {"idle", "review"}
    /\ ~\E r \in Procs : WaitsFor(q, r)

\* A handler waits only for one that is still at work, is not waiting for the user, and waits for
\* nobody itself: decisions, polls and deletions never wait for each other in a circle, and no
\* claim is left behind (WalletGroupLifecycle.swift, PendingWalletRequest.swift).
THEOREM NobodyWaitsInACircle == Spec => []HoldersGoOn
<1>1. Init => ClaimsAreNeeded
  BY ConstantsAssumption DEF Init, ClaimsAreNeeded, HoldsOnly, Idle
<1>2. IInv /\ ClaimsAreNeeded /\ [Next]_vars => ClaimsAreNeeded'
  BY StepHolds DEF IInv
<1>3. ClaimsAreNeeded => HoldersGoOn
  BY DEF ClaimsAreNeeded, HoldsOnly, HoldersGoOn, WaitsFor, OutsideSteps
<1> QED
  BY <1>1, <1>2, <1>3, InvariantHolds, PTL DEF Spec
=============================================================================
