----------------------------- MODULE BrowserLink -----------------------------
(***************************************************************************)
(* One request of one page, on its way through Chrome: the bridge in the     *)
(* page's isolated world, the service worker that owns the native port, the  *)
(* helper processes the worker starts, and the record the helpers share.     *)
(* The worker may be suspended at every await; its port goes with it, and    *)
(* the next message starts another helper while the last may still be busy.  *)
(*                                                                          *)
(* Sources: bridge.js, background.js, native-transport.js, ChromeHost.swift, *)
(* PendingWalletRequest.swift.  What an approval does between its claim and  *)
(* its signature is in SigningApproval; here it is one step, and so are the  *)
(* frames of the native protocol and the signature of the context check.     *)
(***************************************************************************)
EXTENDS Naturals, FiniteSets

CONSTANTS
  MaxRetries,   \* how often the bridge sends the request again: 2 in the code
  MaxLosses,    \* bound on suspensions, port timeouts and helper deaths
  Approvals     \* bound: the times the user presses Approve in the popup

ASSUME LinkAssumption == MaxRetries \in Nat /\ MaxLosses \in Nat /\ IsFiniteSet(Approvals)

\* A helper process lives as long as its port: they are numbered as they are started.
Helpers == 1..(MaxLosses + 1)
None == 0

VARIABLES
  here,        \* the document that asked is still the one in its tab
  bridge,      \* the promise of the page: what the bridge does, what it said, its retries
  call,        \* the worker's handling of ethereum.request
  poll,        \* the worker's handling of ethereum.status
  leave,       \* invalidateTab, in the worker and in the helper it wrote to
  port,        \* the helper the worker is connected to
  route,       \* extension storage holds the route of the request
  helper,      \* what became of each helper
  prep,        \* the prepare frame a helper was sent
  approval,    \* each press of Approve: the worker's part, then the helper's
  registered,  \* the approval each helper knows to cancel
  cancelled,   \* approvals whose ProtectedOperationCancellation is set
  records,     \* the records of the request: one, if the request key does its work
  status,      \* of the record
  claim,       \* the approval that holds the request's flock
  paired,      \* the wallet keeps a pairing key for the profile
  losses,
  stopped      \* history: approvals that must not sign any more

pageVars == <<here, bridge>>
workerVars == <<call, poll, port, route>>
recordVars == <<records, status, claim>>
approvalVars == <<approval, registered, cancelled, stopped>>
vars == <<pageVars, workerVars, leave, helper, prep, recordVars, approvalVars, paired, losses>>

Terminal == {"consumed", "rejected", "expired"}
BridgeSteps == {"idle", "sent", "retry", "polling", "answered"}
Answers == {"none", "result", "error", "rejected", "expired", "foreign"}
WorkerSteps == {"check", "validated"}
HelperSteps == {"posted", "asked", "vouched", "denied", "claim", "authenticate", "signed", "after"}
Unregistered == {"unused", "check", "validated", "posted"}

NoCall == [at |-> "none", helper |-> None]
NoPoll == [at |-> "none", saw |-> "pending"]
Done == [at |-> "done", helper |-> None]

TypeOK ==
  /\ here \in BOOLEAN /\ route \in BOOLEAN /\ paired \in BOOLEAN
  /\ bridge \in [at : BridgeSteps, answer : Answers, retries : 0..MaxRetries]
  /\ call \in [at : {"none", "prepare", "wait", "remember", "reply", "fail"},
               helper : Helpers \cup {None}]
  /\ poll \in [at : {"none", "owns", "get", "forget", "tell"},
               saw : Terminal \cup {"pending"}]
  /\ leave \in [at : {"none", "remove", "post", "posted", "reject", "done"},
                helper : Helpers \cup {None}]
  /\ port \in Helpers \cup {None}
  /\ helper \in [Helpers -> {"unborn", "open", "closing", "deaf", "dead"}]
  /\ prep \in [Helpers -> {"none", "sent", "done"}]
  /\ approval \in [Approvals -> [at : WorkerSteps \cup HelperSteps \cup {"unused", "done"},
                                 helper : Helpers \cup {None}]]
  /\ registered \in [Helpers -> SUBSET Approvals] /\ cancelled \subseteq Approvals
  /\ records \in 0..Cardinality(Helpers) /\ status \in Terminal \cup {"none", "pending"}
  /\ claim \subseteq Approvals /\ losses \in 0..MaxLosses /\ stopped \subseteq Approvals

Init ==
  /\ here = TRUE /\ paired = TRUE /\ route = FALSE
  /\ bridge = [at |-> "idle", answer |-> "none", retries |-> 0]
  /\ call = NoCall /\ poll = NoPoll
  /\ leave = [at |-> "none", helper |-> None] /\ port = None
  /\ helper = [g \in Helpers |-> "unborn"] /\ prep = [g \in Helpers |-> "none"]
  /\ approval = [a \in Approvals |-> [at |-> "unused", helper |-> None]]
  /\ registered = [g \in Helpers |-> {}] /\ cancelled = {}
  /\ records = 0 /\ status = "none" /\ claim = {} /\ losses = 0 /\ stopped = {}

-----------------------------------------------------------------------------
(* The port.                                                                 *)

Listening(g) == helper[g] \in {"open", "closing"}
Running(g) == Listening(g) \/ helper[g] = "deaf"
CurrentRoute == route /\ here

\* connection ??= connect(): the worker writes to its port, and opens one if it has none.
Connected(g) ==
  \/ port = g /\ UNCHANGED <<port, helper>>
  \/ /\ port = None /\ helper[g] = "unborn" /\ \A h \in 1..(g - 1) : helper[h] # "unborn"
     /\ port' = g /\ helper' = [helper EXCEPT ![g] = "open"]

\* close(): everything that waits for the port is told that the helper is unavailable.  For a
\* poll that is no answer, and the bridge polls again.
Close(state) ==
  /\ poll' = IF poll.at = "get" THEN NoPoll ELSE poll
  /\ port' = None /\ helper' = [helper EXCEPT ![port] = state]
  /\ call' = IF call.at = "wait" THEN [at |-> "fail", helper |-> None] ELSE call

Loss == losses < MaxLosses /\ losses' = losses + 1

\* An answer that takes three minutes closes the port.
PortTimeout ==
  /\ Loss /\ port # None
  /\ Close("closing")
  /\ UNCHANGED <<pageVars, route, leave, prep, recordVars, approvalVars, paired>>

\* Faulty: the bridge waits for a message that nobody answers any more.
Unheard == bridge

\* The bridge's message is rejected: it sends the request again, or tells the page of an error.
Interrupted ==
  IF bridge.at # "sent" THEN bridge
  ELSE IF bridge.retries < MaxRetries THEN [bridge EXCEPT !.at = "retry"]
  ELSE [bridge EXCEPT !.at = "answered", !.answer = "error"]

\* The worker is suspended: the handlers it was in are gone, and so is its port.
Suspend ==
  /\ Loss
  /\ port' = None /\ helper' = IF port = None THEN helper ELSE [helper EXCEPT ![port] = "closing"]
  /\ call' = NoCall /\ poll' = NoPoll
  /\ leave' = IF leave.at \in {"remove", "post"} THEN Done ELSE leave
  /\ approval' = [a \in Approvals |-> IF approval[a].at \in WorkerSteps THEN Done
                                      ELSE approval[a]]
  /\ bridge' = Interrupted
  /\ UNCHANGED <<here, route, prep, recordVars, registered, cancelled, stopped, paired>>

\* disconnect(): the helper has read the end of its input.  A check in progress has failed.
Disconnect(g) ==
  /\ helper[g] = "closing" /\ helper' = [helper EXCEPT ![g] = "deaf"]
  /\ cancelled' = cancelled \cup registered[g]
  /\ stopped' = stopped \cup {a \in Approvals : approval[a].helper = g}
  /\ approval' = [a \in Approvals |->
       IF approval[a].helper = g /\ approval[a].at \in {"asked", "vouched"}
       THEN [approval[a] EXCEPT !.at = "denied"]
       ELSE IF approval[a].helper = g /\ approval[a].at = "posted"
       THEN Done ELSE approval[a]]
  /\ prep' = IF prep[g] = "sent" THEN [prep EXCEPT ![g] = "done"] ELSE prep
  /\ leave' = IF leave.helper = g /\ leave.at = "posted" THEN Done ELSE leave
  /\ UNCHANGED <<pageVars, workerVars, recordVars, registered, paired, losses>>

\* A helper dies, of itself or because it wrote to a port that is closed.
HelperDies(g) ==
  /\ Running(g)
  /\ IF port = g THEN Loss /\ Close("dead")
     ELSE helper' = [helper EXCEPT ![g] = "dead"] /\ UNCHANGED <<port, call, poll, losses>>
  /\ approval' = [a \in Approvals |-> IF approval[a].helper = g THEN Done ELSE approval[a]]
  /\ claim' = {a \in claim : approval[a].helper # g}
  /\ registered' = [registered EXCEPT ![g] = {}]
  /\ prep' = IF prep[g] = "sent" THEN [prep EXCEPT ![g] = "done"] ELSE prep
  /\ leave' = IF leave.helper = g THEN Done ELSE leave
  /\ UNCHANGED <<pageVars, route, records, status, cancelled, stopped, paired>>

-----------------------------------------------------------------------------
(* The page asks, and the worker has the request prepared.                   *)

Request ==
  /\ here /\ bridge.at \in {"idle", "retry"} /\ call.at = "none"
  /\ bridge' = [bridge EXCEPT !.at = "sent",
                              !.retries = IF bridge.at = "retry" THEN @ + 1 ELSE @]
  /\ call' = [at |-> "prepare", helper |-> None]
  /\ UNCHANGED <<here, poll, port, route, leave, helper, prep, recordVars, approvalVars, paired,
                 losses>>

SendPrepare(g) ==
  /\ call.at = "prepare" /\ prep[g] = "none"
  /\ Connected(g)
  /\ call' = [at |-> "wait", helper |-> g] /\ prep' = [prep EXCEPT ![g] = "sent"]
  /\ UNCHANGED <<pageVars, poll, route, leave, recordVars, approvalVars, paired, losses>>

\* Faulty: a request that is sent again has a key of its own.
InsertAlways == records' = records + 1 /\ status' = "pending"

\* insertIfAbsent, under the prepare lock that the helpers share.
InsertIfAbsent ==
  IF records = 0 THEN records' = 1 /\ status' = "pending" ELSE UNCHANGED <<records, status>>

\* The helper prepares the request, whether or not the worker that asked still waits.
Prepare(g) ==
  /\ Listening(g) /\ prep[g] = "sent"
  /\ prep' = [prep EXCEPT ![g] = "done"]
  /\ InsertIfAbsent
  /\ call' = IF call.at = "wait" /\ call.helper = g THEN [at |-> "remember", helper |-> None] ELSE call
  /\ UNCHANGED <<pageVars, poll, port, route, leave, helper, claim, approvalVars, paired, losses>>

Remember ==
  /\ call.at = "remember" /\ call' = [call EXCEPT !.at = "reply"] /\ route' = TRUE
  /\ UNCHANGED <<pageVars, poll, port, leave, helper, prep, recordVars, approvalVars, paired,
                 losses>>

\* The envelope for the bridge; a page that is gone does not get it.
Reply ==
  /\ call.at \in {"reply", "fail"} /\ call' = NoCall
  /\ bridge' = IF bridge.at # "sent" THEN bridge
               ELSE IF call.at = "reply" THEN [bridge EXCEPT !.at = "polling"]
               ELSE [bridge EXCEPT !.at = "answered", !.answer = "error"]
  /\ UNCHANGED <<here, poll, port, route, leave, helper, prep, recordVars, approvalVars, paired,
                 losses>>

-----------------------------------------------------------------------------
(* The bridge polls until the record says how the request ended.             *)

PollUnchanged == UNCHANGED <<here, route, leave, prep, recordVars, approvalVars, paired, losses>>

Poll ==
  /\ here /\ bridge.at = "polling" /\ poll.at = "none"
  /\ poll' = [at |-> "owns", saw |-> "pending"]
  /\ PollUnchanged /\ UNCHANGED <<bridge, call, port, helper>>

\* The last of the 600 polls has gone.
GiveUp ==
  /\ here /\ bridge.at = "polling" /\ poll.at = "none"
  /\ bridge' = [bridge EXCEPT !.at = "answered", !.answer = "error"]
  /\ PollUnchanged /\ UNCHANGED <<poll, call, port, helper>>

PollEnds(answer) ==
  /\ poll' = NoPoll
  /\ bridge' = IF bridge.at = "polling" /\ answer # "none"
               THEN [bridge EXCEPT !.at = "answered", !.answer = answer] ELSE bridge

Owns ==
  /\ poll.at = "owns"
  /\ IF CurrentRoute THEN poll' = [poll EXCEPT !.at = "get"] /\ UNCHANGED bridge
     ELSE PollEnds("foreign")
  /\ PollUnchanged /\ UNCHANGED <<call, port, helper>>

Get(g) ==
  /\ poll.at = "get"
  /\ Connected(g)
  /\ IF status \in Terminal THEN poll' = [at |-> "forget", saw |-> status] /\ UNCHANGED bridge
     ELSE PollEnds("none")
  /\ PollUnchanged /\ UNCHANGED call

Forget ==
  /\ poll.at = "forget" /\ poll' = [poll EXCEPT !.at = "tell"] /\ route' = FALSE
  /\ UNCHANGED <<pageVars, call, port, leave, helper, prep, recordVars, approvalVars, paired,
                 losses>>

Tell ==
  /\ poll.at = "tell"
  /\ PollEnds(IF poll.saw = "consumed" THEN "result" ELSE poll.saw)
  /\ PollUnchanged /\ UNCHANGED <<call, port, helper>>

-----------------------------------------------------------------------------
(* The user approves in the popup.                                           *)

Goto(a, step) ==
  approval' = [approval EXCEPT ![a] = IF step = "done" THEN Done
                                      ELSE [approval[a] EXCEPT !.at = step]]
ApprovalUnchanged == UNCHANGED <<pageVars, call, poll, route, leave, prep, paired, losses>>
OnlyGoto(a, step) ==
  /\ Goto(a, step)
  /\ ApprovalUnchanged
  /\ UNCHANGED <<port, helper, recordVars, registered, cancelled, stopped>>

\* The rejection of a pending request that nobody has claimed.
Rejected == IF status = "pending" /\ claim = {} THEN "rejected" ELSE status

PressApprove(a) == status = "pending" /\ approval[a].at = "unused" /\ OnlyGoto(a, "check")

Validate(a) ==
  approval[a].at = "check" /\ OnlyGoto(a, IF CurrentRoute THEN "validated" ELSE "done")

PostApprove(a, g) ==
  /\ approval[a].at = "validated"
  /\ Connected(g)
  /\ approval' = [approval EXCEPT ![a] = [at |-> "posted", helper |-> g]]
  /\ ApprovalUnchanged /\ UNCHANGED <<recordVars, registered, cancelled, stopped>>

\* Faulty: the helper asks the worker first, and would register the approval afterwards.
RegisterLater(a) ==
  /\ approval[a].at = "posted" /\ Listening(approval[a].helper)
  /\ Goto(a, IF paired THEN "asked" ELSE "done") /\ UNCHANGED registered
  /\ ApprovalUnchanged /\ UNCHANGED <<port, helper, recordVars, cancelled, stopped>>

\* The helper refuses a second review, remembers what to cancel, and asks the worker whether the
\* page is still there.
Register(a) ==
  LET g == approval[a].helper IN
  /\ approval[a].at = "posted" /\ Listening(g)
  /\ IF registered[g] # {} \/ ~paired THEN Goto(a, "done") /\ UNCHANGED registered
     ELSE Goto(a, "asked") /\ registered' = [registered EXCEPT ![g] = {a}]
  /\ ApprovalUnchanged /\ UNCHANGED <<port, helper, recordVars, cancelled, stopped>>

\* The worker answers the context check, as long as its port is the helper's.
Vouch(a) ==
  /\ approval[a].at = "asked" /\ port = approval[a].helper
  /\ OnlyGoto(a, IF CurrentRoute THEN "vouched" ELSE "denied")

CheckExpires(a) == approval[a].at \in {"asked", "vouched"} /\ OnlyGoto(a, "denied")

\* The helper has the answer: the pairing key may have gone since it asked.
Accept(a) ==
  /\ approval[a].at = "vouched" /\ Listening(approval[a].helper)
  /\ OnlyGoto(a, IF paired THEN "claim" ELSE "denied")

Unregister(a) == registered' = [g \in Helpers |-> registered[g] \ {a}]

\* The page may have gone: the request is rejected.
Deny(a) ==
  /\ approval[a].at = "denied" /\ Goto(a, "done")
  /\ Unregister(a) /\ status' = Rejected
  /\ ApprovalUnchanged /\ UNCHANGED <<port, helper, records, claim, cancelled, stopped>>

Claim(a) ==
  /\ approval[a].at = "claim"
  /\ IF claim = {} /\ status = "pending" THEN Goto(a, "authenticate") /\ claim' = {a}
     ELSE Goto(a, "after") /\ UNCHANGED claim
  /\ ApprovalUnchanged
  /\ UNCHANGED <<port, helper, records, status, registered, cancelled, stopped>>

\* The user has authenticated; a cancelled operation gets no key.
Sign(a) == approval[a].at = "authenticate" /\ a \notin cancelled /\ OnlyGoto(a, "signed")

NoKey(a) ==
  /\ approval[a].at = "authenticate" /\ Goto(a, "after") /\ claim' = claim \ {a}
  /\ ApprovalUnchanged
  /\ UNCHANGED <<port, helper, records, status, registered, cancelled, stopped>>

Consume(a) ==
  /\ approval[a].at = "signed" /\ Goto(a, "after")
  /\ status' = "consumed" /\ claim' = claim \ {a}
  /\ ApprovalUnchanged /\ UNCHANGED <<port, helper, records, registered, cancelled, stopped>>

\* A request whose approval was cancelled on the way is rejected, unless it was consumed.
Finish(a) ==
  /\ approval[a].at = "after" /\ Goto(a, "done")
  /\ Unregister(a) /\ status' = IF a \in cancelled THEN Rejected ELSE status
  /\ ApprovalUnchanged /\ UNCHANGED <<port, helper, records, claim, cancelled, stopped>>

-----------------------------------------------------------------------------
(* What ends a request otherwise.                                            *)

\* The helper "g" cancels what it knows of.  From now on neither its approvals nor any that no
\* helper has taken up may sign.
Cancel(g) ==
  /\ cancelled' = cancelled \cup registered[g]
  /\ stopped' = stopped \cup {a \in Approvals : approval[a].at \in Unregistered
                                                \/ approval[a].helper = g}

\* The tab navigates or closes: the bridge goes with the document, and the worker is told.
Leave ==
  /\ here /\ here' = FALSE
  /\ bridge' = [bridge EXCEPT !.at = "idle"] /\ leave' = [leave EXCEPT !.at = "remove"]
  /\ UNCHANGED <<workerVars, helper, prep, recordVars, approvalVars, paired, losses>>

InvalidateTab ==
  /\ leave.at = "remove"
  /\ leave' = [leave EXCEPT !.at = IF route THEN "post" ELSE "done"] /\ route' = FALSE
  /\ UNCHANGED <<pageVars, call, poll, port, helper, prep, recordVars, approvalVars, paired,
                 losses>>

PostInvalidate(g) ==
  /\ leave.at = "post"
  /\ Connected(g)
  /\ leave' = [at |-> "posted", helper |-> g]
  /\ UNCHANGED <<pageVars, call, poll, route, prep, recordVars, approvalVars, paired, losses>>

Invalidate ==
  /\ leave.at = "posted" /\ Listening(leave.helper)
  /\ leave' = [leave EXCEPT !.at = "reject"]
  /\ Cancel(leave.helper)
  /\ UNCHANGED <<pageVars, workerVars, helper, prep, recordVars, approval, registered, paired,
                 losses>>

InvalidateRejects ==
  /\ leave.at = "reject" /\ leave' = Done /\ status' = Rejected
  /\ UNCHANGED <<pageVars, workerVars, helper, prep, records, claim, approvalVars, paired, losses>>

\* Unpairing, confirmed in the helper's own dialog.
Unpair(g) ==
  /\ Listening(g) /\ paired /\ paired' = FALSE
  /\ Cancel(g)
  /\ UNCHANGED <<pageVars, workerVars, leave, helper, prep, recordVars, approval, registered,
                 losses>>

PressReject(g) ==
  /\ status = "pending" /\ port = g /\ status' = Rejected
  /\ UNCHANGED <<pageVars, workerVars, leave, helper, prep, records, claim, approvalVars, paired,
                 losses>>

\* Ten minutes after it was prepared, whoever reads the record next writes that it has expired.
Expire ==
  /\ status = "pending" /\ status' = "expired"
  /\ UNCHANGED <<pageVars, workerVars, leave, helper, prep, records, claim, approvalVars, paired,
                 losses>>

-----------------------------------------------------------------------------
Page == Request \/ Poll
Worker ==
  \/ Remember \/ Reply \/ Owns \/ Forget \/ Tell \/ InvalidateTab
  \/ \E g \in Helpers : SendPrepare(g) \/ Get(g) \/ PostInvalidate(g)
  \/ \E a \in Approvals : Validate(a) \/ Vouch(a) \/ \E g \in Helpers : PostApprove(a, g)
Helper ==
  \/ \E g \in Helpers : Prepare(g) \/ Disconnect(g)
  \/ Invalidate \/ InvalidateRejects
  \/ \E a \in Approvals : Register(a) \/ CheckExpires(a) \/ Accept(a) \/ Deny(a) \/ Claim(a)
                          \/ Sign(a) \/ NoKey(a) \/ Consume(a) \/ Finish(a)
User ==
  \/ \E a \in Approvals : PressApprove(a)
  \/ \E g \in Helpers : Unpair(g) \/ PressReject(g)
  \/ Leave \/ GiveUp
Loses == PortTimeout \/ Suspend \/ \E g \in Helpers : HelperDies(g)

Next == Page \/ Worker \/ Helper \/ User \/ Loses \/ Expire
Spec == Init /\ [][Next]_vars

\* A document that is there keeps sending and polling, the browser keeps running the worker's
\* handlers, a helper reads its input, and a record that stays pending expires.
Fairness ==
  /\ WF_vars(here /\ bridge.at # "idle" /\ Page)
  /\ WF_vars(Worker)
  /\ \A g \in Helpers : WF_vars(Prepare(g))
  /\ WF_vars(Expire)
FairSpec == Spec /\ Fairness

-----------------------------------------------------------------------------
\* A request the bridge sends again while the worker comes and goes is still one request: a
\* record is made once, whichever helper the prepare frames reach (bridge.js:78-105,
\* PendingWalletRequest.swift:163-203).
OneRecordPerCall == records <= 1

\* "Navigation, closed tabs and port EOF invalidate active protected operations", and so does
\* unpairing: from the moment a helper has handled one of them, no approval it holds, and none
\* that reaches a helper later, gets a signature (ChromeHost.swift:84-190, 218-247).
StoppedNeverSigns ==
  [][\A a \in stopped : approval[a].at = "authenticate" => approval'[a].at # "signed"]_vars

\* The promise of a page that stays is settled, however often the worker is suspended.
PageIsAnswered == bridge.at = "sent" ~> (bridge.at = "answered" \/ ~here)

\* "This is a stateless read on each poll, so a suspending service worker never loses the
\* answer" (background.js:609-610): a page that is told its request is not its own has no
\* result waiting for it.
AnswerIsNotLost == bridge.answer = "foreign" => status # "consumed"
=============================================================================
