-------------------------- MODULE BrowserLinkProofs --------------------------
(***************************************************************************)
(* Proofs about BrowserLink, for any number of retries, losses and presses   *)
(* of Approve.                                                               *)
(*                                                                          *)
(* That a stopped approval never signs follows from two facts.  Held: what a *)
(* helper is busy with, it can cancel, because it registered the approval    *)
(* before it asked the worker about the page.  Barred: an approval that was  *)
(* stopped before it was registered meets a page that is gone, or a profile  *)
(* that is no longer paired, on its way to the key, and neither comes back.  *)
(***************************************************************************)
EXTENDS BrowserLink, TLAPS, FiniteSetTheorems

Busy == {"asked", "vouched", "denied", "claim", "authenticate", "signed", "after"}

\* An approval is with the helper it was posted to until it is done, and registered there.
Held(a) ==
  /\ approval[a].helper \in Helpers <=> approval[a].at \in Busy \cup {"posted"}
  /\ approval[a].at \in Busy => a \in registered[approval[a].helper]

\* A tab is invalidated only after its document has gone.
Left ==
  /\ leave.at = "none" => leave.helper = None
  /\ leave.at # "none" => ~here
  /\ leave.at \in {"posted", "reject"} => leave.helper \in Helpers

Bar(a) ==
  /\ approval[a].at \in Unregistered \cup {"asked"} => ~paired \/ ~here
  /\ approval[a].at = "vouched" => ~paired
  /\ approval[a].at \notin {"claim", "authenticate"}

Barred == \A a \in stopped \ cancelled : Bar(a)

\* The bridge sends again only what it may, and a poll that is over has read a decided record.
Heard ==
  /\ bridge.at = "retry" => bridge.retries < MaxRetries
  /\ poll.at \in {"forget", "tell"} => poll.saw \in Terminal

Linked == TypeOK /\ Heard /\ Left /\ Barred /\ \A a \in Approvals : Held(a)

USE DEF pageVars, workerVars, recordVars, approvalVars

LEMMA HelpersAreNumbers ==
  /\ Cardinality(Helpers) = MaxLosses + 1 /\ 1 \in Helpers /\ None \notin Helpers
  /\ MaxLosses \in Nat /\ MaxRetries \in Nat
<1>1. MaxLosses \in Nat /\ MaxRetries \in Nat
  BY LinkAssumption
<1>2. Cardinality(1..(MaxLosses + 1)) = MaxLosses + 1
  BY <1>1, FS_Interval
<1> QED
  BY <1>1, <1>2 DEF Helpers, None

LEMMA GotoSteps ==
  ASSUME TypeOK, NEW a \in Approvals,
         NEW step \in WorkerSteps \cup HelperSteps \cup {"done"}, Goto(a, step)
  PROVE  /\ approval' \in [Approvals -> [at : WorkerSteps \cup HelperSteps \cup {"unused", "done"},
                                         helper : Helpers \cup {None}]]
         /\ approval'[a].at = step
         /\ approval'[a].helper = IF step = "done" THEN None ELSE approval[a].helper
         /\ \A b \in Approvals \ {a} : approval'[b] = approval[b]
BY DEF TypeOK, Goto, Done

LEMMA ConnectedType ==
  ASSUME TypeOK, NEW g \in Helpers, Connected(g)
  PROVE  /\ port' \in Helpers \cup {None}
         /\ helper' \in [Helpers -> {"unborn", "open", "closing", "deaf", "dead"}]
BY DEF TypeOK, Connected

LEMMA CloseType ==
  ASSUME TypeOK, NEW state \in {"closing", "dead"}, Close(state)
  PROVE  /\ port' \in Helpers \cup {None}
         /\ helper' \in [Helpers -> {"unborn", "open", "closing", "deaf", "dead"}]
         /\ poll' \in [at : {"none", "owns", "get", "forget", "tell"}, saw : Terminal \cup {"pending"}]
         /\ call' \in [at : {"none", "prepare", "wait", "remember", "reply", "fail"},
                       helper : Helpers \cup {None}]
BY DEF TypeOK, Close, NoPoll, None

-----------------------------------------------------------------------------
(* Types.                                                                    *)

LEMMA InitType == Init => TypeOK
<1> SUFFICES ASSUME Init PROVE TypeOK
  OBVIOUS
<1>1. 0 \in 0..MaxRetries /\ 0 \in 0..MaxLosses /\ 0 \in 0..Cardinality(Helpers)
  BY HelpersAreNumbers
<1>2. /\ call \in [at : {"none", "prepare", "wait", "remember", "reply", "fail"},
                   helper : Helpers \cup {None}]
      /\ poll \in [at : {"none", "owns", "get", "forget", "tell"}, saw : Terminal \cup {"pending"}]
      /\ bridge \in [at : BridgeSteps, answer : Answers, retries : 0..MaxRetries]
  BY <1>1 DEF Init, NoCall, NoPoll, BridgeSteps, Answers
<1> QED
  BY <1>1, <1>2 DEF Init, TypeOK

LEMMA LossType ==
  ASSUME TypeOK, NEW g \in Helpers,
         PortTimeout \/ Suspend \/ HelperDies(g) \/ Disconnect(g)
  PROVE  TypeOK'
<1> USE HelpersAreNumbers
<1>1. CASE PortTimeout
  <2>1. losses' \in 0..MaxLosses
    BY <1>1 DEF PortTimeout, Loss, TypeOK
  <2> QED
    BY <1>1, <2>1, CloseType DEF PortTimeout, TypeOK
<1>2. CASE Suspend
  <2>1. losses' \in 0..MaxLosses
    BY <1>2 DEF Suspend, Loss, TypeOK
  <2>2. bridge' \in [at : BridgeSteps, answer : Answers, retries : 0..MaxRetries]
    BY <1>2 DEF Suspend, Interrupted, TypeOK, BridgeSteps, Answers
  <2>3. approval' \in [Approvals -> [at : WorkerSteps \cup HelperSteps \cup {"unused", "done"},
                                     helper : Helpers \cup {None}]]
    BY <1>2 DEF Suspend, TypeOK, Done
  <2>4. helper' \in [Helpers -> {"unborn", "open", "closing", "deaf", "dead"}]
    BY <1>2 DEF Suspend, TypeOK
  <2> QED
    BY <1>2, <2>1, <2>2, <2>3, <2>4 DEF Suspend, TypeOK, NoCall, NoPoll, Done, Terminal
<1>3. CASE HelperDies(g)
  <2>1. /\ losses' \in 0..MaxLosses /\ port' \in Helpers \cup {None}
        /\ helper' \in [Helpers -> {"unborn", "open", "closing", "deaf", "dead"}]
        /\ poll' \in [at : {"none", "owns", "get", "forget", "tell"}, saw : Terminal \cup {"pending"}]
        /\ call' \in [at : {"none", "prepare", "wait", "remember", "reply", "fail"},
                      helper : Helpers \cup {None}]
    <3>1. CASE port = g
      BY <1>3, <3>1, CloseType DEF HelperDies, Loss, TypeOK
    <3>2. CASE port # g
      BY <1>3, <3>2 DEF HelperDies, TypeOK
    <3> QED
      BY <3>1, <3>2
  <2>2. approval' \in [Approvals -> [at : WorkerSteps \cup HelperSteps \cup {"unused", "done"},
                                     helper : Helpers \cup {None}]]
    BY <1>3 DEF HelperDies, TypeOK, Done
  <2>3. /\ prep' \in [Helpers -> {"none", "sent", "done"}]
        /\ registered' \in [Helpers -> SUBSET Approvals] /\ claim' \subseteq Approvals
        /\ leave' \in [at : {"none", "remove", "post", "posted", "reject", "done"},
                       helper : Helpers \cup {None}]
    BY <1>3 DEF HelperDies, TypeOK, Done
  <2> QED
    BY <1>3, <2>1, <2>2, <2>3 DEF HelperDies, TypeOK
<1>4. CASE Disconnect(g)
  <2>1. approval' \in [Approvals -> [at : WorkerSteps \cup HelperSteps \cup {"unused", "done"},
                                     helper : Helpers \cup {None}]]
    BY <1>4 DEF Disconnect, TypeOK, Done, HelperSteps
  <2>2. /\ prep' \in [Helpers -> {"none", "sent", "done"}]
        /\ cancelled' \subseteq Approvals /\ stopped' \subseteq Approvals
        /\ leave' \in [at : {"none", "remove", "post", "posted", "reject", "done"},
                       helper : Helpers \cup {None}]
        /\ helper' \in [Helpers -> {"unborn", "open", "closing", "deaf", "dead"}]
    BY <1>4 DEF Disconnect, TypeOK, Done
  <2> QED
    BY <1>4, <2>1, <2>2 DEF Disconnect, TypeOK
<1> QED
  BY <1>1, <1>2, <1>3, <1>4

LEMMA PageType ==
  ASSUME TypeOK, Heard, NEW g \in Helpers,
         \/ Request \/ SendPrepare(g) \/ Prepare(g) \/ Remember \/ Reply \/ Poll \/ GiveUp
         \/ Owns \/ Get(g) \/ Forget \/ Tell
  PROVE  TypeOK'
<1> USE HelpersAreNumbers
<1>1. CASE Request
  <2>1. bridge' \in [at : BridgeSteps, answer : Answers, retries : 0..MaxRetries]
    <3>1. PICK n \in 0..MaxRetries : n = IF bridge.at = "retry" THEN bridge.retries + 1
                                       ELSE bridge.retries
      BY DEF TypeOK, Heard
    <3>2. bridge' = [bridge EXCEPT !.at = "sent", !.retries = n]
      BY <1>1, <3>1 DEF Request, TypeOK
    <3> QED
      BY <3>2 DEF TypeOK, BridgeSteps
  <2> QED
    BY <1>1, <2>1 DEF Request, TypeOK
<1>2. CASE SendPrepare(g)
  BY <1>2, ConnectedType DEF SendPrepare, TypeOK
<1>3. CASE Prepare(g)
  <2>1. records' \in 0..Cardinality(Helpers) /\ status' \in Terminal \cup {"none", "pending"}
    BY <1>3 DEF Prepare, InsertIfAbsent, TypeOK
  <2> QED
    BY <1>3, <2>1 DEF Prepare, TypeOK
<1>4. CASE Remember \/ Forget \/ Poll
  <2>1. /\ call' \in [at : {"none", "prepare", "wait", "remember", "reply", "fail"},
                      helper : Helpers \cup {None}]
        /\ poll' \in [at : {"none", "owns", "get", "forget", "tell"}, saw : Terminal \cup {"pending"}]
        /\ route' \in BOOLEAN
    <3>1. CASE Remember
      BY <3>1 DEF Remember, TypeOK
    <3>2. CASE Forget
      BY <3>2 DEF Forget, TypeOK
    <3>3. CASE Poll
      BY <3>3 DEF Poll, PollUnchanged, TypeOK
    <3> QED
      BY <1>4, <3>1, <3>2, <3>3
  <2> QED
    BY <1>4, <2>1 DEF Remember, Forget, Poll, PollUnchanged, TypeOK
<1>5. CASE Reply
  <2>1. bridge' \in [at : BridgeSteps, answer : Answers, retries : 0..MaxRetries]
    BY <1>5 DEF Reply, TypeOK, BridgeSteps, Answers
  <2> QED
    BY <1>5, <2>1 DEF Reply, TypeOK, NoCall
<1>6. CASE GiveUp
  <2>1. bridge' \in [at : BridgeSteps, answer : Answers, retries : 0..MaxRetries]
    BY <1>6 DEF GiveUp, TypeOK, BridgeSteps, Answers
  <2> QED
    BY <1>6, <2>1 DEF GiveUp, PollUnchanged, TypeOK
<1>7. ASSUME NEW answer \in Answers, PollEnds(answer)
      PROVE  /\ poll' \in [at : {"none", "owns", "get", "forget", "tell"},
                           saw : Terminal \cup {"pending"}]
             /\ bridge' \in [at : BridgeSteps, answer : Answers, retries : 0..MaxRetries]
  BY <1>7 DEF PollEnds, NoPoll, TypeOK, BridgeSteps
<1>8. CASE Owns
  BY <1>7, <1>8 DEF Owns, PollUnchanged, TypeOK, Answers
<1>9. CASE Get(g)
  BY <1>7, <1>9, ConnectedType DEF Get, PollUnchanged, TypeOK, Answers
<1>10. CASE Tell
  <2>1. PICK answer \in Answers : PollEnds(answer)
    BY <1>10 DEF Tell, Heard, Answers, Terminal
  <2> QED
    BY <1>7, <1>10, <2>1 DEF Tell, PollUnchanged, TypeOK
<1> QED
  BY <1>1, <1>2, <1>3, <1>4, <1>5, <1>6, <1>8, <1>9, <1>10

\* A step of an approval that moves it and touches neither the bridge nor the worker.
LEMMA ApprovalType ==
  ASSUME TypeOK, NEW a \in Approvals,
         NEW step \in WorkerSteps \cup HelperSteps \cup {"done"}, Goto(a, step),
         ApprovalUnchanged, UNCHANGED <<port, helper, records, cancelled, stopped>>,
         registered' = registered \/ Unregister(a)
           \/ \E g \in Helpers : registered' = [registered EXCEPT ![g] = {a}],
         status' \in {status, "rejected", "consumed"}, claim' \in {claim, {a}, claim \ {a}}
  PROVE  TypeOK'
<1>1. registered' \in [Helpers -> SUBSET Approvals]
  BY DEF TypeOK, Unregister
<1>2. status' \in Terminal \cup {"none", "pending"}
  BY DEF TypeOK, Terminal
<1> QED
  BY <1>1, <1>2, GotoSteps DEF TypeOK, ApprovalUnchanged

LEMMA PressType ==
  ASSUME Linked, NEW a \in Approvals, NEW g \in Helpers,
         \/ PressApprove(a) \/ Validate(a) \/ PostApprove(a, g) \/ Register(a) \/ Vouch(a)
         \/ CheckExpires(a) \/ Accept(a) \/ Deny(a) \/ Claim(a) \/ Sign(a) \/ NoKey(a)
         \/ Consume(a) \/ Finish(a)
  PROVE  TypeOK'
<1> USE DEF Linked
<1>1. ASSUME NEW step \in WorkerSteps \cup HelperSteps \cup {"done"}, OnlyGoto(a, step)
      PROVE  TypeOK'
  BY <1>1, ApprovalType DEF OnlyGoto
<1>2. CASE PressApprove(a) \/ Validate(a) \/ Vouch(a) \/ CheckExpires(a) \/ Accept(a) \/ Sign(a)
  BY <1>1, <1>2
     DEF PressApprove, Validate, Vouch, CheckExpires, Accept, Sign, WorkerSteps, HelperSteps
<1>3. CASE PostApprove(a, g)
  <2>1. approval' \in [Approvals -> [at : WorkerSteps \cup HelperSteps \cup {"unused", "done"},
                                     helper : Helpers \cup {None}]]
    BY <1>3 DEF PostApprove, TypeOK, HelperSteps
  <2> QED
    BY <1>3, <2>1, ConnectedType DEF PostApprove, ApprovalUnchanged, TypeOK
<1>4. CASE Register(a)
  <2>1. approval[a].helper \in Helpers
    BY <1>4 DEF Register, Held
  <2> QED
    BY <1>4, <2>1, ApprovalType DEF Register, HelperSteps
<1>5. CASE Deny(a) \/ Finish(a)
  BY <1>5, ApprovalType DEF Deny, Finish, Rejected
<1>6. CASE Claim(a) \/ NoKey(a) \/ Consume(a)
  BY <1>6, ApprovalType DEF Claim, NoKey, Consume, HelperSteps
<1> QED
  BY <1>2, <1>3, <1>4, <1>5, <1>6

LEMMA EndType ==
  ASSUME TypeOK, Left, NEW g \in Helpers,
         \/ Leave \/ InvalidateTab \/ PostInvalidate(g) \/ Invalidate \/ InvalidateRejects
         \/ Unpair(g) \/ PressReject(g) \/ Expire
  PROVE  TypeOK'
<1>1. CASE Leave \/ InvalidateTab
  <2>1. /\ leave' \in [at : {"none", "remove", "post", "posted", "reject", "done"},
                       helper : Helpers \cup {None}]
        /\ bridge' \in [at : BridgeSteps, answer : Answers, retries : 0..MaxRetries]
        /\ here' \in BOOLEAN /\ route' \in BOOLEAN
    BY <1>1 DEF Leave, InvalidateTab, TypeOK, BridgeSteps
  <2> QED
    BY <1>1, <2>1 DEF Leave, InvalidateTab, TypeOK
<1>2. CASE PostInvalidate(g)
  BY <1>2, ConnectedType DEF PostInvalidate, TypeOK
<1>3. ASSUME NEW h \in Helpers, Cancel(h)
      PROVE  cancelled' \subseteq Approvals /\ stopped' \subseteq Approvals
  BY <1>3 DEF Cancel, TypeOK
<1>4. CASE Invalidate
  <2>1. leave.helper \in Helpers
    BY <1>4 DEF Invalidate, Left
  <2>2. leave' \in [at : {"none", "remove", "post", "posted", "reject", "done"},
                    helper : Helpers \cup {None}]
    BY <1>4 DEF Invalidate, TypeOK
  <2> QED
    BY <1>3, <1>4, <2>1, <2>2 DEF Invalidate, TypeOK
<1>5. CASE Unpair(g)
  <2>1. /\ cancelled' \subseteq Approvals /\ stopped' \subseteq Approvals /\ paired' \in BOOLEAN
        /\ UNCHANGED <<pageVars, workerVars, leave, helper, prep, recordVars, approval, registered,
                       losses>>
    BY <1>3, <1>5 DEF Unpair
  <2> QED
    BY <2>1 DEF TypeOK
<1>6. CASE InvalidateRejects \/ PressReject(g) \/ Expire
  BY <1>6 DEF InvalidateRejects, PressReject, Expire, Rejected, Done, Terminal, TypeOK
<1> QED
  BY <1>1, <1>2, <1>4, <1>5, <1>6

-----------------------------------------------------------------------------
(* The bridge and the tab.                                                   *)

LEMMA StepHeard ==
  ASSUME TypeOK, Heard, [Next]_vars
  PROVE  Heard'
<1>1. ASSUME bridge' = bridge \/ bridge'.at # "retry" \/ bridge' = Interrupted,
             poll' = poll \/ poll'.at \notin {"forget", "tell"} \/ poll'.saw \in Terminal
      PROVE  Heard'
  BY <1>1 DEF Heard, Interrupted, TypeOK
<1>2. CASE UNCHANGED vars
  BY <1>1, <1>2 DEF vars
<1>3. ASSUME Page PROVE Heard'
  <2>1. CASE Request
    <3>1. PICK n : bridge' = [bridge EXCEPT !.at = "sent", !.retries = n]
      BY <2>1 DEF Request, TypeOK
    <3>2. bridge'.at = "sent"
      BY <3>1 DEF TypeOK
    <3> QED
      BY <1>1, <2>1, <3>2 DEF Request
  <2>2. CASE Poll
    BY <1>1, <2>2 DEF Poll, PollUnchanged
  <2> QED
    BY <1>3, <2>1, <2>2 DEF Page
<1>4. ASSUME NEW answer, PollEnds(answer) PROVE Heard'
  <2>1. poll'.at = "none"
    BY <1>4 DEF PollEnds, NoPoll
  <2>2. bridge' = bridge \/ bridge'.at # "retry"
    BY <1>4 DEF PollEnds, TypeOK
  <2> QED
    BY <1>1, <2>1, <2>2
<1>5. CASE Reply
  BY <1>1, <1>5 DEF Reply, TypeOK
<1>6. CASE Owns \/ Tell \/ Forget
  <2>1. CASE Forget
    BY <1>1, <2>1 DEF Forget, Heard, TypeOK
  <2>2. CASE Owns
    BY <1>1, <1>4, <2>2 DEF Owns, TypeOK
  <2>3. CASE Tell
    BY <1>4, <2>3 DEF Tell
  <2> QED
    BY <1>6, <2>1, <2>2, <2>3
<1>7. ASSUME NEW g \in Helpers, Get(g) PROVE Heard'
  <2>1. CASE status \in Terminal
    BY <1>1, <1>7, <2>1 DEF Get
  <2>2. CASE status \notin Terminal
    BY <1>4, <1>7, <2>2 DEF Get
  <2> QED
    BY <2>1, <2>2
<1>8. CASE Worker
  BY <1>1, <1>5, <1>6, <1>7, <1>8
     DEF Worker, Remember, InvalidateTab, SendPrepare, PostInvalidate, Validate, Vouch,
         PostApprove, OnlyGoto, ApprovalUnchanged
<1>9. CASE Helper
  BY <1>1, <1>9
     DEF Helper, Prepare, Disconnect, Invalidate, InvalidateRejects, Register, CheckExpires,
         Accept, Deny, Claim, Sign, NoKey, Consume, Finish, OnlyGoto, ApprovalUnchanged
<1>10. CASE User \/ Expire
  BY <1>1, <1>10
     DEF User, PressApprove, Unpair, PressReject, Leave, GiveUp, Expire, OnlyGoto,
         ApprovalUnchanged, PollUnchanged, TypeOK
<1>11. CASE Loses
  <2>1. ASSUME NEW state, Close(state) PROVE poll' = poll \/ poll'.at \notin {"forget", "tell"}
    BY <2>1 DEF Close, NoPoll
  <2> QED
    BY <1>1, <1>11, <2>1 DEF Loses, PortTimeout, Suspend, HelperDies, NoPoll
<1> QED
  BY <1>2, <1>3, <1>8, <1>9, <1>10, <1>11 DEF Next

LEMMA StepLeft ==
  ASSUME TypeOK, Left, [Next]_vars
  PROVE  Left' /\ (here' => here)
<1> USE HelpersAreNumbers
<1>1. ASSUME leave' = leave \/ (leave' = Done /\ leave.at # "none"), here' = here
      PROVE  Left' /\ (here' => here)
  BY <1>1 DEF Left, Done
<1>2. CASE UNCHANGED vars
  BY <1>1, <1>2 DEF vars
<1>3. CASE Page
  BY <1>1, <1>3 DEF Page, Request, Poll, PollUnchanged
<1>4. CASE InvalidateTab
  BY <1>4 DEF InvalidateTab, Left, TypeOK
<1>5. ASSUME NEW g \in Helpers, PostInvalidate(g) PROVE Left' /\ (here' => here)
  BY <1>5 DEF PostInvalidate, Left
<1>6. CASE Worker
  BY <1>1, <1>4, <1>5, <1>6
     DEF Worker, Remember, Reply, Owns, Forget, Tell, SendPrepare, Get, Validate, Vouch,
         PostApprove, OnlyGoto, ApprovalUnchanged, PollUnchanged
<1>7. CASE Invalidate
  BY <1>7 DEF Invalidate, Left, TypeOK
<1>8. CASE Helper
  BY <1>1, <1>7, <1>8
     DEF Helper, Prepare, Disconnect, InvalidateRejects, Register, CheckExpires,
         Accept, Deny, Claim, Sign, NoKey, Consume, Finish, OnlyGoto, ApprovalUnchanged
<1>9. CASE Leave
  BY <1>9 DEF Leave, Left, TypeOK
<1>10. CASE User \/ Expire
  BY <1>1, <1>9, <1>10
     DEF User, PressApprove, Unpair, PressReject, GiveUp, Expire, OnlyGoto,
         ApprovalUnchanged, PollUnchanged
<1>11. CASE Loses
  BY <1>1, <1>11 DEF Loses, PortTimeout, Suspend, HelperDies, Left
<1> QED
  BY <1>2, <1>3, <1>6, <1>8, <1>10, <1>11 DEF Next

-----------------------------------------------------------------------------
(* The approvals.                                                            *)

Approving == Barred /\ \A a \in Approvals : Held(a)

LEMMA ApprovalsKept ==
  ASSUME Approving, UNCHANGED <<approval, registered, cancelled, stopped>>,
         here' => here, paired' => paired
  PROVE  Approving'
BY DEF Approving, Held, Barred, Bar

\* One approval moves.
LEMMA ApprovalMoves ==
  ASSUME Linked, NEW a \in Approvals, UNCHANGED <<here, paired, cancelled, stopped>>,
         \A b \in Approvals \ {a} :
           approval'[b] = approval[b] /\ \A g \in Helpers : b \in registered[g] => b \in registered'[g],
         Held(a)', a \in stopped \ cancelled => Bar(a)'
  PROVE  Approving'
<1>1. \A b \in Approvals \ {a} : Held(b)'
  BY DEF Linked, Held
<1>2. ASSUME NEW b \in stopped \ cancelled, b # a PROVE Bar(b)'
  <2>1. approval'[b] = approval[b] /\ Bar(b)
    BY <1>2 DEF Linked, Barred, TypeOK
  <2> QED
    BY <2>1 DEF Bar
<1> QED
  BY <1>1, <1>2 DEF Approving, Barred

LEMMA OnlyGotoApproving ==
  ASSUME Linked, NEW a \in Approvals, NEW step \in WorkerSteps \cup HelperSteps \cup {"done"},
         OnlyGoto(a, step),
         step # "done" =>
           /\ step \in Busy \cup {"posted"} <=> approval[a].at \in Busy \cup {"posted"}
           /\ step \in Busy => approval[a].at \in Busy,
         a \in stopped \ cancelled =>
           \/ approval[a].at \in Unregistered /\ step \in Unregistered
           \/ approval[a].at = "asked" /\ step = "vouched" /\ here
           \/ step \in {"done", "denied", "signed"}
  PROVE  Approving'
<1>1. /\ approval'[a].at = step
      /\ approval'[a].helper = IF step = "done" THEN None ELSE approval[a].helper
      /\ \A b \in Approvals \ {a} : approval'[b] = approval[b]
      /\ UNCHANGED <<here, paired, cancelled, stopped, registered>>
  BY GotoSteps DEF OnlyGoto, ApprovalUnchanged, Linked
<1>2. Held(a)'
  BY <1>1, HelpersAreNumbers DEF Held, Linked, Busy
<1>3. a \in stopped \ cancelled => Bar(a)'
  BY <1>1 DEF Linked, Barred, Bar, Unregistered
<1> QED
  BY <1>1, <1>2, <1>3, ApprovalMoves

LEMMA PressApproving ==
  ASSUME Linked, NEW a \in Approvals, NEW g \in Helpers,
         \/ PressApprove(a) \/ Validate(a) \/ PostApprove(a, g) \/ Register(a) \/ Vouch(a)
         \/ CheckExpires(a) \/ Accept(a) \/ Sign(a)
  PROVE  Approving'
<1> USE DEF Linked
<1>1. CASE PressApprove(a) \/ Validate(a)
  BY <1>1, OnlyGotoApproving
     DEF PressApprove, Validate, WorkerSteps, HelperSteps, Busy, Unregistered
<1>2. CASE Vouch(a) \/ CheckExpires(a)
  BY <1>2, OnlyGotoApproving
     DEF Vouch, CheckExpires, WorkerSteps, HelperSteps, Busy, Unregistered, CurrentRoute
<1>3. CASE Accept(a)
  <2>1. a \in stopped \ cancelled => ~paired
    BY <1>3 DEF Accept, Barred, Bar
  <2> QED
    BY <1>3, <2>1, OnlyGotoApproving DEF Accept, WorkerSteps, HelperSteps, Busy
<1>4. CASE Sign(a)
  BY <1>4, OnlyGotoApproving DEF Sign, WorkerSteps, HelperSteps, Busy
<1>5. CASE PostApprove(a, g)
  <2>1. /\ approval'[a].at = "posted" /\ approval'[a].helper = g /\ approval[a].at = "validated"
        /\ \A b \in Approvals \ {a} : approval'[b] = approval[b]
        /\ UNCHANGED <<here, paired, cancelled, stopped, registered>>
    BY <1>5 DEF PostApprove, ApprovalUnchanged, TypeOK
  <2>2. Held(a)'
    BY <2>1 DEF Held, Busy
  <2>3. a \in stopped \ cancelled => Bar(a)'
    BY <2>1 DEF Barred, Bar, Unregistered
  <2> QED
    BY <2>1, <2>2, <2>3, ApprovalMoves
<1>6. CASE Register(a)
  <2> DEFINE h == approval[a].helper
  <2>1. h \in Helpers /\ approval[a].at = "posted"
    BY <1>6 DEF Register, Held
  <2>2. /\ UNCHANGED <<here, paired, cancelled, stopped>>
        /\ \A b \in Approvals \ {a} : approval'[b] = approval[b]
        /\ \/ approval'[a].at = "done" /\ approval'[a].helper = None /\ UNCHANGED registered
           \/ /\ approval'[a].at = "asked" /\ approval'[a].helper = h /\ registered[h] = {}
              /\ registered' = [registered EXCEPT ![h] = {a}]
    BY <1>6, GotoSteps DEF Register, ApprovalUnchanged, HelperSteps
  <2>3. \A b \in Approvals : \A k \in Helpers : b \in registered[k] => b \in registered'[k]
    BY <2>1, <2>2 DEF TypeOK
  <2>4. Held(a)'
    BY <2>1, <2>2, HelpersAreNumbers DEF Held, Busy, TypeOK
  <2>5. a \in stopped \ cancelled => Bar(a)'
    BY <2>1, <2>2 DEF Barred, Bar, Unregistered
  <2> QED
    BY <2>2, <2>3, <2>4, <2>5, ApprovalMoves
<1> QED
  BY <1>1, <1>2, <1>3, <1>4, <1>5, <1>6

LEMMA SettleApproving ==
  ASSUME Linked, NEW a \in Approvals, Deny(a) \/ Claim(a) \/ NoKey(a) \/ Consume(a) \/ Finish(a)
  PROVE  Approving'
<1> USE DEF Linked
<1>1. UNCHANGED <<here, paired, cancelled, stopped>>
  BY DEF Deny, Claim, NoKey, Consume, Finish, ApprovalUnchanged
<1>2. /\ \A b \in Approvals \ {a} : approval'[b] = approval[b]
      /\ approval[a].at \in Busy
      /\ \/ /\ approval'[a].at = "done" /\ approval'[a].helper = None
            /\ Unregister(a)
         \/ /\ \/ approval'[a].at = "after"
               \/ approval[a].at = "claim" /\ approval'[a].at = "authenticate"
            /\ approval'[a].helper = approval[a].helper /\ UNCHANGED registered
  BY GotoSteps DEF Deny, Claim, NoKey, Consume, Finish, HelperSteps, Busy
<1>3. \A b \in Approvals \ {a} : \A g \in Helpers : b \in registered[g] => b \in registered'[g]
  BY <1>2 DEF Unregister
<1>4. Held(a)'
  BY <1>2, HelpersAreNumbers DEF Held, Busy
<1>5. a \in stopped \ cancelled => Bar(a)'
  BY <1>2 DEF Barred, Bar, Unregistered
<1> QED
  BY <1>1, <1>2, <1>3, <1>4, <1>5, ApprovalMoves

\* A helper that handles an invalidation, an unpairing or the end of its input cancels what it
\* registered; what it has not registered yet meets the closed gate.
LEMMA CancelApproving ==
  ASSUME Linked, NEW g \in Helpers, Cancel(g), UNCHANGED <<approval, registered>>,
         here' => here, paired' => paired, ~paired' \/ ~here', ~paired' \/ ~here
  PROVE  Approving'
<1>1. \A a \in Approvals : Held(a)'
  BY DEF Linked, Held
<1>2. ASSUME NEW a \in stopped' \ cancelled' PROVE Bar(a)'
  <2>1. a \in Approvals /\ a \notin cancelled /\ a \notin registered[g]
    BY <1>2 DEF Cancel, Linked, TypeOK
  <2>2. CASE a \in stopped
    BY <2>1, <2>2 DEF Linked, Barred, Bar
  <2>3. CASE approval[a].at \in Unregistered \/ approval[a].helper = g
    <3>1. approval[a].at \notin Busy \/ approval[a].helper # g
      BY <2>1 DEF Linked, Held
    <3>2. approval[a].at \in Unregistered \/ approval[a].at \notin Busy \cup Unregistered
      BY <2>3, <3>1
    <3> QED
      BY <3>2 DEF Bar, Busy, Unregistered
  <2> QED
    BY <1>2, <2>2, <2>3 DEF Cancel
<1> QED
  BY <1>1, <1>2 DEF Approving, Barred

LEMMA DisconnectApproving ==
  ASSUME Linked, NEW g \in Helpers, Disconnect(g)
  PROVE  Approving'
<1> USE HelpersAreNumbers
<1>1. UNCHANGED <<here, paired, registered>> /\ cancelled' = cancelled \cup registered[g]
      /\ stopped' = stopped \cup {a \in Approvals : approval[a].helper = g}
  BY DEF Disconnect
<1>2. ASSUME NEW a \in Approvals
      PROVE  \/ approval'[a] = approval[a] /\ (approval[a].helper = g => approval[a].at # "posted")
             \/ approval'[a].at = "done" /\ approval'[a].helper = None
             \/ /\ approval[a].at \in Busy /\ approval'[a].at = "denied"
                /\ approval'[a].helper = approval[a].helper
  <2>1. CASE approval[a].helper = g /\ approval[a].at \in {"asked", "vouched"}
    <3>1. approval'[a] = [approval[a] EXCEPT !.at = "denied"]
      BY <2>1 DEF Disconnect
    <3> QED
      BY <2>1, <3>1 DEF Linked, TypeOK, Busy
  <2>2. CASE approval[a].helper = g /\ approval[a].at = "posted"
    <3>1. approval'[a] = Done
      BY <2>2 DEF Disconnect
    <3> QED
      BY <3>1 DEF Done
  <2>3. CASE ~(approval[a].helper = g /\ approval[a].at \in {"asked", "vouched", "posted"})
    BY <2>3 DEF Disconnect
  <2> QED
    BY <2>1, <2>2, <2>3
<1>3. ASSUME NEW a \in Approvals PROVE Held(a)'
  BY <1>1, <1>2 DEF Linked, Held, Busy
<1>4. ASSUME NEW a \in stopped' \ cancelled' PROVE Bar(a)'
  <2>1. a \in Approvals /\ a \notin cancelled /\ a \notin registered[g]
    BY <1>1, <1>4 DEF Linked, TypeOK
  <2>2. approval'[a] = approval[a] \/ approval'[a].at \in {"denied", "done"}
    BY <1>2, <2>1
  <2>3. CASE a \in stopped
    BY <1>1, <2>1, <2>2, <2>3 DEF Linked, Barred, Bar, Unregistered
  <2>4. CASE approval[a].helper = g
    <3>1. approval[a].at = "posted"
      BY <2>1, <2>4 DEF Linked, Held
    <3>2. approval'[a].at = "done"
      BY <1>2, <2>1, <2>4, <3>1 DEF Busy
    <3> QED
      BY <3>2 DEF Bar, Unregistered
  <2> QED
    BY <1>1, <1>4, <2>3, <2>4
<1> QED
  BY <1>3, <1>4 DEF Approving, Barred

LEMMA LossApproving ==
  ASSUME Linked, NEW g \in Helpers, Suspend \/ HelperDies(g)
  PROVE  Approving'
<1> USE HelpersAreNumbers
<1>1. UNCHANGED <<here, paired, cancelled, stopped>>
  BY DEF Suspend, HelperDies
<1>2. ASSUME NEW a \in Approvals
      PROVE  /\ \/ approval'[a] = approval[a] /\ (HelperDies(g) => approval[a].helper # g)
                \/ approval'[a].at = "done" /\ approval'[a].helper = None
  BY <1>2 DEF Suspend, HelperDies, Done
<1>3. \A h \in Helpers : (HelperDies(g) /\ h = g) \/ registered'[h] = registered[h]
  BY DEF Suspend, HelperDies, Linked, TypeOK
<1>4. ASSUME NEW a \in Approvals PROVE Held(a)'
  BY <1>2, <1>3 DEF Linked, Held, Busy
<1>5. ASSUME NEW a \in stopped \ cancelled PROVE Bar(a)'
  BY <1>1, <1>2 DEF Linked, TypeOK, Barred, Bar, Unregistered
<1> QED
  BY <1>1, <1>4, <1>5 DEF Approving, Barred

LEMMA StepApproving ==
  ASSUME Linked, [Next]_vars
  PROVE  Approving'
<1> USE HelpersAreNumbers
<1>1. here' => here
  BY StepLeft DEF Linked
<1>2. ASSUME UNCHANGED <<approval, registered, cancelled, stopped>>, paired' => paired
      PROVE  Approving'
  BY <1>1, <1>2, ApprovalsKept DEF Linked, Approving
<1>3. CASE UNCHANGED vars \/ Page \/ Expire
  BY <1>2, <1>3 DEF vars, Page, Request, Poll, PollUnchanged, Expire
<1>4. CASE Worker
  BY <1>2, <1>4, PressApproving
     DEF Worker, Remember, Reply, Owns, Forget, Tell, InvalidateTab, SendPrepare, Get,
         PostInvalidate, PollUnchanged
<1>5. CASE Invalidate
  <2>1. leave.helper \in Helpers /\ ~here
    BY <1>5 DEF Invalidate, Linked, Left
  <2> QED
    BY <1>1, <1>5, <2>1, CancelApproving DEF Invalidate
<1>6. CASE Helper
  BY <1>2, <1>5, <1>6, PressApproving, SettleApproving, DisconnectApproving
     DEF Helper, Prepare, InvalidateRejects
<1>7. ASSUME NEW g \in Helpers, Unpair(g) PROVE Approving'
  BY <1>1, <1>7, CancelApproving DEF Unpair
<1>8. CASE User
  BY <1>2, <1>7, <1>8, PressApproving DEF User, PressReject, Leave, GiveUp, PollUnchanged
<1>9. CASE Loses
  BY <1>2, <1>9, LossApproving DEF Loses, PortTimeout
<1> QED
  BY <1>3, <1>4, <1>6, <1>8, <1>9 DEF Next

LEMMA StepType ==
  ASSUME Linked, [Next]_vars
  PROVE  TypeOK'
<1> USE HelpersAreNumbers DEF Linked
<1>1. CASE UNCHANGED vars
  BY <1>1 DEF vars, TypeOK
<1>2. CASE Page \/ Worker
  BY <1>2, PageType, PressType, EndType DEF Page, Worker
<1>3. CASE Helper
  BY <1>3, PageType, PressType, EndType, LossType DEF Helper
<1>4. CASE User \/ Expire
  BY <1>4, PageType, PressType, EndType DEF User
<1>5. CASE Loses
  BY <1>5, LossType DEF Loses
<1> QED
  BY <1>1, <1>2, <1>3, <1>4, <1>5 DEF Next

LEMMA LinkInvariant == Spec => []Linked
<1>1. Init => Linked
  <2>1. Init => Heard /\ Left /\ Barred
    BY DEF Init, Heard, Left, Barred, NoPoll
  <2>2. Init => \A a \in Approvals : Held(a)
    BY HelpersAreNumbers DEF Init, Held, Busy
  <2> QED
    BY <2>1, <2>2, InitType DEF Linked
<1>2. Linked /\ [Next]_vars => Linked'
  BY StepType, StepHeard, StepLeft, StepApproving DEF Linked, Approving
<1> QED
  BY <1>1, <1>2, PTL DEF Spec

\* The values of the bridge, the worker and the helpers stay in their types (bridge.js,
\* background.js, ChromeHost.swift).
THEOREM TypeCorrect == Spec => []TypeOK
<1>1. Linked => TypeOK
  BY DEF Linked
<1> QED
  BY <1>1, LinkInvariant, PTL

\* However often the bridge sends a request again, one record is made of it
\* (PendingWalletRequest.swift: insertIfAbsent).
THEOREM ACallHasOneRecord == Spec => []OneRecordPerCall
<1>1. Init => OneRecordPerCall
  BY DEF Init, OneRecordPerCall
<1>2. TypeOK /\ OneRecordPerCall /\ [Next]_vars => OneRecordPerCall'
  <2> SUFFICES ASSUME TypeOK, OneRecordPerCall, [Next]_vars PROVE OneRecordPerCall'
    OBVIOUS
  <2>1. records' = records \/ records' = 1
    <3>1. CASE UNCHANGED vars \/ Page \/ Expire
      BY <3>1 DEF vars, Page, Request, Poll, PollUnchanged, Expire
    <3>2. CASE Worker
      BY <3>2
         DEF Worker, Remember, Reply, Owns, Forget, Tell, InvalidateTab, SendPrepare, Get,
             PostInvalidate, Validate, Vouch, PostApprove, OnlyGoto, ApprovalUnchanged, PollUnchanged
    <3>3. CASE Helper
      BY <3>3
         DEF Helper, Prepare, InsertIfAbsent, Disconnect, Invalidate, InvalidateRejects, Register,
             CheckExpires, Accept, Deny, Claim, Sign, NoKey, Consume, Finish, OnlyGoto
    <3>4. CASE User
      BY <3>4
         DEF User, PressApprove, Unpair, PressReject, Leave, GiveUp, OnlyGoto, PollUnchanged
    <3>5. CASE Loses
      BY <3>5 DEF Loses, PortTimeout, Suspend, HelperDies
    <3> QED
      BY <3>1, <3>2, <3>3, <3>4, <3>5 DEF Next
  <2> QED
    BY <2>1 DEF OneRecordPerCall, TypeOK
<1> QED
  BY <1>1, <1>2, TypeCorrect, PTL DEF Spec

\* A signature is made by one step, and not for an approval that was cancelled.
LEMMA OnlySignSigns ==
  ASSUME Linked, [Next]_vars, NEW a \in Approvals,
         approval[a].at = "authenticate", approval'[a].at = "signed"
  PROVE  a \notin cancelled
<1> USE HelpersAreNumbers DEF Linked
<1> SUFFICES ASSUME ~Sign(a) PROVE FALSE
  BY DEF Sign
<1>1. approval' # approval
  OBVIOUS
<1>2. ASSUME NEW b \in Approvals, NEW step \in WorkerSteps \cup HelperSteps \cup {"done"},
             Goto(b, step), step # "signed"
      PROVE  FALSE
  BY <1>2, GotoSteps
<1>3. CASE UNCHANGED vars \/ Page \/ Expire
  BY <1>1, <1>3 DEF vars, Page, Request, Poll, PollUnchanged, Expire
<1>4. ASSUME NEW b \in Approvals, NEW g \in Helpers,
             PressApprove(b) \/ Validate(b) \/ PostApprove(b, g) \/ Register(b) \/ Vouch(b)
             \/ CheckExpires(b) \/ Accept(b)
      PROVE  FALSE
  BY <1>2, <1>4
     DEF PressApprove, Validate, PostApprove, Register, Vouch, CheckExpires, Accept, OnlyGoto,
         WorkerSteps, HelperSteps, TypeOK
<1>5. ASSUME NEW b \in Approvals,
             Deny(b) \/ Claim(b) \/ NoKey(b) \/ Consume(b) \/ Finish(b)
      PROVE  FALSE
  BY <1>2, <1>5 DEF Deny, Claim, NoKey, Consume, Finish, HelperSteps
<1>6. ASSUME NEW b \in Approvals, Sign(b) PROVE FALSE
  <2>1. b # a
    BY <1>6
  <2>2. Goto(b, "signed")
    BY <1>6 DEF Sign, OnlyGoto
  <2>3. approval'[a] = approval[a]
    BY <2>1, <2>2, GotoSteps DEF HelperSteps
  <2> QED
    BY <2>3
<1>7. ASSUME NEW g \in Helpers, Disconnect(g) \/ HelperDies(g) \/ Suspend PROVE FALSE
  BY <1>7 DEF Disconnect, HelperDies, Suspend, Done
<1>8. CASE Worker
  BY <1>1, <1>4, <1>8
     DEF Worker, Remember, Reply, Owns, Forget, Tell, InvalidateTab, SendPrepare, Get,
         PostInvalidate, PollUnchanged
<1>9. CASE Helper
  BY <1>1, <1>4, <1>5, <1>6, <1>7, <1>9
     DEF Helper, Prepare, Invalidate, InvalidateRejects
<1>10. CASE User
  BY <1>1, <1>4, <1>10 DEF User, Unpair, PressReject, Leave, GiveUp, PollUnchanged
<1>11. CASE Loses
  BY <1>1, <1>7, <1>11 DEF Loses, PortTimeout
<1> QED
  BY <1>3, <1>8, <1>9, <1>10, <1>11 DEF Next

\* "Navigation, closed tabs and port EOF invalidate active protected operations", and so does
\* unpairing: what a helper holds then, and what reaches it later, gets no signature
\* (ChromeHost.swift:84-190, 218-247).
THEOREM AStoppedApprovalNeverSigns == Spec => StoppedNeverSigns
<1>1. Linked /\ [Next]_vars =>
        [\A a \in stopped : approval[a].at = "authenticate" => approval'[a].at # "signed"]_vars
  <2> SUFFICES ASSUME Linked, [Next]_vars, NEW a \in stopped,
                      approval[a].at = "authenticate", approval'[a].at = "signed"
               PROVE  FALSE
    OBVIOUS
  <2>1. a \in Approvals
    BY DEF Linked, TypeOK
  <2>2. a \notin cancelled
    BY <2>1, OnlySignSigns
  <2> QED
    BY <2>2 DEF Linked, Barred, Bar
<1> QED
  BY <1>1, LinkInvariant, PTL DEF Spec, StoppedNeverSigns
=============================================================================
