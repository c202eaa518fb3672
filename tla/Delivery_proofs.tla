-------------------------- MODULE Delivery_proofs --------------------------
(***************************************************************************)
(* For every value of the constants: Delivery keeps its types, lands only  *)
(* approved artifacts, records as applied only what the branch contains,   *)
(* and implements Handoff.  All four follow from DeliveryInv.              *)
(*                                                                         *)
(* The invariant is regrouped by the piece of state it talks about.  Each  *)
(* piece depends on what has been approved (A) and on the user's branch    *)
(* (h) and on nothing else, and both only grow: that is why a piece that a *)
(* step leaves alone stays good.                                           *)
(***************************************************************************)
EXTENDS Delivery, TLAPS

----------------------------------------------------------------------------
(***************************************************************************)
(* What the domain operators of Project preserve.  A sound state keeps two *)
(* GOAL signatures only where they authorise a delivery; each operation    *)
(* leads from a sound state to a sound one, and all but the three that     *)
(* record an agent's word leave no approval that was not there before.     *)
(***************************************************************************)
Sound(p) ==
  /\ p \in ProjectState
  /\ p.mode = "GOAL" /\ BothReady(p) => p.phase \in {"INTEGRATE", "DONE"}

\* q says no more than p did: no approval is new, and q is not newly DONE.
NoNewer(q, p) ==
  /\ Sound(q)
  /\ Approvals(q) \subseteq Approvals(p)
  /\ q.phase = "DONE" => p.phase = "DONE"

USE DEF Modes, Agents

\* The phases of the two modes, and where each of them starts.
LEMMA PhaseFacts ==
  /\ ValidPhases["GOAL"] = {"PLAN", "EXECUTE", "REVIEW", "INTEGRATE", "DONE"}
  /\ ValidPhases["FAST"] = {"RUNNING", "VERIFY", "DONE"}
  /\ InitialPhase["GOAL"] = "PLAN" /\ InitialPhase["FAST"] = "RUNNING"
  /\ NextPhase["PLAN"] = "EXECUTE" /\ NextPhase["EXECUTE"] = "REVIEW"
  /\ NextPhase["REVIEW"] = "INTEGRATE"
BY DEF ValidPhases, InitialPhase, NextPhase

\* The three kinds of evidence and their parts.
LEMMA RefFacts ==
  /\ NoRef \in Ref /\ NoRef.kind = "none"
  /\ \A n \in Nat : PlanRef(n) \in Ref /\ HeadRef(n) \in Ref
  /\ \A n \in Nat : HeadRef(n).kind = "head" /\ HeadRef(n).of = n
  /\ \A r \in Ref : r.of \in Nat /\ (r.kind = "head" => r = HeadRef(r.of))
BY DEF Ref, NoRef, PlanRef, HeadRef

\* A new session has approved nothing.
LEMMA NewStateSound ==
  ASSUME NEW m \in Modes
  PROVE  Sound(NewState(m)) /\ Approvals(NewState(m)) = {} /\ NewState(m).phase # "DONE"
BY PhaseFacts, RefFacts
DEF Sound, NewState, ProjectState, ProjectRecord, Phases, Verdict, NoVerdict, NobodyReady,
    NoEvidence, BothReady, Approvals, Approves, Passed

----------------------------------------------------------------------------
(***************************************************************************)
(* Operations that record nothing new.                                     *)
(***************************************************************************)
LEMMA SetPlanSound ==
  ASSUME NEW p, Sound(p), CanSetPlan(p)
  PROVE  NoNewer(SetPlan(p), p)
<1> USE PhaseFacts, RefFacts
    DEF NoNewer, Sound, ProjectState, ProjectRecord, BothReady, NobodyReady, NoEvidence
<1> DEFINE q == SetPlan(p)
<1>1. p.mode = "GOAL" /\ p.phase = "PLAN" /\ p.version + 1 \in Nat
  BY DEF CanSetPlan
<1>2. q \in ProjectState /\ q.mode = "GOAL" /\ q.phase = "PLAN" /\ q.ready = NobodyReady
  BY <1>1 DEF SetPlan, ResetApprovals
<1> QED
  BY <1>1, <1>2 DEF Approvals, Approves

\* RevokeReady is sound: it approves nothing new.
LEMMA RevokeReadySound ==
  ASSUME NEW p, Sound(p), NEW a \in Agents
  PROVE  NoNewer(RevokeReady(p, a), p)
<1> USE PhaseFacts, RefFacts
    DEF NoNewer, Sound, RevokeReady, ProjectState, ProjectRecord, Phases,
        Verdict, NoVerdict, BothReady, Approvals, Approves, Passed
<1>1. CASE p.mode = "GOAL"
  <2> DEFINE q == [p EXCEPT !.ready[a] = FALSE, !.evidence[a] = NoRef]
  <2>1. RevokeReady(p, a) = q
    BY <1>1
  <2>2. q \in ProjectState /\ q.mode = "GOAL" /\ q.phase = p.phase /\ ~q.ready[a]
    BY <1>1
  <2> QED
    BY <1>1, <2>1, <2>2
<1>2. CASE p.mode = "FAST" /\ p.phase = "VERIFY"
  BY <1>2
<1>3. CASE p.mode = "FAST" /\ p.phase # "VERIFY"
  BY <1>3
<1> QED
  BY <1>1, <1>2, <1>3

\* A withdrawal is sound: it approves nothing new.
LEMMA WithdrawSound ==
  ASSUME NEW p, Sound(p), NEW a \in Agents, CanSetReady(p, a, FALSE, NoRef)
  PROVE  NoNewer(SetReady(p, a, FALSE, NoRef), p)
BY PhaseFacts, RefFacts, ZenonT(60)
DEF NoNewer, Sound, CanSetReady, CanSign, CanRequest, SetReady, Sign, Signed, Request,
    ProjectState, ProjectRecord, Phases, Verdict, NoVerdict, BothReady, Approvals,
    Approves, Passed

\* Reopening is sound: the new round starts without approvals.
LEMMA ReopenSound ==
  ASSUME NEW p, Sound(p)
  PROVE  NoNewer(Reopen(p), p) /\ Reopen(p).phase # "DONE"
BY PhaseFacts, RefFacts
DEF NoNewer, Sound, Reopen, ResetApprovals, ProjectState, ProjectRecord, Phases,
    Verdict, NoVerdict, NobodyReady, NoEvidence, BothReady, Approvals, Approves, Passed

\* A mode switch is sound: signatures do not survive it.
LEMMA SwitchModeSound ==
  ASSUME NEW p, Sound(p), NEW m \in Modes
  PROVE  NoNewer(SwitchMode(p, m), p) /\ (SwitchMode(p, m).phase = "DONE" <=> p.phase = "DONE")
<1> USE PhaseFacts, RefFacts
    DEF NoNewer, Sound, ProjectState, ProjectRecord, Phases, BothReady, Approvals, Approves,
        Passed, Verdict, NoVerdict, NobodyReady, NoEvidence
<1>1. NoNewer(SwitchedMode(p, m), p)
  <2> DEFINE q == SwitchedMode(p, m)
  <2>1. q \in ProjectState /\ q.verdict = NoVerdict /\ q.ready = NobodyReady
        /\ (q.phase = "DONE" <=> p.phase = "DONE")
    BY ZenonT(60) DEF SwitchedMode, ResetApprovals
  <2> QED
    BY <2>1
<1>2. SwitchedMode(p, m).phase = "DONE" <=> p.phase = "DONE"
  BY DEF SwitchedMode, ResetApprovals
<1>3. CanEscalate(p) => NoNewer(EscalateToGoal(p), p) /\ EscalateToGoal(p).phase # "DONE"
  <2> DEFINE q == EscalateToGoal(p)
  <2>1. q \in ProjectState /\ q.verdict = NoVerdict /\ q.ready = NobodyReady
        /\ q.phase = "PLAN"
    <3>1. p.version + 1 \in Nat /\ (IF p.plan THEN p.version + 1 ELSE 1) \in Nat
      OBVIOUS
    <3> QED
      BY <3>1 DEF EscalateToGoal, ResetApprovals
  <2> QED
    BY <2>1
<1>4. CanEscalate(p) => p.phase # "DONE"
  BY DEF CanEscalate
<1>5. NoNewer(p, p)
  OBVIOUS
<1> QED
  <2> HIDE DEF NoNewer
  <2> QED
    BY <1>1, <1>2, <1>3, <1>4, <1>5 DEF SwitchMode

\* Completing is the one operation that ends a round; it approves nothing.
LEMMA EndSound ==
  ASSUME NEW p, Sound(p), p.phase \in {"INTEGRATE", "VERIFY"}
  PROVE  Sound(Complete(p)) /\ Approvals(Complete(p)) \subseteq Approvals(p)
BY PhaseFacts, RefFacts
DEF Sound, Complete, ProjectState, ProjectRecord, Phases,
    Verdict, BothReady, Approvals, Approves, Passed

\* Completing is sound: DONE has no approval that was not there before.
LEMMA CompleteSound ==
  ASSUME NEW p, Sound(p), CanComplete(p)
  PROVE  Sound(Complete(p)) /\ Approvals(Complete(p)) \subseteq Approvals(p)
BY EndSound DEF CanComplete

(***************************************************************************)
(* Operations that record what an agent says.                              *)
(***************************************************************************)
LEMMA SetReadySound ==
  ASSUME NEW p, Sound(p), NEW a \in Agents, NEW e \in Ref, CanSetReady(p, a, TRUE, e)
  PROVE  Sound(SetReady(p, a, TRUE, e)) /\ SetReady(p, a, TRUE, e).phase # "DONE"
<1> USE PhaseFacts, RefFacts
    DEF Sound, CanSetReady, SetReady, ProjectState, ProjectRecord, Phases, BothReady
<1>1. CASE p.mode = "GOAL"
  <2> DEFINE s == Signed(p, a, TRUE, e)
  <2>1. s \in ProjectState /\ s.mode = "GOAL" /\ s.phase = p.phase /\ p.phase # "DONE"
    BY <1>1 DEF CanSign, Signed
  <2>2. CASE BothReady(s) /\ s.phase # "INTEGRATE"
    <3> DEFINE q == [ResetApprovals(s) EXCEPT !.phase = NextPhase[s.phase]]
    <3>1. SetReady(p, a, TRUE, e) = q
      BY <1>1, <2>2 DEF Sign
    <3>2. s.phase \in {"PLAN", "EXECUTE", "REVIEW"}
      BY <2>1, <2>2
    <3> HIDE DEF s
    <3>3. q \in ProjectState /\ ~BothReady(q) /\ q.phase # "DONE"
      BY <2>1, <3>2 DEF ResetApprovals, NobodyReady, NoEvidence
    <3> QED
      BY <3>1, <3>3
  <2>3. CASE ~(BothReady(s) /\ s.phase # "INTEGRATE")
    <3>1. SetReady(p, a, TRUE, e) = s
      BY <1>1, <2>3 DEF Sign
    <3> QED
      BY <2>1, <2>3, <3>1
  <2> QED
    BY <2>2, <2>3
<1>2. CASE p.mode = "FAST"
  BY <1>2 DEF CanRequest, Request, Verdict, NoVerdict
<1> QED
  BY <1>1, <1>2

\* A verdict is sound: a pass approves the head under verification.
LEMMA SetVerificationSound ==
  ASSUME NEW p, Sound(p), NEW result \in {"passed", "issue"}, NEW h,
         CanSetVerification(p, result, h)
  PROVE  Sound(SetVerification(p, result)) /\ SetVerification(p, result).phase # "DONE"
BY PhaseFacts, RefFacts
DEF Sound, CanSetVerification, SetVerification, ProjectState, ProjectRecord, Phases,
    Verdict, BothReady

\* An approval names a head, and is the only one of its state.
LEMMA ApprovalsAreHeads ==
  ASSUME NEW p, NEW r \in Approvals(p)
  PROVE  r.kind = "head" /\ Approvals(p) = {r}
BY DEF Approvals, Approves, Passed

----------------------------------------------------------------------------
(***************************************************************************)
(* The invariant, piece by piece.                                          *)
(***************************************************************************)

Shown(A, h) == h \in {r.of : r \in A}

GoodHeads(A, h) ==
  /\ A \subseteq Ref /\ (\A r \in A : r.kind = "head")
  /\ h \in Nat /\ HeadRef(h) \in A \cup {HeadRef(0)}

GoodProject(p, A, h) ==
  /\ Sound(p)
  /\ Approvals(p) \subseteq A
  /\ p.phase = "DONE" => Shown(A, h)

GoodRecord(d, A, h) ==
  /\ d \in DeliveryRecord /\ NoneOrHead(d.head)
  /\ IsApplied(d) => d.head.of <= h /\ Shown(A, h)

GoodHandler(k, A, h) ==
  /\ k \in HandlerState
  /\ k.pc \in {"land", "resolve", "record", "finish", "mark"} => NoneOrHead(k.ref)
  /\ k.pc = "check" /\ k.claims["Austin"] = k.claims["Tony"]
       /\ k.claims["Austin"].kind = "head" => k.claims["Austin"] \in A
  /\ k.pc \in {"land", "resolve", "record"} => k.ref \in A
  /\ k.pc \in {"resolve", "record"} => k.ref.of <= h
  /\ k.pc \in {"settle", "resolve", "record", "finish"} => Shown(A, h)

ProcStates == {"live", "down", "resumed", "landing", "recording", "refused"}

GoodProc(x, d, A, h) ==
  /\ x \in ProcStates
  /\ x \in {"landing", "recording"} => d.head \in A
  /\ x = "recording" => d.head.of <= h /\ Shown(A, h)

GitType == [head : [Agents -> Nat], dirty : SUBSET Agents, merging : BOOLEAN,
            merged : BOOLEAN, last : Nat]
DiskType == [project : ProjectState, delivery : DeliveryRecord]

OtherTypes ==
  /\ disk \in DiskType /\ git \in GitType
  /\ repo \in [head : Nat, blocked : BOOLEAN]
  /\ handler \in [Threads -> HandlerState]
  /\ txn \in Agents \cup {"free"}
  /\ gated \subseteq Ref
  /\ budget \in Setup

Pieces ==
  /\ OtherTypes
  /\ GoodHeads(approved, repo.head)
  /\ GoodProject(project, approved, repo.head)
  /\ GoodProject(disk.project, approved, repo.head)
  /\ GoodRecord(delivery, approved, repo.head)
  /\ GoodRecord(disk.delivery, approved, repo.head)
  /\ \A t \in Threads : GoodHandler(handler[t], approved, repo.head)
  /\ GoodProc(proc, delivery, approved, repo.head)

\* Pieces is DeliveryInv regrouped, in this state and in the next.
LEMMA PiecesAreInv == (DeliveryInv <=> Pieces) /\ (DeliveryInv' <=> Pieces')
<1> USE DEF Pieces, OtherTypes, GoodHeads, GoodProject, GoodRecord, GoodHandler, GoodProc, Sound,
        ProcStates, GitType, Setup, DiskType, Shown, DeliveryInv, TypeOK,
        SignaturesMeetInIntegrate, ApprovalsKnown, RecordsNameHeads, ClaimsKnown,
        LandingKnown, LandedContained, ReceiptsAreDeliveries, LandedWasApproved,
        AppliedIsInRepo, Delivered, Contained, Projects, Records
<1>1. DeliveryInv <=> Pieces
  OBVIOUS
<1>2. DeliveryInv' <=> Pieces'
  OBVIOUS
<1> QED
  BY <1>1, <1>2

----------------------------------------------------------------------------
(***************************************************************************)
(* Approvals and the branch grow, and what was good stays good.            *)
(***************************************************************************)
Grows(A, h, B, k) == A \subseteq B /\ (k = h \/ (h <= k /\ HeadRef(k) \in B))

\* A branch shown to hold an approved head still does after growing.
LEMMA ShownGrows ==
  ASSUME NEW A, NEW h \in Nat, NEW B, NEW k \in Nat, Grows(A, h, B, k), Shown(A, h)
  PROVE  Shown(B, k)
BY DEF Grows, Shown, HeadRef

\* A good domain state stays good when approvals or the branch grow.
LEMMA ProjectStaysGood ==
  ASSUME NEW A, NEW h \in Nat, NEW B, NEW k \in Nat, Grows(A, h, B, k),
         NEW p, GoodProject(p, A, h)
  PROVE  GoodProject(p, B, k)
BY ShownGrows DEF GoodProject, Grows

\* So does a delivery record: applied records never lose their commit.
LEMMA RecordStaysGood ==
  ASSUME NEW A, NEW h \in Nat, NEW B, NEW k \in Nat, Grows(A, h, B, k),
         NEW d, GoodRecord(d, A, h)
  PROVE  GoodRecord(d, B, k)
BY ShownGrows DEF GoodRecord, Grows, DeliveryRecord, Ref

\* So does a thread, whichever step of the transaction it is in.
LEMMA HandlerStaysGood ==
  ASSUME NEW A, NEW h \in Nat, NEW B, NEW k \in Nat, Grows(A, h, B, k),
         NEW x, GoodHandler(x, A, h)
  PROVE  GoodHandler(x, B, k)
<1>1. x.ref.of \in Nat
  BY DEF GoodHandler, HandlerState, Ref
<1> QED
  BY <1>1, ShownGrows DEF GoodHandler, Grows

\* So does a hand-off in progress outside a live session.
LEMMA ProcStaysGood ==
  ASSUME NEW A, NEW h \in Nat, NEW B, NEW k \in Nat, Grows(A, h, B, k),
         NEW x, NEW d \in DeliveryRecord, GoodProc(x, d, A, h)
  PROVE  GoodProc(x, d, B, k)
<1>1. d.head.of \in Nat
  BY DEF DeliveryRecord, Ref
<1> QED
  BY <1>1, ShownGrows DEF GoodProc, Grows

\* A thread that is not in the transaction carries no obligation.
LEMMA FreshHandlerIsGood ==
  ASSUME NEW A, NEW h, NEW x \in HandlerState, x.pc \notin InTransaction
  PROVE  GoodHandler(x, A, h)
BY DEF GoodHandler, InTransaction

\* A handler that returns is a typed, idle one.
LEMMA IdleIsGood == Idle \in HandlerState /\ Idle.pc = "idle"
BY RefFacts DEF Idle, HandlerState, NoClaims, PCs, InTransaction

\* The empty record, a pending one, and an applied one of a contained head.
LEMMA RecordsGood ==
  ASSUME NEW A, NEW h \in Nat
  PROVE  /\ GoodRecord(NoDelivery, A, h)
         /\ \A r \in Ref : NoneOrHead(r) => GoodRecord(Pending(r), A, h)
         /\ \A r \in Ref : NoneOrHead(r) /\ r.of <= h /\ Shown(A, h)
                            => GoodRecord(Applied(r), A, h)
BY RefFacts DEF GoodRecord, NoneOrHead, NoDelivery, Pending, Applied, DeliveryRecord, IsApplied

\* A sound change of a good domain state is good.
LEMMA ProjectStepGood ==
  ASSUME NEW A, NEW h, NEW p, NEW q, GoodProject(p, A, h), NoNewer(q, p)
  PROVE  GoodProject(q, A, h)
BY DEF GoodProject, NoNewer

\* The domain never approves a head it was not told about.
LEMMA ApprovedIsGood ==
  ASSUME NEW A, NEW h, NEW q, Sound(q), q.phase # "DONE"
  PROVE  GoodProject(q, A \cup Approvals(q), h)
BY DEF GoodProject

\* What recovery.ExpectedEvidence and FastVerificationTarget return.
LEMMA EvidenceTyped ==
  ASSUME git \in GitType
  PROVE  /\ Target \in Ref /\ Target.kind = "head"
         /\ \A p \in ProjectState, a \in Agents : Evidence(p.phase, a, p.version) \in Ref
BY RefFacts DEF GitType, Target, Evidence, Reviewed, Peer, ProjectState, ProjectRecord

----------------------------------------------------------------------------
(***************************************************************************)
(* One step of one thread of the live coordinator.                         *)
(***************************************************************************)
OnlyThread(t) ==
  /\ handler' \in [Threads -> HandlerState]
  /\ \A s \in Threads \ {t} : handler'[s] = handler[s]

Checkpointed ==
  /\ disk' = disk \/ disk' = [project |-> project', delivery |-> delivery']
  /\ budget' \in Setup

\* What a thread may change without regard to anyone else.
StepTypes ==
  /\ proc' = "live"
  /\ git' \in GitType /\ gated' \subseteq Ref
  /\ txn' \in Agents \cup {"free"} /\ repo' \in [head : Nat, blocked : BOOLEAN]

\* A step of one thread keeps Pieces when what it changes stays good.
LEMMA LiveStep ==
  ASSUME Pieces, StepTypes, Checkpointed, NEW t \in Threads, OnlyThread(t),
         Grows(approved, repo.head, approved', repo'.head),
         GoodHeads(approved', repo'.head),
         GoodProject(project', approved', repo'.head),
         GoodRecord(delivery', approved', repo'.head),
         GoodHandler(handler'[t], approved', repo'.head)
  PROVE  Pieces'
<1> DEFINE A == approved
           B == approved'
           h == repo.head
           k == repo'.head
<1>1. h \in Nat /\ k \in Nat
  BY DEF Pieces, OtherTypes, StepTypes
<1>2. GoodProject(disk.project, B, k) /\ GoodRecord(disk.delivery, B, k)
  BY <1>1, ProjectStaysGood, RecordStaysGood DEF Pieces
<1>3. GoodProject(disk'.project, B, k) /\ GoodRecord(disk'.delivery, B, k)
  BY <1>2 DEF Checkpointed
<1>4. \A s \in Threads : GoodHandler(handler'[s], B, k)
  <2> TAKE s \in Threads
  <2>1. CASE s = t
    BY <2>1
  <2>2. CASE s # t
    BY <1>1, <2>2, HandlerStaysGood DEF Pieces, OnlyThread
  <2> QED
    BY <2>1, <2>2
<1>5. GoodProc(proc', delivery', B, k)
  BY DEF StepTypes, GoodProc, ProcStates
<1>6. disk' \in DiskType
  BY DEF Checkpointed, DiskType, Pieces, OtherTypes, GoodProject, GoodRecord, Sound
<1>7. OtherTypes'
  BY <1>6 DEF OtherTypes, StepTypes, Checkpointed, OnlyThread
<1> QED
  BY <1>3, <1>4, <1>5, <1>7 DEF Pieces

\* The same, for a step that leaves the approvals and the branch alone.
LEMMA QuietStep ==
  ASSUME Pieces, StepTypes, Checkpointed, NEW t \in Threads, OnlyThread(t),
         approved' = approved, repo' = repo,
         GoodProject(project', approved, repo.head),
         GoodRecord(delivery', approved, repo.head),
         GoodHandler(handler'[t], approved, repo.head)
  PROVE  Pieces'
<1>1. Grows(approved, repo.head, approved', repo'.head)
  BY DEF Grows
<1>2. GoodHeads(approved', repo'.head)
  BY DEF Pieces
<1> QED
  BY <1>1, <1>2, LiveStep

\* Saved or lost, a write of the live state leaves a checkpoint on disk.
LEMMA SaveIsCheckpoint ==
  ASSUME Pieces
  PROVE  /\ HookSave(project', delivery') => Checkpointed
         /\ Saved(project', delivery') \/ SaveFails => Checkpointed
         /\ UNCHANGED <<disk, budget>> => Checkpointed
         /\ Spend("rounds") /\ UNCHANGED disk => Checkpointed
BY DEF Pieces, OtherTypes, Setup, HookSave, Saved, SaveFails, Spend, Checkpointed

\* What every action of a thread of the live coordinator starts from.
LEMMA LiveFacts ==
  ASSUME Pieces, NEW t \in Threads
  PROVE  /\ disk \in DiskType /\ git \in GitType /\ gated \subseteq Ref
         /\ repo \in [head : Nat, blocked : BOOLEAN] /\ repo.head \in Nat
         /\ txn \in Agents \cup {"free"} /\ budget \in Setup
         /\ handler \in [Threads -> HandlerState] /\ handler[t] \in HandlerState
         /\ handler[t].ref \in Ref /\ handler[t].stale \in SUBSET Agents
         /\ GoodHandler(handler[t], approved, repo.head)
         /\ GoodProject(project, approved, repo.head) /\ Sound(project)
         /\ GoodRecord(delivery, approved, repo.head) /\ delivery \in DeliveryRecord
BY DEF Pieces, OtherTypes, GoodProject, GoodRecord, HandlerState

\* Where a thread goes next.
LEMMA HandlerUpdate ==
  ASSUME handler \in [Threads -> HandlerState], NEW t \in Threads, NEW k \in HandlerState,
         handler' = [handler EXCEPT ![t] = k]
  PROVE  OnlyThread(t) /\ handler'[t] = k
BY DEF OnlyThread

\* Moving one thread's program counter touches nothing else of it.
LEMMA GotoFacts ==
  ASSUME handler \in [Threads -> HandlerState], NEW t \in Threads, NEW pc \in PCs, Goto(t, pc)
  PROVE  /\ OnlyThread(t) /\ handler'[t].pc = pc
         /\ handler'[t].ref = handler[t].ref /\ handler'[t].claims = handler[t].claims
<1> DEFINE k == [handler[t] EXCEPT !.pc = pc]
<1>1. k \in HandlerState /\ k.pc = pc /\ k.ref = handler[t].ref /\ k.claims = handler[t].claims
  BY DEF HandlerState
<1>2. handler' = [handler EXCEPT ![t] = k]
  BY DEF Goto
<1> HIDE DEF k
<1> QED
  BY <1>1, <1>2, HandlerUpdate

\* Moving it together with the head it works on.
LEMMA GotoWithFacts ==
  ASSUME handler \in [Threads -> HandlerState], NEW t \in Threads, NEW pc \in PCs,
         NEW r \in Ref, GotoWith(t, pc, r)
  PROVE  OnlyThread(t) /\ handler'[t].pc = pc /\ handler'[t].ref = r
<1> DEFINE k == [handler[t] EXCEPT !.pc = pc, !.ref = r]
<1>1. k \in HandlerState /\ k.pc = pc /\ k.ref = r
  BY DEF HandlerState
<1>2. handler' = [handler EXCEPT ![t] = k]
  BY DEF GotoWith
<1> HIDE DEF k
<1> QED
  BY <1>1, <1>2, HandlerUpdate

\* Returning leaves the thread idle and the others as they were.
LEMMA ReturnFacts ==
  ASSUME handler \in [Threads -> HandlerState], NEW t \in Threads, Return(t)
  PROVE  /\ OnlyThread(t) /\ handler'[t].pc = "idle"
         /\ \A A, h : GoodHandler(handler'[t], A, h)
<1>1. OnlyThread(t) /\ handler'[t] = Idle
  BY HandlerUpdate, IdleIsGood DEF Return
<1> QED
  BY <1>1, IdleIsGood, FreshHandlerIsGood DEF InTransaction

\* Outside the transaction there is nothing more to say of a thread.
LEMMA OutsideIsGood ==
  ASSUME NEW t \in Threads, OnlyThread(t), handler'[t].pc \notin InTransaction
  PROVE  \A A, h : GoodHandler(handler'[t], A, h)
BY FreshHandlerIsGood DEF OnlyThread

\* Which program counters hold the delivery lock, and which do not.
LEMMA PCFacts ==
  /\ InTransaction \subseteq PCs
  /\ {"idle", "revoke", "evidence", "sign", "gate", "merge", "deliver", "target", "fastgate",
      "request", "vgate", "pass", "issue", "reopen", "clear"} \subseteq PCs \ InTransaction
BY DEF PCs, InTransaction

----------------------------------------------------------------------------
(***************************************************************************)
(* The agents' calls outside the delivery transaction.                     *)
(***************************************************************************)
LEMMA SubmitPlanStep ==
  ASSUME Pieces, NEW a \in Agents, SubmitPlan(a)
  PROVE  Pieces'
<1> USE LiveFacts DEF Threads
<1>1. GoodProject(project', approved, repo.head)
  BY SetPlanSound, ProjectStepGood DEF SubmitPlan, Mutate
<1>2. Checkpointed
  BY SaveIsCheckpoint DEF SubmitPlan, Mutate
<1>3. StepTypes /\ OnlyThread(a)
  BY DEF SubmitPlan, At, StepTypes, OnlyThread
<1> QED
  BY <1>1, <1>2, <1>3, QuietStep DEF SubmitPlan

\* duo_set_status finds stale signatures: only the thread changes.
LEMMA BeginSignStep ==
  ASSUME Pieces, NEW a \in Agents, BeginSign(a)
  PROVE  Pieces'
<1> USE LiveFacts DEF Threads
<1>1. handler'[a] \in HandlerState /\ handler'[a].pc \in {"evidence", "revoke"}
      /\ OnlyThread(a)
  BY IdleIsGood DEF BeginSign, OnlyThread, HandlerState, PCs, Idle
<1>2. GoodHandler(handler'[a], approved, repo.head)
  BY <1>1, FreshHandlerIsGood DEF InTransaction
<1>3. Checkpointed
  BY SaveIsCheckpoint DEF BeginSign
<1>4. StepTypes
  BY DEF BeginSign, At, StepTypes
<1> QED
  BY <1>1, <1>2, <1>3, <1>4, QuietStep DEF BeginSign

\* invalidateStaleApprovals revokes one signature: approvals shrink.
LEMMA RevokeStaleStep ==
  ASSUME Pieces, NEW a \in Agents, RevokeStale(a)
  PROVE  Pieces'
<1> USE LiveFacts DEF Threads
<1>1. OnlyThread(a) /\ handler'[a].pc \in {"evidence", "revoke"}
  <2> DEFINE signer == IF "Austin" \in handler[a].stale THEN "Austin" ELSE "Tony"
             left == handler[a].stale \ {signer}
             next == IF left = {} THEN "evidence" ELSE "revoke"
             k == [handler[a] EXCEPT !.pc = next, !.stale = left]
  <2>1. handler' = [handler EXCEPT ![a] = [@ EXCEPT !.pc = next, !.stale = left]]
    BY Zenon DEF RevokeStale
  <2>2. left \in SUBSET Agents /\ next \in {"evidence", "revoke"}
    OBVIOUS
  <2>3. a \in Threads /\ handler \in [Threads -> HandlerState] /\ handler[a] \in HandlerState
    OBVIOUS
  <2> HIDE LiveFacts DEF left, next
  <2>4. k \in HandlerState /\ k.pc = next
    <3>1. next \in PCs
      BY <2>2, PCFacts
    <3> HIDE DEF Agents
    <3> QED
      BY <2>2, <2>3, <3>1 DEF HandlerState
  <2>5. handler' = [handler EXCEPT ![a] = k]
    BY <2>1, <2>3
  <2> HIDE DEF k
  <2> QED
    BY <2>2, <2>3, <2>4, <2>5, HandlerUpdate
<1>2. GoodHandler(handler'[a], approved, repo.head)
  BY <1>1, PCFacts, OutsideIsGood
<1>3. Checkpointed
  BY SaveIsCheckpoint DEF RevokeStale, Mutate
<1>4. StepTypes
  BY DEF RevokeStale, At, StepTypes
<1>5. GoodProject(project', approved, repo.head)
  BY RevokeReadySound, ProjectStepGood DEF RevokeStale, Mutate
<1> QED
  BY <1>1, <1>2, <1>3, <1>4, <1>5, QuietStep DEF RevokeStale

\* evidenceForReady: only the thread changes.
LEMMA TakeEvidenceStep ==
  ASSUME Pieces, NEW a \in Agents, TakeEvidence(a)
  PROVE  Pieces'
<1> USE LiveFacts DEF Threads
<1>1. Evidence(project.phase, a, project.version) \in Ref
  BY EvidenceTyped DEF Sound
<1>2. handler'[a].pc \in {"sign", "idle"} /\ OnlyThread(a)
  BY <1>1, PCFacts, GotoWithFacts, ReturnFacts DEF TakeEvidence
<1>3. GoodHandler(handler'[a], approved, repo.head)
  BY <1>2, PCFacts, OutsideIsGood
<1>4. Checkpointed
  BY SaveIsCheckpoint DEF TakeEvidence
<1>5. StepTypes
  BY DEF TakeEvidence, At, StepTypes
<1> QED
  BY <1>2, <1>3, <1>4, <1>5, QuietStep DEF TakeEvidence

\* A recorded approval is added to the history in the same step.
LEMMA RecordedStep ==
  ASSUME Pieces, StepTypes, Checkpointed, NEW t \in Threads, OnlyThread(t),
         repo' = repo, delivery' = delivery,
         Sound(project'), project'.phase # "DONE",
         approved' = approved \cup Approvals(project'),
         Approvals(project') \subseteq Ref,
         handler'[t].pc \notin InTransaction
  PROVE  Pieces'
<1> USE LiveFacts
<1>1. Grows(approved, repo.head, approved', repo'.head)
  BY DEF Grows
<1>2. GoodHeads(approved', repo'.head)
  BY ApprovalsAreHeads DEF Pieces, GoodHeads
<1>3. GoodProject(project', approved', repo'.head)
  BY ApprovedIsGood
<1>4. GoodRecord(delivery', approved', repo'.head)
  BY <1>1, RecordStaysGood
<1>5. GoodHandler(handler'[t], approved', repo'.head)
  BY FreshHandlerIsGood DEF OnlyThread
<1> QED
  BY <1>1, <1>2, <1>3, <1>4, <1>5, LiveStep

\* What a domain state approves is a set of refs.
LEMMA ApprovalsTyped ==
  ASSUME NEW p \in ProjectState
  PROVE  Approvals(p) \subseteq Ref
BY DEF Approvals, ProjectState, ProjectRecord, Verdict

\* State.SetReady: whatever it approves is added to approved.
LEMMA RecordSignatureStep ==
  ASSUME Pieces, NEW a \in Agents, RecordSignature(a)
  PROVE  Pieces'
<1> USE LiveFacts DEF Threads
<1>1. OnlyThread(a) /\ handler'[a].pc \in {"gate", "deliver", "merge", "idle"}
  <2>1. \/ \E pc \in {"gate", "deliver", "merge"} : Goto(a, pc)
        \/ Return(a)
    <3> HIDE DEF Threads
    <3> QED
      BY DEF RecordSignature, AfterSign
  <2> QED
    BY <2>1, PCFacts, GotoFacts, ReturnFacts
<1>2. Checkpointed
  BY SaveIsCheckpoint DEF RecordSignature, Mutate
<1>3. StepTypes
  BY DEF RecordSignature, At, StepTypes
<1>4. CASE CanSetReady(project, a, TRUE, handler[a].ref)
  <2> DEFINE q == SetReady(project, a, TRUE, handler[a].ref)
  <2>1. Sound(project') /\ project'.phase # "DONE"
    <3>1. project' = q
      BY <1>4 DEF RecordSignature, Mutate
    <3>2. handler[a].ref \in Ref /\ Sound(project)
      OBVIOUS
    <3>3. Sound(q) /\ q.phase # "DONE"
      BY <1>4, <3>2, SetReadySound
    <3> QED
      BY <3>1, <3>3
  <2>2. approved' = approved \cup Approvals(project') /\ Approvals(project') \subseteq Ref
    BY <1>4, <2>1, ApprovalsTyped DEF RecordSignature, Sound
  <2> QED
    BY <1>1, <1>2, <1>3, <2>1, <2>2, RecordedStep DEF RecordSignature, InTransaction
<1>5. CASE ~CanSetReady(project, a, TRUE, handler[a].ref)
  <2>1. GoodHandler(handler'[a], approved, repo.head)
    BY <1>1, PCFacts, OutsideIsGood
  <2> QED
    BY <1>1, <1>2, <1>3, <1>5, <2>1, QuietStep DEF RecordSignature
<1> QED
  BY <1>4, <1>5

\* A withdrawn signature or request approves nothing new.
LEMMA WithdrawStep ==
  ASSUME Pieces, NEW a \in Agents, Withdraw(a)
  PROVE  Pieces'
<1> USE LiveFacts DEF Threads
<1>1. GoodProject(project', approved, repo.head)
  BY WithdrawSound, ProjectStepGood DEF Withdraw, Mutate
<1>2. Checkpointed
  BY SaveIsCheckpoint DEF Withdraw, Mutate
<1>3. StepTypes /\ OnlyThread(a)
  BY DEF Withdraw, At, StepTypes, OnlyThread
<1> QED
  BY <1>1, <1>2, <1>3, QuietStep DEF Withdraw

\* runTestGate: a failure revokes, a success goes on to deliver.
LEMMA RunGateStep ==
  ASSUME Pieces, NEW a \in Agents, RunGate(a)
  PROVE  Pieces'
<1> USE LiveFacts DEF Threads
<1>1. OnlyThread(a) /\ handler'[a].pc \in {"deliver", "idle"}
  BY PCFacts, GotoFacts, ReturnFacts DEF RunGate
<1>2. GoodHandler(handler'[a], approved, repo.head)
  BY <1>1, PCFacts, OutsideIsGood
<1>3. GoodProject(project', approved, repo.head)
  BY RevokeReadySound, ProjectStepGood DEF RunGate, Mutate
<1>4. Checkpointed
  BY SaveIsCheckpoint DEF RunGate, Mutate
<1>5. StepTypes
  BY EvidenceTyped DEF RunGate, At, StepTypes
<1> QED
  BY <1>1, <1>2, <1>3, <1>4, <1>5, QuietStep DEF RunGate

\* beginIntegration moves Austin's head and saves.
LEMMA MergeTonyStep ==
  ASSUME Pieces, NEW a \in Agents, MergeTony(a)
  PROVE  Pieces'
<1> USE LiveFacts DEF Threads
<1>1. OnlyThread(a) /\ GoodHandler(handler'[a], approved, repo.head)
  BY ReturnFacts DEF MergeTony
<1>2. Checkpointed
  BY SaveIsCheckpoint DEF MergeTony
<1>3. git' \in GitType
  <2>1. git \in GitType /\ git.last + 1 \in Nat
    BY DEF GitType
  <2>2. CASE git' = git
    BY <2>1, <2>2
  <2>3. CASE git' = [git EXCEPT !.head["Austin"] = git.last + 1,
                                !.last = git.last + 1, !.merged = TRUE]
    BY <2>1, <2>3 DEF GitType
  <2>4. CASE git' = [git EXCEPT !.merging = TRUE, !.dirty = {"Austin"}]
    BY <2>1, <2>4 DEF GitType
  <2> QED
    BY <2>2, <2>3, <2>4 DEF MergeTony
<1>4. StepTypes
  BY <1>3 DEF MergeTony, At, StepTypes
<1> QED
  BY <1>1, <1>2, <1>4, QuietStep DEF MergeTony

\* Austin's request begins, or drops the finished round's record.
LEMMA BeginRequestStep ==
  ASSUME Pieces, BeginRequest
  PROVE  Pieces'
<1> USE LiveFacts DEF Threads
<1>1. OnlyThread("Austin") /\ handler'["Austin"].pc \in {"target", "reopen"}
  BY PCFacts, GotoFacts DEF BeginRequest
<1>2. GoodHandler(handler'["Austin"], approved, repo.head)
  BY <1>1, PCFacts, OutsideIsGood
<1>3. GoodRecord(delivery', approved, repo.head)
  BY RecordsGood DEF BeginRequest
<1>4. Checkpointed
  BY SaveIsCheckpoint DEF BeginRequest
<1>5. StepTypes
  BY DEF BeginRequest, At, StepTypes
<1> QED
  BY <1>1, <1>2, <1>3, <1>4, <1>5, QuietStep DEF BeginRequest

\* handleFastSetStatus picks its target: only the thread changes.
LEMMA ChooseTargetStep ==
  ASSUME Pieces, ChooseTarget
  PROVE  Pieces'
<1> USE LiveFacts DEF Threads
<1>1. project.verdict.on \in Ref /\ Target \in Ref
  BY EvidenceTyped DEF Sound, ProjectState, ProjectRecord, Verdict
<1>2. OnlyThread("Austin") /\ handler'["Austin"].pc \in {"request", "fastgate", "idle"}
  BY <1>1, PCFacts, GotoWithFacts, ReturnFacts DEF ChooseTarget
<1>3. GoodHandler(handler'["Austin"], approved, repo.head)
  BY <1>2, PCFacts, OutsideIsGood
<1>4. Checkpointed
  BY SaveIsCheckpoint DEF ChooseTarget
<1>5. StepTypes
  BY DEF ChooseTarget, At, StepTypes
<1> QED
  BY <1>2, <1>3, <1>4, <1>5, QuietStep DEF ChooseTarget

\* The gate before a request: only the thread changes.
LEMMA GateRequestStep ==
  ASSUME Pieces, GateRequest
  PROVE  Pieces'
<1> USE LiveFacts DEF Threads
<1>1. OnlyThread("Austin") /\ handler'["Austin"].pc \in {"request", "idle"}
  BY PCFacts, GotoFacts, ReturnFacts DEF GateRequest
<1>2. GoodHandler(handler'["Austin"], approved, repo.head)
  BY <1>1, PCFacts, OutsideIsGood
<1>3. Checkpointed
  BY SaveIsCheckpoint DEF GateRequest
<1>4. StepTypes
  BY DEF GateRequest, At, StepTypes
<1> QED
  BY <1>1, <1>2, <1>3, <1>4, QuietStep DEF GateRequest

\* The request recorded, in whichever mode the session is by now.
LEMMA RecordRequestStep ==
  ASSUME Pieces, RecordRequest
  PROVE  Pieces'
<1> USE LiveFacts DEF Threads
<1> DEFINE e == handler["Austin"].ref
           q == SetReady(project, "Austin", TRUE, e)
<1>1. OnlyThread("Austin") /\ handler'["Austin"].pc = "idle"
      /\ GoodHandler(handler'["Austin"], approved, repo.head)
  BY ReturnFacts DEF RecordRequest
<1>2. Checkpointed
  BY SaveIsCheckpoint DEF RecordRequest, Mutate
<1>3. StepTypes
  BY DEF RecordRequest, At, StepTypes
<1>4. CASE CanSetReady(project, "Austin", TRUE, e)
  <2>1. project' = q /\ approved' = approved \cup Approvals(project')
    BY <1>4 DEF RecordRequest, Mutate
  <2>2. e \in Ref /\ Sound(project)
    OBVIOUS
  <2>3. Sound(q) /\ q.phase # "DONE"
    BY <1>4, <2>2, SetReadySound
  <2>4. Approvals(project') \subseteq Ref
    BY <2>1, <2>3, ApprovalsTyped DEF Sound
  <2> HIDE DEF q
  <2> QED
    BY <1>1, <1>2, <1>3, <2>1, <2>3, <2>4, PCFacts, RecordedStep DEF RecordRequest
<1>5. CASE ~CanSetReady(project, "Austin", TRUE, e)
  BY <1>1, <1>2, <1>3, <1>5, QuietStep DEF RecordRequest
<1> QED
  BY <1>4, <1>5

\* Tony's verdict begins, or a request for another head is revoked.
LEMMA BeginVerifyStep ==
  ASSUME Pieces, BeginVerify
  PROVE  Pieces'
<1> USE LiveFacts DEF Threads
<1>1. StepTypes /\ Checkpointed
  BY SaveIsCheckpoint DEF BeginVerify, Mutate, At, StepTypes
<1>2. GoodProject(project', approved, repo.head)
  BY RevokeReadySound, ProjectStepGood DEF BeginVerify, Mutate
<1>3. CASE UNCHANGED handler
  BY <1>1, <1>2, <1>3, QuietStep DEF BeginVerify, OnlyThread
<1>4. CASE \E pc \in {"vgate", "pass", "issue"} : GotoWith("Tony", pc, Target)
  <2>1. OnlyThread("Tony") /\ handler'["Tony"].pc \in {"vgate", "pass", "issue"}
    BY <1>4, PCFacts, EvidenceTyped, GotoWithFacts
  <2>2. GoodHandler(handler'["Tony"], approved, repo.head)
    BY <2>1, PCFacts, OutsideIsGood
  <2> QED
    BY <1>1, <1>2, <2>1, <2>2, QuietStep DEF BeginVerify
<1> QED
  BY <1>3, <1>4 DEF BeginVerify

\* The gate before the verdict: only the thread changes.
LEMMA GateVerdictStep ==
  ASSUME Pieces, GateVerdict
  PROVE  Pieces'
<1> USE LiveFacts DEF Threads
<1>1. OnlyThread("Tony") /\ handler'["Tony"].pc \in {"pass", "idle"}
  BY PCFacts, GotoFacts, ReturnFacts DEF GateVerdict
<1>2. GoodHandler(handler'["Tony"], approved, repo.head)
  BY <1>1, PCFacts, OutsideIsGood
<1>3. Checkpointed
  BY SaveIsCheckpoint DEF GateVerdict
<1>4. StepTypes
  BY EvidenceTyped DEF GateVerdict, At, StepTypes
<1> QED
  BY <1>1, <1>2, <1>3, <1>4, QuietStep DEF GateVerdict

\* State.SetVerification: a pass is added to approved.
LEMMA RecordVerdictStep ==
  ASSUME Pieces, NEW pc \in {"pass", "issue"}, RecordVerdict(pc)
  PROVE  Pieces'
<1> USE LiveFacts DEF Threads
<1> DEFINE result == IF pc = "pass" THEN "passed" ELSE "issue"
           h == handler["Tony"].ref
           q == SetVerification(project, result)
<1>1. OnlyThread("Tony") /\ handler'["Tony"].pc \in {"deliver", "idle"}
  BY PCFacts, GotoFacts, ReturnFacts DEF RecordVerdict
<1>2. GoodHandler(handler'["Tony"], approved, repo.head)
  BY <1>1, PCFacts, OutsideIsGood
<1>3. Checkpointed
  BY SaveIsCheckpoint DEF RecordVerdict, Mutate
<1>4. StepTypes
  BY DEF RecordVerdict, At, StepTypes
<1>5. CASE CanSetVerification(project, result, h)
  <2>1. project' = q /\ approved' = approved \cup Approvals(project')
    BY <1>5 DEF RecordVerdict, Mutate
  <2>2. Sound(q) /\ q.phase # "DONE"
    BY <1>5, SetVerificationSound
  <2>3. Approvals(project') \subseteq Ref
    BY <2>1, <2>2, ApprovalsTyped DEF Sound
  <2> HIDE DEF q
  <2> QED
    BY <1>1, <1>3, <1>4, <2>1, <2>2, <2>3, PCFacts, RecordedStep DEF RecordVerdict
<1>6. CASE ~CanSetVerification(project, result, h)
  BY <1>1, <1>2, <1>3, <1>4, <1>6, QuietStep DEF RecordVerdict
<1> QED
  BY <1>5, <1>6

----------------------------------------------------------------------------
(***************************************************************************)
(* The delivery transaction.                                               *)
(***************************************************************************)
LEMMA EnterDeliveryStep ==
  ASSUME Pieces, NEW a \in Agents, EnterDelivery(a)
  PROVE  Pieces'
<1> USE LiveFacts DEF Threads
<1>1. StepTypes /\ Checkpointed
  BY SaveIsCheckpoint DEF EnterDelivery, At, StepTypes
<1>2. CASE Return(a)
  BY <1>1, <1>2, ReturnFacts, QuietStep DEF EnterDelivery
<1>3. CASE IsApplied(delivery) /\ Goto(a, "settle")
  <2>1. OnlyThread(a) /\ handler'[a].pc = "settle"
    BY <1>3, PCFacts, GotoFacts DEF InTransaction
  <2>2. GoodHandler(handler'[a], approved, repo.head)
    BY <1>3, <2>1 DEF GoodHandler, GoodRecord, OnlyThread
  <2> QED
    BY <1>1, <2>1, <2>2, QuietStep DEF EnterDelivery
<1>4. CASE /\ GateOpen(project)
           /\ handler' = [handler EXCEPT ![a] =
                             [@ EXCEPT !.pc = "check", !.claims = Claims(project)]]
  <2> DEFINE k == [handler[a] EXCEPT !.pc = "check", !.claims = Claims(project)]
  <2>1. Claims(project) \in [Agents -> Ref]
    BY RefFacts DEF Claims, Sound, ProjectState, ProjectRecord, Verdict
  <2>2. k \in HandlerState /\ k.pc = "check" /\ k.claims = Claims(project)
    <3>1. handler[a] \in HandlerState
      OBVIOUS
    <3> HIDE DEF Agents
    <3> QED
      BY <2>1, <3>1 DEF HandlerState, PCs, InTransaction
  <2>3. OnlyThread(a) /\ handler'[a] = k
    BY <1>4, <2>2, HandlerUpdate
  <2>4. ASSUME NEW r, r.kind = "head", \A b \in Agents : Claims(project)[b] = r
        PROVE  r \in Approvals(project)
    BY <1>4, <2>4, RefFacts
    DEF Claims, GateOpen, BothReady, Approvals, Approves, Passed, Sound, ProjectState, ProjectRecord
  <2>5. GoodHandler(k, approved, repo.head)
    BY <2>2, <2>4 DEF GoodHandler, GoodProject
  <2> QED
    BY <1>1, <2>3, <2>5, QuietStep DEF EnterDelivery
<1> QED
  BY <1>2, <1>3, <1>4 DEF EnterDelivery

\* An applied record completes the round: the branch holds a commit.
LEMMA SettleAppliedStep ==
  ASSUME Pieces, NEW a \in Agents, SettleApplied(a)
  PROVE  Pieces'
<1> USE LiveFacts DEF Threads
<1>1. StepTypes /\ Checkpointed
  BY SaveIsCheckpoint DEF SettleApplied, Mutate, Leave, At, StepTypes
<1>2. GoodProject(project', approved, repo.head)
  <2>1. Shown(approved, repo.head)
    BY DEF SettleApplied, At, GoodHandler
  <2> QED
    BY <2>1, CompleteSound DEF SettleApplied, Mutate, GoodProject
<1> QED
  BY <1>1, <1>2, ReturnFacts, QuietStep DEF SettleApplied, Leave

\* deliverFinal's comparison: only an approved head goes on to land.
LEMMA CheckApprovalsStep ==
  ASSUME Pieces, NEW a \in Agents, CheckApprovals(a)
  PROVE  Pieces'
<1> USE LiveFacts DEF Threads
<1>1. StepTypes /\ Checkpointed
  BY SaveIsCheckpoint DEF CheckApprovals, Mutate, Leave, At, StepTypes
<1>2. GoodProject(project', approved, repo.head)
  BY RevokeReadySound, ProjectStepGood DEF CheckApprovals, Mutate
<1>3. GoodRecord(delivery', approved, repo.head)
  <2>1. GoodRecord(Pending(Target), approved, repo.head)
    BY EvidenceTyped, RecordsGood DEF NoneOrHead
  <2> QED
    BY <2>1 DEF CheckApprovals, WithDelivery
<1>4. OnlyThread(a) /\ GoodHandler(handler'[a], approved, repo.head)
  <2>1. CASE Return(a)
    BY <2>1, ReturnFacts
  <2>2. CASE GotoWith(a, "mark", NoRef)
    <3>1. OnlyThread(a) /\ handler'[a].pc = "mark" /\ handler'[a].ref = NoRef
      BY <2>2, PCFacts, RefFacts, GotoWithFacts DEF InTransaction
    <3> QED
      BY <3>1, RefFacts DEF NoneOrHead, GoodHandler, OnlyThread
  <2>3. CASE Agreed(a) /\ GotoWith(a, "land", Target)
    <3>1. OnlyThread(a) /\ handler'[a].pc = "land" /\ handler'[a].ref = Target
      BY <2>3, PCFacts, EvidenceTyped, GotoWithFacts DEF InTransaction
    <3>2. Target.kind = "head" /\ Target \in approved
      BY <2>3, EvidenceTyped DEF CheckApprovals, Agreed, At, GoodHandler
    <3> QED
      BY <3>1, <3>2 DEF NoneOrHead, GoodHandler, OnlyThread
  <2> QED
    BY <2>1, <2>2, <2>3 DEF CheckApprovals, Leave
<1> QED
  BY <1>1, <1>2, <1>3, <1>4, QuietStep DEF CheckApprovals

\* The fast-forward, to a head both agents have approved.
LEMMA LandStep ==
  ASSUME Pieces, NEW a \in Agents, Land(a)
  PROVE  Pieces'
<1> USE LiveFacts DEF Threads
<1> DEFINE h == handler[a].ref.of
<1>1. StepTypes /\ Checkpointed
  BY SaveIsCheckpoint DEF Land, FastForward, At, StepTypes, Ref
<1>2. /\ handler[a].ref \in approved /\ NoneOrHead(handler[a].ref)
      /\ handler[a].ref = HeadRef(h) /\ h \in Nat
  BY RefFacts DEF Land, At, GoodHandler, Pieces, GoodHeads
<1>3. CASE Contained(h) /\ Goto(a, "resolve") /\ UNCHANGED repo
  <2>1. OnlyThread(a) /\ handler'[a].pc = "resolve" /\ handler'[a].ref = handler[a].ref
    BY <1>3, PCFacts, GotoFacts DEF InTransaction
  <2>2. Shown(approved, repo.head)
    <3>1. CASE repo.head = 0
      BY <1>2, <1>3, <3>1 DEF Shown, Contained
    <3>2. CASE repo.head # 0
      BY <3>2, RefFacts DEF Shown, Pieces, GoodHeads, HeadRef
    <3> QED
      BY <3>1, <3>2
  <2>3. GoodHandler(handler'[a], approved, repo.head)
    BY <1>2, <1>3, <2>1, <2>2 DEF GoodHandler, OnlyThread, Contained
  <2> QED
    BY <1>1, <1>3, <2>1, <2>3, QuietStep DEF Land
<1>4. CASE FastForward(h) /\ Goto(a, "resolve")
  <2>1. OnlyThread(a) /\ handler'[a].pc = "resolve" /\ handler'[a].ref = handler[a].ref
    BY <1>4, PCFacts, GotoFacts DEF InTransaction
  <2>2. repo'.head = h /\ repo.head <= h
    BY <1>2, <1>4 DEF FastForward, Contained
  <2>3. approved' = approved /\ project' = project /\ delivery' = delivery
    BY DEF Land
  <2>4. Grows(approved, repo.head, approved', repo'.head)
    BY <1>2, <2>2, <2>3 DEF Grows
  <2>5. GoodHeads(approved', repo'.head)
    BY <1>2, <2>2, <2>3 DEF Pieces, GoodHeads
  <2>6. GoodProject(project', approved', repo'.head) /\ GoodRecord(delivery', approved', repo'.head)
    BY <1>2, <2>2, <2>3, <2>4, ProjectStaysGood, RecordStaysGood
  <2>7. GoodHandler(handler'[a], approved', repo'.head)
    BY <1>2, <2>1, <2>2, <2>3 DEF GoodHandler, OnlyThread, Shown
  <2> QED
    BY <1>1, <2>1, <2>4, <2>5, <2>6, <2>7, LiveStep
<1>5. CASE Goto(a, "mark") /\ UNCHANGED repo
  <2>1. OnlyThread(a) /\ handler'[a].pc = "mark" /\ handler'[a].ref = handler[a].ref
    BY <1>5, PCFacts, GotoFacts DEF InTransaction
  <2>2. GoodHandler(handler'[a], approved, repo.head)
    BY <1>2, <2>1 DEF GoodHandler, OnlyThread
  <2> QED
    BY <1>1, <1>5, <2>1, <2>2, QuietStep DEF Land
<1> QED
  BY <1>3, <1>4, <1>5 DEF Land

\* The save between landing and recording changes no live state.
LEMMA ResolveConflictStep ==
  ASSUME Pieces, NEW a \in Agents, ResolveConflict(a)
  PROVE  Pieces'
<1> USE LiveFacts DEF Threads
<1>1. StepTypes /\ Checkpointed
  BY SaveIsCheckpoint DEF ResolveConflict, At, StepTypes
<1>2. OnlyThread(a) /\ handler'[a].pc = "record" /\ handler'[a].ref = handler[a].ref
  BY PCFacts, GotoFacts DEF ResolveConflict, At, InTransaction
<1>3. GoodHandler(handler'[a], approved, repo.head)
  BY <1>2 DEF ResolveConflict, At, GoodHandler, OnlyThread
<1> QED
  BY <1>1, <1>2, <1>3, QuietStep DEF ResolveConflict

\* The applied record is written for a head the branch contains.
LEMMA RecordAppliedStep ==
  ASSUME Pieces, NEW a \in Agents, RecordApplied(a)
  PROVE  Pieces'
<1> USE LiveFacts DEF Threads
<1>1. StepTypes /\ Checkpointed
  BY SaveIsCheckpoint DEF RecordApplied, Leave, At, StepTypes
<1>2. /\ handler[a].pc = "record" /\ NoneOrHead(handler[a].ref)
      /\ handler[a].ref.of <= repo.head /\ Shown(approved, repo.head)
  BY DEF RecordApplied, At, GoodHandler
<1>3. GoodRecord(delivery', approved, repo.head)
  BY <1>2, RecordsGood DEF RecordApplied
<1>4. OnlyThread(a) /\ GoodHandler(handler'[a], approved, repo.head)
  <2>1. CASE Goto(a, "finish")
    <3>1. OnlyThread(a) /\ handler'[a].pc = "finish" /\ handler'[a].ref = handler[a].ref
      BY <2>1, PCFacts, GotoFacts DEF InTransaction
    <3> QED
      BY <1>2, <3>1 DEF GoodHandler, OnlyThread
  <2>2. CASE Return(a)
    BY <2>2, ReturnFacts
  <2> QED
    BY <2>1, <2>2 DEF RecordApplied, Leave
<1> QED
  BY <1>1, <1>3, <1>4, QuietStep DEF RecordApplied

\* DONE, behind an applied record.
LEMMA FinishRoundStep ==
  ASSUME Pieces, NEW a \in Agents, FinishRound(a)
  PROVE  Pieces'
<1> USE LiveFacts DEF Threads
<1>1. StepTypes /\ Checkpointed
  BY SaveIsCheckpoint DEF FinishRound, Mutate, Leave, At, StepTypes
<1>2. handler[a].pc = "finish" /\ NoneOrHead(handler[a].ref) /\ Shown(approved, repo.head)
  BY DEF FinishRound, At, GoodHandler
<1>3. GoodProject(project', approved, repo.head)
  BY <1>2, CompleteSound DEF FinishRound, Mutate, GoodProject
<1>4. OnlyThread(a) /\ GoodHandler(handler'[a], approved, repo.head)
  <2>1. CASE Goto(a, "mark")
    <3>1. OnlyThread(a) /\ handler'[a].pc = "mark" /\ handler'[a].ref = handler[a].ref
      BY <2>1, PCFacts, GotoFacts DEF InTransaction
    <3> QED
      BY <1>2, <3>1 DEF GoodHandler, OnlyThread
  <2>2. CASE Return(a)
    BY <2>2, ReturnFacts
  <2> QED
    BY <2>1, <2>2 DEF FinishRound, Leave
<1> QED
  BY <1>1, <1>3, <1>4, QuietStep DEF FinishRound

\* A pending record promises nothing.
LEMMA MarkPendingStep ==
  ASSUME Pieces, NEW a \in Agents, MarkPending(a)
  PROVE  Pieces'
<1> USE LiveFacts DEF Threads
<1>1. StepTypes
  BY DEF MarkPending, Leave, At, StepTypes
<1>2. Checkpointed
  BY SaveIsCheckpoint DEF MarkPending
<1>3. GoodRecord(delivery', approved, repo.head)
  <2>1. NoneOrHead(handler[a].ref)
    BY DEF MarkPending, At, GoodHandler
  <2>2. GoodRecord(Pending(handler[a].ref), approved, repo.head)
    BY <2>1, RecordsGood
  <2> QED
    BY <2>2 DEF MarkPending, WithDelivery
<1> QED
  BY <1>1, <1>2, <1>3, ReturnFacts, QuietStep DEF MarkPending, Leave

----------------------------------------------------------------------------
(***************************************************************************)
(* The human, and the new round.                                           *)
(***************************************************************************)
LEMMA SwitchToStep ==
  ASSUME Pieces, NEW m \in Modes, SwitchTo(m)
  PROVE  Pieces'
<1> USE LiveFacts DEF Threads
<1>1. project' = SwitchMode(project, m) /\ GoodProject(project', approved, repo.head)
  BY SwitchModeSound, ProjectStepGood DEF SwitchTo, Mutate
<1>2. Checkpointed
  BY SaveIsCheckpoint DEF SwitchTo, Mutate
<1>3. StepTypes
  BY DEF SwitchTo, At, StepTypes
<1>4. CASE UNCHANGED handler
  BY <1>1, <1>2, <1>3, <1>4, QuietStep DEF SwitchTo, OnlyThread
<1>5. CASE Goto("Human", "clear")
  <2>1. OnlyThread("Human") /\ handler'["Human"].pc = "clear"
    BY <1>5, PCFacts, GotoFacts
  <2>2. GoodHandler(handler'["Human"], approved, repo.head)
    BY <2>1, PCFacts, OutsideIsGood
  <2> QED
    BY <1>1, <1>2, <1>3, <2>1, <2>2, QuietStep DEF SwitchTo
<1> QED
  BY <1>4, <1>5 DEF SwitchTo

\* Dropping the record of the round a switch left behind.
LEMMA ClearRoundStep ==
  ASSUME Pieces, ClearRound
  PROVE  Pieces'
<1> USE LiveFacts DEF Threads
<1>1. StepTypes /\ Checkpointed
  BY SaveIsCheckpoint DEF ClearRound, At, StepTypes
<1> QED
  BY <1>1, RecordsGood, ReturnFacts, QuietStep DEF ClearRound

\* A task after DONE drops the record.
LEMMA SubmitTaskStep ==
  ASSUME Pieces, SubmitTask
  PROVE  Pieces'
<1> USE LiveFacts DEF Threads
<1>1. OnlyThread("Human") /\ handler'["Human"].pc = "reopen"
  BY PCFacts, GotoFacts DEF SubmitTask
<1>2. GoodHandler(handler'["Human"], approved, repo.head)
  BY <1>1, PCFacts, OutsideIsGood
<1>3. StepTypes /\ Checkpointed
  BY SaveIsCheckpoint DEF SubmitTask, At, StepTypes
<1> QED
  BY <1>1, <1>2, <1>3, RecordsGood, QuietStep DEF SubmitTask

\* Reopening a round drops its approvals.
LEMMA ReopenRoundStep ==
  ASSUME Pieces, NEW t \in {"Human", "Austin"}, ReopenRound(t)
  PROVE  Pieces'
<1> USE LiveFacts DEF Threads
<1>1. OnlyThread(t) /\ handler'[t].pc \in {"target", "idle"}
  BY PCFacts, GotoFacts, ReturnFacts DEF ReopenRound
<1>2. GoodHandler(handler'[t], approved, repo.head)
  BY <1>1, PCFacts, OutsideIsGood
<1>3. StepTypes /\ Checkpointed
  BY SaveIsCheckpoint DEF ReopenRound, Mutate, At, StepTypes
<1>4. GoodProject(project', approved, repo.head)
  BY ReopenSound, ProjectStepGood DEF ReopenRound, Mutate
<1> QED
  BY <1>1, <1>2, <1>3, <1>4, QuietStep DEF ReopenRound

----------------------------------------------------------------------------
(***************************************************************************)
(* The worktrees and the user's repository.                                *)
(***************************************************************************)
LEMMA WorktreeStep ==
  ASSUME Pieces, git' \in GitType,
         UNCHANGED <<project, delivery, disk, repo, handler, txn, proc, approved, gated, budget>>
  PROVE  Pieces'
BY DEF Pieces, OtherTypes

\* Commits, edits and the user's repository: no approval depends on them.
LEMMA EnvironmentStep ==
  ASSUME Pieces, Environment
  PROVE  Pieces'
<1>1. git \in GitType /\ git.last + 1 \in Nat
  BY DEF Pieces, OtherTypes, GitType
<1>2. ASSUME NEW a \in Agents, Commit(a) PROVE Pieces'
  <2>1. git' \in GitType
    BY <1>1, <1>2 DEF Commit, GitType
  <2> QED
    BY <1>2, <2>1, WorktreeStep DEF Commit
<1>3. ASSUME NEW a \in Agents, Edit(a) PROVE Pieces'
  <2>1. git' \in GitType
    BY <1>1, <1>3 DEF Edit, GitType
  <2> QED
    BY <1>3, <2>1, WorktreeStep DEF Edit
<1>4. ASSUME NEW a \in Agents, Discard(a) PROVE Pieces'
  <2>1. git' \in GitType
    BY <1>1, <1>4 DEF Discard, GitType
  <2> QED
    BY <1>4, <2>1, WorktreeStep DEF Discard
<1>5. CASE StartMerge
  <2>1. git' \in GitType
    BY <1>1, <1>5 DEF StartMerge, GitType
  <2> QED
    BY <1>5, <2>1, WorktreeStep DEF StartMerge
<1>6. CASE ToggleRepo
  <2>1. repo' \in [head : Nat, blocked : BOOLEAN] /\ repo'.head = repo.head
    BY <1>6 DEF ToggleRepo, Pieces, OtherTypes
  <2> QED
    BY <1>6, <2>1 DEF ToggleRepo, Pieces, OtherTypes
<1> QED
  BY <1>2, <1>3, <1>4, <1>5, <1>6 DEF Environment

----------------------------------------------------------------------------
(***************************************************************************)
(* Crash and resume.                                                       *)
(***************************************************************************)
\* Reconcile revokes and moves phases; it approves nothing.
LEMMA ReconcileSound ==
  ASSUME NEW p, Sound(p), Restorable(Reconcile(p))
  PROVE  NoNewer(Reconcile(p), p)
<1> DEFINE x == [p EXCEPT !.phase = RecoveredPhase(p)]
           c == IF VerdictLost(x)
                THEN [x EXCEPT !.phase = "RUNNING", !.verdict = NoVerdict] ELSE x
           q == Reconcile(p)
<1>1. RecoveredPhase(p) \in {p.phase, "INTEGRATE"}
      /\ (RecoveredPhase(p) = "DONE" => p.phase = "DONE")
  BY DEF RecoveredPhase
<1>2. p \in ProjectRecord /\ "INTEGRATE" \in Phases /\ "RUNNING" \in Phases
  BY PhaseFacts DEF Sound, ProjectState, Phases
<1>3. x \in ProjectRecord /\ x.phase = RecoveredPhase(p)
      /\ x.mode = p.mode /\ x.ready = p.ready /\ x.evidence = p.evidence /\ x.verdict = p.verdict
  BY <1>1, <1>2 DEF ProjectRecord
<1> HIDE DEF x
<1>4. /\ c \in ProjectRecord /\ c.mode = p.mode /\ c.ready = p.ready /\ c.evidence = p.evidence
      /\ (c.verdict = p.verdict \/ c.verdict = NoVerdict)
      /\ (c.phase = x.phase \/ (c.phase = "RUNNING" /\ c.mode = "FAST"))
  BY <1>2, <1>3, RefFacts DEF ProjectRecord, Verdict, NoVerdict, VerdictLost
<1> HIDE DEF c
<1> DEFINE ready == [a \in Agents |-> c.ready[a] /\ ~Stale(c, a)]
           evidence == [a \in Agents |-> IF Stale(c, a) THEN NoRef ELSE c.evidence[a]]
<1>5. q = [c EXCEPT !.ready = ready, !.evidence = evidence]
  BY DEF Reconcile, c, x
<1>6. ready \in [Agents -> BOOLEAN] /\ evidence \in [Agents -> Ref]
      /\ \A a \in Agents : ready[a] => c.ready[a] /\ evidence[a] = c.evidence[a]
  BY <1>4, RefFacts DEF ProjectRecord
<1> HIDE DEF ready, evidence
<1>7. /\ q \in ProjectRecord /\ q.mode = p.mode /\ q.phase = c.phase /\ q.verdict = c.verdict
      /\ q.ready = ready /\ q.evidence = evidence
  BY <1>4, <1>5, <1>6 DEF ProjectRecord
<1> HIDE DEF q
<1>8. \A a \in Agents : q.ready[a] => p.ready[a] /\ q.evidence[a] = p.evidence[a]
  BY <1>4, <1>6, <1>7
<1>9. q \in ProjectState
  BY <1>7 DEF Restorable, ProjectState, q
<1>10. p.mode = "GOAL" /\ BothReady(p) => p.phase \in {"INTEGRATE", "DONE"}
  BY DEF Sound
<1>11. q.mode = "GOAL" => q.phase \in {p.phase, "INTEGRATE"}
  BY <1>1, <1>3, <1>4, <1>7
<1>12. Sound(q)
  BY <1>7, <1>8, <1>9, <1>10, <1>11 DEF Sound, BothReady
<1>13. ASSUME NEW r \in Approvals(q) PROVE r \in Approvals(p)
  <2>1. CASE q.mode = "GOAL"
    BY <1>7, <1>8, <1>10, <1>13, <2>1 DEF Approvals, Approves, BothReady
  <2>2. CASE q.mode # "GOAL"
    BY <1>4, <1>7, <1>13, <2>2, RefFacts DEF Approvals, Approves, Passed, NoVerdict
  <2> QED
    BY <2>1, <2>2
<1>14. q.phase = "DONE" => p.phase = "DONE"
  BY <1>1, <1>3, <1>4, <1>7
<1> QED
  BY <1>12, <1>13, <1>14 DEF NoNewer, q

\* A crash leaves the last checkpoint, which is good.
LEMMA CrashStep ==
  ASSUME Pieces, Crash
  PROVE  Pieces'
<1>1. budget' \in Setup
  BY DEF Crash, Spend, Setup, Pieces, OtherTypes
<1>2. handler' \in [Threads -> HandlerState]
      /\ \A t \in Threads : GoodHandler(handler'[t], approved, repo.head)
  BY IdleIsGood, FreshHandlerIsGood, PCFacts DEF Crash
<1>3. GoodProc(proc', delivery', approved, repo.head)
  BY DEF Crash, GoodProc, ProcStates
<1> QED
  BY <1>1, <1>2, <1>3 DEF Crash, Load, Pieces, OtherTypes

\* One step of the resume path: no thread runs, and what is loaded is either
\* what was just written or what was on disk already.
LEMMA OfflineStep ==
  ASSUME Pieces,
         UNCHANGED <<git, handler, txn, approved, gated, budget>>,
         repo' \in [head : Nat, blocked : BOOLEAN],
         Grows(approved, repo.head, approved, repo'.head),
         GoodHeads(approved, repo'.head),
         disk' = disk \/ disk' = [project |-> project', delivery |-> delivery'],
         GoodProject(project', approved, repo'.head),
         GoodRecord(delivery', approved, repo'.head),
         GoodProc(proc', delivery', approved, repo'.head)
  PROVE  Pieces'
<1> DEFINE A == approved
           h == repo.head
           k == repo'.head
<1>1. h \in Nat /\ k \in Nat
  BY DEF Pieces, OtherTypes
<1>2. GoodProject(disk.project, A, k) /\ GoodRecord(disk.delivery, A, k)
  BY <1>1, ProjectStaysGood, RecordStaysGood DEF Pieces
<1>3. GoodProject(disk'.project, A, k) /\ GoodRecord(disk'.delivery, A, k)
  BY <1>2
<1>4. \A t \in Threads : GoodHandler(handler'[t], A, k)
  BY <1>1, HandlerStaysGood DEF Pieces
<1>5. disk' \in DiskType
  BY DEF DiskType, Pieces, OtherTypes, GoodProject, GoodRecord, Sound
<1> QED
  BY <1>3, <1>4, <1>5 DEF Pieces, OtherTypes

\* The same, when the user's branch does not move.
LEMMA OfflineQuietStep ==
  ASSUME Pieces,
         UNCHANGED <<git, repo, handler, txn, approved, gated, budget>>,
         disk' = disk \/ disk' = [project |-> project', delivery |-> delivery'],
         GoodProject(project', approved, repo.head),
         GoodRecord(delivery', approved, repo.head),
         GoodProc(proc', delivery', approved, repo.head)
  PROVE  Pieces'
<1>1. Grows(approved, repo.head, approved, repo'.head)
  BY DEF Grows
<1>2. GoodHeads(approved, repo'.head) /\ repo' \in [head : Nat, blocked : BOOLEAN]
  BY DEF Pieces, OtherTypes
<1> QED
  BY <1>1, <1>2, OfflineStep

\* What Pieces says of the live and the saved state; only a hand-off adds more.
LEMMA OfflineFacts ==
  ASSUME Pieces
  PROVE  /\ GoodProject(project, approved, repo.head) /\ Sound(project)
         /\ GoodProject(disk.project, approved, repo.head)
         /\ GoodRecord(delivery, approved, repo.head)
         /\ GoodRecord(disk.delivery, approved, repo.head)
         /\ \A x \in {"live", "down", "resumed", "refused"} :
              \A d : GoodProc(x, d, approved, repo.head)
BY DEF Pieces, GoodProject, GoodProc, ProcStates

\* Reconcile keeps or revokes signatures, never invents them.
LEMMA ResumeStep ==
  ASSUME Pieces, Resume
  PROVE  Pieces'
<1>1. CASE Restorable(Reconcile(project))
  <2>1. GoodProject(project', approved, repo.head)
    BY <1>1, OfflineFacts, ReconcileSound, ProjectStepGood DEF Resume, Load
  <2> QED
    BY <1>1, <2>1, OfflineFacts, OfflineQuietStep DEF Resume, Load
<1>2. CASE ~Restorable(Reconcile(project))
  BY <1>2, OfflineFacts, OfflineQuietStep DEF Resume
<1> QED
  BY <1>1, <1>2

\* Completing an applied session: its record already names a landed head.
LEMMA CloseWindowStep ==
  ASSUME Pieces, CloseWindow, UNCHANGED <<git, repo, handler, txn, approved, gated, budget>>
  PROVE  Pieces'
<1>1. CASE CanComplete(project)
  <2>1. Shown(approved, repo.head)
    BY OfflineFacts DEF CloseWindow, GoodRecord
  <2>2. GoodProject(project', approved, repo.head)
    BY <1>1, <2>1, OfflineFacts, CompleteSound DEF CloseWindow, Load, GoodProject
  <2> QED
    BY <1>1, <2>2, OfflineFacts, OfflineQuietStep DEF CloseWindow, Load
<1>2. CASE ~CanComplete(project)
  BY <1>2, OfflineFacts, OfflineQuietStep DEF CloseWindow, Load
<1> QED
  BY <1>1, <1>2

\* What the gates of DeliverAndPersist let through has been approved.
LEMMA DeliverableIsApproved ==
  ASSUME Pieces, Deliverable(project, delivery)
  PROVE  FinalHead(delivery) \in approved /\ FinalHead(delivery) \in Ref
         /\ FinalHead(delivery).kind = "head"
<1> DEFINE r == FinalHead(delivery)
<1>1. git \in GitType /\ delivery \in DeliveryRecord /\ NoneOrHead(delivery.head)
  BY DEF Pieces, OtherTypes, GoodRecord
<1>2. r \in Ref /\ r.kind = "head"
  <2>1. CASE delivery.head = NoRef
    BY <1>1, <2>1, EvidenceTyped DEF FinalHead
  <2>2. CASE delivery.head # NoRef
    BY <1>1, <2>2 DEF FinalHead, NoneOrHead, DeliveryRecord
  <2> QED
    BY <2>1, <2>2
<1>3. r \in Approvals(project)
  <2> HIDE DEF r
  <2>1. CASE project.mode = "FAST"
    BY <1>2, <2>1 DEF Deliverable, Passed, Approvals, Approves, r
  <2>2. CASE project.mode # "FAST"
    BY <1>2, <2>2, OfflineFacts
    DEF Deliverable, Approvals, Approves, Sound, ProjectState, ProjectRecord, r
  <2> QED
    BY <2>1, <2>2
<1> QED
  BY <1>2, <1>3, OfflineFacts DEF GoodProject

\* The offline gates let only an approved head through.
LEMMA BeginHandOffStep ==
  ASSUME Pieces, BeginHandOff, UNCHANGED <<git, repo, handler, txn, approved, gated, budget>>
  PROVE  Pieces'
<1> DEFINE r == FinalHead(delivery)
<1>1. CASE Deliverable(project, delivery)
  <2>1. r \in approved /\ r \in Ref /\ r.kind = "head"
    BY <1>1, DeliverableIsApproved
  <2>2. delivery' = Pending(r) /\ project' = project /\ proc' = "landing"
        /\ disk' = [project |-> project', delivery |-> delivery']
    BY <1>1 DEF BeginHandOff, Load
  <2> HIDE DEF r
  <2>3. GoodRecord(delivery', approved, repo.head)
    BY <2>1, <2>2, RecordsGood DEF NoneOrHead, Pieces, OtherTypes
  <2>4. GoodProc(proc', delivery', approved, repo.head)
    BY <2>1, <2>2 DEF GoodProc, ProcStates, Pending
  <2> QED
    BY <2>2, <2>3, <2>4, OfflineFacts, OfflineQuietStep
<1>2. CASE ~Deliverable(project, delivery)
  BY <1>2, OfflineFacts, OfflineQuietStep DEF BeginHandOff, Load
<1> QED
  BY <1>1, <1>2

\* ReconcileDelivery: completes, hands off, refuses, or goes live.
LEMMA ReconcileDeliveryStep ==
  ASSUME Pieces, ReconcileDelivery
  PROVE  Pieces'
<1>1. UNCHANGED <<git, repo, handler, txn, approved, gated, budget>>
  BY DEF ReconcileDelivery
<1>2. CASE CloseWindow
  BY <1>1, <1>2, CloseWindowStep
<1>3. CASE BeginHandOff
  BY <1>1, <1>3, BeginHandOffStep
<1>4. CASE proc' = "live" /\ UNCHANGED <<project, delivery, disk>>
  BY <1>1, <1>4, OfflineFacts, OfflineQuietStep
<1> QED
  BY <1>2, <1>3, <1>4 DEF ReconcileDelivery

\* duo apply: the same transaction without Reconcile.
LEMMA ApplyStep ==
  ASSUME Pieces, Apply
  PROVE  Pieces'
BY CloseWindowStep, BeginHandOffStep DEF Apply

\* The offline fast-forward, to an approved head.
LEMMA OfflineLandStep ==
  ASSUME Pieces, OfflineLand
  PROVE  Pieces'
<1> DEFINE h == delivery.head.of
<1>1. UNCHANGED <<project, delivery, disk, git, handler, txn, approved, gated, budget>>
  BY DEF OfflineLand
<1>2. delivery.head \in approved /\ delivery.head = HeadRef(h) /\ h \in Nat
  <2>1. delivery.head \in approved
    BY DEF OfflineLand, Pieces, GoodProc
  <2> QED
    BY <2>1, RefFacts DEF Pieces, GoodHeads
<1>3. CASE Contained(h) /\ proc' = "recording" /\ UNCHANGED repo
  <2>1. Shown(approved, repo.head)
    <3>1. CASE repo.head = 0
      BY <1>2, <1>3, <3>1 DEF Shown, Contained
    <3>2. CASE repo.head # 0
      BY <3>2, RefFacts DEF Shown, Pieces, GoodHeads, HeadRef
    <3> QED
      BY <3>1, <3>2
  <2>2. GoodProc(proc', delivery', approved, repo.head)
    BY <1>1, <1>2, <1>3, <2>1 DEF GoodProc, ProcStates, Contained
  <2> QED
    BY <1>1, <1>3, <2>2, OfflineFacts, OfflineQuietStep
<1>4. CASE FastForward(h) /\ proc' = "recording"
  <2>1. repo.head \in Nat /\ repo'.head = h /\ repo.head <= h
        /\ repo' \in [head : Nat, blocked : BOOLEAN]
    BY <1>2, <1>4 DEF FastForward, Contained, Pieces, OtherTypes
  <2>2. Grows(approved, repo.head, approved, repo'.head)
    BY <1>2, <2>1 DEF Grows
  <2>3. GoodHeads(approved, repo'.head)
    BY <1>2, <2>1 DEF Pieces, GoodHeads
  <2>4. GoodProject(project', approved, repo'.head) /\ GoodRecord(delivery', approved, repo'.head)
    BY <1>1, <1>2, <2>1, <2>2, OfflineFacts, ProjectStaysGood, RecordStaysGood
  <2>5. GoodProc(proc', delivery', approved, repo'.head)
    BY <1>1, <1>2, <1>4, <2>1 DEF GoodProc, ProcStates, Shown
  <2> QED
    BY <1>1, <2>1, <2>2, <2>3, <2>4, <2>5, OfflineStep
<1>5. CASE proc' = "down" /\ UNCHANGED repo
  BY <1>1, <1>5, OfflineFacts, OfflineQuietStep
<1> QED
  BY <1>3, <1>4, <1>5 DEF OfflineLand

\* One write records the landing and DONE.
LEMMA OfflineRecordStep ==
  ASSUME Pieces, OfflineRecord
  PROVE  Pieces'
<1>1. delivery.head.of <= repo.head /\ Shown(approved, repo.head)
  BY DEF OfflineRecord, Pieces, GoodProc
<1>2. GoodRecord(delivery', approved, repo.head)
  <2>1. delivery.head \in Ref /\ NoneOrHead(delivery.head) /\ repo.head \in Nat
    BY DEF Pieces, OtherTypes, GoodRecord, DeliveryRecord
  <2> QED
    BY <1>1, <2>1, RecordsGood DEF OfflineRecord, Load
<1>3. GoodProject(project', approved, repo.head)
  <2>1. project' = CompletedIfWorking(project)
    BY DEF OfflineRecord, Load
  <2> QED
    BY <1>1, <2>1, OfflineFacts, EndSound DEF CompletedIfWorking, GoodProject
<1>4. GoodProc(proc', delivery', approved, repo.head)
  BY OfflineFacts DEF OfflineRecord
<1> QED
  BY <1>2, <1>3, <1>4, OfflineQuietStep DEF OfflineRecord, Load

----------------------------------------------------------------------------
(***************************************************************************)
(* The invariant.                                                          *)
(***************************************************************************)
LEMMA InitPieces == DeliveryAssumption /\ Init => Pieces
<1> SUFFICES ASSUME DeliveryAssumption, Init PROVE Pieces
  OBVIOUS
<1>1. GoodHeads(approved, repo.head)
  BY DEF Init, GoodHeads
<1>2. Sound(project) /\ GoodProject(project, approved, repo.head)
  BY NewStateSound DEF Init, DeliveryAssumption, Setup, GoodProject
<1>3. GoodRecord(NoDelivery, approved, repo.head) /\ NoDelivery \in DeliveryRecord
  BY RefFacts DEF GoodRecord, NoneOrHead, NoDelivery, DeliveryRecord, IsApplied
<1>4. handler \in [Threads -> HandlerState]
      /\ \A t \in Threads : GoodHandler(handler[t], approved, repo.head)
  BY IdleIsGood, FreshHandlerIsGood, PCFacts DEF Init
<1>5. git \in GitType
  BY DEF Init, GitType
<1>6. budget \in Setup /\ disk \in DiskType
  BY <1>2, <1>3 DEF Init, DiskType, DeliveryAssumption, Sound
<1>7. GoodProc(proc, delivery, approved, repo.head)
  BY DEF Init, GoodProc, ProcStates
<1> QED
  BY <1>1, <1>2, <1>3, <1>4, <1>5, <1>6, <1>7 DEF Init, Pieces, OtherTypes

\* Every step of a call that has begun keeps Pieces.
LEMMA ProceedStep ==
  ASSUME Pieces, NEW a \in Agents, Proceed(a)
  PROVE  Pieces'
BY RevokeStaleStep, TakeEvidenceStep, RecordSignatureStep, RunGateStep, MergeTonyStep,
   SettleAppliedStep, CheckApprovalsStep, LandStep, ResolveConflictStep, RecordAppliedStep, FinishRoundStep,
   MarkPendingStep
DEF Proceed

\* Pieces is inductive.
LEMMA NextPieces ==
  ASSUME Pieces, [Next]_vars
  PROVE  Pieces'
<1>1. ASSUME NEW a \in Agents, SubmitPlan(a) \/ BeginSign(a) \/ Withdraw(a) \/ EnterDelivery(a)
      PROVE  Pieces'
  BY <1>1, SubmitPlanStep, BeginSignStep, WithdrawStep, EnterDeliveryStep
<1>2. ASSUME NEW a \in Agents, Proceed(a) PROVE Pieces'
  BY <1>2, ProceedStep
<1>3. CASE BeginRequest \/ BeginVerify \/ ProceedFast
  BY <1>3, BeginRequestStep, BeginVerifyStep, ChooseTargetStep, GateRequestStep,
     RecordRequestStep, GateVerdictStep, RecordVerdictStep
  DEF ProceedFast
<1>4. ASSUME NEW m \in Modes, SwitchTo(m) PROVE Pieces'
  BY <1>4, SwitchToStep
<1>5. CASE SubmitTask \/ ProceedRound
  BY <1>5, SubmitTaskStep, ClearRoundStep, ReopenRoundStep DEF ProceedRound
<1>6. CASE Environment
  BY <1>6, EnvironmentStep
<1>7. CASE Crash \/ Recovery
  BY <1>7, CrashStep, ResumeStep, ReconcileDeliveryStep, ApplyStep, OfflineLandStep,
     OfflineRecordStep
  DEF Recovery
<1>8. CASE UNCHANGED vars
  BY <1>8 DEF vars, Pieces, OtherTypes
<1> QED
  BY <1>1, <1>2, <1>3, <1>4, <1>5, <1>6, <1>7, <1>8 DEF Next

\* The inductive invariant holds in every reachable state.
THEOREM DeliveryInvariant == Spec => []DeliveryInv
<1>1. Init => Pieces
  BY DeliveryAssumption, InitPieces
<1>2. Pieces /\ [Next]_vars => Pieces'
  BY NextPieces
<1>3. Pieces => DeliveryInv
  BY PiecesAreInv
<1> QED
  BY <1>1, <1>2, <1>3, PTL DEF Spec

\* Every variable keeps its type.
THEOREM TypeCorrect == Spec => []TypeOK
<1>1. DeliveryInv => TypeOK
  BY DEF DeliveryInv
<1> QED
  BY <1>1, DeliveryInvariant, PTL

\* The user's branch only ever holds approved artifacts (deliverFinal,
\* DeliverAndPersistTo), for every number of agents' commits, crashes, lost
\* writes, mode switches and rounds.
THEOREM LandedIsApproved == Spec => []LandedWasApproved
<1>1. DeliveryInv => LandedWasApproved
  BY DEF DeliveryInv
<1> QED
  BY <1>1, DeliveryInvariant, PTL

\* What is recorded as applied, live or on disk, is in the user's branch.
THEOREM AppliedIsContained == Spec => []AppliedIsInRepo
<1>1. DeliveryInv => AppliedIsInRepo
  BY DEF DeliveryInv
<1> QED
  BY <1>1, DeliveryInvariant, PTL

----------------------------------------------------------------------------
(***************************************************************************)
(* The refinement.  A step approves, or lands, or does neither; in the     *)
(* last case it may end a round, which the invariant allows only where the *)
(* branch holds an approved artifact, or begin one.                        *)
(***************************************************************************)
ApprovesOnly ==
  /\ repo' = repo /\ approved \subseteq approved'
  /\ project.phase # "DONE" /\ project'.phase # "DONE"

LandsOnly ==
  /\ approved' = approved /\ project' = project
  /\ repo'.head > repo.head

NeitherOfBoth == approved' = approved /\ repo'.head = repo.head

\* A signature, request or verdict approves or does nothing Handoff can see.
LEMMA RecordingIsApproving ==
  ASSUME Pieces
  PROVE  /\ \A a \in Agents : RecordSignature(a) => ApprovesOnly \/ NeitherOfBoth
         /\ RecordRequest => ApprovesOnly \/ NeitherOfBoth
         /\ \A pc \in {"pass", "issue"} : RecordVerdict(pc) => ApprovesOnly \/ NeitherOfBoth
<1>1. ASSUME NEW a \in Agents, NEW e \in Ref, CanSetReady(project, a, TRUE, e)
      PROVE  project.phase # "DONE" /\ SetReady(project, a, TRUE, e).phase # "DONE"
  BY <1>1, OfflineFacts, SetReadySound DEF CanSetReady, CanSign, CanRequest
<1>2. \A a \in Agents : handler[a].ref \in Ref
  BY LiveFacts DEF Threads
<1>3. ASSUME NEW a \in Agents, RecordSignature(a)
      PROVE  ApprovesOnly \/ NeitherOfBoth
  BY <1>1, <1>2, <1>3 DEF RecordSignature, Mutate, ApprovesOnly, NeitherOfBoth
<1>4. ASSUME RecordRequest
      PROVE  ApprovesOnly \/ NeitherOfBoth
  BY <1>1, <1>2, <1>4 DEF RecordRequest, Mutate, ApprovesOnly, NeitherOfBoth
<1>5. ASSUME NEW pc \in {"pass", "issue"}, RecordVerdict(pc)
      PROVE  ApprovesOnly \/ NeitherOfBoth
  BY <1>5, OfflineFacts, SetVerificationSound
  DEF RecordVerdict, Mutate, CanSetVerification, ApprovesOnly, NeitherOfBoth
<1> QED
  BY <1>3, <1>4, <1>5

\* Every step approves, lands, or does neither.
LEMMA StepKinds ==
  ASSUME Pieces, [Next]_vars
  PROVE  ApprovesOnly \/ LandsOnly \/ NeitherOfBoth
<1>1. ASSUME NEW a \in Agents, SubmitPlan(a) \/ BeginSign(a) \/ Withdraw(a) \/ EnterDelivery(a)
      PROVE  NeitherOfBoth
  BY <1>1 DEF SubmitPlan, BeginSign, Withdraw, EnterDelivery, NeitherOfBoth
<1>2. ASSUME NEW a \in Agents, Proceed(a) PROVE ApprovesOnly \/ LandsOnly \/ NeitherOfBoth
  <2>1. CASE RecordSignature(a)
    BY <2>1, RecordingIsApproving
  <2>2. CASE Land(a)
    <3>1. handler[a].ref.of \in Nat /\ repo.head \in Nat
      BY LiveFacts DEF Threads, Ref
    <3> QED
      BY <2>2, <3>1 DEF Land, FastForward, Contained, LandsOnly, NeitherOfBoth, Pieces, OtherTypes
  <2>3. CASE RevokeStale(a) \/ TakeEvidence(a) \/ RunGate(a) \/ MergeTony(a)
    BY <2>3 DEF RevokeStale, TakeEvidence, RunGate, MergeTony, NeitherOfBoth
  <2>4. CASE SettleApplied(a) \/ CheckApprovals(a) \/ ResolveConflict(a) \/ RecordApplied(a)
             \/ FinishRound(a) \/ MarkPending(a)
    BY <2>4 DEF SettleApplied, CheckApprovals, ResolveConflict, RecordApplied, FinishRound, MarkPending, NeitherOfBoth
  <2> QED
    BY <1>2, <2>1, <2>2, <2>3, <2>4 DEF Proceed
<1>3. CASE BeginRequest \/ BeginVerify \/ ChooseTarget \/ GateRequest \/ GateVerdict
  BY <1>3 DEF BeginRequest, BeginVerify, ChooseTarget, GateRequest, GateVerdict, NeitherOfBoth
<1>4. CASE RecordRequest \/ RecordVerdict("pass") \/ RecordVerdict("issue")
  BY <1>4, RecordingIsApproving
<1>5. ASSUME NEW m \in Modes, SwitchTo(m) PROVE NeitherOfBoth
  BY <1>5 DEF SwitchTo, NeitherOfBoth
<1>6. CASE SubmitTask \/ ProceedRound
  BY <1>6 DEF SubmitTask, ProceedRound, ClearRound, ReopenRound, NeitherOfBoth
<1>7. CASE Environment
  BY <1>7
  DEF Environment, Commit, Edit, Discard, StartMerge, ToggleRepo, NeitherOfBoth, Pieces, OtherTypes
<1>8. CASE Crash \/ Resume \/ ReconcileDelivery \/ Apply \/ OfflineRecord
  BY <1>8 DEF Crash, Resume, ReconcileDelivery, Apply, OfflineRecord, NeitherOfBoth
<1>9. CASE OfflineLand
  <2>1. delivery.head.of \in Nat /\ repo.head \in Nat
    BY DEF Pieces, OtherTypes, GoodRecord, DeliveryRecord, Ref
  <2> QED
    BY <1>9, <2>1
    DEF OfflineLand, FastForward, Contained, LandsOnly, NeitherOfBoth, Pieces, OtherTypes
<1>10. CASE UNCHANGED vars
  BY <1>10 DEF vars, NeitherOfBoth
<1> QED
  BY <1>1, <1>2, <1>3, <1>4, <1>5, <1>6, <1>7, <1>8, <1>9, <1>10 DEF Next, ProceedFast, Recovery

\* Every step is one of Handoff's or leaves its variables alone.
LEMMA StepRefines ==
  ASSUME Pieces, Pieces', [Next]_vars
  PROVE  [H!HandoffNext]_(H!handoffVars)
<1> USE DEF H!HandoffNext, H!handoffVars
<1>1. CASE ApprovesOnly
  BY <1>1 DEF ApprovesOnly, H!Approve
<1>2. CASE LandsOnly
  <2>1. repo'.head \in {r.of : r \in approved} /\ repo'.head > repo.head
    BY <1>2, RefFacts DEF LandsOnly, Pieces, OtherTypes, GoodHeads, HeadRef
  <2> QED
    BY <1>2, <2>1 DEF LandsOnly, H!Land
<1>3. CASE NeitherOfBoth
  <2>1. CASE project.phase # "DONE" /\ project'.phase = "DONE"
    BY <1>3, <2>1 DEF NeitherOfBoth, Pieces, GoodProject, Shown, H!Finish
  <2>2. CASE project.phase = "DONE" /\ project'.phase # "DONE"
    BY <1>3, <2>2 DEF NeitherOfBoth, H!NewRound
  <2>3. CASE project.phase = "DONE" <=> project'.phase = "DONE"
    BY <1>3, <2>3 DEF NeitherOfBoth
  <2> QED
    BY <2>1, <2>2, <2>3
<1> QED
  BY <1>1, <1>2, <1>3, StepKinds

\* The delivery protocol, with its crashes and races, implements Handoff.
THEOREM Refinement == Spec => ImplementsHandoff
<1>1. Init => H!HandoffInit
  BY DeliveryAssumption, PhaseFacts DEF Init, H!HandoffInit, NewState, DeliveryAssumption, Setup
<1>2. Init => Pieces
  BY DeliveryAssumption, InitPieces
<1>3. Pieces /\ [Next]_vars => Pieces'
  BY NextPieces
<1>4. Pieces /\ Pieces' /\ [Next]_vars => [H!HandoffNext]_(H!handoffVars)
  BY StepRefines
<1> QED
  BY <1>1, <1>2, <1>3, <1>4, PTL DEF Spec, ImplementsHandoff, H!HandoffSpec
----------------------------------------------------------------------------
(***************************************************************************)
(* The delivery, round by round: the user's branch moves only behind the   *)
(* checkpoint, the receipt of a delivery is of the round it stands in, and *)
(* DONE holds a receipt.  Only one call is in the delivery transaction,    *)
(* and a round ends there, or offline, or not at all: Base says so of the  *)
(* program counters, the mutex and the process.  On it stand Gated, which  *)
(* follows a revision that passed the gate through every place it is kept  *)
(* in until it lands; Receipts, which says where a record can be of the    *)
(* round before; and Dones, which says who may still drop a receipt.       *)
(*                                                                         *)
(* They are said of sessions whose mode is not switched: a switch from     *)
(* GOAL to FAST opens a round in VERIFY that no gate has seen, with the    *)
(* record of the round before until ClearRound has dropped it.             *)
(***************************************************************************)
Steady == ~budget.switches
GoalPCs == {"revoke", "evidence", "sign", "gate", "merge"}

Locked ==
  /\ \A t \in Threads : handler[t].pc \in InTransaction => txn = t /\ project.phase # "DONE"
  /\ \A t \in Threads : handler[t].pc = "check" => ~IsApplied(delivery)
  /\ \A t \in Threads : handler[t].pc \in {"settle", "finish"} => IsApplied(delivery)
  /\ proc # "live" => \A t \in Threads : handler[t].pc = "idle"

OneMode ==
  /\ project.mode = budget.mode /\ disk.project.mode = budget.mode
  /\ handler["Human"].pc \in {"idle", "reopen"}
  /\ budget.mode = "FAST" => \A t \in Threads : handler[t].pc \notin GoalPCs

Noted ==
  /\ \A t \in Threads : handler[t].pc = "land" =>
       delivery = Pending(handler[t].ref) /\ disk.delivery = delivery
  /\ proc = "landing" => delivery = Pending(delivery.head) /\ disk.delivery = delivery

Base == Locked /\ OneMode /\ Noted

----------------------------------------------------------------------------
\* The setup keeps what it is; only bounds go down.
SameSetup ==
  /\ budget'.mode = budget.mode /\ budget'.tests = budget.tests
  /\ budget'.plans = budget.plans /\ budget'.switches = budget.switches
  /\ budget.rounds = 0 => budget'.rounds = 0

SaveOrNot == disk' = disk \/ disk' = [project |-> project', delivery |-> delivery']

\* A step of one thread of the live coordinator.
ThreadStep(t) ==
  /\ proc = "live" /\ proc' = "live" /\ SameSetup /\ SaveOrNot
  /\ \A s \in Threads \ {t} : handler'[s] = handler[s]

\* q is a state of the round that p is in.
SameRound(q, p) ==
  /\ q.mode = p.mode
  /\ q.phase = "DONE" <=> p.phase = "DONE"
  /\ p.mode = "GOAL" /\ p.phase = "INTEGRATE" => q.phase = "INTEGRATE"

\* A step outside the transaction that stays outside and in its round.
Aside(t) ==
  /\ ThreadStep(t)
  /\ delivery' = delivery /\ txn' = txn /\ repo' = repo
  /\ handler[t].pc \notin InTransaction /\ handler'[t].pc \notin InTransaction
  /\ handler[t].pc \notin {"reopen", "clear"} /\ handler'[t].pc \notin {"reopen", "clear"}
  /\ project.mode = "FAST" => handler'[t].pc \notin GoalPCs
  /\ SameRound(project', project)
  /\ project.mode = "FAST" /\ project.phase = "DONE" => disk' = disk

\* Whatever a step pays for with its budget, the setup stays the same.
LEMMA SetupKept ==
  ASSUME Pieces
  PROVE  /\ UNCHANGED budget => SameSetup
         /\ \A p, d : HookSave(p, d) => SameSetup /\ (disk' = disk \/ disk' = [project |-> p, delivery |-> d])
         /\ \A p, d : Saved(p, d) => SameSetup /\ disk' = [project |-> p, delivery |-> d]
         /\ SaveFails => SameSetup /\ disk' = disk
         /\ Spend("rounds") => SameSetup /\ budget.rounds > 0
         /\ Spend("crashes") => SameSetup
<1>1. budget \in Setup
  BY DEF Pieces, OtherTypes
<1>2. UNCHANGED budget => SameSetup
  BY DEF SameSetup
<1>3. Spend("lost") => SameSetup
  BY <1>1 DEF Spend, SameSetup, Setup
<1>4. Spend("crashes") => SameSetup
  BY <1>1 DEF Spend, SameSetup, Setup
<1>5. Spend("rounds") => SameSetup /\ budget.rounds > 0
  BY <1>1 DEF Spend, SameSetup, Setup
<1> QED
  BY <1>2, <1>3, <1>4, <1>5 DEF HookSave, Saved, SaveFails

\* A plan is submitted within the round it is made in.
LEMMA SetPlanRound ==
  ASSUME NEW p, Sound(p), CanSetPlan(p)
  PROVE  SameRound(SetPlan(p), p)
BY DEF Sound, SameRound, SetPlan, ResetApprovals, CanSetPlan, ProjectState, ProjectRecord

\* A signature is withdrawn within its round.
LEMMA RevokeRound ==
  ASSUME NEW p, Sound(p), NEW a \in Agents
  PROVE  SameRound(RevokeReady(p, a), p)
BY DEF Sound, SameRound, RevokeReady, ProjectState, ProjectRecord

\* A signature, or a request, stays in its round: INTEGRATE is not left by it.
LEMMA SetReadyRound ==
  ASSUME NEW p, Sound(p), NEW a \in Agents, NEW r \in BOOLEAN, NEW e, CanSetReady(p, a, r, e)
  PROVE  SameRound(SetReady(p, a, r, e), p)
<1> USE PhaseFacts DEF Sound, ProjectState, ProjectRecord, SameRound, CanSetReady, SetReady
<1>1. CASE p.mode = "GOAL"
  <2> DEFINE s == Signed(p, a, r, e)
  <2>1. s.mode = "GOAL" /\ s.phase = p.phase
    BY <1>1 DEF Signed
  <2>2. Sign(p, a, r, e).mode = "GOAL"
        /\ (p.phase = "INTEGRATE" => Sign(p, a, r, e).phase = "INTEGRATE")
        /\ Sign(p, a, r, e).phase # "DONE"
    <3>1. CASE BothReady(s) /\ s.phase # "INTEGRATE"
      <4>1. Sign(p, a, r, e) = [ResetApprovals(s) EXCEPT !.phase = NextPhase[s.phase]]
        BY <3>1 DEF Sign
      <4>2. ResetApprovals(s) = [s EXCEPT !.ready = NobodyReady, !.evidence = NoEvidence]
        BY DEF ResetApprovals
      <4>3. p.phase \in {"PLAN", "EXECUTE", "REVIEW"}
        BY <1>1, <2>1, <3>1 DEF CanSign
      <4>4. s \in [mode : Modes, phase : Phases, plan : BOOLEAN, version : Nat,
                   ready : [Agents -> BOOLEAN], evidence : [Agents -> {e, NoRef} \cup Ref], verdict : Verdict]
        BY <1>1 DEF Signed
      <4> HIDE DEF s
      <4> QED
        BY <1>1, <2>1, <3>1, <4>1, <4>2, <4>3, <4>4
    <3>2. CASE ~(BothReady(s) /\ s.phase # "INTEGRATE")
      BY <1>1, <2>1, <3>2 DEF Sign, CanSign
    <3> QED
      BY <3>1, <3>2
  <2> QED
    BY <1>1, <2>2 DEF CanSign
<1>2. CASE p.mode = "FAST"
  BY <1>2 DEF Request, CanRequest
<1> QED
  BY <1>1, <1>2

\* A verdict stays in its round.
LEMMA VerdictRound ==
  ASSUME NEW p, Sound(p), NEW r \in {"passed", "issue"}, NEW h, CanSetVerification(p, r, h)
  PROVE  SameRound(SetVerification(p, r), p)
BY DEF Sound, SameRound, SetVerification, CanSetVerification, ProjectState, ProjectRecord, Verdict

\* Complete ends the round and keeps the verdict that justified it.
LEMMA CompleteFacts ==
  ASSUME NEW p, Sound(p)
  PROVE  Complete(p).mode = p.mode /\ Complete(p).phase = "DONE" /\ Complete(p).verdict = p.verdict
BY DEF Sound, Complete, ProjectState, ProjectRecord

----------------------------------------------------------------------------
\* What the invariants say of one thread of the live coordinator.
LEMMA ThreadFacts ==
  ASSUME Pieces, Base
  PROVE  /\ Sound(project) /\ project.mode = budget.mode
         /\ handler \in [Threads -> HandlerState]
         /\ \A t \in Threads : handler[t].ref \in Ref /\ handler[t].stale \in SUBSET Agents
         /\ Agents \subseteq Threads
BY LiveFacts DEF Base, OneMode, Threads

\* Moving or returning one thread leaves the others alone.
LEMMA OthersStay ==
  ASSUME Pieces, NEW t \in Threads
  PROVE  /\ \A pc \in PCs : Goto(t, pc) =>
              /\ \A s \in Threads \ {t} : handler'[s] = handler[s]
              /\ handler'[t].pc = pc /\ handler'[t].ref = handler[t].ref
              /\ handler'[t].claims = handler[t].claims
         /\ \A pc \in PCs : \A r \in Ref : GotoWith(t, pc, r) =>
              /\ \A s \in Threads \ {t} : handler'[s] = handler[s]
              /\ handler'[t].pc = pc /\ handler'[t].ref = r
         /\ Return(t) =>
              /\ \A s \in Threads \ {t} : handler'[s] = handler[s]
              /\ handler'[t].pc = "idle"
         /\ UNCHANGED handler => \A s \in Threads : handler'[s] = handler[s]
<1>1. handler \in [Threads -> HandlerState]
  BY DEF Pieces, OtherTypes
<1> QED
  BY <1>1, GotoFacts, GotoWithFacts, ReturnFacts DEF OnlyThread

\* duo_set_plan.
LEMMA SubmitPlanAside == ASSUME Pieces, Base, NEW a \in Agents, SubmitPlan(a) PROVE Aside(a)
<1>1. SameSetup /\ SaveOrNot
  BY SetupKept DEF SubmitPlan, Mutate, SaveOrNot
<1>2. SameRound(project', project) /\ project.mode = "GOAL"
  BY ThreadFacts, SetPlanRound DEF SubmitPlan, Mutate, CanSetPlan
<1> QED
  BY <1>1, <1>2, PCFacts DEF Aside, ThreadStep, SubmitPlan, At, InTransaction

\* duo_set_status finds stale signatures.
LEMMA BeginSignAside == ASSUME Pieces, Base, NEW a \in Agents, BeginSign(a) PROVE Aside(a)
<1>1. SameSetup /\ SaveOrNot
  BY SetupKept DEF BeginSign, SaveOrNot
<1>2. SameRound(project', project) /\ project.mode = "GOAL"
  BY DEF BeginSign, SameRound
<1>3. /\ \A s \in Threads \ {a} : handler'[s] = handler[s]
      /\ handler'[a].pc \in {"evidence", "revoke"}
  BY ThreadFacts, IdleIsGood DEF BeginSign, HandlerState, Idle
<1> QED
  BY <1>1, <1>2, <1>3 DEF Aside, ThreadStep, BeginSign, At, InTransaction

\* One stale signature is revoked.
LEMMA RevokeStaleAside == ASSUME Pieces, Base, NEW a \in Agents, RevokeStale(a) PROVE Aside(a)
<1> USE ThreadFacts
<1>1. SameSetup /\ SaveOrNot
  BY SetupKept DEF RevokeStale, Mutate, SaveOrNot
<1>2. SameRound(project', project)
  BY RevokeRound DEF RevokeStale, Mutate
<1>3. project.mode = "GOAL"
  BY DEF RevokeStale, At, Base, OneMode, GoalPCs, Sound, ProjectState, ProjectRecord
<1>4. /\ \A s \in Threads \ {a} : handler'[s] = handler[s]
      /\ handler'[a].pc \in {"evidence", "revoke"}
  <2> DEFINE rest == handler[a].stale \ {IF "Austin" \in handler[a].stale THEN "Austin" ELSE "Tony"}
             next == IF rest = {} THEN "evidence" ELSE "revoke"
  <2>1. handler' = [handler EXCEPT ![a] = [@ EXCEPT !.pc = next, !.stale = rest]]
    BY Zenon DEF RevokeStale
  <2>2. next \in {"evidence", "revoke"}
    OBVIOUS
  <2> HIDE DEF next, rest
  <2> QED
    BY <2>1, <2>2 DEF HandlerState
<1> QED
  BY <1>1, <1>2, <1>3, <1>4 DEF Aside, ThreadStep, RevokeStale, At, InTransaction

\* evidenceForReady.
LEMMA TakeEvidenceAside == ASSUME Pieces, Base, NEW a \in Agents, TakeEvidence(a) PROVE Aside(a)
<1> USE ThreadFacts
<1>1. SameSetup /\ SaveOrNot
  BY SetupKept DEF TakeEvidence, SaveOrNot
<1>2. SameRound(project', project)
  BY DEF TakeEvidence, SameRound
<1>3. project.mode = "GOAL"
  BY DEF TakeEvidence, At, Base, OneMode, GoalPCs, Sound, ProjectState, ProjectRecord
<1>4. Evidence(project.phase, a, project.version) \in Ref
  BY EvidenceTyped DEF Sound, Pieces, OtherTypes
<1>5. /\ \A s \in Threads \ {a} : handler'[s] = handler[s]
      /\ handler'[a].pc \in {"sign", "idle"}
  BY <1>4, PCFacts, OthersStay DEF TakeEvidence
<1> QED
  BY <1>1, <1>2, <1>3, <1>5 DEF Aside, ThreadStep, TakeEvidence, At, InTransaction

\* State.SetReady and what handleSetStatus does next.
LEMMA RecordSignatureAside ==
  ASSUME Pieces, Base, NEW a \in Agents, RecordSignature(a) PROVE Aside(a)
<1> USE ThreadFacts
<1>1. SameSetup /\ SaveOrNot
  BY SetupKept DEF RecordSignature, Mutate, SaveOrNot
<1>2. SameRound(project', project)
  <2>1. CASE CanSetReady(project, a, TRUE, handler[a].ref)
    BY <2>1, SetReadyRound DEF RecordSignature, Mutate
  <2>2. CASE ~CanSetReady(project, a, TRUE, handler[a].ref)
    BY <2>2 DEF RecordSignature, SameRound
  <2> QED
    BY <2>1, <2>2
<1>3. project.mode = "GOAL"
  BY DEF RecordSignature, At, Base, OneMode, GoalPCs, Sound, ProjectState, ProjectRecord
<1>4. /\ \A s \in Threads \ {a} : handler'[s] = handler[s]
      /\ handler'[a].pc \in {"gate", "deliver", "merge", "idle"}
  <2>1. \/ \E pc \in {"gate", "deliver", "merge"} : Goto(a, pc)
        \/ Return(a)
    <3> HIDE DEF Threads
    <3> QED
      BY DEF RecordSignature, AfterSign
  <2> QED
    BY <2>1, PCFacts, OthersStay
<1> QED
  BY <1>1, <1>2, <1>3, <1>4 DEF Aside, ThreadStep, RecordSignature, At, InTransaction

\* A signature or a request withdrawn.
LEMMA WithdrawAside == ASSUME Pieces, Base, NEW a \in Agents, Withdraw(a) PROVE Aside(a)
<1>1. SameSetup /\ SaveOrNot
  BY SetupKept DEF Withdraw, Mutate, SaveOrNot
<1>2. SameRound(project', project)
  BY ThreadFacts, SetReadyRound DEF Withdraw, Mutate
<1>3. project.mode = "FAST" => handler[a].pc \notin GoalPCs
  BY ThreadFacts DEF Base, OneMode
<1> QED
  BY <1>1, <1>2, <1>3 DEF Aside, ThreadStep, Withdraw, At, InTransaction

\* runTestGate on the final approval.
LEMMA RunGateAside == ASSUME Pieces, Base, NEW a \in Agents, RunGate(a) PROVE Aside(a)
<1> USE ThreadFacts
<1>1. SameSetup /\ SaveOrNot
  BY SetupKept DEF RunGate, Mutate, SaveOrNot
<1>2. SameRound(project', project)
  <2>1. SameRound(project, project)
    BY DEF SameRound
  <2> QED
    BY <2>1, RevokeRound DEF RunGate, Mutate
<1>3. project.mode = "GOAL"
  BY DEF RunGate, At, Base, OneMode, GoalPCs, Sound, ProjectState, ProjectRecord
<1>4. /\ \A s \in Threads \ {a} : handler'[s] = handler[s]
      /\ handler'[a].pc \in {"deliver", "idle"}
  BY PCFacts, OthersStay DEF RunGate
<1> QED
  BY <1>1, <1>2, <1>3, <1>4 DEF Aside, ThreadStep, RunGate, At, InTransaction

\* beginIntegration.
LEMMA MergeTonyAside == ASSUME Pieces, Base, NEW a \in Agents, MergeTony(a) PROVE Aside(a)
<1> USE ThreadFacts
<1>1. SameSetup /\ SaveOrNot
  BY SetupKept DEF MergeTony, SaveOrNot
<1>2. SameRound(project', project)
  BY DEF MergeTony, SameRound
<1>3. project.mode = "GOAL"
  BY DEF MergeTony, At, Base, OneMode, GoalPCs, Sound, ProjectState, ProjectRecord
<1>4. /\ \A s \in Threads \ {a} : handler'[s] = handler[s]
      /\ handler'[a].pc = "idle"
  BY OthersStay DEF MergeTony
<1> QED
  BY <1>1, <1>2, <1>3, <1>4 DEF Aside, ThreadStep, MergeTony, At, InTransaction

\* Austin's request finds its target.
LEMMA ChooseTargetAside == ASSUME Pieces, Base, ChooseTarget PROVE Aside("Austin")
<1> USE ThreadFacts
<1>1. SameSetup /\ SaveOrNot
  BY SetupKept DEF ChooseTarget, SaveOrNot
<1>2. SameRound(project', project)
  BY DEF ChooseTarget, SameRound
<1>3. Target \in Ref /\ project.verdict.on \in Ref
  BY EvidenceTyped DEF Sound, ProjectState, ProjectRecord, Verdict, Pieces, OtherTypes
<1>4. /\ \A s \in Threads \ {"Austin"} : handler'[s] = handler[s]
      /\ handler'["Austin"].pc \in {"request", "fastgate", "idle"}
  BY <1>3, PCFacts, OthersStay DEF ChooseTarget
<1> QED
  BY <1>1, <1>2, <1>4 DEF Aside, ThreadStep, ChooseTarget, At, InTransaction, GoalPCs

\* The gate before a request.
LEMMA GateRequestAside == ASSUME Pieces, Base, GateRequest PROVE Aside("Austin")
<1> USE ThreadFacts
<1>1. SameSetup /\ SaveOrNot
  BY SetupKept DEF GateRequest, SaveOrNot
<1>2. SameRound(project', project)
  BY DEF GateRequest, SameRound
<1>3. /\ \A s \in Threads \ {"Austin"} : handler'[s] = handler[s]
      /\ handler'["Austin"].pc \in {"request", "idle"}
  BY PCFacts, OthersStay DEF GateRequest
<1> QED
  BY <1>1, <1>2, <1>3 DEF Aside, ThreadStep, GateRequest, At, InTransaction, GoalPCs

\* The request recorded.
LEMMA RecordRequestAside == ASSUME Pieces, Base, RecordRequest PROVE Aside("Austin")
<1> USE ThreadFacts
<1>1. SameSetup /\ SaveOrNot
  BY SetupKept DEF RecordRequest, Mutate, SaveOrNot
<1>2. SameRound(project', project)
  <2>1. CASE CanSetReady(project, "Austin", TRUE, handler["Austin"].ref)
    BY <2>1, SetReadyRound DEF RecordRequest, Mutate
  <2>2. CASE ~CanSetReady(project, "Austin", TRUE, handler["Austin"].ref)
    BY <2>2 DEF RecordRequest, SameRound
  <2> QED
    BY <2>1, <2>2
<1>3. /\ \A s \in Threads \ {"Austin"} : handler'[s] = handler[s]
      /\ handler'["Austin"].pc = "idle"
  BY OthersStay DEF RecordRequest
<1>4. project.mode = "FAST" /\ project.phase = "DONE" => disk' = disk
  BY DEF RecordRequest, CanSetReady, CanRequest
<1> QED
  BY <1>1, <1>2, <1>3, <1>4 DEF Aside, ThreadStep, RecordRequest, At, InTransaction, GoalPCs

\* Tony's verdict begins.
LEMMA BeginVerifyAside == ASSUME Pieces, Base, BeginVerify PROVE Aside("Tony")
<1> USE ThreadFacts
<1>1. SameSetup /\ SaveOrNot
  BY SetupKept DEF BeginVerify, Mutate, SaveOrNot
<1>2. SameRound(project', project) /\ project.phase # "DONE"
  <2>1. SameRound(project, project)
    BY DEF SameRound
  <2> QED
    BY <2>1, RevokeRound DEF BeginVerify, Mutate
<1>3. Target \in Ref
  BY EvidenceTyped DEF Pieces, OtherTypes
<1>4. /\ \A s \in Threads \ {"Tony"} : handler'[s] = handler[s]
      /\ handler'["Tony"].pc \in {"vgate", "pass", "issue", "idle"}
  BY <1>3, PCFacts, OthersStay DEF BeginVerify, At
<1> QED
  BY <1>1, <1>2, <1>4 DEF Aside, ThreadStep, BeginVerify, At, InTransaction, GoalPCs

\* The gate before the verdict.
LEMMA GateVerdictAside == ASSUME Pieces, Base, GateVerdict PROVE Aside("Tony")
<1> USE ThreadFacts
<1>1. SameSetup /\ SaveOrNot
  BY SetupKept DEF GateVerdict, SaveOrNot
<1>2. SameRound(project', project)
  BY DEF GateVerdict, SameRound
<1>3. /\ \A s \in Threads \ {"Tony"} : handler'[s] = handler[s]
      /\ handler'["Tony"].pc \in {"pass", "idle"}
  BY PCFacts, OthersStay DEF GateVerdict
<1> QED
  BY <1>1, <1>2, <1>3 DEF Aside, ThreadStep, GateVerdict, At, InTransaction, GoalPCs

\* The verdict recorded.
LEMMA RecordVerdictAside ==
  ASSUME Pieces, Base, NEW pc \in {"pass", "issue"}, RecordVerdict(pc) PROVE Aside("Tony")
<1> USE ThreadFacts
<1> DEFINE result == IF pc = "pass" THEN "passed" ELSE "issue"
<1>1. SameSetup /\ SaveOrNot
  BY SetupKept DEF RecordVerdict, Mutate, SaveOrNot
<1>2. SameRound(project', project) /\ (project.phase = "DONE" => disk' = disk)
  <2>1. CASE CanSetVerification(project, result, handler["Tony"].ref)
    <3>1. project' = SetVerification(project, result)
      BY <2>1 DEF RecordVerdict, Mutate
    <3>2. result \in {"passed", "issue"}
      OBVIOUS
    <3> QED
      BY <2>1, <3>1, <3>2, VerdictRound DEF CanSetVerification
  <2>2. CASE ~CanSetVerification(project, result, handler["Tony"].ref)
    BY <2>2 DEF RecordVerdict, SameRound
  <2> QED
    BY <2>1, <2>2
<1>3. /\ \A s \in Threads \ {"Tony"} : handler'[s] = handler[s]
      /\ handler'["Tony"].pc \in {"deliver", "idle"}
  BY PCFacts, OthersStay DEF RecordVerdict
<1> QED
  BY <1>1, <1>2, <1>3 DEF Aside, ThreadStep, RecordVerdict, At, InTransaction, GoalPCs

----------------------------------------------------------------------------
(***************************************************************************)
(* The steps that do not stay aside, each by what it does.                 *)
(***************************************************************************)
\* The record of a finished round is dropped: a task of the human, a new head of Austin's.
Drops(t) ==
  /\ t \in {"Human", "Austin"} /\ ThreadStep(t) /\ project.phase = "DONE"
  /\ handler[t].pc = "idle" /\ handler'[t].pc = "reopen"
  /\ delivery' = NoDelivery /\ budget.rounds > 0
  /\ t = "Austin" => project.mode = "FAST"
  /\ UNCHANGED <<project, disk, git, repo, txn, approved, gated>>

\* Asking for a hand-off opens a round where there is none, and drops the old record with it.
LEMMA BeginRequestKinds ==
  ASSUME Pieces, Base, BeginRequest
  PROVE  \/ Aside("Austin") /\ handler'["Austin"].pc = "target"
         \/ Drops("Austin")
<1> USE ThreadFacts
<1>1. SameSetup /\ SaveOrNot
  BY SetupKept DEF BeginRequest, SaveOrNot
<1>2. SameRound(project', project)
  BY DEF BeginRequest, SameRound
<1>3. CASE Goto("Austin", "target") /\ UNCHANGED <<delivery, budget>>
  <2>1. /\ \A s \in Threads \ {"Austin"} : handler'[s] = handler[s]
        /\ handler'["Austin"].pc = "target"
    BY <1>3, PCFacts, OthersStay
  <2> QED
    BY <1>1, <1>2, <1>3, <2>1 DEF Aside, ThreadStep, BeginRequest, At, InTransaction, GoalPCs
<1>4. CASE /\ project.phase = "DONE" /\ Spend("rounds") /\ delivery' = NoDelivery
           /\ Goto("Austin", "reopen")
  <2>1. /\ \A s \in Threads \ {"Austin"} : handler'[s] = handler[s]
        /\ handler'["Austin"].pc = "reopen"
    BY <1>4, PCFacts, OthersStay
  <2> QED
    BY <1>1, <1>4, <2>1, SetupKept DEF Drops, ThreadStep, BeginRequest, At
<1> QED
  BY <1>3, <1>4 DEF BeginRequest

\* The human's task clears the record of the delivery before.
LEMMA SubmitTaskDrops == ASSUME Pieces, Base, SubmitTask PROVE Drops("Human")
<1> USE ThreadFacts
<1>1. SameSetup /\ SaveOrNot /\ budget.rounds > 0
  BY SetupKept DEF SubmitTask, SaveOrNot
<1>2. /\ \A s \in Threads \ {"Human"} : handler'[s] = handler[s]
      /\ handler'["Human"].pc = "reopen"
  BY PCFacts, OthersStay DEF SubmitTask, Threads
<1> QED
  BY <1>1, <1>2 DEF Drops, ThreadStep, SubmitTask, At

\* reopenFinishedSession: the next round begins, unless another call began it.
Reopens(t) ==
  /\ t \in {"Human", "Austin"} /\ ThreadStep(t)
  /\ handler[t].pc = "reopen"
  /\ handler'[t].pc = IF t = "Austin" THEN "target" ELSE "idle"
  /\ \/ /\ project.phase = "DONE" /\ project'.phase \notin {"DONE", "INTEGRATE"}
        /\ project'.mode = project.mode
        /\ project.mode = "FAST" => project'.verdict.status # "passed"
     \/ project.phase # "DONE" /\ project' = project /\ disk' = disk
  /\ UNCHANGED <<delivery, git, repo, txn, approved, gated>>

\* What reopens a round writes the fresh project, or finds the round open already.
LEMMA ReopenRoundKind ==
  ASSUME Pieces, Base, NEW t \in {"Human", "Austin"}, ReopenRound(t)
  PROVE  Reopens(t)
<1> USE ThreadFacts
<1>1. SameSetup /\ SaveOrNot
  BY SetupKept DEF ReopenRound, Mutate, SaveOrNot
<1>2. /\ \A s \in Threads \ {t} : handler'[s] = handler[s]
      /\ handler'[t].pc = IF t = "Austin" THEN "target" ELSE "idle"
  BY PCFacts, OthersStay DEF ReopenRound, Threads
<1>3. CASE CanReopen(project)
  <2>1. project' = Reopen(project)
    BY <1>3 DEF ReopenRound, Mutate
  <2>2. /\ Reopen(project).phase \notin {"DONE", "INTEGRATE"}
        /\ Reopen(project).mode = project.mode
    BY DEF Reopen, ResetApprovals, Sound, ProjectState, ProjectRecord
  <2>3. project.mode = "FAST" => Reopen(project).verdict.status # "passed"
    BY DEF Reopen, ResetApprovals, Sound, ProjectState, ProjectRecord, NoVerdict
  <2> QED
    BY <1>1, <1>2, <1>3, <2>1, <2>2, <2>3 DEF Reopens, ThreadStep, ReopenRound, At, CanReopen
<1>4. CASE ~CanReopen(project)
  BY <1>1, <1>2, <1>4 DEF Reopens, ThreadStep, ReopenRound, At, CanReopen
<1> QED
  BY <1>3, <1>4

----------------------------------------------------------------------------
(***************************************************************************)
(* Base is inductive.                                                      *)
(***************************************************************************)
Alone(t) == \A s \in Threads \ {t} : handler[s].pc \notin InTransaction

\* A thread that nobody else's transaction depends on answers for itself.
LEMMA AloneBase ==
  ASSUME Pieces, Base, NEW t \in Threads, ThreadStep(t), Alone(t),
         project'.mode = project.mode,
         handler'[t].pc \in InTransaction => txn' = t /\ project'.phase # "DONE",
         handler'[t].pc = "check" => ~IsApplied(delivery'),
         handler'[t].pc \in {"settle", "finish"} => IsApplied(delivery'),
         handler'[t].pc = "land" =>
           delivery' = Pending(handler'[t].ref) /\ disk'.delivery = delivery',
         t = "Human" => handler'[t].pc \in {"idle", "reopen"},
         budget.mode = "FAST" => handler'[t].pc \notin GoalPCs
  PROVE  Base'
<1>1. \A s \in Threads : s # t => handler'[s] = handler[s] /\ handler'[s].pc \notin InTransaction
  BY DEF ThreadStep, Alone
<1>2. Locked'
  BY <1>1 DEF Locked, ThreadStep, InTransaction
<1>3. OneMode'
  BY <1>1 DEF Base, OneMode, ThreadStep, SaveOrNot, SameSetup, Threads
<1>4. Noted'
  BY <1>1 DEF Noted, ThreadStep, InTransaction
<1> QED
  BY <1>2, <1>3, <1>4 DEF Base

\* A step aside leaves every transaction as it was.
LEMMA AsideBase ==
  ASSUME Pieces, Base, NEW t \in Agents, Aside(t)
  PROVE  Base'
<1>1. \A s \in Threads : handler'[s].pc \in InTransaction \cup {"reopen"} => handler'[s] = handler[s]
  BY DEF Aside, ThreadStep
<1>2. Locked'
  BY <1>1 DEF Base, Locked, Aside, ThreadStep, InTransaction, SameRound
<1>3. OneMode'
  BY DEF Base, OneMode, Aside, ThreadStep, SaveOrNot, SameSetup, SameRound, Threads
<1>4. Noted'
  BY <1>1 DEF Base, Noted, Aside, ThreadStep, InTransaction, SaveOrNot
<1> QED
  BY <1>2, <1>3, <1>4 DEF Base

\* In DONE nobody is in the transaction.
LEMMA DropsBase == ASSUME Pieces, Base, NEW t, Drops(t) PROVE Base'
<1>1. t \in Threads /\ Alone(t)
  BY DEF Drops, Alone, Base, Locked, Threads
<1> QED
  BY <1>1, AloneBase DEF Drops, GoalPCs, InTransaction

\* A reopened round keeps Base.
LEMMA ReopensBase == ASSUME Pieces, Base, NEW t, Reopens(t) PROVE Base'
<1>1. t \in Threads
  BY DEF Reopens, Threads
<1>2. CASE project.phase = "DONE"
  <2>1. Alone(t)
    BY <1>2 DEF Alone, Base, Locked
  <2> QED
    BY <1>1, <1>2, <2>1, AloneBase DEF Reopens, GoalPCs, InTransaction
<1>3. CASE project.phase # "DONE"
  <2>1. \A s \in Threads : handler'[s].pc \in InTransaction => handler'[s] = handler[s]
    BY DEF Reopens, ThreadStep, InTransaction
  <2>2. Locked'
    BY <1>3, <2>1 DEF Base, Locked, Reopens, ThreadStep, InTransaction
  <2>3. OneMode'
    BY <1>3 DEF Base, OneMode, Reopens, ThreadStep, SameSetup, Threads, GoalPCs
  <2>4. Noted'
    BY <1>3, <2>1 DEF Base, Noted, Reopens, ThreadStep, InTransaction
  <2> QED
    BY <2>2, <2>3, <2>4 DEF Base
<1> QED
  BY <1>2, <1>3

\* Who is in the transaction holds its lock, and is alone there.
LEMMA HolderAlone ==
  ASSUME Base, NEW t \in Agents
  PROVE  /\ handler[t].pc \in InTransaction => Alone(t) /\ txn = t /\ project.phase # "DONE"
         /\ txn = "free" => Alone(t)
BY DEF Base, Locked, Alone, Threads

\* A step inside the transaction.
Inside(a) ==
  /\ ThreadStep(a) /\ Alone(a) /\ project'.mode = project.mode
  /\ handler'[a].pc \in InTransaction => txn' = a
  /\ handler'[a].pc \in InTransaction \cup {"idle"}
  /\ project.phase # "DONE"

\* A step inside the transaction keeps Base, if the place it goes to is right about the record.
LEMMA InsideBase ==
  ASSUME Pieces, Base, NEW a \in Agents, Inside(a),
         handler'[a].pc \in InTransaction => project'.phase # "DONE",
         handler'[a].pc = "check" => ~IsApplied(delivery'),
         handler'[a].pc \in {"settle", "finish"} => IsApplied(delivery'),
         handler'[a].pc = "land" =>
           delivery' = Pending(handler'[a].ref) /\ disk'.delivery = delivery'
  PROVE  Base'
<1>1. a \in Threads /\ a # "Human"
  BY DEF Threads
<1>2. handler'[a].pc \notin GoalPCs
  BY DEF Inside, GoalPCs, InTransaction
<1> QED
  BY <1>1, <1>2, AloneBase DEF Inside

\* Who enters the transaction is alone in it, in an open round.
LEMMA EnterDeliveryInside ==
  ASSUME Pieces, Base, NEW a \in Agents, EnterDelivery(a)
  PROVE  /\ ThreadStep(a) /\ Alone(a)
         /\ \/ handler'[a].pc = "idle"
            \/ /\ handler'[a].pc = "settle" /\ txn' = a /\ IsApplied(delivery)
               /\ project.phase \in {"INTEGRATE", "VERIFY"}
            \/ /\ handler'[a].pc = "check" /\ txn' = a /\ ~IsApplied(delivery)
               /\ handler'[a].claims = Claims(project) /\ GateOpen(project)
<1> USE ThreadFacts
<1>1. ThreadStep(a) /\ Alone(a)
  <2>1. \A s \in Threads \ {a} : handler'[s] = handler[s]
    BY OthersStay, PCFacts DEF EnterDelivery, InTransaction
  <2> QED
    BY <2>1, HolderAlone, SetupKept DEF EnterDelivery, At, ThreadStep, SaveOrNot
<1>2. CASE Return(a)
  BY <1>1, <1>2, OthersStay
<1>3. CASE Goto(a, "settle") /\ IsApplied(delivery) /\ txn' = a
           /\ project.phase \in {"INTEGRATE", "VERIFY"}
  BY <1>1, <1>3, OthersStay, PCFacts DEF InTransaction
<1>4. CASE /\ ~IsApplied(delivery) /\ txn' = a /\ GateOpen(project)
           /\ handler' = [handler EXCEPT ![a] =
                             [@ EXCEPT !.pc = "check", !.claims = Claims(project)]]
  <2>1. handler'[a].pc = "check" /\ handler'[a].claims = Claims(project)
    BY <1>4 DEF HandlerState
  <2> QED
    BY <1>1, <1>4, <2>1
<1> QED
  BY <1>2, <1>3, <1>4 DEF EnterDelivery

\* Entering the transaction keeps Base.
LEMMA EnterDeliveryBase == ASSUME Pieces, Base, NEW a \in Agents, EnterDelivery(a) PROVE Base'
<1>1. a \in Threads /\ a # "Human" /\ project' = project /\ delivery' = delivery
  BY DEF Threads, EnterDelivery
<1>2. GateOpen(project) => project.phase # "DONE"
  BY DEF GateOpen
<1> QED
  BY <1>1, <1>2, EnterDeliveryInside, AloneBase DEF GoalPCs, InTransaction

\* Settling a hand-off that is recorded as applied ends the transaction, and the round if it may end.
LEMMA SettleAppliedInside ==
  ASSUME Pieces, Base, NEW a \in Agents, SettleApplied(a)
  PROVE  /\ Inside(a) /\ handler'[a].pc = "idle"
         /\ IsApplied(delivery) /\ delivery' = delivery /\ UNCHANGED <<git, repo, gated>>
         /\ \/ project' = Complete(project)
            \/ project' = project /\ disk' = disk
<1> USE ThreadFacts
<1>1. handler[a].pc = "settle" /\ Alone(a) /\ project.phase # "DONE" /\ IsApplied(delivery)
  BY HolderAlone DEF SettleApplied, At, InTransaction, Base, Locked
<1>2. /\ \A s \in Threads \ {a} : handler'[s] = handler[s]
      /\ handler'[a].pc = "idle"
  BY OthersStay DEF SettleApplied, Leave
<1>3. SameSetup /\ SaveOrNot
  BY SetupKept DEF SettleApplied, Mutate, SaveOrNot
<1>4. project'.mode = project.mode
  BY CompleteFacts DEF SettleApplied, Mutate
<1> QED
  BY <1>1, <1>2, <1>3, <1>4
  DEF Inside, ThreadStep, SettleApplied, Mutate, At, InTransaction

\* The check revokes a stale approval, goes on to land, or gives up over a failed save.
LEMMA CheckApprovalsInside ==
  ASSUME Pieces, Base, NEW a \in Agents, CheckApprovals(a)
  PROVE  /\ Inside(a) /\ UNCHANGED <<git, repo, gated>> /\ handler[a].pc = "check"
         /\ \/ /\ \E b \in Agents : project' = RevokeReady(project, b)
               /\ delivery' = delivery /\ handler'[a].pc = "mark" /\ handler'[a].ref = NoRef
            \/ /\ Agreed(a) /\ project' = project /\ delivery' = Pending(Target)
               /\ \/ /\ handler'[a].pc = "land" /\ handler'[a].ref = Target
                     /\ disk' = [project |-> project', delivery |-> delivery']
                  \/ handler'[a].pc = "idle" /\ disk' = disk
<1> USE ThreadFacts
<1>1. handler[a].pc = "check" /\ Alone(a) /\ project.phase # "DONE" /\ ~IsApplied(delivery) /\ txn = a
  BY HolderAlone DEF CheckApprovals, At, InTransaction, Base, Locked
<1>2. Target \in Ref
  BY EvidenceTyped DEF Pieces, OtherTypes
<1>3. CASE /\ \E b \in Agents : Mutate(RevokeReady(project, b))
           /\ GotoWith(a, "mark", NoRef) /\ UNCHANGED <<delivery, txn>>
  <2>1. /\ \A s \in Threads \ {a} : handler'[s] = handler[s]
        /\ handler'[a].pc = "mark" /\ handler'[a].ref = NoRef
    BY <1>3, OthersStay, PCFacts, RefFacts DEF InTransaction
  <2>2. SameSetup /\ SaveOrNot
    BY <1>3, SetupKept DEF Mutate, SaveOrNot
  <2>3. \E b \in Agents : project' = RevokeReady(project, b)
    BY <1>3 DEF Mutate
  <2>4. project'.mode = project.mode
    BY <2>3, RevokeRound DEF SameRound
  <2> QED
    BY <1>1, <1>3, <2>1, <2>2, <2>3, <2>4
    DEF Inside, ThreadStep, CheckApprovals, At, InTransaction
<1>4. CASE /\ Agreed(a) /\ delivery' = WithDelivery(Pending(Target))
           /\ \/ Saved(project, delivery') /\ GotoWith(a, "land", Target) /\ UNCHANGED txn
              \/ SaveFails /\ Leave(a)
           /\ UNCHANGED project
  <2>1. delivery' = Pending(Target)
    BY <1>1, <1>4 DEF WithDelivery
  <2>2. SameSetup /\ SaveOrNot
    BY <1>4, SetupKept DEF SaveOrNot
  <2>3. CASE Saved(project, delivery') /\ GotoWith(a, "land", Target) /\ UNCHANGED txn
    <3>1. /\ \A s \in Threads \ {a} : handler'[s] = handler[s]
          /\ handler'[a].pc = "land" /\ handler'[a].ref = Target
      BY <1>2, <2>3, OthersStay, PCFacts DEF InTransaction
    <3> QED
      BY <1>1, <1>4, <2>1, <2>2, <2>3, <3>1
      DEF Inside, ThreadStep, CheckApprovals, At, InTransaction, Saved
  <2>4. CASE SaveFails /\ Leave(a)
    <3>1. /\ \A s \in Threads \ {a} : handler'[s] = handler[s]
          /\ handler'[a].pc = "idle"
      BY <2>4, OthersStay DEF Leave
    <3> QED
      BY <1>1, <1>4, <2>1, <2>2, <2>4, <3>1
      DEF Inside, ThreadStep, CheckApprovals, At, InTransaction, SaveFails
  <2> QED
    BY <1>4, <2>3, <2>4
<1>5. \E b \in Agents : b = IF handler[a].claims["Austin"] # Target THEN "Austin" ELSE "Tony"
  OBVIOUS
<1> QED
  BY <1>3, <1>4, <1>5 DEF CheckApprovals

\* Landing moves the user's branch and goes on to record it, or meets an obstacle.
LEMMA LandInside ==
  ASSUME Pieces, Base, NEW a \in Agents, Land(a)
  PROVE  /\ Inside(a) /\ UNCHANGED <<project, delivery, disk, git, gated>>
         /\ handler[a].pc = "land" /\ handler'[a].ref = handler[a].ref
         /\ handler'[a].pc \in {"resolve", "mark"}
         /\ repo'.head # repo.head => repo'.head = handler[a].ref.of
<1> USE ThreadFacts
<1>1. handler[a].pc = "land" /\ Alone(a) /\ project.phase # "DONE" /\ txn = a
  BY HolderAlone DEF Land, At, InTransaction, Base, Locked
<1>2. /\ \A s \in Threads \ {a} : handler'[s] = handler[s]
      /\ handler'[a].pc \in {"resolve", "mark"} /\ handler'[a].ref = handler[a].ref
  BY OthersStay, PCFacts DEF Land, InTransaction
<1>3. repo'.head # repo.head => repo'.head = handler[a].ref.of
  BY DEF Land, FastForward, Pieces, OtherTypes
<1> QED
  BY <1>1, <1>2, <1>3, SetupKept DEF Inside, ThreadStep, Land, At, InTransaction, SaveOrNot

\* What landed is recorded next, whatever became of the save before.
LEMMA ResolveConflictInside ==
  ASSUME Pieces, Base, NEW a \in Agents, ResolveConflict(a)
  PROVE  /\ Inside(a) /\ UNCHANGED <<project, delivery, git, repo, gated>>
         /\ handler[a].pc = "resolve"
         /\ handler'[a].pc = "record" /\ handler'[a].ref = handler[a].ref
<1> USE ThreadFacts
<1>1. handler[a].pc = "resolve" /\ Alone(a) /\ project.phase # "DONE" /\ txn = a
  BY HolderAlone DEF ResolveConflict, At, InTransaction, Base, Locked
<1>2. /\ \A s \in Threads \ {a} : handler'[s] = handler[s]
      /\ handler'[a].pc = "record" /\ handler'[a].ref = handler[a].ref
  BY OthersStay, PCFacts DEF ResolveConflict, InTransaction
<1>3. SameSetup /\ SaveOrNot
  BY SetupKept DEF ResolveConflict, SaveOrNot
<1> QED
  BY <1>1, <1>2, <1>3 DEF Inside, ThreadStep, ResolveConflict, At, InTransaction

\* Recording what landed goes on to finish, with the record applied, unless the save fails.
LEMMA RecordAppliedInside ==
  ASSUME Pieces, Base, NEW a \in Agents, RecordApplied(a)
  PROVE  /\ Inside(a) /\ UNCHANGED <<project, git, repo, gated>>
         /\ handler[a].pc = "record" /\ delivery' = Applied(handler[a].ref)
         /\ \/ handler'[a].pc = "finish" /\ handler'[a].ref = handler[a].ref
            \/ handler'[a].pc = "idle"
<1> USE ThreadFacts
<1>1. handler[a].pc = "record" /\ Alone(a) /\ project.phase # "DONE" /\ txn = a
  BY HolderAlone DEF RecordApplied, At, InTransaction, Base, Locked
<1>2. /\ \A s \in Threads \ {a} : handler'[s] = handler[s]
      /\ \/ handler'[a].pc = "finish" /\ handler'[a].ref = handler[a].ref /\ txn' = txn
         \/ handler'[a].pc = "idle"
  BY OthersStay, PCFacts DEF RecordApplied, Leave, InTransaction
<1>3. SameSetup /\ SaveOrNot
  BY SetupKept DEF RecordApplied, SaveOrNot
<1> QED
  BY <1>1, <1>2, <1>3 DEF Inside, ThreadStep, RecordApplied, At, InTransaction

\* Finishing ends the round, or finds it changed and marks the delivery pending.
LEMMA FinishRoundInside ==
  ASSUME Pieces, Base, NEW a \in Agents, FinishRound(a)
  PROVE  /\ Inside(a) /\ UNCHANGED <<delivery, git, repo, gated>>
         /\ handler[a].pc = "finish" /\ IsApplied(delivery)
         /\ \/ handler'[a].pc = "idle" /\ project' = Complete(project)
            \/ /\ handler'[a].pc = "mark" /\ handler'[a].ref = handler[a].ref
               /\ UNCHANGED <<project, disk>>
<1> USE ThreadFacts
<1>1. handler[a].pc = "finish" /\ Alone(a) /\ project.phase # "DONE" /\ txn = a /\ IsApplied(delivery)
  BY HolderAlone DEF FinishRound, At, InTransaction, Base, Locked
<1>2. /\ \A s \in Threads \ {a} : handler'[s] = handler[s]
      /\ \/ handler'[a].pc = "idle" /\ project' = Complete(project)
         \/ /\ handler'[a].pc = "mark" /\ handler'[a].ref = handler[a].ref /\ txn' = txn
            /\ UNCHANGED <<project, disk>>
  BY OthersStay, PCFacts DEF FinishRound, Leave, InTransaction, Mutate
<1>3. SameSetup /\ SaveOrNot
  BY SetupKept DEF FinishRound, Mutate, SaveOrNot
<1>4. project'.mode = project.mode
  BY <1>2, CompleteFacts
<1> QED
  BY <1>1, <1>2, <1>3, <1>4 DEF Inside, ThreadStep, FinishRound, At, InTransaction

\* Marking a delivery pending ends the transaction and names no other revision.
LEMMA MarkPendingInside ==
  ASSUME Pieces, Base, NEW a \in Agents, MarkPending(a)
  PROVE  /\ Inside(a) /\ UNCHANGED <<project, git, repo, gated>>
         /\ handler[a].pc = "mark" /\ handler'[a].pc = "idle"
         /\ delivery' = delivery \/ delivery' = Pending(handler[a].ref)
<1> USE ThreadFacts
<1>1. handler[a].pc = "mark" /\ Alone(a) /\ project.phase # "DONE" /\ txn = a
  BY HolderAlone DEF MarkPending, At, InTransaction, Base, Locked
<1>2. /\ \A s \in Threads \ {a} : handler'[s] = handler[s]
      /\ handler'[a].pc = "idle"
  BY OthersStay DEF MarkPending, Leave
<1>3. SameSetup /\ SaveOrNot
  BY SetupKept DEF MarkPending, SaveOrNot
<1>4. delivery' = delivery \/ delivery' = Pending(handler[a].ref)
  BY DEF MarkPending, WithDelivery
<1> QED
  BY <1>1, <1>2, <1>3, <1>4 DEF Inside, ThreadStep, MarkPending, At, InTransaction

Transaction(a) ==
  \/ SettleApplied(a) \/ CheckApprovals(a) \/ Land(a) \/ ResolveConflict(a)
  \/ RecordApplied(a) \/ FinishRound(a) \/ MarkPending(a)

\* Every step of the transaction is inside it and keeps Base.
LEMMA TransactionBase ==
  ASSUME Pieces, Base, NEW a \in Agents, Transaction(a)
  PROVE  Base' /\ Inside(a)
<1>0. InTransaction = {"settle", "check", "land", "resolve", "record", "finish", "mark"}
  BY DEF InTransaction
<1>1. CASE SettleApplied(a)
  BY <1>0, <1>1, SettleAppliedInside, InsideBase
<1>2. CASE CheckApprovals(a)
  <2>1. \A b \in Agents : RevokeReady(project, b).phase = "DONE" <=> project.phase = "DONE"
    BY ThreadFacts, RevokeRound DEF SameRound
  <2>2. project'.phase # "DONE" /\ Inside(a)
    BY <1>2, <2>1, CheckApprovalsInside DEF Inside
  <2> QED
    BY <1>0, <1>2, <2>2, CheckApprovalsInside, InsideBase
<1>3. CASE Land(a)
  BY <1>0, <1>3, LandInside, InsideBase DEF Inside
<1>4. CASE ResolveConflict(a)
  BY <1>0, <1>4, ResolveConflictInside, InsideBase DEF Inside
<1>5. CASE RecordApplied(a)
  BY <1>0, <1>5, RecordAppliedInside, InsideBase DEF Inside, IsApplied, Applied
<1>6. CASE FinishRound(a)
  BY <1>0, <1>6, FinishRoundInside, InsideBase DEF Inside
<1>7. CASE MarkPending(a)
  BY <1>0, <1>7, MarkPendingInside, InsideBase
<1> QED
  BY <1>1, <1>2, <1>3, <1>4, <1>5, <1>6, <1>7 DEF Transaction

----------------------------------------------------------------------------
\* Reconcile keeps the mode, ends no round, and passes no verdict.
LEMMA ReconcileFacts ==
  ASSUME NEW p, Sound(p)
  PROVE  /\ Reconcile(p).mode = p.mode
         /\ Reconcile(p).phase = "DONE" => p.phase = "DONE"
         /\ p.mode = "GOAL" => Reconcile(p).phase \in {p.phase, "INTEGRATE"}
         /\ Reconcile(p).verdict.status = "passed" => Reconcile(p).verdict = p.verdict
<1> DEFINE x == [p EXCEPT !.phase = RecoveredPhase(p)]
           c == IF VerdictLost(x)
                THEN [x EXCEPT !.phase = "RUNNING", !.verdict = NoVerdict] ELSE x
           q == Reconcile(p)
           rec == {"mode", "phase", "plan", "version", "ready", "evidence", "verdict"}
<1>1. RecoveredPhase(p) \in {p.phase, "INTEGRATE"}
  BY DEF RecoveredPhase
<1>2. p \in ProjectRecord
  BY DEF Sound, ProjectState
<1>3. DOMAIN p = rec
  BY <1>2 DEF ProjectRecord
<1>4. /\ DOMAIN x = rec /\ x.mode = p.mode /\ x.verdict = p.verdict
      /\ x.phase \in {p.phase, "INTEGRATE"}
  BY <1>1, <1>3
<1> HIDE DEF x
<1>5. /\ DOMAIN c = rec /\ c.mode = p.mode
      /\ c.phase = x.phase \/ (c.phase = "RUNNING" /\ c.mode = "FAST")
      /\ c.verdict = p.verdict \/ c.verdict.status = "none"
  BY <1>4 DEF VerdictLost, NoVerdict
<1> HIDE DEF c
<1>6. q = [c EXCEPT !.ready = [a \in Agents |-> c.ready[a] /\ ~Stale(c, a)],
                    !.evidence = [a \in Agents |-> IF Stale(c, a) THEN NoRef ELSE c.evidence[a]]]
  BY DEF Reconcile, c, x
<1>7. q.mode = c.mode /\ q.phase = c.phase /\ q.verdict = c.verdict
  BY <1>5, <1>6
<1> HIDE DEF q
<1>8. q.mode = p.mode /\ (q.phase = "DONE" => p.phase = "DONE")
      /\ (p.mode = "GOAL" => q.phase \in {p.phase, "INTEGRATE"})
      /\ (q.verdict.status = "passed" => q.verdict = p.verdict)
  BY <1>4, <1>5, <1>7
<1> QED
  BY <1>8 DEF q

\* A step with no coordinator live.
OfflineStay ==
  /\ proc # "live" /\ SameSetup /\ SaveOrNot
  /\ project'.mode = project.mode
  /\ UNCHANGED <<git, handler, txn, gated>>

\* A step without a live coordinator keeps Base, if what it is to land is the checkpoint's record.
LEMMA OfflineBase ==
  ASSUME Pieces, Base, OfflineStay,
         proc' = "landing" => delivery' = Pending(delivery'.head) /\ disk'.delivery = delivery'
  PROVE  Base'
<1>1. \A t \in Threads : handler'[t].pc = "idle"
  BY DEF OfflineStay, Base, Locked
<1>2. Locked'
  BY <1>1 DEF Locked, InTransaction
<1>3. OneMode'
  BY <1>1 DEF OneMode, GoalPCs, Threads, Base, OfflineStay, SameSetup, SaveOrNot
<1>4. Noted'
  BY <1>1 DEF Noted
<1> QED
  BY <1>2, <1>3, <1>4 DEF Base

\* A loaded file is in the session's mode.
LEMMA OfflineKinds ==
  ASSUME Pieces, Base
  PROVE  /\ CloseWindow =>
              \/ /\ project' = Complete(project) /\ delivery' = delivery
                 /\ disk' = [project |-> project', delivery |-> delivery'] /\ proc' = "down"
                 /\ IsApplied(delivery) /\ project.phase \in {"INTEGRATE", "VERIFY"}
              \/ /\ project' = disk.project /\ delivery' = disk.delivery /\ disk' = disk
                 /\ proc' = "refused"
         /\ BeginHandOff =>
              \/ /\ Deliverable(project, delivery)
                 /\ project' = project /\ delivery' = Pending(FinalHead(delivery))
                 /\ disk' = [project |-> project', delivery |-> delivery'] /\ proc' = "landing"
              \/ /\ project' = disk.project /\ delivery' = disk.delivery /\ disk' = disk
                 /\ proc' = "refused"
BY DEF CloseWindow, BeginHandOff, Load

\* Recovery runs without handlers, in the mode the session has.
LEMMA RecoveryStay ==
  ASSUME Pieces, Base, Recovery
  PROVE  OfflineStay
<1> USE OfflineFacts
<1>1. SameSetup
  BY SetupKept DEF Recovery, Resume, ReconcileDelivery, Apply, OfflineLand, OfflineRecord
<1>2. CloseWindow \/ BeginHandOff => SaveOrNot /\ project'.mode = project.mode
  BY OfflineKinds, CompleteFacts DEF SaveOrNot, Base, OneMode
<1>3. CASE Resume
  BY <1>1, <1>3, ReconcileFacts DEF Resume, Load, OfflineStay, SaveOrNot
<1>4. CASE ReconcileDelivery
  BY <1>1, <1>2, <1>4 DEF ReconcileDelivery, OfflineStay, SaveOrNot
<1>5. CASE Apply
  BY <1>1, <1>2, <1>5 DEF Apply, OfflineStay
<1>6. CASE OfflineLand
  BY <1>1, <1>6 DEF OfflineLand, OfflineStay, SaveOrNot
<1>7. CASE OfflineRecord
  <2>1. CompletedIfWorking(project).mode = project.mode
    BY CompleteFacts DEF CompletedIfWorking
  <2> QED
    BY <1>1, <1>7, <2>1 DEF OfflineRecord, Load, OfflineStay, SaveOrNot
<1> QED
  BY <1>3, <1>4, <1>5, <1>6, <1>7 DEF Recovery

\* Recovery keeps Base: it lands nothing but the pending record of the checkpoint.
LEMMA RecoveryBase ==
  ASSUME Pieces, Base, Recovery
  PROVE  Base'
<1>1. CloseWindow => proc' # "landing"
  BY OfflineKinds
<1>2. BeginHandOff /\ proc' = "landing" =>
        delivery' = Pending(delivery'.head) /\ disk'.delivery = delivery'
  BY OfflineKinds DEF Pending
<1>3. proc' = "landing" => delivery' = Pending(delivery'.head) /\ disk'.delivery = delivery'
  BY <1>1, <1>2 DEF Recovery, Resume, ReconcileDelivery, Apply, OfflineLand, OfflineRecord
<1> QED
  BY <1>3, RecoveryStay, OfflineBase

\* A crash ends every handler and keeps Base.
LEMMA CrashBase ==
  ASSUME Pieces, Base, Crash
  PROVE  Base' /\ SameSetup
<1>1. SameSetup /\ \A t \in Threads : handler'[t].pc = "idle"
  BY SetupKept DEF Crash, Idle
<1>2. Locked'
  BY <1>1 DEF Crash, Locked, InTransaction
<1>3. OneMode'
  BY <1>1 DEF Crash, Load, OneMode, GoalPCs, Threads, Base, SameSetup
<1>4. Noted'
  BY <1>1 DEF Crash, Noted
<1> QED
  BY <1>1, <1>2, <1>3, <1>4 DEF Base

\* Commits, edits and the user's repository leave the coordinator alone.
Still == UNCHANGED <<project, delivery, disk, handler, txn, proc, gated, budget>>

\* Commits, edits and the user's own checkout leave project, record and checkpoint alone.
LEMMA EnvironmentStill ==
  ASSUME Pieces, Environment
  PROVE  Still /\ repo'.head = repo.head
BY DEF Environment, Commit, Edit, Discard, StartMerge, ToggleRepo, Still, Pieces, OtherTypes

\* So they keep Base.
LEMMA StillBase == ASSUME Base, Still PROVE Base'
BY DEF Still, Base, Locked, OneMode, Noted

----------------------------------------------------------------------------
\* Every step is of one of these kinds.
AsideStep ==
  \E a \in Agents :
    \/ SubmitPlan(a) \/ BeginSign(a) \/ Withdraw(a)
    \/ RevokeStale(a) \/ TakeEvidence(a) \/ RecordSignature(a) \/ RunGate(a) \/ MergeTony(a)

AsideFast ==
  \/ ChooseTarget \/ GateRequest \/ RecordRequest
  \/ BeginVerify \/ GateVerdict \/ RecordVerdict("pass") \/ RecordVerdict("issue")

\* What the agents do outside the transaction is Aside.
LEMMA AsideKinds ==
  ASSUME Pieces, Base
  PROVE  /\ AsideStep => \E a \in Agents : Aside(a)
         /\ AsideFast => \E a \in Agents : Aside(a)
<1>1. AsideStep => \E a \in Agents : Aside(a)
  BY SubmitPlanAside, BeginSignAside, WithdrawAside, RevokeStaleAside, TakeEvidenceAside,
     RecordSignatureAside, RunGateAside, MergeTonyAside
  DEF AsideStep
<1>2. AsideFast => \E a \in Agents : Aside(a)
  BY ChooseTargetAside, GateRequestAside, RecordRequestAside, BeginVerifyAside,
     GateVerdictAside, RecordVerdictAside
  DEF AsideFast
<1> QED
  BY <1>1, <1>2

\* The kinds a step can be of, in a session whose mode is not switched.
LEMMA NextKinds ==
  ASSUME Pieces, Base, Steady, [Next]_vars
  PROVE  \/ AsideStep \/ AsideFast
         \/ BeginRequest /\ (Aside("Austin") \/ Drops("Austin"))
         \/ Drops("Human")
         \/ \E t \in {"Human", "Austin"} : Reopens(t)
         \/ \E a \in Agents : EnterDelivery(a)
         \/ \E a \in Agents : Transaction(a)
         \/ Environment \/ Crash \/ Recovery
         \/ UNCHANGED vars
<1>1. \A m \in Modes : ~SwitchTo(m)
  BY DEF SwitchTo, Steady
<1>2. ~ClearRound
  BY DEF ClearRound, At, Base, OneMode
<1>3. BeginRequest => Aside("Austin") \/ Drops("Austin")
  BY BeginRequestKinds
<1>4. SubmitTask => Drops("Human")
  BY SubmitTaskDrops
<1>5. \A t \in {"Human", "Austin"} : ReopenRound(t) => Reopens(t)
  BY ReopenRoundKind
<1>6. \A a \in Agents : Proceed(a) => AsideStep \/ Transaction(a)
  BY DEF Proceed, AsideStep, Transaction
<1>7. CASE \E a \in Agents :
             SubmitPlan(a) \/ BeginSign(a) \/ Withdraw(a) \/ EnterDelivery(a) \/ Proceed(a)
  BY <1>6, <1>7 DEF AsideStep
<1>8. CASE BeginRequest \/ BeginVerify \/ ProceedFast
  BY <1>3, <1>8 DEF ProceedFast, AsideFast
<1>9. CASE (\E m \in Modes : SwitchTo(m)) \/ SubmitTask \/ ProceedRound
  BY <1>1, <1>2, <1>4, <1>5, <1>9 DEF ProceedRound
<1> QED
  BY <1>7, <1>8, <1>9 DEF Next

\* Every step keeps Base.
LEMMA NextBase ==
  ASSUME Pieces, Base, Steady, [Next]_vars
  PROVE  Base' /\ Steady'
<1> USE DEF Threads
<1>1. CASE \E a \in Agents : Aside(a)
  BY <1>1, AsideBase DEF Aside, ThreadStep, SameSetup, Steady
<1>2. CASE \E t \in {"Human", "Austin"} : Drops(t) \/ Reopens(t)
  BY <1>2, DropsBase, ReopensBase DEF Drops, Reopens, ThreadStep, SameSetup, Steady
<1>3. CASE \E a \in Agents : EnterDelivery(a)
  BY <1>3, EnterDeliveryBase, EnterDeliveryInside DEF ThreadStep, SameSetup, Steady
<1>4. CASE \E a \in Agents : Transaction(a)
  BY <1>4, TransactionBase DEF Inside, ThreadStep, SameSetup, Steady
<1>5. CASE Environment
  BY <1>5, EnvironmentStill, StillBase DEF Still, Steady
<1>6. CASE Crash
  BY <1>6, CrashBase DEF SameSetup, Steady
<1>7. CASE Recovery
  BY <1>7, RecoveryBase, RecoveryStay DEF OfflineStay, SameSetup, Steady
<1>8. CASE UNCHANGED vars
  BY <1>8, StillBase DEF vars, Still, Steady
<1> QED
  BY <1>1, <1>2, <1>3, <1>4, <1>5, <1>6, <1>7, <1>8, NextKinds, AsideKinds

----------------------------------------------------------------------------
(***************************************************************************)
(* The gate.                                                               *)
(***************************************************************************)
Gating == budget.mode = "FAST" /\ budget.tests

\* The gate has accepted r, or Austin's branch has left it behind.
Fresh(r, G, h) == r \in G \/ r.of < h

GatedProject(p, G, h) == p.verdict.status = "passed" => Fresh(p.verdict.on, G, h)

GatedRecord(d, G) == d.head \in G \cup {NoRef}

GatedThread(t, k, G, h) ==
  /\ t = "Tony" /\ k.pc = "vgate" => k.ref = HeadRef(k.ref.of) /\ k.ref.of <= h
  /\ t = "Tony" /\ k.pc = "pass" => Fresh(k.ref, G, h)
  /\ k.pc = "check" => \A a \in Agents : k.claims[a] = NoRef \/ Fresh(k.claims[a], G, h)
  /\ k.pc = "land" => k.ref \in G
  /\ k.pc \in {"resolve", "record", "finish", "mark"} => k.ref \in G \cup {NoRef}

Gated ==
  /\ GatedProject(project, gated, git.head["Austin"])
  /\ GatedProject(disk.project, gated, git.head["Austin"])
  /\ GatedRecord(delivery, gated) /\ GatedRecord(disk.delivery, gated)
  /\ \A t \in Threads : GatedThread(t, handler[t], gated, git.head["Austin"])
  /\ proc \in {"landing", "recording"} => delivery.head \in gated

\* Commits are numbered as they are made.
Numbered == git.head["Austin"] <= git.last

Onward == gated \subseteq gated' /\ git.head["Austin"] <= git'.head["Austin"]

\* Austin's head only grows, and no revision that passed the gate is forgotten.
LEMMA NumberedStays ==
  ASSUME Pieces, Numbered, [Next]_vars
  PROVE  Numbered' /\ Onward
<1>1. git.head["Austin"] \in Nat /\ git.last \in Nat /\ git \in GitType
  BY DEF Pieces, OtherTypes, GitType
<1>2. ASSUME NEW a \in Agents, MergeTony(a) PROVE Numbered' /\ Onward
  <2>1. CASE git' = git
    BY <1>1, <1>2, <2>1 DEF MergeTony, Numbered, Onward
  <2>2. CASE git' = [git EXCEPT !.head["Austin"] = git.last + 1,
                                !.last = git.last + 1, !.merged = TRUE]
    <3>1. git'.head["Austin"] = git.last + 1 /\ git'.last = git.last + 1
      BY <1>1, <2>2 DEF GitType
    <3> QED
      BY <1>1, <1>2, <3>1 DEF MergeTony, Numbered, Onward
  <2>3. CASE git' = [git EXCEPT !.merging = TRUE, !.dirty = {"Austin"}]
    BY <1>1, <1>2, <2>3 DEF MergeTony, Numbered, Onward, GitType
  <2> QED
    BY <1>2, <2>1, <2>2, <2>3 DEF MergeTony
<1>3. CASE Environment
  <2>1. ASSUME NEW a \in Agents, Commit(a) PROVE Numbered' /\ Onward
    <3>1. /\ git'.head["Austin"] = IF a = "Austin" THEN git.last + 1 ELSE git.head["Austin"]
          /\ git'.last = git.last + 1 /\ gated' = gated
      BY <1>1, <2>1 DEF Commit, GitType
    <3> QED
      BY <1>1, <3>1 DEF Numbered, Onward
  <2>2. ASSUME NEW a \in Agents, Edit(a) \/ Discard(a) PROVE Numbered' /\ Onward
    <3>1. git'.head = git.head /\ git'.last = git.last /\ gated' = gated
      BY <1>1, <2>2 DEF Edit, Discard, GitType
    <3> QED
      BY <1>1, <3>1 DEF Numbered, Onward
  <2>3. CASE StartMerge \/ ToggleRepo
    <3>1. git'.head = git.head /\ git'.last = git.last /\ gated' = gated
      BY <1>1, <2>3 DEF StartMerge, ToggleRepo, GitType
    <3> QED
      BY <1>1, <3>1 DEF Numbered, Onward
  <2> QED
    BY <1>3, <2>1, <2>2, <2>3 DEF Environment
<1>4. CASE UNCHANGED git /\ gated \subseteq gated'
  BY <1>1, <1>4 DEF Numbered, Onward
<1>5. ASSUME NEW a \in Agents, Proceed(a)
      PROVE  MergeTony(a) \/ (UNCHANGED git /\ gated \subseteq gated')
  BY <1>5
  DEF Proceed, RevokeStale, TakeEvidence, RecordSignature, RunGate, SettleApplied,
      CheckApprovals, Land, ResolveConflict, RecordApplied, FinishRound, MarkPending
<1>6. ASSUME NEW a \in Agents, SubmitPlan(a) \/ BeginSign(a) \/ Withdraw(a) \/ EnterDelivery(a)
      PROVE  UNCHANGED git /\ gated \subseteq gated'
  BY <1>6 DEF SubmitPlan, BeginSign, Withdraw, EnterDelivery
<1>7. BeginRequest \/ BeginVerify \/ ProceedFast => UNCHANGED git /\ gated \subseteq gated'
  BY DEF BeginRequest, BeginVerify, ProceedFast, ChooseTarget, GateRequest, RecordRequest,
         GateVerdict, RecordVerdict
<1>8. (\E m \in Modes : SwitchTo(m)) \/ SubmitTask \/ ProceedRound
        => UNCHANGED git /\ gated \subseteq gated'
  BY DEF SwitchTo, SubmitTask, ProceedRound, ClearRound, ReopenRound
<1>9. Crash \/ Recovery => UNCHANGED git /\ gated \subseteq gated'
  BY DEF Crash, Recovery, Resume, ReconcileDelivery, Apply, OfflineLand, OfflineRecord
<1>10. UNCHANGED vars => UNCHANGED git /\ gated \subseteq gated'
  BY DEF vars
<1> QED
  BY <1>2, <1>3, <1>4, <1>5, <1>6, <1>7, <1>8, <1>9, <1>10 DEF Next

\* What was fresh stays fresh.
LEMMA FreshStays ==
  ASSUME Pieces, Pieces', Onward
  PROVE  /\ \A p \in ProjectState : GatedProject(p, gated, git.head["Austin"])
                => GatedProject(p, gated', git'.head["Austin"])
         /\ \A d : GatedRecord(d, gated) => GatedRecord(d, gated')
         /\ \A t, k : k \in HandlerState /\ GatedThread(t, k, gated, git.head["Austin"])
                => GatedThread(t, k, gated', git'.head["Austin"])
<1> DEFINE G == gated
           I == gated'
           h == git.head["Austin"]
           i == git'.head["Austin"]
<1>1. h \in Nat /\ i \in Nat /\ G \subseteq I /\ h <= i
  BY DEF Pieces, OtherTypes, GitType, Onward
<1> HIDE DEF G, I, h, i
<1>2. \A r \in Ref : Fresh(r, G, h) => Fresh(r, I, i)
  BY <1>1, RefFacts DEF Fresh
<1>3. \A p \in ProjectState : GatedProject(p, G, h) => GatedProject(p, I, i)
  BY <1>2 DEF GatedProject, ProjectState, ProjectRecord, Verdict
<1>4. \A d : GatedRecord(d, G) => GatedRecord(d, I)
  BY <1>1 DEF GatedRecord
<1>5. ASSUME NEW t, NEW k \in HandlerState, GatedThread(t, k, G, h)
      PROVE  GatedThread(t, k, I, i)
  <2>1. k.ref \in Ref /\ k.ref.of \in Nat /\ \A a \in Agents : k.claims[a] \in Ref
    BY RefFacts DEF HandlerState
  <2> QED
    BY <1>1, <1>2, <1>5, <2>1 DEF GatedThread
<1> QED
  BY <1>3, <1>4, <1>5 DEF G, I, h, i

\* A step of one thread keeps Gated when what it changes is gated.
LEMMA ThreadGated ==
  ASSUME Pieces, Pieces', Onward, Gated, NEW t \in Threads, ThreadStep(t),
         GatedProject(project', gated', git'.head["Austin"]),
         GatedRecord(delivery', gated'),
         GatedThread(t, handler'[t], gated', git'.head["Austin"])
  PROVE  Gated'
<1>1. \A s \in Threads : s # t => GatedThread(s, handler'[s], gated', git'.head["Austin"])
  BY FreshStays DEF Gated, ThreadStep, Pieces, OtherTypes
<1>2. GatedProject(disk.project, gated', git'.head["Austin"]) /\ GatedRecord(disk.delivery, gated')
  BY FreshStays DEF Gated, Pieces, OtherTypes, DiskType
<1> QED
  BY <1>1, <1>2 DEF Gated, ThreadStep, SaveOrNot

\* What the domain operations leave of a passed verdict.
LEMMA VerdictFacts ==
  ASSUME NEW p, Sound(p)
  PROVE  /\ SetPlan(p).verdict = p.verdict
         /\ \A a \in Agents : RevokeReady(p, a).verdict \in {p.verdict, NoVerdict}
         /\ \A a \in Agents, r \in BOOLEAN, e \in Ref :
              CanSetReady(p, a, r, e) /\ SetReady(p, a, r, e).verdict.status = "passed"
                => SetReady(p, a, r, e).verdict = p.verdict
         /\ NoVerdict.status = "none"
<1> USE DEF Sound, ProjectState, ProjectRecord
<1>1. SetPlan(p).verdict = p.verdict
  BY DEF SetPlan, ResetApprovals
<1>2. \A a \in Agents : RevokeReady(p, a).verdict \in {p.verdict, NoVerdict}
  BY DEF RevokeReady
<1>3. ASSUME NEW a \in Agents, NEW r \in BOOLEAN, NEW e \in Ref,
             SetReady(p, a, r, e).verdict.status = "passed"
      PROVE  SetReady(p, a, r, e).verdict = p.verdict
  <2>1. CASE p.mode = "GOAL"
    <3>1. Signed(p, a, r, e).verdict = p.verdict
      BY DEF Signed
    <3>2. DOMAIN Signed(p, a, r, e) = DOMAIN p /\ DOMAIN p =
            {"mode", "phase", "plan", "version", "ready", "evidence", "verdict"}
      BY DEF Signed
    <3> QED
      BY <2>1, <3>1, <3>2 DEF SetReady, Sign, ResetApprovals
  <2>2. CASE p.mode = "FAST"
    BY <1>3, <2>2 DEF SetReady, Request, NoVerdict
  <2> QED
    BY <2>1, <2>2
<1> QED
  BY <1>1, <1>2, <1>3 DEF NoVerdict

\* A thread that goes nowhere a gate is asked about has nothing to show.
LEMMA UngatedThread ==
  ASSUME NEW t, NEW k, NEW G, NEW h,
         k.pc \notin InTransaction, t = "Tony" => k.pc \notin {"vgate", "pass"}
  PROVE  GatedThread(t, k, G, h)
BY DEF GatedThread, InTransaction

\* A step aside that passes no verdict, by a thread that is not at Tony's gate.
LEMMA AsideGated ==
  ASSUME Pieces, Pieces', Base, Gated, Onward, NEW a \in Agents, Aside(a),
         project'.verdict.status = "passed" => project'.verdict = project.verdict,
         a = "Tony" => handler'[a].pc \notin {"vgate", "pass"} \/ handler'[a] = handler[a]
  PROVE  Gated'
<1>1. a \in Threads
  BY DEF Threads
<1>2. project \in ProjectState
  BY ThreadFacts DEF Sound
<1>3. GatedProject(project', gated', git'.head["Austin"])
  <2>1. GatedProject(project, gated', git'.head["Austin"])
    BY <1>2, FreshStays DEF Gated
  <2> QED
    BY <2>1 DEF GatedProject
<1>4. GatedRecord(delivery', gated')
  BY FreshStays DEF Gated, Aside
<1>5. GatedThread(a, handler'[a], gated', git'.head["Austin"])
  <2>1. CASE handler'[a] = handler[a]
    BY <1>1, <2>1, FreshStays DEF Gated, Pieces, OtherTypes
  <2>2. CASE a = "Tony" => handler'[a].pc \notin {"vgate", "pass"}
    BY <2>2, UngatedThread DEF Aside
  <2> QED
    BY <2>1, <2>2
<1> QED
  BY <1>1, <1>3, <1>4, <1>5, ThreadGated DEF Aside

\* What agents do outside the transaction, but for Tony's own gate, keeps Gated.
LEMMA AsideStepGated ==
  ASSUME Pieces, Pieces', Base, Gated, Onward, Gating, AsideStep
  PROVE  Gated'
<1> USE ThreadFacts
<1>1. project.mode = "FAST"
  BY DEF Gating
<1>2. PICK a \in Agents :
        \/ SubmitPlan(a) \/ BeginSign(a) \/ Withdraw(a)
        \/ RevokeStale(a) \/ TakeEvidence(a) \/ RecordSignature(a) \/ RunGate(a) \/ MergeTony(a)
  BY DEF AsideStep
<1>3. Withdraw(a)
  BY <1>1, <1>2
  DEF SubmitPlan, CanSetPlan, BeginSign, RevokeStale, TakeEvidence, RecordSignature, RunGate,
      MergeTony, At, Base, OneMode, GoalPCs
<1>4. Aside(a) /\ handler'[a] = handler[a]
  BY <1>3, WithdrawAside DEF Withdraw
<1>5. project'.verdict.status = "passed" => project'.verdict = project.verdict
  <2>1. CanSetReady(project, a, FALSE, NoRef) /\ project' = SetReady(project, a, FALSE, NoRef)
    BY <1>3 DEF Withdraw, Mutate
  <2>2. FALSE \in BOOLEAN /\ NoRef \in Ref /\ Sound(project)
    BY RefFacts
  <2> HIDE ThreadFacts DEF Agents
  <2> QED
    BY <2>1, <2>2, VerdictFacts
<1> QED
  BY <1>4, <1>5, AsideGated

\* Tony's verdict begins at the gate, with the revision that is under verification.
LEMMA BeginVerifyGated ==
  ASSUME Pieces, Pieces', Base, Gated, Onward, Gating, BeginVerify
  PROVE  Gated'
<1> USE ThreadFacts
<1>1. Aside("Tony")
  BY BeginVerifyAside
<1>2. CASE UNCHANGED handler /\ Mutate(RevokeReady(project, "Austin"))
  <2>1. project'.verdict.status = "passed" => project'.verdict = project.verdict
    BY <1>2, VerdictFacts DEF Mutate
  <2> QED
    BY <1>1, <1>2, <2>1, AsideGated
<1>3. CASE UNCHANGED project /\ \E pc \in {"vgate", "issue"} : GotoWith("Tony", pc, Target)
  <2>1. Target \in Ref /\ Target = HeadRef(Target.of) /\ Target.of = git.head["Austin"]
    BY EvidenceTyped, RefFacts DEF Target, Pieces, OtherTypes, GitType
  <2>2. handler'["Tony"].pc \in {"vgate", "issue"} /\ handler'["Tony"].ref = Target
    BY <1>3, <2>1, OthersStay, PCFacts
  <2>3. git' = git /\ git.head["Austin"] \in Nat
    BY DEF BeginVerify, Pieces, OtherTypes, GitType
  <2>4. GatedThread("Tony", handler'["Tony"], gated', git'.head["Austin"])
    BY <2>1, <2>2, <2>3 DEF GatedThread
  <2>5. GatedProject(project', gated', git'.head["Austin"]) /\ GatedRecord(delivery', gated')
    BY <1>3, FreshStays DEF Gated, BeginVerify, Sound
  <2> QED
    BY <1>1, <2>4, <2>5, ThreadGated DEF Aside, Threads
<1> QED
  BY <1>2, <1>3 DEF BeginVerify, Gating

\* The gate Tony runs on a verdict puts the revision it tested among the gated ones.
LEMMA GateVerdictGated ==
  ASSUME Pieces, Pieces', Base, Gated, Onward, Gating, GateVerdict
  PROVE  Gated'
<1> USE ThreadFacts
<1>1. Aside("Tony") /\ UNCHANGED project
  BY GateVerdictAside DEF GateVerdict
<1>2. CASE Return("Tony")
  BY <1>1, <1>2, OthersStay, AsideGated
<1>3. CASE gated' = gated \cup {Target} /\ Goto("Tony", "pass")
  <2>1. handler'["Tony"].pc = "pass" /\ handler'["Tony"].ref = handler["Tony"].ref
    BY <1>3, OthersStay, PCFacts DEF Threads
  <2>2. /\ handler["Tony"].ref = HeadRef(handler["Tony"].ref.of)
        /\ handler["Tony"].ref.of <= git.head["Austin"]
    BY DEF Gated, GatedThread, GateVerdict, At, Threads
  <2>3. git' = git /\ git.head["Austin"] \in Nat /\ handler["Tony"].ref.of \in Nat
    BY RefFacts DEF GateVerdict, Pieces, OtherTypes, GitType, Threads
  <2>4. Fresh(handler["Tony"].ref, gated', git'.head["Austin"])
    <3>1. CASE handler["Tony"].ref.of = git.head["Austin"]
      BY <1>3, <2>2, <3>1 DEF Fresh, Target
    <3>2. CASE handler["Tony"].ref.of # git.head["Austin"]
      BY <2>2, <2>3, <3>2 DEF Fresh
    <3> QED
      BY <3>1, <3>2
  <2>5. GatedThread("Tony", handler'["Tony"], gated', git'.head["Austin"])
    BY <2>1, <2>4 DEF GatedThread
  <2>6. GatedProject(project', gated', git'.head["Austin"]) /\ GatedRecord(delivery', gated')
    BY <1>1, FreshStays DEF Gated, GateVerdict, Sound
  <2> QED
    BY <1>1, <2>5, <2>6, ThreadGated DEF Aside, Threads
<1> QED
  BY <1>2, <1>3 DEF GateVerdict

\* The recorded verdict is for the revision that was tested.
LEMMA RecordVerdictGated ==
  ASSUME Pieces, Pieces', Base, Gated, Onward, NEW pc \in {"pass", "issue"}, RecordVerdict(pc)
  PROVE  Gated'
<1> USE ThreadFacts
<1> DEFINE result == IF pc = "pass" THEN "passed" ELSE "issue"
           r == handler["Tony"].ref
<1>1. Aside("Tony")
  BY RecordVerdictAside
<1>2. handler'["Tony"].pc \in {"deliver", "idle"}
  BY OthersStay, PCFacts DEF RecordVerdict, Threads
<1>3. CASE ~CanSetVerification(project, result, r)
  BY <1>1, <1>2, <1>3, AsideGated DEF RecordVerdict
<1>4. CASE CanSetVerification(project, result, r)
  <2>1. project' = SetVerification(project, result)
    BY <1>4 DEF RecordVerdict, Mutate
  <2>2. project'.verdict.status = result /\ project'.verdict.on = project.verdict.on
    BY <2>1 DEF SetVerification, Sound, ProjectState, ProjectRecord, Verdict
  <2>3. CASE pc = "issue"
    BY <1>1, <1>2, <2>2, <2>3, AsideGated
  <2>4. CASE pc = "pass"
    <3>1. project.verdict.on = r
      BY <1>4, <2>4 DEF CanSetVerification
    <3>2. Fresh(r, gated, git.head["Austin"])
      BY <2>4 DEF Gated, GatedThread, RecordVerdict, At, Threads
    <3>3. git' = git /\ gated' = gated
      BY DEF RecordVerdict
    <3>4. GatedProject(project', gated', git'.head["Austin"])
      BY <2>2, <3>1, <3>2, <3>3 DEF GatedProject
    <3>5. GatedThread("Tony", handler'["Tony"], gated', git'.head["Austin"])
      BY <1>2, UngatedThread DEF InTransaction
    <3>6. GatedRecord(delivery', gated')
      BY <3>3 DEF Gated, RecordVerdict
    <3> QED
      BY <1>1, <3>4, <3>5, <3>6, ThreadGated DEF Aside, Threads
  <2> QED
    BY <2>3, <2>4
<1> QED
  BY <1>3, <1>4

\* Austin's side of FAST passes no verdict.
LEMMA RequestGated ==
  ASSUME Pieces, Pieces', Base, Gated, Onward, ChooseTarget \/ GateRequest \/ RecordRequest
  PROVE  Gated'
<1> USE ThreadFacts
<1>1. Aside("Austin")
  BY ChooseTargetAside, GateRequestAside, RecordRequestAside
<1>2. project'.verdict.status = "passed" => project'.verdict = project.verdict
  <2>1. CASE ChooseTarget \/ GateRequest
    BY <2>1 DEF ChooseTarget, GateRequest
  <2>2. CASE RecordRequest
    <3> DEFINE e == handler["Austin"].ref
    <3>1. \/ project' = project
          \/ CanSetReady(project, "Austin", TRUE, e) /\ project' = SetReady(project, "Austin", TRUE, e)
      BY <2>2 DEF RecordRequest, Mutate
    <3>2. TRUE \in BOOLEAN /\ e \in Ref /\ Sound(project) /\ "Austin" \in Agents
      BY DEF Threads
    <3> HIDE ThreadFacts DEF Agents, e
    <3>3. CanSetReady(project, "Austin", TRUE, e) /\ SetReady(project, "Austin", TRUE, e).verdict.status = "passed"
            => SetReady(project, "Austin", TRUE, e).verdict = project.verdict
      BY <3>2, VerdictFacts
    <3> QED
      BY <3>1, <3>3
  <2> QED
    BY <2>1, <2>2
<1> QED
  BY <1>1, <1>2, AsideGated

\* A new round passes no verdict and names no head.
LEMMA NewRoundGated ==
  ASSUME Pieces, Pieces', Base, Gated, Onward, Gating,
         NEW t, Drops(t) \/ Reopens(t)
  PROVE  Gated'
<1> USE ThreadFacts
<1>1. t \in Threads /\ t # "Tony" /\ ThreadStep(t)
  BY DEF Drops, Reopens, Threads
<1>2. handler'[t].pc \notin InTransaction
  BY DEF Drops, Reopens, InTransaction
<1>3. GatedProject(project', gated', git'.head["Austin"])
  <2>1. project' = project \/ project'.verdict.status # "passed"
    BY DEF Drops, Reopens, Gating
  <2>2. GatedProject(project, gated', git'.head["Austin"])
    BY FreshStays DEF Gated, Sound
  <2> QED
    BY <2>1, <2>2 DEF GatedProject
<1>4. GatedRecord(delivery', gated')
  BY FreshStays DEF Drops, Reopens, Gated, GatedRecord, NoDelivery
<1> QED
  BY <1>1, <1>2, <1>3, <1>4, UngatedThread, ThreadGated

\* The delivery begins with a revision that passed the gate.
LEMMA EnterDeliveryGated ==
  ASSUME Pieces, Pieces', Base, Gated, Onward, Gating, NEW a \in Agents, EnterDelivery(a)
  PROVE  Gated'
<1> USE ThreadFacts
<1>1. a \in Threads /\ ThreadStep(a)
  BY EnterDeliveryInside DEF Threads
<1>2. UNCHANGED <<project, delivery, git, gated>> /\ git.head["Austin"] \in Nat
  BY DEF EnterDelivery, Pieces, OtherTypes, GitType
<1>3. GatedThread(a, handler'[a], gated', git'.head["Austin"])
  <2>1. CASE handler'[a].pc \in {"idle", "settle"}
    BY <2>1 DEF GatedThread
  <2>2. CASE handler'[a].pc = "check" /\ handler'[a].claims = Claims(project)
    <3>1. \A b \in Agents : Claims(project)[b] = NoRef \/ Fresh(Claims(project)[b], gated, git.head["Austin"])
      BY DEF Claims, Gated, GatedProject, Gating
    <3> QED
      BY <1>2, <2>2, <3>1 DEF GatedThread
  <2> QED
    BY <2>1, <2>2, EnterDeliveryInside
<1>4. GatedProject(project', gated', git'.head["Austin"]) /\ GatedRecord(delivery', gated')
  BY <1>2 DEF Gated
<1> QED
  BY <1>1, <1>3, <1>4, ThreadGated

\* A fresh claim that still names the head Austin is at has passed the gate.
LEMMA FreshTarget ==
  ASSUME Pieces, Fresh(Target, gated, git.head["Austin"])
  PROVE  Target \in gated
<1>1. git.head["Austin"] \in Nat /\ Target.of = git.head["Austin"]
  BY RefFacts DEF Pieces, OtherTypes, GitType, Target
<1> QED
  BY <1>1 DEF Fresh

\* The transaction lands and records nothing else.
LEMMA TransactionGated ==
  ASSUME Pieces, Pieces', Base, Gated, Onward, NEW a \in Agents, Transaction(a)
  PROVE  Gated'
<1> USE ThreadFacts
<1>1. a \in Threads /\ ThreadStep(a)
  BY TransactionBase DEF Inside, Threads
<1>2. UNCHANGED <<git, gated>>
  BY SettleAppliedInside, CheckApprovalsInside, LandInside, ResolveConflictInside,
     RecordAppliedInside, FinishRoundInside, MarkPendingInside
  DEF Transaction
<1>3. GatedThread(a, handler[a], gated, git.head["Austin"])
  BY <1>1 DEF Gated
<1>4. project'.verdict = project.verdict \/ project'.verdict = NoVerdict
  BY CheckApprovalsInside, LandInside, ResolveConflictInside, SettleAppliedInside,
     RecordAppliedInside, FinishRoundInside, MarkPendingInside, VerdictFacts, CompleteFacts
  DEF Transaction
<1>5. GatedProject(project', gated', git'.head["Austin"])
  BY <1>2, <1>4 DEF Gated, GatedProject, NoVerdict
<1>6. NoRef # Target /\ Applied(handler[a].ref).head = handler[a].ref
      /\ Pending(handler[a].ref).head = handler[a].ref /\ Pending(Target).head = Target
  BY DEF NoRef, Target, HeadRef, Applied, Pending
<1>7. CheckApprovals(a) /\ Agreed(a) => Target \in gated
  <2>1. CheckApprovals(a) /\ Agreed(a) => Fresh(Target, gated, git.head["Austin"])
    BY <1>3, <1>6, CheckApprovalsInside DEF GatedThread, Agreed
  <2> QED
    BY <2>1, FreshTarget
<1>8. GatedRecord(delivery', gated') /\ GatedThread(a, handler'[a], gated', git'.head["Austin"])
  <2>1. GatedRecord(delivery, gated)
    BY DEF Gated
  <2>2. CASE SettleApplied(a)
    BY <1>2, <2>1, <2>2, SettleAppliedInside DEF GatedThread
  <2>3. CASE CheckApprovals(a)
    BY <1>2, <1>6, <1>7, <2>1, <2>3, CheckApprovalsInside DEF GatedThread, GatedRecord
  <2>4. CASE Land(a)
    BY <1>2, <1>3, <2>1, <2>4, LandInside DEF GatedThread
  <2>5. CASE ResolveConflict(a)
    BY <1>2, <1>3, <2>1, <2>5, ResolveConflictInside DEF GatedThread
  <2>6. CASE RecordApplied(a)
    BY <1>2, <1>3, <1>6, <2>6, RecordAppliedInside DEF GatedThread, GatedRecord
  <2>7. CASE FinishRound(a)
    BY <1>2, <1>3, <2>1, <2>7, FinishRoundInside DEF GatedThread
  <2>8. CASE MarkPending(a)
    BY <1>2, <1>3, <1>6, <2>1, <2>8, MarkPendingInside DEF GatedThread, GatedRecord
  <2> QED
    BY <2>2, <2>3, <2>4, <2>5, <2>6, <2>7, <2>8 DEF Transaction
<1> QED
  BY <1>1, <1>5, <1>8, ThreadGated

\* Outside a live session only what was gated is handed off.
LEMMA RecoveryGated ==
  ASSUME Pieces, Pieces', Base, Gated, Gating, Recovery
  PROVE  Gated'
<1> USE OfflineFacts
<1>1. OfflineStay
  BY RecoveryStay
<1>2. UNCHANGED <<git, gated, handler>> /\ SaveOrNot
  BY <1>1 DEF OfflineStay
<1>3. project.mode = "FAST"
  BY DEF Base, OneMode, Gating
<1>4. Complete(project).verdict = project.verdict
  BY CompleteFacts
<1> DEFINE h == git.head["Austin"]
<1>5. SUFFICES /\ GatedProject(project', gated, h) /\ GatedRecord(delivery', gated)
               /\ proc' \in {"landing", "recording"} => delivery'.head \in gated
  BY <1>2, <1>5 DEF Gated, SaveOrNot
<1>6. CASE Resume
  BY <1>6, ReconcileFacts DEF Resume, Load, Gated, GatedProject
<1>7. CASE CloseWindow
  BY <1>4, <1>7, OfflineKinds DEF Gated, GatedProject
<1>8. CASE BeginHandOff
  <2>1. ASSUME Deliverable(project, delivery)
        PROVE  FinalHead(delivery) \in gated
    <3>1. project.verdict.status = "passed" /\ project.verdict.on = FinalHead(delivery)
      BY <1>3, <2>1 DEF Deliverable, Passed
    <3>2. CASE delivery.head # NoRef
      BY <3>2 DEF FinalHead, Gated, GatedRecord
    <3>3. CASE delivery.head = NoRef
      BY <3>1, <3>3, FreshTarget DEF FinalHead, Gated, GatedProject
    <3> QED
      BY <3>2, <3>3
  <2>2. Pending(FinalHead(delivery)).head = FinalHead(delivery)
    BY DEF Pending
  <2> QED
    BY <1>8, <2>1, <2>2, OfflineKinds DEF Gated, GatedRecord
<1>9. CASE proc' = "live" /\ UNCHANGED <<project, delivery, disk>>
  BY <1>9 DEF Gated
<1>10. CASE OfflineLand
  BY <1>10 DEF OfflineLand, Gated
<1>11. CASE OfflineRecord
  BY <1>4, <1>11 DEF OfflineRecord, Load, CompletedIfWorking, Applied, Gated, GatedProject, GatedRecord
<1> QED
  BY <1>6, <1>7, <1>8, <1>9, <1>10, <1>11 DEF Recovery, ReconcileDelivery, Apply

\* The checkpoint names gated revisions only, so a crash keeps Gated.
LEMMA CrashGated == ASSUME Gated, Crash PROVE Gated'
BY DEF Crash, Load, Gated, GatedThread, Idle

\* A new commit does not make the old revision ungated.
LEMMA StillGated ==
  ASSUME Pieces, Pieces', Onward, Gated, Still
  PROVE  Gated'
<1>1. /\ project \in ProjectState /\ disk.project \in ProjectState
      /\ handler \in [Threads -> HandlerState]
  BY DEF Pieces, OtherTypes, DiskType, GoodProject, Sound
<1> QED
  BY <1>1, FreshStays DEF Still, Gated

\* Every step keeps Gated, in a FAST session with a gate.
LEMMA NextGated ==
  ASSUME Pieces, Pieces', Base, Steady, Numbered, Gating, Gated, [Next]_vars
  PROVE  Gated'
<1>1. Onward
  BY NumberedStays
<1>2. CASE AsideStep
  BY <1>1, <1>2, AsideStepGated
<1>3. CASE AsideFast
  BY <1>1, <1>3, BeginVerifyGated, GateVerdictGated, RecordVerdictGated, RequestGated DEF AsideFast
<1>4. CASE BeginRequest /\ Aside("Austin")
  BY <1>1, <1>4, AsideGated DEF BeginRequest
<1>5. CASE \E t \in {"Human", "Austin"} : Drops(t) \/ Reopens(t)
  BY <1>1, <1>5, NewRoundGated
<1>6. CASE \E a \in Agents : EnterDelivery(a) \/ Transaction(a)
  BY <1>1, <1>6, EnterDeliveryGated, TransactionGated
<1>7. CASE Environment \/ UNCHANGED vars
  BY <1>1, <1>7, EnvironmentStill, StillGated DEF vars, Still
<1>8. CASE Crash \/ Recovery
  BY <1>8, CrashGated, RecoveryGated
<1> QED
  BY <1>2, <1>3, <1>4, <1>5, <1>6, <1>7, <1>8, NextKinds

----------------------------------------------------------------------------
(***************************************************************************)
(* The branch moves behind a checkpoint and, in FAST, behind the gate.     *)
(***************************************************************************)
\* Nothing ever changes what a setup allows.
LEMMA SetupIsConstant == ASSUME Pieces, [Next]_vars PROVE SameSetup
<1> USE SetupKept
<1>1. ASSUME NEW a \in Agents, SubmitPlan(a) \/ BeginSign(a) \/ Withdraw(a) \/ EnterDelivery(a)
      PROVE  SameSetup
  BY <1>1 DEF SubmitPlan, BeginSign, Withdraw, EnterDelivery, Mutate
<1>2. ASSUME NEW a \in Agents, Proceed(a) PROVE SameSetup
  <2>1. CASE RevokeStale(a) \/ TakeEvidence(a) \/ RecordSignature(a) \/ RunGate(a) \/ MergeTony(a)
    BY <2>1 DEF RevokeStale, TakeEvidence, RecordSignature, RunGate, MergeTony, Mutate
  <2>2. CASE SettleApplied(a) \/ CheckApprovals(a) \/ Land(a) \/ ResolveConflict(a)
    BY <2>2 DEF SettleApplied, CheckApprovals, Land, ResolveConflict, Mutate
  <2>3. CASE RecordApplied(a) \/ FinishRound(a) \/ MarkPending(a)
    BY <2>3 DEF RecordApplied, FinishRound, MarkPending, Mutate
  <2> QED
    BY <1>2, <2>1, <2>2, <2>3 DEF Proceed
<1>3. CASE BeginRequest \/ BeginVerify \/ ProceedFast
  BY <1>3
  DEF BeginRequest, BeginVerify, ProceedFast, ChooseTarget, GateRequest, RecordRequest,
      GateVerdict, RecordVerdict, Mutate
<1>4. CASE (\E m \in Modes : SwitchTo(m)) \/ SubmitTask \/ ProceedRound
  BY <1>4 DEF SwitchTo, SubmitTask, ProceedRound, ClearRound, ReopenRound, Mutate
<1>5. CASE Environment
  BY <1>5 DEF Environment, Commit, Edit, Discard, StartMerge, ToggleRepo
<1>6. CASE Crash \/ Recovery
  BY <1>6 DEF Crash, Recovery, Resume, ReconcileDelivery, Apply, OfflineLand, OfflineRecord
<1>7. CASE UNCHANGED vars
  BY <1>7 DEF vars
<1> QED
  BY <1>1, <1>2, <1>3, <1>4, <1>5, <1>6, <1>7 DEF Next

Guarded ==
  /\ Pieces /\ Numbered
  /\ Steady => Base /\ (Gating => Gated)

\* The invariant of the landing holds at first.
LEMMA InitGuarded == Init => Guarded
<1> SUFFICES ASSUME Init PROVE Guarded
  OBVIOUS
<1>1. Pieces
  BY DeliveryAssumption, InitPieces
<1>2. handler \in [Threads -> {Idle}] /\ proc = "live" /\ delivery = NoDelivery
      /\ git.head["Austin"] = 0 /\ git.last = 0 /\ gated = {}
      /\ disk.project = project /\ disk.delivery = delivery
      /\ project.mode = budget.mode /\ project.verdict = NoVerdict
  BY DEF Init, NewState
<1>3. \A t \in Threads : handler[t].pc = "idle"
  BY <1>2 DEF Idle
<1>4. Base
  BY <1>2, <1>3 DEF Base, Locked, OneMode, Noted, InTransaction, GoalPCs, Threads
<1>5. Gated
  BY <1>2, <1>3 DEF Gated, GatedProject, GatedRecord, GatedThread, NoVerdict, NoDelivery
<1> QED
  BY <1>1, <1>2, <1>4, <1>5 DEF Guarded, Numbered

\* Every step keeps it.
LEMMA NextGuarded == Guarded /\ [Next]_vars => Guarded'
<1> SUFFICES ASSUME Guarded, [Next]_vars PROVE Guarded'
  OBVIOUS
<1>1. Pieces /\ Pieces' /\ Numbered /\ Numbered' /\ SameSetup
  BY NextPieces, NumberedStays, SetupIsConstant DEF Guarded
<1>2. (Steady' => Steady) /\ (Gating' => Gating)
  BY <1>1 DEF SameSetup, Steady, Gating
<1>3. ASSUME Steady PROVE Base' /\ (Gating' => Gated')
  BY <1>1, <1>2, <1>3, NextBase, NextGated DEF Guarded
<1> QED
  BY <1>1, <1>2, <1>3 DEF Guarded

\* When the branch moves it moves to the head on record, which has passed the gate.
LEMMA MovesPrepared ==
  ASSUME Guarded, [Next]_vars, repo'.head # repo.head
  PROVE  Prepared(HeadRef(repo'.head))
<1> SUFFICES ASSUME Steady
             PROVE  /\ disk.delivery = Pending(HeadRef(repo'.head))
                    /\ Gating => HeadRef(repo'.head) \in gated
  BY DEF Prepared, Steady, Gating
<1>1. Pieces /\ Base
  BY DEF Guarded
<1>2. (\E a \in Agents : Land(a)) \/ OfflineLand
  <2>1. ~(AsideStep \/ AsideFast \/ (\E t \in {"Human", "Austin"} : Drops(t) \/ Reopens(t)))
    BY <1>1, AsideKinds DEF Aside, Drops, Reopens
  <2>2. ~Aside("Austin") /\ ~UNCHANGED vars
    BY DEF Aside, vars
  <2>3. \A a \in Agents : ~EnterDelivery(a) /\ (Transaction(a) => Land(a))
    BY DEF EnterDelivery, Transaction, SettleApplied, CheckApprovals, ResolveConflict,
           RecordApplied, FinishRound, MarkPending
  <2>4. ~Environment /\ ~Crash
    BY <1>1, EnvironmentStill DEF Crash
  <2>5. Recovery => OfflineLand
    BY DEF Recovery, Resume, ReconcileDelivery, Apply, OfflineRecord
  <2> QED
    BY <1>1, <2>1, <2>2, <2>3, <2>4, <2>5, NextKinds
<1>3. ASSUME NEW a \in Agents, Land(a)
      PROVE  /\ disk.delivery = Pending(HeadRef(repo'.head))
             /\ Gating => HeadRef(repo'.head) \in gated
  <2>1. a \in Threads /\ handler[a].pc = "land" /\ repo'.head = handler[a].ref.of
    BY <1>1, <1>3, LandInside DEF Threads
  <2>2. handler[a].ref = HeadRef(handler[a].ref.of)
    BY <1>1, <2>1, LiveFacts, RefFacts DEF GoodHandler, Pieces, GoodHeads
  <2>3. disk.delivery = Pending(handler[a].ref)
    BY <1>1, <2>1 DEF Base, Noted
  <2>4. Gating => handler[a].ref \in gated
    BY <2>1 DEF Guarded, Gated, GatedThread
  <2> QED
    BY <2>1, <2>2, <2>3, <2>4
<1>4. CASE OfflineLand
  <2>1. proc = "landing" /\ repo'.head = delivery.head.of
    BY <1>1, <1>4 DEF OfflineLand, FastForward, Pieces, OtherTypes
  <2>2. delivery.head = HeadRef(delivery.head.of)
    <3>1. delivery.head \in approved
      BY <1>1, <2>1 DEF Pieces, GoodProc
    <3> QED
      BY <1>1, <3>1, RefFacts DEF Pieces, GoodHeads
  <2>3. disk.delivery = Pending(delivery.head)
    BY <1>1, <2>1 DEF Base, Noted
  <2>4. Gating => delivery.head \in gated
    BY <2>1 DEF Guarded, Gated
  <2> QED
    BY <2>1, <2>2, <2>3, <2>4
<1> QED
  BY <1>2, <1>3, <1>4

\* The user's branch moves only behind a checkpoint that names the head and,
\* in FAST with tests, only to a head the gate has accepted.
THEOREM MovesBehindCheckpoint == Spec => CheckpointBeforeMove
<1>1. Init => Guarded
  BY InitGuarded
<1>2. Guarded /\ [Next]_vars => Guarded'
  BY NextGuarded
<1>3. Guarded /\ [Next]_vars => [repo'.head # repo.head => Prepared(HeadRef(repo'.head))]_vars
  BY MovesPrepared
<1> QED
  BY <1>1, <1>2, <1>3, PTL DEF Spec, CheckpointBeforeMove

----------------------------------------------------------------------------
(***************************************************************************)
(* Receipts.                                                               *)
(***************************************************************************)
\* A round that is still open has no receipt.
OpenRound(p, d) == p.phase \notin {"INTEGRATE", "DONE"} => ~IsApplied(d)

Receipts ==
  /\ \A t \in Threads : handler[t].pc \in InTransaction => project.phase = "INTEGRATE"
  /\ OpenRound(project, delivery) /\ OpenRound(disk.project, disk.delivery)
  /\ handler["Austin"].pc # "reopen"
  /\ handler["Human"].pc = "reopen" => project.phase = "DONE" /\ ~IsApplied(delivery)
  /\ proc \in {"landing", "recording"} => project.phase \in {"INTEGRATE", "DONE"}

GoalOnly == budget.mode = "GOAL"

\* Outside the transaction neither round nor record change.
LEMMA AsideReceipts ==
  ASSUME Pieces, Base, GoalOnly, Receipts, NEW a \in Agents, Aside(a)
  PROVE  Receipts'
<1>1. \A s \in Threads : s # a => handler'[s] = handler[s]
  BY DEF Aside, ThreadStep
<1>2. handler'[a].pc \notin InTransaction /\ handler'[a].pc # "reopen" /\ a # "Human"
  BY DEF Aside
<1>3. /\ project.phase = "INTEGRATE" => project'.phase = "INTEGRATE"
      /\ project.phase = "DONE" <=> project'.phase = "DONE"
      /\ delivery' = delivery /\ proc' = "live"
  BY DEF Aside, ThreadStep, SameRound, GoalOnly, Base, OneMode
<1>4. OpenRound(project', delivery')
  BY <1>3 DEF Receipts, OpenRound
<1>5. OpenRound(disk'.project, disk'.delivery)
  BY <1>4 DEF Receipts, Aside, ThreadStep, SaveOrNot
<1>6. \A t \in Threads : handler'[t].pc \in InTransaction => project'.phase = "INTEGRATE"
  BY <1>1, <1>2, <1>3 DEF Receipts
<1>7. /\ handler'["Austin"].pc # "reopen"
      /\ handler'["Human"].pc = "reopen" => project'.phase = "DONE" /\ ~IsApplied(delivery')
  BY <1>1, <1>2, <1>3 DEF Receipts, Threads
<1> QED
  BY <1>3, <1>4, <1>5, <1>6, <1>7 DEF Receipts

\* A new round begins where there is no receipt, or the receipt is dropped first.
LEMMA NewRoundReceipts ==
  ASSUME Pieces, Base, GoalOnly, Receipts, NEW t, Drops(t) \/ Reopens(t)
  PROVE  Receipts'
<1>1. t = "Human" /\ t \in Threads /\ project.phase = "DONE"
  BY DEF Drops, Reopens, Receipts, GoalOnly, Base, OneMode, Threads
<1>2. \A s \in Threads : s # t => handler'[s] = handler[s]
  BY DEF Drops, Reopens, ThreadStep
<1>3. \A s \in Threads : handler'[s].pc \notin InTransaction
  BY <1>1, <1>2 DEF Drops, Reopens, Base, Locked, InTransaction
<1>4. ~IsApplied(delivery') /\ proc' = "live"
  BY <1>1 DEF Drops, Reopens, ThreadStep, Receipts, NoDelivery, IsApplied
<1>5. OpenRound(disk'.project, disk'.delivery)
  BY <1>4 DEF Drops, Reopens, ThreadStep, SaveOrNot, Receipts, OpenRound
<1>6. handler'["Human"].pc = "reopen" => project'.phase = "DONE"
  BY <1>1 DEF Drops, Reopens
<1> QED
  BY <1>1, <1>2, <1>3, <1>4, <1>5, <1>6 DEF Receipts, OpenRound, Threads

\* A GOAL delivery begins in INTEGRATE, where a record can only be of this round.
LEMMA EnterDeliveryReceipts ==
  ASSUME Pieces, Base, GoalOnly, Receipts, NEW a \in Agents, EnterDelivery(a)
  PROVE  Receipts'
<1>1. ThreadStep(a) /\ UNCHANGED <<project, delivery, disk>> /\ a # "Human"
  BY EnterDeliveryInside DEF EnterDelivery
<1>2. handler'[a].pc \in InTransaction => project.phase = "INTEGRATE"
  <2>1. project.mode = "GOAL" /\ project.phase # "VERIFY"
    BY ThreadFacts, PhaseFacts DEF GoalOnly, Sound, ProjectState
  <2> QED
    BY <2>1, EnterDeliveryInside DEF GateOpen, InTransaction
<1>3. handler'[a].pc # "reopen"
  BY EnterDeliveryInside
<1> QED
  BY <1>1, <1>2, <1>3 DEF Receipts, ThreadStep, Threads

\* What the transaction records is of the round it runs in.
LEMMA TransactionReceipts ==
  ASSUME Pieces, Base, GoalOnly, Receipts, NEW a \in Agents, Transaction(a)
  PROVE  Receipts'
<1> USE ThreadFacts
<1>1. Inside(a) /\ a # "Human" /\ a \in Threads
  BY TransactionBase DEF Threads
<1>2. project.phase = "INTEGRATE"
  <2>1. handler[a].pc \in InTransaction
    BY DEF Transaction, SettleApplied, CheckApprovals, Land, ResolveConflict, RecordApplied,
           FinishRound, MarkPending, At, InTransaction
  <2> QED
    BY <1>1, <2>1 DEF Receipts
<1>3. /\ project'.phase \in {"INTEGRATE", "DONE"}
      /\ handler'[a].pc \in InTransaction => project'.phase = "INTEGRATE"
  <2>1. \A b \in Agents : RevokeReady(project, b).phase = "INTEGRATE"
    BY <1>2, RevokeRound DEF SameRound, GoalOnly
  <2>2. CASE CheckApprovals(a)
    BY <1>2, <2>1, <2>2, CheckApprovalsInside
  <2>3. CASE SettleApplied(a) \/ FinishRound(a)
    BY <1>2, <2>3, SettleAppliedInside, FinishRoundInside, CompleteFacts DEF InTransaction
  <2>4. CASE Land(a) \/ ResolveConflict(a) \/ RecordApplied(a) \/ MarkPending(a)
    BY <1>2, <2>4, LandInside, ResolveConflictInside, RecordAppliedInside, MarkPendingInside
  <2> QED
    BY <2>2, <2>3, <2>4 DEF Transaction
<1>4. \A s \in Threads : s # a => handler'[s] = handler[s]
  BY <1>1 DEF Inside, ThreadStep
<1>5. handler'[a].pc # "reopen" /\ handler["Human"].pc # "reopen"
  BY <1>1, <1>2 DEF Inside, InTransaction, Receipts
<1>6. OpenRound(project', delivery')
  BY <1>3 DEF OpenRound
<1>7. OpenRound(disk'.project, disk'.delivery)
  BY <1>1, <1>6 DEF Inside, ThreadStep, SaveOrNot, Receipts
<1>8. \A t \in Threads : handler'[t].pc \in InTransaction => project'.phase = "INTEGRATE"
  BY <1>1, <1>3, <1>4 DEF Inside, Alone
<1> QED
  BY <1>1, <1>4, <1>5, <1>6, <1>7, <1>8 DEF Receipts, Inside, ThreadStep, Threads

\* What recovery records is of the round in the checkpoint.
LEMMA RecoveryReceipts ==
  ASSUME Pieces, Base, GoalOnly, Receipts, Recovery
  PROVE  Receipts'
<1> USE OfflineFacts
<1>1. OfflineStay /\ project.mode = "GOAL"
  BY RecoveryStay DEF GoalOnly, Base, OneMode
<1>2. \A t \in Threads : handler'[t].pc = "idle"
  BY <1>1 DEF OfflineStay, Base, Locked
<1>3. SUFFICES /\ OpenRound(project', delivery')
               /\ proc' \in {"landing", "recording"} => project'.phase \in {"INTEGRATE", "DONE"}
  BY <1>1, <1>2, <1>3 DEF Receipts, OfflineStay, SaveOrNot, InTransaction, Threads
<1>4. CASE Resume
  BY <1>1, <1>4, ReconcileFacts DEF Resume, Load, Receipts, OpenRound
<1>5. CASE CloseWindow
  BY <1>5, OfflineKinds, CompleteFacts DEF Receipts, OpenRound
<1>6. CASE BeginHandOff
  <2>1. Deliverable(project, delivery) => project.phase \in {"INTEGRATE", "DONE"}
    BY <1>1 DEF Deliverable
  <2> QED
    BY <1>6, <2>1, OfflineKinds DEF Receipts, OpenRound
<1>7. CASE proc' = "live" /\ UNCHANGED <<project, delivery, disk>>
  BY <1>7 DEF Receipts
<1>8. CASE OfflineLand
  BY <1>8 DEF OfflineLand, Receipts
<1>9. CASE OfflineRecord
  <2>1. project'.phase = "DONE" /\ proc' = "down"
    BY <1>9, CompleteFacts DEF OfflineRecord, Load, CompletedIfWorking, Receipts
  <2> QED
    BY <2>1 DEF OpenRound
<1> QED
  BY <1>4, <1>5, <1>6, <1>7, <1>8, <1>9 DEF Recovery, ReconcileDelivery, Apply

\* A crash goes back to the checkpoint, of which the same holds.
LEMMA CrashReceipts == ASSUME Receipts, Crash PROVE Receipts'
BY DEF Crash, Load, Receipts, Idle, InTransaction, Threads

\* The environment changes nothing Receipts speaks of.
LEMMA StillReceipts == ASSUME Receipts, Still PROVE Receipts'
BY DEF Still, Receipts

\* Every step keeps Receipts, in a GOAL session.
LEMMA NextReceipts ==
  ASSUME Pieces, Base, Steady, GoalOnly, Receipts, [Next]_vars
  PROVE  Receipts'
<1>1. CASE AsideStep \/ AsideFast \/ Aside("Austin")
  BY <1>1, AsideKinds, AsideReceipts
<1>2. CASE \E t \in {"Human", "Austin"} : Drops(t) \/ Reopens(t)
  BY <1>2, NewRoundReceipts
<1>3. CASE \E a \in Agents : EnterDelivery(a) \/ Transaction(a)
  BY <1>3, EnterDeliveryReceipts, TransactionReceipts
<1>4. CASE Environment \/ UNCHANGED vars
  BY <1>4, EnvironmentStill, StillReceipts DEF vars, Still
<1>5. CASE Crash \/ Recovery
  BY <1>5, CrashReceipts, RecoveryReceipts
<1> QED
  BY <1>1, <1>2, <1>3, <1>4, <1>5, NextKinds

\* A GOAL session's applied record is of the round it is in.
THEOREM ReceiptIsCurrent == Spec => []ReceiptIsOfThisRound
<1> DEFINE Inv == Guarded /\ (Steady /\ GoalOnly => Receipts)
<1>1. Init => Inv
  <2> SUFFICES ASSUME Init PROVE Receipts
    BY InitGuarded
  <2> QED
    BY DEF Init, Receipts, OpenRound, NoDelivery, IsApplied, Idle, InTransaction, Threads
<1>2. Inv /\ [Next]_vars => Inv'
  <2> SUFFICES ASSUME Inv, [Next]_vars PROVE Inv'
    OBVIOUS
  <2>1. Guarded' /\ Pieces /\ SameSetup
    BY NextGuarded, SetupIsConstant DEF Guarded
  <2>2. Steady' /\ GoalOnly' => Steady /\ GoalOnly
    BY <2>1 DEF SameSetup, Steady, GoalOnly
  <2> QED
    BY <2>1, <2>2, NextReceipts DEF Guarded
<1>3. Inv => ReceiptIsOfThisRound
  BY DEF ReceiptIsOfThisRound, Receipts, OpenRound, Steady, GoalOnly
<1> QED
  BY <1>1, <1>2, <1>3, PTL DEF Spec

----------------------------------------------------------------------------
(***************************************************************************)
(* DONE.                                                                   *)
(***************************************************************************)
\* A setup with one plan is one of a single GOAL round, or of FAST.
SingleRounds == \A s \in Setups : s.plans = 1 => s.mode = "FAST" \/ s.rounds = 0

OneRound == budget.plans = 1 => budget.mode = "FAST" \/ budget.rounds = 0

Dones ==
  /\ disk.project.phase = "DONE" => IsApplied(disk.delivery)
  /\ proc # "live" /\ project.phase = "DONE" => IsApplied(delivery)
  /\ proc = "live" /\ project.phase = "DONE" /\ ~DroppingRecord => IsApplied(delivery)
  /\ budget.mode = "GOAL" => ~DroppingRecord

\* Outside the transaction no round ends and no record is dropped.
LEMMA AsideDones ==
  ASSUME Pieces, Base, Dones, NEW a \in Agents, Aside(a)
  PROVE  Dones'
<1>1. \A s \in Threads : s # a => handler'[s] = handler[s]
  BY DEF Aside, ThreadStep
<1>2. a \in Threads /\ DroppingRecord' = DroppingRecord
  BY <1>1 DEF Aside, DroppingRecord, Threads
<1>3. /\ project'.phase = "DONE" <=> project.phase = "DONE"
      /\ delivery' = delivery /\ proc = "live" /\ proc' = "live"
      /\ budget'.mode = budget.mode
  BY DEF Aside, ThreadStep, SameRound, SameSetup
<1>4. disk'.project.phase = "DONE" => IsApplied(disk'.delivery)
  <2>1. CASE disk' = disk
    BY <2>1 DEF Dones
  <2>2. CASE disk' # disk /\ project'.phase = "DONE"
    <3>1. project.mode # "FAST" /\ project.phase = "DONE"
      BY <1>3, <2>2 DEF Aside
    <3>2. budget.mode = "GOAL"
      BY <3>1, ThreadFacts DEF Sound, ProjectState, ProjectRecord
    <3>3. IsApplied(delivery)
      BY <1>3, <3>1, <3>2 DEF Dones
    <3> QED
      BY <1>3, <2>2, <3>3 DEF Aside, ThreadStep, SaveOrNot
  <2>3. CASE disk' # disk /\ project'.phase # "DONE"
    BY <2>3 DEF Aside, ThreadStep, SaveOrNot
  <2> QED
    BY <2>1, <2>2, <2>3
<1> QED
  BY <1>2, <1>3, <1>4 DEF Dones

\* A new round is open before its record is dropped.
LEMMA NewRoundDones ==
  ASSUME Pieces, Base, OneRound, budget.plans = 1, Dones, NEW t, Drops(t) \/ Reopens(t)
  PROVE  Dones'
<1>1. t \in Threads /\ ThreadStep(t) /\ budget.rounds \in Nat
  BY DEF Drops, Reopens, Threads, Pieces, OtherTypes, Setup
<1>2. CASE Drops(t)
  <2>1. budget.mode = "FAST" /\ budget'.mode = "FAST"
    BY <1>1, <1>2 DEF Drops, OneRound, ThreadStep, SameSetup
  <2>2. DroppingRecord'
    BY <1>1, <1>2 DEF Drops, DroppingRecord
  <2> QED
    BY <1>1, <1>2, <2>1, <2>2 DEF Drops, Dones, ThreadStep
<1>3. CASE Reopens(t)
  <2>1. DroppingRecord /\ budget.mode # "GOAL" /\ budget'.mode = budget.mode
    BY <1>1, <1>3 DEF Reopens, DroppingRecord, Dones, ThreadStep, SameSetup
  <2>2. project'.phase # "DONE"
    BY <1>3 DEF Reopens
  <2>3. disk'.project.phase = "DONE" => IsApplied(disk'.delivery)
    BY <1>1, <2>2 DEF ThreadStep, SaveOrNot, Dones
  <2> QED
    BY <1>1, <2>1, <2>2, <2>3 DEF Dones, ThreadStep
<1> QED
  BY <1>2, <1>3

\* The transaction ends a round only after the record was applied.
LEMMA TransactionDones ==
  ASSUME Pieces, Base, Dones, NEW a \in Agents, EnterDelivery(a) \/ Transaction(a)
  PROVE  Dones'
<1> USE ThreadFacts
<1>1. ThreadStep(a) /\ a \in Threads /\ handler'[a].pc \in InTransaction \cup {"idle"}
  BY TransactionBase, EnterDeliveryInside DEF Inside, Threads, InTransaction
<1>2. DroppingRecord' => DroppingRecord
  BY <1>1 DEF DroppingRecord, ThreadStep, InTransaction
<1>3. handler[a].pc \notin {"reopen", "clear"}
  BY DEF EnterDelivery, Transaction, SettleApplied, CheckApprovals, Land, ResolveConflict,
         RecordApplied, FinishRound, MarkPending, At
<1>4. DroppingRecord => DroppingRecord'
  BY <1>1, <1>3 DEF DroppingRecord, ThreadStep
<1>5. CASE EnterDelivery(a)
  BY <1>1, <1>2, <1>4, <1>5 DEF EnterDelivery, Dones, ThreadStep, SameSetup
<1>6. CASE Transaction(a)
  <2>1. project.phase # "DONE"
    BY <1>6, TransactionBase DEF Inside
  <2>2. project'.phase = "DONE" => IsApplied(delivery')
    <3>1. \A b \in Agents : RevokeReady(project, b).phase # "DONE"
      BY <2>1, RevokeRound DEF SameRound
    <3>2. CASE CheckApprovals(a)
      BY <2>1, <3>1, <3>2, CheckApprovalsInside
    <3>3. CASE SettleApplied(a) \/ FinishRound(a)
      BY <3>3, SettleAppliedInside, FinishRoundInside
    <3>4. CASE Land(a) \/ ResolveConflict(a) \/ RecordApplied(a) \/ MarkPending(a)
      BY <2>1, <3>4, LandInside, ResolveConflictInside, RecordAppliedInside, MarkPendingInside
    <3> QED
      BY <1>6, <3>2, <3>3, <3>4 DEF Transaction
  <2>3. disk'.project.phase = "DONE" => IsApplied(disk'.delivery)
    BY <1>1, <2>2 DEF ThreadStep, SaveOrNot, Dones
  <2> QED
    BY <1>1, <1>2, <2>2, <2>3 DEF Dones, ThreadStep, SameSetup
<1> QED
  BY <1>5, <1>6

\* So does recovery.
LEMMA RecoveryDones ==
  ASSUME Pieces, Base, Dones, Recovery
  PROVE  Dones'
<1> USE OfflineFacts
<1>1. OfflineStay
  BY RecoveryStay
<1>2. \A t \in Threads : handler'[t].pc = "idle"
  BY <1>1 DEF OfflineStay, Base, Locked
<1>3. ~DroppingRecord'
  BY <1>2 DEF DroppingRecord
<1>4. SUFFICES project'.phase = "DONE" => IsApplied(delivery')
  BY <1>1, <1>3, <1>4 DEF Dones, OfflineStay, SaveOrNot
<1>5. proc # "live" /\ (project.phase = "DONE" => IsApplied(delivery))
  BY <1>1 DEF OfflineStay, Dones
<1>6. CASE Resume
  BY <1>5, <1>6, ReconcileFacts DEF Resume, Load
<1>7. CASE CloseWindow
  BY <1>7, OfflineKinds DEF Dones
<1>8. CASE BeginHandOff /\ ~IsApplied(delivery)
  BY <1>5, <1>8, OfflineKinds DEF Dones
<1>9. CASE UNCHANGED <<project, delivery, disk>>
  BY <1>5, <1>9
<1>10. CASE OfflineRecord
  BY <1>10 DEF OfflineRecord, Load, Applied, IsApplied
<1> QED
  BY <1>6, <1>7, <1>8, <1>9, <1>10
  DEF Recovery, ReconcileDelivery, Apply, NeedsDelivery, OfflineLand

\* A crash goes back to a checkpoint that has the receipt if it is of an ended round.
LEMMA CrashDones == ASSUME Pieces, Dones, Crash PROVE Dones'
<1>1. ~DroppingRecord' /\ SameSetup
  BY SetupKept DEF Crash, DroppingRecord, Idle
<1> QED
  BY <1>1 DEF Crash, Load, Dones

\* The environment changes nothing Dones speaks of.
LEMMA StillDones == ASSUME Dones, Still PROVE Dones'
BY DEF Still, Dones, DroppingRecord

\* Every step keeps Dones.
LEMMA NextDones ==
  ASSUME Pieces, Base, Steady, OneRound, budget.plans = 1, Dones, [Next]_vars
  PROVE  Dones'
<1>1. CASE AsideStep \/ AsideFast \/ Aside("Austin")
  BY <1>1, AsideKinds, AsideDones
<1>2. CASE \E t \in {"Human", "Austin"} : Drops(t) \/ Reopens(t)
  BY <1>2, NewRoundDones
<1>3. CASE \E a \in Agents : EnterDelivery(a) \/ Transaction(a)
  BY <1>3, TransactionDones
<1>4. CASE Environment \/ UNCHANGED vars
  BY <1>4, EnvironmentStill, StillDones DEF vars, Still
<1>5. CASE Crash \/ Recovery
  BY <1>5, CrashDones, RecoveryDones
<1> QED
  BY <1>1, <1>2, <1>3, <1>4, <1>5, NextKinds

\* A live session in DONE holds the applied record of its round.
THEOREM DoneHoldsReceipt == ASSUME SingleRounds PROVE Spec => []DoneHasReceipt
<1> DEFINE Single == Steady /\ budget.plans = 1
           Inv == Guarded /\ OneRound /\ (Single => Dones)
<1>1. Init => Inv
  <2> SUFFICES ASSUME Init PROVE Inv
    OBVIOUS
  <2>1. OneRound
    BY SingleRounds DEF Init, OneRound, SingleRounds
  <2>2. Dones
    BY DeliveryAssumption, NewStateSound
    DEF Init, Dones, DroppingRecord, Idle, Threads, DeliveryAssumption, Setup
  <2> QED
    BY <2>1, <2>2, InitGuarded
<1>2. Inv /\ [Next]_vars => Inv'
  <2> SUFFICES ASSUME Inv, [Next]_vars PROVE Inv'
    OBVIOUS
  <2>1. Guarded' /\ Pieces /\ SameSetup
    BY NextGuarded, SetupIsConstant DEF Guarded
  <2>2. OneRound' /\ (Single' => Single)
    BY <2>1 DEF SameSetup, Steady, OneRound
  <2> QED
    BY <2>1, <2>2, NextDones DEF Guarded
<1>3. Inv => DoneHasReceipt
  BY DEF DoneHasReceipt, Dones, Steady
<1> QED
  BY <1>1, <1>2, <1>3, PTL DEF Spec
============================================================================
