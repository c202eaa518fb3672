------------------------------ MODULE Project ------------------------------
(***************************************************************************)
(* The domain state of a Duo session (src/internal/project): which phase   *)
(* the two agents are in and what each of them has signed.  Pure operators *)
(* from a project record to a project record, for the GOAL and FAST modes: *)
(*                                                                         *)
(*   GOAL   PLAN -> EXECUTE -> REVIEW -> INTEGRATE -> DONE                 *)
(*          every edge needs both agents' signature; the last one also     *)
(*          needs the delivery of the approved artifact (Complete)         *)
(*   FAST   RUNNING -> VERIFY -> DONE                                      *)
(*          Austin asks for a verdict, Tony alone gives it                 *)
(*                                                                         *)
(* State.mu makes each of these one atomic step.  Texts (the plan, notes)  *)
(* are left out, except whether a plan exists.                             *)
(***************************************************************************)
EXTENDS Naturals

Agents == {"Austin", "Tony"}
Peer(a) == IF a = "Austin" THEN "Tony" ELSE "Austin"

Modes == {"GOAL", "FAST"}

(***************************************************************************)
(* A signature's evidence: a plan version, a commit, or the empty string.  *)
(***************************************************************************)
Ref == [kind : {"none", "plan", "head"}, of : Nat]
NoRef == [kind |-> "none", of |-> 0]
PlanRef(n) == [kind |-> "plan", of |-> n]
HeadRef(h) == [kind |-> "head", of |-> h]

Verdict == [status : {"none", "passed", "issue"}, on : Ref]
NoVerdict == [status |-> "none", on |-> NoRef]

(***************************************************************************)
(* Mode.initialPhase, Mode.validPhase and Mode.Next.                       *)
(***************************************************************************)
InitialPhase == [GOAL |-> "PLAN", FAST |-> "RUNNING"]
ValidPhases == [GOAL |-> {"PLAN", "EXECUTE", "REVIEW", "INTEGRATE", "DONE"},
                FAST |-> {"RUNNING", "VERIFY", "DONE"}]
NextPhase == [PLAN |-> "EXECUTE", EXECUTE |-> "REVIEW", REVIEW |-> "INTEGRATE"]

Phases == ValidPhases["GOAL"] \cup ValidPhases["FAST"]

ProjectRecord ==
  [mode : Modes, phase : Phases,
   plan : BOOLEAN,             \* is there a shared plan?
   version : Nat,              \* planVersion
   ready : [Agents -> BOOLEAN], evidence : [Agents -> Ref],
   verdict : Verdict]

\* Restore accepts no phase that its mode does not have.
ProjectState == {p \in ProjectRecord : p.phase \in ValidPhases[p.mode]}

NobodyReady == [a \in Agents |-> FALSE]
NoEvidence == [a \in Agents |-> NoRef]

NewState(mode) ==
  [mode |-> mode, phase |-> InitialPhase[mode], plan |-> FALSE, version |-> 0,
   ready |-> NobodyReady, evidence |-> NoEvidence, verdict |-> NoVerdict]

ResetApprovals(p) == [p EXCEPT !.ready = NobodyReady, !.evidence = NoEvidence]

BothReady(p) == \A a \in Agents : p.ready[a]

----------------------------------------------------------------------------
(***************************************************************************)
(* GOAL: the shared plan and the signatures.                               *)
(***************************************************************************)
CanSetPlan(p) == p.mode = "GOAL" /\ p.phase = "PLAN"

SetPlan(p) ==
  [ResetApprovals(p) EXCEPT !.plan = TRUE, !.version = p.version + 1]

CanSign(p, r) ==
  /\ p.phase # "DONE"
  /\ (p.phase = "PLAN" /\ r) => p.plan

Signed(p, a, r, e) ==
  [p EXCEPT !.ready[a] = r, !.evidence[a] = IF r THEN e ELSE NoRef]

\* Both signatures advance the chain and are dropped with the phase they
\* were about; in INTEGRATE they stay, for the delivery they authorise.
Sign(p, a, r, e) ==
  LET s == Signed(p, a, r, e)
  IN  IF BothReady(s) /\ s.phase # "INTEGRATE"
      THEN [ResetApprovals(s) EXCEPT !.phase = NextPhase[s.phase]]
      ELSE s

(***************************************************************************)
(* FAST: ready = TRUE is Austin's request for a verdict on e, ready =      *)
(* FALSE withdraws it.                                                     *)
(***************************************************************************)
CanRequest(p, a, r, e) ==
  /\ p.phase # "DONE"
  /\ a = "Austin"
  /\ (p.phase = "RUNNING" /\ r) => e # NoRef

Request(p, r, e) ==
  CASE p.phase = "RUNNING" /\ r ->
         [p EXCEPT !.phase = "VERIFY", !.verdict = [status |-> "none", on |-> e]]
    [] p.phase = "VERIFY" /\ ~r ->
         [p EXCEPT !.phase = "RUNNING", !.verdict = NoVerdict]
    [] OTHER -> p

(***************************************************************************)
(* State.SetReady dispatches on the mode the session is in when the lock   *)
(* is taken, which need not be the mode its caller saw.                    *)
(***************************************************************************)
CanSetReady(p, a, r, e) ==
  IF p.mode = "GOAL" THEN CanSign(p, r) ELSE CanRequest(p, a, r, e)

SetReady(p, a, r, e) ==
  IF p.mode = "GOAL" THEN Sign(p, a, r, e) ELSE Request(p, r, e)

\* Mutant: Tony is taken to be the last to approve.
ReadyByTony(p, a, r, e) ==
  /\ p.mode = "GOAL" /\ p.phase = "INTEGRATE"
  /\ r /\ a = "Tony" /\ ~p.ready["Tony"]
  /\ p.ready["Austin"]

\* Transition.ReadyForDelivery: the edge, not the level, of the final approval.
ReadyForDelivery(p, a, r, e) ==
  /\ p.mode = "GOAL" /\ p.phase = "INTEGRATE"
  /\ r /\ ~p.ready[a]
  /\ p.ready[Peer(a)]

----------------------------------------------------------------------------
(***************************************************************************)
(* FAST: Tony's verdict, bound to the head Austin asked about.             *)
(***************************************************************************)
CanSetVerification(p, result, head) ==
  /\ p.mode = "FAST" /\ p.phase = "VERIFY"
  /\ result = "passed" => p.verdict.on = head

SetVerification(p, result) ==
  [p EXCEPT !.verdict.status = result,
            !.phase = IF result = "passed" THEN "VERIFY" ELSE "RUNNING"]

Passed(p, head) == p.verdict.status = "passed" /\ p.verdict.on = head /\ head # NoRef

(***************************************************************************)
(* Both modes: completing, revoking, reopening, switching.                 *)
(***************************************************************************)
CanComplete(p) ==
  IF p.mode = "GOAL"
  THEN /\ p.phase = "INTEGRATE"
       /\ \A a \in Agents : p.ready[a] /\ p.evidence[a] # NoRef
  ELSE p.phase = "VERIFY" /\ p.verdict.status = "passed"

Complete(p) == [p EXCEPT !.phase = "DONE"]

RevokeReady(p, a) ==
  CASE p.mode = "GOAL" ->
         [p EXCEPT !.ready[a] = FALSE, !.evidence[a] = NoRef]
    [] p.mode = "FAST" /\ p.phase = "VERIFY" ->
         [p EXCEPT !.phase = "RUNNING", !.verdict = NoVerdict]
    [] OTHER -> p

CanReopen(p) == p.phase = "DONE"

Reopen(p) ==
  IF p.mode = "GOAL"
  THEN [ResetApprovals(p) EXCEPT !.phase = "PLAN", !.plan = FALSE]
  ELSE [ResetApprovals(p) EXCEPT !.phase = "RUNNING", !.verdict = NoVerdict]

CanEscalate(p) == p.phase # "DONE" /\ p.mode # "GOAL"

EscalateToGoal(p) ==
  [ResetApprovals(p) EXCEPT !.mode = "GOAL", !.phase = "PLAN", !.plan = TRUE,
     !.version = IF p.plan THEN p.version + 1 ELSE 1,
     !.verdict = NoVerdict]

\* switchModeLocked: DONE stays DONE, anything else starts a new round.
SwitchedMode(p, target) ==
  [ResetApprovals(p) EXCEPT !.mode = target,
     !.phase = IF p.phase = "DONE" THEN "DONE" ELSE InitialPhase[target],
     !.plan = p.phase # "DONE" /\ target = "GOAL",
     !.version = IF p.phase # "DONE" /\ target = "GOAL" THEN 1 ELSE 0,
     !.verdict = NoVerdict]

SwitchMode(p, target) ==
  CASE p.mode = target -> p
    [] p.mode # target /\ target = "GOAL" /\ CanEscalate(p) -> EscalateToGoal(p)
    [] OTHER -> SwitchedMode(p, target)
----------------------------------------------------------------------------
(***************************************************************************)
(* What has been agreed: a GOAL session signed INTEGRATE twice over one    *)
(* head, a FAST session passed one.                                        *)
(***************************************************************************)
Approves(p, r) ==
  /\ r.kind = "head"
  /\ IF p.mode = "GOAL"
     THEN /\ p.phase \in {"INTEGRATE", "DONE"}
          /\ \A a \in Agents : p.ready[a] /\ p.evidence[a] = r
     ELSE Passed(p, r)

Approvals(p) == {r \in {p.evidence["Austin"], p.verdict.on} : Approves(p, r)}
=============================================================================
