----------------------------- MODULE StepQueue -----------------------------
(***************************************************************************)
(* The domain state of a STEP session (stepWorkflow): a queue of steps the *)
(* agents approve in PLAN, each worked and landed under its own policy.    *)
(*                                                                         *)
(*   FAST step  EXECUTE -> REVIEW -> INTEGRATE, on Austin's submission and *)
(*              Tony's verdict about it                                    *)
(*   GOAL step  EXECUTE -> REVIEW -> INTEGRATE, on two signatures each     *)
(*   any step   INTEGRATE -> EXECUTE of the next one, when it has landed   *)
(*                                                                         *)
(* The last step lands, whatever its policy, on both agents' INTEGRATE     *)
(* signatures.  The cursor is the first step that has not landed.  Pure    *)
(* operators: State.mu makes each of them one atomic step.                 *)
(***************************************************************************)
EXTENDS Project, Sequences

Policies == {"FAST", "GOAL"}

\* A step has landed (is ticked) when its delivery head is recorded.
Step == [policy : Policies, head : Ref, verdict : Verdict, landed : Ref]
Fresh(policy) ==
  [policy |-> policy, head |-> NoRef, verdict |-> NoVerdict, landed |-> NoRef]
Ticked(s) == s.landed # NoRef

StepState ==
  [phase : ValidPhases["GOAL"], plan : BOOLEAN, version : Nat, steps : Seq(Step),
   ready : [Agents -> BOOLEAN], evidence : [Agents -> Ref]]

NewQueue ==
  [phase |-> "PLAN", plan |-> FALSE, version |-> 0, steps |-> <<>>,
   ready |-> NobodyReady, evidence |-> NoEvidence]

Open(p) == {i \in DOMAIN p.steps : ~Ticked(p.steps[i])}

\* FirstOpenStep: one past the end of a queue that has landed completely.
Cursor(p) ==
  IF Open(p) = {} THEN Len(p.steps) + 1
  ELSE CHOOSE i \in Open(p) : \A j \in Open(p) : i <= j

Finished(p) == Open(p) = {} /\ p.steps # <<>>
HasStep(p) == Open(p) # {}
Current(p) == p.steps[Cursor(p)]
IsFinal(p) == Cursor(p) >= Len(p.steps)
PolicyOf(p) == IF HasStep(p) THEN Current(p).policy ELSE "FAST"

WithCurrent(p, s) == [p EXCEPT !.steps[Cursor(p)] = s]

----------------------------------------------------------------------------
(***************************************************************************)
(* PLAN: the plan and the queue.                                           *)
(***************************************************************************)
StepPlan(p) == [ResetApprovals(p) EXCEPT !.plan = TRUE, !.version = p.version + 1]

\* A queue is replaced in PLAN only; later it can only grow.
CanSetSteps(p, append) ==
  p.phase = "PLAN" \/ (append /\ p.phase # "DONE")

SetSteps(p, policies) ==
  LET new == [i \in DOMAIN policies |-> Fresh(policies[i])]
  IN  IF p.phase = "PLAN" THEN [ResetApprovals(p) EXCEPT !.steps = new]
      ELSE [p EXCEPT !.steps = @ \o new]

----------------------------------------------------------------------------
(***************************************************************************)
(* stepWorkflow.setReady.  Signatures gate PLAN, every phase of a GOAL     *)
(* step and INTEGRATE; a FAST step is submitted and withdrawn by Austin.   *)
(***************************************************************************)
SignsIn(p) ==
  \/ p.phase = "PLAN"
  \/ p.phase \in {"EXECUTE", "REVIEW", "INTEGRATE"} /\ PolicyOf(p) = "GOAL"
  \/ p.phase = "INTEGRATE" /\ IsFinal(p)

CanSignStep(p, r) ==
  SignsIn(p) /\ (p.phase = "PLAN" /\ r => p.plan /\ p.steps # <<>>)

SignStep(p, a, r, e) ==
  LET q == [p EXCEPT !.ready[a] = r, !.evidence[a] = IF r THEN e ELSE NoRef]
  IN  IF BothReady(q) /\ q.phase # "INTEGRATE"
      THEN [ResetApprovals(q) EXCEPT !.phase = NextPhase[q.phase]] ELSE q

\* A FAST step waits for Austin's submission, or for Tony's verdict on it.
Fast(p, phase) == p.phase = phase /\ PolicyOf(p) = "FAST" /\ HasStep(p)

Submit(p, head) ==
  [WithCurrent(p, [Current(p) EXCEPT !.head = head, !.verdict = NoVerdict])
     EXCEPT !.phase = "REVIEW"]

WithdrawStep(p) ==
  [WithCurrent(p, [Current(p) EXCEPT !.verdict = NoVerdict]) EXCEPT !.phase = "EXECUTE"]

CanSetStepReady(p, a, r) ==
  \/ CanSignStep(p, r)
  \/ Fast(p, "EXECUTE") /\ a = "Austin"
  \/ Fast(p, "REVIEW")

SetStepReady(p, a, r, e) ==
  CASE SignsIn(p) -> SignStep(p, a, r, e)
    [] Fast(p, "EXECUTE") /\ r -> Submit(p, e)
    [] Fast(p, "REVIEW") /\ a = "Austin" /\ ~r -> WithdrawStep(p)
    [] OTHER -> p

\* stepWorkflow.setVerification: the verdict is about the head submitted.
CanVerify(p, result, head) ==
  /\ Fast(p, "REVIEW")
  /\ result = "passed" => head = Current(p).head

Verify(p, result) ==
  [WithCurrent(p, [Current(p) EXCEPT
                     !.verdict = [status |-> result, on |-> Current(p).head]])
     EXCEPT !.phase = IF result = "passed" THEN "INTEGRATE" ELSE "EXECUTE"]

----------------------------------------------------------------------------
(***************************************************************************)
(* Landing, completing, revoking, reopening.                               *)
(***************************************************************************)
CanLandStep(p, head) ==
  /\ p.phase = "INTEGRATE" /\ HasStep(p)
  /\ \A i \in DOMAIN p.steps : p.steps[i].landed # head

LandStep(p, head) ==
  LET q == WithCurrent(p, [Current(p) EXCEPT !.landed = head])
  IN  IF HasStep(q) THEN [ResetApprovals(q) EXCEPT !.phase = "EXECUTE"] ELSE q

CanCompleteQueue(p) == p.phase = "INTEGRATE" /\ Finished(p) /\ BothReady(p)
CompleteQueue(p) == [p EXCEPT !.phase = "DONE"]

CanRevokeStep(p) == HasStep(p) /\ p.phase \in {"REVIEW", "INTEGRATE"}

RevokeStep(p) ==
  LET q == WithCurrent(p, [Current(p) EXCEPT !.head = NoRef, !.verdict = NoVerdict])
  IN  [(IF PolicyOf(p) = "GOAL" THEN ResetApprovals(q) ELSE q) EXCEPT !.phase = "EXECUTE"]

RevokeSignature(p, a) == [p EXCEPT !.ready[a] = FALSE, !.evidence[a] = NoRef]

ReopenQueue(p) == [ResetApprovals(p) EXCEPT !.phase = "PLAN", !.plan = FALSE, !.steps = <<>>]
=============================================================================
