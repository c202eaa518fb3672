--------------------------- MODULE Harness_proofs ---------------------------
(***************************************************************************)
(* The idle monitor asks once and asks the right one.  It keeps notes of   *)
(* its own (fast, stalls) beside the tracker's clock and the session; the  *)
(* invariant says when these notes are of the present stall: Noted of the  *)
(* episode in which Tony was asked for a diagnosis, Marked of the reports. *)
(* Queued is what the monitor relies on when it takes a STEP session's     *)
(* phase for a promise that there is a step to work on.                    *)
(***************************************************************************)
EXTENDS Harness, FiniteSetTheorems, TLAPS

USE DEF Modes, Agents

\* The phases of the two modes, and where each of them starts.
LEMMA PhaseFacts ==
  /\ ValidPhases["GOAL"] = {"PLAN", "EXECUTE", "REVIEW", "INTEGRATE", "DONE"}
  /\ ValidPhases["FAST"] = {"RUNNING", "VERIFY", "DONE"}
  /\ InitialPhase["GOAL"] = "PLAN" /\ InitialPhase["FAST"] = "RUNNING"
  /\ NextPhase["PLAN"] = "EXECUTE" /\ NextPhase["EXECUTE"] = "REVIEW"
  /\ NextPhase["REVIEW"] = "INTEGRATE"
BY DEF ValidPhases, InitialPhase, NextPhase

\* The three kinds of evidence and their parts.
LEMMA RefFacts ==
  /\ NoRef \in Ref /\ NoRef.kind = "none"
  /\ \A n \in Nat : PlanRef(n) \in Ref /\ HeadRef(n) \in Ref
  /\ \A n \in Nat : HeadRef(n).kind = "head" /\ HeadRef(n).of = n
  /\ \A r \in Ref : r.of \in Nat /\ (r.kind = "head" => r = HeadRef(r.of))
BY DEF Ref, NoRef, PlanRef, HeadRef

\* A FAST session stays one, whatever is asked, judged or finished.
FastState(q) == q \in ProjectState /\ q.mode = "FAST"

LEMMA FastMoves ==
  ASSUME NEW q, FastState(q)
  PROVE  /\ \A a \in Agents, e \in Ref :
              CanSetReady(q, a, TRUE, e) => FastState(SetReady(q, a, TRUE, e)) /\ a = "Austin"
         /\ \A result \in {"passed", "issue"}, h \in Ref :
              CanSetVerification(q, result, h) => FastState(SetVerification(q, result))
         /\ CanComplete(q) => FastState(Complete(q)) /\ q.phase = "VERIFY"
<1> USE PhaseFacts, RefFacts DEF FastState, ProjectState, ProjectRecord, Phases, Verdict, NoVerdict
<1>1. ASSUME NEW a \in Agents, NEW e \in Ref, CanSetReady(q, a, TRUE, e)
      PROVE  FastState(SetReady(q, a, TRUE, e)) /\ a = "Austin"
  BY <1>1 DEF CanSetReady, CanRequest, SetReady, Request
<1>2. ASSUME NEW result \in {"passed", "issue"}, NEW h \in Ref, CanSetVerification(q, result, h)
      PROVE  FastState(SetVerification(q, result))
  BY <1>2 DEF CanSetVerification, SetVerification
<1>3. ASSUME CanComplete(q) PROVE FastState(Complete(q)) /\ q.phase = "VERIFY"
  BY <1>3 DEF CanComplete, Complete
<1> QED
  BY <1>1, <1>2, <1>3

\* The steps have landed in order, and there is one to land wherever agents work.
Queued(q) ==
  /\ q \in StepState
  /\ \E k \in 1 .. Len(q.steps) + 1 : \A i \in 1 .. Len(q.steps) : Ticked(q.steps[i]) <=> i < k
  /\ q.phase \in {"EXECUTE", "REVIEW"} => HasStep(q)
  /\ q.phase = "PLAN" /\ q.steps # <<>> => HasStep(q)

InMode ==
  /\ setup.mode = "FAST" => p \in ProjectState /\ p.mode = "FAST"
  /\ setup.mode = "STEP" => Queued(p)

\* While an episode is current it is Austin's turn, and a diagnosis that was asked for is
\* noted in it; Austin does not come back to life without a sign that the tracker sees.
Noted ==
  /\ fast.seen = "current" => setup.mode = "FAST" /\ p.phase = "RUNNING" /\ fast.phase = "RUNNING"
  /\ asked \in {0, 1}
  /\ asked = 1 => fast.seen = "current" /\ fast.diagnosed /\ ~Busy("Austin")

\* A stall that was reported is marked.
Marked ==
  /\ stalls \in [Agents -> BOOLEAN] /\ reported \in [Agents -> {0, 1}]
  /\ \A a \in Agents : reported[a] = 1 => stalls[a]

IInv ==
  /\ setup \in Setups /\ link \in [Agents -> BOOLEAN]
  /\ TypeOK /\ InMode /\ Noted /\ Marked

----------------------------------------------------------------------------
\* The cursor is the step up to which all have landed.
LEMMA CursorIs ==
  ASSUME NEW q, q.steps \in Seq(Step), NEW k \in 1 .. Len(q.steps) + 1,
         \A i \in 1 .. Len(q.steps) : Ticked(q.steps[i]) <=> i < k
  PROVE  /\ Cursor(q) = k
         /\ HasStep(q) <=> k <= Len(q.steps)
         /\ Finished(q) <=> k > Len(q.steps) /\ q.steps # <<>>
<1>1. Len(q.steps) \in Nat /\ DOMAIN q.steps = 1 .. Len(q.steps)
  OBVIOUS
<1>2. Open(q) = k .. Len(q.steps)
  BY <1>1 DEF Open
<1>3. CASE k > Len(q.steps)
  <2>1. Open(q) = {}
    BY <1>1, <1>2, <1>3
  <2> QED
    BY <1>1, <1>3, <2>1 DEF Cursor, HasStep, Finished
<1>4. CASE k <= Len(q.steps)
  <2>1. k \in Open(q) /\ \A j \in Open(q) : k <= j
    BY <1>1, <1>2, <1>4
  <2>2. \A i \in Open(q) : (\A j \in Open(q) : i <= j) => i = k
    BY <1>1, <1>2, <2>1
  <2>3. Cursor(q) = k
    BY <2>1, <2>2 DEF Cursor
  <2> QED
    BY <1>1, <1>4, <2>1, <2>3 DEF HasStep, Finished
<1> QED
  BY <1>1, <1>3, <1>4

\* The step under the cursor of a queue.
LEMMA QueueFacts ==
  ASSUME NEW q, Queued(q)
  PROVE  /\ q \in StepState /\ q.steps \in Seq(Step) /\ Len(q.steps) \in Nat
         /\ DOMAIN q.steps = 1 .. Len(q.steps)
         /\ Cursor(q) \in 1 .. Len(q.steps) + 1
         /\ \A i \in 1 .. Len(q.steps) : q.steps[i] \in Step /\ (Ticked(q.steps[i]) <=> i < Cursor(q))
         /\ HasStep(q) <=> Cursor(q) <= Len(q.steps)
         /\ HasStep(q) => Current(q) \in Step /\ PolicyOf(q) \in Policies
         /\ q.phase \in {"PLAN", "EXECUTE", "REVIEW", "INTEGRATE", "DONE"}
         /\ q.ready \in [Agents -> BOOLEAN] /\ q.evidence \in [Agents -> Ref]
<1>1. q \in StepState /\ q.steps \in Seq(Step)
  BY DEF Queued, StepState
<1>2. PICK k \in 1 .. Len(q.steps) + 1 : \A i \in 1 .. Len(q.steps) : Ticked(q.steps[i]) <=> i < k
  BY DEF Queued
<1>3. Cursor(q) = k /\ (HasStep(q) <=> k <= Len(q.steps))
  BY <1>1, <1>2, CursorIs
<1>4. Len(q.steps) \in Nat /\ DOMAIN q.steps = 1 .. Len(q.steps)
      /\ \A i \in 1 .. Len(q.steps) : q.steps[i] \in Step
  BY <1>1
<1>5. HasStep(q) => Current(q) \in Step /\ PolicyOf(q) \in Policies
  BY <1>3, <1>4 DEF Current, PolicyOf, Step
<1> QED
  BY <1>1, <1>2, <1>3, <1>4, <1>5, PhaseFacts DEF StepState

\* A queue with the same landings is a queue where it is worked on as before.
LEMMA SameLandings ==
  ASSUME NEW q, Queued(q), NEW r, r \in StepState, Len(r.steps) = Len(q.steps),
         \A i \in 1 .. Len(q.steps) : Ticked(r.steps[i]) = Ticked(q.steps[i]),
         r.phase \in {"EXECUTE", "REVIEW"} => HasStep(q),
         r.phase = "PLAN" => q.phase = "PLAN" \/ HasStep(q)
  PROVE  Queued(r) /\ (HasStep(r) <=> HasStep(q))
<1>1. r.steps \in Seq(Step) /\ Cursor(q) \in 1 .. Len(r.steps) + 1
      /\ \A i \in 1 .. Len(r.steps) : Ticked(r.steps[i]) <=> i < Cursor(q)
  BY QueueFacts DEF StepState
<1>2. HasStep(r) <=> HasStep(q)
  BY <1>1, CursorIs, QueueFacts
<1>3. q.steps = <<>> <=> r.steps = <<>>
  BY <1>1, QueueFacts
<1> QED
  BY <1>1, <1>2, <1>3 DEF Queued

----------------------------------------------------------------------------
(***************************************************************************)
(* The queue operators that the session moves by.                          *)
(***************************************************************************)
Rewritten(q, s, phase) == [WithCurrent(q, s) EXCEPT !.phase = phase]

\* The queue with its current step rewritten, in another phase.
LEMMA RewrittenIs ==
  ASSUME NEW q, Queued(q), HasStep(q), NEW s, s \in Step, NEW phase,
         phase \in {"EXECUTE", "REVIEW", "INTEGRATE"}
  PROVE  LET r == Rewritten(q, s, phase) IN
         /\ r \in StepState /\ r.phase = phase /\ Len(r.steps) = Len(q.steps)
         /\ \A i \in 1 .. Len(q.steps) : r.steps[i] = IF i = Cursor(q) THEN s ELSE q.steps[i]
<1> DEFINE r == Rewritten(q, s, phase)
<1> DEFINE steps == [q.steps EXCEPT ![Cursor(q)] = s]
<1>1. q \in StepState /\ q.steps \in Seq(Step) /\ Cursor(q) \in 1 .. Len(q.steps)
      /\ DOMAIN q.steps = 1 .. Len(q.steps)
  BY QueueFacts
<1>2. steps \in Seq(Step) /\ Len(steps) = Len(q.steps)
      /\ \A i \in 1 .. Len(q.steps) : steps[i] = IF i = Cursor(q) THEN s ELSE q.steps[i]
  BY <1>1
<1>3. r = [q EXCEPT !.steps = steps, !.phase = phase]
  BY <1>1 DEF WithCurrent, StepState, Rewritten
<1> HIDE DEF steps, r
<1>4. r \in StepState /\ r.phase = phase /\ r.steps = steps
  BY <1>1, <1>2, <1>3, PhaseFacts DEF StepState
<1> QED
  BY <1>2, <1>4 DEF r

\* Rewriting a step without landing it.
LEMMA RewritingKeeps ==
  ASSUME NEW q, Queued(q), HasStep(q), NEW s, s \in Step, s.landed = Current(q).landed, NEW phase,
         phase \in {"EXECUTE", "REVIEW", "INTEGRATE"}
  PROVE  Queued(Rewritten(q, s, phase))
<1> DEFINE r == Rewritten(q, s, phase)
<1>1. /\ r \in StepState /\ r.phase = phase /\ Len(r.steps) = Len(q.steps)
      /\ \A i \in 1 .. Len(q.steps) : r.steps[i] = IF i = Cursor(q) THEN s ELSE q.steps[i]
  BY RewrittenIs
<1> HIDE DEF r
<1>2. \A i \in 1 .. Len(q.steps) : Ticked(r.steps[i]) = Ticked(q.steps[i])
  BY <1>1 DEF Ticked, Current
<1>3. r.phase # "PLAN"
  BY <1>1
<1>4. Queued(r)
  BY <1>1, <1>2, <1>3, SameLandings
<1> QED
  BY <1>4 DEF r

\* Signing, where only the signatures and the phase change.
LEMMA SignStepKeeps ==
  ASSUME NEW q, Queued(q), NEW a \in Agents, CanSignStep(q, TRUE), NEW e \in Ref
  PROVE  Queued(SignStep(q, a, TRUE, e))
<1> DEFINE s == [q EXCEPT !.ready[a] = TRUE, !.evidence[a] = e]
<1>1. /\ s \in StepState /\ s.steps = q.steps /\ s.phase = q.phase
      /\ q.phase \in {"PLAN", "EXECUTE", "REVIEW", "INTEGRATE", "DONE"}
  <2>1. q \in StepState /\ q.ready \in [Agents -> BOOLEAN] /\ q.evidence \in [Agents -> Ref]
    BY QueueFacts
  <2>2. [q.ready EXCEPT ![a] = TRUE] \in [Agents -> BOOLEAN]
        /\ [q.evidence EXCEPT ![a] = e] \in [Agents -> Ref]
    BY <2>1
  <2> QED
    BY <2>1, <2>2, QueueFacts DEF StepState
<1> HIDE DEF s
<1>2. CASE BothReady(s) /\ s.phase # "INTEGRATE"
  <2> DEFINE r == [ResetApprovals(s) EXCEPT !.phase = NextPhase[s.phase]]
  <2>1. q.phase \in {"PLAN", "EXECUTE", "REVIEW"} /\ (q.phase = "PLAN" => q.steps # <<>>)
    BY <1>1, <1>2 DEF CanSignStep, SignsIn
  <2>2. NobodyReady \in [Agents -> BOOLEAN] /\ NoEvidence \in [Agents -> Ref]
    BY RefFacts DEF NobodyReady, NoEvidence
  <2>3. r \in StepState /\ r.steps = q.steps /\ r.phase \in {"EXECUTE", "REVIEW", "INTEGRATE"}
    BY <1>1, <2>1, <2>2, PhaseFacts DEF StepState, ResetApprovals
  <2>4. HasStep(q)
    BY <2>1 DEF Queued
  <2> HIDE DEF r
  <2>5. Queued(r)
    BY <2>3, <2>4, SameLandings
  <2> QED
    BY <1>2, <2>5 DEF r, s, SignStep
<1>3. CASE ~(BothReady(s) /\ s.phase # "INTEGRATE")
  <2>1. Queued(s)
    BY <1>1, SameLandings DEF Queued
  <2> QED
    BY <1>3, <2>1 DEF s, SignStep
<1> QED
  BY <1>2, <1>3

\* What an agent's readiness does to the queue.
LEMMA SetStepReadyKeeps ==
  ASSUME NEW q, Queued(q), NEW a \in Agents, CanSetStepReady(q, a, TRUE), NEW e \in Ref
  PROVE  Queued(SetStepReady(q, a, TRUE, e))
<1>1. CASE SignsIn(q)
  <2>1. CanSignStep(q, TRUE)
    BY <1>1, QueueFacts DEF CanSetStepReady, Fast, CanSignStep
  <2>2. ~Fast(q, "EXECUTE") /\ ~Fast(q, "REVIEW")
    BY <1>1 DEF SignsIn, Fast
  <2>3. SetStepReady(q, a, TRUE, e) = SignStep(q, a, TRUE, e)
    BY <1>1, <2>2 DEF SetStepReady
  <2> QED
    BY <2>1, <2>3, SignStepKeeps
<1>2. CASE ~SignsIn(q) /\ Fast(q, "EXECUTE")
  <2> DEFINE s == [Current(q) EXCEPT !.head = e, !.verdict = NoVerdict]
  <2>1. HasStep(q) /\ Current(q) \in Step
    BY <1>2, QueueFacts DEF Fast
  <2>2. s \in Step /\ s.landed = Current(q).landed
    BY <2>1, RefFacts DEF Step, Verdict, NoVerdict
  <2> HIDE DEF s
  <2>3. Queued(Rewritten(q, s, "REVIEW"))
    BY <2>1, <2>2, RewritingKeeps
  <2> QED
    BY <1>2, <2>3 DEF SetStepReady, Submit, s, Fast, Rewritten
<1>3. CASE ~SignsIn(q) /\ ~Fast(q, "EXECUTE")
  <2>1. SetStepReady(q, a, TRUE, e) = q
    BY <1>3 DEF SetStepReady
  <2> QED
    BY <2>1
<1> QED
  BY <1>1, <1>2, <1>3

\* What Tony's verdict does to it.
LEMMA VerifyKeeps ==
  ASSUME NEW q, Queued(q), NEW result \in {"passed", "issue"}, NEW h, CanVerify(q, result, h)
  PROVE  Queued(Verify(q, result))
<1> DEFINE s == [Current(q) EXCEPT !.verdict = [status |-> result, on |-> Current(q).head]]
<1> DEFINE phase == IF result = "passed" THEN "INTEGRATE" ELSE "EXECUTE"
<1>1. HasStep(q) /\ Current(q) \in Step
  BY QueueFacts DEF CanVerify, Fast
<1>2. s \in Step /\ s.landed = Current(q).landed /\ phase \in {"EXECUTE", "REVIEW", "INTEGRATE"}
  BY <1>1 DEF Step, Verdict
<1> HIDE DEF s, phase
<1>3. Queued(Rewritten(q, s, phase))
  BY <1>1, <1>2, RewritingKeeps
<1> QED
  BY <1>3 DEF Verify, s, phase, Rewritten

\* A landing, and the completion of the queue that may follow it.
LEMMA LandStepKeeps ==
  ASSUME NEW q, Queued(q), CanLandStep(q, HeadRef(Cursor(q)))
  PROVE  LET r == LandStep(q, HeadRef(Cursor(q))) IN
         Queued(IF CanCompleteQueue(r) THEN CompleteQueue(r) ELSE r)
<1> DEFINE k == Cursor(q)
<1> DEFINE s == [Current(q) EXCEPT !.landed = HeadRef(k)]
<1> DEFINE t == Rewritten(q, s, "INTEGRATE")
<1> DEFINE r == LandStep(q, HeadRef(k))
<1>1. HasStep(q) /\ Current(q) \in Step /\ q.phase = "INTEGRATE" /\ k \in 1 .. Len(q.steps)
      /\ Len(q.steps) \in Nat
  BY QueueFacts DEF CanLandStep
<1>2. s \in Step /\ s.landed = HeadRef(k) /\ HeadRef(k) # NoRef
  BY <1>1, RefFacts DEF Step
<1>3. /\ t \in StepState /\ t.phase = "INTEGRATE" /\ Len(t.steps) = Len(q.steps)
      /\ \A i \in 1 .. Len(q.steps) : t.steps[i] = IF i = k THEN s ELSE q.steps[i]
  <2> HIDE DEF s
  <2> QED
    BY <1>1, <1>2, RewrittenIs
<1>4. t = WithCurrent(q, s)
  BY <1>1, QueueFacts DEF WithCurrent, StepState, Rewritten
<1> HIDE DEF t
<1>5. \A i \in 1 .. Len(t.steps) : Ticked(t.steps[i]) <=> i < k + 1
  <2> SUFFICES ASSUME NEW i \in 1 .. Len(t.steps) PROVE Ticked(t.steps[i]) <=> i < k + 1
    OBVIOUS
  <2>1. CASE i = k
    <3>1. t.steps[i].landed # NoRef
      <4> HIDE DEF s
      <4> QED
        BY <1>1, <1>2, <1>3, <2>1
    <3> QED
      BY <1>1, <2>1, <3>1 DEF Ticked
  <2>2. CASE i # k
    <3>1. t.steps[i] = q.steps[i] /\ (Ticked(q.steps[i]) <=> i < k)
      BY <1>3, <2>2, QueueFacts
    <3> QED
      BY <1>1, <1>3, <2>2, <3>1
  <2> QED
    BY <2>1, <2>2
<1> HIDE DEF s
<1>6. Queued(t)
  <2>1. k + 1 \in 1 .. Len(t.steps) + 1
    BY <1>1, <1>3
  <2> HIDE DEF k
  <2> QED
    BY <1>3, <1>5, <2>1 DEF Queued
<1>7. Queued(r)
  <2>1. CASE HasStep(t)
    <3> DEFINE u == [ResetApprovals(t) EXCEPT !.phase = "EXECUTE"]
    <3>1. NobodyReady \in [Agents -> BOOLEAN] /\ NoEvidence \in [Agents -> Ref]
      BY RefFacts DEF NobodyReady, NoEvidence
    <3>2. u \in StepState /\ u.steps = t.steps /\ u.phase = "EXECUTE"
      BY <1>3, <3>1, PhaseFacts DEF StepState, ResetApprovals
    <3> HIDE DEF u
    <3>3. Queued(u)
      BY <1>6, <2>1, <3>2, SameLandings
    <3> QED
      BY <1>4, <2>1, <3>3 DEF LandStep, u, s
  <2>2. CASE ~HasStep(t)
    BY <1>4, <1>6, <2>2 DEF LandStep, s
  <2> QED
    BY <2>1, <2>2
<1> HIDE DEF r
<1>8. Queued(CompleteQueue(r))
  <2>1. CompleteQueue(r) \in StepState /\ CompleteQueue(r).steps = r.steps
        /\ CompleteQueue(r).phase = "DONE"
    BY <1>7, PhaseFacts DEF Queued, StepState, CompleteQueue
  <2> HIDE DEF CompleteQueue
  <2> QED
    BY <1>7, <2>1, SameLandings
<1> QED
  BY <1>7, <1>8 DEF r

\* A session that begins in STEP.
LEMMA BeginningIsQueued ==
  ASSUME NEW q \in StepState, q.phase = "PLAN", \A i \in DOMAIN q.steps : ~Ticked(q.steps[i])
  PROVE  Queued(q)
<1>1. q.steps \in Seq(Step) /\ Len(q.steps) \in Nat /\ DOMAIN q.steps = 1 .. Len(q.steps)
  BY DEF StepState
<1>2. \A i \in 1 .. Len(q.steps) : Ticked(q.steps[i]) <=> i < 1
  BY <1>1
<1>3. q.steps # <<>> => HasStep(q)
  BY <1>1, <1>2, CursorIs
<1> QED
  BY <1>1, <1>2, <1>3 DEF Queued

----------------------------------------------------------------------------
(***************************************************************************)
(* The tracker: a sign of life.                                            *)
(***************************************************************************)
\* What an activity makes of a row.
LEMMA HandledRow ==
  ASSUME NEW r \in Rows, (r.provider \/ r.tools > 0) => r.busy, NEW activity \in Activities,
         activity = "tool_start" => r.tools = 0
  PROVE  LET t == Handled(r, activity) IN
         t \in Rows /\ ((t.provider \/ t.tools > 0) => t.busy)
<1>1. 0 \in 0 .. StallThreshold
  BY ThresholdsAssumption
<1> DEFINE u == [r EXCEPT !.quiet = 0]
<1>2. u \in Rows /\ u.tools = r.tools /\ u.provider = r.provider /\ u.busy = r.busy
  BY <1>1 DEF Rows
<1> HIDE DEF u
<1>3. Handled(r, activity) =
        CASE activity = "agent_start" -> [u EXCEPT !.busy = TRUE, !.failures = 0]
          [] activity = "agent_settled" -> [u EXCEPT !.busy = FALSE, !.provider = FALSE, !.tools = 0]
          [] activity = "provider_start" -> [u EXCEPT !.busy = TRUE, !.provider = TRUE]
          [] activity = "provider_end" -> [u EXCEPT !.provider = FALSE]
          [] activity = "tool_start" -> [u EXCEPT !.busy = TRUE, !.provider = FALSE, !.tools = @ + 1]
          [] activity = "tool_end" -> [u EXCEPT !.tools = IF @ > 0 THEN @ - 1 ELSE 0]
          [] activity = "stream" -> [u EXCEPT !.busy = TRUE]
  BY DEF Handled, u
<1>4. CASE activity \in {"agent_start", "agent_settled", "provider_start"}
  <2>1. 0 \in 0 .. 1 /\ 0 \in Nat /\ ~(0 > 0)
    OBVIOUS
  <2>2. CASE activity = "agent_start"
    BY <1>2, <1>3, <2>1, <2>2 DEF Rows
  <2>3. CASE activity = "agent_settled"
    <3>1. Handled(r, activity) = [u EXCEPT !.busy = FALSE, !.provider = FALSE, !.tools = 0]
      BY <1>3, <2>3
    <3> QED
      BY <1>2, <2>1, <3>1 DEF Rows
  <2>4. CASE activity = "provider_start"
    BY <1>2, <1>3, <2>1, <2>4 DEF Rows
  <2> QED
    BY <1>4, <2>2, <2>3, <2>4
<1>5. CASE activity = "tool_start"
  <2>1. Handled(r, activity) = [u EXCEPT !.busy = TRUE, !.provider = FALSE, !.tools = 1]
    <3>1. u.tools + 1 = 1
      BY <1>2, <1>5
    <3>2. Handled(r, activity) = [u EXCEPT !.busy = TRUE, !.provider = FALSE, !.tools = @ + 1]
      BY <1>3, <1>5
    <3> QED
      BY <3>1, <3>2
  <2>2. 1 \in 0 .. 1
    OBVIOUS
  <2> QED
    BY <1>2, <2>1, <2>2 DEF Rows
<1>6. CASE activity = "tool_end"
  <2>1. Handled(r, activity) = [u EXCEPT !.tools = 0]
    BY <1>2, <1>3, <1>6 DEF Rows
  <2> QED
    BY <1>2, <2>1 DEF Rows
<1>7. CASE activity \in {"provider_end", "stream"}
  BY <1>2, <1>3, <1>7 DEF Rows
<1> QED
  BY <1>4, <1>5, <1>6, <1>7 DEF Activities

\* Whatever is noticed of an agent while the session, the clock and the links stay, or
\* the links of others do.
LEMMA NoticedKeeps ==
  ASSUME IInv, NEW a \in Agents, NEW r \in Rows, (r.provider \/ r.tools > 0) => r.busy,
         Noticed(a, r), link' \in [Agents -> BOOLEAN], UNCHANGED <<setup, grace, rested>>,
         \/ UNCHANGED <<p, mutated>>
         \/ mutated' = 0 /\ InMode' /\ (asked = 1 \/ fast.seen = "current" => a = "Austin")
  PROVE  IInv'
<1>1. TypeOK'
  <2>1. rt \in [Agents -> Rows] /\ rt' = [rt EXCEPT ![a] = r]
    BY DEF IInv, TypeOK, Noticed
  <2>2. rt' \in [Agents -> Rows]
    BY <2>1
  <2>3. \A b \in Agents : (rt'[b].provider \/ rt'[b].tools > 0) => rt'[b].busy
    BY <2>1 DEF IInv, TypeOK
  <2>4. mutated' \in 0 .. StallThreshold
    BY ThresholdsAssumption DEF IInv, TypeOK
  <2> QED
    BY <2>2, <2>3, <2>4 DEF IInv, TypeOK, Noticed
<1>2. InMode'
  BY DEF IInv, InMode
<1>3. Noted'
  <2>1. CASE a = "Austin"
    <3>1. asked' = 0 /\ fast'.seen # "current"
      BY <2>1 DEF IInv, TypeOK, Noticed
    <3> QED
      BY <3>1 DEF Noted
  <2>2. CASE a # "Austin" /\ UNCHANGED <<p, mutated>>
    <3>1. fast' = fast /\ asked' = asked /\ rt'["Austin"] = rt["Austin"]
      BY <2>2 DEF IInv, TypeOK, Noticed
    <3>2. Busy("Austin")' <=> Busy("Austin")
      BY <2>2, <3>1 DEF Busy, Active, Stalled, QuietFor
    <3> QED
      BY <2>2, <3>1, <3>2 DEF IInv, Noted
  <2>3. CASE a # "Austin" /\ ~UNCHANGED <<p, mutated>>
    <3>1. fast' = fast /\ asked' = asked /\ asked # 1 /\ fast.seen # "current"
      BY <2>3 DEF Noticed
    <3> QED
      BY <3>1 DEF IInv, Noted
  <2> QED
    BY <2>1, <2>2, <2>3
<1>4. Marked'
  BY DEF IInv, Marked, Noticed
<1> QED
  BY <1>1, <1>2, <1>3, <1>4 DEF IInv

----------------------------------------------------------------------------
(***************************************************************************)
(* The monitor's look.                                                     *)
(***************************************************************************)
\* Which look is taken.
LEMMA LookKinds ==
  ASSUME IInv, Look
  PROVE  \/ Nothing
         \/ setup.mode = "GOAL" /\ LookGoal
         \/ setup.mode = "FAST" /\ LookFast
         \/ setup.mode = "STEP" /\ LookStep
         \/ setup.mode \notin {"GOAL", "FAST", "STEP"} /\ LookLoop
<1>1. grace > 0 \/ grace = 0
  BY ThresholdsAssumption DEF IInv, TypeOK
<1> QED
  BY <1>1 DEF Look

\* A diagnosis is counted for each claim that Tony could be asked for.
LEMMA OneClaim ==
  ASSUME NEW due1 \in BOOLEAN, NEW due2 \in BOOLEAN, ~(due1 /\ due2)
  PROVE  Cardinality({i \in 1 .. 2 : <<due1, due2>>[i]}) = IF due1 \/ due2 THEN 1 ELSE 0
<1> DEFINE c == {i \in 1 .. 2 : <<due1, due2>>[i]}
<1>1. c = IF due1 THEN {1} ELSE IF due2 THEN {2} ELSE {}
  OBVIOUS
<1> HIDE DEF c
<1>2. c = {} \/ \E x : c = {x}
  BY <1>1
<1>3. (due1 \/ due2) <=> c # {}
  BY <1>1
<1> QED
  BY <1>2, <1>3, FS_EmptySet, FS_Singleton DEF c

\* What the look at Austin in RUNNING may do: leave the episode, begin one, or go on with
\* it, where a first diagnosis is noted.
Resumed == fast.seen = "old" /\ fast' = Episode("RUNNING", "current") /\ asked' = asked
Forgotten == Busy("Austin") /\ fast' = NoEpisode /\ asked' = asked
Watched ==
  /\ ~Busy("Austin") /\ fast.seen # "old"
  /\ fast'.seen = "current" /\ fast'.phase = "RUNNING"
  /\ \/ asked' = asked /\ (fast.diagnosed => fast'.diagnosed)
     \/ asked' = asked + 1 /\ ~fast.diagnosed /\ fast'.diagnosed
Episodes == [phase : {"none", "RUNNING", "VERIFY"}, nudges : 0 .. 2, diagnosed : BOOLEAN,
             seen : {"none", "current", "old"}]

\* The operators on an episode.
LEMMA EpisodeFacts ==
  /\ NoEpisode \in Episodes /\ NoEpisode.seen = "none"
  /\ \A phase \in {"RUNNING", "VERIFY"}, seen \in {"none", "current", "old"} :
       LET f == Episode(phase, seen) IN f \in Episodes /\ f.seen = seen /\ f.phase = phase
  /\ \A f \in Episodes : Nudged(f) \in Episodes /\ Nudged(f).seen = f.seen
                         /\ Nudged(f).phase = f.phase /\ Nudged(f).diagnosed = f.diagnosed
  /\ \A f \in Episodes, due \in BOOLEAN :
       LET g == Claimed(f, due) IN
       g \in Episodes /\ g.seen = f.seen /\ g.phase = f.phase /\ g.diagnosed = (due \/ f.diagnosed)
  /\ \A f \in Episodes, phase \in {"RUNNING", "VERIFY"} :
       LET g == Begun(f, phase) IN
       g \in Episodes /\ g.seen = f.seen /\ g.phase = phase /\ (f.phase = phase => g = f)
<1>1. NoEpisode \in Episodes /\ NoEpisode.seen = "none"
  BY DEF NoEpisode, Episodes
<1>2. \A phase \in {"RUNNING", "VERIFY"}, seen \in {"none", "current", "old"} :
       LET f == Episode(phase, seen) IN f \in Episodes /\ f.seen = seen /\ f.phase = phase
  BY DEF Episode, Episodes
<1>3. ASSUME NEW f \in Episodes
      PROVE  Nudged(f) \in Episodes /\ Nudged(f).seen = f.seen
             /\ Nudged(f).phase = f.phase /\ Nudged(f).diagnosed = f.diagnosed
  <2>1. Older(f.nudges, 2) \in 0 .. 2
    BY DEF Older, Episodes
  <2> HIDE DEF Older
  <2> QED
    BY <2>1 DEF Nudged, Episodes
<1>4. ASSUME NEW f \in Episodes, NEW due \in BOOLEAN
      PROVE  LET g == Claimed(f, due) IN
             g \in Episodes /\ g.seen = f.seen /\ g.phase = f.phase /\ g.diagnosed = (due \/ f.diagnosed)
  BY DEF Claimed, Episodes
<1>5. ASSUME NEW f \in Episodes, NEW phase \in {"RUNNING", "VERIFY"}
      PROVE  LET g == Begun(f, phase) IN
             g \in Episodes /\ g.seen = f.seen /\ g.phase = phase /\ (f.phase = phase => g = f)
  <2>1. f.seen \in {"none", "current", "old"}
    BY DEF Episodes
  <2> HIDE DEF Episodes
  <2> QED
    BY <1>2, <2>1 DEF Begun
<1> QED
  BY <1>1, <1>2, <1>3, <1>4, <1>5

\* The look at Austin is of one of these kinds.
LEMMA FastAustinKinds ==
  ASSUME IInv, setup.mode = "FAST", p.phase = "RUNNING", FastAustin
  PROVE  \/ Nothing
         \/ /\ fast' \in Episodes /\ rested' \in {0, rested}
            /\ UNCHANGED <<rt, stalls, reported>>
            /\ Resumed \/ Forgotten \/ Watched
<1> DEFINE f0 == IF fast.seen = "none" THEN [fast EXCEPT !.seen = "current", !.phase = "RUNNING"]
                 ELSE fast
           due1 == rt["Austin"].failures > 0 /\ ~f0.diagnosed
           f1 == Claimed(f0, due1)
           idle == QuietFor("Austin") >= IdleThreshold
           f2 == Begun(f1, "RUNNING")
           f3 == Nudged(f2)
           due2 == f3.nudges >= 2 /\ ~f3.diagnosed
           f4 == Claimed(f3, due2)
           n == Cardinality({i \in 1 .. 2 : <<due1, due2>>[i]})
           away == ~link["Austin"] \/ rt["Austin"].attached
<1>1. fast \in Episodes /\ asked \in {0, 1}
  BY DEF IInv, TypeOK, Noted, Episodes
<1>2. CASE away
  BY <1>2 DEF FastAustin
<1>3. CASE ~away /\ fast.seen = "old"
  <2>1. fast' = Episode("RUNNING", "current") /\ UNCHANGED <<rt, rested, stalls, ghosts>>
    BY <1>3 DEF FastAustin
  <2> QED
    BY <1>3, <2>1, EpisodeFacts DEF Resumed, ghosts
<1>4. CASE ~away /\ fast.seen # "old"
  <2>1. f0 \in Episodes /\ f0.seen = "current" /\ f0.phase = "RUNNING" /\ f0.diagnosed = fast.diagnosed
    BY <1>1, <1>4 DEF IInv, Noted, Episodes
  <2>2. due1 \in BOOLEAN /\ due2 \in BOOLEAN
    OBVIOUS
  <2>3. UNCHANGED <<rt, stalls>>
        /\ \/ /\ Busy("Austin")
              /\ fast' = NoEpisode /\ UNCHANGED <<rested, ghosts>>
           \/ /\ ~Busy("Austin")
              /\ fast' \in {f1, f2}
              /\ Diagnose(IF due1 THEN 1 ELSE 0) /\ UNCHANGED rested
           \/ /\ ~Busy("Austin")
              /\ fast' = f4
              /\ Diagnose(n) /\ rested' = 0
    BY <1>4 DEF FastAustin
  <2>4. f1 \in Episodes /\ f1.seen = "current" /\ f1.phase = "RUNNING"
        /\ f1.diagnosed = (due1 \/ fast.diagnosed)
    <3> HIDE DEF f0, due1
    <3> QED
      BY <2>1, <2>2, EpisodeFacts
  <2>5. f2 = f1
    <3> HIDE DEF f1
    <3> QED
      BY <2>4, EpisodeFacts
  <2>6. f3 \in Episodes /\ f3.seen = "current" /\ f3.phase = "RUNNING" /\ f3.diagnosed = f1.diagnosed
    <3> HIDE DEF f1, f2
    <3> QED
      BY <2>4, <2>5, EpisodeFacts
  <2>7. f4 \in Episodes /\ f4.seen = "current" /\ f4.phase = "RUNNING"
        /\ f4.diagnosed = (due2 \/ f1.diagnosed)
    <3> HIDE DEF f1, f3, due2
    <3> QED
      BY <2>2, <2>6, EpisodeFacts
  <2>8. (due1 => ~fast.diagnosed /\ f1.diagnosed) /\ (due2 => ~f1.diagnosed)
    <3>1. due1 => ~fast.diagnosed
      BY <2>1
    <3>2. due2 => ~f1.diagnosed
      BY <2>6
    <3> HIDE DEF due1, due2, f1
    <3> QED
      BY <2>4, <3>1, <3>2
  <2>9. n = IF due1 \/ due2 THEN 1 ELSE 0
    <3> HIDE DEF due1, due2, f1
    <3> QED
      BY <2>2, <2>8, OneClaim
  <2> HIDE DEF f0, due1, f1, f2, f3, due2, f4, n
  <2>10. CASE Busy("Austin") /\ fast' = NoEpisode /\ UNCHANGED <<rested, ghosts>>
    BY <2>3, <2>10, EpisodeFacts DEF Forgotten, ghosts
  <2>11. CASE /\ ~Busy("Austin") /\ fast' \in {f1, f2}
              /\ Diagnose(IF due1 THEN 1 ELSE 0) /\ UNCHANGED rested
    <3>1. fast' = f1 /\ UNCHANGED <<rested, reported>>
      BY <2>5, <2>11 DEF Diagnose
    <3>2. asked' = asked \/ (asked' = asked + 1 /\ due1)
      BY <1>1, <2>11 DEF Diagnose
    <3> QED
      BY <1>4, <2>3, <2>4, <2>8, <2>11, <3>1, <3>2 DEF Watched
  <2>12. CASE ~Busy("Austin") /\ fast' = f4 /\ Diagnose(n) /\ rested' = 0
    <3>1. asked' = asked \/ (asked' = asked + 1 /\ (due1 \/ due2))
      BY <1>1, <2>9, <2>12 DEF Diagnose
    <3>2. reported' = reported
      BY <2>12 DEF Diagnose
    <3>3. (due1 \/ due2) => ~fast.diagnosed /\ fast'.diagnosed
      BY <1>1, <2>2, <2>4, <2>7, <2>8, <2>12 DEF Episodes
    <3>4. fast.diagnosed => fast'.diagnosed
      BY <2>4, <2>7, <2>12
    <3> QED
      BY <1>4, <2>3, <2>7, <2>12, <3>1, <3>2, <3>3, <3>4 DEF Watched
  <2> QED
    BY <2>3, <2>10, <2>11, <2>12
<1> QED
  BY <1>2, <1>3, <1>4

\* What a look leaves alone.
Aside == UNCHANGED <<setup, p, started, link, held, mutated, grace, count>>

\* A look without a word.
LEMMA NothingKeeps == ASSUME IInv, Aside, Nothing PROVE IInv'
BY DEF IInv, TypeOK, InMode, Noted, Marked, Aside, Nothing, Busy, Active, Stalled, QuietFor, ghosts

\* The look at Austin in RUNNING.
LEMMA FastAustinKeeps ==
  ASSUME IInv, Aside, setup.mode = "FAST", p.phase = "RUNNING", FastAustin
  PROVE  IInv'
<1>1. CASE Nothing
  BY <1>1, NothingKeeps
<1>2. CASE /\ fast' \in Episodes /\ rested' \in {0, rested}
           /\ UNCHANGED <<rt, stalls, reported>>
           /\ Resumed \/ Forgotten \/ Watched
  <2>1. TypeOK'
    BY <1>2, ThresholdsAssumption DEF IInv, TypeOK, Episodes, Aside
  <2>2. Busy("Austin")' <=> Busy("Austin")
    BY <1>2 DEF Busy, Active, Stalled, QuietFor, Aside
  <2>3. p' = p /\ setup' = setup
    BY DEF Aside
  <2>4. Noted'
    <3>1. CASE Resumed
      <4>1. fast'.seen = "current" /\ fast'.phase = "RUNNING" /\ asked' = 0
        BY <3>1, EpisodeFacts DEF IInv, Noted, Resumed
      <4> QED
        BY <2>3, <4>1 DEF Noted
    <3>2. CASE Forgotten
      <4>1. fast'.seen = "none" /\ asked' = 0
        BY <3>2, EpisodeFacts DEF IInv, Noted, Forgotten
      <4> QED
        BY <4>1 DEF Noted
    <3>3. CASE Watched
      <4>1. asked' \in {0, 1} /\ (asked' = 1 => fast'.diagnosed)
        <5>1. CASE asked' = asked /\ (fast.diagnosed => fast'.diagnosed)
          BY <5>1 DEF IInv, Noted
        <5>2. CASE asked' = asked + 1 /\ ~fast.diagnosed /\ fast'.diagnosed
          <6>1. asked = 0
            BY <5>2 DEF IInv, Noted
          <6> QED
            BY <5>2, <6>1
        <5> QED
          BY <3>3, <5>1, <5>2 DEF Watched
      <4> QED
        BY <2>2, <2>3, <3>3, <4>1 DEF Noted, Watched
    <3> QED
      BY <1>2, <3>1, <3>2, <3>3
  <2>5. Marked' /\ InMode' /\ setup' \in Setups /\ link' \in [Agents -> BOOLEAN]
    BY <1>2 DEF IInv, Marked, InMode, Aside
  <2> QED
    BY <2>1, <2>4, <2>5 DEF IInv
<1> QED
  BY <1>1, <1>2, FastAustinKinds

\* The look at Tony in VERIFY.
LEMMA FastTonyKeeps ==
  ASSUME IInv, Aside, setup.mode = "FAST", p.phase = "VERIFY", FastTony
  PROVE  IInv'
<1>1. CASE Nothing
  BY <1>1, NothingKeeps
<1>2. CASE ~Nothing
  <2>1. fast' \in {Begun(fast, "VERIFY"), Nudged(Begun(fast, "VERIFY"))} /\ rested' \in {0, rested}
        /\ UNCHANGED <<rt, stalls, asked, missed, prompts, reported>>
    BY <1>2 DEF FastTony, ghosts
  <2>2. fast \in Episodes /\ fast.seen # "current" /\ asked = 0
    BY DEF IInv, TypeOK, Noted, Episodes
  <2>3. fast' \in Episodes /\ fast'.seen # "current"
    <3>1. Begun(fast, "VERIFY") \in Episodes /\ Begun(fast, "VERIFY").seen = fast.seen
      BY <2>2, EpisodeFacts
    <3> QED
      BY <2>1, <2>2, <3>1, EpisodeFacts
  <2>4. TypeOK'
    BY <2>1, <2>3, ThresholdsAssumption DEF IInv, TypeOK, Episodes, Aside
  <2>5. Noted'
    BY <2>1, <2>2, <2>3 DEF Noted
  <2>6. Marked' /\ InMode' /\ setup' \in Setups /\ link' \in [Agents -> BOOLEAN]
    BY <2>1 DEF IInv, Marked, InMode, Aside
  <2> QED
    BY <2>4, <2>5, <2>6 DEF IInv
<1> QED
  BY <1>1, <1>2

\* A nudge in GOAL or STEP touches whom it wakes.
LEMMA TouchesKeeps ==
  ASSUME IInv, Aside, setup.mode # "FAST", NEW as, Touches(as), rested' = 0
  PROVE  IInv'
<1>1. fast.seen # "current" /\ asked = 0 /\ fast' = fast
  BY DEF IInv, Noted, Touches
<1>2. asked' = asked /\ reported' = reported /\ stalls' = stalls
  BY DEF Touches, ghosts
<1>3. /\ rt' \in [Agents -> Rows]
      /\ \A a \in Agents : (rt'[a].provider \/ rt'[a].tools > 0) => rt'[a].busy
  <2>1. rt' = [a \in Agents |-> IF a \in as THEN [rt[a] EXCEPT !.quiet = 0] ELSE rt[a]]
    BY DEF Touches, Touched
  <2>2. \A a \in Agents : rt[a] \in Rows /\ ((rt[a].provider \/ rt[a].tools > 0) => rt[a].busy)
    BY DEF IInv, TypeOK
  <2>3. \A a \in Agents : LET u == [rt[a] EXCEPT !.quiet = 0] IN
          u \in Rows /\ u.provider = rt[a].provider /\ u.tools = rt[a].tools /\ u.busy = rt[a].busy
    BY <2>2, ThresholdsAssumption DEF Rows
  <2>4. \A a \in Agents : rt'[a] = IF a \in as THEN [rt[a] EXCEPT !.quiet = 0] ELSE rt[a]
    BY <2>1
  <2>5. \A a \in Agents : rt'[a] \in Rows /\ ((rt'[a].provider \/ rt'[a].tools > 0) => rt'[a].busy)
    BY <2>2, <2>3, <2>4
  <2> QED
    BY <2>1, <2>5
<1>4. TypeOK'
  BY <1>1, <1>3, ThresholdsAssumption DEF IInv, TypeOK, Aside
<1>5. Noted' /\ Marked' /\ InMode' /\ setup' \in Setups /\ link' \in [Agents -> BOOLEAN]
  BY <1>1, <1>2 DEF IInv, Noted, Marked, InMode, Aside
<1> QED
  BY <1>4, <1>5 DEF IInv

\* The report of a stalled LOOP agent.
LEMMA LookLoopKeeps ==
  ASSUME IInv, Aside, setup.mode # "FAST", LookLoop
  PROVE  IInv'
<1>1. CASE Nothing
  BY <1>1, NothingKeeps
<1>2. CASE ~Nothing
  <2> DEFINE stalled == {a \in Connected : ~rt[a].attached /\ rt[a].busy
                                             /\ rt[a].quiet >= StallThreshold /\ ~stalls[a]}
             first == IF "Austin" \in stalled THEN "Austin" ELSE "Tony"
  <2>1. stalled # {} /\ rested' = 0 /\ stalls' = [stalls EXCEPT ![first] = TRUE]
        /\ reported' = [reported EXCEPT ![first] = @ + 1]
        /\ UNCHANGED <<rt, fast, asked>>
    BY <1>2 DEF LookLoop
  <2>2. first \in Agents /\ ~stalls[first]
    BY <2>1 DEF Connected
  <2> HIDE DEF stalled, first
  <2>3. reported[first] = 0
    BY <2>2 DEF IInv, Marked
  <2>4. Marked'
    BY <2>1, <2>2, <2>3 DEF IInv, Marked
  <2>5. TypeOK'
    BY <2>1, ThresholdsAssumption DEF IInv, TypeOK, Aside
  <2>6. Noted' /\ InMode' /\ setup' \in Setups /\ link' \in [Agents -> BOOLEAN]
    BY <2>1 DEF IInv, Noted, InMode, Aside
  <2> QED
    BY <2>4, <2>5, <2>6 DEF IInv
<1> QED
  BY <1>1, <1>2

\* Every look.
LEMMA MonitorLooksKeeps == ASSUME IInv, MonitorLooks PROVE IInv'
<1>1. Aside /\ Look
  BY DEF MonitorLooks, Aside
<1>2. CASE Nothing
  BY <1>1, <1>2, NothingKeeps
<1>3. CASE setup.mode = "GOAL" /\ LookGoal
  <2>1. CASE GoalIdle /\ Rested
    <3>1. Touches({"Austin"}) /\ rested' = 0
      BY <1>3, <2>1 DEF LookGoal
    <3> QED
      BY <1>1, <1>3, <3>1, TouchesKeeps
  <2>2. CASE ~(GoalIdle /\ Rested)
    BY <1>1, <1>3, <2>2, NothingKeeps DEF LookGoal
  <2> QED
    BY <2>1, <2>2
<1>4. CASE setup.mode = "FAST" /\ LookFast
  <2>1. CASE p.phase = "RUNNING"
    <3>1. FastAustin
      BY <1>4, <2>1 DEF LookFast
    <3> QED
      BY <1>1, <1>4, <2>1, <3>1, FastAustinKeeps
  <2>2. CASE p.phase = "VERIFY" /\ p.verdict.status # "passed"
    <3>1. FastTony
      BY <1>4, <2>2 DEF LookFast
    <3> QED
      BY <1>1, <1>4, <2>2, <3>1, FastTonyKeeps
  <2>3. CASE p.phase # "RUNNING" /\ ~(p.phase = "VERIFY" /\ p.verdict.status # "passed")
    <3>1. Nothing
      BY <1>4, <2>3 DEF LookFast
    <3> QED
      BY <1>1, <3>1, NothingKeeps
  <2> QED
    BY <2>1, <2>2, <2>3
<1>5. CASE setup.mode = "STEP" /\ LookStep
  <2>1. Nothing \/ \E as : Touches(as) /\ rested' = 0
    BY <1>5 DEF LookStep
  <2> QED
    BY <1>1, <1>5, <2>1, NothingKeeps, TouchesKeeps
<1>6. CASE setup.mode \notin {"GOAL", "FAST", "STEP"} /\ LookLoop
  BY <1>1, <1>6, LookLoopKeeps
<1> QED
  BY <1>1, <1>2, <1>3, <1>4, <1>5, <1>6, LookKinds

----------------------------------------------------------------------------
(***************************************************************************)
(* The tracker, the session and the clock.                                 *)
(***************************************************************************)
\* A row that is touched.
LEMMA TouchedRow ==
  ASSUME IInv, NEW a \in Agents
  PROVE  LET r == [rt[a] EXCEPT !.quiet = 0] IN
         /\ r \in Rows /\ ((r.provider \/ r.tools > 0) => r.busy)
         /\ rt[a] \in Rows /\ ((rt[a].provider \/ rt[a].tools > 0) => rt[a].busy)
<1>1. rt[a] \in Rows /\ ((rt[a].provider \/ rt[a].tools > 0) => rt[a].busy) /\ 0 \in 0 .. StallThreshold
  BY ThresholdsAssumption DEF IInv, TypeOK
<1> QED
  BY <1>1 DEF Rows

\* Signs of life, errors, visits, connections.
LEMMA TrackerKeeps ==
  ASSUME IInv, NEW a \in Agents,
         \/ \E activity \in Activities : Activity(a, activity)
         \/ AgentError(a) \/ Attach(a) \/ Disconnect(a) \/ Connect(a)
  PROVE  IInv'
<1> DEFINE t == [rt[a] EXCEPT !.quiet = 0]
<1>1. /\ t \in Rows /\ ((t.provider \/ t.tools > 0) => t.busy)
      /\ rt[a] \in Rows /\ ((rt[a].provider \/ rt[a].tools > 0) => rt[a].busy)
  BY TouchedRow
<1>2. link \in [Agents -> BOOLEAN]
  BY DEF IInv
<1>3. ASSUME NEW activity \in Activities, Activity(a, activity) PROVE IInv'
  <2> DEFINE r == Handled(rt[a], activity)
  <2>1. Noticed(a, r) /\ UNCHANGED <<setup, p, link, mutated, grace, rested>>
        /\ (activity = "tool_start" => rt[a].tools = 0)
    BY <1>3 DEF Activity
  <2>2. r \in Rows /\ ((r.provider \/ r.tools > 0) => r.busy)
    BY <1>1, <2>1, HandledRow
  <2> HIDE DEF r
  <2> QED
    BY <1>2, <2>1, <2>2, NoticedKeeps
<1>4. CASE AgentError(a)
  <2> DEFINE r == [rt[a] EXCEPT !.quiet = 0, !.failures = @ + 1]
  <2>1. Noticed(a, r) /\ UNCHANGED <<setup, p, link, mutated, grace, rested>>
    BY <1>4 DEF AgentError
  <2>2. r \in Rows /\ ((r.provider \/ r.tools > 0) => r.busy)
    <3>1. rt[a].failures + 1 \in Nat /\ 0 \in 0 .. StallThreshold
      BY <1>1, ThresholdsAssumption DEF Rows
    <3>2. r = [t EXCEPT !.failures = rt[a].failures + 1]
      BY <1>1 DEF Rows
    <3> HIDE DEF t, r
    <3> QED
      BY <1>1, <3>1, <3>2 DEF Rows
  <2> HIDE DEF r
  <2> QED
    BY <1>2, <2>1, <2>2, NoticedKeeps
<1>5. CASE Attach(a)
  <2> DEFINE r == [rt[a] EXCEPT !.quiet = 0, !.attached = ~@]
  <2>1. Noticed(a, r) /\ UNCHANGED <<setup, p, link, mutated, grace, rested>>
    BY <1>5 DEF Attach
  <2>2. r \in Rows /\ ((r.provider \/ r.tools > 0) => r.busy)
    <3>1. 0 \in 0 .. StallThreshold
      BY ThresholdsAssumption
    <3>2. (~rt[a].attached) \in BOOLEAN
      OBVIOUS
    <3> QED
      BY <1>1, <3>1, <3>2 DEF Rows
  <2> HIDE DEF r
  <2> QED
    BY <1>2, <2>1, <2>2, NoticedKeeps
<1>6. CASE Disconnect(a)
  <2>1. Noticed(a, NewRuntime) /\ UNCHANGED <<setup, p, mutated, grace, rested>>
        /\ link' \in [Agents -> BOOLEAN]
    BY <1>2, <1>6 DEF Disconnect
  <2>2. NewRuntime \in Rows /\ ~NewRuntime.provider /\ ~(NewRuntime.tools > 0)
    BY ThresholdsAssumption DEF Rows, NewRuntime
  <2> QED
    BY <2>1, <2>2, NoticedKeeps
<1>7. CASE Connect(a)
  <2>1. Noticed(a, t) /\ UNCHANGED <<setup, p, mutated, grace, rested>>
        /\ link' \in [Agents -> BOOLEAN]
    BY <1>2, <1>7 DEF Connect
  <2> HIDE DEF t
  <2> QED
    BY <1>1, <2>1, NoticedKeeps
<1> QED
  BY <1>3, <1>4, <1>5, <1>6, <1>7

\* An agent's move through a Core handler.
LEMMA AgentMovesKeeps == ASSUME IInv, NEW a \in Agents, AgentMoves(a) PROVE IInv'
<1> DEFINE r == [rt[a] EXCEPT !.quiet = 0]
<1>1. r \in Rows /\ ((r.provider \/ r.tools > 0) => r.busy) /\ link \in [Agents -> BOOLEAN]
  BY TouchedRow DEF IInv
<1>2. ASSUME NEW q, Moved(a, q),
             setup.mode = "FAST" => q \in ProjectState /\ q.mode = "FAST",
             setup.mode = "STEP" => Queued(q),
             asked = 1 \/ fast.seen = "current" => a = "Austin"
      PROVE  IInv'
  <2>1. Noticed(a, r) /\ p' = q /\ mutated' = 0 /\ UNCHANGED <<setup, link, grace, rested>>
    BY <1>2 DEF Moved
  <2>2. InMode'
    BY <1>2, <2>1 DEF InMode
  <2> HIDE DEF r
  <2> QED
    BY <1>1, <1>2, <2>1, <2>2, NoticedKeeps
<1>3. Target \in Ref
  BY RefFacts DEF Target
<1>4. CASE setup.mode = "GOAL"
  <2>1. asked # 1 /\ fast.seen # "current"
    BY <1>4 DEF IInv, Noted
  <2>2. \E q : Moved(a, q)
    BY <1>4 DEF AgentMoves
  <2> QED
    BY <1>2, <1>4, <2>1, <2>2
<1>5. CASE setup.mode = "FAST"
  <2>1. FastState(p)
    BY <1>5 DEF IInv, InMode, FastState
  <2>2. asked = 1 \/ fast.seen = "current" => p.phase = "RUNNING"
    BY DEF IInv, Noted
  <2>3. CASE CanSetReady(p, a, TRUE, Target) /\ Moved(a, SetReady(p, a, TRUE, Target))
    <3>1. FastState(SetReady(p, a, TRUE, Target)) /\ a = "Austin"
      BY <1>3, <2>1, <2>3, FastMoves
    <3> QED
      BY <1>2, <1>5, <2>3, <3>1 DEF FastState
  <2>4. ASSUME a = "Tony", NEW result \in {"passed", "issue"},
               CanSetVerification(p, result, Target), Moved(a, SetVerification(p, result))
        PROVE  IInv'
    <3>1. p.phase = "VERIFY"
      BY <2>4 DEF CanSetVerification
    <3>2. FastState(SetVerification(p, result))
      BY <1>3, <2>1, <2>4, FastMoves
    <3> QED
      BY <1>2, <1>5, <2>2, <2>4, <3>1, <3>2 DEF FastState
  <2> QED
    BY <1>5, <2>3, <2>4 DEF AgentMoves
<1>6. CASE setup.mode = "STEP"
  <2>1. Queued(p) /\ asked # 1 /\ fast.seen # "current"
    BY <1>6 DEF IInv, InMode, Noted
  <2>2. CASE CanSetStepReady(p, a, TRUE) /\ Moved(a, SetStepReady(p, a, TRUE, Target))
    BY <1>2, <1>3, <1>6, <2>1, <2>2, SetStepReadyKeeps
  <2>3. ASSUME NEW result \in {"passed", "issue"},
               CanVerify(p, result, Target), Moved(a, Verify(p, result))
        PROVE  IInv'
    BY <1>2, <1>6, <2>1, <2>3, VerifyKeeps
  <2> QED
    BY <1>6, <2>2, <2>3 DEF AgentMoves
<1> QED
  BY <1>4, <1>5, <1>6 DEF AgentMoves

\* Core lands a step or finishes the session.
LEMMA CoreMovesKeeps == ASSUME IInv, CoreMoves PROVE IInv'
<1>1. /\ mutated' = 0 /\ asked' = 0
      /\ UNCHANGED <<setup, rt, link, grace, rested, fast, stalls, reported>>
  BY DEF CoreMoves
<1>2. CASE setup.mode \in {"GOAL", "FAST"} /\ CanComplete(p) /\ p' = Complete(p)
  <2>1. setup.mode = "FAST" =>
          p' \in ProjectState /\ p'.mode = "FAST" /\ p.phase = "VERIFY"
    BY <1>2, FastMoves DEF IInv, InMode, FastState
  <2>2. InMode' /\ (fast.seen # "current")
    BY <1>1, <1>2, <2>1 DEF IInv, InMode, Noted
  <2> QED
    BY <1>1, <2>2, ThresholdsAssumption DEF IInv, TypeOK, Noted, Marked
<1>3. CASE /\ setup.mode = "STEP" /\ CanLandStep(p, HeadRef(Cursor(p)))
           /\ LET q == LandStep(p, HeadRef(Cursor(p)))
              IN  p' = IF CanCompleteQueue(q) THEN CompleteQueue(q) ELSE q
  <2>1. Queued(p')
    BY <1>3, LandStepKeeps DEF IInv, InMode
  <2>2. InMode' /\ (fast.seen # "current")
    BY <1>1, <1>3, <2>1 DEF IInv, InMode, Noted
  <2> QED
    BY <1>1, <2>2, ThresholdsAssumption DEF IInv, TypeOK, Noted, Marked
<1> QED
  BY <1>2, <1>3 DEF CoreMoves

\* A tick: whoever is not at work is no more at work when more time has passed.
LEMMA TimePassesKeeps == ASSUME IInv, TimePasses PROVE IInv'
<1>1. /\ rt' = [a \in Agents |-> [rt[a] EXCEPT !.quiet = Older(@, StallThreshold)]]
      /\ mutated' = Older(mutated, StallThreshold) /\ rested' = Older(rested, Cooldown)
      /\ grace' = IF grace > 0 THEN grace - 1 ELSE 0
      /\ UNCHANGED <<setup, p, link, fast, stalls, asked, reported>>
  BY DEF TimePasses, ghosts
<1>2. \A bound \in Nat : \A age \in 0 .. bound :
        Older(age, bound) \in 0 .. bound /\ Older(age, bound) >= age
  BY DEF Older
<1>3. rt \in [Agents -> Rows] /\ mutated \in 0 .. StallThreshold /\ rested \in 0 .. Cooldown
      /\ grace \in 0 .. RecoveryGrace /\ StallThreshold \in Nat /\ Cooldown \in Nat /\ RecoveryGrace \in Nat
      /\ \A a \in Agents : (rt[a].provider \/ rt[a].tools > 0) => rt[a].busy
  BY ThresholdsAssumption DEF IInv, TypeOK
<1>4. ASSUME NEW a \in Agents
      PROVE  /\ rt'[a] \in Rows /\ rt'[a].quiet >= rt[a].quiet
             /\ rt'[a].provider = rt[a].provider /\ rt'[a].tools = rt[a].tools
             /\ rt'[a].busy = rt[a].busy
  <2>1. rt'[a] = [rt[a] EXCEPT !.quiet = Older(@, StallThreshold)] /\ rt[a] \in Rows
    BY <1>1, <1>3
  <2>2. rt[a].quiet \in 0 .. StallThreshold
    BY <2>1 DEF Rows
  <2>3. Older(rt[a].quiet, StallThreshold) \in 0 .. StallThreshold
        /\ Older(rt[a].quiet, StallThreshold) >= rt[a].quiet
    BY <1>2, <1>3, <2>2
  <2> QED
    BY <2>1, <2>3 DEF Rows
<1>5. rt' \in [Agents -> Rows]
  BY <1>1, <1>4
<1>6. mutated' \in 0 .. StallThreshold /\ mutated' >= mutated /\ rested' \in 0 .. Cooldown
      /\ grace' \in 0 .. RecoveryGrace
  BY <1>1, <1>2, <1>3
<1>7. TypeOK'
  BY <1>1, <1>3, <1>4, <1>5, <1>6 DEF IInv, TypeOK
<1>8. ~Busy("Austin") => ~Busy("Austin")'
  <2>1. Active("Austin")' <=> Active("Austin")
    BY <1>4 DEF Active
  <2>2. rt["Austin"].quiet \in Nat /\ rt'["Austin"].quiet \in Nat /\ rt'["Austin"].quiet >= rt["Austin"].quiet
        /\ mutated \in Nat /\ mutated' \in Nat
    BY <1>3, <1>4, <1>6 DEF Rows
  <2>3. Stalled("Austin") => Stalled("Austin")'
    BY <1>3, <1>6, <2>2 DEF Stalled, QuietFor
  <2> QED
    BY <2>1, <2>3 DEF Busy
<1>9. Noted' /\ Marked' /\ InMode' /\ setup' \in Setups /\ link' \in [Agents -> BOOLEAN]
  BY <1>1, <1>8 DEF IInv, Noted, Marked, InMode
<1> QED
  BY <1>7, <1>9 DEF IInv

----------------------------------------------------------------------------
\* A new session.
LEMMA InitInv == Init => IInv
<1> SUFFICES ASSUME Init PROVE IInv
  OBVIOUS
<1>1. /\ setup \in Setups /\ p = setup.session
      /\ rt = [a \in Agents |-> NewRuntime] /\ link = [a \in Agents |-> TRUE]
      /\ mutated = 0 /\ grace = RecoveryGrace /\ rested = Cooldown
      /\ fast = NoEpisode /\ stalls = [a \in Agents |-> FALSE]
      /\ asked = 0 /\ reported = [a \in Agents |-> 0]
  BY DEF Init
<1>2. NewRuntime \in Rows /\ ~NewRuntime.provider /\ ~(NewRuntime.tools > 0)
  BY ThresholdsAssumption DEF NewRuntime, Rows
<1>3. TypeOK
  <2>1. rt \in [Agents -> Rows]
        /\ \A a \in Agents : (rt[a].provider \/ rt[a].tools > 0) => rt[a].busy
    BY <1>1, <1>2
  <2>2. rested \in 0 .. Cooldown /\ mutated \in 0 .. StallThreshold /\ grace \in 0 .. RecoveryGrace
    BY <1>1, ThresholdsAssumption
  <2>3. fast \in Episodes
    BY <1>1, EpisodeFacts
  <2> QED
    BY <2>1, <2>2, <2>3 DEF TypeOK, Episodes
<1>4. InMode
  BY <1>1, SetupsAssumption, BeginningIsQueued DEF InMode
<1>5. Noted /\ Marked
  BY <1>1, EpisodeFacts DEF Noted, Marked
<1> QED
  BY <1>1, <1>3, <1>4, <1>5 DEF IInv

\* Every step.
LEMMA StepInv == IInv /\ [Next]_vars => IInv'
<1> SUFFICES ASSUME IInv, [Next]_vars PROVE IInv'
  OBVIOUS
<1>1. CASE UNCHANGED vars
  BY <1>1 DEF IInv, TypeOK, InMode, Noted, Marked, Busy, Active, Stalled, QuietFor, vars,
     monitorVars, ghosts
<1>2. CASE Hold
  BY <1>2 DEF Hold, IInv, TypeOK, InMode, Noted, Marked, Busy, Active, Stalled, QuietFor, ghosts
<1>3. ASSUME NEW a \in Agents,
             \/ \E activity \in Activities : Activity(a, activity)
             \/ AgentError(a) \/ Attach(a) \/ Disconnect(a) \/ Connect(a) \/ AgentMoves(a)
      PROVE  IInv'
  BY <1>3, TrackerKeeps, AgentMovesKeeps
<1> QED
  BY <1>1, <1>2, <1>3, CoreMovesKeeps, MonitorLooksKeeps, TimePassesKeeps DEF Next

\* The monitor's notes are of the present stall, whatever the agents, the human and the
\* clock do between two looks.
THEOREM HarnessInvariant == Spec => []IInv
BY InitInv, StepInv, PTL DEF Spec

\* A stuck Austin is diagnosed once per stall and a stalled LOOP agent reported once
\* (harness.go's claimFastDiagnosis and loopStalls).
THEOREM OncePerStallHolds == Spec => []OncePerStall
<1>1. IInv => OncePerStall
  BY DEF IInv, OncePerStall, Noted, Marked
<1> QED
  BY <1>1, HarnessInvariant, PTL

----------------------------------------------------------------------------
(***************************************************************************)
(* Who is prompted.                                                        *)
(***************************************************************************)
\* Only a look prompts.
LEMMA OthersAreSilent ==
  ASSUME [Next]_vars, ~MonitorLooks
  PROVE  sent' = {} \/ UNCHANGED vars
<1>1. ASSUME NEW a \in Agents, AgentMoves(a) PROVE sent' = {}
  BY <1>1 DEF AgentMoves, Moved
<1>2. ASSUME NEW a \in Agents,
             \/ \E activity \in Activities : Activity(a, activity)
             \/ AgentError(a) \/ Attach(a) \/ Disconnect(a) \/ Connect(a)
      PROVE  sent' = {}
  BY <1>2 DEF Activity, AgentError, Attach, Disconnect, Connect
<1>3. CASE Hold \/ CoreMoves \/ TimePasses
  BY <1>3 DEF Hold, CoreMoves, TimePasses
<1> QED
  BY <1>1, <1>2, <1>3 DEF Next

\* A prompt is to one agent and of one kind.
LEMMA Prompts ==
  /\ \A a, b, k, l : Prompt(a, k) = Prompt(b, l) => a = b /\ k = l
BY DEF Prompt

\* In FAST it is Austin in RUNNING, and Tony while his verdict is out.
LEMMA FastPrompts ==
  ASSUME setup.mode = "FAST", LookFast, NEW a \in Agents, Prompt(a, "nudge") \in sent'
  PROVE  Awaited(a)
<1>1. CASE p.phase = "RUNNING"
  <2>1. FastAustin
    BY <1>1 DEF LookFast
  <2>2. sent' \subseteq {Prompt("Tony", "diagnosis"), Prompt("Austin", "nudge")}
    BY <2>1 DEF FastAustin, Nothing
  <2>3. a = "Austin"
    BY <2>2, Prompts
  <2> QED
    BY <1>1, <2>3 DEF Awaited
<1>2. CASE p.phase = "VERIFY" /\ p.verdict.status # "passed"
  <2>1. FastTony
    BY <1>2 DEF LookFast
  <2>2. sent' \subseteq {Prompt("Tony", "nudge")}
    BY <2>1 DEF FastTony, Nothing
  <2>3. a = "Tony"
    BY <2>2, Prompts
  <2> QED
    BY <1>2, <2>3 DEF Awaited
<1>3. CASE p.phase # "RUNNING" /\ ~(p.phase = "VERIFY" /\ p.verdict.status # "passed")
  <2>1. sent' = {}
    BY <1>3 DEF LookFast, Nothing
  <2> QED
    BY <2>1
<1> QED
  BY <1>1, <1>2, <1>3

\* In STEP it is whoever has not signed, or the one whose FAST step it is.
LEMMA StepPrompts ==
  ASSUME setup.mode = "STEP", Queued(p), LookStep, NEW a \in Agents, Prompt(a, "nudge") \in sent'
  PROVE  Awaited(a)
<1>1. a \in Targets /\ p.phase # "DONE"
  <2> DEFINE idle == {b \in Targets \cap Connected : ~rt[b].attached /\ ~Busy(b)
                                                      /\ QuietFor(b) >= IdleThreshold}
  <2>1. sent' = {} \/ (p.phase # "DONE" /\ sent' = {Prompt(b, "nudge") : b \in idle})
    BY DEF LookStep, Nothing
  <2>2. p.phase # "DONE" /\ \E b \in idle : Prompt(a, "nudge") = Prompt(b, "nudge")
    BY <2>1
  <2> QED
    BY <2>2, Prompts
<1>2. CASE p.phase = "PLAN"
  BY <1>1, <1>2 DEF Targets, Missing, Awaited, SignsIn
<1>3. CASE p.phase \in {"EXECUTE", "REVIEW"}
  <2>1. HasStep(p) /\ PolicyOf(p) \in {"FAST", "GOAL"}
    BY <1>3, QueueFacts DEF Queued, Policies
  <2>2. CASE PolicyOf(p) = "GOAL"
    BY <1>1, <1>3, <2>2 DEF Targets, Missing, Awaited, SignsIn
  <2>3. CASE PolicyOf(p) = "FAST"
    BY <1>1, <1>3, <2>1, <2>3 DEF Targets, Awaited, Fast
  <2> QED
    BY <2>1, <2>2, <2>3
<1>4. CASE p.phase = "INTEGRATE"
  BY <1>1, <1>4 DEF Targets, Missing, Awaited, SignsIn
<1> QED
  BY <1>1, <1>2, <1>3, <1>4, QueueFacts

\* The monitor nudges only an agent whose next call the session waits for
\* (harness.go's stepNudgeTargets and the phases of FAST).
THEOREM PromptsWhoMustMoveHolds == Spec => PromptsWhoMustMove
<1>1. IInv /\ [Next]_vars =>
        [\A a \in Agents : setup.mode \in {"FAST", "STEP"} /\ Prompt(a, "nudge") \in sent' => Awaited(a)]_vars
  <2> SUFFICES ASSUME IInv, [Next]_vars, ~UNCHANGED vars, NEW a \in Agents,
                      setup.mode \in {"FAST", "STEP"}, Prompt(a, "nudge") \in sent'
               PROVE  Awaited(a)
    OBVIOUS
  <2>1. MonitorLooks
    BY OthersAreSilent
  <2>2. \/ Nothing
        \/ setup.mode = "FAST" /\ LookFast
        \/ setup.mode = "STEP" /\ LookStep
    BY <2>1, LookKinds DEF MonitorLooks
  <2>3. ~Nothing
    BY DEF Nothing
  <2>4. Queued(p) \/ setup.mode = "FAST"
    BY DEF IInv, InMode
  <2> QED
    BY <2>2, <2>3, <2>4, FastPrompts, StepPrompts
<1> QED
  BY <1>1, HarnessInvariant, PTL DEF Spec, PromptsWhoMustMove
=============================================================================
