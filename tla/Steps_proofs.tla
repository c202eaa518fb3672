----------------------------- MODULE Steps_proofs -----------------------------
(***************************************************************************)
(* A STEP session keeps StepHandoff's promise.  The invariant says of the  *)
(* live queue and of the one on disk what a good queue is (Good: it lands  *)
(* in order, each step once, on a verdict of its head), what it and its    *)
(* delivery record owe to the approvals and to the user's branch (Sited),  *)
(* how far the file may be behind (Behind), what the call in the           *)
(* transaction has in hand (Seated) and what a process that is down or     *)
(* resuming has (Away).                                                    *)
(*                                                                         *)
(* The operators of StepQueue are taken one by one: each keeps the queue   *)
(* within its step (Keeps), or lands the step (Lands).  The actions        *)
(* follow: outside the transaction (Stays), inside (HolderStep), and       *)
(* without a session (RecoveryKeeps).                                      *)
(***************************************************************************)
EXTENDS Steps, SequenceTheorems, TLAPS

USE DEF Modes, Agents

\* The phases of the two modes, and where each of them starts.
LEMMA PhaseFacts ==
  /\ ValidPhases["GOAL"] = {"PLAN", "EXECUTE", "REVIEW", "INTEGRATE", "DONE"}
  /\ ValidPhases["FAST"] = {"RUNNING", "VERIFY", "DONE"}
  /\ InitialPhase["GOAL"] = "PLAN" /\ InitialPhase["FAST"] = "RUNNING"
  /\ NextPhase["PLAN"] = "EXECUTE" /\ NextPhase["EXECUTE"] = "REVIEW"
  /\ NextPhase["REVIEW"] = "INTEGRATE"
BY DEF ValidPhases, InitialPhase, NextPhase

\* The three kinds of evidence and their parts.
LEMMA RefFacts ==
  /\ NoRef \in Ref /\ NoRef.kind = "none"
  /\ \A n \in Nat : PlanRef(n) \in Ref /\ HeadRef(n) \in Ref
  /\ \A n \in Nat : HeadRef(n).kind = "head" /\ HeadRef(n).of = n
  /\ \A r \in Ref : r.of \in Nat /\ (r.kind = "head" => r = HeadRef(r.of))
BY DEF Ref, NoRef, PlanRef, HeadRef

\* Steps land in order, each once; what comes after the cursor is untouched, and
\* a verdict is of the head that was submitted.
InOrder(p) ==
  LET k == Cursor(p) IN
  /\ p \in StepState
  /\ k \in 1 .. Len(p.steps) + 1
  /\ \A i \in 1 .. Len(p.steps) : Ticked(p.steps[i]) <=> i < k
  /\ \A i, j \in 1 .. k - 1 : p.steps[i].landed = p.steps[j].landed => i = j
  /\ \A i \in 1 .. k - 1 : p.steps[i].landed.kind = "head"
  /\ \A i \in k + 1 .. Len(p.steps) : p.steps[i].head = NoRef /\ p.steps[i].verdict = NoVerdict

Proven(s) == s.verdict.status = "passed"

Phased(p) ==
  LET k == Cursor(p) IN
  /\ p.phase = "PLAN" => k = 1
  /\ p.phase # "PLAN" => p.steps # <<>>
  /\ p.phase = "DONE" => k > Len(p.steps)
  /\ k > Len(p.steps) => p.phase \in {"PLAN", "INTEGRATE", "DONE"}
  /\ k <= Len(p.steps) =>
       /\ Proven(p.steps[k]) =>
            /\ p.phase = "INTEGRATE" /\ p.steps[k].policy = "FAST"
            /\ p.steps[k].verdict.on = p.steps[k].head /\ p.steps[k].head.kind = "head"
       /\ p.phase = "INTEGRATE" /\ p.steps[k].policy = "FAST" /\ p.steps[k].head # NoRef
            => Proven(p.steps[k])

Good(p) == InOrder(p) /\ Phased(p)

\* A queue with the record of its delivery, as they are live and on disk.
Accounted(p, d, known) ==
  IsApplied(d) =>
    /\ p.phase # "PLAN" /\ d.head.kind = "head"
    /\ \/ \E i \in 1 .. Cursor(p) - 1 : p.steps[i].landed = d.head
       \/ Cursor(p) <= Len(p.steps) /\ <<Cursor(p), d.head.of>> \in known

HeadOrNone(r) == r = NoRef \/ r.kind = "head"

Sited(p, d, known, branch) ==
  /\ Good(p)
  /\ \A i \in 1 .. Cursor(p) - 1 :
       p.steps[i].landed.of <= branch /\ <<i, p.steps[i].landed.of>> \in known
  /\ Gated(p) \subseteq known
  /\ d \in DeliveryRecord /\ HeadOrNone(d.head)
  /\ Finished(p) => IsApplied(d)
  /\ IsApplied(d) => d.head.of <= branch
  /\ Accounted(p, d, known)

\* A queue as it may be later in the round: what has landed is on record.
Follows(old, p) ==
  LET k == Cursor(old) IN
  /\ k <= Cursor(p)
  /\ \A i \in 1 .. k - 1 : old.steps[i].landed = p.steps[i].landed
  /\ k > 1 => Len(old.steps) <= Len(p.steps)
  /\ old.phase = "DONE" => p.phase = "DONE" /\ Len(p.steps) = Len(old.steps)

\* The session file is where the live queue was, or is: all but the last
\* transition, to DONE, may be missing from it.
Behind(old, p) ==
  /\ Follows(old, p)
  /\ p.phase = "DONE" => Finished(old)

\* What a step of a round does to the session file.
Told == approved \subseteq approved' /\ Follows(disk.project, disk'.project)

InTransaction == {"verdict", "claims", "land", "mark", "record", "tick", "sync", "finish"}
Landing == {"verdict", "claims", "land", "mark", "record", "tick"}

Seated(a) ==
  LET h == handler[a]
      k == Cursor(project) IN
  /\ h.pc # "idle" => proc = "live"
  /\ h.pc \in InTransaction => txn = a /\ project.phase \notin {"PLAN", "DONE"}
  /\ h.pc \in Landing => HasStep(project)
  /\ h.pc \in {"verdict", "claims"} =>
       \A x \in Nat : (\A b \in Agents : h.claims[b] = HeadRef(x)) => <<k, x>> \in approved
  /\ h.pc \in {"land", "record", "tick"} => h.ref.kind = "head" /\ <<k, h.ref.of>> \in approved
  /\ h.pc \in {"land", "sync", "finish"} => Cursor(disk.project) = k
  /\ h.pc \in {"record", "tick"} => h.ref.of <= repo.head
  /\ h.pc = "tick" => delivery = Applied(h.ref)
  /\ h.pc = "sync" => k > 1 /\ project.steps[k - 1].landed = h.ref
  /\ h.pc = "passed" => h.ref.kind = "head"
  /\ h.pc = "mark" => HeadOrNone(h.ref)

Away ==
  /\ proc # "live" => disk = [project |-> project, delivery |-> delivery] /\ txn = "free"
  /\ proc \in {"landing", "recording"} =>
       /\ HasStep(project) /\ delivery = Pending(delivery.head)
       /\ delivery.head.kind = "head" /\ <<Cursor(project), delivery.head.of>> \in approved
  /\ proc = "recording" => delivery.head.of <= repo.head

Types ==
  /\ disk \in [project : StepState, delivery : DeliveryRecord]
  /\ git \in [head : [Agents -> Nat], dirty : SUBSET Agents, merging : BOOLEAN,
              since : Int, last : Nat]
  /\ repo \in [head : Nat, blocked : BOOLEAN]
  /\ handler \in [Agents -> HandlerState]
  /\ txn \in Agents \cup {"free"}
  /\ proc \in {"live", "down", "resumed", "landing", "recording", "refused"}
  /\ approved \subseteq Nat \X Nat
  /\ budget \in Setup

IInv ==
  /\ Types
  /\ Sited(project, delivery, approved, repo.head)
  /\ Sited(disk.project, disk.delivery, approved, repo.head)
  /\ Behind(disk.project, project)
  /\ \A a \in Agents : Seated(a)
  /\ Away

----------------------------------------------------------------------------
\* The cursor is the step up to which all have landed.
LEMMA CursorIs ==
  ASSUME NEW p, p.steps \in Seq(Step), NEW k \in 1 .. Len(p.steps) + 1,
         \A i \in 1 .. Len(p.steps) : Ticked(p.steps[i]) <=> i < k
  PROVE  /\ Cursor(p) = k
         /\ HasStep(p) <=> k <= Len(p.steps)
         /\ Finished(p) <=> k > Len(p.steps) /\ p.steps # <<>>
         /\ IsFinal(p) <=> k >= Len(p.steps)
         /\ Landings(p) = 1 .. k - 1
<1>1. Len(p.steps) \in Nat /\ DOMAIN p.steps = 1 .. Len(p.steps)
  OBVIOUS
<1>2. Open(p) = k .. Len(p.steps)
  BY <1>1 DEF Open
<1>3. Landings(p) = 1 .. k - 1
  BY <1>1 DEF Landings
<1>4. Cursor(p) = k
  <2>1. CASE k > Len(p.steps)
    <3>1. Open(p) = {}
      BY <1>1, <1>2, <2>1
    <3> QED
      BY <1>1, <2>1, <3>1 DEF Cursor
  <2>2. CASE k <= Len(p.steps)
    <3>1. k \in Open(p) /\ \A j \in Open(p) : k <= j
      BY <1>1, <1>2, <2>2
    <3>2. \A i \in Open(p) : (\A j \in Open(p) : i <= j) => i = k
      BY <1>1, <1>2, <3>1
    <3> QED
      BY <3>1, <3>2 DEF Cursor
  <2> QED
    BY <1>1, <2>1, <2>2
<1> QED
  BY <1>1, <1>2, <1>3, <1>4 DEF HasStep, Finished, IsFinal

\* What CursorIs says of a queue whose steps landed in order.
LEMMA QueueFacts ==
  ASSUME NEW p, InOrder(p)
  PROVE  /\ p \in StepState /\ p.steps \in Seq(Step) /\ Len(p.steps) \in Nat /\ Cursor(p) \in Nat
         /\ DOMAIN p.steps = 1 .. Len(p.steps)
         /\ \A i \in 1 .. Len(p.steps) : p.steps[i] \in Step
         /\ HasStep(p) <=> Cursor(p) <= Len(p.steps)
         /\ Finished(p) <=> Cursor(p) > Len(p.steps) /\ p.steps # <<>>
         /\ IsFinal(p) <=> Cursor(p) >= Len(p.steps)
         /\ Landings(p) = 1 .. Cursor(p) - 1
<1>1. p \in StepState /\ p.steps \in Seq(Step) /\ Cursor(p) \in 1 .. Len(p.steps) + 1
  BY DEF InOrder, StepState
<1>2. \A i \in 1 .. Len(p.steps) : Ticked(p.steps[i]) <=> i < Cursor(p)
  BY DEF InOrder
<1> HIDE DEF InOrder
<1> QED
  BY <1>1, <1>2, CursorIs

----------------------------------------------------------------------------
\* q is a queue of the round and at the step that p is.
Keeps(q, p) ==
  /\ Good(q) /\ Cursor(q) = Cursor(p)
  /\ \A i \in 1 .. Cursor(p) - 1 : q.steps[i].landed = p.steps[i].landed
  /\ Cursor(p) > 1 => Len(p.steps) <= Len(q.steps)
  /\ HasStep(p) => HasStep(q)
  /\ Finished(q) => Finished(p)
  /\ q.phase = "PLAN" => p.phase = "PLAN"
  /\ q.phase = "DONE" <=> p.phase = "DONE"

\* A queue keeps its own round and step.
LEMMA KeepsItself == ASSUME NEW p, Good(p) PROVE Keeps(p, p)
BY QueueFacts DEF Good, Keeps

\* What a step of the queue that has not landed may look like in a phase.
Fitting(s, phase) ==
  /\ ~Ticked(s)
  /\ Proven(s) => phase = "INTEGRATE" /\ s.policy = "FAST" /\ s.verdict.on = s.head /\ s.head.kind = "head"
  /\ phase = "INTEGRATE" /\ s.policy = "FAST" /\ s.head # NoRef => Proven(s)

Untouched(s) == s.head = NoRef /\ s.verdict = NoVerdict /\ ~Ticked(s)

\* Whatever leaves the landed steps as they are, and at most rewrites the one
\* under the cursor and appends others.
LEMMA Reshaped ==
  ASSUME NEW p, Good(p), NEW q, q \in StepState, Len(p.steps) <= Len(q.steps),
         \A i \in 1 .. Len(p.steps) : i # Cursor(p) => q.steps[i] = p.steps[i],
         Cursor(p) <= Len(p.steps) => Fitting(q.steps[Cursor(p)], q.phase),
         \A i \in Len(p.steps) + 1 .. Len(q.steps) : Untouched(q.steps[i]),
         q.phase = "PLAN" => p.phase = "PLAN",
         q.phase = "DONE" <=> p.phase = "DONE",
         q.phase = "DONE" => Len(q.steps) = Len(p.steps),
         q.phase # "PLAN" => p.phase # "PLAN" \/ p.steps # <<>>,
         Cursor(p) > Len(q.steps) => q.phase \in {"PLAN", "INTEGRATE", "DONE"}
  PROVE  Keeps(q, p)
<1> DEFINE k == Cursor(p)
<1> USE QueueFacts DEF Good
<1>1. InOrder(p) /\ Phased(p) /\ k \in 1 .. Len(p.steps) + 1
  BY DEF InOrder
<1>2. q.steps \in Seq(Step) /\ Len(q.steps) \in Nat /\ k \in 1 .. Len(q.steps) + 1
      /\ DOMAIN q.steps = 1 .. Len(q.steps)
  BY <1>1 DEF StepState
<1>3. \A i \in 1 .. Len(q.steps) : Ticked(q.steps[i]) <=> i < k
  <2> SUFFICES ASSUME NEW i \in 1 .. Len(q.steps) PROVE Ticked(q.steps[i]) <=> i < k
    OBVIOUS
  <2>1. CASE i <= Len(p.steps) /\ i # k
    BY <1>1, <2>1 DEF InOrder
  <2>2. CASE i <= Len(p.steps) /\ i = k
    BY <1>1, <2>2 DEF Fitting
  <2>3. CASE i > Len(p.steps)
    BY <1>1, <1>2, <2>3 DEF Untouched
  <2> QED
    BY <1>1, <1>2, <2>1, <2>2, <2>3
<1>4. Cursor(q) = k /\ (HasStep(q) <=> k <= Len(q.steps))
      /\ (Finished(q) <=> k > Len(q.steps) /\ q.steps # <<>>)
  BY <1>2, <1>3, CursorIs
<1>5. \A i \in 1 .. k - 1 : q.steps[i] = p.steps[i]
  BY <1>1
<1>6. InOrder(q)
  <2>1. \A i \in k + 1 .. Len(q.steps) : q.steps[i].head = NoRef /\ q.steps[i].verdict = NoVerdict
    <3> SUFFICES ASSUME NEW i \in k + 1 .. Len(q.steps)
                 PROVE  q.steps[i].head = NoRef /\ q.steps[i].verdict = NoVerdict
      OBVIOUS
    <3>1. CASE i <= Len(p.steps)
      <4>1. q.steps[i] = p.steps[i] /\ i \in k + 1 .. Len(p.steps)
        BY <1>1, <1>2, <3>1
      <4> QED
        BY <1>1, <4>1 DEF InOrder
    <3>2. CASE i > Len(p.steps)
      BY <1>1, <1>2, <3>2 DEF Untouched
    <3> QED
      BY <1>1, <1>2, <3>1, <3>2
  <2> QED
    BY <1>1, <1>2, <1>3, <1>4, <1>5, <2>1 DEF InOrder
<1>7. Phased(q)
  <2>1. CASE k <= Len(p.steps)
    BY <1>1, <1>2, <1>4, <2>1 DEF Phased, Fitting
  <2>2. CASE k > Len(p.steps)
    <3>1. k <= Len(q.steps) => k = Len(p.steps) + 1 /\ Untouched(q.steps[k])
      BY <1>1, <1>2, <2>2
    <3>2. k <= Len(q.steps) => ~Proven(q.steps[k]) /\ q.steps[k].head = NoRef
      BY <3>1 DEF Untouched, Proven, NoVerdict
    <3>3. q.phase = "DONE" => p.phase = "DONE" /\ k > Len(q.steps)
      BY <1>1, <2>2
    <3>4. q.phase # "PLAN" => q.steps # <<>>
      BY <1>1, <1>2, <2>2 DEF Phased
    <3> QED
      BY <1>1, <1>2, <1>4, <2>2, <3>2, <3>3, <3>4 DEF Phased
  <2> QED
    BY <1>1, <2>1, <2>2
<1>8. Finished(q) => Finished(p)
  BY <1>1, <1>2, <1>4 DEF Phased
<1> QED
  BY <1>1, <1>2, <1>4, <1>5, <1>6, <1>7, <1>8 DEF Keeps

----------------------------------------------------------------------------
\* What an approval binds: two signatures, or a verdict.
BySignatures(p) == IsFinal(p) \/ PolicyOf(p) = "GOAL"

\* What has passed the gate of the step under the cursor, in words of the record.
LEMMA GatedIs ==
  ASSUME NEW p, NEW x
  PROVE  x \in Gated(p) <=>
           /\ p.phase = "INTEGRATE" /\ HasStep(p)
           /\ \/ /\ BySignatures(p) /\ BothReady(p) /\ p.evidence["Austin"] = p.evidence["Tony"]
                 /\ x = <<Cursor(p), p.evidence["Austin"].of>>
              \/ /\ ~BySignatures(p) /\ Proven(Current(p))
                 /\ x = <<Cursor(p), Current(p).verdict.on.of>>
BY DEF Gated, BySignatures, Proven

\* Only the signatures differ.
SameButSigned(q, p) ==
  /\ q \in StepState
  /\ q.steps = p.steps /\ q.phase = p.phase /\ q.plan = p.plan /\ q.version = p.version

\* Signing and taking signatures back moves no step.
LEMMA SignaturesKeep ==
  ASSUME NEW p, Good(p), NEW q, SameButSigned(q, p)
  PROVE  Keeps(q, p)
<1>1. Cursor(q) = Cursor(p) /\ Finished(q) = Finished(p) /\ HasStep(q) = HasStep(p)
  BY DEF SameButSigned, Cursor, Open, Finished, HasStep
<1> HIDE DEF Cursor, Open, Finished, HasStep
<1>2. Good(q)
  BY <1>1 DEF Good, InOrder, Phased, SameButSigned
<1> QED
  BY <1>1, <1>2, KeepsItself DEF Keeps, SameButSigned

\* The types of a good queue and its fields.
LEMMA GoodState ==
  ASSUME NEW p, Good(p)
  PROVE  /\ p \in StepState /\ p.phase \in {"PLAN", "EXECUTE", "REVIEW", "INTEGRATE", "DONE"}
         /\ p.ready \in [Agents -> BOOLEAN] /\ p.evidence \in [Agents -> Ref]
         /\ p.version \in Nat /\ p.plan \in BOOLEAN /\ p.steps \in Seq(Step)
         /\ Len(p.steps) \in Nat /\ Cursor(p) \in 1 .. Len(p.steps) + 1
BY PhaseFacts DEF Good, InOrder, StepState

\* Signatures that are taken back, or none.
LEMMA UnsignedKeeps ==
  ASSUME NEW p, Good(p), NEW q, SameButSigned(q, p),
         \A a \in Agents : q.ready[a] => p.ready[a] /\ q.evidence[a] = p.evidence[a]
  PROVE  Keeps(q, p) /\ Gated(q) \subseteq Gated(p)
<1>2. Keeps(q, p) /\ IsFinal(q) = IsFinal(p) /\ PolicyOf(q) = PolicyOf(p) /\ Current(q) = Current(p)
      /\ HasStep(q) = HasStep(p) /\ Cursor(q) = Cursor(p)
  BY SignaturesKeep DEF SameButSigned, IsFinal, PolicyOf, Current, Cursor, HasStep, Open
<1>4. ASSUME NEW x \in Gated(q) PROVE x \in Gated(p)
  <2>1. q.phase = p.phase /\ (BothReady(q) => BothReady(p) /\ q.evidence["Austin"] = p.evidence["Austin"]
                                           /\ q.evidence["Tony"] = p.evidence["Tony"])
    BY DEF SameButSigned, BothReady, Agents
  <2> QED
    BY <1>2, <1>4, <2>1, GatedIs DEF BySignatures
<1> QED
  BY <1>2, <1>4

\* Writing the two signature fields changes nothing else.
LEMMA SignedIs ==
  ASSUME NEW p, p \in StepState, NEW r, r \in [Agents -> BOOLEAN], NEW e, e \in [Agents -> Ref]
  PROVE  SameButSigned([p EXCEPT !.ready = r, !.evidence = e], p)
BY DEF SameButSigned, StepState

\* Stale signatures go: no approval is new.
LEMMA WithoutStaleKeeps ==
  ASSUME NEW p, Good(p)
  PROVE  /\ SameButSigned(WithoutStale(p), p) /\ Keeps(WithoutStale(p), p)
         /\ Gated(WithoutStale(p)) \subseteq Gated(p)
<1> DEFINE q == WithoutStale(p)
<1>1. SameButSigned(q, p)
  <2> DEFINE ready == [a \in Agents |-> p.ready[a] /\ ~Stale(p, a)]
             evidence == [a \in Agents |-> IF Stale(p, a) THEN NoRef ELSE p.evidence[a]]
  <2>1. ready \in [Agents -> BOOLEAN] /\ evidence \in [Agents -> Ref]
    BY GoodState, RefFacts
  <2>2. q = [p EXCEPT !.ready = ready, !.evidence = evidence]
    BY DEF WithoutStale
  <2> HIDE DEF q, ready, evidence
  <2> QED
    BY <2>1, <2>2, GoodState, SignedIs
<1>3. \A a \in Agents : q.ready[a] => p.ready[a] /\ q.evidence[a] = p.evidence[a]
  <2>1. p \in StepState
    BY GoodState
  <2>2. /\ q.ready = [a \in Agents |-> p.ready[a] /\ ~Stale(p, a)]
        /\ q.evidence = [a \in Agents |-> IF Stale(p, a) THEN NoRef ELSE p.evidence[a]]
    BY <2>1 DEF WithoutStale, StepState
  <2> HIDE DEF q
  <2> QED
    BY <2>2
<1> QED
  BY <1>1, <1>3, UnsignedKeeps

----------------------------------------------------------------------------
Working == {"EXECUTE", "REVIEW", "INTEGRATE"}

\* Nothing is approved outside INTEGRATE.
LEMMA NotGated == ASSUME NEW p, p.phase # "INTEGRATE" PROVE Gated(p) = {}
BY GatedIs

\* The step under the cursor is rewritten: submitted, withdrawn, judged, revoked.
LEMMA RewrittenKeeps ==
  ASSUME NEW p, Good(p), HasStep(p), NEW q, q \in StepState, p.phase \in Working,
         NEW s \in Step, Fitting(s, q.phase),
         q.phase \in Working, q.steps = [p.steps EXCEPT ![Cursor(p)] = s]
  PROVE  Keeps(q, p) /\ Current(q) = s
<1> DEFINE k == Cursor(p)
<1>1. k \in 1 .. Len(p.steps) /\ p.steps \in Seq(Step) /\ Len(p.steps) \in Nat
  BY GoodState, QueueFacts DEF Good
<1>2. Len(q.steps) = Len(p.steps) /\ q.steps[k] = s
      /\ \A i \in 1 .. Len(p.steps) : i # k => q.steps[i] = p.steps[i]
  BY <1>1
<1>3. /\ Len(p.steps) <= Len(q.steps)
      /\ Fitting(q.steps[k], q.phase)
      /\ \A i \in Len(p.steps) + 1 .. Len(q.steps) : Untouched(q.steps[i])
  BY <1>1, <1>2
<1>4. q.phase \notin {"PLAN", "DONE"} /\ p.phase \notin {"PLAN", "DONE"} /\ ~(k > Len(q.steps))
  BY <1>1, <1>2 DEF Working
<1> HIDE DEF k
<1>5. Keeps(q, p)
  BY <1>2, <1>3, <1>4, Reshaped DEF k
<1> QED
  BY <1>2, <1>5 DEF Keeps, Current, k

\* The empty signatures have their type.
LEMMA NoneSigned == NobodyReady \in [Agents -> BOOLEAN] /\ NoEvidence \in [Agents -> Ref]
BY RefFacts DEF NobodyReady, NoEvidence

\* duo_set_plan, in PLAN.
LEMMA StepPlanKeeps ==
  ASSUME NEW p, Good(p), p.phase = "PLAN"
  PROVE  Keeps(StepPlan(p), p) /\ StepPlan(p).phase = "PLAN"
<1> DEFINE q == StepPlan(p)
<1>1. q = [p EXCEPT !.ready = NobodyReady, !.evidence = NoEvidence, !.plan = TRUE, !.version = p.version + 1]
  BY DEF StepPlan, ResetApprovals
<1>2. q \in StepState /\ q.steps = p.steps /\ q.phase = p.phase
  <2>1. p.version + 1 \in Nat /\ p \in StepState
    BY GoodState
  <2> HIDE DEF q
  <2> QED
    BY <1>1, <2>1, NoneSigned DEF StepState
<1>3. \A i \in 1 .. Len(p.steps) : Ticked(p.steps[i]) <=> i < Cursor(p)
  BY DEF Good, InOrder
<1>4. Cursor(p) <= Len(p.steps) => Fitting(p.steps[Cursor(p)], "PLAN")
  BY <1>3, GoodState DEF Good, Phased, Fitting
<1> QED
  BY <1>2, <1>4, GoodState, Reshaped DEF Good, Phased

\* A step that is queued has not been worked.
LEMMA FreshStep == \A policy \in Policies : Fresh(policy) \in Step /\ Untouched(Fresh(policy))
BY RefFacts DEF Fresh, Step, Untouched, Ticked, NoVerdict, Verdict

\* A queue is set in PLAN and grows later.
LEMMA SetStepsKeeps ==
  ASSUME NEW p, Good(p), CanSetSteps(p, TRUE), NEW n \in Nat \ {0}, NEW policies \in [1 .. n -> Policies]
  PROVE  Keeps(SetSteps(p, policies), p) /\ SetSteps(p, policies).phase = p.phase
<1> DEFINE new == [i \in 1 .. n |-> Fresh(policies[i])]
           q == SetSteps(p, policies)
<1>1. /\ new \in Seq(Step) /\ Len(new) = n /\ DOMAIN policies = 1 .. n
      /\ \A i \in 1 .. n : new[i] \in Step /\ Untouched(new[i])
  BY FreshStep
<1> HIDE DEF new
<1>2. CASE p.phase = "PLAN"
  <2>1. q = [p EXCEPT !.ready = NobodyReady, !.evidence = NoEvidence, !.steps = new]
    BY <1>1, <1>2 DEF SetSteps, ResetApprovals, new
  <2>2. q \in StepState /\ q.steps = new /\ q.phase = "PLAN"
    BY <1>1, <1>2, <2>1, GoodState, NoneSigned DEF StepState
  <2>3. Cursor(p) = 1 /\ ~Finished(p)
    BY <1>2, QueueFacts DEF Good, Phased
  <2>4. Cursor(q) = 1 /\ HasStep(q) /\ ~Finished(q)
    BY <1>1, <2>2, CursorIs DEF Untouched
  <2>5. \A i \in 1 .. n : new[i].head = NoRef /\ new[i].verdict = NoVerdict /\ ~Ticked(new[i])
    BY <1>1 DEF Untouched
  <2>6. Good(q)
    BY <1>1, <2>2, <2>4, <2>5 DEF Good, InOrder, Phased, Proven, NoVerdict
  <2> QED
    BY <1>1, <1>2, <2>2, <2>3, <2>4, <2>6 DEF Keeps
<1>3. CASE p.phase # "PLAN"
  <2>1. q = [p EXCEPT !.steps = p.steps \o new] /\ p.phase # "DONE"
    BY <1>1, <1>3 DEF SetSteps, CanSetSteps, new
  <2>2. q.steps = p.steps \o new /\ q.phase = p.phase /\ p.steps \o new \in Seq(Step)
    BY <1>1, <2>1, GoodState DEF StepState
  <2>3. q \in StepState
    BY <2>1, <2>2, GoodState DEF StepState
  <2>4. /\ Len(q.steps) = Len(p.steps) + n
        /\ \A i \in 1 .. Len(p.steps) : q.steps[i] = p.steps[i]
        /\ \A i \in Len(p.steps) + 1 .. Len(q.steps) : q.steps[i] = new[i - Len(p.steps)]
    <3>1. Len(p.steps) \in Nat /\ p.steps \in Seq(Step)
      BY GoodState
    <3> QED
      <4> DEFINE both == p.steps \o new
      <4>1. /\ Len(both) = Len(p.steps) + n
            /\ \A i \in 1 .. Len(p.steps) + n :
                 both[i] = IF i <= Len(p.steps) THEN p.steps[i] ELSE new[i - Len(p.steps)]
        BY <1>1, <3>1, ConcatProperties
      <4>2. q.steps = both /\ n \in Nat
        BY <2>2
      <4> HIDE DEF both, q
      <4>3. \A i \in 1 .. Len(p.steps) : q.steps[i] = p.steps[i]
        BY <3>1, <4>1, <4>2
      <4>4. ASSUME NEW i \in Len(p.steps) + 1 .. Len(q.steps) PROVE q.steps[i] = new[i - Len(p.steps)]
        <5>1. i \in 1 .. Len(p.steps) + n /\ ~(i <= Len(p.steps))
          BY <3>1, <4>1, <4>2, <4>4
        <5> QED
          BY <4>1, <4>2, <5>1
      <4> QED
        BY <4>1, <4>2, <4>3, <4>4
  <2>5. \A i \in Len(p.steps) + 1 .. Len(q.steps) : Untouched(q.steps[i])
    BY <1>1, <2>4, GoodState
  <2>6. \A i \in 1 .. Len(p.steps) : Ticked(p.steps[i]) <=> i < Cursor(p)
    BY DEF Good, InOrder
  <2>7. Cursor(p) <= Len(p.steps) => Fitting(q.steps[Cursor(p)], q.phase)
    BY <2>2, <2>4, <2>6, GoodState DEF Good, Phased, Fitting
  <2>8. Cursor(p) > Len(q.steps) => q.phase \in {"PLAN", "INTEGRATE", "DONE"}
    BY <2>4, GoodState
  <2>9. Len(p.steps) <= Len(q.steps) /\ q.phase \notin {"PLAN", "DONE"} /\ p.phase \notin {"PLAN", "DONE"}
    BY <1>1, <1>3, <2>1, <2>2, <2>4, GoodState
  <2> HIDE DEF q
  <2>10. Keeps(q, p)
    BY <2>3, <2>4, <2>5, <2>7, <2>8, <2>9, Reshaped
  <2> QED
    BY <2>2, <2>10 DEF q
<1> QED
  BY <1>2, <1>3

\* The step under the cursor has not landed, and its verdict is of its head.
LEMMA CurrentIs ==
  ASSUME NEW p, Good(p), HasStep(p)
  PROVE  /\ Current(p) \in Step /\ ~Ticked(Current(p)) /\ Current(p) = p.steps[Cursor(p)]
         /\ PolicyOf(p) = Current(p).policy
         /\ p.phase \in Working \cup {"PLAN"}
         /\ Proven(Current(p)) =>
              /\ p.phase = "INTEGRATE" /\ PolicyOf(p) = "FAST"
              /\ Current(p).verdict.on = Current(p).head /\ Current(p).head.kind = "head"
         /\ p.phase = "INTEGRATE" /\ PolicyOf(p) = "FAST" /\ Current(p).head # NoRef => Proven(Current(p))
<1>1. Cursor(p) \in 1 .. Len(p.steps) /\ \A i \in 1 .. Len(p.steps) : Ticked(p.steps[i]) <=> i < Cursor(p)
  BY QueueFacts DEF Good, InOrder
<1>2. p.phase # "DONE"
  BY <1>1, GoodState DEF Good, Phased
<1> QED
  BY <1>1, <1>2, GoodState, QueueFacts DEF Good, Phased, Current, PolicyOf, Working

\* RewrittenKeeps for the two ways in which the code writes the step and the phase.
LEMMA WithCurrentKeeps ==
  ASSUME NEW p, Good(p), HasStep(p), p.phase \in Working,
         NEW s \in Step, NEW ph \in Working, Fitting(s, ph)
  PROVE  /\ Keeps([WithCurrent(p, s) EXCEPT !.phase = ph], p)
         /\ [WithCurrent(p, s) EXCEPT !.phase = ph].phase = ph
         /\ Keeps([ResetApprovals(WithCurrent(p, s)) EXCEPT !.phase = ph], p)
<1> DEFINE ss == [p.steps EXCEPT ![Cursor(p)] = s]
<1>1. p \in StepState /\ p.ready \in [Agents -> BOOLEAN] /\ p.evidence \in [Agents -> Ref]
  BY GoodState
<1>2. WithCurrent(p, s) = [p EXCEPT !.steps = ss]
  BY DEF WithCurrent
<1> HIDE DEF ss
<1>3. [WithCurrent(p, s) EXCEPT !.phase = ph]
        = [p EXCEPT !.steps = ss, !.phase = ph, !.ready = p.ready, !.evidence = p.evidence]
  BY <1>1, <1>2 DEF StepState
<1>4. [ResetApprovals(WithCurrent(p, s)) EXCEPT !.phase = ph]
        = [p EXCEPT !.steps = ss, !.phase = ph, !.ready = NobodyReady, !.evidence = NoEvidence]
  BY <1>1, <1>2 DEF StepState, ResetApprovals
<1>5. ss \in Seq(Step)
  BY GoodState, QueueFacts DEF ss, Good
<1> DEFINE q1 == [WithCurrent(p, s) EXCEPT !.phase = ph]
           q2 == [ResetApprovals(WithCurrent(p, s)) EXCEPT !.phase = ph]
<1>6. q1 \in StepState /\ q1.steps = ss /\ q1.phase = ph
  BY <1>1, <1>3, <1>5, PhaseFacts DEF StepState, Working
<1>7. q2 \in StepState /\ q2.steps = ss /\ q2.phase = ph
  BY <1>1, <1>4, <1>5, PhaseFacts, NoneSigned DEF StepState, Working
<1> HIDE DEF q1, q2
<1>8. Keeps(q1, p) /\ Current(q1) = s
  BY <1>6, RewrittenKeeps DEF ss
<1>9. Keeps(q2, p) /\ Current(q2) = s
  BY <1>7, RewrittenKeeps DEF ss
<1> QED
  BY <1>6, <1>7, <1>8, <1>9 DEF q1, q2

\* A signature is given or taken back; two of them may end the phase.
LEMMA SignStepKeeps ==
  ASSUME NEW p, Good(p), NEW a \in Agents, NEW r \in BOOLEAN, NEW e \in Ref, CanSignStep(p, r)
  PROVE  Keeps(SignStep(p, a, r, e), p)
<1> DEFINE ready == [p.ready EXCEPT ![a] = r]
           evidence == [p.evidence EXCEPT ![a] = IF r THEN e ELSE NoRef]
           s == [p EXCEPT !.ready = ready, !.evidence = evidence]
           q == SignStep(p, a, r, e)
<1>1. ready \in [Agents -> BOOLEAN] /\ evidence \in [Agents -> Ref] /\ ready[a] = r
  BY GoodState, RefFacts
<1>2. q = IF BothReady(s) /\ s.phase # "INTEGRATE"
          THEN [ResetApprovals(s) EXCEPT !.phase = NextPhase[s.phase]] ELSE s
  BY DEF SignStep
<1> HIDE DEF ready, evidence, q
<1>3. SameButSigned(s, p) /\ s.ready = ready
  <2>1. p \in StepState
    BY GoodState
  <2>2. SameButSigned(s, p)
    BY <1>1, <2>1, SignedIs
  <2>3. s.ready = ready
    BY <2>1 DEF StepState
  <2> QED
    BY <2>2, <2>3
<1>4. CASE q = s
  BY <1>3, <1>4, SignaturesKeep DEF q
<1>5. CASE q # s
  <2>1. BothReady(s) /\ r = TRUE /\ s.phase = p.phase /\ p.phase # "INTEGRATE"
    BY <1>1, <1>2, <1>3, <1>5 DEF BothReady, SameButSigned
  <2>2. SignsIn(p) /\ (p.phase = "PLAN" => p.steps # <<>>)
    BY <2>1 DEF CanSignStep
  <2>3. /\ p.phase \in {"PLAN", "EXECUTE", "REVIEW"}
        /\ NextPhase[p.phase] \in Working
        /\ NextPhase[p.phase] = "INTEGRATE" => PolicyOf(p) = "GOAL"
    BY <2>1, <2>2, PhaseFacts DEF SignsIn, Working
  <2>4. q = [p EXCEPT !.ready = NobodyReady, !.evidence = NoEvidence, !.phase = NextPhase[p.phase]]
    BY <1>2, <1>3, <2>1, GoodState DEF ResetApprovals, StepState
  <2>5. q \in StepState /\ q.steps = p.steps /\ q.phase = NextPhase[p.phase]
    BY <2>3, <2>4, GoodState, NoneSigned, PhaseFacts DEF StepState, Working
  <2>6. HasStep(p)
    BY <2>2, <2>3, QueueFacts, GoodState DEF Good, Phased
  <2>7. Fitting(p.steps[Cursor(p)], q.phase)
    BY <2>3, <2>5, <2>6, CurrentIs DEF Fitting
  <2>8. Cursor(p) \in 1 .. Len(p.steps)
    BY <2>6, GoodState, QueueFacts DEF Good
  <2>9. Keeps(q, p)
    BY <2>3, <2>5, <2>7, <2>8, Reshaped DEF Working
  <2> QED
    BY <2>9 DEF q
<1> QED
  BY <1>4, <1>5

\* What setReady makes of a call, for whatever phase it was meant.
LEMMA SetStepReadyKeeps ==
  ASSUME NEW p, Good(p), NEW a \in Agents, NEW r \in BOOLEAN, NEW e \in Ref, CanSetStepReady(p, a, r)
  PROVE  Keeps(SetStepReady(p, a, r, e), p)
<1>1. CASE SignsIn(p)
  <2>1. CanSignStep(p, r)
    BY <1>1 DEF CanSetStepReady, Fast, CanSignStep
  <2> QED
    <3>1. ~Fast(p, "EXECUTE") /\ ~Fast(p, "REVIEW")
      BY <1>1 DEF SignsIn, Fast
    <3>2. SetStepReady(p, a, r, e) = SignStep(p, a, r, e)
      BY <1>1, <3>1 DEF SetStepReady
    <3> QED
      BY <2>1, <3>2, SignStepKeeps
<1>2. CASE ~SignsIn(p) /\ Fast(p, "EXECUTE") /\ r
  <2>1. HasStep(p) /\ p.phase = "EXECUTE" /\ Current(p) \in Step /\ ~Ticked(Current(p))
    BY <1>2, CurrentIs DEF Fast
  <2> DEFINE s == [Current(p) EXCEPT !.head = e, !.verdict = NoVerdict]
  <2>2. s \in Step /\ Fitting(s, "REVIEW")
    BY <2>1, RefFacts DEF Step, Fitting, Ticked, Proven, NoVerdict, Verdict
  <2> HIDE DEF s
  <2>3. Keeps([WithCurrent(p, s) EXCEPT !.phase = "REVIEW"], p)
    BY <2>1, <2>2, WithCurrentKeeps DEF Working
  <2> QED
    BY <1>2, <2>3 DEF SetStepReady, Submit, s
<1>3. CASE ~SignsIn(p) /\ Fast(p, "REVIEW") /\ a = "Austin" /\ ~r
  <2>1. HasStep(p) /\ p.phase = "REVIEW" /\ Current(p) \in Step /\ ~Ticked(Current(p))
    BY <1>3, CurrentIs DEF Fast
  <2> DEFINE s == [Current(p) EXCEPT !.verdict = NoVerdict]
  <2>2. s \in Step /\ Fitting(s, "EXECUTE")
    BY <2>1, RefFacts DEF Step, Fitting, Ticked, Proven, NoVerdict, Verdict
  <2> HIDE DEF s
  <2>3. Keeps([WithCurrent(p, s) EXCEPT !.phase = "EXECUTE"], p)
    BY <2>1, <2>2, WithCurrentKeeps DEF Working
  <2>4. ~Fast(p, "EXECUTE")
    BY <2>1 DEF Fast
  <2> QED
    BY <1>3, <2>3, <2>4 DEF SetStepReady, WithdrawStep, s
<1>4. CASE SetStepReady(p, a, r, e) = p
  BY <1>4, KeepsItself
<1> QED
  BY <1>1, <1>2, <1>3, <1>4 DEF SetStepReady

\* A verdict on the submitted head moves a FAST step on or back.
LEMMA VerifyKeeps ==
  ASSUME NEW p, Good(p), NEW result \in {"passed", "issue"}, NEW head, CanVerify(p, result, head),
         result = "passed" => head.kind = "head"
  PROVE  Keeps(Verify(p, result), p)
<1>1. HasStep(p) /\ p.phase = "REVIEW" /\ Current(p) \in Step /\ ~Ticked(Current(p)) /\ Current(p).policy = "FAST"
  BY CurrentIs DEF CanVerify, Fast
<1> DEFINE s == [Current(p) EXCEPT !.verdict = [status |-> result, on |-> Current(p).head]]
           ph == IF result = "passed" THEN "INTEGRATE" ELSE "EXECUTE"
<1>2. s \in Step /\ Fitting(s, ph) /\ ph \in Working
  BY <1>1 DEF Step, Fitting, Ticked, Proven, Verdict, CanVerify, Working
<1> HIDE DEF s
<1>3. Keeps([WithCurrent(p, s) EXCEPT !.phase = ph], p)
  BY <1>1, <1>2, WithCurrentKeeps DEF Working
<1> QED
  BY <1>3 DEF Verify, s

\* A submission or the signatures of a step are revoked.
LEMMA RevokeStepKeeps ==
  ASSUME NEW p, Good(p), CanRevokeStep(p)
  PROVE  Keeps(RevokeStep(p), p)
<1>1. HasStep(p) /\ p.phase \in Working /\ Current(p) \in Step /\ ~Ticked(Current(p))
  BY CurrentIs DEF CanRevokeStep, Working
<1> DEFINE s == [Current(p) EXCEPT !.head = NoRef, !.verdict = NoVerdict]
<1>2. s \in Step /\ Fitting(s, "EXECUTE")
  BY <1>1, RefFacts DEF Step, Fitting, Ticked, Proven, NoVerdict, Verdict
<1> HIDE DEF s
<1>3. Keeps([WithCurrent(p, s) EXCEPT !.phase = "EXECUTE"], p)
      /\ Keeps([ResetApprovals(WithCurrent(p, s)) EXCEPT !.phase = "EXECUTE"], p)
  BY <1>1, <1>2, WithCurrentKeeps DEF Working
<1> QED
  BY <1>3 DEF RevokeStep, s

\* Reconcile: a step without a verdict on Austin's head is under review again.
LEMMA ReconcileKeeps ==
  ASSUME NEW p, Good(p)
  PROVE  Keeps(Reconcile(p), p) /\ Gated(Reconcile(p)) \subseteq Gated(p)
<1> DEFINE unproved == Fast(p, "INTEGRATE") /\ ~(HasTarget /\ VerdictBinds(p, Target))
           s == [Current(p) EXCEPT !.verdict = NoVerdict]
           back == [WithCurrent(p, s) EXCEPT !.phase = "REVIEW"]
<1>1. ~unproved => Reconcile(p) = WithoutStale(p)
  BY DEF Reconcile
<1>2. unproved => Reconcile(p) = WithoutStale(back)
  BY DEF Reconcile
<1>3. ASSUME unproved PROVE Keeps(back, p) /\ Gated(back) = {}
  <2>1. HasStep(p) /\ p.phase \in Working /\ Current(p) \in Step /\ ~Ticked(Current(p))
    BY <1>3, CurrentIs DEF Fast, Working
  <2>2. s \in Step /\ Fitting(s, "REVIEW")
    BY <2>1, RefFacts DEF Step, Fitting, Ticked, Proven, NoVerdict, Verdict
  <2> HIDE DEF s, unproved
  <2>3. "REVIEW" \in Working
    BY DEF Working
  <2>5. Keeps(back, p) /\ back.phase = "REVIEW"
    BY <2>1, <2>2, <2>3, WithCurrentKeeps
  <2> QED
    BY <2>5, NotGated
<1> HIDE DEF unproved, back
<1>4. CASE unproved
  <2>1. Good(back) /\ Keeps(WithoutStale(back), back) /\ Gated(WithoutStale(back)) \subseteq Gated(back)
    BY <1>3, <1>4, WithoutStaleKeeps DEF Keeps
  <2>2. Keeps(WithoutStale(back), p)
    BY <1>3, <1>4, <2>1 DEF Keeps
  <2> QED
    BY <1>2, <1>3, <1>4, <2>1, <2>2
<1> QED
  BY <1>1, <1>4, WithoutStaleKeeps

----------------------------------------------------------------------------
\* The step under the cursor has landed as h, and the cursor moves.
Lands(q, p, h) ==
  /\ Good(q) /\ Cursor(q) = Cursor(p) + 1 /\ Len(q.steps) = Len(p.steps)
  /\ \A i \in 1 .. Cursor(p) - 1 : q.steps[i].landed = p.steps[i].landed
  /\ q.steps[Cursor(p)].landed = h
  /\ Gated(q) = {}
  /\ q.phase \in {"EXECUTE", "INTEGRATE"}

\* Any record with the landed step and the phase after it has landed the step.
LEMMA LandsIs ==
  ASSUME NEW p, Good(p), NEW h \in Ref, h.kind = "head", CanLandStep(p, h),
         NEW q, q \in StepState,
         q.steps = [p.steps EXCEPT ![Cursor(p)] = [Current(p) EXCEPT !.landed = h]],
         q.phase = IF Cursor(p) < Len(p.steps) THEN "EXECUTE" ELSE "INTEGRATE"
  PROVE  Lands(q, p, h)
<1> DEFINE k == Cursor(p)
           s == [Current(p) EXCEPT !.landed = h]
<1>1. /\ k \in 1 .. Len(p.steps) /\ p.steps \in Seq(Step) /\ Len(p.steps) \in Nat
      /\ Current(p) \in Step /\ InOrder(p)
  BY GoodState, QueueFacts, CurrentIs DEF Good, CanLandStep
<1>2. s \in Step /\ Ticked(s) /\ s.landed = h
  BY <1>1 DEF Step, Ticked, NoRef
<1> HIDE DEF s
<1>3. /\ q.steps \in Seq(Step) /\ Len(q.steps) = Len(p.steps) /\ q.steps[k] = s
      /\ \A i \in 1 .. Len(p.steps) : i # k => q.steps[i] = p.steps[i]
  BY <1>1, <1>2 DEF s
<1> HIDE DEF k
<1>4. \A i \in 1 .. Len(p.steps) : Ticked(p.steps[i]) <=> i < k
  BY <1>1 DEF InOrder, k
<1>5. \A i \in 1 .. Len(q.steps) : Ticked(q.steps[i]) <=> i < k + 1
  BY <1>1, <1>2, <1>3, <1>4
<1>6. k + 1 \in 1 .. Len(q.steps) + 1
  BY <1>1, <1>3
<1>7. Cursor(q) = k + 1 /\ (HasStep(q) <=> k + 1 <= Len(q.steps))
  BY <1>3, <1>5, <1>6, CursorIs
<1>8. \A i \in 1 .. k - 1 : q.steps[i] = p.steps[i]
  BY <1>1, <1>3
<1>9. \A i \in k + 1 .. Len(q.steps) :
        q.steps[i].head = NoRef /\ q.steps[i].verdict = NoVerdict
  BY <1>1, <1>3 DEF InOrder, k
<1>10. InOrder(q)
  <2>1. \A i \in 1 .. k - 1 : p.steps[i].landed # h
    BY <1>1 DEF CanLandStep
  <2>2. \A i, j \in 1 .. k : q.steps[i].landed = q.steps[j].landed => i = j
    <3>1. \A i, j \in 1 .. k - 1 : p.steps[i].landed = p.steps[j].landed => i = j
      BY <1>1 DEF InOrder, k
    <3> QED
      <4>1. \A i \in 1 .. k - 1 : q.steps[i].landed = p.steps[i].landed /\ q.steps[i].landed # h
        BY <1>8, <2>1
      <4>2. q.steps[k].landed = h /\ \A i \in 1 .. k : i = k \/ i \in 1 .. k - 1
        BY <1>1, <1>2, <1>3 DEF k
      <4> QED
        BY <3>1, <4>1, <4>2
  <2>3. \A i \in 1 .. k : q.steps[i].landed.kind = "head"
    <3>1. \A i \in 1 .. k - 1 : p.steps[i].landed.kind = "head"
      BY <1>1 DEF InOrder, k
    <3> QED
      BY <1>1, <1>2, <1>3, <1>8, <3>1
  <2>4. (k + 1) - 1 = k /\ \A i \in (k + 1) + 1 .. Len(q.steps) : i \in k + 1 .. Len(q.steps)
    BY <1>1, <1>3
  <2> QED
    BY <1>5, <1>6, <1>7, <1>9, <2>2, <2>3, <2>4 DEF InOrder
<1>11. Phased(q)
  <2>1. q.steps # <<>>
    BY <1>1, <1>3
  <2>2. k + 1 <= Len(q.steps) => ~Proven(q.steps[k + 1]) /\ q.steps[k + 1].head = NoRef
    BY <1>1, <1>3, <1>9 DEF Proven, NoVerdict
  <2> QED
    BY <1>1, <1>3, <1>7, <2>1, <2>2 DEF Phased, k
<1>12. Gated(q) = {}
  <2>1. q.phase # "INTEGRATE" \/ ~HasStep(q)
    BY <1>1, <1>3, <1>7 DEF k
  <2> QED
    BY <2>1, GatedIs
<1> QED
  BY <1>2, <1>3, <1>7, <1>8, <1>10, <1>11, <1>12 DEF Lands, Good, k

\* State.LandStep live and LandStepSnapshot offline both land the step.
LEMMA LandStepLands ==
  ASSUME NEW p, Good(p), NEW h \in Ref, h.kind = "head", CanLandStep(p, h)
  PROVE  Lands(LandStep(p, h), p, h) /\ Lands(LandOffline(p, h), p, h)
<1> DEFINE k == Cursor(p)
           s == [Current(p) EXCEPT !.landed = h]
           ss == [p.steps EXCEPT ![k] = s]
           w == WithCurrent(p, s)
<1>1. /\ k \in 1 .. Len(p.steps) /\ p.steps \in Seq(Step) /\ Len(p.steps) \in Nat
      /\ Current(p) \in Step /\ InOrder(p) /\ p \in StepState /\ p.phase = "INTEGRATE"
  BY GoodState, QueueFacts, CurrentIs DEF Good, CanLandStep
<1>2. s \in Step /\ Ticked(s)
  BY <1>1 DEF Step, Ticked, NoRef
<1>3. ss \in Seq(Step) /\ Len(ss) = Len(p.steps) /\ ss[k] = s
      /\ \A i \in 1 .. Len(p.steps) : i # k => ss[i] = p.steps[i]
  BY <1>1, <1>2
<1>4. w = [p EXCEPT !.steps = ss]
  BY DEF WithCurrent
<1> HIDE DEF ss, w, s, k
<1>5. w.steps = ss /\ w \in StepState /\ w.phase = "INTEGRATE"
  BY <1>1, <1>3, <1>4 DEF StepState
<1>6. HasStep(w) <=> k < Len(p.steps)
  <2>1. \A i \in 1 .. Len(p.steps) : Ticked(p.steps[i]) <=> i < k
    BY <1>1 DEF InOrder, k
  <2>2. \A i \in 1 .. Len(ss) : Ticked(ss[i]) <=> i < k + 1
    BY <1>1, <1>2, <1>3, <2>1
  <2>3. k + 1 \in 1 .. Len(ss) + 1
    BY <1>1, <1>3
  <2>4. HasStep(w) <=> k + 1 <= Len(ss)
    BY <1>3, <1>5, <2>2, <2>3, CursorIs
  <2> QED
    BY <1>1, <1>3, <2>4
<1> DEFINE q == LandStep(p, h)
           o == LandOffline(p, h)
<1>7. q = IF k < Len(p.steps) THEN [ResetApprovals(w) EXCEPT !.phase = "EXECUTE"] ELSE w
  BY <1>6 DEF LandStep, w, s
<1> HIDE DEF q
<1>8. q.steps = ss /\ q \in StepState
      /\ q.phase = IF k < Len(p.steps) THEN "EXECUTE" ELSE "INTEGRATE"
  BY <1>5, <1>7, PhaseFacts, NoneSigned DEF ResetApprovals, StepState
<1>9. o = [p EXCEPT !.phase = q.phase, !.steps = q.steps]
  BY DEF LandOffline, q
<1> HIDE DEF o
<1>10. o.steps = ss /\ o \in StepState
      /\ o.phase = IF k < Len(p.steps) THEN "EXECUTE" ELSE "INTEGRATE"
  BY <1>1, <1>3, <1>8, <1>9, PhaseFacts DEF StepState
<1>11. Lands(q, p, h)
  BY <1>8, LandsIs DEF ss, s, k
<1>12. Lands(o, p, h)
  BY <1>10, LandsIs DEF ss, s, k
<1> QED
  BY <1>11, <1>12 DEF q, o

----------------------------------------------------------------------------
\* More approvals and a longer branch take nothing back.
LEMMA SitedKeeps ==
  ASSUME NEW p, NEW d, NEW known, NEW branch \in Nat, Sited(p, d, known, branch),
         NEW q, Keeps(q, p), NEW more, known \subseteq more, Gated(q) \subseteq more,
         NEW further \in Nat, branch <= further
  PROVE  Sited(q, d, more, further)
<1>1. Good(p) /\ Good(q) /\ Cursor(q) = Cursor(p) /\ Cursor(p) \in Nat
      /\ \A i \in 1 .. Cursor(p) - 1 : q.steps[i].landed = p.steps[i].landed
  BY QueueFacts DEF Sited, Keeps, Good
<1>2. \A i \in 1 .. Cursor(q) - 1 :
        q.steps[i].landed.of <= further /\ <<i, q.steps[i].landed.of>> \in more
  <2> SUFFICES ASSUME NEW i \in 1 .. Cursor(q) - 1
               PROVE  q.steps[i].landed.of <= further /\ <<i, q.steps[i].landed.of>> \in more
    OBVIOUS
  <2>1. p.steps[i].landed.of <= branch /\ <<i, p.steps[i].landed.of>> \in known
    BY <1>1 DEF Sited
  <2>2. p.steps[i] \in Step /\ p.steps[i].landed.of \in Nat
    <3>1. p.steps \in Seq(Step) /\ i \in 1 .. Len(p.steps)
      BY <1>1, GoodState
    <3>2. p.steps[i] \in Step
      BY <3>1
    <3>3. p.steps[i].landed \in Ref
      BY <3>2 DEF Step
    <3> QED
      BY <3>2, <3>3 DEF Ref
  <2> QED
    BY <1>1, <2>1, <2>2
<1>3. Accounted(q, d, more)
  <2>1. Cursor(p) <= Len(p.steps) => Cursor(q) <= Len(q.steps)
    BY <1>1, QueueFacts DEF Good, Keeps
  <2>2. Accounted(p, d, known)
    BY DEF Sited
  <2>3. q.phase = "PLAN" => p.phase = "PLAN"
    BY DEF Keeps
  <2> QED
    BY <1>1, <2>1, <2>2, <2>3 DEF Accounted
<1>4. IsApplied(d) => d.head.of <= further
  BY DEF Sited, DeliveryRecord, Ref
<1> QED
  BY <1>1, <1>2, <1>3, <1>4 DEF Sited, Keeps

\* SitedKeeps for a queue that stays as it is.
LEMMA SitedGrows ==
  ASSUME NEW p, NEW d, NEW known, NEW branch \in Nat, Sited(p, d, known, branch),
         NEW more, known \subseteq more, NEW further \in Nat, branch <= further
  PROVE  Sited(p, d, more, further)
<1>1. Good(p) /\ Gated(p) \subseteq more
  BY DEF Sited
<1> QED
  BY <1>1, KeepsItself, SitedKeeps

\* The record is of a landing that the queue knows or is to know next.
LEMMA SitedLands ==
  ASSUME NEW p, NEW d, NEW known, NEW branch, Sited(p, d, known, branch),
         NEW h \in Ref, NEW q, Lands(q, p, h), IsApplied(d), d.head = h,
         <<Cursor(p), h.of>> \in known, h.of <= branch
  PROVE  Sited(q, d, known, branch)
<1>1. Good(p) /\ Good(q) /\ Cursor(q) = Cursor(p) + 1 /\ Cursor(p) \in Nat \ {0}
  BY GoodState DEF Sited, Lands, Good
<1>2. \A i \in 1 .. Cursor(q) - 1 :
        q.steps[i].landed.of <= branch /\ <<i, q.steps[i].landed.of>> \in known
  <2> SUFFICES ASSUME NEW i \in 1 .. Cursor(q) - 1
               PROVE  q.steps[i].landed.of <= branch /\ <<i, q.steps[i].landed.of>> \in known
    OBVIOUS
  <2>1. CASE i = Cursor(p)
    BY <2>1 DEF Lands
  <2>2. CASE i # Cursor(p)
    <3>1. i \in 1 .. Cursor(p) - 1
      BY <1>1, <2>2
    <3> QED
      BY <3>1 DEF Lands, Sited
  <2> QED
    BY <2>1, <2>2
<1>3. Accounted(q, d, known)
  <2>1. q.steps[Cursor(p)].landed = d.head /\ Cursor(p) \in 1 .. Cursor(q) - 1 /\ q.phase # "PLAN"
    BY <1>1 DEF Lands
  <2>2. d.head.kind = "head"
    BY DEF Sited, Accounted
  <2> QED
    BY <2>1, <2>2 DEF Accounted
<1> QED
  BY <1>1, <1>2, <1>3 DEF Sited, Lands

\* A file that was just saved is where the live queue is.
LEMMA BehindItself == ASSUME NEW p, Good(p) PROVE Behind(p, p)
BY QueueFacts, GoodState DEF Behind, Follows, Good, Phased

\* A file stays behind a queue that moves within its step.
LEMMA BehindKeeps ==
  ASSUME NEW o, NEW p, Good(o), Good(p), Behind(o, p), NEW q, Keeps(q, p)
  PROVE  Behind(o, q)
<1>1. Cursor(o) \in 1 .. Len(o.steps) + 1 /\ Cursor(p) \in 1 .. Len(p.steps) + 1 /\ Cursor(q) = Cursor(p)
      /\ Len(o.steps) \in Nat /\ Len(p.steps) \in Nat /\ Len(q.steps) \in Nat
  BY GoodState DEF Keeps
<1>2. q.phase = "DONE" => Len(q.steps) = Len(p.steps) /\ p.phase = "DONE"
  BY <1>1, GoodState DEF Keeps, Good, Phased
<1> QED
  BY <1>1, <1>2 DEF Behind, Follows, Keeps

\* A file stays behind a queue whose step lands.
LEMMA BehindLands ==
  ASSUME NEW o, NEW p, Good(o), Good(p), p.phase # "DONE", Behind(o, p), NEW h, NEW q, Lands(q, p, h)
  PROVE  Behind(o, q)
<1>1. Cursor(o) \in 1 .. Len(o.steps) + 1 /\ Cursor(p) \in 1 .. Len(p.steps) + 1 /\ Cursor(q) = Cursor(p) + 1
      /\ Len(o.steps) \in Nat /\ Len(p.steps) \in Nat /\ Len(q.steps) \in Nat
  BY GoodState DEF Lands
<1> QED
  BY <1>1 DEF Behind, Follows, Lands

----------------------------------------------------------------------------
\* A step of the live process, piece by piece.
LEMMA LiveStep ==
  ASSUME IInv, Types', proc' = "live",
         Sited(project', delivery', approved', repo'.head),
         disk' = [project |-> project', delivery |-> delivery'] \/ disk' = disk,
         Behind(disk.project, project'),
         approved \subseteq approved', repo.head <= repo'.head,
         \A a \in Agents : Seated(a)'
  PROVE  IInv' /\ Told
<1>1. repo.head \in Nat /\ repo'.head \in Nat
  BY DEF IInv, Types
<1>2. Sited(disk'.project, disk'.delivery, approved', repo'.head) /\ Behind(disk'.project, project')
  <2>1. CASE disk' = [project |-> project', delivery |-> delivery']
    BY <2>1, BehindItself DEF Sited
  <2>2. CASE disk' = disk
    BY <1>1, <2>2, SitedGrows DEF IInv
  <2> QED
    BY <2>1, <2>2
<1>3. Away'
  BY DEF Away
<1>4. Told
  <2>1. Follows(disk.project, disk.project)
    BY BehindItself DEF IInv, Sited, Behind
  <2> QED
    BY <2>1 DEF Told, Behind
<1> QED
  BY <1>2, <1>3, <1>4 DEF IInv

\* What the invariant gives every step to work with.
LEMMA StepFacts ==
  ASSUME IInv
  PROVE  /\ Good(project) /\ Good(disk.project)
         /\ project \in StepState /\ disk.project \in StepState
         /\ delivery \in DeliveryRecord /\ delivery.head \in Ref
         /\ repo.head \in Nat /\ repo \in [head : Nat, blocked : BOOLEAN]
         /\ handler \in [Agents -> HandlerState]
         /\ \A a \in Agents : handler[a] \in HandlerState /\ handler[a].ref \in Ref /\ Seated(a)
         /\ Target \in Ref /\ Target.kind = "head" /\ Target # NoRef /\ \A a \in Agents : git.head[a] \in Nat
         /\ budget \in Setup /\ approved \subseteq Nat \X Nat
         /\ Sited(project, delivery, approved, repo.head)
         /\ Behind(disk.project, project) /\ Follows(project, project) /\ Follows(disk.project, disk.project)
<1>1. Target \in Ref /\ Target.kind = "head" /\ Target # NoRef /\ \A a \in Agents : git.head[a] \in Nat
  BY RefFacts DEF IInv, Types, Target, HeadRef, NoRef
<1>2. Follows(project, project) /\ Follows(disk.project, disk.project)
  BY BehindItself DEF IInv, Sited, Behind
<1> QED
  BY <1>1, <1>2, GoodState DEF IInv, Sited, Types, HandlerState, DeliveryRecord

\* Who is not in the transaction does not depend on what moves.
LEMMA OutsiderSeated ==
  ASSUME IInv, NEW a \in Agents, handler'[a] = handler[a], proc' = proc, handler[a].pc \notin InTransaction
  PROVE  Seated(a)'
BY StepFacts DEF Seated, InTransaction, Landing

\* Who is, holds it alone.
LEMMA HolderAlone ==
  ASSUME IInv, NEW a \in Agents, handler[a].pc \in InTransaction
  PROVE  txn = a /\ \A b \in Agents \ {a} : handler[b].pc \notin InTransaction
BY StepFacts DEF Seated

\* Where the project stays at its step the landing of another call goes on.
LEMMA OnlookerSeated ==
  ASSUME IInv, NEW a \in Agents, handler'[a] = handler[a], proc' = proc, txn' = txn, delivery' = delivery,
         Keeps(project', project), approved \subseteq approved',
         repo' \in [head : Nat, blocked : BOOLEAN], repo.head <= repo'.head,
         disk'.project = disk.project \/ disk'.project = project'
  PROVE  Seated(a)'
<1> DEFINE h == handler[a]
           k == Cursor(project)
<1>1. Cursor(project') = k /\ Cursor(disk.project) \in Nat
      /\ Cursor(disk'.project) \in {Cursor(disk.project), k}
  BY StepFacts, GoodState DEF Keeps
<1>2. h \in HandlerState /\ h.ref.of \in Nat /\ Seated(a) /\ repo.head \in Nat /\ repo'.head \in Nat
  BY StepFacts DEF Ref
<1>3. h.pc = "sync" => project'.steps[k - 1].landed = h.ref
  <2>1. h.pc = "sync" => k > 1 /\ project.steps[k - 1].landed = h.ref
    BY <1>2 DEF Seated
  <2>2. k > 1 => k - 1 \in 1 .. k - 1
    BY StepFacts, GoodState
  <2> QED
    BY <2>1, <2>2 DEF Keeps
<1>4. HasStep(project) => HasStep(project')
  BY DEF Keeps
<1>5. h.pc \in InTransaction => project'.phase \notin {"PLAN", "DONE"}
  BY <1>2 DEF Seated, Keeps
<1>6. h.pc \in {"land", "sync", "finish"} => Cursor(disk'.project) = k
  BY <1>1, <1>2 DEF Seated
<1>7. h.pc \in {"record", "tick"} => h.ref.of <= repo'.head
  BY <1>2 DEF Seated
<1>8. handler'[a] = h
  OBVIOUS
<1> HIDE DEF h, k
<1>9. /\ h.pc # "idle" => proc = "live"
      /\ h.pc \in InTransaction => txn = a
      /\ h.pc \in Landing => HasStep(project)
      /\ h.pc \in {"verdict", "claims"} =>
           \A x \in Nat : (\A b \in Agents : h.claims[b] = HeadRef(x)) => <<k, x>> \in approved
      /\ h.pc \in {"land", "record", "tick"} => h.ref.kind = "head" /\ <<k, h.ref.of>> \in approved
      /\ h.pc = "tick" => delivery = Applied(h.ref)
      /\ h.pc = "sync" => k > 1
      /\ h.pc = "passed" => h.ref.kind = "head"
      /\ h.pc = "mark" => HeadOrNone(h.ref)
  BY <1>2 DEF Seated, h, k
<1> QED
  BY <1>1, <1>3, <1>4, <1>5, <1>6, <1>7, <1>8, <1>9 DEF Seated

----------------------------------------------------------------------------
GitType == [head : [Agents -> Nat], dirty : SUBSET Agents, merging : BOOLEAN, since : Int, last : Nat]

\* The project moves within its step, live and then on disk if the write succeeds.
Stays ==
  /\ proc = "live" /\ proc' = "live"
  /\ UNCHANGED <<delivery, repo>>
  /\ Keeps(project', project)
  /\ approved \subseteq approved' /\ Gated(project') \subseteq approved' /\ approved' \subseteq Nat \X Nat
  /\ disk' = disk \/ disk' = [project |-> project', delivery |-> delivery']
  /\ budget' \in Setup

\* A call outside the transaction.
Aside(a) ==
  /\ Stays /\ txn' = txn /\ git' \in GitType
  /\ handler' \in [Agents -> HandlerState]
  /\ \A b \in Agents \ {a} : handler'[b] = handler[b]
  /\ \/ handler'[a] = handler[a]
     \/ /\ handler[a].pc \notin InTransaction /\ handler'[a].pc \notin InTransaction
        /\ handler'[a].pc = "passed" => handler'[a].ref.kind = "head"

\* A mutation within the step keeps what the queue, the record and the file say.
LEMMA StaysFacts ==
  ASSUME IInv, Stays
  PROVE  /\ Sited(project', delivery', approved', repo'.head)
         /\ disk' = [project |-> project', delivery |-> delivery'] \/ disk' = disk
         /\ Behind(disk.project, project')
         /\ repo' \in [head : Nat, blocked : BOOLEAN] /\ repo.head <= repo'.head
         /\ disk'.project = disk.project \/ disk'.project = project'
         /\ disk' \in [project : StepState, delivery : DeliveryRecord]
<1>1. Good(project') /\ project' \in StepState
  BY GoodState DEF Stays, Keeps
<1>2. repo' = repo /\ repo.head \in Nat /\ repo' \in [head : Nat, blocked : BOOLEAN]
  BY StepFacts DEF Stays
<1>3. Sited(project', delivery', approved', repo'.head)
  BY <1>2, StepFacts, SitedKeeps DEF Stays
<1>4. Behind(disk.project, project')
  BY StepFacts, BehindKeeps DEF Stays
<1> QED
  BY <1>1, <1>2, <1>3, <1>4, StepFacts DEF Stays, IInv, Types

\* A call outside the transaction keeps the invariant, whoever else is landing.
LEMMA AsideKeeps ==
  ASSUME IInv, NEW a \in Agents, Aside(a)
  PROVE  IInv' /\ Told
<1>1. Stays /\ txn' = txn /\ proc' = proc /\ delivery' = delivery
  BY DEF Aside, Stays
<1>2. Types'
  <2>1. disk' \in [project : StepState, delivery : DeliveryRecord]
        /\ repo' \in [head : Nat, blocked : BOOLEAN]
    BY <1>1, StaysFacts
  <2> QED
    BY <1>1, <2>1 DEF Aside, Stays, Types, GitType, IInv
<1>3. ASSUME NEW b \in Agents, handler'[b] = handler[b] PROVE Seated(b)'
  BY <1>1, <1>3, StaysFacts, OnlookerSeated DEF Stays
<1>4. Seated(a)'
  <2>1. CASE handler'[a].pc \notin InTransaction /\ (handler'[a].pc = "passed" => handler'[a].ref.kind = "head")
    BY <1>1, <2>1 DEF Seated, Stays, InTransaction, Landing
  <2> QED
    BY <1>3, <2>1 DEF Aside
<1>5. \A b \in Agents : Seated(b)'
  BY <1>3, <1>4 DEF Aside
<1>6. repo.head <= repo'.head /\ approved \subseteq approved' /\ proc' = "live"
  BY <1>1, StaysFacts DEF Stays
<1> QED
  BY <1>1, <1>2, <1>5, <1>6, StaysFacts, LiveStep

\* What is left of the bounds.
LEMMA SpendTypes ==
  ASSUME budget \in Setup
  PROVE  /\ UNCHANGED budget => budget' \in Setup
         /\ \A field \in {"lost", "crashes", "rounds"} : Spend(field) => budget' \in Setup
BY DEF Spend, Setup

\* What every mutation does.
LEMMA MutateStays ==
  ASSUME IInv, NEW p, Keeps(p, project), Mutate(p), proc = "live", proc' = "live",
         UNCHANGED <<delivery, repo>>
  PROVE  Stays /\ project' = p
<1>1. project' = p /\ approved' = approved \cup Gated(p)
  BY DEF Mutate
<1>2. Gated(p) \subseteq Nat \X Nat
  <2> SUFFICES ASSUME NEW x \in Gated(p) PROVE x \in Nat \X Nat
    OBVIOUS
  <2>1. Good(p) /\ Cursor(p) \in Nat /\ p.evidence["Austin"].of \in Nat
    BY GoodState DEF Keeps, Ref
  <2>2. HasStep(p) => Current(p).verdict.on.of \in Nat
    BY <2>1, CurrentIs DEF Step, Verdict, Ref
  <2> QED
    BY <2>1, <2>2, GatedIs
<1>3. approved \subseteq approved' /\ Gated(project') \subseteq approved' /\ approved' \subseteq Nat \X Nat
  BY <1>1, <1>2, StepFacts
<1>4. budget' \in Setup /\ (disk' = disk \/ disk' = [project |-> p, delivery |-> delivery])
  BY StepFacts, SpendTypes DEF Mutate, HookSave
<1> QED
  BY <1>1, <1>3, <1>4 DEF Stays

\* A call that only reads.
LEMMA SameStays ==
  ASSUME IInv, proc = "live", UNCHANGED <<project, approved, disk, delivery, repo, proc, budget>>
  PROVE  Stays
BY StepFacts, KeepsItself DEF Stays, Sited

Pcs == {"idle", "sign", "submit", "passed", "issue", "gate", "merge", "deliver", "verdict",
        "claims", "land", "mark", "record", "tick", "sync", "finish"}

Turned(a) ==
  handler' \in [Agents -> HandlerState] /\ \A b \in Agents \ {a} : handler'[b] = handler[b]

\* Where a call goes next.
LEMMA HandlerMoves ==
  ASSUME handler \in [Agents -> HandlerState], NEW a \in Agents
  PROVE  /\ UNCHANGED handler => Turned(a) /\ handler'[a] = handler[a]
         /\ Return(a) => Turned(a) /\ handler'[a] = Idle
         /\ \A pc \in Pcs : Goto(a, pc) => /\ Turned(a) /\ handler'[a].pc = pc
                                           /\ handler'[a].ref = handler[a].ref
                                           /\ handler'[a].claims = handler[a].claims
         /\ \A pc \in Pcs, r \in Ref : GotoWith(a, pc, r) => /\ Turned(a) /\ handler'[a].pc = pc
                                                            /\ handler'[a].ref = r
<1>1. Idle \in HandlerState
  BY RefFacts DEF Idle, HandlerState, NoClaims
<1>2. UNCHANGED handler => Turned(a)
  BY DEF Turned
<1>3. Return(a) => Turned(a) /\ handler'[a] = Idle
  BY <1>1 DEF Return, Turned
<1>4. ASSUME NEW pc \in Pcs, Goto(a, pc)
      PROVE  /\ Turned(a) /\ handler'[a].pc = pc /\ handler'[a].ref = handler[a].ref
             /\ handler'[a].claims = handler[a].claims
  <2>1. handler' = [handler EXCEPT ![a] = [handler[a] EXCEPT !.pc = pc]]
    BY <1>4 DEF Goto
  <2>2. [handler[a] EXCEPT !.pc = pc] \in HandlerState
    BY DEF HandlerState, Pcs
  <2>3. handler'[a] = [handler[a] EXCEPT !.pc = pc] /\ handler[a] \in HandlerState
    BY <2>1
  <2> QED
    BY <2>1, <2>2, <2>3 DEF Turned, HandlerState
<1>5. ASSUME NEW pc \in Pcs, NEW r \in Ref, GotoWith(a, pc, r)
      PROVE  Turned(a) /\ handler'[a].pc = pc /\ handler'[a].ref = r
  <2>1. handler' = [handler EXCEPT ![a] = [handler[a] EXCEPT !.pc = pc, !.ref = r]]
    BY <1>5 DEF GotoWith
  <2>2. [handler[a] EXCEPT !.pc = pc, !.ref = r] \in HandlerState
    BY DEF HandlerState, Pcs
  <2>3. handler'[a] = [handler[a] EXCEPT !.pc = pc, !.ref = r] /\ handler[a] \in HandlerState
    BY <2>1
  <2> QED
    BY <2>1, <2>2, <2>3 DEF Turned, HandlerState
<1> QED
  BY <1>2, <1>3, <1>4, <1>5

\* The step that landed last is the one it was, and a sync that was due is.
SameLanding == /\ Cursor(project') = Cursor(project)
               /\ Cursor(project) > 1 => LastLanded(project') = LastLanded(project)
Calm == SameLanding /\ proc' = proc /\ (SyncIsDue => SyncIsDue')

LEMMA KeepsLanding ==
  ASSUME Keeps(project', project)
  PROVE  SameLanding
<1>1. Cursor(project) \in Nat
  BY GoodState DEF Keeps
<1> QED
  BY <1>1 DEF Keeps, SameLanding, LastLanded

Quiet == Pcs \ InTransaction

\* A call that mutates the project, or reads it, and moves on outside the transaction.
LEMMA CallKeeps ==
  ASSUME IInv, NEW a \in Agents, Stays, UNCHANGED txn, git' \in GitType,
         \/ UNCHANGED handler
         \/ /\ handler[a].pc \notin InTransaction
            /\ \/ Return(a)
               \/ \E pc \in Quiet \ {"passed"} : Goto(a, pc)
               \/ \E pc \in Quiet \ {"passed"}, r \in Ref : GotoWith(a, pc, r)
               \/ \E r \in Ref : GotoWith(a, "passed", r) /\ r.kind = "head"
  PROVE  IInv' /\ Told /\ Calm
<1>1. handler \in [Agents -> HandlerState]
  BY StepFacts
<1>2. Turned(a)
      /\ \/ handler'[a] = handler[a]
         \/ /\ handler[a].pc \notin InTransaction /\ handler'[a].pc \notin InTransaction
            /\ handler'[a].pc = "passed" => handler'[a].ref.kind = "head"
  <2>1. CASE UNCHANGED handler
    BY <1>1, <2>1, HandlerMoves
  <2>2. CASE handler[a].pc \notin InTransaction /\ Return(a)
    <3>1. Turned(a) /\ handler'[a] = Idle
      BY <1>1, <2>2, HandlerMoves
    <3> QED
      BY <2>2, <3>1 DEF Idle, InTransaction
  <2>3. ASSUME NEW pc \in Quiet \ {"passed"}, Goto(a, pc) PROVE Turned(a) /\ handler'[a].pc = pc
    BY <1>1, <2>3, HandlerMoves DEF Quiet
  <2>4. ASSUME NEW pc \in Quiet \ {"passed"}, NEW r \in Ref, GotoWith(a, pc, r)
        PROVE  Turned(a) /\ handler'[a].pc = pc
    BY <1>1, <2>4, HandlerMoves DEF Quiet
  <2>5. ASSUME NEW r \in Ref, GotoWith(a, "passed", r)
        PROVE  Turned(a) /\ handler'[a].pc = "passed" /\ handler'[a].ref = r
    BY <1>1, <2>5, HandlerMoves DEF Pcs
  <2>6. "passed" \notin InTransaction /\ \A pc \in Quiet \ {"passed"} : pc \notin InTransaction /\ pc # "passed"
    BY DEF Quiet, InTransaction
  <2> QED
    BY <2>1, <2>2, <2>3, <2>4, <2>5, <2>6
<1>3. Aside(a)
  BY <1>2 DEF Aside, Turned
<1>4. SyncIsDue => SyncIsDue'
  BY <1>2 DEF SyncIsDue, Turned, InTransaction
<1>5. SameLanding
  BY KeepsLanding DEF Stays
<1> QED
  BY <1>3, <1>4, <1>5, AsideKeeps DEF Calm, Stays

\* In every action of the agents the worktrees have the type they had.
LEMMA GitFacts == ASSUME IInv PROVE git \in GitType
BY DEF IInv, Types, GitType

\* duo_set_plan.
LEMMA SubmitPlanKeeps == ASSUME IInv, NEW a \in Agents, SubmitPlan(a) PROVE IInv' /\ Told /\ Calm
<1>1. Keeps(StepPlan(project), project)
  BY StepFacts, StepPlanKeeps DEF SubmitPlan
<1>2. Stays
  BY <1>1, MutateStays DEF SubmitPlan, At
<1> QED
  BY <1>2, CallKeeps, GitFacts DEF SubmitPlan

\* duo_set_steps: in PLAN the queue is replaced, later it grows.
LEMMA SubmitQueueKeeps == ASSUME IInv, NEW a \in Agents, SubmitQueue(a) PROVE IInv' /\ Told /\ Calm
<1>0. PICK n \in 1 .. budget.queue : \E policies \in [1 .. n -> budget.policies] :
        CanSetSteps(project, TRUE) /\ Mutate(SetSteps(project, policies))
  BY DEF SubmitQueue
<1>1. PICK policies \in [1 .. n -> budget.policies] :
        CanSetSteps(project, TRUE) /\ Mutate(SetSteps(project, policies))
  BY <1>0
<1>2. n \in Nat \ {0} /\ policies \in [1 .. n -> Policies]
  BY StepFacts DEF Setup
<1>3. Keeps(SetSteps(project, policies), project)
  BY <1>1, <1>2, StepFacts, SetStepsKeeps
<1>4. Stays
  BY <1>1, <1>3, MutateStays DEF SubmitQueue, At
<1> QED
  BY <1>4, CallKeeps, GitFacts DEF SubmitQueue

\* What a signature is to name is a plan version or a commit.
LEMMA EvidenceIsRef ==
  ASSUME IInv, NEW a \in Agents, NEW p, p.version \in Nat
  PROVE  Evidence(p, a) \in Ref
<1>1. Reviewed(p.phase, a) \in Agents
  BY DEF Reviewed, Peer
<1> QED
  BY <1>1, StepFacts, RefFacts DEF Evidence

\* A signature, until its evidence is taken: stale signatures go.
LEMMA BeginSignKeeps == ASSUME IInv, NEW a \in Agents, BeginSign(a) PROVE IInv' /\ Told /\ Calm
<1> DEFINE p == IF project.phase = "PLAN" THEN project ELSE WithoutStale(project)
<1>1. Keeps(p, project)
  BY StepFacts, WithoutStaleKeeps, KeepsItself
<1>2. /\ IF p = project THEN UNCHANGED <<project, approved, disk, budget>> ELSE Mutate(p)
      /\ IF HasEvidence(p.phase, a) THEN GotoWith(a, "sign", Evidence(p, a)) ELSE UNCHANGED handler
      /\ proc = "live" /\ handler[a].pc = "idle" /\ UNCHANGED <<delivery, git, repo, txn, proc>>
  BY DEF BeginSign, At
<1> HIDE DEF p
<1>3. Stays
  BY <1>1, <1>2, MutateStays, SameStays
<1>4. Evidence(p, a) \in Ref
  BY <1>1, GoodState, EvidenceIsRef DEF Keeps
<1>5. handler[a].pc \notin InTransaction /\ "sign" \in Quiet \ {"passed"}
  BY <1>2 DEF InTransaction, Quiet, Pcs
<1> QED
  BY <1>2, <1>3, <1>4, <1>5, CallKeeps, GitFacts

\* A signature or a submission is recorded, for the phase the queue is now in.
LEMMA RecordReadyKeeps ==
  ASSUME IInv, NEW a \in Agents, NEW pc \in {"sign", "submit"}, RecordReady(a, pc) PROVE IInv' /\ Told /\ Calm
<1> DEFINE p == SetStepReady(project, a, TRUE, handler[a].ref)
<1>1. CanSetStepReady(project, a, TRUE) => Keeps(p, project)
  BY StepFacts, SetStepReadyKeeps
<1>2. /\ proc = "live" /\ handler[a].pc = pc /\ UNCHANGED <<delivery, git, repo, txn, proc>>
      /\ IF CanSetStepReady(project, a, TRUE) THEN Mutate(p)
         ELSE UNCHANGED <<project, approved, disk, budget>>
      /\ Return(a) \/ Goto(a, "gate") \/ Goto(a, "merge")
  BY DEF RecordReady, At
<1> HIDE DEF p
<1>3. Stays
  BY <1>1, <1>2, MutateStays, SameStays
<1>4. handler[a].pc \notin InTransaction /\ {"gate", "merge"} \subseteq Quiet \ {"passed"}
  BY <1>2 DEF InTransaction, Quiet, Pcs
<1> QED
  BY <1>2, <1>3, <1>4, CallKeeps, GitFacts

\* An agent takes a signature back.
LEMMA RetractSignatureKeeps == ASSUME IInv, NEW a \in Agents, RetractSignature(a) PROVE IInv' /\ Told /\ Calm
<1>1. CanSetStepReady(project, a, FALSE) /\ NoRef \in Ref
  BY RefFacts DEF RetractSignature, CanSetStepReady
<1>2. Keeps(SetStepReady(project, a, FALSE, NoRef), project)
  BY <1>1, StepFacts, SetStepReadyKeeps
<1>3. Stays
  BY <1>2, MutateStays DEF RetractSignature, At
<1> QED
  BY <1>3, CallKeeps, GitFacts DEF RetractSignature

\* One signature goes.
LEMMA RevokeSignatureKeeps ==
  ASSUME NEW p, Good(p), NEW a \in Agents
  PROVE  Keeps(RevokeSignature(p, a), p)
<1> DEFINE ready == [p.ready EXCEPT ![a] = FALSE]
           evidence == [p.evidence EXCEPT ![a] = NoRef]
<1>1. ready \in [Agents -> BOOLEAN] /\ evidence \in [Agents -> Ref] /\ p \in StepState
  BY GoodState, RefFacts
<1>2. RevokeSignature(p, a) = [p EXCEPT !.ready = ready, !.evidence = evidence]
  BY DEF RevokeSignature
<1> HIDE DEF ready, evidence
<1> QED
  BY <1>1, <1>2, SignedIs, SignaturesKeep

\* runTestGateIfSet passes on to the delivery or takes the signature back.
LEMMA SignatureGateKeeps == ASSUME IInv, NEW a \in Agents, SignatureGate(a) PROVE IInv' /\ Told /\ Calm
<1>1. handler[a].pc = "gate" /\ handler[a].pc \notin InTransaction /\ "deliver" \in Quiet \ {"passed"}
  BY DEF SignatureGate, At, InTransaction, Quiet, Pcs
<1>2. Keeps(RevokeSignature(project, a), project)
  BY StepFacts, RevokeSignatureKeeps
<1>3. Stays
  BY <1>2, MutateStays, SameStays DEF SignatureGate, At
<1>4. Goto(a, "deliver") \/ Return(a)
  BY DEF SignatureGate
<1> QED
  BY <1>1, <1>3, <1>4, CallKeeps, GitFacts DEF SignatureGate

\* beginIntegration merges Tony's branch, or leaves a conflict.
LEMMA MergeTonyKeeps == ASSUME IInv, NEW a \in Agents, MergeTony(a) PROVE IInv' /\ Told /\ Calm
<1>1. handler[a].pc \notin InTransaction
  BY DEF MergeTony, At, InTransaction
<1>2. Stays
  BY SameStays DEF MergeTony, At
<1>3. git' \in GitType
  <2>1. git \in GitType /\ git.last + 1 \in Nat /\ git.last + 1 \in Int
    BY GitFacts DEF GitType
  <2>2. [git.head EXCEPT !["Austin"] = git.last + 1] \in [Agents -> Nat]
    BY <2>1 DEF GitType
  <2>3. CASE git' = [git EXCEPT !.head["Austin"] = git.last + 1,
                                !.last = git.last + 1, !.since = git.last + 1]
    BY <2>1, <2>2, <2>3 DEF GitType
  <2>4. CASE git' = [git EXCEPT !.merging = TRUE, !.dirty = {"Austin"}]
    BY <2>1, <2>4 DEF GitType
  <2> QED
    BY <2>1, <2>3, <2>4 DEF MergeTony
<1> QED
  BY <1>1, <1>2, <1>3, CallKeeps DEF MergeTony

\* Austin submits his head.
LEMMA BeginSubmitKeeps == ASSUME IInv, BeginSubmit PROVE IInv' /\ Told /\ Calm
<1>1. handler["Austin"].pc \notin InTransaction /\ "submit" \in Quiet \ {"passed"}
  BY DEF BeginSubmit, At, InTransaction, Quiet, Pcs
<1>2. Stays
  BY SameStays DEF BeginSubmit, At
<1> QED
  BY <1>1, <1>2, CallKeeps, GitFacts, StepFacts DEF BeginSubmit

\* Austin withdraws it.
LEMMA WithdrawSubmissionKeeps == ASSUME IInv, WithdrawSubmission PROVE IInv' /\ Told /\ Calm
<1>1. CanSetStepReady(project, "Austin", FALSE) /\ NoRef \in Ref
  BY RefFacts DEF WithdrawSubmission, CanSetStepReady
<1>2. Keeps(SetStepReady(project, "Austin", FALSE, NoRef), project)
  BY <1>1, StepFacts, SetStepReadyKeeps
<1>3. Stays
  BY <1>2, MutateStays DEF WithdrawSubmission, At
<1> QED
  BY <1>3, CallKeeps, GitFacts DEF WithdrawSubmission

\* Tony reports; a head that has moved takes the submission back.
LEMMA BeginVerifyKeeps == ASSUME IInv, BeginVerify PROVE IInv' /\ Told /\ Calm
<1>1. handler["Tony"].pc \notin InTransaction /\ "issue" \in Quiet \ {"passed"}
  BY DEF BeginVerify, At, InTransaction, Quiet, Pcs
<1>2. Keeps(RevokeStep(project), project)
  BY StepFacts, RevokeStepKeeps DEF BeginVerify, Fast, CanRevokeStep
<1>3. Stays
  BY <1>2, MutateStays, SameStays DEF BeginVerify, At
<1>4. UNCHANGED handler \/ GotoWith("Tony", "passed", Target) \/ GotoWith("Tony", "issue", Target)
  BY DEF BeginVerify
<1> QED
  BY <1>1, <1>3, <1>4, CallKeeps, GitFacts, StepFacts DEF BeginVerify

\* Tony's verdict is recorded about the head he reported on.
LEMMA RecordVerdictKeeps ==
  ASSUME IInv, NEW result \in {"passed", "issue"}, RecordVerdict(result) PROVE IInv' /\ Told /\ Calm
<1>1. handler["Tony"].pc = result /\ handler["Tony"].pc \notin InTransaction /\ "deliver" \in Quiet \ {"passed"}
  BY DEF RecordVerdict, At, InTransaction, Quiet, Pcs
<1>2. result = "passed" => handler["Tony"].ref.kind = "head"
  BY <1>1, StepFacts DEF Seated
<1>3. CanVerify(project, result, handler["Tony"].ref) => Keeps(Verify(project, result), project)
  BY <1>2, StepFacts, VerifyKeeps
<1>4. Stays
  BY <1>3, MutateStays, SameStays DEF RecordVerdict, At
<1>5. Goto("Tony", "deliver") \/ Return("Tony")
  BY DEF RecordVerdict
<1> QED
  BY <1>1, <1>4, <1>5, CallKeeps, GitFacts DEF RecordVerdict

----------------------------------------------------------------------------
\* A step of the call that holds the transaction, or enters it.
LEMMA HolderStep ==
  ASSUME IInv, NEW a \in Agents, proc = "live", proc' = proc,
         handler[a].pc \in InTransaction \/ txn = "free",
         Turned(a), txn' \in Agents \cup {"free"}, git' \in GitType,
         repo' \in [head : Nat, blocked : BOOLEAN], repo.head <= repo'.head,
         approved \subseteq approved', approved' \subseteq Nat \X Nat, budget' \in Setup,
         Sited(project', delivery', approved', repo'.head),
         disk' = [project |-> project', delivery |-> delivery'] \/ disk' = disk,
         Behind(disk.project, project'),
         Seated(a)'
  PROVE  IInv' /\ Told
<1>1. \A b \in Agents \ {a} : handler[b].pc \notin InTransaction
  <2>1. CASE handler[a].pc \in InTransaction
    BY <2>1, HolderAlone
  <2>2. CASE txn = "free"
    BY <2>2, StepFacts DEF Seated
  <2> QED
    BY <2>1, <2>2
<1>2. ASSUME NEW b \in Agents \ {a} PROVE Seated(b)'
  BY <1>1, OutsiderSeated DEF Turned
<1>3. disk' \in [project : StepState, delivery : DeliveryRecord]
  BY GoodState DEF Sited, IInv, Types
<1>4. Types'
  BY <1>3 DEF Types, IInv, Turned, GitType
<1> QED
  BY <1>2, <1>4, LiveStep

\* A delivery that is not recorded as applied says nothing about the queue.
LEMMA PendingSited ==
  ASSUME NEW p, NEW d, NEW known, NEW branch, Sited(p, d, known, branch), ~Finished(p),
         NEW r \in Ref, HeadOrNone(r)
  PROVE  Sited(p, Pending(r), known, branch)
<1>1. Pending(r) \in DeliveryRecord /\ ~IsApplied(Pending(r)) /\ Pending(r).head = r
  BY DEF Pending, DeliveryRecord, IsApplied
<1> QED
  BY <1>1 DEF Sited, Accounted

\* A landing that is recorded before the cursor moves is of the step under it.
LEMMA AppliedSited ==
  ASSUME NEW p, NEW d, NEW known, NEW branch, Sited(p, d, known, branch), HasStep(p),
         p.phase # "PLAN", NEW h \in Ref, h.kind = "head", <<Cursor(p), h.of>> \in known, h.of <= branch
  PROVE  Sited(p, Applied(h), known, branch)
<1>1. Applied(h) \in DeliveryRecord /\ IsApplied(Applied(h)) /\ Applied(h).head = h
  BY DEF Applied, DeliveryRecord, IsApplied
<1>2. Cursor(p) <= Len(p.steps)
  BY QueueFacts DEF Sited, Good
<1> QED
  BY <1>1, <1>2 DEF Sited, Accounted, HeadOrNone

\* A finished queue is complete.
LEMMA CompleteSited ==
  ASSUME NEW p, NEW d, NEW known, NEW branch, Sited(p, d, known, branch),
         Finished(p)
  PROVE  /\ Sited(CompleteQueue(p), d, known, branch)
         /\ CompleteQueue(p).steps = p.steps /\ CompleteQueue(p).phase = "DONE"
         /\ Cursor(CompleteQueue(p)) = Cursor(p)
<1> DEFINE q == CompleteQueue(p)
<1>1. q \in StepState /\ q.steps = p.steps /\ q.phase = "DONE"
  BY GoodState, PhaseFacts DEF Sited, CompleteQueue, StepState
<1> HIDE DEF q
<1>2. Cursor(q) = Cursor(p) /\ Finished(q) = Finished(p) /\ Finished(p) /\ HasStep(q) = HasStep(p)
  BY <1>1 DEF Cursor, Open, Finished, HasStep
<1>3. Cursor(p) > Len(p.steps) /\ p.steps # <<>> /\ Len(p.steps) \in Nat
  BY <1>2, QueueFacts DEF Sited, Good
<1> HIDE DEF Cursor, Open, Finished, HasStep
<1>4. Good(q)
  BY <1>1, <1>2, <1>3, GoodState DEF Sited, Good, InOrder, Phased
<1>5. Gated(q) = {}
  BY <1>1, NotGated
<1> QED
  BY <1>1, <1>2, <1>3, <1>4, <1>5 DEF Sited, Accounted, q

\* What is signed, or judged, in INTEGRATE is what has passed the gate.
LEMMA ClaimsApproved ==
  ASSUME NEW p, Good(p), p.phase = "INTEGRATE", HasStep(p), ByVerdict(p) \/ BothReady(p),
         NEW x \in Nat, \A b \in Agents : Claims(p)[b] = HeadRef(x)
  PROVE  <<Cursor(p), x>> \in Gated(p)
<1>1. HeadRef(x).of = x /\ HeadRef(x) # NoRef
  BY DEF HeadRef, NoRef
<1>2. CASE ByVerdict(p)
  <2>1. Current(p).head = HeadRef(x) /\ ~BySignatures(p)
    BY <1>2 DEF ByVerdict, Claims, BySignatures
  <2>2. Proven(Current(p)) /\ Current(p).verdict.on = HeadRef(x)
    BY <1>1, <1>2, <2>1, CurrentIs DEF ByVerdict
  <2> QED
    BY <1>1, <2>1, <2>2, GatedIs
<1>3. CASE ~ByVerdict(p)
  <2>1. BothReady(p) /\ \A b \in Agents : p.evidence[b] = HeadRef(x)
    BY <1>3 DEF Claims
  <2>2. BySignatures(p)
    BY <1>3, CurrentIs DEF ByVerdict, BySignatures, Step, Policies
  <2> QED
    BY <1>1, <2>1, <2>2, GatedIs
<1> QED
  BY <1>2, <1>3

\* After PLAN a queue has a step to work or has landed them all.
LEMMA FinishedSteps ==
  ASSUME NEW p, Good(p), p.phase # "PLAN"
  PROVE  HasStep(p) <=> ~Finished(p)
BY GoodState, QueueFacts DEF Good, Phased

\* What the delivery is to check is a reference per agent.
LEMMA ClaimsTyped ==
  ASSUME NEW p, Good(p), ByVerdict(p) => HasStep(p)
  PROVE  Claims(p) \in [Agents -> Ref]
<1>1. ByVerdict(p) => Current(p).head \in Ref
  BY CurrentIs DEF Step
<1>2. p.evidence \in [Agents -> Ref]
  BY GoodState
<1> QED
  BY <1>1, <1>2 DEF Claims

\* deliverFinal takes the lock: what both claims name has passed the gate.
LEMMA EnterDeliveryKeeps == ASSUME IInv, NEW a \in Agents, EnterDelivery(a) PROVE IInv' /\ Told
<1>1. proc = "live" /\ handler[a].pc = "deliver" /\ txn = "free"
      /\ UNCHANGED <<project, delivery, disk, git, repo, proc, approved, budget>>
  BY DEF EnterDelivery, At
<1>2. CASE Return(a) /\ UNCHANGED txn
  <2>1. Stays
    BY <1>1, SameStays
  <2> QED
    BY <1>1, <1>2, <2>1, CallKeeps, GitFacts DEF InTransaction
<1>3. CASE ~(Return(a) /\ UNCHANGED txn)
  <2> DEFINE h == [Idle EXCEPT !.pc = IF ByVerdict(project) THEN "verdict" ELSE "claims",
                               !.claims = Claims(project)]
  <2>1. /\ project.phase = "INTEGRATE" /\ ~(IsApplied(delivery) /\ Finished(project))
        /\ ByVerdict(project) \/ BothReady(project)
        /\ txn' = a /\ handler' = [handler EXCEPT ![a] = h]
    BY <1>3 DEF EnterDelivery
  <2>2. HasStep(project)
    BY <2>1, StepFacts, FinishedSteps DEF Sited
  <2>3. h \in HandlerState /\ h.pc \in {"verdict", "claims"} /\ h.claims = Claims(project)
    BY <2>2, StepFacts, ClaimsTyped, RefFacts DEF Idle, HandlerState, NoClaims
  <2> HIDE DEF h
  <2>4. Turned(a) /\ handler'[a] = h
    BY <2>1, <2>3, StepFacts DEF Turned
  <2>5. \A x \in Nat : (\A b \in Agents : h.claims[b] = HeadRef(x)) => <<Cursor(project), x>> \in approved
    BY <2>1, <2>2, <2>3, StepFacts, ClaimsApproved DEF Sited
  <2>6. Seated(a)'
    BY <1>1, <2>1, <2>2, <2>3, <2>4, <2>5 DEF Seated, InTransaction, Landing
  <2> QED
    BY <1>1, <2>1, <2>4, <2>6, StepFacts, GitFacts, HolderStep
<1> QED
  BY <1>2, <1>3

\* The record of the delivery after a pending one is set.
LEMMA WithPending ==
  ASSUME IInv, HasStep(project), project.phase # "PLAN", NEW r \in Ref, HeadOrNone(r),
         delivery' = WithDelivery(Pending(r))
  PROVE  Sited(project, delivery', approved, repo.head)
<1>1. ~Finished(project)
  BY StepFacts, FinishedSteps
<1>2. delivery' = delivery \/ delivery' = Pending(r)
  BY DEF WithDelivery
<1> QED
  BY <1>1, <1>2, StepFacts, PendingSited

\* Approvals of another head than the one found are revoked within the step.
LEMMA RevokedKeeps ==
  ASSUME IInv, NEW a \in Agents, NEW pc \in {"verdict", "claims"}
  PROVE  Keeps(Revoked(a, pc), project)
<1>1. CASE pc = "verdict"
  BY <1>1, StepFacts, RevokeStepKeeps, KeepsItself DEF Revoked
<1>2. CASE pc = "claims"
  <2> DEFINE ready == [b \in Agents |-> project.ready[b] /\ handler[a].claims[b] = Target]
             evidence == [b \in Agents |-> IF handler[a].claims[b] = Target
                                           THEN project.evidence[b] ELSE NoRef]
  <2>1. ready \in [Agents -> BOOLEAN] /\ evidence \in [Agents -> Ref]
    BY StepFacts, GoodState, RefFacts
  <2>2. Revoked(a, pc) = [project EXCEPT !.ready = ready, !.evidence = evidence]
    BY <1>2 DEF Revoked
  <2> HIDE DEF ready, evidence
  <2>3. project \in StepState /\ Good(project)
    BY StepFacts
  <2>4. SameButSigned([project EXCEPT !.ready = ready, !.evidence = evidence], project)
    BY <2>1, <2>3, SignedIs
  <2> QED
    BY <2>2, <2>3, <2>4, SignaturesKeep
<1> QED
  BY <1>1, <1>2

\* Under the lock: approvals are revoked, or the checkpoint of the head is written.
LEMMA CheckHeadKeeps ==
  ASSUME IInv, NEW a \in Agents, NEW pc \in {"verdict", "claims"}, CheckHead(a, pc) PROVE IInv' /\ Told
<1>1. proc = "live" /\ handler[a].pc = pc /\ pc \in InTransaction /\ UNCHANGED <<git, repo, proc>>
  BY DEF CheckHead, At, InTransaction
<1>2. /\ txn = a /\ project.phase \notin {"PLAN", "DONE"} /\ HasStep(project)
      /\ \A x \in Nat : (\A b \in Agents : handler[a].claims[b] = HeadRef(x))
                          => <<Cursor(project), x>> \in approved
  BY <1>1, StepFacts DEF Seated, Landing
<1>3. CASE ~Agreed(a)
  <2>1. Mutate(Revoked(a, pc)) /\ GotoWith(a, "mark", NoRef) /\ UNCHANGED <<delivery, txn>>
    BY <1>3 DEF CheckHead
  <2>2. Stays /\ project' = Revoked(a, pc) /\ Keeps(project', project)
    BY <1>1, <2>1, RevokedKeeps, MutateStays
  <2>3. Turned(a) /\ handler'[a].pc = "mark" /\ handler'[a].ref = NoRef
    BY <2>1, StepFacts, HandlerMoves, RefFacts DEF Pcs
  <2>4. project'.phase \notin {"PLAN", "DONE"} /\ HasStep(project')
    BY <1>2, <2>2 DEF Keeps
  <2>5. Seated(a)'
    BY <1>1, <1>2, <2>1, <2>3, <2>4 DEF Seated, InTransaction, Landing, HeadOrNone
  <2> QED
    <3>1. /\ approved \subseteq approved' /\ approved' \subseteq Nat \X Nat /\ budget' \in Setup
          /\ git' \in GitType /\ txn' \in Agents \cup {"free"}
      BY <1>1, <1>2, <2>1, <2>2, GitFacts DEF Stays
    <3> QED
      BY <1>1, <2>2, <2>3, <2>5, <3>1, StaysFacts, HolderStep
<1>4. CASE Agreed(a)
  <2>1. /\ delivery' = WithDelivery(Pending(Target)) /\ UNCHANGED <<project, approved>>
        /\ \/ Saved(project, delivery') /\ GotoWith(a, "land", Target) /\ UNCHANGED txn
           \/ SaveFails /\ Leave(a)
    BY <1>4 DEF CheckHead
  <2>2. Sited(project', delivery', approved', repo'.head)
    BY <1>1, <1>2, <2>1, StepFacts, WithPending DEF HeadOrNone
  <2>3. <<Cursor(project), Target.of>> \in approved
    <3>1. Target = HeadRef(git.head["Austin"]) /\ Target.of = git.head["Austin"]
      BY DEF Target, HeadRef
    <3> QED
      BY <1>2, <1>4, <3>1, StepFacts DEF Agreed
  <2>4. CASE Saved(project, delivery') /\ GotoWith(a, "land", Target) /\ UNCHANGED txn
    <3>1. Turned(a) /\ handler'[a].pc = "land" /\ handler'[a].ref = Target
      BY <2>4, StepFacts, HandlerMoves DEF Pcs
    <3>2. disk' = [project |-> project', delivery |-> delivery'] /\ budget' \in Setup
      BY <2>1, <2>4, StepFacts DEF Saved
    <3>3. Seated(a)'
      <4>1. disk'.project = project
        BY <2>1, <3>2
      <4>2. Target.kind = "head"
        BY StepFacts
      <4> QED
        BY <1>1, <1>2, <2>1, <2>3, <2>4, <3>1, <4>1, <4>2 DEF Seated, InTransaction, Landing
    <3> QED
      BY <1>1, <1>2, <2>1, <2>2, <2>4, <3>1, <3>2, <3>3, StepFacts, GitFacts, HolderStep
  <2>5. CASE SaveFails /\ Leave(a)
    <3>1. Turned(a) /\ handler'[a] = Idle /\ txn' = "free"
      BY <2>5, StepFacts, HandlerMoves DEF Leave
    <3>2. disk' = disk /\ Behind(disk.project, project') /\ budget' \in Setup
      BY <2>1, <2>5, StepFacts, SpendTypes DEF SaveFails
    <3>3. Seated(a)'
      BY <3>1 DEF Seated, Idle, InTransaction, Landing
    <3> QED
      BY <1>1, <2>1, <2>2, <3>1, <3>2, <3>3, StepFacts, GitFacts, HolderStep
  <2> QED
    BY <2>1, <2>4, <2>5
<1> QED
  BY <1>3, <1>4

\* The fast-forward; the approved commit is contained in the branch, or refused.
LEMMA LandKeeps == ASSUME IInv, NEW a \in Agents, Land(a) PROVE IInv' /\ Told
<1> DEFINE r == handler[a].ref
<1>1. proc = "live" /\ handler[a].pc = "land" /\ handler[a].pc \in InTransaction
      /\ UNCHANGED <<project, delivery, disk, git, txn, proc, approved, budget>>
  BY DEF Land, At, InTransaction
<1>2. /\ txn = a /\ project.phase \notin {"PLAN", "DONE"} /\ HasStep(project)
      /\ r.kind = "head" /\ <<Cursor(project), r.of>> \in approved
  BY <1>1, StepFacts DEF Seated, InTransaction, Landing
<1>3. r \in Ref /\ r.of \in Nat /\ repo \in [head : Nat, blocked : BOOLEAN]
  BY StepFacts DEF Ref
<1>4. \/ r.of <= repo'.head /\ Goto(a, "record") /\ repo.head <= repo'.head
         /\ repo' \in [head : Nat, blocked : BOOLEAN]
      \/ Goto(a, "mark") /\ repo' = repo
  <2>1. CASE Holds(r.of) /\ Goto(a, "record") /\ UNCHANGED repo
    BY <1>3, <2>1 DEF Holds
  <2>2. CASE FastForward(r.of) /\ Goto(a, "record")
    BY <1>3, <2>2 DEF FastForward, Holds
  <2>3. CASE Refused(r.of) /\ Goto(a, "mark")
    BY <2>3 DEF Refused
  <2> QED
    BY <2>1, <2>2, <2>3 DEF Land
<1>5. repo' \in [head : Nat, blocked : BOOLEAN] /\ repo.head <= repo'.head /\ repo'.head \in Nat
  BY <1>3, <1>4
<1>6. Turned(a) /\ handler'[a].pc \in {"record", "mark"} /\ handler'[a].ref = r
      /\ (handler'[a].pc = "record" => r.of <= repo'.head)
  BY <1>4, StepFacts, HandlerMoves DEF Pcs
<1> HIDE DEF r
<1>7. Seated(a)'
  BY <1>1, <1>2, <1>6 DEF Seated, InTransaction, Landing, HeadOrNone
<1>8. Sited(project', delivery', approved', repo'.head)
  BY <1>1, <1>5, StepFacts, SitedGrows
<1> QED
  BY <1>1, <1>2, <1>5, <1>6, <1>7, <1>8, StepFacts, GitFacts, HolderStep

\* A call that lets go of the transaction.
LEMMA LeaveKeeps ==
  ASSUME IInv, NEW a \in Agents, proc = "live", proc' = proc, handler[a].pc \in InTransaction,
         Leave(a), git' \in GitType, repo' = repo, approved' = approved, budget' \in Setup,
         Sited(project', delivery', approved', repo'.head),
         disk' = [project |-> project', delivery |-> delivery'] \/ disk' = disk,
         Behind(disk.project, project')
  PROVE  IInv' /\ Told
<1>1. Turned(a) /\ handler'[a] = Idle /\ txn' = "free"
  BY StepFacts, HandlerMoves DEF Leave
<1>2. Seated(a)'
  BY <1>1 DEF Seated, Idle, InTransaction, Landing
<1> QED
  BY <1>1, <1>2, StepFacts, HolderStep

\* markDeliveryPending.
LEMMA MarkPendingKeeps == ASSUME IInv, NEW a \in Agents, MarkPending(a) PROVE IInv' /\ Told
<1>1. /\ proc = "live" /\ handler[a].pc = "mark" /\ handler[a].pc \in InTransaction
      /\ Leave(a) /\ delivery' = WithDelivery(Pending(handler[a].ref))
      /\ UNCHANGED <<project, git, repo, proc, approved>>
  BY DEF MarkPending, At, InTransaction
<1>2. HasStep(project) /\ project.phase \notin {"PLAN", "DONE"} /\ HeadOrNone(handler[a].ref)
  BY <1>1, StepFacts DEF Seated, Landing, InTransaction
<1>3. Sited(project', delivery', approved', repo'.head)
  BY <1>1, <1>2, StepFacts, WithPending
<1>4. \/ UNCHANGED <<disk, budget>>
      \/ disk' = [project |-> project', delivery |-> delivery'] /\ UNCHANGED budget
      \/ Spend("lost") /\ UNCHANGED disk
  BY <1>1 DEF MarkPending, HookSave
<1>5. budget' \in Setup
  BY <1>4, StepFacts, SpendTypes
<1>6. /\ disk' = [project |-> project', delivery |-> delivery'] \/ disk' = disk
      /\ Behind(disk.project, project')
  BY <1>1, <1>4, StepFacts
<1> QED
  BY <1>1, <1>3, <1>5, <1>6, GitFacts, LeaveKeeps

\* The applied record is written before the cursor moves.
LEMMA RecordAppliedKeeps == ASSUME IInv, NEW a \in Agents, RecordApplied(a) PROVE IInv' /\ Told
<1> DEFINE r == handler[a].ref
<1>1. /\ proc = "live" /\ handler[a].pc = "record" /\ handler[a].pc \in InTransaction
      /\ delivery' = Applied(r)
      /\ UNCHANGED <<project, git, repo, proc, approved>>
      /\ \/ Saved(project, delivery') /\ Goto(a, "tick") /\ UNCHANGED txn
         \/ SaveFails /\ Leave(a)
  BY DEF RecordApplied, At, InTransaction
<1>2. /\ txn = a /\ project.phase \notin {"PLAN", "DONE"} /\ HasStep(project)
      /\ r.kind = "head" /\ <<Cursor(project), r.of>> \in approved /\ r.of <= repo.head /\ r \in Ref
  BY <1>1, StepFacts DEF Seated, InTransaction, Landing
<1>3. Sited(project', delivery', approved', repo'.head)
  BY <1>1, <1>2, StepFacts, AppliedSited
<1>4. CASE Saved(project, delivery') /\ Goto(a, "tick") /\ UNCHANGED txn
  <2>1. Turned(a) /\ handler'[a].pc = "tick" /\ handler'[a].ref = r
    BY <1>4, StepFacts, HandlerMoves DEF Pcs
  <2> HIDE DEF r
  <2>2. Seated(a)'
    BY <1>1, <1>2, <1>4, <2>1 DEF Seated, InTransaction, Landing
  <2>3. disk' = [project |-> project', delivery |-> delivery'] /\ budget' \in Setup
    BY <1>1, <1>4, StepFacts DEF Saved
  <2> QED
    BY <1>1, <1>2, <1>3, <1>4, <2>1, <2>2, <2>3, StepFacts, GitFacts, HolderStep
<1>5. CASE SaveFails /\ Leave(a)
  <2>1. disk' = disk /\ Behind(disk.project, project') /\ budget' \in Setup
    BY <1>1, <1>5, StepFacts, SpendTypes DEF SaveFails
  <2> QED
    BY <1>1, <1>3, <1>5, <2>1, GitFacts, LeaveKeeps
<1> QED
  BY <1>1, <1>4, <1>5

\* landStepIfNeeded: the cursor moves past the step the record is of.
LEMMA TickStepKeeps == ASSUME IInv, NEW a \in Agents, TickStep(a) PROVE IInv' /\ Told
<1> DEFINE h == handler[a].ref
           q == LandStep(project, h)
<1>1. /\ proc = "live" /\ handler[a].pc = "tick" /\ handler[a].pc \in InTransaction
      /\ UNCHANGED <<delivery, git, repo, proc, approved>>
      /\ IF CanLandStep(project, h)
         THEN /\ project' = q
              /\ \/ Saved(project', delivery) /\ Goto(a, "sync") /\ UNCHANGED txn
                 \/ SaveFails /\ Leave(a)
         ELSE Leave(a) /\ UNCHANGED <<project, disk, budget>>
  BY DEF TickStep, At, InTransaction
<1>2. /\ txn = a /\ project.phase \notin {"PLAN", "DONE"} /\ h \in Ref /\ h.kind = "head"
      /\ <<Cursor(project), h.of>> \in approved /\ h.of <= repo.head /\ delivery = Applied(h)
  BY <1>1, StepFacts DEF Seated, InTransaction, Landing
<1> HIDE DEF h, q
<1>3. CASE CanLandStep(project, h)
  <2>1. Lands(q, project, h)
    BY <1>2, <1>3, StepFacts, LandStepLands DEF q
  <2>2. IsApplied(delivery) /\ delivery.head = h
    BY <1>2 DEF Applied, IsApplied
  <2>3. Sited(project', delivery', approved', repo'.head)
    BY <1>1, <1>2, <1>3, <2>1, <2>2, StepFacts, SitedLands
  <2>4. Behind(disk.project, project')
    BY <1>1, <1>2, <1>3, <2>1, StepFacts, BehindLands
  <2>5. CASE Saved(project', delivery) /\ Goto(a, "sync") /\ UNCHANGED txn
    <3>1. Turned(a) /\ handler'[a].pc = "sync" /\ handler'[a].ref = h
      BY <2>5, StepFacts, HandlerMoves DEF Pcs, h
    <3>2. disk' = [project |-> project', delivery |-> delivery'] /\ budget' \in Setup
      BY <1>1, <2>5, StepFacts DEF Saved
    <3>3. /\ Cursor(project') > 1 /\ project'.steps[Cursor(project') - 1].landed = h
          /\ project'.phase \notin {"PLAN", "DONE"}
      <4>1. Cursor(project) \in Nat \ {0}
        BY StepFacts, GoodState
      <4>2. Cursor(project') = Cursor(project) + 1 /\ project'.steps[Cursor(project)].landed = h
            /\ project'.phase \in {"EXECUTE", "INTEGRATE"}
        BY <1>1, <1>3, <2>1 DEF Lands
      <4> QED
        BY <4>1, <4>2
    <3>4. disk'.project = project'
      BY <3>2
    <3>5. Seated(a)'
      BY <1>1, <1>2, <2>5, <3>1, <3>3, <3>4 DEF Seated, InTransaction, Landing
    <3> QED
      BY <1>1, <1>2, <2>3, <2>4, <2>5, <3>1, <3>2, <3>5, StepFacts, GitFacts, HolderStep
  <2>6. CASE SaveFails /\ Leave(a)
    <3>1. disk' = disk /\ budget' \in Setup
      BY <2>6, StepFacts, SpendTypes DEF SaveFails
    <3> QED
      BY <1>1, <2>3, <2>4, <2>6, <3>1, GitFacts, LeaveKeeps
  <2> QED
    BY <1>1, <1>3, <2>5, <2>6
<1>4. CASE ~CanLandStep(project, h)
  BY <1>1, <1>4, StepFacts, GitFacts, LeaveKeeps
<1> QED
  BY <1>3, <1>4

\* SyncTonyTo moves Tony onto the landed head or not at all.
LEMMA SyncedTyped ==
  ASSUME git \in GitType, NEW h \in Nat
  PROVE  Synced(h) \in GitType /\ (Synced(h).head["Tony"] = git.head["Tony"] \/ Synced(h).head["Tony"] = h)
         /\ Synced(h).last = git.last
<1>1. [git.head EXCEPT !["Tony"] = h] \in [Agents -> Nat] /\ h \in Int
      /\ [git.head EXCEPT !["Tony"] = h]["Tony"] = h
  BY DEF GitType
<1> DEFINE moved == [git EXCEPT !.head["Tony"] = h, !.since = h]
<1>2. moved \in GitType /\ moved.head["Tony"] = h /\ moved.last = git.last
  BY <1>1 DEF GitType
<1> HIDE DEF moved
<1>3. Synced(h) = git \/ Synced(h) = moved
  BY DEF Synced, moved
<1> QED
  BY <1>2, <1>3

\* Tony's worktree follows the landing; after the last step the call goes on.
LEMMA SyncTonyKeeps == ASSUME IInv, NEW a \in Agents, SyncTony(a) PROVE IInv' /\ Told
<1>1. /\ proc = "live" /\ handler[a].pc = "sync" /\ handler[a].pc \in InTransaction
      /\ git' = Synced(handler[a].ref.of)
      /\ IF Finished(project) THEN Goto(a, "finish") /\ UNCHANGED txn ELSE Leave(a)
      /\ UNCHANGED <<project, delivery, disk, repo, proc, approved, budget>>
  BY DEF SyncTony, At, InTransaction
<1>2. handler[a].ref.of \in Nat
  BY StepFacts DEF Ref
<1>3. git' \in GitType
  BY <1>1, <1>2, GitFacts, SyncedTyped
<1>4. CASE Finished(project)
  <2>1. Turned(a) /\ handler'[a].pc = "finish" /\ UNCHANGED txn
    BY <1>1, <1>4, StepFacts, HandlerMoves DEF Pcs
  <2>2. Seated(a)
    BY StepFacts
  <2>3. Seated(a)'
    BY <1>1, <2>1, <2>2 DEF Seated, InTransaction, Landing
  <2>4. txn = a
    BY <1>1, <2>2 DEF Seated
  <2> QED
    BY <1>1, <1>3, <2>1, <2>3, <2>4, StepFacts, HolderStep
<1>5. CASE ~Finished(project)
  BY <1>1, <1>3, <1>5, StepFacts, LeaveKeeps
<1> QED
  BY <1>4, <1>5

\* The file that had the last landing is of a queue that is finished, too.
LEMMA FinishQueueKeeps == ASSUME IInv, NEW a \in Agents, FinishQueue(a) PROVE IInv' /\ Told
<1>1. /\ proc = "live" /\ handler[a].pc = "finish" /\ handler[a].pc \in InTransaction /\ Leave(a)
      /\ IF CanCompleteQueue(project)
         THEN project' = CompleteQueue(project) /\ HookSave(project', delivery)
         ELSE UNCHANGED <<project, disk, budget>>
      /\ UNCHANGED <<delivery, git, repo, proc, approved>>
  BY DEF FinishQueue, At, InTransaction
<1>2. CASE ~CanCompleteQueue(project)
  BY <1>1, <1>2, StepFacts, GitFacts, LeaveKeeps
<1>3. CASE CanCompleteQueue(project)
  <2> DEFINE q == CompleteQueue(project)
             k == Cursor(project)
  <2>1. Sited(q, delivery, approved, repo.head) /\ q.steps = project.steps /\ q.phase = "DONE" /\ Cursor(q) = k
    BY <1>3, StepFacts, CompleteSited DEF CanCompleteQueue
  <2> HIDE DEF q
  <2>2. Cursor(disk.project) = k
    BY <1>1, StepFacts DEF Seated
  <2>3. k > Len(project.steps) /\ project.steps # <<>> /\ project.steps \in Seq(Step)
    BY <1>3, StepFacts, QueueFacts DEF Good, CanCompleteQueue, StepState
  <2>4. Len(project.steps) \in Nat /\ k > 1 /\ k \in Nat
    BY <2>3, StepFacts, GoodState
  <2>5. Len(disk.project.steps) <= Len(project.steps) /\ Len(disk.project.steps) \in Nat
        /\ disk.project.steps \in Seq(Step)
    BY <2>2, <2>4, StepFacts, GoodState DEF Behind, Follows
  <2>6. Cursor(disk.project) > Len(disk.project.steps) /\ disk.project.steps # <<>>
    <3>1. k <= Len(disk.project.steps) + 1
      BY <2>2, <2>5, StepFacts, GoodState
    <3> QED
      BY <2>2, <2>3, <2>4, <2>5, <3>1
  <2>7. Finished(disk.project)
    BY <2>6, StepFacts, QueueFacts DEF Good
  <2>8. Behind(disk.project, q)
    BY <1>3, <2>1, <2>7, StepFacts DEF Behind, Follows, CanCompleteQueue
  <2>9. project' = q /\ (disk' = disk \/ disk' = [project |-> project', delivery |-> delivery'])
    BY <1>1, <1>3 DEF HookSave, q
  <2>10. budget' \in Setup
    BY <1>1, <1>3, StepFacts, SpendTypes DEF HookSave
  <2> QED
    BY <1>1, <2>1, <2>8, <2>9, <2>10, GitFacts, LeaveKeeps
<1> QED
  BY <1>2, <1>3

----------------------------------------------------------------------------
\* A queue with no steps, in PLAN.
LEMMA EmptySited ==
  ASSUME NEW p, p \in StepState, p.phase = "PLAN", p.steps = <<>>, NEW known, NEW branch
  PROVE  /\ Sited(p, NoDelivery, known, branch) /\ Cursor(p) = 1
         /\ ~Finished(p)
<1>1. Open(p) = {} /\ Len(p.steps) = 0
  BY DEF Open
<1>2. Cursor(p) = 1 /\ ~Finished(p) /\ ~HasStep(p)
  BY <1>1 DEF Cursor, Finished, HasStep
<1> HIDE DEF Cursor, Open, Finished, HasStep
<1>3. Good(p)
  BY <1>1, <1>2 DEF Good, InOrder, Phased
<1>4. Gated(p) = {}
  BY NotGated
<1>5. NoDelivery \in DeliveryRecord /\ HeadOrNone(NoDelivery.head) /\ ~IsApplied(NoDelivery)
  BY RefFacts DEF NoDelivery, DeliveryRecord, NoRef, HeadOrNone, IsApplied
<1> QED
  BY <1>2, <1>3, <1>4, <1>5 DEF Sited, Accounted

\* The next task: a round without steps, approvals or a record.
LEMMA ReopenSessionKeeps == ASSUME IInv, ReopenSession PROVE IInv'
<1>1. /\ proc = "live" /\ project.phase = "DONE" /\ Spend("rounds")
      /\ project' = ReopenQueue(project) /\ delivery' = NoDelivery
      /\ disk' = [project |-> project', delivery |-> delivery'] /\ approved' = {}
      /\ UNCHANGED <<git, repo, handler, txn, proc>>
  BY DEF ReopenSession
<1>2. project' \in StepState /\ project'.phase = "PLAN" /\ project'.steps = <<>>
  <2>1. project' = [project EXCEPT !.ready = NobodyReady, !.evidence = NoEvidence, !.phase = "PLAN",
                                   !.plan = FALSE, !.steps = <<>>]
    BY <1>1 DEF ReopenQueue, ResetApprovals
  <2>2. project \in StepState /\ <<>> \in Seq(Step)
    BY StepFacts
  <2> QED
    BY <2>1, <2>2, NoneSigned, PhaseFacts DEF StepState
<1>3. Sited(project', delivery', approved', repo'.head)
  BY <1>1, <1>2, EmptySited
<1>4. ASSUME NEW a \in Agents PROVE Seated(a)'
  <2>1. handler[a].pc \notin InTransaction
    BY <1>1, StepFacts DEF Seated
  <2> QED
    BY <1>1, <2>1, OutsiderSeated
<1>5. budget' \in Setup
  BY <1>1, StepFacts, SpendTypes
<1>6. Types'
  BY <1>1, <1>3, <1>5, GoodState DEF Types, Sited, IInv
<1>7. Sited(disk'.project, disk'.delivery, approved', repo'.head) /\ Behind(disk'.project, project')
  BY <1>1, <1>3, BehindItself DEF Sited
<1>8. Away'
  BY <1>1 DEF Away
<1> QED
  BY <1>3, <1>4, <1>6, <1>7, <1>8 DEF IInv

\* The worktrees, and whether the user lets a landing through, are nobody's record.
LEMMA EnvironmentKeeps ==
  ASSUME IInv, UNCHANGED <<project, delivery, disk, handler, txn, proc, approved, budget>>,
         git' \in GitType, repo' \in [head : Nat, blocked : BOOLEAN], repo'.head = repo.head
  PROVE  IInv' /\ Told
<1>1. Types'
  BY DEF IInv, Types, GitType
<1>2. ASSUME NEW a \in Agents PROVE Seated(a)'
  BY StepFacts DEF Seated
<1>3. Away'
  BY DEF IInv, Away
<1>4. Told
  BY StepFacts DEF Told
<1> QED
  BY <1>1, <1>2, <1>3, <1>4 DEF IInv

\* A commit in a worktree.
LEMMA CommitKeeps == ASSUME IInv, NEW a \in Agents, Commit(a) PROVE IInv' /\ Told
<1> DEFINE new == git.last + 1
           heads == [git.head EXCEPT ![a] = new]
           merges == a = "Austin" /\ git.merging
<1>1. new \in Nat /\ new \in Int /\ heads \in [Agents -> Nat] /\ git \in GitType
      /\ (git.merging /\ ~merges) \in BOOLEAN /\ Never \in Int /\ git.dirty \ {a} \in SUBSET Agents
  BY GitFacts DEF GitType, Never
<1>2. git' = [git EXCEPT !.head = heads, !.last = new, !.dirty = git.dirty \ {a},
                !.merging = git.merging /\ ~merges,
                !.since = IF merges THEN new ELSE IF a = "Tony" THEN Never ELSE git.since]
  BY DEF Commit
<1>3. (IF merges THEN new ELSE IF a = "Tony" THEN Never ELSE git.since) \in Int
  BY <1>1 DEF GitType
<1> HIDE DEF new, heads, merges
<1>4. git' \in GitType
  BY <1>1, <1>2, <1>3 DEF GitType
<1> QED
  BY <1>4, StepFacts, EnvironmentKeeps DEF Commit

\* An edit in a worktree.
LEMMA EditKeeps == ASSUME IInv, NEW a \in Agents, Edit(a) PROVE IInv' /\ Told
<1>1. git' \in GitType
  BY GitFacts DEF Edit, GitType
<1> QED
  BY <1>1, StepFacts, EnvironmentKeeps DEF Edit

\* The user makes the repository fit or unfit for a landing.
LEMMA ToggleRepoKeeps == ASSUME IInv, ToggleRepo PROVE IInv' /\ Told
<1>1. repo' \in [head : Nat, blocked : BOOLEAN] /\ repo'.head = repo.head
  BY StepFacts DEF ToggleRepo
<1> QED
  BY <1>1, GitFacts, EnvironmentKeeps DEF ToggleRepo

----------------------------------------------------------------------------
\* A process that stops, or is not there, has no call in progress.
LEMMA StopKeeps ==
  ASSUME IInv, proc' = "down", txn' = "free", handler' = [a \in Agents |-> Idle],
         UNCHANGED <<git, repo, approved>>, budget' \in Setup,
         Sited(project', delivery', approved, repo.head),
         disk' = [project |-> project', delivery |-> delivery'], Follows(disk.project, project')
  PROVE  IInv' /\ Told
<1>1. ASSUME NEW a \in Agents PROVE Seated(a)'
  BY DEF Seated, Idle, InTransaction, Landing
<1>2. Idle \in HandlerState
  BY RefFacts DEF Idle, HandlerState, NoClaims
<1>3. Types'
  BY <1>2, GoodState DEF Types, Sited, IInv
<1>4. Sited(disk'.project, disk'.delivery, approved', repo'.head) /\ Behind(disk'.project, project')
  BY BehindItself DEF Sited
<1>5. Away'
  BY DEF Away
<1>6. Told
  BY DEF Told
<1> QED
  BY <1>1, <1>3, <1>4, <1>5, <1>6 DEF IInv

\* A crash leaves the file.
LEMMA CrashKeeps == ASSUME IInv, Crash PROVE IInv' /\ Told
<1>1. budget' \in Setup
  BY StepFacts, SpendTypes DEF Crash
<1>2. disk' = [project |-> project', delivery |-> delivery']
  BY DEF Crash, Load, IInv, Types
<1>3. Sited(project', delivery', approved, repo.head)
  BY DEF Crash, Load, IInv
<1>4. Follows(disk.project, project')
  BY StepFacts DEF Crash, Load
<1> QED
  BY <1>1, <1>2, <1>3, <1>4, StopKeeps DEF Crash

\* duo_restart saves and stops.
LEMMA RestartDuoKeeps == ASSUME IInv, NEW a \in Agents, RestartDuo(a) PROVE IInv' /\ Told
<1>1. budget' \in Setup
  BY StepFacts, SpendTypes DEF RestartDuo
<1> QED
  BY <1>1, StepFacts, StopKeeps DEF RestartDuo, Behind

\* The next process starts from the file, and saves what it changes.
LEMMA RecoveryKeeps ==
  ASSUME IInv, proc # "live", UNCHANGED <<handler, txn, approved, budget>>,
         git' \in GitType, repo' \in [head : Nat, blocked : BOOLEAN], repo.head <= repo'.head,
         proc' \in {"live", "down", "resumed", "landing", "recording", "refused"},
         Sited(project', delivery', approved', repo'.head), Follows(project, project'),
         \/ disk' = [project |-> project', delivery |-> delivery']
         \/ UNCHANGED <<project, delivery, disk>>
         \/ proc' = "live" /\ UNCHANGED <<project, disk>>,
         proc' \in {"landing", "recording"} =>
           /\ HasStep(project') /\ delivery' = Pending(delivery'.head)
           /\ delivery'.head.kind = "head" /\ <<Cursor(project'), delivery'.head.of>> \in approved,
         proc' = "recording" => delivery'.head.of <= repo'.head
  PROVE  IInv' /\ Told
<1>1. \A a \in Agents : handler[a].pc = "idle"
  BY StepFacts DEF Seated
<1>2. ASSUME NEW a \in Agents PROVE Seated(a)'
  BY <1>1 DEF Seated, InTransaction, Landing
<1>3. disk = [project |-> project, delivery |-> delivery] /\ txn = "free"
  BY DEF IInv, Away
<1>4. /\ disk' = [project |-> project', delivery |-> delivery'] \/ disk' = disk
      /\ disk' # disk => disk' = [project |-> project', delivery |-> delivery']
  BY <1>3
<1>5. Good(project') /\ project' \in StepState /\ delivery' \in DeliveryRecord
  BY GoodState DEF Sited
<1>6. Types'
  BY <1>4, <1>5 DEF Types, IInv, GitType
<1>7. repo.head \in Nat /\ repo'.head \in Nat
  BY StepFacts
<1>8. Sited(disk'.project, disk'.delivery, approved', repo'.head) /\ Behind(disk'.project, project')
  <2>1. CASE disk' = [project |-> project', delivery |-> delivery']
    BY <1>5, <2>1, BehindItself
  <2>2. CASE disk' = disk /\ project' = project
    BY <1>7, <2>2, SitedGrows DEF IInv
  <2> QED
    BY <2>1, <2>2
<1>9. Away'
  BY <1>3 DEF Away
<1>10. Told
  BY <1>3, <1>4, StepFacts DEF Told
<1> QED
  BY <1>2, <1>6, <1>8, <1>9, <1>10 DEF IInv

\* What the offline gates let through has passed the gate.
LEMMA GatedKnown ==
  ASSUME NEW p, NEW d, NEW known, NEW branch, Sited(p, d, known, branch), HasStep(p), p.phase = "INTEGRATE",
         NEW r \in Ref, r.kind = "head", Fast(p, p.phase) => VerdictBinds(p, r),
         ByVerdict(p) \/ \A a \in Agents : p.ready[a] /\ p.evidence[a] = r
  PROVE  <<Cursor(p), r.of>> \in known
<1>1. CASE ByVerdict(p)
  <2>1. Fast(p, p.phase) /\ ~BySignatures(p)
    BY <1>1 DEF ByVerdict, Fast, BySignatures
  <2>2. Proven(Current(p)) /\ Current(p).verdict.on = r
    BY <2>1 DEF VerdictBinds, Proven
  <2> QED
    BY <2>1, <2>2, GatedIs DEF Sited
<1>2. CASE ~ByVerdict(p)
  <2>1. BySignatures(p)
    BY <1>2, CurrentIs DEF ByVerdict, BySignatures, Step, Policies, Sited
  <2> QED
    BY <1>2, <2>1, GatedIs DEF BothReady, Sited
<1> QED
  BY <1>1, <1>2

\* DeliverAndPersistTo checks its gates and writes the pending record, or fails.
LEMMA HandOffKeeps ==
  ASSUME IInv, proc # "live", HasStep(project), NEW d \in DeliveryRecord, HeadOrNone(d.head),
         BeginHandOff(d), UNCHANGED <<git, repo, handler, txn, approved, budget>>
  PROVE  IInv' /\ Told
<1> DEFINE r == FinalHead(d)
<1>1. r \in Ref /\ r.kind = "head"
  BY StepFacts DEF FinalHead, DeliveryRecord, HeadOrNone
<1> HIDE DEF r
<1>2. CASE Deliverable(project, r)
  <2>1. /\ project' = project /\ delivery' = Pending(r) /\ proc' = "landing"
        /\ disk' = [project |-> project', delivery |-> delivery']
    BY <1>2 DEF BeginHandOff, Load, r
  <2>2. project.phase = "INTEGRATE"
    <3>1. CASE ByVerdict(project)
      <4>1. VerdictBinds(project, r)
        BY <1>2, <3>1 DEF Deliverable, ByVerdict, Fast
      <4> QED
        BY <4>1, StepFacts, CurrentIs DEF VerdictBinds, Proven
    <3>2. CASE ~ByVerdict(project)
      BY <1>2, <3>2 DEF Deliverable
    <3> QED
      BY <3>1, <3>2
  <2>3. <<Cursor(project), r.of>> \in approved
    BY <1>1, <1>2, <2>2, StepFacts, GatedKnown DEF Deliverable
  <2>4. ~Finished(project) /\ HeadOrNone(r) /\ Pending(r).head = r
    BY <1>1, <2>2, StepFacts, FinishedSteps DEF Pending, HeadOrNone
  <2>5. Sited(project', delivery', approved', repo'.head)
    BY <1>1, <2>1, <2>4, StepFacts, PendingSited
  <2> QED
    BY <1>1, <2>1, <2>3, <2>4, <2>5, StepFacts, GitFacts, RecoveryKeeps
<1>3. CASE ~Deliverable(project, r)
  <2>1. project' = disk.project /\ delivery' = disk.delivery /\ proc' = "refused" /\ UNCHANGED disk
    BY <1>3 DEF BeginHandOff, Load, r
  <2>2. project' = project /\ delivery' = delivery
    BY <2>1 DEF IInv, Away
  <2> QED
    BY <2>1, <2>2, StepFacts, GitFacts, RecoveryKeeps
<1> QED
  BY <1>2, <1>3

\* Of the steps that have landed, the last is the one before the cursor.
LEMMA LastLanding ==
  ASSUME NEW p, Good(p), Landings(p) # {}
  PROVE  /\ Cursor(p) > 1 /\ p.steps[Cursor(p) - 1].landed \in Ref
         /\ (CHOOSE i \in Landings(p) : \A j \in Landings(p) : j <= i) = Cursor(p) - 1
<1>1. Landings(p) = 1 .. Cursor(p) - 1 /\ Cursor(p) \in 1 .. Len(p.steps) + 1 /\ p.steps \in Seq(Step)
  BY GoodState, QueueFacts DEF Good
<1>2. Cursor(p) - 1 \in Landings(p) /\ Cursor(p) > 1
  BY <1>1
<1>3. \A i \in Landings(p) : (\A j \in Landings(p) : j <= i) => i = Cursor(p) - 1
  BY <1>1, <1>2
<1>4. \A j \in Landings(p) : j <= Cursor(p) - 1
  BY <1>1
<1>5. p.steps[Cursor(p) - 1] \in Step
  BY <1>1, <1>2
<1> QED
  BY <1>2, <1>3, <1>4, <1>5 DEF Step

\* A queue is followed by what it becomes within its step, and by its landing.
LEMMA FollowsItsRound ==
  ASSUME NEW p, Good(p)
  PROVE  /\ \A q : Keeps(q, p) => Follows(p, q)
         /\ p.phase # "DONE" => \A q, h : Lands(q, p, h) => Follows(p, q)
<1>1. ASSUME NEW q, Keeps(q, p) PROVE Follows(p, q)
  BY <1>1, GoodState DEF Keeps, Follows, Good, Phased
<1>2. ASSUME p.phase # "DONE", NEW q, NEW h, Lands(q, p, h) PROVE Follows(p, q)
  BY <1>2, GoodState DEF Lands, Follows
<1> QED
  BY <1>1, <1>2

\* startResume reconciles the file against the worktrees.
LEMMA ResumeKeeps == ASSUME IInv, Resume PROVE IInv' /\ Told
<1> DEFINE p == Reconcile(project)
<1>1. /\ proc # "live" /\ proc' = "resumed" /\ project' = p /\ delivery' = delivery
      /\ disk' = [project |-> p, delivery |-> delivery]
      /\ git' = IF Landings(p) = {} THEN git
                ELSE Synced(p.steps[CHOOSE i \in Landings(p) : \A j \in Landings(p) : j <= i].landed.of)
      /\ UNCHANGED <<repo, handler, txn, approved, budget>>
  BY DEF Resume, Load
<1>2. Keeps(p, project) /\ Gated(p) \subseteq Gated(project)
  BY StepFacts, ReconcileKeeps
<1> HIDE DEF p
<1>3. git' \in GitType
  <2>1. Good(p)
    BY <1>2 DEF Keeps
  <2>2. Landings(p) # {} => git' = Synced(p.steps[Cursor(p) - 1].landed.of)
                            /\ p.steps[Cursor(p) - 1].landed.of \in Nat
    BY <1>1, <2>1, LastLanding DEF Ref
  <2> QED
    BY <1>1, <2>2, GitFacts, SyncedTyped
<1>4. Sited(project', delivery', approved', repo'.head)
  <2>1. Gated(p) \subseteq approved
    BY <1>2, StepFacts DEF Sited
  <2> QED
    BY <1>1, <1>2, <2>1, StepFacts, SitedKeeps
<1>5. Follows(project, project')
  BY <1>1, <1>2, FollowsItsRound, StepFacts
<1> QED
  BY <1>1, <1>3, <1>4, <1>5, StepFacts, RecoveryKeeps

\* Before the queue is finished the record can be dropped.
LEMMA NoDeliverySited ==
  ASSUME NEW p, NEW d, NEW known, NEW branch, Sited(p, d, known, branch), ~Finished(p)
  PROVE  Sited(p, NoDelivery, known, branch) /\ NoDelivery \in DeliveryRecord /\ HeadOrNone(NoDelivery.head)
<1>1. NoDelivery \in DeliveryRecord /\ HeadOrNone(NoDelivery.head) /\ ~IsApplied(NoDelivery)
  BY RefFacts DEF NoDelivery, DeliveryRecord, NoRef, IsApplied, HeadOrNone
<1> QED
  BY <1>1 DEF Sited, Accounted

\* A landing that crashed before the cursor moved is recorded, or the rest is handed off.
LEMMA ReconcileDeliveryKeeps == ASSUME IInv, ReconcileDelivery PROVE IInv' /\ Told
<1> DEFINE applied == IsApplied(delivery) /\ project.phase = "INTEGRATE"
           current == applied /\ RecordIsCurrent(project, delivery)
           record == IF applied THEN NoDelivery ELSE delivery
<1>1. proc # "live" /\ UNCHANGED <<git, repo, handler, txn, approved, budget>>
  BY DEF ReconcileDelivery
<1>2. CASE proc' = "live" /\ UNCHANGED <<project, delivery, disk>>
  BY <1>1, <1>2, StepFacts, GitFacts, RecoveryKeeps
<1>3. CASE current /\ CanLandStep(project, delivery.head) /\ proc' = "live"
           /\ Load(LandOffline(project, delivery.head), delivery)
           /\ disk' = [project |-> project', delivery |-> delivery]
  <2>1. /\ IsApplied(delivery) /\ delivery.head.kind = "head" /\ delivery.head \in Ref
        /\ delivery.head.of <= repo.head /\ delivery' = delivery
        /\ project' = LandOffline(project, delivery.head)
    BY <1>3, StepFacts DEF Sited, Accounted, Load
  <2>2. <<Cursor(project), delivery.head.of>> \in approved
    <3>1. \A i \in 1 .. Cursor(project) - 1 : project.steps[i].landed # delivery.head
      <4>1. DOMAIN project.steps = 1 .. Len(project.steps) /\ Len(project.steps) \in Nat
            /\ Cursor(project) \in 1 .. Len(project.steps) + 1
        BY StepFacts, GoodState
      <4> QED
        BY <1>3, <4>1 DEF CanLandStep
    <3> QED
      BY <2>1, <3>1, StepFacts DEF Sited, Accounted
  <2>3. Lands(project', project, delivery.head)
    BY <1>3, <2>1, StepFacts, LandStepLands
  <2>4. Sited(project', delivery', approved', repo'.head)
    BY <1>1, <2>1, <2>2, <2>3, StepFacts, SitedLands
  <2>5. Follows(project, project')
    BY <1>3, <2>3, FollowsItsRound, StepFacts
  <2> QED
    BY <1>1, <1>3, <2>1, <2>4, <2>5, StepFacts, GitFacts, RecoveryKeeps
<1>4. CASE proc' = "refused" /\ UNCHANGED <<project, delivery, disk>>
  BY <1>1, <1>4, StepFacts, GitFacts, RecoveryKeeps
<1>5. CASE ~(applied /\ Finished(project)) /\ NeedsDelivery(project) /\ BeginHandOff(record)
  <2>1. HasStep(project)
    <3>1. project.phase = "INTEGRATE"
      BY <1>5 DEF NeedsDelivery
    <3>2. ~Finished(project)
      BY <1>5, <3>1, StepFacts DEF Sited
    <3> QED
      BY <3>1, <3>2, StepFacts, FinishedSteps
  <2>2. ~Finished(project)
    BY <1>5, StepFacts DEF Sited, NeedsDelivery
  <2>3. record \in DeliveryRecord /\ HeadOrNone(record.head)
    BY <2>2, StepFacts, NoDeliverySited DEF Sited
  <2> QED
    BY <1>1, <1>5, <2>1, <2>3, HandOffKeeps
<1>6. CASE ~(applied /\ Finished(project)) /\ proc' = "live" /\ Load(project, record) /\ UNCHANGED disk
  <2>1. Sited(project, record, approved, repo.head)
    BY <1>6, StepFacts, NoDeliverySited
  <2> QED
    BY <1>1, <1>6, <2>1, StepFacts, GitFacts, RecoveryKeeps DEF Load
<1>7. \/ proc' = "live" /\ UNCHANGED <<project, delivery, disk>>
      \/ current /\ CanLandStep(project, delivery.head) /\ proc' = "live"
           /\ Load(LandOffline(project, delivery.head), delivery)
           /\ disk' = [project |-> project', delivery |-> delivery]
      \/ proc' = "refused" /\ UNCHANGED <<project, delivery, disk>>
      \/ ~(applied /\ Finished(project)) /\ NeedsDelivery(project) /\ BeginHandOff(record)
      \/ ~(applied /\ Finished(project)) /\ proc' = "live" /\ Load(project, record) /\ UNCHANGED disk
  BY DEF ReconcileDelivery
<1> QED
  BY <1>2, <1>3, <1>4, <1>5, <1>6, <1>7

\* duo apply.
LEMMA ApplyKeeps == ASSUME IInv, Apply PROVE IInv' /\ Told
<1>1. proc \in {"down", "refused"} /\ proc # "live" /\ UNCHANGED <<git, repo, handler, txn, approved, budget>>
  BY DEF Apply
<1>2. CASE /\ CanCompleteQueue(project) /\ Load(CompleteQueue(project), delivery)
           /\ disk' = [project |-> project', delivery |-> delivery] /\ UNCHANGED proc
  <2>1. Sited(project', delivery', approved', repo'.head)
    BY <1>1, <1>2, StepFacts, CompleteSited DEF Load, CanCompleteQueue
  <2>2. Follows(project, project')
    BY <1>2, StepFacts, CompleteSited DEF Load, CanCompleteQueue, Follows
  <2> QED
    BY <1>1, <1>2, <2>1, <2>2, StepFacts, GitFacts, RecoveryKeeps DEF Load
<1>3. CASE HasStep(project) /\ BeginHandOff(IF IsApplied(delivery) THEN NoDelivery ELSE delivery)
  <2>1. ~Finished(project)
    BY <1>3 DEF HasStep, Finished
  <2> HIDE DEF HasStep, Finished
  <2>2. NoDelivery \in DeliveryRecord /\ HeadOrNone(NoDelivery.head)
    BY <2>1, StepFacts, NoDeliverySited
  <2>3. delivery \in DeliveryRecord /\ HeadOrNone(delivery.head)
    BY StepFacts DEF Sited
  <2> QED
    BY <1>1, <1>3, <2>2, <2>3, HandOffKeeps
<1> QED
  BY <1>2, <1>3 DEF Apply

\* The fast-forward without a session.
LEMMA OfflineLandKeeps == ASSUME IInv, OfflineLand PROVE IInv' /\ Told
<1> DEFINE h == delivery.head.of
<1>1. proc = "landing" /\ UNCHANGED <<project, delivery, disk, git, handler, txn, approved, budget>>
  BY DEF OfflineLand
<1>2. /\ HasStep(project) /\ delivery = Pending(delivery.head) /\ delivery.head.kind = "head"
      /\ <<Cursor(project), h>> \in approved /\ h \in Nat /\ repo \in [head : Nat, blocked : BOOLEAN]
  BY <1>1, StepFacts DEF IInv, Away, Ref
<1>3. /\ repo' \in [head : Nat, blocked : BOOLEAN] /\ repo.head <= repo'.head
      /\ \/ proc' = "recording" /\ h <= repo'.head
         \/ proc' = "down"
  <2>1. CASE Holds(h) /\ proc' = "recording" /\ UNCHANGED repo
    BY <1>2, <2>1 DEF Holds
  <2>2. CASE FastForward(h) /\ proc' = "recording"
    BY <1>2, <2>2 DEF FastForward, Holds
  <2>3. CASE Refused(h) /\ proc' = "down"
    BY <1>2, <2>3 DEF Refused
  <2> QED
    BY <2>1, <2>2, <2>3 DEF OfflineLand
<1> HIDE DEF h
<1>4. Sited(project', delivery', approved', repo'.head)
  BY <1>1, <1>3, StepFacts, SitedGrows
<1>5. proc # "live" /\ proc' \in {"recording", "down"}
  BY <1>1, <1>3
<1> QED
  BY <1>1, <1>2, <1>3, <1>4, <1>5, GitFacts, StepFacts, RecoveryKeeps DEF h

\* The applied record, the tick and DONE in one write.
LEMMA OfflineRecordKeeps == ASSUME IInv, OfflineRecord PROVE IInv' /\ Told
<1> DEFINE h == delivery.head
           p == LandOffline(project, h)
<1>1. proc = "recording" /\ proc # "live" /\ UNCHANGED <<git, repo, handler, txn, approved, budget>>
  BY DEF OfflineRecord
<1>2. /\ HasStep(project) /\ h \in Ref /\ h.kind = "head"
      /\ <<Cursor(project), h.of>> \in approved /\ h.of <= repo.head
  BY <1>1, StepFacts DEF IInv, Away
<1>3. CASE ~CanLandStep(project, h)
  BY <1>1, <1>3, StepFacts, GitFacts, RecoveryKeeps DEF OfflineRecord
<1>4. CASE CanLandStep(project, h)
  <2>1. /\ IF Finished(p) THEN Load(CompleteQueue(p), Applied(h)) ELSE Load(p, Applied(h))
        /\ disk' = [project |-> project', delivery |-> delivery']
        /\ proc' \in {"live", "down"}
    BY <1>4 DEF OfflineRecord
  <2>2. Lands(p, project, h)
    BY <1>2, <1>4, StepFacts, LandStepLands
  <2>3. Sited(project, Applied(h), approved, repo.head) /\ IsApplied(Applied(h)) /\ Applied(h).head = h
    BY <1>2, <1>4, StepFacts, AppliedSited DEF CanLandStep, Applied, IsApplied
  <2>4. Sited(p, Applied(h), approved, repo.head)
    BY <1>2, <2>2, <2>3, SitedLands
  <2> HIDE DEF p, h
  <2>5. Sited(project', delivery', approved', repo'.head)
    <3>1. CASE ~Finished(p)
      BY <1>1, <2>1, <2>4, <3>1 DEF Load
    <3>2. CASE Finished(p)
      BY <1>1, <2>1, <2>4, <3>2, CompleteSited DEF Load
    <3> QED
      BY <3>1, <3>2
  <2>6. Follows(project, project')
    <3>1. Follows(project, p) /\ project.phase # "DONE"
      BY <1>4, <2>2, FollowsItsRound, StepFacts DEF CanLandStep
    <3>2. CASE Finished(p)
      BY <2>1, <2>4, <3>1, <3>2, CompleteSited DEF Load, Follows
    <3> QED
      BY <2>1, <3>1, <3>2 DEF Load
  <2> QED
    BY <1>1, <2>1, <2>5, <2>6, StepFacts, GitFacts, RecoveryKeeps
<1> QED
  BY <1>3, <1>4

----------------------------------------------------------------------------
\* A new session.
LEMMA InitIInv == ASSUME Init PROVE IInv
<1>1. NewQueue \in StepState /\ NewQueue.phase = "PLAN" /\ NewQueue.steps = <<>>
  BY PhaseFacts, NoneSigned DEF NewQueue, StepState
<1>2. budget \in Setup
  BY StepsAssumption DEF Init
<1>3. NoDelivery \in DeliveryRecord /\ Idle \in HandlerState
  BY RefFacts DEF NoDelivery, DeliveryRecord, Idle, HandlerState, NoClaims
<1>4. Types
  BY <1>1, <1>2, <1>3 DEF Init, Types
<1>5. Sited(NewQueue, NoDelivery, {}, 0) /\ Behind(NewQueue, NewQueue)
  <2>1. Sited(NewQueue, NoDelivery, {}, 0)
    BY <1>1, EmptySited
  <2>2. Good(NewQueue)
    BY <2>1 DEF Sited
  <2> QED
    BY <2>1, <2>2, BehindItself
<1>6. \A a \in Agents : Seated(a)
  BY DEF Init, Seated, Idle, InTransaction, Landing
<1>7. Away
  BY DEF Init, Away
<1> QED
  BY <1>4, <1>5, <1>6, <1>7 DEF Init, IInv

\* Every step but the next round's goes on with the queue on record.
LEMMA NextTold == ASSUME IInv, Next PROVE IInv' /\ (Told \/ ReopenSession)
<1>1. ASSUME NEW a \in Agents, Call(a) PROVE IInv' /\ Told
  BY <1>1, SubmitPlanKeeps, SubmitQueueKeeps, BeginSignKeeps, RetractSignatureKeeps,
     EnterDeliveryKeeps, RestartDuoKeeps DEF Call
<1>2. ASSUME NEW a \in Agents, Proceed(a) PROVE IInv' /\ Told
  BY <1>2, RecordReadyKeeps, SignatureGateKeeps, MergeTonyKeeps, CheckHeadKeeps, LandKeeps,
     MarkPendingKeeps, RecordAppliedKeeps, TickStepKeeps, SyncTonyKeeps, FinishQueueKeeps DEF Proceed
<1>3. CASE FastStep
  BY <1>3, BeginSubmitKeeps, WithdrawSubmissionKeeps, BeginVerifyKeeps, RecordVerdictKeeps DEF FastStep
<1>4. CASE Recovery
  BY <1>4, ResumeKeeps, ReconcileDeliveryKeeps, ApplyKeeps, OfflineLandKeeps, OfflineRecordKeeps DEF Recovery
<1> QED
  BY <1>1, <1>2, <1>3, <1>4, CommitKeeps, EditKeeps, ReopenSessionKeeps, ToggleRepoKeeps, CrashKeeps
     DEF Next

\* Nothing moves.
LEMMA StutterKeeps == ASSUME IInv, UNCHANGED vars PROVE IInv'
BY StepFacts, GitFacts, EnvironmentKeeps DEF vars

\* The inductive invariant: the queue, its record and the file of both account for every
\* landing at every place a call, a crash or a resume can stand, for any bounds.
THEOREM StepsInvariant == Spec => []IInv
<1>1. Init => IInv
  BY InitIInv
<1>2. IInv /\ [Next]_vars => IInv'
  BY NextTold, StutterKeeps
<1> QED
  BY <1>1, <1>2, PTL DEF Spec

\* LandedWasApproved: what a STEP session records as landed, live or in the session file,
\* passed the gate of this very step, and the user's branch contains it.
THEOREM LandedWasApprovedHolds == Spec => []LandedWasApproved
<1>1. IInv => LandedWasApproved
  <2> SUFFICES ASSUME IInv PROVE LandedWasApproved
    OBVIOUS
  <2>1. TypeOK
    BY StepFacts DEF IInv, Types, TypeOK
  <2>2. ASSUME NEW p, NEW d, Sited(p, d, approved, repo.head), NEW i \in Landings(p)
        PROVE  i < Cursor(p) /\ p.steps[i].landed.of <= repo.head /\ <<i, p.steps[i].landed.of>> \in approved
    <3>1. i \in 1 .. Cursor(p) - 1 /\ Cursor(p) \in Nat
      BY <2>2, QueueFacts DEF Sited, Good
    <3> QED
      BY <2>2, <3>1 DEF Sited
  <2>3. Sited(project, delivery, approved, repo.head) /\ Sited(disk.project, disk.delivery, approved, repo.head)
    BY DEF IInv
  <2> QED
    BY <2>1, <2>2, <2>3 DEF LandedWasApproved
<1> QED
  BY <1>1, StepsInvariant, PTL

\* SyncTonyTo leaves nothing to do.
LEMMA SyncedIsCurrent ==
  ASSUME git \in GitType, NEW p, Good(p), Cursor(p) > 1, LastLanded(p) \in Nat
  PROVE  ~LeftBehind(Synced(LastLanded(p)), p)
<1> DEFINE h == LastLanded(p)
           moved == [git EXCEPT !.head["Tony"] = h, !.since = h]
<1>1. moved.head["Tony"] = h
  BY DEF GitType
<1>2. Synced(h) = IF "Tony" \notin git.dirty /\ git.since # Never /\ git.since <= h THEN moved ELSE git
  BY DEF Synced
<1> HIDE DEF h, moved
<1> QED
  BY <1>1, <1>2 DEF LeftBehind, h

\* A step that leaves the queue, Tony's worktree and a sync that is due as they are.
LEMMA CalmExcused ==
  ASSUME Calm, SameLanding, LeftBehind(git', project'),
         git'.head["Tony"] = git.head["Tony"], git'.since = git.since, git.dirty \subseteq git'.dirty
  PROVE  MayLeaveBehind
BY DEF Calm, SameLanding, LeftBehind, MayLeaveBehind

\* A call moves on that is not about to bring Tony along.
LEMMA TurnedCalm ==
  ASSUME NEW a \in Agents, Turned(a), handler[a].pc # "sync", proc' = proc,
         project' = project \/ Keeps(project', project)
  PROVE  Calm
<1>1. SyncIsDue => SyncIsDue'
  BY DEF SyncIsDue, Turned
<1>2. SameLanding
  BY KeepsLanding DEF SameLanding
<1> QED
  BY <1>1, <1>2 DEF Calm

\* The calls that move under the transaction or enter it, but for the two of a landing.
LEMMA HolderCalm ==
  ASSUME IInv, NEW a \in Agents,
         \/ EnterDelivery(a) \/ CheckHead(a, "verdict") \/ CheckHead(a, "claims") \/ Land(a)
         \/ MarkPending(a) \/ RecordApplied(a) \/ FinishQueue(a)
  PROVE  Calm /\ git' = git
<1> USE StepFacts
<1>1. CASE EnterDelivery(a)
  <2> DEFINE h == [Idle EXCEPT !.pc = IF ByVerdict(project) THEN "verdict" ELSE "claims",
                               !.claims = Claims(project)]
  <2>1. handler' = [handler EXCEPT ![a] = h] \/ Return(a)
    BY <1>1 DEF EnterDelivery
  <2> HIDE DEF h
  <2>2. SyncIsDue => SyncIsDue'
    BY <1>1, <2>1 DEF SyncIsDue, EnterDelivery, At, Return
  <2> QED
    BY <1>1, <2>2 DEF EnterDelivery, Calm, SameLanding
<1>2. ASSUME NEW pc \in {"verdict", "claims"}, CheckHead(a, pc) PROVE Calm /\ git' = git
  <2>1. proc = "live" /\ handler[a].pc = pc /\ UNCHANGED <<git, repo, proc>>
    BY <1>2 DEF CheckHead, At
  <2>2. Turned(a)
    BY <1>2, HandlerMoves, RefFacts DEF CheckHead, Pcs, Leave
  <2>3. project' = project \/ Keeps(project', project)
    BY <1>2, RevokedKeeps DEF CheckHead, Mutate
  <2> QED
    BY <2>1, <2>2, <2>3, TurnedCalm
<1>3. CASE Land(a)
  <2>1. Turned(a)
    BY <1>3, HandlerMoves DEF Land, Pcs
  <2> QED
    BY <1>3, <2>1, TurnedCalm DEF Land, At
<1>4. CASE MarkPending(a)
  <2>1. Turned(a)
    BY <1>4, HandlerMoves DEF MarkPending, Leave
  <2> QED
    BY <1>4, <2>1, TurnedCalm DEF MarkPending, At
<1>5. CASE RecordApplied(a)
  <2>1. Turned(a)
    BY <1>5, HandlerMoves DEF RecordApplied, Leave, Pcs
  <2> QED
    BY <1>5, <2>1, TurnedCalm DEF RecordApplied, At
<1>6. CASE FinishQueue(a)
  <2>1. Turned(a)
    BY <1>6, HandlerMoves DEF FinishQueue, Leave
  <2>2. proc = "live" /\ handler[a].pc = "finish" /\ UNCHANGED <<git, proc>>
    BY <1>6 DEF FinishQueue, At
  <2>3. SyncIsDue => SyncIsDue'
    BY <2>1, <2>2 DEF SyncIsDue, Turned
  <2>4. project' = project \/ (CanCompleteQueue(project) /\ project' = CompleteQueue(project))
    <3>1. CanCompleteQueue(project) => project' = CompleteQueue(project)
      BY <1>6 DEF FinishQueue
    <3>2. ~CanCompleteQueue(project) => project' = project
      BY <1>6 DEF FinishQueue
    <3>3. CASE CanCompleteQueue(project)
      BY <3>1, <3>3
    <3>4. CASE ~CanCompleteQueue(project)
      BY <3>2, <3>4
    <3> QED
      BY <3>3, <3>4
  <2>5. SameLanding
    BY <2>4, CompleteSited DEF SameLanding, CanCompleteQueue, LastLanded
  <2> QED
    BY <2>2, <2>3, <2>5 DEF Calm
<1> QED
  BY <1>1, <1>2, <1>3, <1>4, <1>5, <1>6

\* A landing goes on to the sync, is not saved, or is none.
LEMMA TickExcused ==
  ASSUME IInv, NEW a \in Agents, TickStep(a)
  PROVE  MayLeaveBehind /\ git' = git
<1>1. handler[a].pc = "tick" /\ git' = git /\ (Goto(a, "sync") \/ Leave(a))
  BY DEF TickStep, At
<1>2. CASE Goto(a, "sync")
  <2>1. handler'[a].pc = "sync"
    BY <1>2, StepFacts, HandlerMoves DEF Pcs
  <2> QED
    BY <1>1, <2>1 DEF MayLeaveBehind, SyncIsDue
<1>3. CASE Leave(a)
  <2>1. handler'[a].pc = "idle"
    BY <1>3, StepFacts, HandlerMoves DEF Leave, Idle
  <2> QED
    BY <1>1, <2>1 DEF MayLeaveBehind, LandingUnsaved
<1> QED
  BY <1>1, <1>2, <1>3

\* The step that landed last is a commit.
LEMMA LastIsCommit ==
  ASSUME NEW p, Good(p), Cursor(p) > 1
  PROVE  LastLanded(p) \in Nat
<1>1. p.steps \in Seq(Step) /\ Cursor(p) \in 1 .. Len(p.steps) + 1
  BY GoodState, QueueFacts DEF Good
<1>2. p.steps[Cursor(p) - 1] \in Step
  BY <1>1
<1> QED
  BY <1>2 DEF LastLanded, Step, Ref

\* The sync, and the one of a resume, bring Tony along if he can be.
LEMMA SyncMoves ==
  ASSUME IInv, Resume \/ \E a \in Agents : SyncTony(a)
  PROVE  /\ ~LeftBehind(git', project') /\ git'.last = git.last
         /\ git'.head["Tony"] # git.head["Tony"] =>
              Cursor(project') > 1 /\ git'.head["Tony"] = LastLanded(project')
<1>1. Good(project')
      /\ (Cursor(project') > 1 => git' = Synced(LastLanded(project')))
      /\ (~(Cursor(project') > 1) => git' = git)
  <2>1. ASSUME NEW a \in Agents, SyncTony(a)
        PROVE  Good(project') /\ Cursor(project') > 1 /\ git' = Synced(LastLanded(project'))
    <3>1. handler[a].pc = "sync" /\ git' = Synced(handler[a].ref.of) /\ project' = project
      BY <2>1 DEF SyncTony, At
    <3>2. Cursor(project) > 1 /\ project.steps[Cursor(project) - 1].landed = handler[a].ref
      BY <3>1, StepFacts DEF Seated
    <3> QED
      BY <3>1, <3>2, StepFacts DEF LastLanded
  <2>2. CASE Resume
    <3> DEFINE p == Reconcile(project)
    <3>1. project' = p /\ git' = IF Landings(p) = {} THEN git
             ELSE Synced(p.steps[CHOOSE i \in Landings(p) : \A j \in Landings(p) : j <= i].landed.of)
      BY <2>2 DEF Resume, Load
    <3>2. Good(p)
      BY StepFacts, ReconcileKeeps DEF Keeps
    <3> HIDE DEF p
    <3>3. Landings(p) # {} => Cursor(p) > 1 /\ git' = Synced(LastLanded(p))
      BY <3>1, <3>2, LastLanding DEF LastLanded
    <3>4. Landings(p) = {} => git' = git /\ ~(Cursor(p) > 1)
      <4>1. Landings(p) = 1 .. Cursor(p) - 1 /\ Cursor(p) \in Nat
        BY <3>2, GoodState, QueueFacts DEF Good, Landings, InOrder
      <4>2. Cursor(p) > 1 => 1 \in 1 .. Cursor(p) - 1
        BY <4>1
      <4>3. Landings(p) = {} => git' = git
        BY <3>1
      <4> QED
        BY <4>1, <4>2, <4>3
    <3> QED
      BY <3>1, <3>2, <3>3, <3>4
  <2> QED
    BY <2>1, <2>2
<1>2. CASE Cursor(project') > 1
  <2>1. LastLanded(project') \in Nat
    BY <1>1, <1>2, LastIsCommit
  <2> QED
    BY <1>1, <1>2, <2>1, GitFacts, SyncedTyped, SyncedIsCurrent
<1>3. CASE ~(Cursor(project') > 1)
  BY <1>1, <1>3 DEF LeftBehind
<1> QED
  BY <1>2, <1>3

\* What a resume does beside bringing Tony along.
LEMMA RecoveryExcused ==
  ASSUME IInv, ReconcileDelivery \/ Apply \/ OfflineLand \/ OfflineRecord, LeftBehind(git', project')
  PROVE  MayLeaveBehind /\ git' = git
<1>1. git' = git /\ handler' = handler /\ ~SyncIsDue /\ proc # "live"
  <2>1. git' = git /\ handler' = handler /\ proc # "live"
    BY DEF ReconcileDelivery, Apply, OfflineLand, OfflineRecord
  <2> QED
    BY <2>1, StepFacts DEF SyncIsDue, Seated
<1>2. CASE proc' \notin {"live", "resumed"}
  BY <1>1, <1>2 DEF MayLeaveBehind
<1>3. CASE proc' \in {"live", "resumed"}
  <2>1. proc \in {"resumed", "recording"} /\ proc' = "live"
    BY <1>3 DEF ReconcileDelivery, Apply, OfflineLand, OfflineRecord, BeginHandOff, Load
  <2>2. CASE project' = project
    BY <1>1, <2>1, <2>2 DEF MayLeaveBehind
  <2>3. CASE project' # project
    <3>1. Cursor(project') > Cursor(project)
      <4>1. CASE proc = "resumed"
        <5>1. CanLandStep(project, delivery.head) /\ project' = LandOffline(project, delivery.head)
              /\ IsApplied(delivery)
          BY <2>1, <2>3, <4>1 DEF ReconcileDelivery, Apply, OfflineLand, OfflineRecord, BeginHandOff, Load
        <5>2. Lands(project', project, delivery.head)
          BY <5>1, StepFacts, LandStepLands DEF Sited, Accounted
        <5> QED
          BY <5>2, StepFacts, GoodState DEF Lands
      <4>2. CASE proc = "recording"
        <5> DEFINE p == LandOffline(project, delivery.head)
        <5>1. /\ CanLandStep(project, delivery.head)
              /\ project' = p \/ (Finished(p) /\ project' = CompleteQueue(p))
          <6>1. OfflineRecord
            BY <4>2 DEF ReconcileDelivery, Apply, OfflineLand
          <6>2. CanLandStep(project, delivery.head)
            BY <2>3, <6>1 DEF OfflineRecord
          <6>3. IF Finished(p) THEN Load(CompleteQueue(p), Applied(delivery.head))
                ELSE Load(p, Applied(delivery.head))
            BY <6>1, <6>2 DEF OfflineRecord
          <6> HIDE DEF p
          <6>4. CASE Finished(p)
            BY <6>2, <6>3, <6>4 DEF Load
          <6>5. CASE ~Finished(p)
            BY <6>2, <6>3, <6>5 DEF Load
          <6> QED
            BY <6>4, <6>5
        <5>2. delivery.head \in Ref /\ delivery.head.kind = "head"
          BY <4>2, StepFacts DEF IInv, Away
        <5>3. Lands(p, project, delivery.head)
          BY <5>1, <5>2, StepFacts, LandStepLands
        <5> HIDE DEF p
        <5>4. Cursor(p) > Cursor(project)
          BY <5>3, StepFacts, GoodState DEF Lands
        <5>5. Cursor(CompleteQueue(p)) = Cursor(p)
          BY DEF CompleteQueue, Cursor, Open
        <5> QED
          BY <5>1, <5>4, <5>5
      <4> QED
        BY <2>1, <4>1, <4>2
    <3> QED
      BY <1>1, <2>1, <3>1 DEF MayLeaveBehind, LandedByResume
  <2> QED
    BY <2>2, <2>3
<1> QED
  BY <1>1, <1>2, <1>3

\* TonyFollowsLandings: between commits Tony's worktree moves onto the step that landed last
\* only, and no landing leaves him behind but in the two corners, for any bounds.
THEOREM TonyFollowsLandingsHolds == Spec => TonyFollowsLandings
<1>1. IInv /\ [Next]_vars => [FollowsLanding]_vars
  <2> SUFFICES ASSUME IInv, Next PROVE FollowsLanding
    BY DEF vars
  <2>1. ASSUME Calm, git' = git PROVE FollowsLanding
    BY <2>1, CalmExcused DEF Calm, FollowsLanding
  <2>2. ASSUME Resume \/ \E a \in Agents : SyncTony(a) PROVE FollowsLanding
    BY <2>2, SyncMoves DEF FollowsLanding
  <2>3. ASSUME NEW a \in Agents, Call(a) PROVE FollowsLanding
    <3>1. CASE RestartDuo(a)
      BY <3>1 DEF RestartDuo, MayLeaveBehind, FollowsLanding
    <3>2. CASE SubmitPlan(a) \/ SubmitQueue(a) \/ BeginSign(a) \/ RetractSignature(a)
      <4>1. Calm
        BY <3>2, SubmitPlanKeeps, SubmitQueueKeeps, BeginSignKeeps, RetractSignatureKeeps
      <4>2. git' = git
        BY <3>2 DEF SubmitPlan, SubmitQueue, BeginSign, RetractSignature
      <4> QED
        BY <2>1, <4>1, <4>2
    <3> QED
      BY <2>1, <2>3, <3>1, <3>2, HolderCalm DEF Call
  <2>4. ASSUME NEW a \in Agents, Proceed(a) PROVE FollowsLanding
    <3>1. ASSUME NEW pc \in {"sign", "submit"}, RecordReady(a, pc) PROVE FollowsLanding
      BY <2>1, <3>1, RecordReadyKeeps DEF RecordReady
    <3>2. CASE SignatureGate(a)
      BY <2>1, <3>2, SignatureGateKeeps DEF SignatureGate
    <3>3. CASE MergeTony(a)
      <4>1. Calm
        BY <3>3, MergeTonyKeeps
      <4>2. \/ git'.last # git.last
            \/ git'.head["Tony"] = git.head["Tony"] /\ git'.since = git.since /\ git.dirty \subseteq git'.dirty
        <5>1. CASE UNCHANGED git
          BY <5>1
        <5>2. CASE git' = [git EXCEPT !.head["Austin"] = git.last + 1,
                                      !.last = git.last + 1, !.since = git.last + 1]
          BY <5>2, GitFacts DEF GitType
        <5>3. CASE git.dirty = {} /\ git' = [git EXCEPT !.merging = TRUE, !.dirty = {"Austin"}]
          BY <5>3, GitFacts DEF GitType
        <5> QED
          BY <3>3, <5>1, <5>2, <5>3 DEF MergeTony
      <4> QED
        BY <4>1, <4>2, CalmExcused DEF Calm, FollowsLanding
    <3>4. CASE TickStep(a)
      BY <3>4, TickExcused DEF FollowsLanding
    <3>5. CASE SyncTony(a)
      BY <2>2, <3>5
    <3> QED
      BY <2>1, <2>4, <3>1, <3>2, <3>3, <3>4, <3>5, HolderCalm DEF Proceed
  <2>5. CASE FastStep
    <3>1. Calm
      BY <2>5, BeginSubmitKeeps, WithdrawSubmissionKeeps, BeginVerifyKeeps, RecordVerdictKeeps DEF FastStep
    <3>2. git' = git
      BY <2>5 DEF FastStep, BeginSubmit, WithdrawSubmission, BeginVerify, RecordVerdict
    <3> QED
      BY <2>1, <3>1, <3>2
  <2>6. CASE Recovery
    <3>1. CASE Resume
      BY <2>2, <3>1
    <3>2. CASE ReconcileDelivery \/ Apply \/ OfflineLand \/ OfflineRecord
      <4>1. git' = git
        BY <3>2 DEF ReconcileDelivery, Apply, OfflineLand, OfflineRecord
      <4> QED
        BY <3>2, <4>1, RecoveryExcused DEF FollowsLanding
    <3> QED
      BY <2>6, <3>1, <3>2 DEF Recovery
  <2>7. ASSUME NEW a \in Agents, Commit(a) PROVE FollowsLanding
    <3>1. git'.last = git.last + 1 /\ git.last \in Nat
      BY <2>7, GitFacts DEF Commit, GitType
    <3> QED
      BY <3>1 DEF FollowsLanding
  <2>8. ASSUME NEW a \in Agents, Edit(a) PROVE FollowsLanding
    <3>1. git'.head["Tony"] = git.head["Tony"] /\ git'.since = git.since /\ git.dirty \subseteq git'.dirty
      BY <2>8, GitFacts DEF Edit, GitType
    <3>2. Calm /\ SameLanding
      BY <2>8 DEF Edit, Calm, SameLanding, SyncIsDue
    <3> QED
      BY <3>1, <3>2, CalmExcused DEF FollowsLanding
  <2>9. CASE ToggleRepo
    BY <2>1, <2>9 DEF ToggleRepo, Calm, SameLanding, SyncIsDue
  <2>10. CASE ReopenSession
    <3>1. project' = ReopenQueue(project) /\ git' = git /\ project'.steps = <<>>
      BY <2>10, StepFacts DEF ReopenSession, ReopenQueue, ResetApprovals, StepState
    <3>2. Open(project') = {} /\ Len(project'.steps) = 0
      BY <3>1 DEF Open
    <3>3. Cursor(project') = 1
      BY <3>2 DEF Cursor
    <3> QED
      BY <3>1, <3>3 DEF LeftBehind, FollowsLanding
  <2>11. CASE Crash
    BY <2>11 DEF Crash, MayLeaveBehind, FollowsLanding
  <2> QED
    BY <2>3, <2>4, <2>5, <2>6, <2>7, <2>8, <2>9, <2>10, <2>11 DEF Next
<1>2. Spec => [][FollowsLanding]_vars
  BY <1>1, StepsInvariant, PTL DEF Spec
<1> QED
  BY <1>2 DEF TonyFollowsLandings

----------------------------------------------------------------------------
\* What is on record of the landings is a sequence of the commits that landed.
LEMMA LandedFacts ==
  ASSUME NEW p, Good(p)
  PROVE  /\ LandedHeads(p) \in Seq(Nat) /\ Len(LandedHeads(p)) = Cursor(p) - 1
         /\ DOMAIN LandedHeads(p) = 1 .. Cursor(p) - 1
         /\ \A i \in 1 .. Cursor(p) - 1 : LandedHeads(p)[i] = p.steps[i].landed.of
         /\ \A i, j \in 1 .. Cursor(p) - 1 : LandedHeads(p)[i] = LandedHeads(p)[j] => i = j
<1>1. Cursor(p) \in 1 .. Len(p.steps) + 1 /\ Len(p.steps) \in Nat /\ Cursor(p) - 1 \in Nat
      /\ p.steps \in Seq(Step) /\ InOrder(p)
  BY GoodState DEF Good
<1>2. \A i \in 1 .. Cursor(p) - 1 : p.steps[i] \in Step /\ p.steps[i].landed \in Ref /\ p.steps[i].landed.of \in Nat
                                    /\ p.steps[i].landed.kind = "head"
  <2>1. \A i \in 1 .. Cursor(p) - 1 : i \in 1 .. Len(p.steps) /\ p.steps[i].landed.kind = "head"
    BY <1>1 DEF InOrder
  <2>2. \A i \in 1 .. Len(p.steps) : p.steps[i] \in Step
    BY <1>1
  <2> QED
    BY <2>1, <2>2 DEF Step, Ref
<1>3. /\ LandedHeads(p) \in Seq(Nat) /\ Len(LandedHeads(p)) = Cursor(p) - 1
      /\ DOMAIN LandedHeads(p) = 1 .. Cursor(p) - 1
      /\ \A i \in 1 .. Cursor(p) - 1 : LandedHeads(p)[i] = p.steps[i].landed.of
  BY <1>1, <1>2 DEF LandedHeads
<1>4. ASSUME NEW i \in 1 .. Cursor(p) - 1, NEW j \in 1 .. Cursor(p) - 1, p.steps[i].landed.of = p.steps[j].landed.of
      PROVE  i = j
  <2>1. p.steps[i].landed = p.steps[j].landed
    BY <1>2, <1>4 DEF Ref
  <2> QED
    BY <1>1, <2>1 DEF InOrder
<1> QED
  BY <1>3, <1>4

\* A later queue of the round has the landings of the earlier one, in order.
LEMMA FollowsPrefix ==
  ASSUME NEW o, NEW p, Good(o), Good(p), Follows(o, p)
  PROVE  /\ Promise!IsPrefix(LandedHeads(o), LandedHeads(p))
         /\ Cursor(o) = Cursor(p) => LandedHeads(o) = LandedHeads(p)
<1> DEFINE s == LandedHeads(o)
           t == LandedHeads(p)
<1>1. /\ s \in Seq(Nat) /\ t \in Seq(Nat) /\ Len(s) = Cursor(o) - 1 /\ Len(t) = Cursor(p) - 1
      /\ DOMAIN s = 1 .. Cursor(o) - 1 /\ Cursor(o) \in Nat \ {0} /\ Cursor(p) \in Nat \ {0}
  BY LandedFacts, GoodState
<1>2. Cursor(o) <= Cursor(p)
  BY DEF Follows
<1>3. \A i \in 1 .. Len(s) : s[i] = t[i]
  <2> SUFFICES ASSUME NEW i \in 1 .. Len(s) PROVE s[i] = t[i]
    OBVIOUS
  <2>1. i \in 1 .. Cursor(o) - 1 /\ i \in 1 .. Cursor(p) - 1
    BY <1>1, <1>2
  <2>2. s[i] = o.steps[i].landed.of
    BY <2>1, LandedFacts
  <2>3. t[i] = p.steps[i].landed.of
    BY <2>1, LandedFacts
  <2>4. o.steps[i].landed = p.steps[i].landed
    BY <2>1 DEF Follows
  <2> QED
    BY <2>2, <2>3, <2>4
<1> HIDE DEF s, t
<1>4. SubSeq(s, 1, Len(s)) = SubSeq(t, 1, Len(s)) /\ Len(s) <= Len(t)
  BY <1>1, <1>2, <1>3
<1>5. Cursor(o) = Cursor(p) => s = t
  BY <1>1, <1>3
<1> QED
  BY <1>4, <1>5 DEF Promise!IsPrefix, s, t

\* The file goes on with the round: it records landings and a longer queue.
LEMMA FileStep ==
  ASSUME IInv, IInv', Told, repo'.head = repo.head
  PROVE  Promise!StepNext
<1> DEFINE o == disk.project
           p == disk'.project
<1>1. Good(o) /\ Good(p) /\ Follows(o, p) /\ Sited(p, disk'.delivery, approved', repo.head)
  BY DEF IInv, Sited, Told
<1>2. Promise!Approve
  BY DEF Promise!Approve, Told
<1> HIDE DEF o, p
<1>3. CASE o.phase = "DONE"
  <2>1. p.phase = "DONE" /\ Len(p.steps) = Len(o.steps)
    BY <1>1, <1>3 DEF Follows
  <2>2. Cursor(o) = Len(o.steps) + 1 /\ Cursor(p) = Len(p.steps) + 1
    BY <1>1, <1>3, <2>1, GoodState DEF Good, Phased
  <2>3. LandedHeads(o) = LandedHeads(p)
    BY <1>1, <2>1, <2>2, FollowsPrefix
  <2> QED
    BY <1>2, <1>3, <2>1, <2>3 DEF Promise!StepNext, o, p
<1>4. CASE o.phase # "DONE"
  <2>1. LandedHeads(o) # <<>> => Len(o.steps) <= Len(p.steps)
    <3>1. LandedHeads(o) # <<>> => Cursor(o) > 1
      BY <1>1, LandedFacts, GoodState
    <3> QED
      BY <1>1, <3>1 DEF Follows
  <2>2. Promise!IsPrefix(LandedHeads(o), LandedHeads(p)) /\ Len(LandedHeads(p)) <= Len(p.steps)
    BY <1>1, FollowsPrefix, LandedFacts, GoodState
  <2>3. \A i \in DOMAIN LandedHeads(p) :
          /\ LandedHeads(p)[i] <= repo.head /\ <<i, LandedHeads(p)[i]>> \in approved'
          /\ \A j \in DOMAIN LandedHeads(p) : LandedHeads(p)[i] = LandedHeads(p)[j] => i = j
    BY <1>1, LandedFacts DEF Sited
  <2>4. p.phase = "DONE" => Len(p.steps) > 0 /\ Len(LandedHeads(p)) = Len(p.steps)
    <3>1. p.phase = "DONE" => Cursor(p) = Len(p.steps) + 1 /\ p.steps # <<>> /\ p.steps \in Seq(Step)
      BY <1>1, GoodState DEF Good, Phased
    <3> QED
      BY <1>1, <3>1, LandedFacts
  <2>5. Promise!Record
    BY <1>4, <2>1, <2>2, <2>3, <2>4 DEF Promise!Record, o, p
  <2> QED
    BY <1>2, <2>5 DEF Promise!StepNext
<1> QED
  BY <1>3, <1>4

\* A landing, of the step under the cursor that is on disk.
LEMMA LandsNext ==
  ASSUME IInv, NEW h \in Nat, <<Cursor(disk.project), h>> \in approved, FastForward(h),
         UNCHANGED <<disk, approved>>
  PROVE  Promise!StepNext
<1>1. repo'.head = h /\ h > repo.head
  BY StepFacts DEF FastForward, Holds
<1>2. Len(LandedHeads(disk.project)) + 1 = Cursor(disk.project)
  BY StepFacts, LandedFacts, GoodState
<1> QED
  BY <1>1, <1>2 DEF Promise!StepNext, Promise!Land

\* The fast-forward in a session is StepHandoff's Land.
LEMMA LandImplements ==
  ASSUME IInv, NEW a \in Agents, Land(a)
  PROVE  Promise!StepNext \/ UNCHANGED Promise!stepVars
<1>1. handler[a].pc = "land" /\ UNCHANGED <<disk, approved>>
  BY DEF Land, At
<1>2. <<Cursor(disk.project), handler[a].ref.of>> \in approved /\ handler[a].ref.of \in Nat
  BY <1>1, StepFacts DEF Seated, Ref
<1>3. FastForward(handler[a].ref.of) \/ UNCHANGED repo
  BY DEF Land, Refused
<1> QED
  BY <1>1, <1>2, <1>3, LandsNext DEF Promise!stepVars

\* The fast-forward of duo apply and of resume is StepHandoff's Land.
LEMMA OfflineLandImplements ==
  ASSUME IInv, OfflineLand
  PROVE  Promise!StepNext \/ UNCHANGED Promise!stepVars
<1>1. proc = "landing" /\ UNCHANGED <<disk, approved>>
  BY DEF OfflineLand
<1>2. disk.project = project /\ <<Cursor(project), delivery.head.of>> \in approved /\ delivery.head.of \in Nat
  BY <1>1, StepFacts DEF IInv, Away, Ref
<1>3. FastForward(delivery.head.of) \/ UNCHANGED repo
  BY DEF OfflineLand, Refused
<1> QED
  BY <1>1, <1>2, <1>3, LandsNext DEF Promise!stepVars

\* A queue that is finished is let go of with the approvals of its round.
LEMMA ReopenImplements == ASSUME IInv, IInv', ReopenSession PROVE Promise!StepNext
<1>1. /\ project.phase = "DONE" /\ project' = ReopenQueue(project)
      /\ disk' = [project |-> project', delivery |-> delivery'] /\ approved' = {} /\ repo' = repo
  BY DEF ReopenSession
<1>2. Finished(disk.project)
  BY <1>1, StepFacts DEF Behind
<1>3. Len(disk.project.steps) > 0 /\ Len(LandedHeads(disk.project)) = Len(disk.project.steps)
  <2>1. Cursor(disk.project) > Len(disk.project.steps) /\ disk.project.steps # <<>>
        /\ disk.project.steps \in Seq(Step)
    BY <1>2, StepFacts, GoodState, QueueFacts DEF Good
  <2> QED
    BY <2>1, StepFacts, LandedFacts, GoodState
<1>4. project'.steps = <<>> /\ project'.phase = "PLAN"
  <2>1. project \in StepState
    BY StepFacts
  <2> QED
    BY <1>1, <2>1 DEF ReopenQueue, ResetApprovals, StepState
<1>5. disk'.project = project'
  BY <1>1
<1>6. LandedHeads(disk'.project) = <<>> /\ Len(disk'.project.steps) = 0
  <2>1. Good(disk'.project)
    BY DEF IInv, Sited
  <2>2. Len(LandedHeads(disk'.project)) <= Len(disk'.project.steps) /\ Len(disk'.project.steps) = 0
        /\ LandedHeads(disk'.project) \in Seq(Nat)
    BY <1>4, <1>5, <2>1, LandedFacts, GoodState
  <2> QED
    BY <2>2
<1> QED
  BY <1>1, <1>3, <1>4, <1>5, <1>6 DEF Promise!StepNext, Promise!NewRound, Promise!Finished

\* The handlers, the transaction, the crashes and the hand-off without a session implement
\* StepHandoff: steps land in order, each approved as this step, none twice, and stay on record.
THEOREM StepRefinement == Spec => ImplementsStepHandoff
<1>1. Init => Promise!StepInit
  <2> SUFFICES ASSUME Init PROVE Promise!StepInit
    OBVIOUS
  <2>1. disk.project = NewQueue /\ NewQueue.steps = <<>> /\ NewQueue.phase = "PLAN" /\ approved = {} /\ repo.head = 0
    BY DEF Init, NewQueue
  <2>2. Good(NewQueue)
    BY InitIInv, <2>1 DEF IInv, Sited
  <2>3. LandedHeads(NewQueue) = <<>>
    BY <2>1, <2>2, LandedFacts, GoodState
  <2> QED
    BY <2>1, <2>3 DEF Promise!StepInit
<1>2. IInv /\ [Next]_vars => [Promise!StepNext]_(Promise!stepVars)
  <2> SUFFICES ASSUME IInv, [Next]_vars PROVE Promise!StepNext \/ UNCHANGED Promise!stepVars
    OBVIOUS
  <2>1. CASE UNCHANGED vars
    BY <2>1 DEF vars, Promise!stepVars
  <2>2. CASE Next
    <3>1. IInv' /\ (Told \/ ReopenSession)
      BY <2>2, NextTold
    <3>2. \/ repo'.head = repo.head
          \/ OfflineLand \/ \E a \in Agents : Land(a)
      <4>1. ASSUME NEW a \in Agents, Call(a) PROVE UNCHANGED repo
        BY <4>1 DEF Call, SubmitPlan, SubmitQueue, BeginSign, RetractSignature, EnterDelivery, RestartDuo
      <4>2. ASSUME NEW a \in Agents, Proceed(a) PROVE UNCHANGED repo \/ Land(a)
        BY <4>2 DEF Proceed, RecordReady, SignatureGate, MergeTony, CheckHead, MarkPending, RecordApplied,
                    TickStep, SyncTony, FinishQueue
      <4>3. FastStep => UNCHANGED repo
        BY DEF FastStep, BeginSubmit, WithdrawSubmission, BeginVerify, RecordVerdict
      <4>4. Recovery => UNCHANGED repo \/ OfflineLand
        BY DEF Recovery, Resume, ReconcileDelivery, Apply, OfflineRecord
      <4>5. ToggleRepo => repo'.head = repo.head
        BY StepFacts DEF ToggleRepo
      <4> QED
        BY <2>2, <4>1, <4>2, <4>3, <4>4, <4>5 DEF Next, ReopenSession, Crash, Commit, Edit
    <3> QED
      BY <3>1, <3>2, FileStep, LandImplements, OfflineLandImplements, ReopenImplements
  <2> QED
    BY <2>1, <2>2
<1> QED
  BY <1>1, <1>2, StepsInvariant, PTL DEF Spec, ImplementsStepHandoff, Promise!StepHandoffSpec
=============================================================================
