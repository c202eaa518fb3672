------------------------------- MODULE Steps -------------------------------
(***************************************************************************)
(* A STEP session: the queue, the agents' calls about it, the delivery of  *)
(* one step after the other, and the resume path after a crash.            *)
(*                                                                         *)
(* A call of an agent is a program counter, as in Delivery; here a call    *)
(* reads what it decides on (the stale signatures, the head, the gate) in  *)
(* one step and records its result in a later one, and the delivery        *)
(* transaction moves write by write.                                       *)
(***************************************************************************)
EXTENDS StepQueue, Integers

CONSTANT Setups

Setup ==
  [plans : Nat,         \* bound on the plan versions
   queue : Nat,         \* bound on the length of the queue
   commits : Nat,       \* bound on the commits the agents make
   crashes : Nat,       \* bound on crashes of the Duo process
   lost : Nat,          \* bound on writes of the session file that fail
   rounds : Nat,        \* bound on tasks submitted after DONE
   policies : SUBSET Policies,   \* the policies the agents tag steps with
   dirty : BOOLEAN,     \* do agents leave uncommitted changes?
   merge : BOOLEAN,     \* do merges into Austin's branch stay open (conflicts)?
   block : BOOLEAN]     \* does the user leave the repository unfit for delivery?

ASSUME StepsAssumption == Setups \subseteq Setup

VARIABLES
  project,     \* the live domain state
  delivery,    \* the live delivery record
  disk,        \* state.json: the two of them as last saved
  git,         \* the agents' worktrees
  repo,        \* the user's branch
  handler,     \* one call in progress per agent
  txn,         \* deliveryTxnMu: the agent whose call holds it, or "free"
  proc,        \* the Duo process
  approved,    \* history: <<step, head>> that have passed the step's gate
  budget       \* the setup, its bounds reduced to what is left of them

vars == <<project, delivery, disk, git, repo, handler, txn, proc, approved, budget>>

NoDelivery == [status |-> "none", head |-> NoRef]
Pending(r) == [status |-> "pending", head |-> r]
Applied(r) == [status |-> "applied", head |-> r]
IsApplied(d) == d.status = "applied"

NoClaims == [a \in Agents |-> NoRef]
Idle == [pc |-> "idle", ref |-> NoRef, claims |-> NoClaims]

\* Tony's head is contained in Austin's branch from commit `since` on.
Never == -1

Init ==
  /\ budget \in Setups
  /\ project = NewQueue
  /\ delivery = NoDelivery
  /\ disk = [project |-> NewQueue, delivery |-> NoDelivery]
  /\ git = [head |-> [a \in Agents |-> 0], dirty |-> {}, merging |-> FALSE,
            since |-> 0, last |-> 0]
  /\ repo = [head |-> 0, blocked |-> FALSE]
  /\ handler = [a \in Agents |-> Idle]
  /\ txn = "free"
  /\ proc = "live"
  /\ approved = {}

----------------------------------------------------------------------------
At(a, pc) == proc = "live" /\ handler[a].pc = pc
Goto(a, pc) == handler' = [handler EXCEPT ![a].pc = pc]
GotoWith(a, pc, ref) == handler' = [handler EXCEPT ![a] = [@ EXCEPT !.pc = pc, !.ref = ref]]
Return(a) == handler' = [handler EXCEPT ![a] = Idle]
Leave(a) == Return(a) /\ txn' = "free"

Spend(field) == budget[field] > 0 /\ budget' = [budget EXCEPT ![field] = @ - 1]

\* The hook of every mutation writes the live state; a failure is logged.
HookSave(p, d) ==
  \/ disk' = [project |-> p, delivery |-> d] /\ UNCHANGED budget
  \/ Spend("lost") /\ UNCHANGED disk

Saved(p, d) == disk' = [project |-> p, delivery |-> d] /\ UNCHANGED budget
SaveFails == Spend("lost") /\ UNCHANGED disk

\* What has passed the gate of the step under the cursor.
Gated(p) ==
  IF p.phase # "INTEGRATE" \/ ~HasStep(p) THEN {}
  ELSE IF IsFinal(p) \/ PolicyOf(p) = "GOAL"
  THEN {<<Cursor(p), p.evidence["Austin"].of>> : x \in {y \in {1} :
           BothReady(p) /\ p.evidence["Austin"] = p.evidence["Tony"]}}
  ELSE {<<Cursor(p), Current(p).verdict.on.of>> : x \in {y \in {1} :
           Current(p).verdict.status = "passed"}}

Mutate(p) ==
  /\ project' = p
  /\ approved' = approved \cup Gated(p)
  /\ HookSave(p, delivery)

\* SetDelivery: applied is monotonic for one head.
WithDelivery(d) ==
  IF IsApplied(delivery) /\ delivery.head = d.head /\ ~IsApplied(d) THEN delivery ELSE d

----------------------------------------------------------------------------
(***************************************************************************)
(* What a signature has to name (recovery.ExpectedEvidence).               *)
(***************************************************************************)
Reviewed(phase, a) ==
  CASE phase = "EXECUTE" -> a
    [] phase = "REVIEW" -> Peer(a)
    [] OTHER -> "Austin"

HasEvidence(phase, a) ==
  \/ phase = "PLAN"
  \/ phase \in {"EXECUTE", "REVIEW", "INTEGRATE"} /\ Reviewed(phase, a) \notin git.dirty

Evidence(p, a) ==
  IF p.phase = "PLAN" THEN PlanRef(p.version) ELSE HeadRef(git.head[Reviewed(p.phase, a)])

Stale(p, a) ==
  p.ready[a] /\ ~(HasEvidence(p.phase, a) /\ Evidence(p, a) = p.evidence[a])

WithoutStale(p) ==
  [p EXCEPT !.ready = [a \in Agents |-> p.ready[a] /\ ~Stale(p, a)],
            !.evidence = [a \in Agents |-> IF Stale(p, a) THEN NoRef ELSE p.evidence[a]]]

HasTarget == "Austin" \notin git.dirty
Target == HeadRef(git.head["Austin"])

----------------------------------------------------------------------------
(***************************************************************************)
(* duo_set_plan and duo_set_steps.                                         *)
(***************************************************************************)
SubmitPlan(a) ==
  /\ At(a, "idle") /\ project.phase = "PLAN" /\ project.version < budget.plans
  /\ Mutate(StepPlan(project))
  /\ UNCHANGED <<delivery, git, repo, handler, txn, proc>>

SubmitQueue(a) ==
  /\ At(a, "idle")
  /\ \E policies \in UNION {[1 .. n -> budget.policies] : n \in 1 .. budget.queue} :
       /\ project.phase # "PLAN" => Len(project.steps) + Len(policies) <= budget.queue
       /\ CanSetSteps(project, TRUE)
       /\ Mutate(SetSteps(project, policies))
  /\ UNCHANGED <<delivery, git, repo, handler, txn, proc>>

(***************************************************************************)
(* duo_set_status in PLAN, in the phases of a GOAL step, and on the final  *)
(* step: a signature.  Stale signatures go first, then the evidence is     *)
(* taken, then the domain state is asked to record it.                     *)
(***************************************************************************)
BeginSign(a) ==
  /\ At(a, "idle") /\ SignsIn(project)
  /\ LET p == IF project.phase = "PLAN" THEN project ELSE WithoutStale(project)
     IN  /\ IF p = project THEN UNCHANGED <<project, approved, disk, budget>> ELSE Mutate(p)
         /\ IF HasEvidence(p.phase, a) THEN GotoWith(a, "sign", Evidence(p, a))
            ELSE UNCHANGED handler
  /\ UNCHANGED <<delivery, git, repo, txn, proc>>

\* The call was chosen for the phase it saw; State.SetReady dispatches on
\* the one it finds.  Two INTEGRATE signatures go to the test gate and the
\* delivery, two of REVIEW to the merge of Tony's branch.
RecordReady(a, pc) ==
  LET p == SetStepReady(project, a, TRUE, handler[a].ref)
  IN  /\ At(a, pc)
      /\ IF CanSetStepReady(project, a, TRUE)
         THEN /\ Mutate(p)
              /\ CASE pc = "submit" -> Return(a)
                   [] pc = "sign" /\ project.phase = "INTEGRATE" /\ BothReady(p) -> Goto(a, "gate")
                   [] pc = "sign" /\ p.phase = "INTEGRATE" /\ project.phase = "REVIEW" -> Goto(a, "merge")
                   [] OTHER -> Return(a)
         ELSE Return(a) /\ UNCHANGED <<project, approved, disk, budget>>
      /\ UNCHANGED <<delivery, git, repo, txn, proc>>

RetractSignature(a) ==
  /\ At(a, "idle") /\ CanSignStep(project, FALSE) /\ project.ready[a]
  /\ Mutate(SetStepReady(project, a, FALSE, NoRef))
  /\ UNCHANGED <<delivery, git, repo, handler, txn, proc>>

\* runTestGateIfSet: it runs for GOAL steps, and its failure takes the
\* signature back.
SignatureGate(a) ==
  /\ At(a, "gate")
  /\ \/ Goto(a, "deliver") /\ UNCHANGED <<project, approved, disk, budget>>
     \/ /\ PolicyOf(project) = "GOAL"
        /\ Mutate(RevokeSignature(project, a))
        /\ Return(a)
  /\ UNCHANGED <<delivery, git, repo, txn, proc>>

\* beginIntegration, as in Delivery.
MergeTony(a) ==
  /\ At(a, "merge")
  /\ \/ /\ git.dirty # {} \/ git.since # Never
        /\ UNCHANGED git
     \/ /\ git.dirty = {} /\ git.since = Never
        /\ git.last < budget.commits
        /\ git' = [git EXCEPT !.head["Austin"] = git.last + 1,
                              !.last = git.last + 1, !.since = git.last + 1]
     \/ /\ git.dirty = {} /\ git.since = Never /\ budget.merge
        /\ git' = [git EXCEPT !.merging = TRUE, !.dirty = {"Austin"}]
  /\ Return(a)
  /\ UNCHANGED <<project, approved, disk, budget, delivery, repo, txn, proc>>

(***************************************************************************)
(* A FAST step: Austin submits his head, or withdraws the submission; Tony *)
(* reports on the head submitted.                                          *)
(***************************************************************************)
BeginSubmit ==
  /\ At("Austin", "idle") /\ Fast(project, "EXECUTE") /\ HasTarget
  /\ GotoWith("Austin", "submit", Target)
  /\ UNCHANGED <<project, approved, disk, budget, delivery, git, repo, txn, proc>>

WithdrawSubmission ==
  /\ At("Austin", "idle") /\ Fast(project, "REVIEW") /\ HasTarget
  /\ Mutate(SetStepReady(project, "Austin", FALSE, NoRef))
  /\ UNCHANGED <<delivery, git, repo, handler, txn, proc>>

\* A head that is no longer the one submitted takes the submission back.
BeginVerify ==
  /\ At("Tony", "idle") /\ Fast(project, "REVIEW")
  /\ IF HasTarget /\ Target = Current(project).head
     THEN /\ \E pc \in {"passed", "issue"} : GotoWith("Tony", pc, Target)
          /\ UNCHANGED <<project, approved, disk, budget>>
     ELSE Mutate(RevokeStep(project)) /\ UNCHANGED handler
  /\ UNCHANGED <<delivery, git, repo, txn, proc>>

RecordVerdict(result) ==
  /\ At("Tony", result)
  /\ IF CanVerify(project, result, handler["Tony"].ref)
     THEN /\ Mutate(Verify(project, result))
          /\ IF result = "passed" /\ ~IsFinal(project) THEN Goto("Tony", "deliver") ELSE Return("Tony")
     ELSE Return("Tony") /\ UNCHANGED <<project, approved, disk, budget>>
  /\ UNCHANGED <<delivery, git, repo, txn, proc>>

----------------------------------------------------------------------------
(***************************************************************************)
(* deliverFinal for a STEP session, under deliveryTxnMu.  The project is   *)
(* read once when the lock is held: which gate applies, and what has been  *)
(* approved under it.                                                      *)
(***************************************************************************)
ByVerdict(p) == ~IsFinal(p) /\ PolicyOf(p) = "FAST"

Claims(p) == IF ByVerdict(p) THEN [a \in Agents |-> Current(p).head] ELSE p.evidence

\* An applied record is an earlier step's unless the queue is finished; then
\* landing it again is refused and the call returns.
EnterDelivery(a) ==
  /\ At(a, "deliver") /\ txn = "free"
  /\ IF /\ project.phase = "INTEGRATE"
        /\ ~(IsApplied(delivery) /\ Finished(project))
        /\ ByVerdict(project) \/ BothReady(project)
     THEN /\ txn' = a
          /\ handler' = [handler EXCEPT ![a] =
               [Idle EXCEPT !.pc = IF ByVerdict(project) THEN "verdict" ELSE "claims",
                            !.claims = Claims(project)]]
     ELSE Return(a) /\ UNCHANGED txn
  /\ UNCHANGED <<project, delivery, disk, git, repo, proc, approved, budget>>

\* Mutant: one approval that names the head is enough.
AgreedByOne(a) == \E b \in Agents : handler[a].claims[b] = Target

Agreed(a) == \A b \in Agents : handler[a].claims[b] = Target

\* The head is read; approvals of another one are revoked (revokeStepSubmission,
\* revokeIntegrateSignatures).
Revoked(a, pc) ==
  IF pc = "verdict" THEN IF CanRevokeStep(project) THEN RevokeStep(project) ELSE project
  ELSE [project EXCEPT
          !.ready = [b \in Agents |-> project.ready[b] /\ handler[a].claims[b] = Target],
          !.evidence = [b \in Agents |-> IF handler[a].claims[b] = Target
                                         THEN project.evidence[b] ELSE NoRef]]

CheckHead(a, pc) ==
  /\ At(a, pc)
  /\ \/ /\ ~Agreed(a)
        /\ Mutate(Revoked(a, pc))
        /\ GotoWith(a, "mark", NoRef)
        /\ UNCHANGED <<delivery, txn>>
     \/ /\ Agreed(a)
        /\ delivery' = WithDelivery(Pending(Target))
        /\ \/ Saved(project, delivery') /\ GotoWith(a, "land", Target) /\ UNCHANGED txn
           \/ SaveFails /\ Leave(a)
        /\ UNCHANGED <<project, approved>>
  /\ UNCHANGED <<git, repo, proc>>

\* git merge --ff-only in the user's repository.
Holds(h) == h <= repo.head
FastForward(h) == ~Holds(h) /\ ~repo.blocked /\ repo' = [repo EXCEPT !.head = h]
Refused(h) == ~Holds(h) /\ repo.blocked /\ UNCHANGED repo

Land(a) ==
  /\ At(a, "land")
  /\ LET h == handler[a].ref.of
     IN  \/ Holds(h) /\ Goto(a, "record") /\ UNCHANGED repo
         \/ FastForward(h) /\ Goto(a, "record")
         \/ Refused(h) /\ Goto(a, "mark")
  /\ UNCHANGED <<project, delivery, disk, git, txn, proc, approved, budget>>

\* markDeliveryPending, but never over the applied record of the same head.
MarkPending(a) ==
  /\ At(a, "mark")
  /\ delivery' = WithDelivery(Pending(handler[a].ref))
  /\ IF IsApplied(delivery) /\ delivery.head = handler[a].ref
     THEN UNCHANGED <<disk, budget>>
     ELSE HookSave(project, delivery')
  /\ Leave(a)
  /\ UNCHANGED <<project, git, repo, proc, approved>>

RecordApplied(a) ==
  /\ At(a, "record")
  /\ delivery' = Applied(handler[a].ref)
  /\ \/ Saved(project, delivery') /\ Goto(a, "tick") /\ UNCHANGED txn
     \/ SaveFails /\ Leave(a)
  /\ UNCHANGED <<project, git, repo, proc, approved>>

\* completeDelivery, landStepIfNeeded: the cursor moves.
TickStep(a) ==
  LET h == handler[a].ref
  IN  /\ At(a, "tick")
      /\ IF CanLandStep(project, h)
         THEN /\ project' = LandStep(project, h)
              /\ \/ Saved(project', delivery) /\ Goto(a, "sync") /\ UNCHANGED txn
                 \/ SaveFails /\ Leave(a)
         ELSE Leave(a) /\ UNCHANGED <<project, disk, budget>>
      /\ UNCHANGED <<delivery, git, repo, proc, approved>>

\* Mutant: the verifier is brought to Austin's live head.
SyncedLive(h) ==
  IF "Tony" \notin git.dirty /\ git.since # Never /\ git.since <= git.head["Austin"]
  THEN [git EXCEPT !.head["Tony"] = git.head["Austin"], !.since = git.head["Austin"]]
  ELSE git

\* SyncTonyTo: a clean worktree is fast-forwarded onto the landed head.
Synced(h) ==
  IF "Tony" \notin git.dirty /\ git.since # Never /\ git.since <= h
  THEN [git EXCEPT !.head["Tony"] = h, !.since = h]
  ELSE git

\* Mutant: the verifier is brought along when the queue is finished.
SyncTonyLast(a) ==
  /\ At(a, "sync")
  /\ IF Finished(project) THEN git' = Synced(handler[a].ref.of) /\ Goto(a, "finish") /\ UNCHANGED txn
     ELSE Leave(a) /\ UNCHANGED git
  /\ UNCHANGED <<project, delivery, disk, repo, proc, approved, budget>>

SyncTony(a) ==
  /\ At(a, "sync")
  /\ git' = Synced(handler[a].ref.of)
  /\ IF Finished(project) THEN Goto(a, "finish") /\ UNCHANGED txn ELSE Leave(a)
  /\ UNCHANGED <<project, delivery, disk, repo, proc, approved, budget>>

FinishQueue(a) ==
  /\ At(a, "finish")
  /\ IF CanCompleteQueue(project)
     THEN project' = CompleteQueue(project) /\ HookSave(project', delivery)
     ELSE UNCHANGED <<project, disk, budget>>
  /\ Leave(a)
  /\ UNCHANGED <<delivery, git, repo, proc, approved>>

\* The human's next task reopens a finished session.
ReopenSession ==
  /\ proc = "live" /\ project.phase = "DONE" /\ Spend("rounds")
  /\ project' = ReopenQueue(project) /\ delivery' = NoDelivery
  /\ disk' = [project |-> project', delivery |-> delivery']
  /\ approved' = {}
  /\ UNCHANGED <<git, repo, handler, txn, proc>>

----------------------------------------------------------------------------
(***************************************************************************)
(* The worktrees and the user's repository move on their own.              *)
(***************************************************************************)
\* A commit leaves the worktree clean; it concludes a merge that was open.
Commit(a) ==
  LET new == git.last + 1
      merges == a = "Austin" /\ git.merging
  IN  /\ new <= budget.commits
      /\ git' = [git EXCEPT !.head[a] = new, !.last = new, !.dirty = @ \ {a},
                   !.merging = git.merging /\ ~merges,
                   !.since = IF merges THEN new ELSE IF a = "Tony" THEN Never ELSE git.since]
      /\ UNCHANGED <<project, delivery, disk, repo, handler, txn, proc, approved, budget>>

Edit(a) ==
  /\ budget.dirty /\ a \notin git.dirty
  /\ git' = [git EXCEPT !.dirty = @ \cup {a}]
  /\ UNCHANGED <<project, delivery, disk, repo, handler, txn, proc, approved, budget>>

ToggleRepo ==
  /\ budget.block
  /\ repo' = [repo EXCEPT !.blocked = ~@]
  /\ UNCHANGED <<project, delivery, disk, git, handler, txn, proc, approved, budget>>

----------------------------------------------------------------------------
(***************************************************************************)
(* Crash, resume and duo apply.                                            *)
(***************************************************************************)
Load(p, d) == project' = p /\ delivery' = d

Crash ==
  /\ proc = "live" /\ Spend("crashes")
  /\ proc' = "down" /\ txn' = "free"
  /\ handler' = [a \in Agents |-> Idle]
  /\ Load(disk.project, disk.delivery)
  /\ UNCHANGED <<disk, git, repo, approved>>

\* duo_restart: the process stops for a new binary, between two steps only and
\* with nothing uncommitted; it saves what it has and the launcher resumes it.
RestartDuo(a) ==
  /\ At(a, "idle") /\ project.phase = "EXECUTE" /\ git.dirty = {}
  /\ Spend("crashes")
  /\ proc' = "down" /\ txn' = "free"
  /\ handler' = [b \in Agents |-> Idle]
  /\ disk' = [project |-> project, delivery |-> delivery]
  /\ UNCHANGED <<project, delivery, git, repo, approved>>

VerdictBinds(p, r) ==
  HasStep(p) /\ Current(p).verdict = [status |-> "passed", on |-> r]

\* recovery.Reconcile: a FAST step in INTEGRATE without a verdict on Austin's
\* clean head is under review again; then stale signatures go.
Reconcile(p) ==
  LET unproved == Fast(p, "INTEGRATE") /\ ~(HasTarget /\ VerdictBinds(p, Target))
      q == IF unproved
           THEN [WithCurrent(p, [Current(p) EXCEPT !.verdict = NoVerdict]) EXCEPT !.phase = "REVIEW"]
           ELSE p
  IN  WithoutStale(q)

Landings(p) == {i \in DOMAIN p.steps : Ticked(p.steps[i])}

Resume ==
  /\ proc \in {"down", "refused"}
  /\ LET p == Reconcile(project)
     IN  /\ Load(p, delivery)
         /\ disk' = [project |-> p, delivery |-> delivery]
         /\ git' = IF Landings(p) = {} THEN git
                   ELSE Synced(p.steps[CHOOSE i \in Landings(p) :
                                        \A j \in Landings(p) : j <= i].landed.of)
  /\ proc' = "resumed"
  /\ UNCHANGED <<repo, handler, txn, approved, budget>>

FinalHead(d) == IF d.head # NoRef THEN d.head ELSE Target

\* LandStepSnapshot: the landing's phase and queue, but not its signatures.
LandOffline(p, r) ==
  LET q == LandStep(p, r) IN [p EXCEPT !.phase = q.phase, !.steps = q.steps]

\* StepDeliveryIsCurrent: the applied record is the landing of this very step.
RecordIsCurrent(p, d) ==
  /\ HasStep(p) /\ d.head # NoRef
  /\ IF PolicyOf(p) = "GOAL"
     THEN BothReady(p) /\ \A a \in Agents : p.evidence[a] = d.head
     ELSE Current(p).head = d.head /\ VerdictBinds(p, d.head)

NeedsDelivery(p) == p.phase = "INTEGRATE" /\ (HasStep(p) \/ BothReady(p))

\* Mutant: a step in INTEGRATE is handed off whatever its gate says.
DeliverableAtAll(p, r) == p.phase = "INTEGRATE"

\* The gates DeliverAndPersistTo checks again before it lands anything.
Deliverable(p, r) ==
  /\ Fast(p, p.phase) => VerdictBinds(p, r)
  /\ ByVerdict(p) \/ (/\ p.phase = "INTEGRATE" /\ HasTarget /\ Target = r
                       /\ \A a \in Agents : p.ready[a] /\ p.evidence[a] = r)

BeginHandOff(d) ==
  IF Deliverable(project, FinalHead(d))
  THEN /\ Load(project, Pending(FinalHead(d)))
       /\ disk' = [project |-> project, delivery |-> delivery']
       /\ proc' = "landing"
  ELSE /\ Load(disk.project, disk.delivery)
       /\ proc' = "refused"
       /\ UNCHANGED disk

\* ReconcileDelivery: a landing that crashed before the cursor moved is
\* recorded; the record of an earlier step is dropped.
ReconcileDelivery ==
  /\ proc = "resumed"
  /\ LET applied == IsApplied(delivery) /\ project.phase = "INTEGRATE"
         current == applied /\ RecordIsCurrent(project, delivery)
         record == IF applied THEN NoDelivery ELSE delivery
     IN  \/ /\ applied /\ Finished(project)
            /\ proc' = "live"
            /\ UNCHANGED <<project, delivery, disk>>
         \/ /\ current
            /\ IF CanLandStep(project, delivery.head)
               THEN /\ Load(LandOffline(project, delivery.head), delivery)
                    /\ disk' = [project |-> project', delivery |-> delivery]
                    /\ proc' = "live"
               ELSE /\ proc' = "refused"
                    /\ UNCHANGED <<project, delivery, disk>>
         \/ /\ ~current /\ ~(applied /\ Finished(project)) /\ NeedsDelivery(project)
            /\ BeginHandOff(record)
         \/ /\ ~current /\ ~(applied /\ Finished(project)) /\ ~NeedsDelivery(project)
            /\ proc' = "live"
            /\ Load(project, record)
            /\ UNCHANGED disk
  /\ UNCHANGED <<git, repo, handler, txn, approved, budget>>

\* duo apply; a finished queue whose landing is recorded is only completed.
Apply ==
  /\ proc \in {"down", "refused"}
  /\ \/ /\ IsApplied(delivery) /\ Finished(project) /\ CanCompleteQueue(project)
        /\ Load(CompleteQueue(project), delivery)
        /\ disk' = [project |-> project', delivery |-> delivery]
        /\ UNCHANGED proc
     \/ /\ HasStep(project)
        /\ Deliverable(project, FinalHead(IF IsApplied(delivery) THEN NoDelivery ELSE delivery))
        /\ BeginHandOff(IF IsApplied(delivery) THEN NoDelivery ELSE delivery)
  /\ UNCHANGED <<git, repo, handler, txn, approved, budget>>

OfflineLand ==
  /\ proc = "landing"
  /\ LET h == delivery.head.of
     IN  \/ Holds(h) /\ proc' = "recording" /\ UNCHANGED repo
         \/ FastForward(h) /\ proc' = "recording"
         \/ Refused(h) /\ proc' = "down"
  /\ UNCHANGED <<project, delivery, disk, git, handler, txn, approved, budget>>

\* The applied record, the tick and, after the last step, DONE are one write.
\* A session with steps left goes on.
OfflineRecord ==
  /\ proc = "recording"
  /\ IF CanLandStep(project, delivery.head)
     THEN LET p == LandOffline(project, delivery.head)
          IN  /\ IF Finished(p) THEN Load(CompleteQueue(p), Applied(delivery.head))
                 ELSE Load(p, Applied(delivery.head))
              /\ disk' = [project |-> project', delivery |-> delivery']
              /\ proc' \in IF Finished(p) THEN {"down"} ELSE {"live", "down"}
     ELSE /\ proc' = "refused"
          /\ UNCHANGED <<project, delivery, disk>>
  /\ UNCHANGED <<git, repo, handler, txn, approved, budget>>

----------------------------------------------------------------------------
Call(a) ==
  \/ SubmitPlan(a) \/ SubmitQueue(a) \/ BeginSign(a) \/ RetractSignature(a)
  \/ EnterDelivery(a) \/ RestartDuo(a)

Proceed(a) ==
  \/ RecordReady(a, "sign") \/ RecordReady(a, "submit") \/ SignatureGate(a) \/ MergeTony(a)
  \/ CheckHead(a, "verdict") \/ CheckHead(a, "claims") \/ Land(a) \/ MarkPending(a)
  \/ RecordApplied(a) \/ TickStep(a) \/ SyncTony(a) \/ FinishQueue(a)

FastStep ==
  BeginSubmit \/ WithdrawSubmission \/ BeginVerify \/ RecordVerdict("passed") \/ RecordVerdict("issue")

Recovery == Resume \/ ReconcileDelivery \/ Apply \/ OfflineLand \/ OfflineRecord

Next ==
  \/ \E a \in Agents : Call(a) \/ Proceed(a) \/ Commit(a) \/ Edit(a)
  \/ FastStep \/ ReopenSession \/ ToggleRepo \/ Crash \/ Recovery

Spec == Init /\ [][Next]_vars

----------------------------------------------------------------------------
(***************************************************************************)
(* What is checked.                                                        *)
(***************************************************************************)
LandedHeads(p) == [i \in 1 .. Cursor(p) - 1 |-> p.steps[i].landed.of]

Promise == INSTANCE StepHandoff WITH
  queue <- Len(disk.project.steps),
  landed <- LandedHeads(disk.project),
  branch <- repo.head,
  done <- disk.project.phase = "DONE"

\* The handlers, the transaction, a crash at any write and the offline
\* hand-off together keep the promise of a STEP session.
ImplementsStepHandoff == Promise!StepHandoffSpec

HandlerState ==
  [pc : {"idle", "sign", "submit", "passed", "issue", "gate", "merge", "deliver", "verdict",
         "claims", "land", "mark", "record", "tick", "sync", "finish"},
   ref : Ref, claims : [Agents -> Ref]]

DeliveryRecord == [status : {"none", "pending", "applied"}, head : Ref]

TypeOK ==
  /\ project \in StepState /\ disk.project \in StepState
  /\ delivery \in DeliveryRecord /\ disk.delivery \in DeliveryRecord
  /\ git \in [head : [Agents -> Nat], dirty : SUBSET Agents, merging : BOOLEAN,
              since : Int, last : Nat]
  /\ repo \in [head : Nat, blocked : BOOLEAN]
  /\ handler \in [Agents -> HandlerState]
  /\ txn \in Agents \cup {"free"}
  /\ proc \in {"live", "down", "resumed", "landing", "recording", "refused"}
  /\ approved \subseteq Nat \X Nat
  /\ budget \in Setup

\* A step on record as landed, live or on disk, was approved as this very step
\* of the queue, in order, and the user's branch holds its commit.
LandedWasApproved ==
  TypeOK /\ \A p \in {project, disk.project} : \A i \in Landings(p) :
    /\ i < Cursor(p)
    /\ p.steps[i].landed.of <= repo.head
    /\ <<i, p.steps[i].landed.of>> \in approved

\* SyncTonyTo would move Tony's worktree onto the step that landed last.
LastLanded(p) == p.steps[Cursor(p) - 1].landed.of

LeftBehind(g, p) ==
  /\ Cursor(p) > 1
  /\ "Tony" \notin g.dirty /\ g.since # Never
  /\ g.since <= LastLanded(p) /\ g.head["Tony"] # LastLanded(p)

SyncIsDue == \E a \in Agents : handler[a].pc = "sync"

\* Who may be left with Tony behind: the call that landed, which has still to bring him
\* along, and a process that stopped.  And two corners in which the code leaves him: a step
\* that the resume itself records as landed, after it has brought him along, and a landing
\* that is not saved.
LandedByResume == proc \in {"resumed", "recording"} /\ Cursor(project') > Cursor(project)
LandingUnsaved == \E a \in Agents : handler[a].pc = "tick" /\ handler'[a].pc = "idle"
MayLeaveBehind == \/ SyncIsDue' \/ proc' \notin {"live", "resumed"}
                  \/ LeftBehind(git, project) /\ ~SyncIsDue /\ (proc' = proc \/ proc' = "live")
                  \/ LandedByResume \/ LandingUnsaved

\* Between commits, Tony's worktree moves only onto the step that landed last: he is never
\* handed Austin's work in flight as if the user had received it.  And a landing does not
\* leave him behind: no call that landed returns, and no resume after a crash goes on,
\* with Tony on an older step.
FollowsLanding ==
  \/ git'.last # git.last
  \/ /\ git'.head["Tony"] # git.head["Tony"] =>
          Cursor(project') > 1 /\ git'.head["Tony"] = LastLanded(project')
     /\ LeftBehind(git', project') => MayLeaveBehind
TonyFollowsLandings == [][FollowsLanding]_vars

\* The agents of a session that goes on do not work on different steps: Tony has been
\* brought along, or a call is about to.
TonyIsCurrent == proc = "live" /\ LeftBehind(git, project) => SyncIsDue

\* What resume hands off, and may fail on, is a step both agents approved:
\* one that still waits for their signatures is resumed with its agents.
RefusedWasApproved ==
  proc = "refused" => ByVerdict(project) \/ BothReady(project)
=============================================================================
