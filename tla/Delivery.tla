------------------------------ MODULE Delivery ------------------------------
(***************************************************************************)
(* How an artifact the two agents agreed on reaches the user's repository: *)
(* the coordinator's status and verification handlers, the delivery        *)
(* transaction, the session file it checkpoints to, the agents' worktrees, *)
(* the user's branch, and the resume path that picks up after a crash.     *)
(*                                                                         *)
(* Austin's, Tony's and the human's calls are served by goroutines of      *)
(* their own and interleave; a handler is a program counter that moves     *)
(* from one lock acquisition, disk write or Git command to the next.       *)
(* Commits are numbered in the order they are made; Austin's branch only   *)
(* grows, so one of his heads contains another iff its number is larger.   *)
(***************************************************************************)
EXTENDS Project

(***************************************************************************)
(* A setup is what a session starts from, which faults may happen in it,   *)
(* and the bounds.  Init chooses one of Setups, so that a run can check    *)
(* several of them.                                                        *)
(***************************************************************************)
CONSTANT Setups

Setup ==
  [mode : Modes,        \* the mode of the new session
   tests : BOOLEAN,     \* is a test command configured?
   commits : Nat,       \* bound on the commits the agents make
   plans : Nat,         \* bound on the plan versions
   crashes : Nat,       \* bound on crashes of the Duo process
   lost : Nat,          \* bound on writes of the session file that fail
   switches : BOOLEAN,  \* does the human switch the mode?
   rounds : Nat,        \* bound on rounds (a task submitted after DONE starts one)
   dirty : BOOLEAN,     \* do agents leave uncommitted changes?
   merge : BOOLEAN,     \* do merges into Austin's branch stay open (conflicts)?
   block : BOOLEAN]     \* does the user leave the repository unfit for delivery?

ASSUME DeliveryAssumption == Setups \subseteq Setup

VARIABLES
  project,     \* the live domain state (coordinator.project)
  delivery,    \* the live delivery record (coordinator.delivery)
  disk,        \* state.json: the two of them as last saved
  git,         \* the agents' worktrees
  repo,        \* the user's branch: its head, and whether it can be moved
  handler,     \* one call in progress per agent and for the human
  txn,         \* deliveryTxnMu: the thread that holds it, or "free"
  proc,        \* the Duo process
  approved,    \* history: the heads both agents (FAST: Tony) have approved
  gated,       \* history: the heads the final test gate has accepted
  budget       \* the setup, its bounds reduced to what is left of them

vars == <<project, delivery, disk, git, repo, handler, txn, proc,
          approved, gated, budget>>

Threads == Agents \cup {"Human"}

NoDelivery == [status |-> "none", head |-> NoRef]
Pending(r) == [status |-> "pending", head |-> r]
Applied(r) == [status |-> "applied", head |-> r]
DeliveryRecord == [status : {"none", "pending", "applied"}, head : Ref]
IsApplied(d) == d.status = "applied"

NoClaims == [a \in Agents |-> NoRef]
Idle == [pc |-> "idle", stale |-> {}, ref |-> NoRef, claims |-> NoClaims]

\* Who holds deliveryTxnMu is inside one of these.
InTransaction == {"settle", "check", "land", "resolve", "record", "finish", "mark"}
PCs == InTransaction \cup
       {"idle", "revoke", "evidence", "sign", "gate", "merge", "deliver",
        "target", "fastgate", "request", "vgate", "pass", "issue",
        "reopen", "clear"}

Init ==
  /\ budget \in Setups
  /\ project = NewState(budget.mode)
  /\ delivery = NoDelivery
  /\ disk = [project |-> NewState(budget.mode), delivery |-> NoDelivery]
  /\ git = [head |-> [a \in Agents |-> 0], dirty |-> {}, merging |-> FALSE,
            merged |-> TRUE, last |-> 0]
  /\ repo = [head |-> 0, blocked |-> FALSE]
  /\ handler = [t \in Threads |-> Idle]
  /\ txn = "free"
  /\ proc = "live"
  /\ approved = {}
  /\ gated = {}

----------------------------------------------------------------------------
(***************************************************************************)
(* Handlers.                                                               *)
(***************************************************************************)
At(t, pc) == proc = "live" /\ handler[t].pc = pc
Goto(t, pc) == handler' = [handler EXCEPT ![t].pc = pc]
GotoWith(t, pc, ref) == handler' = [handler EXCEPT ![t] = [@ EXCEPT !.pc = pc, !.ref = ref]]
Return(t) == handler' = [handler EXCEPT ![t] = Idle]

Spend(field) == budget[field] > 0 /\ budget' = [budget EXCEPT ![field] = @ - 1]

(***************************************************************************)
(* Coordinator.persist, the hook of every domain mutation: it writes the   *)
(* live state, and a failed write is only logged.                          *)
(***************************************************************************)
HookSave(p, d) ==
  \/ disk' = [project |-> p, delivery |-> d] /\ UNCHANGED budget
  \/ Spend("lost") /\ UNCHANGED disk

Mutate(p) == project' = p /\ HookSave(p, delivery)

\* Mutant: the best-effort hook where the strict checkpoint belongs.
SavedAtBest(p, d) == HookSave(p, d)

(***************************************************************************)
(* persistStrict: the caller learns whether the checkpoint is on disk.     *)
(***************************************************************************)
Saved(p, d) == disk' = [project |-> p, delivery |-> d] /\ UNCHANGED budget
SaveFails == Spend("lost") /\ UNCHANGED disk

\* SetDelivery: applied is monotonic for one head.
WithDelivery(d) ==
  IF IsApplied(delivery) /\ delivery.head = d.head /\ ~IsApplied(d)
  THEN delivery ELSE d

(***************************************************************************)
(* recovery.ExpectedEvidence: what a signature of a phase must name.  Only *)
(* a clean worktree can be named; no other phase can be signed.            *)
(***************************************************************************)
Reviewed(phase, a) ==
  CASE phase = "EXECUTE" -> a
    [] phase = "REVIEW" -> Peer(a)
    [] OTHER -> "Austin"

HasEvidence(phase, a) ==
  \/ phase = "PLAN"
  \/ phase \in {"EXECUTE", "REVIEW", "INTEGRATE"} /\ Reviewed(phase, a) \notin git.dirty

Evidence(phase, a, version) ==
  IF phase = "PLAN" THEN PlanRef(version) ELSE HeadRef(git.head[Reviewed(phase, a)])

Stale(p, a) ==
  /\ p.ready[a]
  /\ ~(HasEvidence(p.phase, a) /\ Evidence(p.phase, a, p.version) = p.evidence[a])

\* recovery.FastVerificationTarget
HasTarget == "Austin" \notin git.dirty
Target == HeadRef(git.head["Austin"])

\* The artifact each agent's approval names, as deliverFinal reads it.
Claims(p) ==
  IF p.mode = "GOAL" THEN p.evidence
  ELSE [a \in Agents |-> IF p.verdict.status = "passed" THEN p.verdict.on ELSE NoRef]

----------------------------------------------------------------------------
(***************************************************************************)
(* duo_set_plan                                                            *)
(***************************************************************************)
SubmitPlan(a) ==
  /\ At(a, "idle") /\ CanSetPlan(project)
  /\ project.version < budget.plans
  /\ Mutate(SetPlan(project))
  /\ UNCHANGED <<delivery, git, repo, handler, txn, proc, approved, gated>>

(***************************************************************************)
(* handleSetStatus, ready = true.  It looks for stale signatures in one    *)
(* snapshot, revokes them one by one, takes the evidence in a second       *)
(* snapshot, and only then asks the domain state to record it.             *)
(***************************************************************************)
BeginSign(a) ==
  /\ At(a, "idle") /\ project.mode = "GOAL" /\ project.phase # "DONE"
  /\ LET stale == {s \in Agents : Stale(project, s)}
     IN  handler' = [handler EXCEPT
           ![a] = [Idle EXCEPT !.pc = IF stale = {} THEN "evidence" ELSE "revoke",
                               !.stale = stale]]
  /\ UNCHANGED <<project, delivery, disk, git, repo, txn, proc, approved, gated, budget>>

\* Austin's signature is looked at before Tony's.
RevokeStale(a) ==
  /\ At(a, "revoke")
  /\ LET signer == IF "Austin" \in handler[a].stale THEN "Austin" ELSE "Tony"
         rest == handler[a].stale \ {signer}
     IN  /\ Mutate(RevokeReady(project, signer))
         /\ handler' = [handler EXCEPT ![a] =
              [@ EXCEPT !.pc = IF rest = {} THEN "evidence" ELSE "revoke", !.stale = rest]]
  /\ UNCHANGED <<delivery, git, repo, txn, proc, approved, gated>>

TakeEvidence(a) ==
  /\ At(a, "evidence")
  /\ IF HasEvidence(project.phase, a)
     THEN GotoWith(a, "sign", Evidence(project.phase, a, project.version))
     ELSE Return(a)
  /\ UNCHANGED <<project, delivery, disk, git, repo, txn, proc, approved, gated, budget>>

\* What follows State.SetReady in handleSetStatus: the final approval goes
\* to the test gate and the delivery, the edge to INTEGRATE to the merge.
AfterSign(a, e) ==
  CASE ReadyForDelivery(project, a, TRUE, e) /\ budget.tests -> Goto(a, "gate")
    [] ReadyForDelivery(project, a, TRUE, e) /\ ~budget.tests -> Goto(a, "deliver")
    [] /\ project.phase # "INTEGRATE"
       /\ SetReady(project, a, TRUE, e).phase = "INTEGRATE" -> Goto(a, "merge")
    [] OTHER -> Return(a)

RecordSignature(a) ==
  /\ At(a, "sign")
  /\ LET e == handler[a].ref
     IN  IF CanSetReady(project, a, TRUE, e)
         THEN /\ Mutate(SetReady(project, a, TRUE, e))
              /\ approved' = approved \cup Approvals(project')
              /\ AfterSign(a, e)
         ELSE /\ Return(a)
              /\ UNCHANGED <<project, disk, approved, budget>>
  /\ UNCHANGED <<delivery, git, repo, txn, proc, gated>>

\* ready = false: a signature withdrawn, or Austin's request for a verdict.
Withdraw(a) ==
  /\ At(a, "idle") /\ project.phase # "DONE"
  /\ CanSetReady(project, a, FALSE, NoRef)
  /\ SetReady(project, a, FALSE, NoRef) # project
  /\ Mutate(SetReady(project, a, FALSE, NoRef))
  /\ UNCHANGED <<delivery, git, repo, handler, txn, proc, approved, gated>>

\* runTestGate on the final approval: a failure takes the signature back.
RunGate(a) ==
  /\ At(a, "gate")
  /\ \/ /\ gated' = gated \cup {Target}
        /\ Goto(a, "deliver")
        /\ UNCHANGED <<project, disk, budget>>
     \/ /\ Mutate(RevokeReady(project, a))
        /\ Return(a)
        /\ UNCHANGED gated
  /\ UNCHANGED <<delivery, git, repo, txn, proc, approved>>

(***************************************************************************)
(* beginIntegration: git merge --no-ff of Tony's branch, in Austin's       *)
(* worktree.  A dirty worktree refuses it, a merged branch leaves the head *)
(* where it is, a conflict leaves the merge open for Austin to resolve.    *)
(***************************************************************************)
MergeTony(a) ==
  /\ At(a, "merge")
  /\ \/ /\ git.dirty # {}
        /\ UNCHANGED <<git, disk, budget>>
     \/ /\ git.dirty = {} /\ git.merged
        /\ HookSave(project, delivery)
        /\ UNCHANGED git
     \/ /\ git.dirty = {} /\ ~git.merged
        /\ git' = [git EXCEPT !.head["Austin"] = git.last + 1,
                              !.last = git.last + 1, !.merged = TRUE]
        /\ HookSave(project, delivery)
     \/ /\ git.dirty = {} /\ ~git.merged /\ budget.merge
        /\ git' = [git EXCEPT !.merging = TRUE, !.dirty = {"Austin"}]
        /\ HookSave(project, delivery)
  /\ Return(a)
  /\ UNCHANGED <<project, delivery, repo, txn, proc, approved, gated>>

----------------------------------------------------------------------------
(***************************************************************************)
(* FAST: Austin's duo_set_status ready = true, Tony's duo_set_verification.*)
(* A finished round is reopened when Austin shows a head it did not        *)
(* deliver (reopenFastRoundForNewWork).                                    *)
(***************************************************************************)
BeginRequest ==
  LET delivered == project.verdict.on
  IN  /\ At("Austin", "idle") /\ project.mode = "FAST"
      /\ \/ /\ project.phase # "DONE"
            /\ Goto("Austin", "target")
            /\ UNCHANGED <<delivery, budget>>
         \/ /\ project.phase = "DONE" /\ Spend("rounds")
            /\ delivered # NoRef /\ HasTarget /\ Target # delivered
            /\ delivery' = NoDelivery
            /\ Goto("Austin", "reopen")
      /\ UNCHANGED <<project, disk, git, repo, txn, proc, approved, gated>>

ChooseTarget ==
  /\ At("Austin", "target")
  /\ \/ /\ project.phase = "VERIFY"
        /\ GotoWith("Austin", "request", project.verdict.on)
     \/ /\ project.phase # "VERIFY" /\ HasTarget
        /\ GotoWith("Austin", IF budget.tests THEN "fastgate" ELSE "request", Target)
     \/ /\ project.phase # "VERIFY" /\ ~HasTarget
        /\ Return("Austin")
  /\ UNCHANGED <<project, delivery, disk, git, repo, txn, proc, approved, gated, budget>>

GateRequest ==
  /\ At("Austin", "fastgate")
  /\ Goto("Austin", "request") \/ Return("Austin")
  /\ UNCHANGED <<project, delivery, disk, git, repo, txn, proc, approved, gated, budget>>

RecordRequest ==
  /\ At("Austin", "request")
  /\ LET e == handler["Austin"].ref
     IN  IF CanSetReady(project, "Austin", TRUE, e)
         THEN /\ Mutate(SetReady(project, "Austin", TRUE, e))
              /\ approved' = approved \cup Approvals(project')
         ELSE UNCHANGED <<project, disk, approved, budget>>
  /\ Return("Austin")
  /\ UNCHANGED <<delivery, git, repo, txn, proc, gated>>

\* handleSetVerification: the head under verification must still be Austin's.
BeginVerify ==
  /\ At("Tony", "idle") /\ project.mode = "FAST" /\ project.phase = "VERIFY"
  /\ \/ /\ HasTarget /\ Target = project.verdict.on
        /\ \E next \in {IF budget.tests THEN "vgate" ELSE "pass", "issue"} :
             GotoWith("Tony", next, Target)
        /\ UNCHANGED <<project, disk, budget>>
     \/ /\ ~(HasTarget /\ Target = project.verdict.on)
        /\ Mutate(RevokeReady(project, "Austin"))
        /\ UNCHANGED handler
  /\ UNCHANGED <<delivery, git, repo, txn, proc, approved, gated>>

GateVerdict ==
  /\ At("Tony", "vgate")
  /\ \/ /\ gated' = gated \cup {Target}
        /\ Goto("Tony", "pass")
     \/ /\ Return("Tony")
        /\ UNCHANGED gated
  /\ UNCHANGED <<project, delivery, disk, git, repo, txn, proc, approved, budget>>

RecordVerdict(pc) ==
  LET result == IF pc = "pass" THEN "passed" ELSE "issue"
  IN  /\ At("Tony", pc)
      /\ IF CanSetVerification(project, result, handler["Tony"].ref)
         THEN /\ Mutate(SetVerification(project, result))
              /\ approved' = approved \cup Approvals(project')
              /\ IF pc = "pass" THEN Goto("Tony", "deliver") ELSE Return("Tony")
         ELSE /\ Return("Tony")
              /\ UNCHANGED <<project, disk, approved, budget>>
      /\ UNCHANGED <<delivery, git, repo, txn, proc, gated>>

----------------------------------------------------------------------------
(***************************************************************************)
(* deliverFinal: the delivery transaction, under deliveryTxnMu.            *)
(***************************************************************************)
GateOpen(p) ==
  IF p.mode = "GOAL" THEN p.phase = "INTEGRATE" /\ BothReady(p) ELSE p.phase = "VERIFY"

\* The state is read afresh once the lock is held: the round may have been
\* completed, or the artifact applied, while this thread waited.
EnterDelivery(t) ==
  /\ At(t, "deliver") /\ txn = "free"
  /\ LET applied == IsApplied(delivery)
         working == project.phase \in {"INTEGRATE", "VERIFY"}
     IN  \/ /\ ~working \/ (~applied /\ ~GateOpen(project))
            /\ Return(t)
            /\ UNCHANGED txn
         \/ /\ working /\ applied
            /\ Goto(t, "settle")
            /\ txn' = t
         \/ /\ ~applied /\ GateOpen(project)
            /\ handler' = [handler EXCEPT ![t] =
                              [@ EXCEPT !.pc = "check", !.claims = Claims(project)]]
            /\ txn' = t
  /\ UNCHANGED <<project, delivery, disk, git, repo, proc, approved, gated, budget>>

Leave(t) == Return(t) /\ txn' = "free"

\* An applied record stands for a finished hand-off: only DONE is missing.
SettleApplied(t) ==
  /\ At(t, "settle")
  /\ IF CanComplete(project)
     THEN Mutate(Complete(project))
     ELSE UNCHANGED <<project, disk, budget>>
  /\ Leave(t)
  /\ UNCHANGED <<delivery, git, repo, proc, approved, gated>>

\* Mutant: one agent's approval of the head is taken for both.
AgreedByOne(t) == \E a \in Agents : handler[t].claims[a] = Target

\* Mutant: the approvals are compared with each other, not with the head.
AgreedTogether(t) == handler[t].claims["Austin"] = handler[t].claims["Tony"]

\* Every approval must still name the head that is about to be delivered:
\* the first one that does not is revoked, otherwise the pending checkpoint
\* is written, and nothing is touched unless that write succeeds.
Agreed(t) == \A a \in Agents : handler[t].claims[a] = Target

CheckApprovals(t) ==
  /\ At(t, "check")
  /\ LET signer == IF handler[t].claims["Austin"] # Target THEN "Austin" ELSE "Tony"
     IN  \/ /\ ~Agreed(t)
            /\ Mutate(RevokeReady(project, signer))
            /\ GotoWith(t, "mark", NoRef)
            /\ UNCHANGED <<delivery, txn>>
         \/ /\ Agreed(t)
            /\ delivery' = WithDelivery(Pending(Target))
            /\ \/ Saved(project, delivery') /\ GotoWith(t, "land", Target) /\ UNCHANGED txn
               \/ SaveFails /\ Leave(t)
            /\ UNCHANGED project
  /\ UNCHANGED <<git, repo, proc, approved, gated>>

\* Mutant: the arguments of git merge-base --is-ancestor swapped.
ContainedSwapped(h) == repo.head <= h

\* delivery.Manager.Deliver on h: a no-op when the user's branch contains it,
\* a fast-forward when the repository is fit for one, else a refusal.
Contained(h) == h <= repo.head

FastForward(h) == ~Contained(h) /\ ~repo.blocked /\ repo' = [repo EXCEPT !.head = h]
Refused(h) == ~Contained(h) /\ repo.blocked

\* Mutant: nothing is recorded when the branch holds the artifact already.
LandUnrecorded(t) ==
  /\ At(t, "land")
  /\ LET h == handler[t].ref.of
     IN  \/ Contained(h) /\ Goto(t, "finish") /\ UNCHANGED repo
         \/ FastForward(h) /\ Goto(t, "resolve")
         \/ Refused(h) /\ Goto(t, "mark") /\ UNCHANGED repo
  /\ UNCHANGED <<project, delivery, disk, git, txn, proc, approved, gated, budget>>

Land(t) ==
  /\ At(t, "land")
  /\ LET h == handler[t].ref.of
     IN  \/ Contained(h) /\ Goto(t, "resolve") /\ UNCHANGED repo
         \/ FastForward(h) /\ Goto(t, "resolve")
         \/ Refused(h) /\ Goto(t, "mark") /\ UNCHANGED repo
  /\ UNCHANGED <<project, delivery, disk, git, txn, proc, approved, gated, budget>>

\* clearIntegrationConflict saves once more before anything is called applied.
ResolveConflict(t) ==
  /\ At(t, "resolve")
  /\ HookSave(project, delivery)
  /\ Goto(t, "record")
  /\ UNCHANGED <<project, delivery, git, repo, txn, proc, approved, gated>>

RecordApplied(t) ==
  /\ At(t, "record")
  /\ delivery' = Applied(handler[t].ref)
  /\ \/ Saved(project, delivery') /\ Goto(t, "finish") /\ UNCHANGED txn
     \/ SaveFails /\ Leave(t)
  /\ UNCHANGED <<project, git, repo, proc, approved, gated>>

\* The DONE transition; a project that was changed meanwhile refuses it.
FinishRound(t) ==
  /\ At(t, "finish")
  /\ IF CanComplete(project)
     THEN Mutate(Complete(project)) /\ Leave(t)
     ELSE Goto(t, "mark") /\ UNCHANGED <<project, disk, txn, budget>>
  /\ UNCHANGED <<delivery, git, repo, proc, approved, gated>>

\* markDeliveryPending: a no-op when this very head is recorded as applied.
MarkPending(t) ==
  /\ At(t, "mark")
  /\ delivery' = WithDelivery(Pending(handler[t].ref))
  /\ IF IsApplied(delivery) /\ delivery.head = handler[t].ref
     THEN UNCHANGED <<disk, budget>>
     ELSE HookSave(project, delivery')
  /\ Leave(t)
  /\ UNCHANGED <<project, git, repo, proc, approved, gated>>

----------------------------------------------------------------------------
(***************************************************************************)
(* The human: a mode switch, and a task submitted after DONE.              *)
(***************************************************************************)
SwitchTo(target) ==
  LET p == SwitchMode(project, target)
      escalation == project.mode = "FAST" /\ target = "GOAL" /\ CanEscalate(project)
  IN  /\ At("Human", "idle") /\ target # project.mode
      /\ budget.switches /\ Mutate(p)
      /\ IF escalation \/ p.phase = "DONE" THEN UNCHANGED handler ELSE Goto("Human", "clear")
      /\ UNCHANGED <<delivery, git, repo, txn, proc, approved, gated>>

\* The delivery record of the round that was left behind is dropped.
ClearRound ==
  /\ At("Human", "clear")
  /\ delivery' = NoDelivery
  /\ HookSave(project, delivery')
  /\ Return("Human")
  /\ UNCHANGED <<project, git, repo, txn, proc, approved, gated>>

\* Mutant: the next round starts with the record of the last one.
SubmitTaskOver ==
  /\ At("Human", "idle") /\ project.phase = "DONE"
  /\ Spend("rounds")
  /\ Goto("Human", "reopen")
  /\ UNCHANGED <<project, delivery, disk, git, repo, txn, proc, approved, gated>>

SubmitTask ==
  /\ At("Human", "idle") /\ project.phase = "DONE"
  /\ Spend("rounds")
  /\ delivery' = NoDelivery
  /\ Goto("Human", "reopen")
  /\ UNCHANGED <<project, disk, git, repo, txn, proc, approved, gated>>

\* reopenFinishedSession, for the human's task and for Austin's new head.
ReopenRound(t) ==
  /\ At(t, "reopen")
  /\ IF CanReopen(project)
     THEN Mutate(Reopen(project))
     ELSE UNCHANGED <<project, disk, budget>>
  /\ IF t = "Austin" THEN Goto(t, "target") ELSE Return(t)
  /\ UNCHANGED <<delivery, git, repo, txn, proc, approved, gated>>

----------------------------------------------------------------------------
(***************************************************************************)
(* The worktrees and the user's repository move on their own.              *)
(***************************************************************************)
\* A commit leaves the worktree clean; it concludes a merge that was open.
Commit(a) ==
  LET new == git.last + 1
  IN  /\ new <= budget.commits
      /\ git' = [git EXCEPT !.head[a] = new, !.last = new, !.dirty = @ \ {a},
                   !.merging = git.merging /\ a # "Austin",
                   !.merged = a = "Austin" /\ (git.merged \/ git.merging)]
      /\ UNCHANGED <<project, delivery, disk, repo, handler, txn, proc,
                     approved, gated, budget>>

Edit(a) ==
  /\ budget.dirty /\ a \notin git.dirty
  /\ git' = [git EXCEPT !.dirty = @ \cup {a}]
  /\ UNCHANGED <<project, delivery, disk, repo, handler, txn, proc,
                 approved, gated, budget>>

\* Changes thrown away, and with them a merge that was open.
Discard(a) ==
  /\ a \in git.dirty
  /\ git' = [git EXCEPT !.dirty = @ \ {a}, !.merging = git.merging /\ a # "Austin"]
  /\ UNCHANGED <<project, delivery, disk, repo, handler, txn, proc,
                 approved, gated, budget>>

\* Austin merges Tony's branch himself and it stays open.
StartMerge ==
  /\ budget.merge /\ ~git.merging /\ ~git.merged /\ "Austin" \notin git.dirty
  /\ git' = [git EXCEPT !.merging = TRUE, !.dirty = @ \cup {"Austin"}]
  /\ UNCHANGED <<project, delivery, disk, repo, handler, txn, proc,
                 approved, gated, budget>>

\* Uncommitted changes, another branch or diverging commits of the user.
ToggleRepo ==
  /\ budget.block
  /\ repo' = [repo EXCEPT !.blocked = ~@]
  /\ UNCHANGED <<project, delivery, disk, git, handler, txn, proc,
                 approved, gated, budget>>

----------------------------------------------------------------------------
(***************************************************************************)
(* Crash and resume.  While no coordinator is live, project and delivery   *)
(* are the snapshot that the next command loads from disk.                 *)
(***************************************************************************)
Load(p, d) == project' = p /\ delivery' = d

Crash ==
  /\ proc \notin {"down", "refused"}
  /\ Spend("crashes")
  /\ Load(disk.project, disk.delivery)
  /\ handler' = [t \in Threads |-> Idle]
  /\ txn' = "free"
  /\ proc' = "down"
  /\ UNCHANGED <<disk, git, repo, approved, gated>>

(***************************************************************************)
(* recovery.Reconcile: an open merge, or Tony's work found inside Austin's *)
(* branch during REVIEW, is INTEGRATE; a passed verdict on another head    *)
(* goes back to RUNNING; signatures that no longer match are revoked.      *)
(***************************************************************************)
MergeLanded == git.merged /\ \A a \in Agents : git.head[a] # 0

RecoveredPhase(p) ==
  CASE git.merging -> "INTEGRATE"
    [] ~git.merging /\ p.phase = "REVIEW" /\ MergeLanded -> "INTEGRATE"
    [] OTHER -> p.phase

VerdictLost(p) ==
  /\ p.mode = "FAST" /\ p.phase = "VERIFY" /\ p.verdict.status = "passed"
  /\ ~(HasTarget /\ Target = p.verdict.on)

Reconcile(p) ==
  LET promoted == [p EXCEPT !.phase = RecoveredPhase(p)]
      checked == IF VerdictLost(promoted)
                 THEN [promoted EXCEPT !.phase = "RUNNING", !.verdict = NoVerdict]
                 ELSE promoted
  IN  [checked EXCEPT
         !.ready = [a \in Agents |-> checked.ready[a] /\ ~Stale(checked, a)],
         !.evidence = [a \in Agents |->
                         IF Stale(checked, a) THEN NoRef ELSE checked.evidence[a]]]

Restorable(p) == p.phase \in ValidPhases[p.mode]

\* startResume up to the reconciled checkpoint.
Resume ==
  /\ proc \in {"down", "refused"}
  /\ IF Restorable(Reconcile(project))
     THEN /\ Load(Reconcile(project), delivery)
          /\ disk' = [project |-> project', delivery |-> delivery]
          /\ proc' = "resumed"
     ELSE /\ proc' = "refused"
          /\ UNCHANGED <<project, delivery, disk>>
  /\ UNCHANGED <<git, repo, handler, txn, approved, gated, budget>>

\* session.ResolveFinalHead: a recorded head is trusted before Austin's branch.
FinalHead(d) == IF d.head # NoRef THEN d.head ELSE Target

NeedsDelivery(p, d) ==
  /\ ~IsApplied(d)
  /\ IF p.mode = "FAST" THEN p.phase = "VERIFY" /\ p.verdict.status = "passed"
     ELSE \/ p.phase = "INTEGRATE" /\ BothReady(p)
          \/ p.phase = "DONE" /\ d.head # NoRef

\* Mutant: approved is approved, whichever head the approvals name.
DeliverableAtAll(p, d) ==
  IF p.mode = "FAST" THEN p.verdict.status = "passed"
  ELSE p.phase \in {"INTEGRATE", "DONE"} /\ HasTarget /\ BothReady(p)

\* What DeliverAndPersist checks again before it lands anything.
Deliverable(p, d) ==
  IF p.mode = "FAST" THEN Passed(p, FinalHead(d))
  ELSE /\ p.phase \in {"INTEGRATE", "DONE"}
       /\ HasTarget /\ Target = FinalHead(d)
       /\ \A a \in Agents : p.ready[a] /\ p.evidence[a] = FinalHead(d)

CompletedIfWorking(p) == IF p.phase \in {"INTEGRATE", "VERIFY"} THEN Complete(p) ELSE p

\* The crash window between the applied checkpoint and DONE is closed.
CloseWindow ==
  /\ IsApplied(delivery) /\ project.phase \in {"INTEGRATE", "VERIFY"}
  /\ IF CanComplete(project)
     THEN /\ Load(Complete(project), delivery)
          /\ disk' = [project |-> project', delivery |-> delivery]
          /\ proc' = "down"
     ELSE /\ Load(disk.project, disk.delivery)
          /\ proc' = "refused"
          /\ UNCHANGED disk

\* The gates, then the pending checkpoint.
BeginHandOff ==
  IF Deliverable(project, delivery)
  THEN /\ Load(project, Pending(FinalHead(delivery)))
       /\ disk' = [project |-> project, delivery |-> delivery']
       /\ proc' = "landing"
  ELSE /\ Load(disk.project, disk.delivery)
       /\ proc' = "refused"
       /\ UNCHANGED disk

\* ReconcileDelivery, before any agent is started.
ReconcileDelivery ==
  /\ proc = "resumed"
  /\ \/ CloseWindow
     \/ /\ NeedsDelivery(project, delivery)
        /\ BeginHandOff
     \/ /\ ~NeedsDelivery(project, delivery)
        /\ ~(IsApplied(delivery) /\ project.phase \in {"INTEGRATE", "VERIFY"})
        /\ proc' = "live"
        /\ UNCHANGED <<project, delivery, disk>>
  /\ UNCHANGED <<git, repo, handler, txn, approved, gated, budget>>

\* duo apply: the same transaction on the file as it is, without Reconcile.
Apply ==
  /\ proc = "down"
  /\ \/ CloseWindow
     \/ /\ ~IsApplied(delivery) /\ Deliverable(project, delivery)
        /\ BeginHandOff
  /\ UNCHANGED <<git, repo, handler, txn, approved, gated, budget>>

OfflineLand ==
  /\ proc = "landing"
  /\ LET h == delivery.head.of
     IN  \/ Contained(h) /\ proc' = "recording" /\ UNCHANGED repo
         \/ FastForward(h) /\ proc' = "recording"
         \/ Refused(h) /\ proc' = "down" /\ UNCHANGED repo
  /\ UNCHANGED <<project, delivery, disk, git, handler, txn, approved, gated, budget>>

\* One write records the landing and DONE together.
OfflineRecord ==
  /\ proc = "recording"
  /\ Load(CompletedIfWorking(project), Applied(delivery.head))
  /\ disk' = [project |-> project', delivery |-> delivery']
  /\ proc' = "down"
  /\ UNCHANGED <<git, repo, handler, txn, approved, gated, budget>>

----------------------------------------------------------------------------
\* The steps of a call that has begun.
Proceed(a) ==
  \/ RevokeStale(a) \/ TakeEvidence(a) \/ RecordSignature(a) \/ RunGate(a) \/ MergeTony(a)
  \/ SettleApplied(a) \/ CheckApprovals(a) \/ Land(a)
  \/ ResolveConflict(a) \/ RecordApplied(a) \/ FinishRound(a) \/ MarkPending(a)

ProceedFast ==
  \/ ChooseTarget \/ GateRequest \/ RecordRequest
  \/ GateVerdict \/ RecordVerdict("pass") \/ RecordVerdict("issue")

ProceedRound == ClearRound \/ (\E t \in {"Human", "Austin"} : ReopenRound(t))

Environment ==
  \/ \E a \in Agents : Commit(a) \/ Edit(a) \/ Discard(a)
  \/ StartMerge \/ ToggleRepo

Recovery == Resume \/ ReconcileDelivery \/ Apply \/ OfflineLand \/ OfflineRecord

Next ==
  \/ \E a \in Agents :
       SubmitPlan(a) \/ BeginSign(a) \/ Withdraw(a) \/ EnterDelivery(a) \/ Proceed(a)
  \/ BeginRequest \/ BeginVerify \/ ProceedFast
  \/ (\E m \in Modes : SwitchTo(m)) \/ SubmitTask \/ ProceedRound
  \/ Environment
  \/ Crash \/ Recovery

Spec == Init /\ [][Next]_vars

(***************************************************************************)
(* A call that has begun is a running goroutine, so it goes on; the lock   *)
(* of the transaction is a sync.Mutex, which does not starve a waiter.     *)
(* Nothing obliges an agent, the human or the operator to act.             *)
(***************************************************************************)
FairSpec ==
  /\ Spec
  /\ \A a \in Agents : WF_vars(Proceed(a)) /\ SF_vars(EnterDelivery(a))
  /\ WF_vars(ProceedFast) /\ WF_vars(ProceedRound)

----------------------------------------------------------------------------
HandlerState == [pc : PCs, stale : SUBSET Agents, ref : Ref, claims : [Agents -> Ref]]

TypeOK ==
  /\ project \in ProjectState
  /\ delivery \in DeliveryRecord
  /\ disk \in [project : ProjectState, delivery : DeliveryRecord]
  /\ git \in [head : [Agents -> Nat], dirty : SUBSET Agents, merging : BOOLEAN,
              merged : BOOLEAN, last : Nat]
  /\ repo \in [head : Nat, blocked : BOOLEAN]
  /\ handler \in [Threads -> HandlerState]
  /\ txn \in Agents \cup {"free"}
  /\ proc \in {"live", "down", "resumed", "landing", "recording", "refused"}
  /\ approved \subseteq Ref
  /\ gated \subseteq Ref
  /\ budget \in Setup

(***************************************************************************)
(* The user's branch only ever holds the commit Duo started from or one    *)
(* the agents approved: deliverFinal checks a snapshot, writes a file, and *)
(* moves the branch, while signatures, commits, switches and crashes go on *)
(* around it; resume and apply trust a head they read from that file.      *)
(***************************************************************************)
LandedWasApproved == HeadRef(repo.head) \in approved \cup {HeadRef(0)}

(***************************************************************************)
(* An applied record is never a promise: whatever is live or on disk as    *)
(* applied is contained in the user's branch, so that the short-circuits   *)
(* that answer applied with DONE (deliverFinal, ReconcileDelivery) skip    *)
(* nothing that the record names.                                          *)
(***************************************************************************)
AppliedIsInRepo ==
  \A d \in {delivery, disk.delivery} : IsApplied(d) => d.head.of <= repo.head

(***************************************************************************)
(* DONE has a receipt: a live DONE session holds the applied record of its *)
(* round, except while a reopening is dropping that record.  Said of       *)
(* sessions of one round in one mode: a crash right after a new task or a  *)
(* switch dropped the record finds a DONE that has none.                   *)
(***************************************************************************)
DroppingRecord == \E t \in Threads : handler[t].pc \in {"reopen", "clear"}

DoneHasReceipt ==
  /\ budget.plans = 1 /\ ~budget.switches
  /\ proc = "live" /\ project.phase = "DONE" /\ ~DroppingRecord
  => IsApplied(delivery)

(***************************************************************************)
(* A receipt does not outlive its round: an applied record of the round    *)
(* before would make deliverFinal answer the next final approval with DONE *)
(* and deliver nothing.  (Only for a session that is GOAL throughout: an   *)
(* escalation of a FAST round whose artifact has just been recorded keeps  *)
(* the record, see DoneDelivered.)                                         *)
(***************************************************************************)
ReceiptIsOfThisRound ==
  /\ ~budget.switches /\ budget.mode = "GOAL"
  /\ proc = "live" /\ project.phase \notin {"INTEGRATE", "DONE"}
  => ~IsApplied(delivery)

(***************************************************************************)
(* The branch moves only behind a checkpoint, and in FAST behind the test  *)
(* gate: when a fast-forward happens, state.json already names this head   *)
(* as pending, which is what resume needs to tell a landed artifact from   *)
(* one that never was, and the gate has accepted it (coordinator.go:2197). *)
(* Said of sessions whose mode is not switched: a switch between the       *)
(* checkpoint and the fast-forward drops the record (coordinator.go:1130), *)
(* and one to GOAL takes a session past the gate.  In GOAL the signature   *)
(* is recorded before the gate runs, so that a resume lands without it.    *)
(***************************************************************************)
Prepared(head) ==
  ~budget.switches =>
    /\ disk.delivery = Pending(head)
    /\ budget.mode = "FAST" /\ budget.tests => head \in gated

CheckpointBeforeMove == [][repo'.head # repo.head => Prepared(HeadRef(repo'.head))]_vars

(***************************************************************************)
(* An approved artifact does not lie around in a live session: delivery    *)
(* completes, is recorded as pending for the user, or the approval is      *)
(* revoked, whichever call carried the last approval and whatever the      *)
(* other calls did meanwhile.  Checked without mode switches: ClearRound   *)
(* of a late switch takes the pending record of a later round.             *)
(***************************************************************************)
Unanswered ==
  /\ proc = "live" /\ project.phase \in {"INTEGRATE", "VERIFY"}
  /\ Approvals(project) # {}
  /\ delivery.status # "pending"

ApprovalIsAnswered == []<>~Unanswered

(***************************************************************************)
(* The protocol implements what Duo promises about the user's branch.      *)
(***************************************************************************)
H == INSTANCE Handoff WITH
       approved <- {r.of : r \in approved},
       branch <- repo.head,
       done <- project.phase = "DONE"

ImplementsHandoff == H!HandoffSpec

----------------------------------------------------------------------------
(***************************************************************************)
(* Why the three of them hold: an inductive invariant.  A head reaches     *)
(* approved when it is signed; everything that later lets it land (a live  *)
(* or saved approval, a thread's snapshot of the claims, the head a thread *)
(* or a resume is about to hand off) goes back to such a signature.        *)
(***************************************************************************)
Projects == {project, disk.project}
Records == {delivery, disk.delivery}

\* Two signatures are only ever kept where they authorise a delivery.
SignaturesMeetInIntegrate ==
  \A p \in Projects :
    p.mode = "GOAL" /\ BothReady(p) => p.phase \in {"INTEGRATE", "DONE"}

ApprovalsKnown ==
  /\ \A r \in approved : r.kind = "head"
  /\ \A p \in Projects : Approvals(p) \subseteq approved

NoneOrHead(r) == r = NoRef \/ r.kind = "head"

RecordsNameHeads ==
  /\ \A d \in Records : NoneOrHead(d.head)
  /\ \A t \in Threads :
       handler[t].pc \in {"land", "resolve", "record", "finish", "mark"}
         => NoneOrHead(handler[t].ref)

ClaimsKnown ==
  \A t \in Threads : handler[t].pc = "check" =>
    LET claim == handler[t].claims
    IN  claim["Austin"] = claim["Tony"] /\ claim["Austin"].kind = "head"
          => claim["Austin"] \in approved

LandingKnown ==
  /\ \A t \in Threads : handler[t].pc \in {"land", "resolve", "record"} => handler[t].ref \in approved
  /\ proc \in {"landing", "recording"} => delivery.head \in approved

LandedContained ==
  /\ \A t \in Threads : handler[t].pc \in {"resolve", "record"} => Contained(handler[t].ref.of)
  /\ proc = "recording" => Contained(delivery.head.of)

\* Past the landing, the branch holds an approved artifact.
Delivered == repo.head \in {r.of : r \in approved}

ReceiptsAreDeliveries ==
  /\ \A d \in Records : IsApplied(d) => Delivered
  /\ \A p \in Projects : p.phase = "DONE" => Delivered
  /\ \A t \in Threads : handler[t].pc \in {"settle", "resolve", "record", "finish"} => Delivered
  /\ proc = "recording" => Delivered

DeliveryInv ==
  /\ TypeOK
  /\ SignaturesMeetInIntegrate
  /\ ApprovalsKnown
  /\ RecordsNameHeads
  /\ ClaimsKnown
  /\ LandingKnown
  /\ LandedContained
  /\ ReceiptsAreDeliveries
  /\ LandedWasApproved
  /\ AppliedIsInRepo

----------------------------------------------------------------------------
(***************************************************************************)
(* What the documentation and the comments promise and the code does not   *)
(* keep.  Each is checked by a run that exhibits the disagreement.         *)
(***************************************************************************)

\* coordinator.go:2304 "never marks DONE unless the artifact actually landed
\* in the user's repo": in DONE, the head the approvals name is in the branch.
DoneDelivered ==
  proc = "live" /\ project.phase = "DONE" =>
    \A r \in Approvals(project) : Contained(r.of)

\* coordinator.go:2735: if the signed target changes before the second
\* signature arrives, the old one "is revoked instead of silently advancing".
AdvanceEvidence ==
  [][\A a \in Agents :
       /\ project.mode = "GOAL" /\ project.phase = "REVIEW"
       /\ project'.phase = "INTEGRATE" /\ proc = "live" /\ proc' = "live"
       /\ project.ready[a]
       => project.evidence[a] = HeadRef(git.head[Peer(a)])]_vars

\* coordinator.go:2484 "resume can prove the approval happened and re-run an
\* idempotent delivery": resume never ends in an error while the file on disk
\* holds an approval of the head Austin's clean worktree is at.
ApprovedIsResumable ==
  proc = "refused" => ~(HasTarget /\ Target \in Approvals(disk.project))

\* CHANGELOG.md:1139: the test command runs "before delivery in Goal mode".
GateBeforeLanding ==
  [][repo'.head # repo.head /\ budget.tests => HeadRef(repo'.head) \in gated]_vars

\* coordinator.go:2484: a crash after the checkpoint leaves the proof of the approval.
CheckpointInSwitches ==
  [][repo'.head # repo.head => disk.delivery = Pending(HeadRef(repo'.head))]_vars

\* recovery.go:6 "Recovery never moves a session backwards".
Rank == [PLAN |-> 1, EXECUTE |-> 2, REVIEW |-> 3, INTEGRATE |-> 4, DONE |-> 5]

RecoveryNeverRewinds ==
  [][proc # "resumed" /\ proc' = "resumed" /\ project.mode = "GOAL"
     => Rank[project'.phase] >= Rank[project.phase]]_vars
=============================================================================
