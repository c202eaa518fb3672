-------------------------------- MODULE Loop --------------------------------
(***************************************************************************)
(* A LOOP session: the inboxes through which the human, Duo and the two    *)
(* agents talk, Austin's consultations of Tony, his decision to finish,    *)
(* the scheduler that wakes the agents, the delivery of the finished work  *)
(* and the resume path.                                                    *)
(*                                                                         *)
(* Calls of the agents and of the human, the scheduler and the delivery    *)
(* run concurrently.  A call changes the domain state under its lock and   *)
(* then writes the session file before it answers; the delivery, which     *)
(* runs inside the handler of Austin's settled turn, moves write by write. *)
(***************************************************************************)
EXTENDS Integers, Sequences, SequencesExt, FiniteSets

CONSTANT Setups

Setup ==
  [events : Nat,       \* bound on the events of a session
   commits : Nat,      \* bound on Austin's commits
   crashes : Nat,      \* bound on crashes of the Duo process
   lost : Nat,         \* bound on writes of the session file that fail
   drops : Nat,        \* bound on the wakes that reach nobody
   pauses : Nat,       \* bound on the human's pauses
   turns : Nat,        \* bound on the turns of the agents
   limit : Nat,        \* the wake limit between two continuations
   \* what the agents and the human may do
   calls : SUBSET {"peer", "step", "wait", "timer", "consult", "single", "batch", "finish", "human"},
   block : BOOLEAN,    \* does the user leave the repository unfit for delivery?
   dirty : BOOLEAN,    \* does Austin leave uncommitted changes?
   late : BOOLEAN]     \* does the human interrupt a delivery that has begun?

ASSUME LoopAssumption == Setups \subseteq Setup

VARIABLES
  loop,        \* the live domain state
  delivery,    \* the live delivery record
  disk,        \* state.json: the two of them as last saved
  git,         \* Austin's worktree
  repo,        \* the user's branch
  agent,       \* which agents have a turn in progress, which have been prompted
  wake,        \* the scheduler (RunLoop)
  hold,        \* what keeps the scheduler silent
  txn,         \* the handler of Austin's settled turn
  proc,        \* the Duo process
  told,        \* history: the events whose sender got a positive answer
  read,        \* history: the events their receiver has acknowledged
  sent,        \* history: the wakes sent since the last continuation
  budget       \* the setup, its bounds reduced to what is left of them

vars == <<loop, delivery, disk, git, repo, agent, wake, hold, txn, proc,
          told, read, sent, budget>>

Agents == {"Austin", "Tony"}
Peer(a) == IF a = "Austin" THEN "Tony" ELSE "Austin"

Kinds == {"human", "peer", "question", "reply", "step", "timer"}

NoQuestion == [id |-> 0, reply |-> 0, open |-> FALSE]

NewLoop ==
  [phase |-> "RUNNING", started |-> FALSE, next |-> 0,
   inbox |-> [a \in Agents |-> <<>>], acked |-> [a \in Agents |-> 0],
   wait |-> [a \in Agents |-> "none"], timer |-> {},
   asked |-> NoQuestion, finishing |-> FALSE, wakes |-> 0]

NoDelivery == [status |-> "none", head |-> 0]
Pending(h) == [status |-> "pending", head |-> h]
Applied(h) == [status |-> "applied", head |-> h]
IsApplied(d) == d.status = "applied"

NoKey == <<"none", 0>>
NoAttempts == [a \in Agents |-> [key |-> NoKey, count |-> 0]]
NothingDue == [a \in Agents |-> NoKey]
MaxAttempts == 3

MayTry(count) == count < MaxAttempts

TxnIdle == [pc |-> "idle", head |-> 0]

Init ==
  /\ budget \in Setups
  /\ loop = NewLoop
  /\ delivery = NoDelivery
  /\ disk = [loop |-> NewLoop, delivery |-> NoDelivery]
  /\ git = [head |-> 0, dirty |-> FALSE]
  /\ repo = [head |-> 0, blocked |-> FALSE]
  /\ agent = [busy |-> {}, prompted |-> {}]
  /\ wake = [attempts |-> NoAttempts, due |-> NothingDue, held |-> FALSE]
  /\ hold = "no"
  /\ txn = TxnIdle
  /\ proc = "live"
  /\ told = {} /\ read = {} /\ sent = 0

----------------------------------------------------------------------------
(***************************************************************************)
(* The domain rules (project/loop.go).                                     *)
(***************************************************************************)
Event(l, kind) == [id |-> l.next + 1, kind |-> kind]

\* loopEventLocked: IDs are never reused, not even by a later round.
Queue(l, to, kind) ==
  [l EXCEPT !.next = @ + 1, !.inbox[to] = Append(@, Event(l, kind))]

Ids(events) == {e.id : e \in ToSet(events)}
HasKind(events, kind) == \E e \in ToSet(events) : e.kind = kind
Place(events, id) == CHOOSE i \in DOMAIN events : events[i].id = id

Working(l) == l.phase # "DONE"

LoopSend(l, from) == Queue(l, Peer(from), "peer")

\* LoopEvents: an acknowledgement removes its event, or the prefix that ends
\* with it; a repeated one changes nothing.
CanAck(l, a, id) == Working(l) /\ (id = l.acked[a] \/ id \in Ids(l.inbox[a]))

\* Mutant: only an acknowledgement of the reply itself ends the consultation.
LoopEventsExact(l, a, id, through) ==
  IF id = l.acked[a] THEN l
  ELSE LET i == Place(l.inbox[a], id)
           kept == IF through THEN SubSeq(l.inbox[a], i + 1, Len(l.inbox[a]))
                   ELSE RemoveAt(l.inbox[a], i)
       IN  [l EXCEPT !.inbox[a] = kept, !.acked[a] = id,
                     !.asked.open = @ /\ ~(a = "Austin" /\ l.asked.reply = id)]

LoopEvents(l, a, id, through) ==
  IF id = l.acked[a] THEN l
  ELSE LET i == Place(l.inbox[a], id)
           gone == IF through THEN SubSeq(l.inbox[a], 1, i) ELSE <<l.inbox[a][i]>>
           kept == IF through THEN SubSeq(l.inbox[a], i + 1, Len(l.inbox[a]))
                   ELSE RemoveAt(l.inbox[a], i)
       IN  [l EXCEPT !.inbox[a] = kept, !.acked[a] = id,
                     !.asked.open = @ /\ ~(a = "Austin" /\ l.asked.reply \in Ids(gone))]

CanWait(l, a) == Working(l) /\ l.inbox[a] = <<>>
LoopWait(l, a, timed) ==
  [l EXCEPT !.wait[a] = "intended", !.timer = IF timed THEN @ \cup {a} ELSE @ \ {a}]

\* LoopActivity: the turn boundary completes a finish and a wait; new work
\* cancels the wait.
LoopSettled(l, a) ==
  IF ~Working(l) THEN l
  ELSE [l EXCEPT !.phase = IF l.finishing /\ a = "Austin" THEN "INTEGRATE" ELSE @,
                 !.wait[a] = IF @ = "intended" THEN "waiting" ELSE @]

LoopResumed(l, a) ==
  IF Working(l) THEN [l EXCEPT !.wait[a] = "none", !.timer = @ \ {a}] ELSE l

LoopCanAct(l, a) == Working(l) /\ (a = "Austin" => ~l.asked.open /\ ~l.finishing)

CanAsk(l) == Working(l) /\ ~l.finishing /\ ~l.asked.open
LoopAsk(l) ==
  [Queue(l, "Tony", "question") EXCEPT
     !.asked = [id |-> l.next + 1, reply |-> 0, open |-> TRUE]]

CanReply(l) == Working(l) /\ l.asked.id # 0 /\ l.asked.reply = 0
LoopReply(l) == [Queue(l, "Austin", "reply") EXCEPT !.asked.reply = l.next + 1]

CanObserve(l) == Working(l) /\ ~l.finishing
LoopObserve(l) == Queue(l, "Tony", "step")

\* LoopTimers: the deadline is spent, the wait itself stays.
LoopTimers(l, a) == [Queue(l, a, "timer") EXCEPT !.timer = @ \ {a}]

CanFinish(l) ==
  Working(l) /\ ~l.asked.open /\ ~HasKind(l.inbox["Austin"], "human")
LoopFinish(l) == [l EXCEPT !.finishing = TRUE]

\* LoopHuman: input of the human supersedes a finish.
LoopHuman(l) ==
  LET q == Queue(Queue(l, "Austin", "human"), "Tony", "human")
  IN  [q EXCEPT !.finishing = FALSE, !.phase = IF @ = "INTEGRATE" THEN "RUNNING" ELSE @]

\* Mutant: an applied delivery is DONE, whatever happened meanwhile.
CanCompleteAnyway(l) == Working(l)

\* Complete and Reopen, in LOOP.
CanComplete(l) == l.phase = "INTEGRATE" /\ l.finishing
Complete(l) ==
  [l EXCEPT !.phase = "DONE", !.finishing = FALSE,
            !.wait = [a \in Agents |-> "none"], !.timer = {}]
ReopenLoop(l) == [NewLoop EXCEPT !.next = l.next]

----------------------------------------------------------------------------
(***************************************************************************)
(* The session file.                                                       *)
(***************************************************************************)
Live == proc = "live"
Spend(field) == budget[field] > 0 /\ budget' = [budget EXCEPT ![field] = @ - 1]

\* The hook of a domain mutation: a failed write is only logged.
HookSave(l, d) ==
  \/ disk' = [loop |-> l, delivery |-> d] /\ UNCHANGED budget
  \/ Spend("lost") /\ UNCHANGED disk

Saved(l, d) == disk' = [loop |-> l, delivery |-> d] /\ UNCHANGED budget
SaveFails == Spend("lost") /\ UNCHANGED disk

NewIds(l) == (loop.next + 1) .. l.next

\* Mutant: the answer does not wait for the file.
AnswerEarly(l, ids) ==
  /\ loop' = l /\ told' = told \cup ids
  /\ HookSave(l, delivery)

\* A call: the domain rule, then persistStrict; only what is on disk is
\* answered with success.
Answer(l, ids) ==
  /\ loop' = l
  /\ \/ Saved(l, delivery) /\ told' = told \cup ids
     \/ SaveFails /\ UNCHANGED told

Room(n) == loop.next + n <= budget.events
Busy(a) == a \in agent.busy
AustinIsServed == txn.pc = "idle"    \* one message of a connection at a time

\* An agent calls from inside a turn, over a connection that is not waiting
\* for an earlier call.
Calls(a) == Live /\ Busy(a) /\ (a = "Austin" => AustinIsServed)

CallOnly == UNCHANGED <<delivery, git, repo, agent, wake, hold, txn, proc, sent>>

----------------------------------------------------------------------------
(***************************************************************************)
(* The agents' calls.                                                      *)
(***************************************************************************)
Send(a) ==
  /\ Calls(a) /\ "peer" \in budget.calls /\ Working(loop) /\ Room(1)
  /\ LET l == LoopSend(loop, a) IN Answer(l, NewIds(l))
  /\ CallOnly /\ UNCHANGED read

Acknowledge(a) ==
  /\ Calls(a)
  /\ \E id \in (Ids(loop.inbox[a]) \cup {loop.acked[a]}) \ {0},
        through \in {t \in BOOLEAN : (IF t THEN "batch" ELSE "single") \in budget.calls} :
       /\ CanAck(loop, a, id)
       /\ LET l == LoopEvents(loop, a, id, through)
          IN  /\ Answer(l, {})
              /\ read' = IF id = loop.acked[a] THEN read
                         ELSE read \cup {i \in Ids(loop.inbox[a]) :
                                           IF through THEN i <= id ELSE i = id}
  /\ CallOnly

Wait(a) ==
  /\ Calls(a) /\ "wait" \in budget.calls /\ CanWait(loop, a) /\ loop.wait[a] = "none"
  /\ \E timed \in {t \in BOOLEAN : t => "timer" \in budget.calls} :
       Answer(LoopWait(loop, a, timed), {})
  /\ CallOnly /\ UNCHANGED read

Ask ==
  /\ Calls("Austin") /\ "consult" \in budget.calls /\ CanAsk(loop) /\ Room(1)
  /\ LET l == LoopAsk(loop) IN Answer(l, NewIds(l))
  /\ CallOnly /\ UNCHANGED read

Reply ==
  /\ Calls("Tony") /\ CanReply(loop) /\ Room(1)
  /\ LET l == LoopReply(loop) IN Answer(l, NewIds(l))
  /\ CallOnly /\ UNCHANGED read

Finish ==
  /\ Calls("Austin") /\ "finish" \in budget.calls /\ CanFinish(loop) /\ ~loop.finishing
  /\ Answer(LoopFinish(loop), {})
  /\ CallOnly /\ UNCHANGED read

(***************************************************************************)
(* What the adapters report.  A turn starts, a tool runs (its guard let it *)
(* pass) and a turn settles.                                               *)
(***************************************************************************)
Report(l) == loop' = l /\ IF l = loop THEN UNCHANGED <<disk, budget>> ELSE HookSave(l, delivery)

\* An idle wake is for one stretch of idleness: activity starts another.
Stirred(a) ==
  [wake EXCEPT !.attempts[a] =
     IF @.key[1] = "idle" THEN [key |-> NoKey, count |-> 0] ELSE @]

StartTurn(a) ==
  /\ Live /\ a \in agent.prompted /\ ~Busy(a) /\ (a = "Austin" => AustinIsServed)
  /\ budget.turns > 0
  /\ loop' = LoopResumed(loop, a)
  /\ LET b == [budget EXCEPT !.turns = @ - 1]
     IN  \/ /\ disk' = IF loop' = loop THEN disk ELSE [loop |-> loop', delivery |-> delivery]
            /\ budget' = b
         \/ /\ loop' # loop /\ b.lost > 0
            /\ budget' = [b EXCEPT !.lost = @ - 1] /\ UNCHANGED disk
  /\ agent' = [busy |-> agent.busy \cup {a}, prompted |-> agent.prompted \ {a}]
  /\ wake' = Stirred(a)
  /\ UNCHANGED <<delivery, git, repo, hold, txn, proc, told, read, sent>>

\* Austin's tools change his worktree; each tool that ends is observed.
Work ==
  /\ Calls("Austin") /\ LoopCanAct(loop, "Austin")
  /\ \/ /\ git.head < budget.commits
        /\ git' = [head |-> git.head + 1, dirty |-> FALSE]
     \/ /\ budget.dirty /\ ~git.dirty
        /\ git' = [git EXCEPT !.dirty = TRUE]
  /\ LET l == LoopResumed(loop, "Austin")
     IN  \/ /\ "step" \in budget.calls /\ CanObserve(l) /\ Room(1)
            /\ Report(LoopObserve(l))
         \/ /\ "step" \notin budget.calls \/ ~CanObserve(l)
            /\ Report(l)
  /\ UNCHANGED <<delivery, repo, agent, wake, hold, txn, proc, told, read, sent>>

\* Only a settled turn that completes a finish begins a delivery: the edge
\* from RUNNING to INTEGRATE.
Settle(a) ==
  /\ Live /\ Busy(a) /\ (a = "Austin" => AustinIsServed)
  /\ Report(LoopSettled(loop, a))
  /\ agent' = [agent EXCEPT !.busy = @ \ {a}]
  /\ txn' = IF loop.phase = "RUNNING" /\ loop'.phase = "INTEGRATE"
            THEN [pc |-> "settled", head |-> 0] ELSE txn
  /\ UNCHANGED <<delivery, git, repo, wake, hold, proc, told, read, sent>>

----------------------------------------------------------------------------
(***************************************************************************)
(* The human: a task, a pause, a continuation.                             *)
(***************************************************************************)
Prompt(a) == agent' = [agent EXCEPT !.prompted = @ \cup {a}]

\* SubmitUserTask for a round in progress: an event for both agents.
Interrupt ==
  /\ Live /\ hold # "paused" /\ loop.started /\ Working(loop) /\ Room(2)
  /\ "human" \in budget.calls
  /\ txn.pc # "idle" => budget.late
  /\ LET l == LoopHuman(loop) IN Answer(l, NewIds(l))
  /\ hold' = "no"
  /\ UNCHANGED <<delivery, git, repo, agent, wake, txn, proc, read, sent>>

\* SubmitUserTask for a new round: the records of the finished one are dropped,
\* and with them the count of its wakes.
NewTask ==
  /\ Live /\ hold # "paused" /\ (~loop.started \/ ~Working(loop)) /\ Room(2)
  /\ LET fresh == IF Working(loop) THEN loop ELSE ReopenLoop(loop)
         l == LoopHuman([fresh EXCEPT !.started = TRUE])
         d == IF Working(loop) THEN delivery ELSE NoDelivery
     IN  /\ loop' = l /\ delivery' = d
         /\ IF Working(loop) THEN UNCHANGED <<read, sent>> ELSE read' = {} /\ sent' = 0
         /\ \/ Saved(l, d) /\ Prompt("Austin") /\ told' = (loop.next + 1) .. l.next
            \/ SaveFails /\ UNCHANGED agent /\ told' = {}
  /\ hold' = "no"
  /\ UNCHANGED <<git, repo, wake, txn, proc>>

Pause ==
  /\ Live /\ hold = "no" /\ Spend("pauses")
  /\ hold' = "paused"
  /\ UNCHANGED <<loop, delivery, disk, git, repo, agent, wake, txn, proc, told, read, sent>>

Resumable ==
  {a \in Agents : /\ loop.wait[a] # "waiting"
                  /\ ~(a = "Austin" /\ loop.asked.open /\ loop.asked.reply = 0)}

\* ContinuePause grants a new wake budget and prompts the agents, except
\* those that wait for a reply or for an event.
Continue ==
  /\ Live /\ hold = "paused"
  /\ hold' = "no" /\ sent' = 0
  /\ Report([loop EXCEPT !.wakes = 0])
  /\ agent' = [agent EXCEPT !.prompted = @ \cup Resumable]
  /\ UNCHANGED <<delivery, git, repo, wake, txn, proc, told, read>>

\* /continue, or the first task, after a restart.
ResumeWork ==
  /\ Live /\ hold = "resume"
  /\ hold' = "no"
  /\ agent' = [agent EXCEPT !.prompted = @ \cup Resumable]
  /\ UNCHANGED <<loop, delivery, disk, git, repo, wake, txn, proc, told, read, sent, budget>>

----------------------------------------------------------------------------
(***************************************************************************)
(* RunLoop: once a second, timers first, then one snapshot decides for     *)
(* both agents, Austin before Tony.                                        *)
(***************************************************************************)
TimerFires ==
  /\ Live /\ Working(loop)
  /\ \E a \in loop.timer : Room(1) /\ Report(LoopTimers(loop, a))
  /\ UNCHANGED <<delivery, git, repo, agent, wake, hold, txn, proc, told, read, sent>>

\* Mutant: a consultation shares the key of the oldest unread event.
LoopWakeOldest(l, a) ==
  IF l.inbox[a] # <<>> THEN <<"event", l.inbox[a][1].id>> ELSE NoKey

\* loopWake: a consultation and the human's input have keys of their own.
LoopWake(l, a) ==
  LET box == l.inbox[a]
      humans == {e.id : e \in {x \in ToSet(box) : x.kind = "human"}}
  IN  CASE l.asked.open /\ a = "Tony" /\ l.asked.reply = 0 -> <<"question", l.asked.id>>
        [] l.asked.open /\ a = "Austin" /\ l.asked.reply # 0 -> <<"reply", l.asked.reply>>
        [] box # <<>> /\ a = "Austin" /\ humans # {} ->
             <<"human", CHOOSE i \in humans : \A j \in humans : j <= i>>
        [] box # <<>> -> <<"event", box[1].id>>
        [] a = "Austin" /\ l.wait[a] # "waiting" -> <<"idle", 0>>
        [] OTHER -> NoKey

Silent(l, a) ==
  \/ ~l.started \/ ~Working(l) \/ l.finishing
  \/ a = "Austin" /\ l.asked.open /\ l.asked.reply = 0

\* What a tick would announce to a.
Due(a) == IF Silent(loop, a) THEN NoKey ELSE LoopWake(loop, a)
Attempts(a, key) == IF wake.attempts[a].key = key THEN wake.attempts[a].count ELSE 0
GivenUp(a) == ~MayTry(Attempts(a, Due(a)))

HeldTick ==
  /\ Live /\ hold # "no" /\ ~wake.held /\ wake.due = NothingDue
  /\ wake' = [wake EXCEPT !.held = TRUE]
  /\ UNCHANGED <<loop, delivery, disk, git, repo, agent, hold, txn, proc, told, read, sent, budget>>

Tick ==
  /\ Live /\ hold = "no" /\ wake.due = NothingDue
  /\ LET w == IF wake.held THEN [wake EXCEPT !.attempts = NoAttempts, !.held = FALSE] ELSE wake
         due == [a \in Agents |-> IF Busy(a) THEN NoKey ELSE Due(a)]
     IN  /\ due # NothingDue \/ w # wake
         /\ wake' = [w EXCEPT !.due = due]
  /\ UNCHANGED <<loop, delivery, disk, git, repo, agent, hold, txn, proc, told, read, sent, budget>>

\* allowLoopWake and the strict checkpoint before a wake is sent.
CountWake(l, b) == disk' = [loop |-> l, delivery |-> delivery] /\ budget' = b

Considered(a, attempt) == wake' = [wake EXCEPT !.due[a] = NoKey, !.attempts[a] = attempt]

Dispatch(a) ==
  LET key == wake.due[a]
      count == Attempts(a, key)
      counted == [loop EXCEPT !.wakes = @ + 1]
  IN  /\ Live /\ key # NoKey /\ (a = "Tony" => wake.due["Austin"] = NoKey)
      /\ \/ /\ ~MayTry(count) \/ Busy(a)
            /\ wake' = [wake EXCEPT !.due[a] = NoKey]
            /\ UNCHANGED <<loop, disk, budget, agent, hold, sent>>
         \/ /\ MayTry(count) /\ ~Busy(a) /\ loop.wakes >= budget.limit
            /\ hold' = "paused"
            /\ wake' = [wake EXCEPT !.due = NothingDue]
            /\ UNCHANGED <<loop, disk, budget, agent, sent>>
         \/ /\ MayTry(count) /\ ~Busy(a) /\ loop.wakes < budget.limit
            /\ loop' = counted
            /\ sent' = sent + 1
            /\ \/ hold # "paused" /\ Prompt(a) /\ CountWake(counted, budget)
               \/ hold = "paused" /\ UNCHANGED agent /\ CountWake(counted, budget)
               \/ /\ budget.drops > 0 /\ UNCHANGED agent
                  /\ CountWake(counted, [budget EXCEPT !.drops = @ - 1])
            /\ Considered(a, [key |-> key, count |-> count + 1])
            /\ UNCHANGED hold
         \/ /\ MayTry(count) /\ ~Busy(a) /\ loop.wakes < budget.limit
            /\ loop' = counted /\ SaveFails
            /\ wake' = [wake EXCEPT !.due[a] = NoKey]
            /\ UNCHANGED <<agent, hold, sent>>
      /\ UNCHANGED <<delivery, git, repo, txn, proc, told, read>>

----------------------------------------------------------------------------
(***************************************************************************)
(* handleActivity goes on with the strict checkpoint and deliverFinal.     *)
(***************************************************************************)
TxnAt(pc) == Live /\ txn.pc = pc
TxnTo(pc) == txn' = [txn EXCEPT !.pc = pc]
TxnEnd == txn' = TxnIdle
TxnOnly == UNCHANGED <<git, agent, wake, hold, proc, told, read, sent>>

SettledSaved ==
  /\ TxnAt("settled")
  /\ \/ Saved(loop, delivery) /\ TxnTo("check")
     \/ SaveFails /\ TxnEnd
  /\ UNCHANGED <<loop, delivery, repo>> /\ TxnOnly

\* Applied is answered with DONE; otherwise the finish must still stand and
\* the worktree be clean.
CheckFinish ==
  /\ TxnAt("check")
  /\ \/ /\ Working(loop) /\ IsApplied(delivery) /\ CanComplete(loop)
        /\ loop' = Complete(loop) /\ HookSave(Complete(loop), delivery)
        /\ TxnEnd /\ UNCHANGED delivery
     \/ /\ ~Working(loop) \/ (IF IsApplied(delivery) THEN loop.phase # "INTEGRATE"
                                                     ELSE ~CanComplete(loop))
        /\ TxnEnd /\ UNCHANGED <<loop, delivery, disk, budget>>
     \/ /\ Working(loop) /\ ~IsApplied(delivery) /\ CanComplete(loop) /\ git.dirty
        /\ delivery' = Pending(delivery.head)
        /\ HookSave(loop, delivery') /\ TxnEnd /\ UNCHANGED loop
     \/ /\ Working(loop) /\ ~IsApplied(delivery) /\ CanComplete(loop) /\ ~git.dirty
        /\ txn' = [pc |-> "checkpoint", head |-> git.head]
        /\ UNCHANGED <<loop, delivery, disk, budget>>
  /\ UNCHANGED repo /\ TxnOnly

Checkpoint ==
  /\ TxnAt("checkpoint")
  /\ delivery' = Pending(txn.head)
  /\ \/ Saved(loop, delivery') /\ TxnTo("land")
     \/ SaveFails /\ TxnEnd
  /\ UNCHANGED <<loop, repo>> /\ TxnOnly

Land ==
  /\ TxnAt("land")
  /\ \/ /\ txn.head <= repo.head \/ ~repo.blocked
        /\ repo' = [repo EXCEPT !.head = IF txn.head > @ THEN txn.head ELSE @]
        /\ TxnTo("record")
     \/ /\ txn.head > repo.head /\ repo.blocked
        /\ TxnEnd /\ UNCHANGED repo
  /\ UNCHANGED <<loop, delivery, disk, budget>> /\ TxnOnly

RecordApplied ==
  /\ TxnAt("record")
  /\ delivery' = Applied(txn.head)
  /\ \/ Saved(loop, delivery') /\ TxnTo("complete")
     \/ SaveFails /\ TxnEnd
  /\ UNCHANGED <<loop, repo>> /\ TxnOnly

\* A finish that was superseded meanwhile is not DONE; markDeliveryPending
\* leaves an applied record of the same head as it is.
CompleteRound ==
  /\ TxnAt("complete") /\ TxnEnd
  /\ IF CanComplete(loop)
     THEN loop' = Complete(loop) /\ HookSave(Complete(loop), delivery)
     ELSE UNCHANGED <<loop, disk, budget>>
  /\ UNCHANGED <<delivery, repo>> /\ TxnOnly

Deliver ==
  SettledSaved \/ CheckFinish \/ Checkpoint \/ Land \/ RecordApplied \/ CompleteRound

----------------------------------------------------------------------------
(***************************************************************************)
(* The user's repository, a crash, and the resume path.                    *)
(***************************************************************************)
ToggleRepo ==
  /\ budget.block
  /\ repo' = [repo EXCEPT !.blocked = ~@]
  /\ UNCHANGED <<loop, delivery, disk, git, agent, wake, hold, txn, proc, told, read, sent, budget>>

\* Restore: an owner whose turn had not settled has to finish again.
Restored(l) == [l EXCEPT !.finishing = @ /\ l.phase # "RUNNING"]

Crash ==
  /\ Live /\ Spend("crashes")
  /\ loop' = Restored(disk.loop) /\ delivery' = disk.delivery
  /\ agent' = [busy |-> {}, prompted |-> {}]
  /\ wake' = [attempts |-> NoAttempts, due |-> NothingDue, held |-> FALSE]
  /\ txn' = TxnIdle /\ proc' = "down"
  /\ hold' = IF hold = "paused" THEN hold ELSE "resume"
  /\ UNCHANGED <<disk, git, repo, told, read, sent>>

NeedsDelivery(l, d) == ~IsApplied(d) /\ CanComplete(l)

ResumeOnly == UNCHANGED <<git, agent, wake, hold, txn, told, read, sent, budget>>
Persist(l, d) == loop' = l /\ delivery' = d /\ disk' = [loop |-> l, delivery |-> d]

\* Resume: what waits for delivery is delivered first (also by `duo apply`),
\* if the worktree still holds what the last checkpoint names.
Resume ==
  /\ proc = "down"
  /\ \/ /\ IsApplied(delivery) /\ CanComplete(loop)
        /\ Persist(Complete(loop), delivery) /\ UNCHANGED proc
     \/ /\ NeedsDelivery(loop, delivery)
        /\ git.dirty \/ (delivery.head \notin {0, git.head})
        /\ Persist(loop, Pending(delivery.head)) /\ UNCHANGED proc
     \/ /\ NeedsDelivery(loop, delivery)
        /\ ~git.dirty /\ delivery.head \in {0, git.head}
        /\ Persist(loop, Pending(git.head)) /\ proc' = "landing"
     \/ /\ ~CanComplete(loop)
        /\ proc' = "live" /\ UNCHANGED <<loop, delivery, disk>>
  /\ UNCHANGED repo /\ ResumeOnly

OfflineLand ==
  /\ proc = "landing"
  /\ \/ /\ delivery.head <= repo.head \/ ~repo.blocked
        /\ repo' = [repo EXCEPT !.head = IF delivery.head > @ THEN delivery.head ELSE @]
        /\ proc' = "recording"
     \/ /\ delivery.head > repo.head /\ repo.blocked
        /\ proc' = "down" /\ UNCHANGED repo
  /\ UNCHANGED <<loop, delivery, disk>> /\ ResumeOnly

OfflineRecord ==
  /\ proc = "recording"
  /\ Persist(Complete(loop), Applied(delivery.head))
  /\ proc' = "down"
  /\ UNCHANGED repo /\ ResumeOnly

\* The Duo process can stop between two of these steps, too.
OfflineCrash ==
  /\ proc \in {"landing", "recording"} /\ Spend("crashes")
  /\ proc' = "down"
  /\ UNCHANGED <<loop, delivery, disk, git, repo, agent, wake, hold, txn, told, read, sent>>

----------------------------------------------------------------------------
Calling ==
  \/ \E a \in Agents : Send(a) \/ Acknowledge(a) \/ Wait(a)
  \/ Ask \/ Reply \/ Finish

Reporting == Work \/ \E a \in Agents : StartTurn(a) \/ Settle(a)

Human == Interrupt \/ NewTask \/ Pause \/ Continue \/ ResumeWork

Scheduling == TimerFires \/ HeldTick \/ Tick \/ \E a \in Agents : Dispatch(a)

Recovery == Resume \/ OfflineLand \/ OfflineRecord \/ OfflineCrash

Next == Calling \/ Reporting \/ Human \/ Scheduling \/ Deliver \/ ToggleRepo \/ Crash \/ Recovery

Spec == Init /\ [][Next]_vars

(***************************************************************************)
(* RunLoop and a handler that has begun are goroutines of the process and  *)
(* go on.  Nothing obliges an agent or the human to act.                   *)
(***************************************************************************)
FairSpec ==
  /\ Spec
  /\ WF_vars(Tick) /\ WF_vars(\E a \in Agents : Dispatch(a))
  /\ WF_vars(Deliver)

----------------------------------------------------------------------------
EventRecord == [id : Nat, kind : Kinds]
LoopState ==
  [phase : {"RUNNING", "INTEGRATE", "DONE"}, started : BOOLEAN, next : Nat,
   inbox : [Agents -> Seq(EventRecord)], acked : [Agents -> Nat],
   wait : [Agents -> {"none", "intended", "waiting"}], timer : SUBSET Agents,
   asked : [id : Nat, reply : Nat, open : BOOLEAN], finishing : BOOLEAN, wakes : Nat]
DeliveryRecord == [status : {"none", "pending", "applied"}, head : Nat]
Key == {"none", "question", "reply", "human", "event", "idle"} \X Nat

TypeOK ==
  /\ loop \in LoopState /\ delivery \in DeliveryRecord
  /\ disk \in [loop : LoopState, delivery : DeliveryRecord]
  /\ git \in [head : Nat, dirty : BOOLEAN] /\ repo \in [head : Nat, blocked : BOOLEAN]
  /\ agent \in [busy : SUBSET Agents, prompted : SUBSET Agents]
  /\ wake \in [attempts : [Agents -> [key : Key, count : 0 .. MaxAttempts]],
               due : [Agents -> Key], held : BOOLEAN]
  /\ hold \in {"no", "resume", "paused"}
  /\ txn \in [pc : {"idle", "settled", "check", "checkpoint", "land", "record", "complete"},
              head : Nat]
  /\ proc \in {"live", "down", "landing", "recording"}
  /\ told \subseteq Nat /\ read \subseteq Nat /\ sent \in Nat
  /\ budget \in Setup

(***************************************************************************)
(* Nobody finishes over somebody's head: while a finish is registered, and *)
(* once the round is DONE, Austin has no open consultation and no unread   *)
(* input of the human, live or in the session file, however the delivery,  *)
(* the human's calls and crashes interleave with it.                       *)
(***************************************************************************)
FinishIsUnblocked ==
  TypeOK /\ \A l \in {loop, disk.loop} :
    l.finishing \/ l.phase = "DONE"
      => ~l.asked.open /\ ~HasKind(l.inbox["Austin"], "human")

(***************************************************************************)
(* The wake limit holds across restarts: no more wakes are sent between    *)
(* two continuations than the human granted.                               *)
(***************************************************************************)
WakesAreGranted == sent <= budget.limit

(***************************************************************************)
(* An event whose sender was told that it is queued stays in the inbox     *)
(* until its receiver acknowledges it: through failed writes, crashes,     *)
(* batch acknowledgements and repeated ones.  The same failures grant no   *)
(* wake that announces one.                                                *)
(***************************************************************************)
Unread(l) == UNION {Ids(l.inbox[a]) : a \in Agents}

ToldIsKept == WakesAreGranted /\ told \subseteq Unread(loop) \cup read

(***************************************************************************)
(* A consultation ends when Austin has acknowledged the event that carries *)
(* its answer, alone or in a batch, and in no other way.                   *)
(***************************************************************************)
Reads(id) == id \in Ids(loop.inbox["Austin"]) /\ id \notin Ids(loop'.inbox["Austin"])

ReleasedByReply ==
  [][loop.asked.open /\ proc' = "live" => (~loop'.asked.open <=> Reads(loop.asked.reply))]_vars

(***************************************************************************)
(* An idle agent for whom a question, an answer, human input or an event   *)
(* waits is woken again, until Duo has given up on this very announcement  *)
(* (three attempts, which it reports) or is paused.                        *)
(***************************************************************************)
Announced(a) ==
  LET l == loop
      consult == IF a = "Tony" THEN l.asked.open /\ l.asked.reply = 0
                 ELSE l.asked.open /\ l.asked.reply # 0
      id == IF a = "Tony" THEN l.asked.id ELSE l.asked.reply
  IN  /\ GivenUp(a)
      /\ consult => wake.attempts[a].key[2] = id

Unattended(a) ==
  /\ Live /\ hold = "no" /\ ~Busy(a) /\ a \notin agent.prompted
  /\ loop.inbox[a] # <<>> /\ ~Silent(loop, a)
  /\ ~Announced(a)

UnreadIsAnnounced == \A a \in Agents : []<>~Unattended(a)

----------------------------------------------------------------------------
\* loop.go resume prompt and coordinator.go:2304 "never marks DONE unless the
\* artifact actually landed in the user's repo": Austin's commits are in the
\* branch when the round is DONE, unless his worktree is dirty by then.
DoneDelivered ==
  Live /\ loop.phase = "DONE" /\ git.head > 0 => git.head <= repo.head
=============================================================================
