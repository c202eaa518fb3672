# Duo in TLA+

Duo runs two coding agents, Austin and Tony, on Git worktrees of their own. They
work through phases, sign what they have done, and when both have approved the
same commit (in FAST mode: when Tony has passed it) Duo moves the user's branch
to it. This directory holds TLA+ models of that program, the TLC configurations
that check them on small instances, and TLAPS proofs of what matters most.

Paths below are relative to `src/internal/` unless they start with `src/`.

## 1. The system

| Part | State it keeps | Operations | Talks to |
|---|---|---|---|
| `project` | mode, phase, plan and version, ready and evidence per agent, verdict; the STEP queue; the LOOP inbox; all under `State.mu` | `SetPlan`, `SetReady`, `SetVerification`, `Complete`, `RevokeReady`, `Reopen`, `EscalateToGoal`, `SwitchMode`, `Restore`; step and loop operations | calls a hook after each mutation; the hook saves |
| `coordinator` | the delivery record, the integration result, `deliveryTxnMu`, pause state and held messages | one handler per message type (`OnMessage`), `deliverFinal`, `beginIntegration`, `switchMode`, `reopenFinishedSession`, `RunLoop`, `PauseAgents`, `ContinuePause`, `sendToAgent` | `project`, `workspace`, `delivery`, `sessionstore`, agents through `transport` |
| `transport` | one connection per agent, each read by a goroutine of its own | `ListenAndServe`, `Send` | calls the coordinator's handlers concurrently |
| `workspace` | the agents' branches and worktrees | create, head, dirtiness, merge of Tony into Austin, discard | Git |
| `delivery` | none | `Check`, `Deliver`: preflight and fast-forward of the user's branch | Git in the user's repository |
| `sessionstore` | `state.json`, the session lock, transcripts | `Save` (atomic write), `Load`, `Lock`, `Remove`, migrations | file system |
| `recovery` | none | `Reconcile`: the checkpoint against the worktrees | `workspace`, `sessionstore` |
| `session` | the running service | `start`, `startResume`, `launch`, `closeLocked`, `Do` (the human's commands), `ReconcileDelivery`, `DeliverAndPersist` | all of the above |
| `src/cmd/duo` | none | `duo`, `duo resume`, `duo apply`, `duo clean`, `duo sessions` | `session`; other processes only through the lock and the files |
| `agent` | a `Session` per agent: CLI process, plan of its last launch, the state to prepare the next with | `Start`, `Stop`, `Restart`, `RestartRunning`, `Manager.Add`, exit waiter | `driver`, the terminal |
| `driver`, `plugins` | a plugin process or built-in per session object; what it knows of the conversation | `Prepare`, `State`, watchers | the agents' CLIs |
| `harness` | when each agent was last active or working, nudges of an episode | one look per tick and mode | prompts through the coordinator |
| `remote`, `src/remote` | host connection, sequence numbers, nonces seen; the relay's room; the page's one command in flight | connect, push, apply a command, take over, reconnect | `session` through a sink |
| `gotui` | the View last read, the composer (lines, pasted blocks, cursor), palettes, history, panels, the cached lines and viewport of each pane, the search | keys, pastes, clicks, events of its subscription, answers of what it started, ticks, frames; the terminal of an agent | `session.Do`, `session.View` |
| `observer` | its settings, the window of recent messages, the round's task, the previous report; in `session` the waiting request, the reports, the notice, the title | follow the bus, report, answer, name the session; save settings, switch language | a model over HTTP; `events`, `session`, `gotui`, the phone |
| `events`, `mcp`, `xduo` | views and translation | see section 9 | `session` |

What is hard here is not any one operation but their order. Several goroutines
(two agents, the human, timers, waiters) enter the code at any time. `State.mu`
makes one mutation atomic and `deliveryTxnMu` serialises deliveries, and nothing
else is held across a handler: a status call reads one snapshot, asks Git, reads
a second one, records, runs a test command, records again, and the delivery
itself reads, compares, writes a file, moves a branch, writes the file again. A
crash, a failing write, a commit, a withdrawn signature or a mode switch may come
between any two of these. After a crash, `duo resume` and `duo apply` act on
what the file says, and other processes may be doing the same.

What makes each part correct:

* `project`: signatures exist only for the phase they were given in; a phase
  belongs to its mode; the final approval is seen exactly when it is complete.
* `coordinator` with `delivery`: nothing enters the user's branch that was not
  approved; the branch moves only behind a checkpoint; DONE comes with a landing;
  an approval is answered.
* `sessionstore`, `recovery`, `session`: whatever a crash leaves on disk is
  either finished or handed back, never landed twice or without approval; one
  process at a time has a team at work; what a human asked for is not thrown away.
* STEP: each step of the queue lands once, in order and on its own approval. LOOP:
  no event is lost, the loop finishes only over an empty inbox, and whatever is
  unread is announced.
* pause: a pause that is asked for is reached, held work is kept, and each agent
  is told once to go on.
* harness: it prompts who has to move, tells of every lasting stall, and not
  twice of one.
* remote control: a command runs where it was addressed and not again while its
  id is remembered, a refusal is true, the page converges.
* interface: a question about a mode switch names what would be lost of what is shown,
  panels and panes show what is, an ended session is handed over.
* composer: a key changes the text where the cursor is and nothing else, a pasted
  block is whole or gone, a draft comes back, what is sent is what was shown.
* observer: a session runs the settings its file and environment say, a request is
  served, and the panel tells no request another one's failure.
* agents: one CLI per agent, no unnoticed exit, conversations that go on, and a
  checkpoint whose blob belongs to the driver it names.

The hazards that follow from this are listed with their lines in `PROJECT.json`.

## 2. Modules

| Module | Models | Uses |
|---|---|---|
| `Project` | `project` in GOAL and FAST: pure operators from one project record to the next, a `Can...` guard beside each | - |
| `Handoff` | what Duo promises about the user's branch, in four actions | - |
| `Delivery` | handlers, transaction, worktrees, user's branch, session file, crash, `recovery`, `resume`, `duo apply` in GOAL and FAST | `Project`; `Handoff` through a refinement mapping |
| `StepQueue` | the queue of STEP: pure operators on the cursor, the policies, the signatures of the current step | `Project` |
| `StepHandoff` | what a queue promises: each step lands once, in order, when it is approved | - |
| `Steps` | the handlers of STEP, the sync of Tony's worktree, landing, crash, resume, offline landing | `StepQueue`; `StepHandoff` through a refinement mapping |
| `Loop` | LOOP: inbox, acknowledgement, waits, timers, consultation, wake budget, finish, delivery and resume of a finished loop | - |
| `Messages` | `sendToAgent` and its routes, pause, held messages, resume prompts, connections, the saves of the pause | - |
| `Harness` | activity tracker, the look of each mode, cooldown, grace, FAST episodes | `StepQueue` |
| `Remote` | host client, relay and page with their connections, queues and commands | - |
| `Sessions` | Duo processes around one session directory: start, resume, close, recall, apply, clean, sessions | - |
| `Agents` | the session objects, plugins and CLIs of one agent, the saves of its blob | - |
| `Document` | what a composer promises: a sequence of characters and blocks with a cursor, edits, completions, recall, sending | - |
| `Composer` | the composer, the file and command palettes, the recall of earlier messages, key by key | `Document` through a refinement mapping |
| `Observer` | the observer, its worker, settings, panel, session title and the phone's view of it | - |
| `Transcript` | a pane: cached lines per entry, the window of entries, viewport, search | - |
| `Interface` | the interface's loop, panels, confirmations, background answers, an agent's terminal | `Transcript` |
| `MC...` | the instances TLC runs | the module of the same name |
| `Delivery_proofs`, `Steps_proofs`, `Loop_proofs`, `Sessions_proofs`, `Agents_proofs`, `Harness_proofs`, `Messages_proofs`, `Remote_proofs` | lemmas and theorems | the module of the same name, TLAPS; `Sessions_proofs` also `Observer`, the other half of the same service, and `Agents_proofs` also `Interface`, from which the agents are switched |

A behaviour begins with the choice of a `setup` from `Setups`: the mode, the
bounds on what may happen (`crashes`, `lost`, `commits`, ...) and what the
environment can do. It never changes. One run so covers several instances, and a
theorem, which leaves `Setups` open, covers all of them. (In `Observer` they are
called `launch` and `ObserverSetups`, in `Interface` `scene` and `Scenes`.) `Spend` (or the guard
`count < setup`) is where a bound bites; every bound is a field of the setup.

### Delivery

`project` and `delivery` are the coordinator's live state, `disk` is what
`state.json` holds of them, `git` the worktrees, `repo` the user's branch,
`handler[t]` the call in progress of thread `t`, `txn` the holder of
`deliveryTxnMu`, `proc` the stage of the process (live, down, or one of the
stages of a resume or an apply). `approved` and `gated` are history variables:
the heads that were approved, and those that the test gate of the final approval
accepted. A handler is a program counter; the steps are

| Code | Program counter |
|---|---|
| `handleSetStatus`, ready = true | `BeginSign`, (`RevokeStale`)\*, `TakeEvidence`, `RecordSignature`, then `RunGate`, `MergeTony` or the delivery |
| `handleSetStatus`, ready = false | `Withdraw` |
| `handleFastSetStatus` | `BeginRequest`, (`ReopenRound`), `ChooseTarget`, (`GateRequest`), `RecordRequest` |
| `handleSetVerification` | `BeginVerify`, (`GateVerdict`), `RecordVerdict`, then the delivery |
| `deliverFinal` | `EnterDelivery` (lock), `SettleApplied` or `CheckApprovals`, `Land`, `ResolveConflict`, `RecordApplied`, `FinishRound`, with `MarkPending` for every refusal |
| `switchMode`, `duo_escalate` | `SwitchTo`, (`ClearRound`) |
| `reopenFinishedSession` | `SubmitTask`, `ReopenRound` |
| `startResume`, `ReconcileDelivery`, `DeliverAndPersist`, `duo apply` | `Resume`, `ReconcileDelivery`, `Apply`, `OfflineLand`, `OfflineRecord` |

A mutation of the domain state and the hook that saves it are one step; the save
may fail and is then only logged (`HookSave`), so a crash between the two is the
failed save followed by the crash. The strict checkpoints of the delivery
(`Saved`, `SaveFails`) report the failure, and the transaction stops.

Abstractions:

* Commits are numbered in the order they are made. Austin's branch only grows,
  so one of his heads contains another iff its number is larger. A rewritten
  history shows up as a repository that is unfit for delivery (`repo.blocked`),
  together with uncommitted changes of the user, another checked-out branch and
  commits of his own.
* Plans, notes, prompts and messages have no text; of a plan it matters whether
  there is one and which version.
* An agent has one call in progress (an agent waits for the answer of a tool
  call), and the human one.
* The test command reads the worktree at one moment, and may pass or fail.
* A handler's first snapshot and the Git read right after it are one step.
* `Integration.Head` is not modelled. It is cleared with the delivery record;
  beyond that it can make a FAST resume refuse, or a GOAL session in DONE run its
  idempotent delivery again, and never lets anything land.
* A failing save of the offline commands is the crash of that command.
* `switchMode` reads the old snapshot and switches in one step.

### StepQueue and Steps

`StepQueue` has the queue operations of `project/workflow.go` and
`project/steps.go` (`SetSteps`, `AppendSteps`, `WithdrawStep`, `SetReady`,
`SetStepVerification`, `ReadyForDelivery`, `LandStep`). `Steps` is to it what
`Delivery` is to `Project`: `BeginSign` ... `RecordReady` for
`handleStepSetStatus`, `BeginVerify` ... for the verdict of a FAST step,
`SubmitPlan` and `SubmitQueue` for the planning tools, the transaction write by write down to
`LandStep`, the sync of Tony's worktree after each landing
(`step_sync.go`), resume and the offline landing of `session/delivery.go`.
`approved` holds pairs of a step and a head, so that an approval of one step
cannot pay for another one. Which worktree contains which commit is the number
of the merge (`git.since`).

### Loop

`loop` is the record of `project/loop.go`: both inboxes, acknowledgements,
waits, the timer, the question and its reply, the finish flag, the wakes spent.
Calls are actions (`Send`, `Ask`, `Reply`, `Interrupt`, `NewTask`,
`Acknowledge`, `Wait`, `Finish`, ...) followed by the strict save each of them
makes before it answers; `Tick` and `Dispatch` are `RunLoop`; `Deliver` is the
handler of Austin's settled turn that runs `deliverFinal` write by write;
`Crash` and `Recovery` restart from `disk`. `told`, `read` and `sent` record what
was answered, acknowledged and woken.

### Messages

`sendToAgent` in two steps, as the code has it: look at the pause under
`pauseMu` (`Send`), write after it was released (`Write`). `Command` is
`Service.Do`: pause, cancel, continue, driver switch, resume. An agent's process,
its registered connection, the connection whose end is still to be noticed and
the tracker's flag are four variables because the code moves them at four
moments. `EmitPause`, `Compose` and `WriteComposed` are the saves: composed at one
moment and written at another.

### Harness

The session is a record of `Project` or `StepQueue` and moves by their
operators; the monitor's look (`MonitorLooks`) is one step, for it runs in one
goroutine and reads the tracker under its lock. Time is counted in ticks
(`TimePasses`), and no more of it passes than the thresholds tell apart:
`IdleThreshold` 1, `StallThreshold` 3, `Cooldown` 2, `RecoveryGrace` 1 keep the
order they have in the code.

### Remote

A host is its `Client` record with the connection, its writers
(`pushStates`; one that outlives its connection is a writer of an earlier
connection), and the commands its read loops are at (`jobs`): the answer is recorded
(`Applying`), the nonce and the id are checked (`Checked`), the sink returns
(`Applied`). The relay is
the room row with its envelopes and command ids and the sockets at its end; what it
and `markSeen` drop of their ids is kept in two ghosts (`forgotten`). A
page is the state of `app.js`. A connection delivers in order until it breaks and
then loses what is on its way; each end notices when it next reads or writes.
What a session shows is a version number, and a key is not modelled: whoever has
the pairing can encrypt. `InOrder` says that the browser finishes decryptions in
the order they began.

### Sessions

A process is a program counter from one file operation to the next:

| Code | Program counter |
|---|---|
| `startFresh`, `launch` | off, prepared (worktrees), fresh (store and lock), starting (first save), started (agents), up |
| `startResume` | off, loaded (snapshot read), owner (lock), handing (offline hand-off) or starting |
| `closeLocked` | stopping, composing, collecting, composed (the final checkpoint is put together from the receipt and the project, then written), stopped, releasing (journal), released (lock), dropping, dropped, removing (discard), cancelling |
| `duo apply`, `duo clean`, `duo sessions` | applying, cleaning, listing, then with the lock |

`disk.dir` may be `emptied`: `os.RemoveAll` unlinks the entries and then the
directory, and a file written in between brings it back. `handler` is the one
bridge call in flight that matters for the record. `mu` is who holds
`Service.mu`: `Start` until the session is up, a command of the human from its
call to its return (`Task`, `RequestNew`, `RequestRecall`, then `Returns`), and
`Close` from `StopTeam` to its end; the View is read under it (`ReadRequest`), and
a phone may send a task until `Close` has it. Handlers never ask for it, which is
what lets `Close` wait for them. `setup.overlap` says whether a process may begin
before the other one has ended, `setup.deaf` that the launch that fails is one
whose bridge cannot listen.

### Agents

A session object is a slot with its configuration, the plan of its last launch
and its process; a driver switch and a resume make a new slot, as the code makes
a new `agent.Session`. `human` is the command under way (`setModel`,
`CycleThinking`, `setDriver` with preflight, capture, stop, replace, launch and
rollback, `RestartAgent`, close), `cli` the processes with the goroutine that
waits for each, `plug` what a plugin process knows until it crashes. A driver is
of one of two kinds: a client driver names the conversation itself (Pi, agy with
a known id), a server driver learns it from what its CLI opened.

### Document and Composer

`c` is the composer of `gotui/composer.go`: lines of cells, spans, cursor and goal
column. A cell is a rune and the block it belongs to; the label of a block is
three cells, with a space in the middle as in the real one, so that what treats
a label as words is seen to. `slash`, `mention` and `browse` are the two palettes
and `historyIdx` with `historyDraft`. One action is one key, paste or click with
all that `handleKey` does for it; `Draw` is the frame in between, which alone
recomputes the rows of the command palette. The refinement maps the cells to
atoms (a character, a newline, a block), the cursor to the number of atoms before
it, and the recall to a kept draft. `Document` then says what each key may do: an
insertion at the cursor, the removal of a piece that ends or begins there, the
completion of one `@` word, a recall that keeps the draft first, a message sent as
shown. Commands are two (one prefix of the other, one with an argument), files
two, a rune is one column wide.

### Observer

`cmd` is the command that holds `Service.mu` for all of its steps (`Persist`,
`StopWorker`, `CloseObserver`, `ObserverClosed`, `ClearForSettings`, `StartObserver`);
`obs` and `workers` are all observers and workers ever started, `live` the two the
session holds. A worker is a program counter through `runObserverReports`,
`analyzeObserverReport` and `runObserverReport`. `panel` is what they fill: the
waiting request, the one under way, the last reports, the notice, each written
under a lock of its own. `ui` is the interface's goroutine with its dialogs and the
view of its last frame, which reads the notice and the panel one after the other;
`phone` is what `cmd/duo/remote.go` publishes. An endpoint with its model is one
target, a request and whatever comes of it a number. `launch.known` names the
inputs that are findings (`swap`: a replacement while something is asked; `key`: a
key stored and then a failed save) and are left out elsewhere. `Quiet` says when
nothing is asked: no request waits, no worker is at one, and no token is on its way
to a worker or in its channel. The last part was found by the proof: the token of an
idle worker that is cancelled lets it take the request of the next one.

### Interface and Transcript

`sess` is what the session's View reports, `live` the View last read; the gap
between them is what makes the interface hard. `screen` says where the loop is:
keys were handled and no frame drawn (`dirty`), in an agent's terminal (`native`),
stopped, gone. `bus` is the subscription, which drops what finds no room, `calls`
and `async` what runs beside the loop and how it answers. `panel` is the overlay;
a confirmation keeps what it named (`told`) and the View it was opened on. The
`round` of a session is the set of things a mode switch may take (plan, queue,
signatures, a claim to verify, the inbox).

`Transcript` follows `transcript.go` operator by operator: `RenderEntry`,
`AppendBlock`, `BlockLineCount`, `SyncBlocks`, `Settle`, `Rendered`, and `search.go`
with its stamp. A line is known by its entry, its part and how it was rendered, so
that a wrong cut shows; an entry has zero to two rows, twice as many in a narrow
pane. `scene.topics` names the parts of the interface an instance uses,
`scene.known` the inputs that are findings.

## 3. The runs

`CHECK_DEADLOCK FALSE` is set throughout: a session may stop (nobody is obliged
to act, a refused resume waits for the user, bounds are spent).

| Run | States | Question |
|---|---|---|
| `delivery` | 1.7 M | GOAL and FAST (with the gate), two commits, a crash, a lost write and an unfit repository; a second task after DONE with a crash, two rounds, a second FAST round with the gate and a crash, dirty worktrees and open merges; mode switches at any point of a FAST delivery with two rounds and a crash |
| `answered` | 0.16 M | live sessions under fairness |
| `steps` | 0.9 M | queues of two steps, FAST and mixed, with a crash or a lost write; one step with both, with an unfit repository, with a merge, under GOAL with a third commit; appended steps, a second round and a second plan |
| `loop` | 0.8 M | ten sessions: each kind of call against crash, lost write, wake limit, pause, blocked repository |
| `messages` | 0.5 M | two works and two pauses; exits, switches, restarts of Duo, a resumed session |
| `harness` | 0.24 M | each mode while agents work, fail, connect, leave, are attached and held |
| `remote` | 0.50 M | two commands with a `markSeen` that starts afresh; one command or one change against a break at either end, a second process, the end of the room |
| `sessions` | 0.42 M | two processes, one after the other and overlapping |
| `agents` | 0.56 M | model and driver switches, exits, failed starts, plugin crashes, a crash of Duo and the resume |
| `observer` | 0.48 M | three requests of panel and phone with every outcome, two saves with a failing write under six environments, a restart, a language switch between tasks |
| `interface` | 0.54 M | ten setups: mode switches against a round that grows and another frontend, pauses and drivers, ways to leave, bridges, catalogues, pairings, a growing, searched and resized pane |
| `composer` | 0.03 M | documents of up to three atoms with two blocks and the mouse, of up to four with wrapped lines or mentions, of up to two with recalled messages and commands, also in a session that is paused |

*Why the bounds are enough for the hazards.* Two commits are the least that
make "the approved head" and "the head that is there now" differ after a first
landing; the merge of Tony's branch makes one more. One crash suffices where
recovery has no memory: a second one meets a state that the first could have left
(`loop` has a setup with two, because a refused hand-off leaves a record behind).
One lost write puts the file one step behind the live state at any chosen step.
Two rounds are the least in which a record can outlive its round, two steps the
least in which there is a first, a last and an appended one, three commits make
a head move under an approval of the second. In LOOP a consultation is two
events and a task is two, so five events leave one that comes in between. Two
pauses let the second meet what the first left. One break per side is enough for
a writer to outlive its connection and for a command to be sent again. Two
processes are the least that contend for a lock; two resumes let the second read
what the first left. Three to four CLIs are one per launch of the setups.

| Property | Kind | Says |
|---|---|---|
| `Delivery!LandedWasApproved` | invariant | the user's branch is where Duo started or at an approved head |
| `AppliedIsInRepo` | invariant | a record that says applied, live or on disk, is true |
| `DoneHasReceipt` | invariant | a live DONE session holds the applied record of its round |
| `CheckpointBeforeMove` | action | a fast-forward finds the head it lands pending on disk (without mode switches), and accepted by the gate (in FAST) |
| `ImplementsHandoff` | refinement | the whole protocol implements `Handoff` |
| `DeliveryInv` | invariant | the inductive invariant of the proofs (section 6) |
| `ReceiptIsOfThisRound` | invariant | an applied record does not survive into the next GOAL round |
| `ApprovalIsAnswered` | liveness | an approval is delivered, recorded as pending, or revoked |
| `Steps!LandedWasApproved` | invariant | each landed step was approved as that step |
| `TonyFollowsLandings` | action | between commits Tony's worktree moves only onto the step landed last, and no landing leaves a clean Tony behind: the call that landed, or the resume after a crash, brings him along (two corners apart, section 8) |
| `ImplementsStepHandoff` | refinement | the queue implements `StepHandoff`: once each, in order |
| `FinishIsUnblocked` | invariant | a finished loop leaves no unread input and no open question |
| `ToldIsKept` | invariant | what was answered positively is in the file, or was read; no more wakes than the limit between two continuations, crashes included (`WakesAreGranted`) |
| `ReleasedByReply` | action | a consultation ends when its own reply is acknowledged and in no other way |
| `UnreadIsAnnounced` | liveness | whatever is unread is announced as long as attempts last |
| `HeldIsKept` | invariant | work that was accepted is held, on its way, or with its agent; a resumed agent is told to go on at most once (`OneResumePrompt`) |
| `PauseSurvives` | invariant | a pause the human was told of is in the file once nobody is about to write it |
| `PauseIsReached` | liveness | a pause becomes paused, or is cancelled, or an agent died in its turn |
| `OncePerStall` | invariant | one diagnosis and one report per stall |
| `PromptsWhoMustMove` | action | who is prompted is idle, connected and has a move that the session waits for |
| `StallsAreAnswered` | liveness | whoever is stuck is told as long as it lasts; a stuck Austin is diagnosed unless Tony was away |
| `RunsOnceWhereAddressed` | invariant | a command runs only in the process its human saw, and again only if the relay and `markSeen` of that process have both dropped its id |
| `RefusedHasNotRun` | invariant | a command called refused has not run, unless the relay has dropped its id |
| `Converges` | liveness | the page shows the session's last state when connections hold and no writer outlived one |
| `OneTeam` | invariant | the agents of two processes are never at work on the same worktrees |
| `AcceptedIsKept` | invariant | an accepted task stays on disk until a human throws it away |
| `UntouchedLeavesNothing` | action | an unused session leaves nothing behind |
| `CloseEnds` | liveness | every close, /new, /sessions and /recall ends, while `Close` holds `Service.mu` and waits for handlers and a command may hold it before |
| `OneCli` | invariant | at most one CLI, the one the manager can stop; none once closed |
| `NeverSilentlyGone` | invariant | an agent that is not running is known to be gone |
| `LaunchesContinue` | action | a launch after a switch or a resume goes on with the known conversation, and the checkpoint's blob was written by the driver it names (`BlobIsOfDriver`) |
| `RunsWhatIsSaved` | invariant | between commands one observer runs, with the settings of file and environment, or none |
| `PanelIsHonest` | invariant | no frame shows a request as failed while it is under way, and a call under way is the one the panel names |
| `RequestIsServed` | liveness | a waiting request is taken or replaced |
| `LossIsConfirmed` | invariant | of the View it was built from, the question about a mode switch names all that the switch discards, two findings apart (what came since is a third) |
| `ScreenIsCurrent` | invariant | connection lines, the model and driver panels and the pairing code agree with the session once nothing is under way |
| `PaneShowsEntries` | invariant | a drawn pane has the lines of rendering its entries anew, follows their end, and its hits are where the word is |
| `HandedOver` | liveness | a session that any frontend ended is handed over by the interface |
| `BlocksAreWhole` | invariant | each span covers exactly its label, and each label has its span |
| `ImplementsDocument` | refinement | every key, paste, click, completion, recall and submission implements `Document` |

Type invariants are the first conjunct of one invariant per module (`TypeOK`).

**Abstract specifications.** `Handoff` has the set of approved commits, the
user's branch and a flag. Approvals may be added; the branch may move forward to
an approved commit; a round that is not finished may finish when the branch
holds an approved commit; a finished round may be left for a new one. `Delivery`
maps `approved`, `repo.head` and `project.phase = "DONE"` to these, in every
stage of the process, resumes included, so that a crash may undo a DONE that was
not saved (a new round) and never a landing. `StepHandoff` has the queue's
cursor, the approved pairs and the branch; `Steps` maps what is on disk to it, for
the cursor of a live session that was not saved is lost in a crash. `Document` is
to the composer what these are to the deliveries.

## 4. Fairness

Weak fairness of a step means: if it stays possible it happens. It is assumed
only of what a running program does by itself.

* `answered`: a call that has begun is a running goroutine. `EnterDelivery`
  waits for a `sync.Mutex`, which hands itself to a waiter that has waited too
  long: strong fairness.
* `loop`: the scheduler's ticker (`Tick`, `Dispatch`) and a handler that has
  begun (`Deliver`).
* `messages`: goroutines go on, connections are made and their end is noticed; an
  agent that has a prompt takes its turn and ends it, which the property is
  conditional on anyway (it excuses agents that died).
* `harness`: the ticker and the monitor's goroutine.
* `remote`: goroutines, the relay's and the page's handlers; the sink has a
  deadline of its own, and backoffs end.
* `sessions`: `closeLocked`, handlers that were taken, commands that return, and the
  interface that reads the View.
* `interface`: the loop draws after a batch of keys, whose `select` takes each branch
  that stays ready, and leaves once it is stopped.
* `observer`: workers, sends, collectors and commands are running goroutines, a model
  call has a timeout, a frame that is begun is finished and the host's poll ticks.

Agents, the human, Git and the operator owe nothing: no fairness is assumed of
new calls, commits, a repaired repository, a reconnection of the network, an
obeyed signal or a resume.

## 5. Mutants

Every property of a passing run comes with a mutation of one definition that
breaks it. The mutated forms stand before the definition and carry a comment
that begins with *Mutant:* (signatures that survive their phase, one agent's
approval taken for both, a swapped ancestor test, a best-effort write where the
strict one belongs, a lock taken for granted, a state asked of whatever driver
there is by now, and so on). They are used by nothing else.

## 6. What is proved

For all values of the constants, TLAPS checks

| Theorem | Statement |
|---|---|
| `Delivery_proofs!DeliveryInvariant` | `Spec => []DeliveryInv` |
| `Delivery_proofs!TypeCorrect` | `Spec => []TypeOK` |
| `Delivery_proofs!LandedIsApproved` | `Spec => []LandedWasApproved` |
| `Delivery_proofs!AppliedIsContained` | `Spec => []AppliedIsInRepo` |
| `Delivery_proofs!Refinement` | `Spec => ImplementsHandoff` |
| `Delivery_proofs!MovesBehindCheckpoint` | `Spec => CheckpointBeforeMove` |
| `Delivery_proofs!ReceiptIsCurrent` | `Spec => []ReceiptIsOfThisRound` |
| `Delivery_proofs!DoneHoldsReceipt` | `Spec => []DoneHasReceipt`, of `SingleRounds` |
| `Steps_proofs!StepsInvariant` | `Spec => []IInv` |
| `Steps_proofs!LandedWasApprovedHolds` | `Spec => []LandedWasApproved` |
| `Steps_proofs!TonyFollowsLandingsHolds` | `Spec => TonyFollowsLandings` |
| `Steps_proofs!StepRefinement` | `Spec => ImplementsStepHandoff` |
| `Loop_proofs!LoopInvariant` | `Spec => []LoopInv` |
| `Loop_proofs!FinishIsUnblockedHolds` | `Spec => []FinishIsUnblocked` |
| `Loop_proofs!ToldIsKeptHolds` | `Spec => []ToldIsKept` |
| `Loop_proofs!ReleasedByReplyHolds` | `Spec => ReleasedByReply` |
| `Sessions_proofs!OneTeamHolds` | `Spec => []OneTeam` |
| `Sessions_proofs!AcceptedIsKeptHolds` | `Spec => []AcceptedIsKept` |
| `Sessions_proofs!UntouchedLeavesNothingHolds` | `Spec => UntouchedLeavesNothing` |
| `Sessions_proofs!RequestsApart` | `ObserverSpec => []RInv` |
| `Sessions_proofs!RunsWhatIsSavedHolds` | `ObserverSpec => []RunsWhatIsSaved`, where `known` lacks `key` |
| `Sessions_proofs!PanelIsHonestHolds` | `ObserverSpec => []PanelIsHonest`, where `known` lacks `swap` |
| `Agents_proofs!AgentsInvariant` | `Spec => []IInv` |
| `Agents_proofs!OneCliHolds` | `Spec => []OneCli` |
| `Agents_proofs!NeverSilentlyGoneHolds` | `Spec => []NeverSilentlyGone` |
| `Agents_proofs!ConversationsInvariant` | `Spec => [](IInv /\ Kept)` |
| `Agents_proofs!NothingIsLostHolds` | `Spec => [][~Relaunches(...)]_vars`, the first half of `LaunchesContinue` |
| `Agents_proofs!LaunchesContinueHolds` | `Spec => LaunchesContinue`, of `NoneExplicit` |
| `Agents_proofs!InterfaceIsTyped` | `InterfaceSpec => []UInv` |
| `Agents_proofs!ScreenIsCurrentHolds` | `InterfaceSpec => []ScreenIsCurrent`, where no scene overlaps pairings or has both models and drivers |
| `Harness_proofs!HarnessInvariant` | `Spec => []IInv` |
| `Harness_proofs!OncePerStallHolds` | `Spec => []OncePerStall` |
| `Harness_proofs!PromptsWhoMustMoveHolds` | `Spec => PromptsWhoMustMove` |
| `Messages_proofs!MessagesInvariant` | `Spec => []IInv` |
| `Messages_proofs!HeldIsKeptHolds` | `Spec => []HeldIsKept` |
| `Messages_proofs!PauseSurvivesHolds` | `Spec => []PauseSurvives`, of `SavesApart` |
| `Remote_proofs!RemoteInvariant` | `Spec => []Inv` |
| `Remote_proofs!RunsOnceHolds` | `Spec => []RunsOnceWhereAddressed` |
| `Remote_proofs!RefusedHasNotRunHolds` | `Spec => []RefusedHasNotRun` |

`Spec` is the specification without fairness; `FairSpec`, which some runs use, has
fewer behaviours.

### Delivery

Assumed is `DeliveryAssumption`, the types of the setups.

*Why a stronger invariant is needed.* That the branch is at an approved head
says nothing about the next step: a thread may be about to land the head in its
`ref`, a resume the head on disk, a transaction may be comparing claims it read
long ago. `DeliveryInv` says of each of these that it goes back to a signature:

* `ApprovalsKnown`: approvals in the live and in the saved project were seen;
* `SignaturesMeetInIntegrate`: two GOAL signatures coexist only in INTEGRATE or
  DONE. Without it a recovery that promotes a phase to INTEGRATE would turn two
  signatures of an earlier phase into an approval;
* `ClaimsKnown`: two equal claims in a transaction's snapshot name a head that
  was approved, although the project may have changed since;
* `LandingKnown`, `LandedContained`: the head on its way was approved, and is
  contained once the landing is over;
* `RecordsNameHeads`: a record names a commit or nothing;
* `ReceiptsAreDeliveries`: an applied record, a DONE, and every stage past the
  landing mean that the branch is at an approved head. This is what lets
  `Finish` of `Handoff` be taken.

*How the proof goes.* `Delivery_proofs` regroups the invariant by the piece of
state it is about (a project, a record, a handler, the process), each piece
depending on the rest only through the set of approved heads and the branch.
Both only grow (`Grows`), and each piece survives growth; so a step has to argue
only about the pieces it writes. A few lemmas (`LiveStep`, `QuietStep`,
`RecordedStep`, `Offline...`) do this for the shapes of steps there are, one
lemma per action instantiates them, and the first part of the module says what each
operation of `Project` does to signatures and approvals. The refinement rests on the
invariant and on `StepKinds`: a step changes at most one of `approved`, the
branch, and the DONE flag in the ways `Handoff` allows.

### Sessions

Assumed are `ProcsAssumption` (no process is called as nobody is) and
`SetupsAssumption` (one session is followed: `fresh` is 0 or 1, a second `duo`
makes another directory; `deaf` is a Boolean). The number of processes and all other bounds are
open.

*The invariant.* Nothing in the program relates a lock to a team; the code that
starts agents trusts that it runs behind the lock. `IInv` says where in the
program that is: `Locked` (whoever is at one of the `Owners` counters holds the
lock) and `Teamed` (a team works only from `started` to `stopping`, which are
among them). A new session takes its lock without asking who has it, because
nobody can know of a directory that does not exist yet; `Alone` and `Unmade` say
so: while a process is `prepared` there is no directory and every other process
is off, since all other ways in begin with a readable record. The proof has one
lemma for a step that keeps to the discipline (`Onward`), one for the handlers
that run beside it (`Beside`), and one case per action.

*The second invariant.* What an accepted task is owed holds of processes that
follow one another (`~setup.overlap`; the corner where they overlap is a finding).
`OneByOne` then says of the one process that runs: what it read before it took
the lock is still what the file says, so that it writes a started session back
as started (`Promised`); where the directory and the worktrees are there, and
where they are gone (`Housed`); and which calls of the bridge and of the human it may
still be serving after its agents are stopped (`Served`). A checkpoint that was composed
before a handler saved is written all the same; `Promised` therefore speaks of it too.
What a process still serves is what a removal depends on: a
handler that is served between the removal of the worktrees and that of the
record belongs to a session it has itself marked as started, and the journal is
closed before the lock is given back, so that nothing recreates the directory.

### Observer

Its theorems stand at the end of `Sessions_proofs`. Assumed is
`ObserverSetupsAssumption`: what a project's file and the environment hold is
typed, and a project without a section has the empty one. Three invariants carry it.

`RInv` follows requests: `Apart` says that one waits, is served by one worker, or is
`Over`, and that what the panel or a half-read view holds as a failure is over. So a
view that reads the notice first and the panel later cannot show the one as the
other (`Viewed`), however many requests come between the two reads; it holds of
replaced workers too. New numbers are greater than all others (`Numbered`), which is
why a new request is nobody else's.

`KInv` follows a command through its steps: `Commanded` says what it has already taken
from the session's hands, `Held` that whatever is not in the session's hands was told
to end, `Running` that the settings in memory are those of the file under the
environment, between any two steps. It needs that no save fails after a new key was
stored, the finding of `KeySetups`: then the panel says there is a key and the observer
has none. The theorem has that hypothesis in so many words.

`SInv` is about who is at work: only the last worker (`Lonely`). The code replaces a worker
without waiting for it, so this is false of a session that saves settings while a
report is made (`SwapSetups`), and is proved where it does not. Esc in the
first dialog of a session saves too, without any such condition; `Blank` says why that is
harmless: the first dialog is that of a session without a worker.

### Rounds

The last part of `Delivery_proofs` goes on from `DeliveryInv`. `CheckpointBeforeMove`,
`ReceiptIsOfThisRound` and `DoneHasReceipt` relate several places of one round,
for which it is not enough that every head was approved:

* `Base` (`Locked`, `OneMode`, `Noted`): only the holder of `deliveryTxnMu` is
  inside the transaction, and a thread that is about to fast-forward has its head
  pending, live and on disk;
* `Gated`: a verdict, a claim, a record and a head on its way have passed the
  gate, or Austin's branch has left them behind, so that they cannot land;
* `Receipts`: in a GOAL round that is open, neither the live record nor the one on
  disk is applied;
* `Dones`: a session in DONE holds an applied record, unless a call is just
  dropping it.

All three are about sessions whose mode is not switched, as the properties are:
a switch from GOAL to FAST opens a round in VERIFY that no gate has seen, with the
record of the round before. `DoneHoldsReceipt` has a hypothesis, `SingleRounds`:
setups that bound their plans to one are of FAST, or of a single round. It names
the sessions `DoneHasReceipt` speaks of; in a second GOAL round a
withdrawal or a merge that was decided before DONE can save after the record was
dropped.

### Steps

Assumed is `StepsAssumption`, the types of the setups. `Good` says what a queue is:
it lands in order, each step once, and a verdict is of the head that was
submitted. `Sited` relates a queue and its delivery record to the approvals and
to the user's branch, and holds of the live pair and of the one on disk; an applied
record whose step is not ticked yet is the one gap it allows (`Accounted`).
`Behind` says how far the file may lag: it may lack everything but the transition
to DONE. `Seated` gives each place inside the transaction its facts, among them
that the cursor is where it was when the claims were read, and `Away` does so for
a process that is down or resuming.

The operators of `StepQueue` are taken one by one: each keeps the queue within
its step, or lands the step. The refinement uses `Follows` (nothing that has landed is
taken back) and not `Behind`, because `duo apply` lands a step and completes the
queue in one write.

That Tony follows is proved of steps: when a landing is recorded the cursor moves, and
the same step leads to the place from which `SyncTony` brings him to the head that landed;
a resume brings him there before anything else. Between the two nobody but
Tony's own commit moves his worktree.

### Loop

Assumed is `LoopAssumption`, the types of the budget. A crash puts the session file
in the place of the live state, so `LoopInv` says the same of both (`Kept`): an
event that was accepted is in an inbox or was read, an open consultation is one
whose answer has not been taken, a finished loop has neither an open consultation
nor unread input of the human; and a process that is landing has a loop that may
finish. Three facts carry it. `Ordered`: an inbox is in the order of the IDs, so
that an acknowledgement takes a prefix, and a continuation that drops the batch
above which nobody has read drops nothing else. `Adds`: every rule of the domain but
the acknowledgement, a new round, a continuation and a restart only adds to the
state, so that one lemma serves them all. `Greatest`: a bounded set of wakes that
is not empty has a greatest element, without which the key of the wake that is
sent next (`LoopWake`) would be no key at all.

### Agents

Assumed is `SetupsAssumption`, natural bounds. A command that restarts, switches or
closes an agent holds up to two session objects, each of which may have a CLI that
ends, is reaped and is reported on its own. `Held` is the heart: a CLI that is not
yet reaped belongs to the object the manager holds; `Backed` is its converse,
`Vacant` says where a command stands when there is none, `Pointed` which objects
it holds there, `Marked` that only a stop that is waited for counts as Duo's own,
`Accounted` that an exit nobody asked for has been told or is on its way. One CLI
and no silent loss follow.

`Kept` adds what is known of conversations. `Known` bounds every copy of a number
by what was given out, so that a launch that mints a new one is told from one that
goes on; `Recalled` says that a plugin that prepared a launch still knows what for,
unless it crashed; `Planned` that only the replacement of a driver switch has a plan
made in advance, from no state; `Captured` that an object to be launched by a start,
a model switch or a failed driver switch has a conversation to go on with if it ever
had one. `Owned` follows the blobs: a save takes the name and the state of one
object, and an object keeps its driver. That needs `NoneExplicit`: `duo resume
--driver` hands a driver the checkpoint's blob of another one (section 7).

### Harness

Assumed are `ThresholdsAssumption` (the thresholds are positive and in their order)
and `SetupsAssumption` (a session is of its mode and a queue at its beginning). The
monitor looks at the session now and then and keeps notes in between. `Noted` and
`Marked` say that the notes are of the present stall: while an episode is current
it is Austin's turn, and an Austin for whom a diagnosis was asked has not been
busy since. `Queued` is what the monitor relies on without asking, that a STEP
session in EXECUTE or REVIEW has a step to work on.

### Messages

Nothing is assumed. `Kept` follows every piece of work over the places it can be
at: with an agent, with the pause, with the command that ends it, with a goroutine
that has looked at the pause and not written yet, or lost with a write that failed
or a restart. `Claims` does the same for the one resume prompt of an agent and says
that `resumeWorkAttempted` is set at each of them; `Mail` says what a command may
have left to send (`Fits`), `Pauses` what a pause and its copies are, `Crew` what a
process and its connection are.

`PauseSurvivesHolds` rests on `Asked`: the command that pauses waits for its own
record before it returns, and every later record reads the pause again. It has the
hypothesis `SavesApart`: no setup has both another save of the session and a
restart. With both the property is false (section 7): a save composed before the
pause is written after it.

### Remote

Assumed is `RemoteAssumption`: there are finitely many phones, a phone is no
process, and the bounds are natural numbers; there may be any number of commands.

Two memories keep a copy of a command from running again, and each loses ids: the
relay keeps the last ones, and `markSeen` drops everything it holds when it holds more
than 256 and a new one comes, the recent ones too. So the invariant has an argument
for each. `Work`: a nonce names the process that issued it, that process alone accepts
it, and until it has dropped the id it does not begin a command again. `Memory`: a
command whose id the relay has not dropped is in one place, on its way to a process,
with its session, or run (`OnePlace`). Either is enough, so a
command that runs twice has been dropped by both, which is what
`RunsOnceWhereAddressed` says. TLC has two commands and a `markSeen` that starts
afresh at the second (`KeepSeen = 0`), and a relay that remembers nothing; a command
that really runs twice takes two phones with three commands and is too large for it.

That a refused command has not run is about all the copies of an answer: the one
the process keeps (`Client.last`), sealed in a state by one of its writers, on its way,
kept by the relay for replay, or on the page. `Honest` says of each that an answer
"no" is about a command in `Over`: those the relay has dropped, of which
`RefusedHasNotRun` claims nothing, and those that are in no place and will not be
forwarded again, a set that only grows (`QuietOver`, `ForwardOver`), which is what
keeps an old copy honest.
What the network does comes in two shapes, and each action is one of them: it
brings no command to a process (`Calm`), or forwards one (`Forwards`).

### Interface

Its theorems stand at the end of `Agents_proofs`. Assumed is `ScenesAssumption`, the
types of modes, bridges and bounds. `UInv` gives the types, and with them `Named`: a
question about a mode switch names what `ModeSwitchLoss` says of the View it was read
from (`panel.seen`), and of that View a confirmed switch takes only what was named or
what the question is known to leave out (`NothingUnasked`). That is a comparison of
`modeSwitchLoss` with `switchModeLocked` (`LossIsConfirmedHolds`), no more: what the
session gained between question and answer is marked `late` and discarded unnamed. The
code does that (`NamesWhatGoes`, `LateScenes` in section 7), so nothing is claimed of it.

`ScreenIsCurrent` speaks of quiet moments only; the invariant has to say what is owed
at the others:

* `Notices`: the last word about a connection that is still to be published, or else that
  waits in the interface's subscription, is true, and where there is none the line on the
  screen is. Like the property it claims nothing once an event was dropped (`heard.missed`).
* `ListsAgree`: a catalogue in the picker, or in an answer that has not been taken, is
  the one of the driver the agent runs, and the picker takes only the answer for the
  agent it shows. With a driver switch beside it this is false, the finding of
  `DriverScenes`; hence the first hypothesis.
* `Settled`: there is one pairing request or answer at a time (`Alone`), and a code on
  the screen is the relay's or an answer that replaces it is on its way (`Shown`). Two
  requests break this, the finding of `OverlapScenes`; hence the second hypothesis.

`PaneShowsEntries` is not proved: it compares counts of lines summed over the window of
entries, a fold, with the lines the pane keeps.

### Model-checked only

All liveness (`ApprovalIsAnswered`, `UnreadIsAnnounced`, `PauseIsReached`,
`StallsAreAnswered`, `Converges`, `CloseEnds`, `RequestIsServed`, `HandedOver`) is out
of the prover's reach, as are the facts about every input of a fold over a
sequence. On these rest `Composer` (`BlocksAreWhole` and `ImplementsDocument`, whose
lines and blocks are flattened sequences) and `Transcript` (`PaneShowsEntries`): the
three are checked on the instances of section 3 only.

## 7. Findings

`PROJECT.json` has each with its line and the sentence it contradicts. The gravest:

* `coordinator.go:2304` says `deliverFinal` "never marks
  DONE unless the artifact actually landed". A signature withdrawn while the
  transaction runs leaves the old head landed and recorded as applied with the
  session still in INTEGRATE; the next final approval, of a newer head, meets the
  applied record and goes to DONE. The newer head never lands.

For many the modules keep the instance and the property; to see the
counterexample, check the MC module with these as `Setups` (`ObserverSetups`,
`Scenes`) and property:

| Finding | Setups | Property |
|---|---|---|
| DONE from the record of an older head | `MCDelivery!DoneSetups` | `DoneDelivered` |
| GOAL lands without the test gate after a crash | `MCDelivery!GateSetups` | `GateBeforeLanding` |
| a resume refuses an approved head because of an older pending record | `MCDelivery!RefusedSetups` | `ApprovedIsResumable` |
| a mode switch during a delivery drops its checkpoint | `MCDelivery!SwitchSetups` | `CheckpointInSwitches` |
| a late mode switch drops the record of a later round | `MCDelivery!LateClearSetups` | `ApprovalIsAnswered` |
| STEP: a step that waits for signatures cannot be resumed | `MCSteps!WaitingSetups` | `RefusedWasApproved` |
| STEP: a step that the resume lands leaves Tony behind | `MCSteps!BehindSetups` | `TonyIsCurrent` |
| LOOP: a finish interrupted while it lands makes the next one DONE undelivered | `MCLoop!LateSetups` | `DoneDelivered` |
| a save that was composed before a pause is written after it | `MCMessages!SaveSetups` | `PauseSurvives` |
| an agent that dies in its turn keeps the session pausing | `MCMessages!DiedSetups` | `PauseEnds` |
| the first nudge after a hand-back asks for a diagnosis | `MCHarness!HandedBackSetups` | `AskedAfterTwo` |
| "Sent." for a command the session then refuses | `MCRemote!CommandSetups` | `SentMeansTaken` |
| a writer of a broken connection ends a working one | `MCRemote!BrokenSetups` | `StopsOnlyWhenEnded`, `AlwaysConverges` |
| "will be sent again" and is not | `MCRemote!RemoteSetups` | `SentAgain` |
| the page keeps the older of two states | `remote.cfg` with `InOrder = FALSE` | `Converges` |
| `duo resume --driver` hands a driver the blob of another one | `MCAgents!ExplicitSetups` | `BlobIsOfDriver` |
| a restarted agent begins a new conversation | `MCAgents!RestartedSetups` | `RestartContinues` |
| a restart an agent asks for never happens | `MCSessions!RestartSetups` | `RestartStops` |
| a checkpoint read before the lock overwrites a newer one | `MCSessions!CrossedSetups` | `AcceptedSurvives` |
| a bridge that cannot listen makes `Start` hang | `MCSessions!DeafSetups` | `CloseEnds` |
| a recall takes the record of a delivery | `MCSessions!RecallSetups` | `LandedIsNotRecalled` |
| Ctrl+W, Ctrl+K, Ctrl+U and a mention cut a pasted block apart | `MCComposer!CutSetups` | `BlocksAreWhole` |
| a recall loses the block of the draft | `MCComposer!DraftSetups` | `ImplementsDocument` |
| a paste or a click beside an open file palette | `MCComposer!StaleSetups` | `ImplementsDocument` |
| Enter runs a row of the palette of the frame before | `MCComposer!AheadSetups` | `ImplementsDocument` |
| a paste into a recalled message, a recalled command | `MCComposer!AdoptedSetups` | `ImplementsDocument` |
| the observer is replaced while something is asked of it | `MCObserver!SwapSetups` | `PanelIsHonest`, `RequestIsServed` |
| a key is stored and the settings are not | `MCObserver!KeySetups` | `RunsWhatIsSaved` |
| a finished report is not published to the phone | `MCObserver!PhoneSetups` | `ReportReachesPhone` |
| Esc hides the rows that came during a search | `MCInterface!RestoredScenes` | `PaneShowsEntries` |
| the model panel lists the models of the old driver | `MCInterface!DriverScenes` | `ScreenIsCurrent` |
| a mode switch discards what came while it was asked about | `MCInterface!LateScenes` | `NamesWhatGoes` |
| overlapping pairing requests show a dead code | `MCInterface!OverlapScenes` | `ScreenIsCurrent` |

The others were met while translating and are told in `PROJECT.json` alone.

## 8. How the properties were chosen around the findings

Where the code breaks a promise in one corner, the run checks it outside that
corner, and says so at the definition: the gate in FAST and
the checkpoint without mode switches (`CheckpointBeforeMove`), `AcceptedIsKept` and
`UntouchedLeavesNothing` for processes that do not overlap, `CloseEnds` for launches
whose bridge could listen, `TonyFollowsLandings` apart from a step that the resume
itself records as landed and a landing whose save fails, `PauseSurvives` when
no other save is under way, `StuckIsDiagnosed` unless Tony was away, `Converges`
when decryptions end in order and no writer outlives its connection,
`RequestIsServed` and `PanelIsHonest` while the observer is not replaced under a
request, `RunsWhatIsSaved` while no save fails with a new key, and the
composer's properties for the inputs `setup.known` names only where they are
asked for. The corner itself is a finding.

## 9. Not modelled

* Texts: prompts, notices, plans, titles, reports, translations. The models keep
  who is told and when, not what.
* `events`: beyond the fan-out that `Observer` has: only views subscribe, and no
  protocol state depends on an event.
* The usage ledger: sums under one lock, shown to the human.
* What the observer asks its model and how a report is drawn.
* `mcp`: translates tool calls into protocol messages, one at a time.
* The layout, styles, selection, mouse regions and scrolling overlays of `gotui`, `src/cmd` apart from the commands above, configuration, onboarding,
  doctor, export, completion: presentation and files of the user.
* `xduo`: starts and lists Duo processes in tmux windows; it stands outside the
  sessions.
* The translation of each CLI's output by the driver adapters, plugin discovery
  and catalogs; the agents are nondeterministic here, which includes whatever a
  driver makes them do.
* `duo apply --branch` and `--push`: started by hand, they move a ref of the
  user's own with Git's compare-and-swap, and no session state depends on them.
* Migrations of `state.json`, and the cryptography and registrar of the remote
  control.

About a quarter of the implementation's lines are mapped. More than a quarter of
the code is the terminal interface and another quarter configuration, commands,
adapters and prompts in two languages: code whose correctness is a matter of
reading and of golden tests, and which has no state that several actors share.
