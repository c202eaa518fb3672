------------------------------ MODULE Messages ------------------------------
(***************************************************************************)
(* How Core reaches the agents: the pause and the messages it holds, the   *)
(* resume prompts, the bridge connections and the agent processes behind   *)
(* them (internal/coordinator, internal/transport, internal/agent, and the *)
(* busy flag of internal/harness/tracker.go).                              *)
(*                                                                         *)
(* Every command of the human runs under the session's mutex               *)
(* (Service.Do), so at most one is in progress (do).  Peers and Core send  *)
(* from goroutines of their own (sends): they look at the pause under      *)
(* pauseMu and write to the agent after they have released it.            *)
(***************************************************************************)
EXTENDS Naturals, FiniteSets, SequencesExt

CONSTANT Setups      \* the instances to check, see MCMessages

VARIABLES
  setup,     \* the bounds of this behaviour
  pause, paused, settled,    \* Coordinator.pauseState, paused, settled
  held,      \* Coordinator.held
  busy,      \* tracker: the agent reported a turn that has not settled
  pending,   \* Coordinator.resumePending
  enabled, attempted,        \* resumeWorkEnabled, resumeWorkAttempted
  proc,      \* the agent's process: "running", "exited"
  link,      \* its registered connection: "none", "up", "dead" (its process is gone)
  closing,   \* a connection that was the current one ended, OnDisconnect is to come
  unread,    \* a prompt is in its session that no turn was reported for
  working,   \* the agent is in a turn
  do,        \* the command Service.Do executes, and what it still has to send
  sends,     \* messages that passed the pause check and are not written yet
  emits,     \* goroutines about to record the pause (emitPause)
  saver,     \* another save of the session: the pause it composed, not yet written
  saved,     \* the pause in state.json
  count,     \* what has happened so far, against the bounds
  got, gone, resumes, asked, died    \* ghosts, see the properties

pauseVars == <<pause, paused, settled, held>>
resumeVars == <<pending, enabled, attempted>>
agentVars == <<proc, link, closing, unread, working, busy>>
diskVars == <<saver, saved>>
ghosts == <<got, gone, resumes, asked, died>>
vars == <<setup, pauseVars, resumeVars, agentVars, diskVars, do, sends, emits, count, ghosts>>

Agents == {"Austin", "Tony"}
AgentOrder == <<"Austin", "Tony">>
Both(v) == [a \in Agents |-> v]
NoCommand == [op |-> "none", todo |-> <<>>, failed |-> FALSE]

\* A message to an agent and the pieces of work it carries.
Message(a, kind, work) == [to |-> a, kind |-> kind, work |-> work]

\* One more of what setup bounds.
Spend(what) == /\ count[what] < setup[what]
               /\ count' = [count EXCEPT ![what] = @ + 1]

-----------------------------------------------------------------------------
(* The pause, as the activity of the agents moves it.                       *)

IsAgentConnected(a) == link[a] # "none" \/ proc[a] = "running"

\* Mutant: an agent that is not connected is waited for.
isIdleConnected(a) == IsAgentConnected(a) /\ ~busy[a] /\ settled[a]

isIdle(a) == IsAgentConnected(a) => ~busy[a] /\ settled[a]

PauseSnapshot == [state |-> pause, paused |-> paused]

\* refreshPause after a's state has changed to what the primed variables say.
RefreshPause(a) ==
  LET p == IF pause = "running" THEN paused ELSE [paused EXCEPT ![a] = isIdle(a)']
      q == CASE pause = "pausing" /\ \A b \in Agents : p[b] -> "paused"
             [] pause = "paused" /\ ~p[a] -> "pausing"
             [] OTHER -> pause
  IN  /\ paused' = p
      /\ pause' = q
      /\ emits' = IF <<p, q>> = <<paused, pause>> THEN emits ELSE emits \cup {a}

-----------------------------------------------------------------------------
(* sendToAgent                                                              *)

\* What the pause does to a message: it is held, dropped, or goes out.
Admission(kind) == IF pause = "running" THEN "sent"
                   ELSE IF kind = "work" THEN "held" ELSE "dropped"

\* Where a message to a ends up: a connection whose process is gone still takes it.
Route(a) ==
  IF a \in setup.live /\ link[a] # "none"
  THEN IF link[a] = "up" THEN "reached" ELSE "lost"
  ELSE IF a \in setup.fallback /\ proc[a] = "running" THEN "reached" ELSE "refused"

Reach(m) == /\ unread' = [unread EXCEPT ![m.to] = TRUE]
            /\ got' = [got EXCEPT ![m.to] = @ \cup m.work]

\* The work of messages that reach nobody.
Carried(messages) == UNION {m.work : m \in messages}
Lose(messages) == gone' = gone \cup Carried(messages)

\* A peer, a handler or the monitor sends a piece of work.
Send(a) ==
  /\ Spend("works")
  /\ LET m == Message(a, "work", {count'.works})
     IN  \/ Admission("work") = "held" /\ held' = Append(held, m) /\ UNCHANGED sends
         \/ Admission("work") = "sent" /\ sends' = sends \cup {m} /\ UNCHANGED held
  /\ UNCHANGED <<setup, pause, paused, settled, resumeVars, agentVars, diskVars, do, emits, ghosts>>

\* ... and writes it after it has let go of the lock.
Write(m) ==
  /\ m \in sends
  /\ sends' = sends \ {m}
  /\ CASE Route(m.to) = "reached" -> Reach(m) /\ UNCHANGED gone
       [] OTHER -> Lose({m}) /\ UNCHANGED <<unread, got>>
  /\ resumes' = IF m.kind = "resume" /\ Route(m.to) = "reached"
                THEN [resumes EXCEPT ![m.to] = @ + 1] ELSE resumes
  /\ attempted' = IF m.kind = "resume" /\ Route(m.to) = "refused"
                  THEN [attempted EXCEPT ![m.to] = FALSE] ELSE attempted
  /\ UNCHANGED <<setup, pauseVars, pending, enabled, proc, link, closing, working, busy, diskVars,
                 do, emits, count, asked, died>>

-----------------------------------------------------------------------------
(* The commands of the human.                                               *)

Begin(op, todo) == do.op = "none" /\ do' = [op |-> op, todo |-> todo, failed |-> FALSE]

SetPause ==
  /\ Spend("pauses")
  /\ Begin("pause", <<>>)
  /\ pause = "running"
  /\ paused' = [a \in Agents |-> isIdle(a)]
  /\ pause' = IF \A a \in Agents : isIdle(a) THEN "paused" ELSE "pausing"
  /\ emits' = emits \cup {"do"}
  /\ UNCHANGED <<setup, settled, held, resumeVars, agentVars, diskVars, sends, ghosts>>

CancelPause ==
  /\ pause = "pausing"
  /\ Begin("cancel", held)
  /\ pause' = "running" /\ paused' = Both(FALSE) /\ held' = <<>>
  /\ emits' = emits \cup {"do"}
  /\ asked' = FALSE
  /\ UNCHANGED <<setup, settled, resumeVars, agentVars, diskVars, sends, count, got, gone, resumes, died>>

\* Mutant: only the newest held message is told.
SummaryOfLast(a) == IF held # <<>> /\ Last(held).to = a THEN Last(held).work ELSE {}

\* What was held for a, in one prompt.
Summary(a) == Carried({m \in ToSet(held) : m.to = a})

ContinuePause ==
  /\ pause = "paused"
  /\ Begin("continue", [i \in 1..2 |-> Message(AgentOrder[i], "continue", Summary(AgentOrder[i]))])
  /\ pause' = "running" /\ paused' = Both(FALSE) /\ held' = <<>>
  /\ pending' = FALSE
  /\ emits' = emits \cup {"do"}
  /\ asked' = FALSE
  /\ UNCHANGED <<setup, settled, enabled, attempted, agentVars, diskVars, sends, count,
                 got, gone, resumes, died>>

SubmitUserTask ==
  /\ Spend("works")
  /\ pause = "running" /\ IsAgentConnected("Austin")
  /\ Begin("task", <<Message("Austin", "work", {count'.works})>>)
  /\ pending' = FALSE
  /\ UNCHANGED <<setup, pauseVars, enabled, attempted, agentVars, diskVars, sends, emits, ghosts>>

RequestResumeWork ==
  /\ pause = "running" /\ pending
  /\ Begin("resume", [i \in 1..2 |-> Message(AgentOrder[i], "resume", {})])
  /\ enabled' = TRUE
  /\ UNCHANGED <<setup, pauseVars, pending, attempted, agentVars, diskVars, sends, emits, count, ghosts>>

\* deliverResumeWork claims the one prompt of an agent before it sends it.
CanClaim(a) == enabled /\ ~attempted[a]

\* RequestResumeWork passes over agents that are not there or have had their prompt.
ResumeNext ==
  /\ do.op = "resume" /\ do.todo # <<>> /\ Head(do.todo).kind = "resume"
  /\ LET a == Head(do.todo).to
     IN  IF IsAgentConnected(a) /\ CanClaim(a)
         THEN /\ attempted' = [attempted EXCEPT ![a] = TRUE]
              /\ do' = [do EXCEPT !.todo = <<Message(a, "claimed", {})>> \o Tail(@)]
         ELSE /\ do' = [do EXCEPT !.todo = Tail(@)]
              /\ UNCHANGED attempted
  /\ UNCHANGED <<setup, pauseVars, pending, enabled, agentVars, diskVars, sends, emits, count, ghosts>>

\* The command's next message: no other command can pause the session meanwhile.
DoSend ==
  /\ do.todo # <<>> /\ "do" \notin emits
  /\ LET m == Head(do.todo)
         reached == Route(m.to) = "reached"
         refused == Route(m.to) = "refused"
     IN  /\ do.op \in {"cancel", "continue", "task"} \/ m.kind = "claimed"
         /\ IF reached THEN Reach(m) ELSE UNCHANGED <<unread, got>>
         /\ resumes' = IF m.kind = "claimed" /\ reached THEN [resumes EXCEPT ![m.to] = @ + 1] ELSE resumes
         /\ attempted' = IF m.kind = "claimed" /\ refused THEN [attempted EXCEPT ![m.to] = FALSE] ELSE attempted
         \* A continue that cannot reach Austin returns: Tony's summary goes with it.
         /\ IF do.op = "continue" /\ refused
            THEN /\ do' = [do EXCEPT !.todo = <<>>]
                 /\ Lose(ToSet(do.todo))
            ELSE /\ do' = [do EXCEPT !.todo = Tail(@), !.failed = @ \/ refused]
                 /\ Lose(IF reached THEN {} ELSE {m})
  /\ UNCHANGED <<setup, pauseVars, pending, enabled, proc, link, closing, working, busy, diskVars,
                 sends, emits, count, asked, died>>

DoDone ==
  /\ do.op \notin {"none", "switch", "replaced"} /\ do.todo = <<>> /\ "do" \notin emits
  /\ do' = NoCommand
  /\ asked' = (asked \/ do.op = "pause")
  /\ pending' = (pending /\ (do.op = "resume" => do.failed))
  /\ UNCHANGED <<setup, pauseVars, enabled, attempted, agentVars, diskVars, sends, emits, count,
                 got, gone, resumes, died>>

-----------------------------------------------------------------------------
(* Agent processes and their connections.                                   *)

\* The process of a is replaced by one that has not said anything yet.
Launch(a) ==
  /\ proc' = [proc EXCEPT ![a] = "running"]
  /\ working' = [working EXCEPT ![a] = FALSE]
  /\ unread' = [unread EXCEPT ![a] = FALSE]
  /\ link' = IF link[a] = "up" THEN [link EXCEPT ![a] = "dead"] ELSE link
  /\ died' = (died \/ working[a] \/ unread[a])
  /\ UNCHANGED <<busy, settled, closing>>
  /\ RefreshPause(a)

Restart(a) ==
  /\ proc[a] = "exited" /\ a \notin emits
  /\ Begin("replaced", <<Message(a, "reset", {})>>)
  /\ Launch(a)
  /\ UNCHANGED <<setup, held, resumeVars, diskVars, sends, count, got, gone, resumes, asked>>

\* /driver: allowed while the session is paused and the agent is not busy ...
BeginDriverSwitch(a) ==
  /\ Spend("switches")
  /\ pause = "paused" /\ ~busy[a]
  /\ Begin("switch", <<Message(a, "reset", {})>>)
  /\ UNCHANGED <<setup, pauseVars, resumeVars, agentVars, diskVars, sends, emits, ghosts>>

\* ... which the replacement no longer looks at.
Replace(a) ==
  /\ do.op = "switch" /\ do.todo[1].to = a /\ a \notin emits
  /\ do' = [do EXCEPT !.op = "replaced"]
  /\ Launch(a)
  /\ UNCHANGED <<setup, held, resumeVars, diskVars, sends, count, got, gone, resumes, asked>>

\* The command's last step resets what the tracker knew of the agent.
Replaced(a) ==
  /\ do.op = "replaced" /\ do.todo[1].to = a
  /\ busy' = [busy EXCEPT ![a] = FALSE]
  /\ do' = NoCommand
  /\ UNCHANGED <<setup, pauseVars, resumeVars, proc, link, closing, unread, working, diskVars, sends,
                 emits, count, ghosts>>

Exit(a) ==
  /\ Spend("exits")
  /\ proc[a] = "running" /\ a \notin emits
  /\ proc' = [proc EXCEPT ![a] = "exited"]
  /\ working' = [working EXCEPT ![a] = FALSE]
  /\ unread' = [unread EXCEPT ![a] = FALSE]
  /\ link' = IF link[a] = "up" THEN [link EXCEPT ![a] = "dead"] ELSE link
  /\ died' = (died \/ working[a] \/ unread[a])
  /\ UNCHANGED <<busy, settled, closing>>
  /\ RefreshPause(a)
  /\ UNCHANGED <<setup, held, resumeVars, diskVars, do, sends, got, gone, resumes, asked>>

\* The server registers the connection in place of the one it had, if any.
Connect(a) ==
  /\ a \in setup.live /\ proc[a] = "running" /\ link[a] # "up"
  /\ link' = [link EXCEPT ![a] = "up"]
  /\ IF CanClaim(a)
     THEN /\ attempted' = [attempted EXCEPT ![a] = TRUE]
          /\ sends' = IF Admission("resume") = "sent"
                      THEN sends \cup {Message(a, "resume", {})} ELSE sends
     ELSE UNCHANGED <<attempted, sends>>
  /\ UNCHANGED <<setup, pauseVars, pending, enabled, proc, closing, unread, working, busy, diskVars,
                 do, emits, count, ghosts>>

\* The server's loop over a connection ends; only the current one is a disconnect.
ConnectionEnds(a) ==
  /\ link[a] = "dead"
  /\ link' = [link EXCEPT ![a] = "none"]
  /\ closing' = [closing EXCEPT ![a] = TRUE]
  /\ UNCHANGED <<setup, pauseVars, resumeVars, proc, unread, working, busy, diskVars, do, sends,
                 emits, count, ghosts>>

OnDisconnect(a) ==
  /\ closing[a]
  /\ closing' = [closing EXCEPT ![a] = FALSE]
  /\ busy' = [busy EXCEPT ![a] = FALSE]
  /\ UNCHANGED <<setup, pauseVars, resumeVars, proc, link, unread, working, diskVars, do, sends,
                 emits, count, ghosts>>

\* An agent's activity arrives over its connection, one report at a time.
CanReport(a) == proc[a] = "running" /\ (a \in setup.live => link[a] = "up") /\ a \notin emits

TurnStart(a) ==
  /\ CanReport(a) /\ ~working[a] /\ unread[a]
  /\ working' = [working EXCEPT ![a] = TRUE]
  /\ unread' = [unread EXCEPT ![a] = FALSE]
  /\ busy' = [busy EXCEPT ![a] = TRUE]
  /\ settled' = [settled EXCEPT ![a] = FALSE]
  /\ UNCHANGED <<proc, link, closing>>
  /\ RefreshPause(a)
  /\ UNCHANGED <<setup, held, resumeVars, diskVars, do, sends, count, ghosts>>

TurnEnd(a) ==
  /\ CanReport(a) /\ working[a]
  /\ working' = [working EXCEPT ![a] = FALSE]
  /\ busy' = [busy EXCEPT ![a] = FALSE]
  /\ settled' = [settled EXCEPT ![a] = TRUE]
  /\ UNCHANGED <<proc, link, closing, unread>>
  /\ RefreshPause(a)
  /\ UNCHANGED <<setup, held, resumeVars, diskVars, do, sends, count, ghosts>>

-----------------------------------------------------------------------------
(* The pause on disk.                                                       *)

\* emitPause reads the pause again when its turn has come.
EmitPause(t) ==
  /\ t \in emits
  /\ emits' = emits \ {t}
  /\ saved' = PauseSnapshot
  /\ UNCHANGED <<setup, pauseVars, resumeVars, agentVars, saver, do, sends, count, ghosts>>

\* Any other save composes the session first and writes it later.
Compose ==
  /\ Spend("saves")
  /\ saver = {}
  /\ saver' = {PauseSnapshot}
  /\ UNCHANGED <<setup, pauseVars, resumeVars, agentVars, saved, do, sends, emits, ghosts>>

WriteComposed ==
  /\ saver # {}
  /\ saved' = CHOOSE p \in saver : TRUE
  /\ saver' = {}
  /\ UNCHANGED <<setup, pauseVars, resumeVars, agentVars, do, sends, emits, count, ghosts>>

\* Mutant: only a completed pause is restored.
RestorePauseWhenDone ==
  LET hold == saved.state = "paused"
  IN  /\ pause' = IF hold THEN "paused" ELSE "running"
      /\ paused' = IF saved.state = "paused" THEN saved.paused ELSE Both(hold)
      /\ pending' = ~hold

\* RestorePause and HoldResume: no agent is connected yet, so each one counts as idle.
RestorePause ==
  LET hold == saved.state # "running"
  IN  /\ pause' = IF hold THEN "paused" ELSE "running"
      /\ paused' = IF saved.state = "paused" THEN saved.paused ELSE Both(hold)
      /\ pending' = ~hold

\* Duo stops at any point and is resumed; the agents are launched anew.
DuoRestarts ==
  /\ Spend("restarts")
  /\ RestorePause
  /\ settled' = Both(TRUE) /\ busy' = Both(FALSE) /\ held' = <<>>
  /\ enabled' = FALSE /\ attempted' = Both(FALSE)
  /\ proc' = Both("running") /\ link' = Both("none") /\ closing' = Both(FALSE)
  /\ unread' = Both(FALSE) /\ working' = Both(FALSE)
  /\ do' = NoCommand /\ sends' = {} /\ emits' = {} /\ saver' = {}
  /\ saved' = [state |-> pause', paused |-> paused']
  /\ Lose(sends \cup ToSet(held) \cup ToSet(do.todo))
  /\ resumes' = Both(0)
  /\ UNCHANGED <<setup, got, asked, died>>

-----------------------------------------------------------------------------

Init ==
  /\ setup \in Setups
  /\ pause = "running" /\ paused = Both(FALSE) /\ settled = Both(TRUE) /\ held = <<>>
  /\ pending = setup.resumed /\ enabled = FALSE /\ attempted = Both(FALSE)
  /\ proc = Both("running") /\ link = Both("none") /\ closing = Both(FALSE)
  /\ unread = Both(FALSE) /\ working = Both(FALSE) /\ busy = Both(FALSE)
  /\ saver = {} /\ saved = PauseSnapshot
  /\ do = NoCommand /\ sends = {} /\ emits = {}
  /\ count = [works |-> 0, pauses |-> 0, exits |-> 0, switches |-> 0, saves |-> 0, restarts |-> 0]
  /\ got = Both({}) /\ gone = {} /\ resumes = Both(0) /\ asked = FALSE /\ died = FALSE

Command == \/ SetPause \/ CancelPause \/ ContinuePause \/ SubmitUserTask \/ RequestResumeWork
           \/ \E a \in Agents : Restart(a) \/ BeginDriverSwitch(a)

Progress == \/ ResumeNext \/ DoSend \/ DoDone
            \/ \E a \in Agents : Replace(a) \/ Replaced(a)

Next ==
  \/ Command
  \/ Progress
  \/ \E a \in Agents : \/ Send(a) \/ Exit(a) \/ Connect(a) \/ ConnectionEnds(a) \/ OnDisconnect(a)
                       \/ TurnStart(a) \/ TurnEnd(a)
  \/ \E m \in sends : Write(m)
  \/ \E t \in emits : EmitPause(t)
  \/ Compose \/ WriteComposed
  \/ DuoRestarts

Spec == Init /\ [][Next]_vars

\* Goroutines that can go on do, connections are made and their ends noticed, and an
\* agent that has a prompt takes its turn and ends it.
FairSpec ==
  /\ Spec
  /\ WF_vars(Progress)
  /\ WF_vars(\E m \in sends : Write(m))
  /\ \A a \in Agents : /\ WF_vars(EmitPause(a)) /\ WF_vars(Connect(a))
                       /\ WF_vars(ConnectionEnds(a)) /\ WF_vars(OnDisconnect(a))
                       /\ WF_vars(TurnStart(a)) /\ WF_vars(TurnEnd(a))
  /\ WF_vars(EmitPause("do"))

-----------------------------------------------------------------------------

TypeOK ==
  /\ pause \in {"running", "pausing", "paused"}
  /\ paused \in [Agents -> BOOLEAN] /\ (pause = "running" => paused = Both(FALSE))
  /\ (pause = "paused" => paused = Both(TRUE))
  /\ link \in [Agents -> {"none", "up", "dead"}] /\ proc \in [Agents -> {"running", "exited"}]
  /\ \A a \in Agents : /\ link[a] = "up" => proc[a] = "running"
                       /\ working[a] => proc[a] = "running"
  /\ \A i \in DOMAIN held : pause # "running" /\ held[i].kind = "work"
  /\ emits \subseteq Agents \cup {"do"}
  /\ saved \in [state : {"running", "pausing", "paused"}, paused : [Agents -> BOOLEAN]]

\* A resumed session prompts each agent once, whoever finds it connected first.
OneResumePrompt == \A a \in Agents : resumes[a] <= 1

\* No work that was accepted from a peer, a handler or the human disappears in a pause, a
\* cancelled pause or a continue: it is held, on its way, or with an agent it was meant
\* for, unless a write failed or Duo was restarted.  And the prompt that ends the wait of
\* a resumed session is not sent twice.
HeldIsKept ==
  TypeOK /\ OneResumePrompt /\ \A w \in 1..count.works :
    \/ w \in gone
    \/ \E a \in Agents : w \in got[a]
    \/ w \in Carried(sends \cup ToSet(held) \cup ToSet(do.todo))

\* A pause the human was told of survives a crash of Duo until the human ends it.
PauseSurvives == asked => pause # "running"

\* A pause that was asked for is reached when the turns under way have ended, unless an
\* agent died in its turn.
PauseIsReached == (pause = "pausing") ~> (pause # "pausing" \/ died)

\* What the commands promise: the pause waits for nothing but the turns under way.
PauseEnds == (pause = "pausing") ~> (pause # "pausing")
=============================================================================
