------------------------------ MODULE Harness ------------------------------
(***************************************************************************)
(* The idle monitor (internal/harness): once per tick it looks at what the *)
(* tracker knows of the two agents and at the session's state, and prompts *)
(* whoever has to move next, asks Tony for a diagnosis of a stuck Austin,  *)
(* or reports a stalled LOOP agent.                                        *)
(*                                                                         *)
(* Time is counted in ticks, each age up to the threshold that matters.    *)
(* The session is a record of Project or of StepQueue and moves by their   *)
(* operators; what the agents commit and write is left out.                *)
(***************************************************************************)
EXTENDS StepQueue, FiniteSets

CONSTANTS
  IdleThreshold, StallThreshold, Cooldown, RecoveryGrace,    \* Config, in ticks
  Setups                                                     \* see MCHarness

ASSUME ThresholdsAssumption ==
  /\ IdleThreshold \in Nat \ {0} /\ StallThreshold \in Nat /\ StallThreshold > IdleThreshold
  /\ Cooldown \in Nat \ {0} /\ RecoveryGrace \in Nat

\* A session is of its mode and, in STEP, at its beginning.
ASSUME SetupsAssumption ==
  \A s \in Setups :
    /\ s.mode \in {"GOAL", "FAST", "STEP", "LOOP"}
    /\ s.mode = "FAST" => s.session \in ProjectState /\ s.session.mode = "FAST"
    /\ s.mode = "STEP" =>
         /\ s.session \in StepState /\ s.session.phase = "PLAN"
         /\ \A i \in DOMAIN s.session.steps : ~Ticked(s.session.steps[i])

VARIABLES
  setup,     \* mode, policies of the steps, and the bounds of this behaviour
  p,         \* the session: a Project record, or a StepQueue record in STEP
  started,   \* Snapshot.Started
  rt,        \* Tracker.agents
  link,      \* IsAgentConnected
  held,      \* HarnessHeld: paused, or held after a quiet mode switch
  mutated,   \* ticks since Snapshot.LastMutation
  grace,     \* ticks left of the recovery grace
  rested,    \* ticks since Monitor.lastWake, up to the cooldown
  fast,      \* Monitor.fast
  stalls,    \* Monitor.loopStalls[a] is the LastActivity of a
  sent,      \* what the monitor has sent in its last look
  count,     \* what has happened so far, against the bounds
  asked,     \* ghost: diagnoses of the present stall of Austin
  missed,    \* ghost: one of them was due while Tony was away
  prompts,   \* ghost: nudges of Austin in it
  reported   \* ghost: reports of the present stall of a LOOP agent

monitorVars == <<grace, rested, fast, stalls, sent>>
ghosts == <<asked, missed, prompts, reported>>
vars == <<setup, p, started, rt, link, held, mutated, monitorVars, count, ghosts>>

Spend(what) == /\ count[what] < setup[what]
               /\ count' = [count EXCEPT ![what] = @ + 1]

Older(age, bound) == IF age < bound THEN age + 1 ELSE bound

-----------------------------------------------------------------------------
(* The tracker.                                                             *)

\* quiet is the age of LastActivity; NewTracker and Reset.
NewRuntime == [quiet |-> 0, busy |-> FALSE, provider |-> FALSE, tools |-> 0, failures |-> 0,
           attached |-> FALSE]

Activities == {"agent_start", "agent_settled", "provider_start", "provider_end", "tool_start",
               "tool_end", "stream"}

\* Tracker.Handle.
Handled(r, activity) ==
  LET t == [r EXCEPT !.quiet = 0]
  IN  CASE activity = "agent_start" -> [t EXCEPT !.busy = TRUE, !.failures = 0]
        [] activity = "agent_settled" -> [t EXCEPT !.busy = FALSE, !.provider = FALSE, !.tools = 0]
        [] activity = "provider_start" -> [t EXCEPT !.busy = TRUE, !.provider = TRUE]
        [] activity = "provider_end" -> [t EXCEPT !.provider = FALSE]
        [] activity = "tool_start" -> [t EXCEPT !.busy = TRUE, !.provider = FALSE, !.tools = @ + 1]
        [] activity = "tool_end" -> [t EXCEPT !.tools = IF @ > 0 THEN @ - 1 ELSE 0]
        [] activity = "stream" -> [t EXCEPT !.busy = TRUE]

Active(a) == rt[a].busy \/ rt[a].provider \/ rt[a].tools > 0

\* LastActivity of a moves on: the monitor's notes of its last value are out of date.
Noticed(a, r) ==
  /\ rt' = [rt EXCEPT ![a] = r]
  /\ fast' = IF a = "Austin" /\ fast.seen = "current" THEN [fast EXCEPT !.seen = "old"] ELSE fast
  /\ stalls' = [stalls EXCEPT ![a] = FALSE]
  /\ asked' = IF a = "Austin" THEN 0 ELSE asked
  /\ missed' = (a # "Austin" /\ missed)
  /\ prompts' = IF a = "Austin" THEN 0 ELSE prompts
  /\ reported' = [reported EXCEPT ![a] = 0]

Activity(a, activity) ==
  /\ Spend("activities")
  /\ link[a]
  /\ activity = "tool_start" => rt[a].tools = 0
  /\ Noticed(a, Handled(rt[a], activity))
  /\ started' = (started \/ activity = "agent_start")
  /\ sent' = {}
  /\ UNCHANGED <<setup, p, link, held, mutated, grace, rested>>

\* handleAgentError.
AgentError(a) ==
  /\ Spend("errors")
  /\ link[a]
  /\ Noticed(a, [rt[a] EXCEPT !.quiet = 0, !.failures = @ + 1])
  /\ sent' = {}
  /\ UNCHANGED <<setup, p, started, link, held, mutated, grace, rested>>

\* The human attaches to the agent's terminal and leaves it.
Attach(a) ==
  /\ Spend("attaches")
  /\ Noticed(a, [rt[a] EXCEPT !.quiet = 0, !.attached = ~@])
  /\ sent' = {}
  /\ UNCHANGED <<setup, p, started, link, held, mutated, grace, rested>>

\* OnDisconnect forgets what the agent was doing, OnConnect touches it.
Disconnect(a) ==
  /\ Spend("disconnects")
  /\ link[a]
  /\ link' = [link EXCEPT ![a] = FALSE]
  /\ Noticed(a, NewRuntime)
  /\ sent' = {}
  /\ UNCHANGED <<setup, p, started, held, mutated, grace, rested>>

Connect(a) ==
  /\ ~link[a]
  /\ link' = [link EXCEPT ![a] = TRUE]
  /\ Noticed(a, [rt[a] EXCEPT !.quiet = 0])
  /\ sent' = {}
  /\ UNCHANGED <<setup, p, started, held, mutated, grace, rested, count>>

Hold ==
  /\ Spend("holds")
  /\ held' = ~held
  /\ sent' = {}
  /\ UNCHANGED <<setup, p, started, rt, link, mutated, grace, rested, fast, stalls, ghosts>>

-----------------------------------------------------------------------------
(* The session moves: each agent's calls go through a Core handler, which   *)
(* touches the agent, and State notes the mutation.                         *)

Target == HeadRef(1)

Moved(a, q) ==
  /\ Spend("moves")
  /\ link[a]
  /\ p' = q
  /\ mutated' = 0
  /\ Noticed(a, [rt[a] EXCEPT !.quiet = 0])
  /\ sent' = {}
  /\ UNCHANGED <<setup, started, link, held, grace, rested>>

AgentMoves(a) ==
  \/ /\ setup.mode \in {"GOAL", "FAST"}
     /\ \/ CanSetReady(p, a, TRUE, Target) /\ Moved(a, SetReady(p, a, TRUE, Target))
        \/ a = "Tony" /\ \E result \in {"passed", "issue"} :
             CanSetVerification(p, result, Target) /\ Moved(a, SetVerification(p, result))
  \/ /\ setup.mode = "STEP"
     /\ \/ CanSetStepReady(p, a, TRUE) /\ Moved(a, SetStepReady(p, a, TRUE, Target))
        \/ a = "Tony" /\ \E result \in {"passed", "issue"} :
             CanVerify(p, result, Target) /\ Moved(a, Verify(p, result))

\* Core lands a step, or finishes the session, when it has been approved.
CoreMoves ==
  /\ \/ setup.mode \in {"GOAL", "FAST"} /\ CanComplete(p) /\ p' = Complete(p)
     \/ setup.mode = "STEP" /\ CanLandStep(p, HeadRef(Cursor(p)))
        /\ (IF IsFinal(p) THEN BothReady(p)
            ELSE PolicyOf(p) = "GOAL" => BothReady(p))
        /\ LET q == LandStep(p, HeadRef(Cursor(p)))
           IN  p' = IF CanCompleteQueue(q) THEN CompleteQueue(q) ELSE q
  /\ mutated' = 0 /\ asked' = 0 /\ missed' = FALSE /\ prompts' = 0
  /\ sent' = {}
  /\ UNCHANGED <<setup, started, rt, link, held, grace, rested, fast, stalls, count, reported>>

-----------------------------------------------------------------------------
(* The monitor: maybeWake and the look of each mode.                        *)

Prompt(a, kind) == [to |-> a, kind |-> kind]

Connected == {a \in Agents : link[a]}
QuietFor(a) == IF mutated < rt[a].quiet THEN mutated ELSE rt[a].quiet
Stalled(a) == QuietFor(a) >= StallThreshold
Rested == rested >= Cooldown

\* The look ends without a word.
Nothing == sent' = {} /\ UNCHANGED <<rt, rested, fast, stalls, ghosts>>

Touched(as) == rt' = [a \in Agents |-> IF a \in as THEN [rt[a] EXCEPT !.quiet = 0] ELSE rt[a]]

\* Touch by the monitor: fast.lastAustin falls behind as well.
Touches(as) ==
  /\ Touched(as)
  /\ fast' = IF "Austin" \in as /\ fast.seen = "current" THEN [fast EXCEPT !.seen = "old"] ELSE fast
  /\ UNCHANGED <<stalls, ghosts>>

GoalIdle ==
  /\ Connected = Agents /\ p.phase # "DONE"
  /\ ~(p.phase = "INTEGRATE" /\ BothReady(p))
  /\ \A a \in Agents : ~rt[a].attached
  /\ \/ \A a \in Agents : ~Active(a) /\ QuietFor(a) >= IdleThreshold
     \/ \A a \in Agents : Stalled(a)

LookGoal ==
  IF GoalIdle /\ Rested
  THEN /\ sent' = {Prompt("Austin", "nudge")}
       /\ rested' = 0
       /\ Touches({"Austin"})
  ELSE Nothing

NoEpisode == [phase |-> "none", nudges |-> 0, diagnosed |-> FALSE, seen |-> "none"]
Episode(phase, seen) == [phase |-> phase, nudges |-> 0, diagnosed |-> FALSE, seen |-> seen]

\* beginFastNudge: another phase is another episode.
Begun(f, phase) == IF f.phase # phase THEN Episode(phase, f.seen) ELSE f

Nudged(f) == [f EXCEPT !.nudges = Older(@, 2)]

\* Mutant: the diagnosis is not noted.
Unclaimed(f, due) == f

\* claimFastDiagnosis: noted whether or not Tony can be asked.
Claimed(f, due) == IF due THEN [f EXCEPT !.diagnosed = TRUE] ELSE f

\* Mutant: an agent that says it is busy is believed for ever.
BelievedBusy(a) == Active(a)

\* An agent that is at work, unless nothing has moved for too long.
Busy(a) == Active(a) /\ ~Stalled(a)

\* sendFastDiagnosis, for as many claims as were granted in this look.
Diagnose(claims) ==
  /\ asked' = IF "Tony" \in Connected THEN asked + claims ELSE asked
  /\ missed' = (missed \/ (claims > 0 /\ "Tony" \notin Connected))
  /\ UNCHANGED reported

FastAustin ==
  LET f0 == IF fast.seen = "none" THEN [fast EXCEPT !.seen = "current", !.phase = "RUNNING"] ELSE fast
      due1 == rt["Austin"].failures > 0 /\ ~f0.diagnosed
      f1 == Claimed(f0, due1)
      idle == QuietFor("Austin") >= IdleThreshold
      f2 == Begun(f1, "RUNNING")
      f3 == Nudged(f2)
      due2 == f3.nudges >= 2 /\ ~f3.diagnosed
      ask(due) == IF due /\ "Tony" \in Connected THEN {Prompt("Tony", "diagnosis")} ELSE {}
  IN  CASE ~link["Austin"] \/ rt["Austin"].attached -> Nothing
        [] fast.seen = "old" /\ link["Austin"] /\ ~rt["Austin"].attached ->
             /\ fast' = Episode("RUNNING", "current")
             /\ sent' = {} /\ UNCHANGED <<rt, rested, stalls, ghosts>>
        [] OTHER ->
             /\ UNCHANGED <<rt, stalls>>
             /\ \/ /\ Busy("Austin")
                   /\ fast' = NoEpisode /\ sent' = {}
                   /\ UNCHANGED <<rested, ghosts>>
                \/ /\ ~Busy("Austin") /\ ~idle
                   /\ fast' = f1 /\ sent' = ask(due1)
                   /\ Diagnose(IF due1 THEN 1 ELSE 0) /\ UNCHANGED prompts
                   /\ UNCHANGED rested
                \/ /\ ~Busy("Austin") /\ idle /\ ~Rested
                   /\ fast' = f2 /\ sent' = ask(due1)
                   /\ Diagnose(IF due1 THEN 1 ELSE 0) /\ UNCHANGED prompts
                   /\ UNCHANGED rested
                \/ /\ ~Busy("Austin") /\ idle /\ Rested
                   /\ fast' = Claimed(f3, due2)
                   /\ sent' = ask(due1) \cup ask(due2) \cup {Prompt("Austin", "nudge")}
                   /\ Diagnose(Cardinality({i \in 1..2 : <<due1, due2>>[i]}))
                   /\ prompts' = Older(prompts, 2)
                   /\ rested' = 0

FastTony ==
  IF /\ link["Tony"] /\ ~rt["Tony"].attached
     /\ QuietFor("Tony") >= IdleThreshold /\ ~Busy("Tony")
  THEN /\ fast' = IF Rested THEN Nudged(Begun(fast, "VERIFY")) ELSE Begun(fast, "VERIFY")
       /\ sent' = IF Rested THEN {Prompt("Tony", "nudge")} ELSE {}
       /\ rested' = IF Rested THEN 0 ELSE rested
       /\ UNCHANGED <<rt, stalls, ghosts>>
  ELSE Nothing

LookFast ==
  CASE p.phase = "RUNNING" -> FastAustin
    [] p.phase = "VERIFY" /\ p.verdict.status # "passed" -> FastTony
    [] OTHER -> Nothing

Missing == {a \in Agents : ~p.ready[a]}

\* Mutant: a FAST step in review is Austin's.
TargetsAustin ==
  CASE p.phase = "PLAN" -> Missing
    [] p.phase \in {"EXECUTE", "REVIEW"} -> IF PolicyOf(p) = "GOAL" THEN Missing ELSE {"Austin"}
    [] p.phase = "INTEGRATE" /\ (IsFinal(p) \/ PolicyOf(p) = "GOAL") -> Missing
    [] OTHER -> {}

\* stepNudgeTargets.
Targets ==
  CASE p.phase = "PLAN" -> Missing
    [] p.phase = "EXECUTE" -> IF PolicyOf(p) = "GOAL" THEN Missing ELSE {"Austin"}
    [] p.phase = "REVIEW" -> IF PolicyOf(p) = "GOAL" THEN Missing ELSE {"Tony"}
    [] p.phase = "INTEGRATE" /\ (IsFinal(p) \/ PolicyOf(p) = "GOAL") -> Missing
    [] OTHER -> {}

LookStep ==
  LET idle == {a \in Targets \cap Connected : ~rt[a].attached /\ ~Busy(a)
                                              /\ QuietFor(a) >= IdleThreshold}
  IN  IF p.phase # "DONE" /\ idle # {} /\ Rested
      THEN /\ sent' = {Prompt(a, "nudge") : a \in idle}
           /\ rested' = 0
           /\ Touches(idle)
      ELSE Nothing

\* diagnoseLoop: the first of the stalled agents takes the cooldown.
LookLoop ==
  LET stalled == {a \in Connected : ~rt[a].attached /\ rt[a].busy
                                    /\ rt[a].quiet >= StallThreshold /\ ~stalls[a]}
      first == IF "Austin" \in stalled THEN "Austin" ELSE "Tony"
  IN  IF stalled # {} /\ Rested
      THEN /\ sent' = {Prompt(first, "report")}
           /\ rested' = 0
           /\ stalls' = [stalls EXCEPT ![first] = TRUE]
           /\ reported' = [reported EXCEPT ![first] = @ + 1]
           /\ UNCHANGED <<rt, fast, asked, missed, prompts>>
      ELSE Nothing

Look ==
  CASE held \/ grace > 0 \/ ~started -> Nothing
    [] setup.mode = "GOAL" /\ ~held /\ grace = 0 /\ started -> LookGoal
    [] setup.mode = "FAST" /\ ~held /\ grace = 0 /\ started -> LookFast
    [] setup.mode = "STEP" /\ ~held /\ grace = 0 /\ started -> LookStep
    [] OTHER -> LookLoop

MonitorLooks ==
  /\ Look
  /\ UNCHANGED <<setup, p, started, link, held, mutated, grace, count>>

\* A tick passes.
TimePasses ==
  /\ rt' = [a \in Agents |-> [rt[a] EXCEPT !.quiet = Older(@, StallThreshold)]]
  /\ mutated' = Older(mutated, StallThreshold)
  /\ rested' = Older(rested, Cooldown)
  /\ grace' = IF grace > 0 THEN grace - 1 ELSE 0
  /\ sent' = {}
  /\ UNCHANGED <<setup, p, started, link, held, fast, stalls, count, ghosts>>

-----------------------------------------------------------------------------

Init ==
  /\ setup \in Setups
  /\ p = setup.session /\ started = FALSE
  /\ rt = [a \in Agents |-> NewRuntime] /\ link = [a \in Agents |-> TRUE]
  /\ held = FALSE /\ mutated = 0
  /\ grace = RecoveryGrace /\ rested = Cooldown
  /\ fast = NoEpisode /\ stalls = [a \in Agents |-> FALSE] /\ sent = {}
  /\ count = [activities |-> 0, errors |-> 0, attaches |-> 0, disconnects |-> 0, holds |-> 0,
              moves |-> 0]
  /\ asked = 0 /\ missed = FALSE /\ prompts = 0 /\ reported = [a \in Agents |-> 0]

Next ==
  \/ \E a \in Agents : \/ \E activity \in Activities : Activity(a, activity)
                       \/ AgentError(a) \/ Attach(a) \/ Disconnect(a) \/ Connect(a) \/ AgentMoves(a)
  \/ Hold \/ CoreMoves
  \/ MonitorLooks \/ TimePasses

Spec == Init /\ [][Next]_vars

\* The ticker ticks and the monitor's goroutine looks.
FairSpec == Spec /\ WF_vars(MonitorLooks) /\ WF_vars(TimePasses)

-----------------------------------------------------------------------------

Rows == [quiet : 0..StallThreshold, busy : BOOLEAN, provider : BOOLEAN, tools : 0..1,
         failures : Nat, attached : BOOLEAN]

TypeOK ==
  /\ rt \in [Agents -> Rows]
  /\ rested \in 0..Cooldown /\ mutated \in 0..StallThreshold /\ grace \in 0..RecoveryGrace
  /\ fast \in [phase : {"none", "RUNNING", "VERIFY"}, nudges : 0..2, diagnosed : BOOLEAN,
               seen : {"none", "current", "old"}]
  /\ \A a \in Agents : (rt[a].provider \/ rt[a].tools > 0) => rt[a].busy

\* As long as Austin shows no sign of life and nothing lands, Tony is asked for one
\* diagnosis, and a stalled LOOP agent is reported once.
OncePerStall == TypeOK /\ asked <= 1 /\ \A a \in Agents : reported[a] <= 1

\* Who the session waits for: an agent whose next approval would move it.
Awaited(a) ==
  CASE setup.mode = "GOAL" -> p.phase # "DONE" /\ ~p.ready[a]
    [] setup.mode = "FAST" -> \/ a = "Austin" /\ p.phase = "RUNNING"
                              \/ a = "Tony" /\ p.phase = "VERIFY" /\ p.verdict.status # "passed"
    [] setup.mode = "STEP" -> \/ SignsIn(p) /\ ~p.ready[a]
                              \/ a = "Austin" /\ Fast(p, "EXECUTE")
                              \/ a = "Tony" /\ Fast(p, "REVIEW")
    [] OTHER -> rt[a].busy

\* In FAST and STEP the monitor prompts no one who has nothing to do: one prompt at the
\* wrong agent is a round trip through its peer.
PromptsWhoMustMove ==
  [][\A a \in Agents : setup.mode \in {"FAST", "STEP"} /\ Prompt(a, "nudge") \in sent' => Awaited(a)]_vars

\* Nothing keeps the monitor from prompting a.
Reachable(a) ==
  /\ started /\ ~held /\ link[a] /\ ~rt[a].attached
  /\ setup.mode = "GOAL" => \A b \in Agents : link[b] /\ ~rt[b].attached

\* GOAL sessions are recovered by Austin, whoever they wait for.
Stuck(a) ==
  /\ Reachable(a)
  /\ IF setup.mode = "GOAL" THEN a = "Austin" /\ \E b \in Agents : Awaited(b) ELSE Awaited(a)

Told(a) == IF setup.mode = "LOOP" THEN reported[a] = 1 ELSE Prompt(a, "nudge") \in sent

\* An agent that the session waits for and that stays silent is told, however busy it
\* says it is: again and again, in LOOP once.
StuckIsTold == \A a \in Agents : <>[]Stuck(a) => []<>Told(a)

\* An Austin who stays silent in RUNNING is looked at by Tony, unless he was away when the
\* diagnosis was due.
StuckIsDiagnosed ==
  <>[](setup.mode = "FAST" /\ Stuck("Austin") /\ link["Tony"]) => []<>(asked > 0 \/ missed)

\* No stall of the session stays unanswered (harness.go:238-300).
StallsAreAnswered == StuckIsTold /\ StuckIsDiagnosed

\* What the monitor says of its episodes: without an error Tony is asked after two nudges
\* of Austin that brought nothing.
AskedAfterTwo == asked > 0 => prompts >= 2 \/ rt["Austin"].failures > 0 \/ count.errors > 0
=============================================================================
