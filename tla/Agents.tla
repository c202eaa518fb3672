-------------------------------- MODULE Agents --------------------------------
(***************************************************************************)
(* One agent of a session: the session objects that run its CLI            *)
(* (internal/agent), the driver plugin behind each of them (internal/      *)
(* driver, plugins), the human's commands that stop, start and replace it, *)
(* and the blob by which the next launch finds its conversation            *)
(* (internal/session: setDriver, setModel, composeSnapshot, startResume).  *)
(*                                                                         *)
(* Service.mu serializes the commands; beside them a handler saves the     *)
(* session, a goroutine waits for each CLI and a plugin may crash.  A      *)
(* session object is a slot; a replacement and a resume take a new one.    *)
(* A conversation is a number, 0 when the plugin knows of none.            *)
(***************************************************************************)
EXTENDS Naturals, FiniteSets

CONSTANT Setups   \* the instances to check, see MCAgents

\* The bounds the proofs need; kind and live are functions on Drivers, the others bounds
\* that a guard compares a counter with.
ASSUME SetupsAssumption ==
  \A s \in Setups : s.switches \in Nat /\ s.resumes \in Nat /\ s.clis \in Nat

VARIABLES
  setup,     \* the drivers' kinds, the bounds of this behaviour
  human,     \* the command under way: its name and where it stands
  ses,       \* the session objects
  plug,      \* what the plugin behind each session object remembers
  current,   \* the session object the manager holds
  cli,       \* the CLI processes, each with the goroutine that waits for it
  save,      \* the saves under way: of the human's command and of a handler
  disk,      \* the driver and the blob of the checkpoint
  count,     \* what has happened so far, against the bounds
  told       \* ghost: the human knows that the agent's last CLI is gone

vars == <<setup, human, ses, plug, current, cli, save, disk, count, told>>

NoBlob == [by |-> "none", conv |-> 0]
NoSession == [driver |-> "none", state |-> "new", stopping |-> FALSE, cfg |-> NoBlob,
              plan |-> NoBlob, preflight |-> FALSE, proc |-> 0]
NoMemory == [ran |-> FALSE, resolved |-> 0, learned |-> 0]
NoCli == [slot |-> 0, conv |-> 0, phase |-> "none", requested |-> FALSE]
NoSave == [pc |-> "none", slot |-> 0, driver |-> "none", blob |-> NoBlob]
Idle == [pc |-> "idle", cmd |-> "none", slot |-> 0, old |-> 0]

Drivers == {"a", "b"}
Slots == DOMAIN ses
Clis == DOMAIN cli
Server(s) == setup.kind[ses[s].driver] = "server"
Spend(what) == /\ count[what] < setup[what]
               /\ count' = [count EXCEPT ![what] = @ + 1]

-----------------------------------------------------------------------------
(* The plugin.                                                              *)

\* Mutant: whatever the plugin answers is the state, a blank included.
BlankIsAnswer(s) ==
  IF ses[s].plan # NoBlob /\ Server(s)
  THEN IF plug[s].ran THEN [by |-> ses[s].driver, conv |-> plug[s].resolved] ELSE NoBlob
  ELSE IF ses[s].plan # NoBlob THEN ses[s].plan ELSE ses[s].cfg

\* What a save records: the plugin's answer, or what the last launch was prepared
\* with when it has nothing to say.
DriverState(s) ==
  IF ses[s].plan # NoBlob /\ Server(s) /\ plug[s].ran
  THEN [by |-> ses[s].driver, conv |-> plug[s].resolved]
  ELSE IF ses[s].plan # NoBlob THEN ses[s].plan ELSE ses[s].cfg

\* The conversation a launch replays.  A client driver mints the one it does not
\* have; a server driver prefers what it has learned and may have none.
Resolved(s) ==
  IF Server(s) THEN IF plug[s].learned # 0 THEN plug[s].learned ELSE ses[s].cfg.conv
  ELSE IF ses[s].cfg.conv # 0 THEN ses[s].cfg.conv ELSE count.convs + 1

Minted(s) == ~Server(s) /\ ses[s].cfg.conv = 0

Remembered(s) == IF Server(s) THEN [plug[s] EXCEPT !.ran = TRUE, !.resolved = Resolved(s)] ELSE plug[s]

\* The plugin's process ends; the next call finds a new one.
PluginCrashes(s) ==
  /\ plug[s] # NoMemory /\ Spend("plugins")
  /\ plug' = [plug EXCEPT ![s] = NoMemory]
  /\ UNCHANGED <<setup, human, ses, current, cli, save, disk, told>>

\* The watcher reads the conversation its CLI has opened.
Learns(s) ==
  LET p == ses[s].proc IN
  /\ Server(s) /\ plug[s].ran /\ p # 0
  /\ cli[p].phase = "running" /\ cli[p].conv \notin {0, plug[s].learned}
  /\ plug' = [plug EXCEPT ![s].learned = cli[p].conv, ![s].resolved = cli[p].conv]
  /\ UNCHANGED <<setup, human, ses, current, cli, save, disk, count, told>>

-----------------------------------------------------------------------------
(* The CLI and its waiter.                                                  *)

\* A CLI that was given no conversation opens one when it is first used.
Opens(c) ==
  /\ cli[c].phase = "running" /\ cli[c].conv = 0
  /\ cli' = [cli EXCEPT ![c].conv = count.convs + 1]
  /\ count' = [count EXCEPT !.convs = @ + 1]
  /\ UNCHANGED <<setup, human, ses, plug, current, save, disk, told>>

Exits(c) ==
  /\ cli[c].phase = "running" /\ Spend("exits")
  /\ cli' = [cli EXCEPT ![c].phase = "ended"]
  /\ UNCHANGED <<setup, human, ses, plug, current, save, disk, told>>

\* Asked to stop, it may.
Obeys(c) ==
  /\ cli[c].phase = "running" /\ ses[cli[c].slot].state = "stopping"
  /\ cli' = [cli EXCEPT ![c].phase = "ended"]
  /\ UNCHANGED <<setup, human, ses, plug, current, save, disk, count, told>>

\* Wait returns: the state is settled and done is closed.
Reaped(c) ==
  LET s == cli[c].slot IN
  /\ cli[c].phase = "ended"
  /\ cli' = [cli EXCEPT ![c].phase = "reaped", ![c].requested = ses[s].stopping]
  /\ ses' = [ses EXCEPT ![s].state = "exited", ![s].stopping = FALSE]
  /\ UNCHANGED <<setup, human, plug, current, save, disk, count, told>>

\* OnExit: the manager drops the exit of a session it no longer holds, and the
\* session reports one that Duo did not ask for.
Reported(c) ==
  /\ cli[c].phase = "reaped"
  /\ cli' = [cli EXCEPT ![c].phase = "gone"]
  /\ told' = (told \/ (~cli[c].requested /\ cli[c].slot = current))
  /\ UNCHANGED <<setup, human, ses, plug, current, save, disk, count>>

-----------------------------------------------------------------------------
(* What the human asks for.                                                 *)

At(pc) == human.pc = pc
Ask(cmd, pc) == human' = [pc |-> pc, cmd |-> cmd, slot |-> current, old |-> 0]
GoOn(pc) == human' = [human EXCEPT !.pc = pc]

RestartAgent ==
  /\ At("idle") /\ ses[current].state # "running" /\ Spend("restarts")
  /\ Ask("restart", "launching")
  /\ UNCHANGED <<setup, ses, plug, current, cli, save, disk, told>>

\* A driver that switches live is told over the bridge, any other one is restarted.
Restarts(cmd, otherwise) ==
  /\ At("idle") /\ Spend("models")
  /\ Ask(cmd, IF ses[current].state = "running" /\ ~setup.live[ses[current].driver]
              THEN "capturing" ELSE otherwise)
  /\ UNCHANGED <<setup, ses, plug, current, cli, save, disk, told>>

SetModel == Restarts("model", "saving")

CycleThinking == Restarts("thinking", "idle")

NewSlot(driver, cfg) == [NoSession EXCEPT !.driver = driver, !.cfg = cfg]

\* The other driver is probed and described; its session starts with no state.
SetDriver ==
  LET n == count.slots + 1 IN
  /\ At("idle") /\ count["switches"] < setup["switches"]
  /\ \E driver \in Drivers \ {ses[current].driver} :
       ses' = [ses EXCEPT ![n] = NewSlot(driver, NoBlob)]
  /\ count' = [count EXCEPT !["switches"] = @ + 1, !.slots = n]
  /\ human' = [pc |-> "preflight", cmd |-> "driver", slot |-> n, old |-> current]
  /\ UNCHANGED <<setup, plug, current, cli, save, disk, told>>

\* The plan is made before anything is stopped; the plugin may refuse, and the
\* coordinator an agent that is busy.
Preflight ==
  LET s == human.slot IN
  /\ At("preflight")
  /\ \/ /\ ses' = [ses EXCEPT ![s].plan = [by |-> ses[s].driver, conv |-> Resolved(s)],
                              ![s].preflight = TRUE]
        /\ plug' = [plug EXCEPT ![s] = Remembered(s)]
        /\ count' = [count EXCEPT !.convs = IF Minted(s) THEN @ + 1 ELSE @]
        /\ GoOn("capturing")
     \/ /\ Spend("fails")
        /\ human' = Idle
        /\ UNCHANGED <<ses, plug>>
  /\ UNCHANGED <<setup, current, cli, save, disk, told>>

\* The session object that is to be stopped.
Target == IF human.cmd = "driver" THEN human.old ELSE human.slot

\* RestartRunning and PreserveDriverState keep the state for the next prepare.
Capture ==
  /\ At("capturing")
  /\ ses' = [ses EXCEPT ![Target].cfg = DriverState(Target)]
  /\ GoOn("stopping")
  /\ UNCHANGED <<setup, plug, current, cli, save, disk, count, told>>

AfterStop == CASE human.cmd \in {"model", "thinking"} -> "launching"
               [] human.cmd = "driver" -> "replacing"
               [] human.cmd = "close" -> "saving"

\* Mutant: the process is asked to end and nobody waits for it.
AskToStop ==
  /\ At("stopping")
  /\ IF ses[Target].state = "running"
     THEN ses' = [ses EXCEPT ![Target].state = "exited", ![Target].stopping = TRUE]
     ELSE UNCHANGED ses
  /\ GoOn(AfterStop)
  /\ UNCHANGED <<setup, plug, current, cli, save, disk, count, told>>

Stop ==
  /\ At("stopping")
  /\ IF ses[Target].state = "running"
     THEN /\ ses' = [ses EXCEPT ![Target].state = "stopping", ![Target].stopping = TRUE]
          /\ GoOn("waiting")
     ELSE GoOn(AfterStop) /\ UNCHANGED ses
  /\ UNCHANGED <<setup, plug, current, cli, save, disk, count, told>>

\* Two seconds later.
Kill ==
  /\ At("waiting") /\ cli[ses[Target].proc].phase = "running"
  /\ cli' = [cli EXCEPT ![ses[Target].proc].phase = "ended"]
  /\ UNCHANGED <<setup, human, ses, plug, current, save, disk, count, told>>

Stopped ==
  /\ At("waiting") /\ cli[ses[Target].proc].phase \in {"reaped", "gone"}
  /\ GoOn(AfterStop)
  /\ UNCHANGED <<setup, ses, plug, current, cli, save, disk, count, told>>

\* Manager.Add of the replacement.
Replace ==
  /\ At("replacing")
  /\ current' = human.slot
  /\ GoOn("launching")
  /\ UNCHANGED <<setup, ses, plug, cli, save, disk, count, told>>

-----------------------------------------------------------------------------
(* Session.Start.                                                           *)

\* A plan made by Preflight is used as it is, any other launch is prepared anew.
Plan(s) == IF ses[s].preflight THEN ses[s].plan ELSE [by |-> ses[s].driver, conv |-> Resolved(s)]

\* What the plugin knows then, and the conversations given out.
Plugged(s) == IF ses[s].preflight THEN plug ELSE [plug EXCEPT ![s] = Remembered(s)]
Given(s) == IF Minted(s) /\ ~ses[s].preflight THEN count.convs + 1 ELSE count.convs

Launched(s) ==
  LET c == count.clis + 1 IN
  /\ c \in Clis
  /\ ses' = [ses EXCEPT ![s].plan = Plan(s), ![s].preflight = FALSE, ![s].state = "running",
                        ![s].stopping = FALSE, ![s].proc = c]
  /\ plug' = Plugged(s)
  /\ cli' = [cli EXCEPT ![c] = [NoCli EXCEPT !.slot = s, !.conv = Plan(s).conv, !.phase = "running"]]
  /\ count' = [count EXCEPT !.clis = c, !.convs = Given(s)]

\* The plugin fails to prepare...
NotPrepared(s) ==
  /\ ~ses[s].preflight /\ Spend("fails")
  /\ ses' = [ses EXCEPT ![s].state = "failed"]
  /\ UNCHANGED plug

\* ... or the command cannot be started: the plan and what the plugin knows stay.
NotStarted(s) ==
  /\ count.fails < setup.fails
  /\ ses' = [ses EXCEPT ![s].plan = Plan(s), ![s].preflight = FALSE, ![s].state = "failed"]
  /\ plug' = Plugged(s)
  /\ count' = [count EXCEPT !.fails = @ + 1, !.convs = Given(s)]

NotLaunched(s) == (NotPrepared(s) \/ NotStarted(s)) /\ UNCHANGED cli

Start ==
  /\ At("launching")
  /\ \/ /\ Launched(human.slot)
        /\ told' = FALSE
        /\ IF human.cmd \in {"restart", "thinking"} THEN human' = Idle ELSE GoOn("saving")
        /\ UNCHANGED current
     \/ /\ NotLaunched(human.slot) /\ human.cmd \in {"restart", "model", "thinking"}
        /\ told' = TRUE
        /\ human' = Idle
        /\ UNCHANGED current
     \/ /\ NotLaunched(human.slot) /\ human.cmd = "driver"
        /\ current' = human.old
        /\ GoOn("restoring")
        /\ UNCHANGED told
     \/ /\ NotLaunched(human.slot) /\ human.cmd = "start"
        /\ human' = [human EXCEPT !.pc = "stopping", !.cmd = "close"]
        /\ told' = TRUE
        /\ UNCHANGED current
  /\ UNCHANGED <<setup, save, disk>>

\* Mutant: the manager keeps the replacement that did not start.
RestoreUnseen ==
  /\ At("restoring")
  /\ current' = human.slot
  /\ \/ Launched(human.old) /\ told' = FALSE
     \/ NotLaunched(human.old) /\ told' = TRUE
  /\ human' = Idle
  /\ UNCHANGED <<setup, save, disk>>

\* The previous driver starts again, and the command reports the failure.
Restore ==
  /\ At("restoring")
  /\ \/ Launched(human.old) /\ told' = FALSE
     \/ NotLaunched(human.old) /\ told' = TRUE
  /\ human' = Idle
  /\ UNCHANGED <<setup, current, save, disk>>

-----------------------------------------------------------------------------
(* Saves: composeSnapshot takes the session object, asks its plugin, and    *)
(* the snapshot is written.  Those of handlers exclude each other only.     *)

SavesAgain(who) ==
  IF who = "human" THEN At("saving") ELSE ~At("down") /\ ~At("closed") /\ Spend("saves")

Takes(who) ==
  /\ save[who].pc = "none" /\ SavesAgain(who)
  /\ who = "human" => UNCHANGED count
  /\ save' = [save EXCEPT ![who] = [NoSave EXCEPT !.pc = "taken", !.slot = current,
                                                  !.driver = ses[current].driver]]
  /\ UNCHANGED <<setup, human, ses, plug, current, cli, disk, told>>

Asks(who) ==
  /\ save[who].pc = "taken"
  /\ save' = [save EXCEPT ![who].pc = "composed", ![who].blob = DriverState(save[who].slot)]
  /\ UNCHANGED <<setup, human, ses, plug, current, cli, disk, count, told>>

Saved(who) ==
  /\ save[who].pc = "composed"
  /\ disk' = [driver |-> save[who].driver, blob |-> save[who].blob]
  /\ save' = [save EXCEPT ![who] = NoSave]
  /\ human' = IF who = "human" THEN IF human.cmd = "close" THEN [Idle EXCEPT !.pc = "closed"] ELSE Idle
                               ELSE human
  /\ UNCHANGED <<setup, ses, plug, current, cli, count, told>>

-----------------------------------------------------------------------------
(* The session's life.                                                      *)

Close ==
  /\ At("idle")
  /\ Ask("close", "stopping")
  /\ UNCHANGED <<setup, ses, plug, current, cli, save, disk, count, told>>

\* Duo ends without a word, its agents with their terminals.
Crash ==
  /\ ~At("down") /\ ~At("closed") /\ Spend("crashes")
  /\ human' = [Idle EXCEPT !.pc = "down"]
  /\ cli' = [c \in Clis |-> IF cli[c].phase = "none" THEN NoCli ELSE [cli[c] EXCEPT !.phase = "gone"]]
  /\ save' = [who \in DOMAIN save |-> NoSave]
  /\ plug' = [s \in Slots |-> NoMemory]
  /\ UNCHANGED <<setup, ses, current, disk, told>>

\* `duo resume`: the driver of the checkpoint, or the one the command names; the
\* blob of the checkpoint either way.
Resume ==
  LET n == count.slots + 1 IN
  /\ At("down") \/ At("closed")
  /\ \A c \in Clis : cli[c].phase \in {"none", "gone"}
  /\ save["handler"].pc = "none"
  /\ count["resumes"] < setup["resumes"]
  /\ \E driver \in IF setup.explicit THEN Drivers ELSE {disk.driver} :
       /\ ses' = [ses EXCEPT ![n] = NewSlot(driver, disk.blob)]
       /\ disk' = [disk EXCEPT !.driver = driver]
  /\ plug' = [s \in Slots |-> NoMemory]
  /\ current' = n
  /\ count' = [count EXCEPT !["resumes"] = @ + 1, !.slots = n]
  /\ human' = [pc |-> "launching", cmd |-> "start", slot |-> n, old |-> 0]
  /\ UNCHANGED <<setup, cli, save, told>>

-----------------------------------------------------------------------------
Init ==
  /\ setup \in Setups
  /\ human = [pc |-> "launching", cmd |-> "start", slot |-> 1, old |-> 0]
  /\ ses = [s \in 1..(1 + setup.switches + setup.resumes) |->
              IF s = 1 THEN NewSlot("a", NoBlob) ELSE NoSession]
  /\ plug = [s \in DOMAIN ses |-> NoMemory]
  /\ current = 1
  /\ cli = [c \in 1..setup.clis |-> NoCli]
  /\ save = [who \in {"human", "handler"} |-> NoSave]
  /\ disk = [driver |-> "a", blob |-> NoBlob]
  /\ count = [restarts |-> 0, models |-> 0, switches |-> 0, exits |-> 0, fails |-> 0, plugins |-> 0,
              saves |-> 0, crashes |-> 0, resumes |-> 0, convs |-> 0, clis |-> 0, slots |-> 1]
  /\ told = FALSE

Command == RestartAgent \/ SetModel \/ CycleThinking \/ SetDriver \/ Close

Works == Preflight \/ Capture \/ Stop \/ Kill \/ Stopped \/ Replace \/ Start \/ Restore

Waiter(c) == Reaped(c) \/ Reported(c)

Saver(who) == Asks(who) \/ Saved(who)

Next == \/ Command \/ Works \/ Crash \/ Resume
        \/ \E s \in Slots : ses[s].driver # "none" /\ (PluginCrashes(s) \/ Learns(s))
        \/ \E c \in Clis : Opens(c) \/ Exits(c) \/ Obeys(c) \/ Waiter(c)
        \/ \E who \in DOMAIN save : Takes(who) \/ Saver(who)

Spec == Init /\ [][Next]_vars

-----------------------------------------------------------------------------
(* Properties.                                                              *)

TypeOK ==
  /\ current \in Slots /\ human.slot \in Slots \cup {0} /\ human.old \in Slots \cup {0}
  /\ \A s \in Slots : ses[s].state \in {"new", "running", "stopping", "exited", "failed"}
  /\ \A c \in Clis : cli[c].phase \in {"none", "running", "ended", "reaped", "gone"}
  /\ disk.driver \in Drivers

\* At most one CLI of an agent lives in its worktree, it is the one the manager's
\* session can stop, and none is left once the session is closed: whatever exits,
\* ignores the signal or fails to start while a model or a driver is switched
\* (session.go:332, 594; manager.go:194-226).
OneCli ==
  LET live == {c \in Clis : cli[c].phase = "running"} IN
  /\ TypeOK
  /\ Cardinality(live) <= 1
  /\ At("idle") => \A c \in live : c = ses[current].proc /\ ses[current].state = "running"
  /\ At("closed") => live = {}

\* When no command runs and every exit has been dealt with, an agent that is not
\* running is known to the human as gone: its own exit was reported or the command
\* that lost it returned an error (service.go:538-560, 1221-1223; manager.go:48-57).
NeverSilentlyGone ==
  At("idle") /\ (\A c \in Clis : cli[c].phase \in {"none", "running", "gone"})
    => ses[current].state = "running" \/ told

\* What a session knows of its conversation, from the checkpoint or its last launch.
KnownTo(s) == ses[s].cfg.conv # 0 \/ ses[s].plan.conv # 0

Relaunches(cmds) ==
  human.cmd \in cmds /\ \E s \in Slots :
    /\ ses[s].proc # ses'[s].proc /\ KnownTo(s)
    /\ ses'[s].plan.conv \notin 1..count.convs

\* The checkpoint never hands a driver the blob of another one: saves that cross a
\* driver switch take the name and the state of the same session
\* (snapshot.go:53-71, protocol.go:279).
BlobIsOfDriver == disk.blob # NoBlob => disk.blob.by = disk.driver

\* A launch that follows a model switch, a failed driver switch or a resume goes on
\* with the conversation the agent was launched with, although the plugin crashed
\* and forgot it in between (session.go:303-313, 225-256); what a later process
\* launches from is the blob of the driver it launches.
LaunchesContinue ==
  [][~Relaunches({"start", "model", "thinking", "driver"}) /\ BlobIsOfDriver']_vars

\* So does the restart of an agent that exited (driver-plugin-protocol.md:192, 573).
RestartContinues == [][~Relaunches({"restart"})]_vars

=============================================================================
