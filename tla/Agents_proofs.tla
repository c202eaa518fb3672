----------------------------- MODULE Agents_proofs -----------------------------
(***************************************************************************)
(* One CLI per agent, and none that is gone without a word.  The manager   *)
(* knows one session object, a command up to two, and each of them may     *)
(* have launched a CLI that ends, is reaped and is reported in steps of    *)
(* its own.  The invariant ties a CLI that is not yet reaped to the object *)
(* the manager holds, for every place a command can stand at.              *)
(*                                                                         *)
(* The second half is about the terminal interface, which reads the        *)
(* session, asks and is told at different times.                           *)
(***************************************************************************)
EXTENDS Agents, Interface, FiniteSetTheorems, TLAPS

Pcs == {"idle", "preflight", "capturing", "stopping", "waiting", "replacing", "launching",
        "restoring", "saving", "closed", "down"}
Cmds == {"none", "restart", "model", "thinking", "driver", "close", "start"}
States == {"new", "running", "stopping", "exited", "failed"}
Phases == {"none", "running", "ended", "reaped", "gone"}
Savers == {"human", "handler"}

Blobs == [by : Drivers \cup {"none"}, conv : Nat]
Session == [driver : Drivers \cup {"none"}, state : States, stopping : BOOLEAN, cfg : Blobs,
            plan : Blobs, preflight : BOOLEAN, proc : Nat]
Memory == [ran : BOOLEAN, resolved : Nat, learned : Nat]
Cli == [slot : Nat, conv : Nat, phase : Phases, requested : BOOLEAN]
Save == [pc : {"none", "taken", "composed"}, slot : Nat, driver : Drivers \cup {"none"}, blob : Blobs]
Counts == [restarts : Nat, models : Nat, switches : Nat, exits : Nat, fails : Nat, plugins : Nat,
           saves : Nat, crashes : Nat, resumes : Nat, convs : Nat, clis : Nat, slots : Nat]

AllSlots == 1..(1 + setup.switches + setup.resumes)
Made == 1..count.slots

Types ==
  /\ setup \in Setups
  /\ human \in [pc : Pcs, cmd : Cmds, slot : Made \cup {0}, old : Made \cup {0}]
  /\ ses \in [AllSlots -> Session]
  /\ plug \in [AllSlots -> Memory]
  /\ current \in Made
  /\ cli \in [1..setup.clis -> Cli]
  /\ save \in [Savers -> Save]
  /\ disk \in [driver : Drivers, blob : Blobs]
  /\ count \in Counts
  /\ told \in BOOLEAN

\* Session objects are made one after the other, one per driver switch and resume.
Numbered ==
  /\ count.slots = 1 + count.switches + count.resumes
  /\ count.switches <= setup.switches /\ count.resumes <= setup.resumes
  /\ \A s \in Made : ses[s].driver \in Drivers
  /\ \A s \in AllSlots : ses[s].proc \in Clis \cup {0}
  /\ \A who \in Savers : save[who].pc # "none" => save[who].slot \in Made /\ save[who].driver \in Drivers
  /\ save["human"].pc # "none" => human.pc = "saving"

\* Which session object a command holds, and which one the manager does.
Pointed ==
  /\ At("preflight") => human.cmd = "driver"
  /\ At("capturing") => human.cmd \in {"model", "thinking", "driver"}
  /\ At("stopping") \/ At("waiting") => human.cmd \in {"model", "thinking", "driver", "close"}
  /\ At("replacing") \/ At("restoring") => human.cmd = "driver"
  /\ At("launching") => human.cmd \in {"restart", "model", "thinking", "driver", "start"}
  /\ At("capturing") \/ At("stopping") \/ At("waiting") => Target = current
  /\ human.pc \in {"preflight", "capturing", "stopping", "waiting", "replacing"} /\ human.cmd = "driver"
       => human.old = current /\ human.slot \in Made \ {current}
  /\ At("launching") => human.slot = current /\ (human.cmd = "driver" => human.old \in Made)
  /\ At("restoring") => human.old = current

\* Only a stop that is being waited for is marked as Duo's own.
Marked ==
  \A s \in Made :
    s \in {current, human.slot, human.old} /\ ses[s].stopping
      => At("down") \/ (At("waiting") /\ s = current /\ ses[s].state = "stopping")

Unreaped(c) == cli[c].phase \in {"running", "ended"}

\* A CLI that is not yet reaped belongs to the object the manager holds.
Held ==
  \A c \in Clis : Unreaped(c)
    => /\ cli[c].slot = current /\ ses[current].proc = c
       /\ ses[current].state = IF At("waiting") THEN "stopping" ELSE "running"

\* And an object that counts as alive has a CLI that is not yet reaped.
Backed ==
  \A s \in Made :
    s \in {current, human.slot, human.old} /\ ses[s].state \in {"running", "stopping"}
      => At("down") \/ (s = current /\ ses[s].proc \in Clis /\ Unreaped(ses[s].proc))

\* Nothing is launched before the last CLI is reaped.
Vacant ==
  human.pc \in {"replacing", "launching", "restoring", "closed", "down"}
  \/ (At("saving") /\ human.cmd = "close")
    => \A c \in Clis : ~Unreaped(c)

\* An exit nobody asked for that is still to be reported.
Pending(c) == cli[c].phase = "reaped" /\ cli[c].slot = current /\ ~cli[c].requested

Accounted ==
  human.pc \in {"idle", "preflight"} \/ (At("saving") /\ human.cmd # "close")
    => ses[current].state = "running" \/ told \/ \E c \in Clis : Pending(c)

IInv == Types /\ Numbered /\ Pointed /\ Marked /\ Held /\ Backed /\ Vacant /\ Accounted

-----------------------------------------------------------------------------
\* Where the objects lie.
LEMMA Places ==
  ASSUME Types, Numbered
  PROVE  /\ Made \subseteq AllSlots /\ Slots = AllSlots /\ Clis = 1..setup.clis
         /\ count.slots \in Nat /\ setup.switches \in Nat /\ setup.resumes \in Nat
         /\ current \in Made /\ current # 0
         /\ \A s \in Made : s # 0 /\ ses[s].driver \in Drivers
<1>1. setup.switches \in Nat /\ setup.resumes \in Nat /\ setup.clis \in Nat
  BY SetupsAssumption DEF Types
<1>2. count.slots \in Nat /\ count.slots <= 1 + setup.switches + setup.resumes
  BY <1>1, SMTT(20) DEF Types, Numbered, Counts
<1> QED
  BY <1>1, <1>2 DEF Types, Numbered, Made, AllSlots, Slots, Clis

\* What a driver says of its state (DriverState) is always a blob the checkpoint can hold.
LEMMA StateIsBlob ==
  ASSUME Types, NEW s \in AllSlots
  PROVE  DriverState(s) \in Blobs
<1>1. ses[s] \in Session /\ plug[s] \in Memory
  BY DEF Types
<1> QED
  BY <1>1 DEF DriverState, Session, Memory, Blobs

\* A bound is spent; what numbers the objects is not among those.
Spent == {"restarts", "models", "exits", "fails", "plugins", "saves", "crashes"}

Uncounted == count' \in Counts /\ count'.slots = count.slots /\ count'.switches = count.switches
             /\ count'.resumes = count.resumes

\* A bound that is spent leaves the numbering of sessions, conversations and CLIs alone.
LEMMA SpendKeeps ==
  ASSUME Types, NEW what \in Spent, Spend(what)
  PROVE  Uncounted /\ count'.convs = count.convs /\ count'.clis = count.clis
<1>1. count \in Counts /\ count[what] \in Nat
  BY DEF Types, Spent, Counts
<1>2. count' = [count EXCEPT ![what] = count[what] + 1]
  BY DEF Spend
<1>3. CASE what \in {"restarts", "models", "exits", "fails"}
  BY <1>1, <1>2, <1>3 DEF Counts, Uncounted
<1>4. CASE what \in {"plugins", "saves", "crashes"}
  BY <1>1, <1>2, <1>4 DEF Counts, Uncounted
<1> QED BY <1>3, <1>4 DEF Spent

\* So does a step that spends nothing.
LEMMA SameCount ==
  ASSUME Types, count' = count
  PROVE  Uncounted
BY DEF Types, Uncounted

\* What is left to show of a step that makes no object and saves nothing.
Humans == [pc : Pcs, cmd : Cmds, slot : Made \cup {0}, old : Made \cup {0}]

Quiet ==
  /\ setup' = setup /\ Uncounted /\ save' = save /\ disk' = disk

\* A quiet step keeps types and numbering, if what it writes has the right type.
LEMMA TypesKept ==
  ASSUME IInv, Quiet, human' \in Humans, ses' \in [AllSlots -> Session],
         plug' \in [AllSlots -> Memory], current' \in Made, cli' \in [1..setup.clis -> Cli],
         told' \in BOOLEAN, \A s \in Made : ses'[s].driver = ses[s].driver,
         \A s \in AllSlots : ses'[s].proc \in Clis \cup {ses[s].proc},
         human' = human \/ human.pc # "saving"
  PROVE  Types' /\ Numbered'
<1>1. Made' = Made /\ AllSlots' = AllSlots
  BY DEF Quiet, Uncounted, Made, AllSlots
<1>2. Types'
  BY <1>1 DEF IInv, Types, Quiet, Uncounted, Humans
<1>3. Clis' = Clis
  BY DEF Clis, IInv, Types
<1>4. Numbered'
  BY <1>1, <1>3 DEF IInv, Numbered, Quiet, Uncounted
<1> QED BY <1>2, <1>4

\* A step of the plugin or of a save: no command, no CLI and no state of an object moves.
LEMMA Beside ==
  ASSUME IInv, setup' = setup, UNCHANGED <<human, current, cli, told>>, Uncounted,
         ses' = ses, plug' \in [AllSlots -> Memory], save' \in [Savers -> Save],
         disk' \in [driver : Drivers, blob : Blobs],
         \A who \in Savers : save'[who].pc # "none"
           => save'[who].slot \in Made /\ save'[who].driver \in Drivers,
         save'["human"].pc # "none" => human.pc = "saving"
  PROVE  IInv'
<1>1. Made' = Made /\ AllSlots' = AllSlots /\ Clis' = Clis
  BY DEF Uncounted, Made, AllSlots, Clis
<1>2. Types'
  BY <1>1 DEF IInv, Types, Uncounted
<1>3. Numbered'
  BY <1>1 DEF IInv, Numbered, Uncounted
<1>4. Pointed' /\ Marked'
  BY <1>1 DEF IInv, Pointed, Marked, At, Target
<1>5. Held' /\ Backed' /\ Vacant' /\ Accounted'
  BY <1>1 DEF IInv, Held, Backed, Vacant, Accounted, At, Unreaped, Pending
<1> QED BY <1>2, <1>3, <1>4, <1>5 DEF IInv

\* A step that only moves the command on, which is not "waiting" before or after.
LEMMA OnlyHuman ==
  ASSUME IInv, Quiet, human' \in Humans, UNCHANGED <<ses, plug, current, cli, told>>,
         Pointed', Vacant', Accounted',
         human.pc \notin {"waiting", "down", "saving"}, human'.pc # "waiting",
         \A s \in Made : s \in {human'.slot, human'.old} => s \in {current, human.slot, human.old}
  PROVE  IInv'
<1>1. Made' = Made /\ AllSlots' = AllSlots /\ Clis' = Clis
  BY DEF Quiet, Uncounted, Made, AllSlots, Clis
<1>2. Types' /\ Numbered'
  BY TypesKept DEF IInv, Types
<1>3. Marked' /\ Backed'
  BY <1>1 DEF IInv, Marked, Backed, At, Unreaped
<1>4. Held'
  BY <1>1 DEF IInv, Held, At, Unreaped
<1> QED BY <1>2, <1>3, <1>4 DEF IInv

-----------------------------------------------------------------------------
\* The human's commands.

\* A /restart begins where the agent is idle and does not run.
LEMMA RestartAgentKeeps == ASSUME IInv, RestartAgent PROVE IInv'
<1>1. /\ human' = [pc |-> "launching", cmd |-> "restart", slot |-> current, old |-> 0]
      /\ human.pc = "idle" /\ ses[current].state # "running"
      /\ UNCHANGED <<ses, plug, current, cli, told>> /\ Quiet
  BY SpendKeeps DEF RestartAgent, Ask, At, Quiet, Spent, IInv
<1>2. human' \in Humans
  BY <1>1 DEF Humans, Pcs, Cmds, IInv, Types
<1>3. Pointed'
  BY <1>1 DEF Pointed, At
<1>4. Vacant'
  BY <1>1 DEF Vacant, Held, At, Unreaped, Clis, IInv
<1>5. Accounted'
  BY <1>1 DEF Accounted, At
<1> QED BY <1>1, <1>2, <1>3, <1>4, <1>5, OnlyHuman, Places DEF IInv

\* A /model or /thinking sets out to capture the state, or has nothing to restart.
LEMMA RestartsKeeps ==
  ASSUME IInv, Restarts("model", "saving") \/ Restarts("thinking", "idle")
  PROVE  IInv'
<1>1. /\ \/ human' = [pc |-> "capturing", cmd |-> "model", slot |-> current, old |-> 0]
         \/ human' = [pc |-> "capturing", cmd |-> "thinking", slot |-> current, old |-> 0]
         \/ human' = [pc |-> "saving", cmd |-> "model", slot |-> current, old |-> 0]
         \/ human' = [pc |-> "idle", cmd |-> "thinking", slot |-> current, old |-> 0]
      /\ human.pc = "idle"
      /\ UNCHANGED <<ses, plug, current, cli, told>> /\ Quiet
  BY SpendKeeps DEF Restarts, Ask, At, Quiet, Spent, IInv
<1>2. human' \in Humans
  BY <1>1 DEF Humans, Pcs, Cmds, IInv, Types
<1>3. Pointed'
  BY <1>1 DEF Pointed, At, Target
<1>4. Vacant'
  BY <1>1 DEF Vacant, At
<1>5. Accounted'
  BY <1>1 DEF Accounted, At, IInv, Clis, Pending
<1> QED BY <1>1, <1>2, <1>3, <1>4, <1>5, OnlyHuman, Places DEF IInv

\* Closing sets out to stop the CLI and writes nothing yet.
LEMMA CloseKeeps == ASSUME IInv, Close PROVE IInv'
<1>1. /\ human' = [pc |-> "stopping", cmd |-> "close", slot |-> current, old |-> 0]
      /\ human.pc = "idle"
      /\ UNCHANGED <<ses, plug, current, cli, told>> /\ Quiet
  BY SameCount DEF Close, Ask, At, Quiet, IInv
<1>2. human' \in Humans
  BY <1>1 DEF Humans, Pcs, Cmds, IInv, Types
<1>3. Pointed'
  BY <1>1 DEF Pointed, At, Target
<1>4. Vacant'
  BY <1>1 DEF Vacant, At
<1>5. Accounted'
  BY <1>1 DEF Accounted, At
<1> QED BY <1>1, <1>2, <1>3, <1>4, <1>5, OnlyHuman, Places DEF IInv

\* Reading the driver's state back (CaptureState) before a stop keeps the invariant.
LEMMA CaptureKeeps == ASSUME IInv, Capture PROVE IInv'
<1> USE DEF IInv, At
<1>0. /\ ses' = [ses EXCEPT ![current].cfg = DriverState(current)]
      /\ human' = [human EXCEPT !.pc = "stopping"] /\ At("capturing")
      /\ UNCHANGED <<setup, plug, current, cli, save, disk, count, told>>
  BY DEF Capture, GoOn, Pointed
<1>1. /\ current \in AllSlots /\ Made \subseteq AllSlots /\ Slots = AllSlots /\ DriverState(current) \in Blobs
  BY Places, StateIsBlob
<1>2. /\ ses' \in [AllSlots -> Session] /\ \A s \in AllSlots \ {current} : ses'[s] = ses[s]
      /\ ses'[current] = [ses[current] EXCEPT !.cfg = DriverState(current)]
      /\ human' \in [pc : Pcs, cmd : Cmds, slot : Made \cup {0}, old : Made \cup {0}]
  BY <1>0, <1>1, ZenonT(60) DEF Types, Session, Pcs
<1>3. Types'
  BY <1>0, <1>2 DEF Types, AllSlots, Made
<1>4. Numbered'
  BY <1>0, <1>1, <1>2 DEF Numbered, Types, Made, Session, AllSlots, Clis, Savers
<1>5. Pointed'
  BY <1>0 DEF Pointed, Types, Target, Made
<1>6. Marked'
  BY <1>0, <1>1, <1>2 DEF Marked, Types, Session, Made
<1>7. Held' /\ Backed' /\ Vacant'
  BY <1>0, <1>1, <1>2 DEF Held, Backed, Vacant, Unreaped, Types, Session, Clis, Made
<1>8. Accounted'
  BY <1>0 DEF Accounted, Types
<1> QED BY <1>3, <1>4, <1>5, <1>6, <1>7, <1>8


\* The object that is to be stopped is marked, or nothing is left to stop.
LEMMA StopKeeps == ASSUME IInv, Stop PROVE IInv'
<1> USE DEF At
<1>0. /\ human.pc = "stopping" /\ Target = current
      /\ human.cmd \in {"model", "thinking", "driver", "close"}
      /\ UNCHANGED <<plug, current, cli, told>> /\ Quiet
  BY SameCount DEF Stop, IInv, Pointed, Quiet
<1>1. Made \subseteq AllSlots /\ Slots = AllSlots /\ current \in Made /\ current \in AllSlots
  BY Places DEF IInv
<1>2. CASE ses[current].state = "running"
  <2>1. /\ human' = [human EXCEPT !.pc = "waiting"]
        /\ ses' = [ses EXCEPT ![current].state = "stopping", ![current].stopping = TRUE]
    BY <1>0, <1>2 DEF Stop, GoOn
  <2>2. /\ ses' \in [AllSlots -> Session] /\ \A s \in AllSlots \ {current} : ses'[s] = ses[s]
        /\ ses'[current] = [ses[current] EXCEPT !.state = "stopping", !.stopping = TRUE]
        /\ ses'[current].driver = ses[current].driver /\ ses'[current].proc = ses[current].proc
        /\ ses'[current].state = "stopping"
        /\ human' \in Humans
    BY <1>1, <2>1, ZenonT(60) DEF IInv, Types, Session, States, Humans, Pcs
  <2>3. Types' /\ Numbered'
    <3>1. \A s \in AllSlots : ses'[s].proc = ses[s].proc
      BY <2>2
    <3> QED BY <1>0, <1>1, <2>2, <3>1, TypesKept DEF IInv, Types
  <2>4. Pointed'
    BY <1>0, <2>1 DEF IInv, Pointed, Target, Types, Made, Quiet, Uncounted
  <2>5. Marked'
    BY <1>0, <1>1, <2>1, <2>2 DEF IInv, Marked, Types, Made, Quiet, Uncounted
  <2>6. Held'
    BY <1>0, <1>1, <2>1, <2>2 DEF IInv, Held, Types, Clis, Unreaped
  <2>7. Made' = Made /\ Clis' = Clis /\ human'.slot = human.slot /\ human'.old = human.old
    BY <1>0, <2>1 DEF Made, Quiet, Uncounted, Clis, IInv, Types
  <2>8. Backed'
    <3>1. ses[current].proc \in Clis /\ Unreaped(ses[current].proc)
      BY <1>0, <1>1, <1>2 DEF IInv, Backed
    <3>2. \A s \in Made \ {current} : s \in {human.slot, human.old} => ses[s].state \notin {"running", "stopping"}
      BY <1>0 DEF IInv, Backed
    <3>3. (ses[current].proc \in Clis /\ Unreaped(ses[current].proc))'
      BY <1>0, <2>2, <2>7, <3>1 DEF Unreaped
    <3> QED BY <1>0, <1>1, <2>2, <2>7, <3>2, <3>3 DEF Backed
  <2>9. Vacant' /\ Accounted'
    BY <1>0, <2>1 DEF Vacant, Accounted, IInv, Types
  <2> QED BY <2>3, <2>4, <2>5, <2>6, <2>8, <2>9 DEF IInv
<1>3. CASE ses[current].state # "running"
  <2>1. human' = [human EXCEPT !.pc = AfterStop] /\ ses' = ses
    BY <1>0, <1>3 DEF Stop, GoOn
  <2>2. AfterStop \in {"launching", "replacing", "saving"}
        /\ (AfterStop = "launching" <=> human.cmd \in {"model", "thinking"})
        /\ (AfterStop = "replacing" <=> human.cmd = "driver")
        /\ (AfterStop = "saving" <=> human.cmd = "close")
    BY <1>0 DEF AfterStop
  <2>3. human' \in Humans
    BY <2>1, <2>2 DEF IInv, Types, Humans, Pcs
  <2>4. Pointed'
    BY <1>0, <2>1, <2>2 DEF IInv, Pointed, Target, Types, Made, Quiet, Uncounted
  <2>5. Vacant'
    BY <1>0, <1>3, <2>1 DEF Vacant, Held, IInv, Clis, Unreaped
  <2>6. Accounted'
    BY <1>0, <2>1, <2>2 DEF Accounted, IInv, Types
  <2> QED BY <1>0, <2>1, <2>2, <2>3, <2>4, <2>5, <2>6, OnlyHuman, Places DEF IInv, Types
<1> QED BY <1>2, <1>3

\* The stop that was waited for is over: the CLI is reaped, and nothing is alive.
LEMMA StoppedKeeps == ASSUME IInv, Stopped PROVE IInv'
<1> USE DEF At
<1>0. /\ human.pc = "waiting" /\ Target = current
      /\ human.cmd \in {"model", "thinking", "driver", "close"}
      /\ cli[ses[current].proc].phase \in {"reaped", "gone"}
      /\ UNCHANGED <<plug, current, cli, told, ses>> /\ Quiet
      /\ human' = [human EXCEPT !.pc = AfterStop]
  BY SameCount DEF Stopped, IInv, Pointed, Quiet, GoOn
<1>1. Made \subseteq AllSlots /\ Slots = AllSlots /\ current \in Made /\ current \in AllSlots
  BY Places DEF IInv
<1>2. AfterStop \in {"launching", "replacing", "saving"}
      /\ (AfterStop = "launching" <=> human.cmd \in {"model", "thinking"})
      /\ (AfterStop = "replacing" <=> human.cmd = "driver")
      /\ (AfterStop = "saving" <=> human.cmd = "close")
  BY <1>0 DEF AfterStop
<1>3. human' \in Humans
  BY <1>0, <1>2 DEF IInv, Types, Humans, Pcs
<1>4. Types' /\ Numbered'
  BY <1>0, <1>3, TypesKept DEF IInv, Types
<1>5. Pointed'
  BY <1>0, <1>2 DEF IInv, Pointed, Target, Types, Made, Quiet, Uncounted
<1>6. \A c \in Clis : ~Unreaped(c)
  BY <1>0 DEF IInv, Held, Unreaped
<1>7. Marked' /\ Backed'
  BY <1>0, <1>6 DEF IInv, Marked, Backed, Unreaped, Clis, Made, Quiet, Uncounted, Types
<1>8. Held' /\ Vacant'
  BY <1>0, <1>6 DEF Held, Vacant, Unreaped, Clis
<1>9. Accounted'
  BY <1>0, <1>2 DEF Accounted, IInv, Types
<1> QED BY <1>4, <1>5, <1>7, <1>8, <1>9 DEF IInv


\* A step of a CLI that leaves what is reaped alone, and reaps none.
LEMMA OnlyCli ==
  ASSUME IInv, Quiet, UNCHANGED <<human, ses, plug, current, told>>,
         cli' \in [1..setup.clis -> Cli],
         \A c \in Clis : cli'[c].slot = cli[c].slot,
         \A c \in Clis : Unreaped(c)' <=> Unreaped(c),
         \A c \in Clis : Pending(c) => Pending(c)'
  PROVE  IInv'
<1>1. Made' = Made /\ AllSlots' = AllSlots /\ Clis' = Clis
  BY DEF Quiet, Uncounted, Made, AllSlots, Clis, IInv, Types
<1>2. Types' /\ Numbered'
  BY TypesKept DEF IInv, Types, Humans
<1>3. Pointed' /\ Marked'
  BY <1>1 DEF IInv, Pointed, Marked, At, Target
<1>4. Held' /\ Backed'
  BY <1>1 DEF IInv, Held, Backed, At
<1>5. Vacant' /\ Accounted'
  BY <1>1 DEF IInv, Vacant, Accounted, At
<1> QED BY <1>2, <1>3, <1>4, <1>5 DEF IInv

\* A CLI may only come alive in the object the manager holds, and after the last one was reaped.
LEMMA OpensKeeps == ASSUME IInv, NEW c \in Clis, Opens(c) PROVE IInv'
<1>1. Quiet /\ UNCHANGED <<human, ses, plug, current, told>>
  BY SMTT(20) DEF Opens, Quiet, Uncounted, IInv, Types, Counts
<1>2. cli' = [cli EXCEPT ![c].conv = count.convs + 1] /\ count.convs \in Nat
  BY DEF Opens, IInv, Types, Counts
<1>3. cli' \in [1..setup.clis -> Cli]
  <2>1. cli[c] \in Cli /\ cli \in [1..setup.clis -> Cli] /\ count.convs + 1 \in Nat
    BY <1>2 DEF IInv, Types, Clis
  <2>2. [cli[c] EXCEPT !.conv = count.convs + 1] \in Cli
    BY <2>1 DEF Cli
  <2> QED BY <1>2, <2>1, <2>2
<1>4. \A x \in Clis : /\ cli'[x].slot = cli[x].slot /\ cli'[x].phase = cli[x].phase
                       /\ cli'[x].requested = cli[x].requested
  BY <1>2 DEF IInv, Types, Cli, Clis
<1> QED BY <1>1, <1>3, <1>4, OnlyCli DEF Unreaped, Pending

\* A CLI ends, for whatever reason.
LEMMA EndsKeeps ==
  ASSUME IInv, Quiet, UNCHANGED <<human, ses, plug, current, told>>,
         NEW c \in Clis, cli[c].phase = "running", cli' = [cli EXCEPT ![c].phase = "ended"]
  PROVE  IInv'
<1>1. cli' \in [1..setup.clis -> Cli]
  BY DEF IInv, Types, Cli, Phases
<1>2. \A x \in Clis : cli'[x].slot = cli[x].slot /\ cli'[x].requested = cli[x].requested
  BY DEF IInv, Types, Cli, Clis
<1>3. \A x \in Clis \ {c} : cli'[x].phase = cli[x].phase
  BY DEF IInv, Types, Cli, Clis
<1>4. cli'[c].phase = "ended"
  BY DEF IInv, Types, Cli, Clis
<1> QED BY <1>1, <1>2, <1>3, <1>4, OnlyCli DEF Unreaped, Pending

\* The kill after the stop's timeout ends the CLI that is waited for, and no other.
LEMMA KillKeeps == ASSUME IInv, Kill PROVE IInv'
<1>1. Quiet /\ UNCHANGED <<human, ses, plug, current, told>>
  BY SameCount DEF Kill, Quiet, IInv
<1>2. /\ human.pc = "waiting" /\ Target = current
      /\ cli[ses[current].proc].phase = "running"
      /\ cli' = [cli EXCEPT ![ses[current].proc].phase = "ended"]
  BY DEF Kill, At, IInv, Pointed
<1>3. CASE ses[current].proc \in Clis
  BY <1>1, <1>2, <1>3, EndsKeeps
<1>4. CASE ses[current].proc \notin Clis
  <2>1. cli' = cli
    BY <1>2, <1>4 DEF IInv, Types, Clis
  <2> QED BY <1>1, <2>1, OnlyCli DEF IInv, Types, Unreaped, Pending
<1> QED BY <1>3, <1>4

\* A CLI that ends by itself, or obeys the request to stop, is still to be reaped.
LEMMA ExitsObeysKeep == ASSUME IInv, NEW c \in Clis, Exits(c) \/ Obeys(c) PROVE IInv'
<1>1. Quiet /\ UNCHANGED <<human, ses, plug, current, told>>
  BY SameCount, SpendKeeps DEF Exits, Obeys, Quiet, IInv, Spent
<1> QED BY <1>1, EndsKeeps DEF Exits, Obeys

\* The exit of a CLI is settled: the object has exited, and the exit is Duo's own
\* exactly when a stop waits for it.
LEMMA ReapedKeeps == ASSUME IInv, NEW c \in Clis, Reaped(c) PROVE IInv'
<1> USE DEF At
<1>1. /\ Quiet /\ UNCHANGED <<human, plug, current, told>>
      /\ cli' = [cli EXCEPT ![c].phase = "reaped", ![c].requested = ses[cli[c].slot].stopping]
      /\ ses' = [ses EXCEPT ![cli[c].slot].state = "exited", ![cli[c].slot].stopping = FALSE]
      /\ Unreaped(c)
  BY SameCount DEF Reaped, Quiet, Unreaped, IInv
<1>2. /\ cli[c].slot = current /\ ses[current].proc = c
      /\ \A x \in Clis \ {c} : ~Unreaped(x)
      /\ current \in AllSlots /\ Made \subseteq AllSlots /\ current \in Made
  BY <1>1, Places DEF IInv, Held
<1>3. /\ cli' \in [1..setup.clis -> Cli] /\ \A x \in Clis \ {c} : cli'[x] = cli[x]
      /\ cli'[c].phase = "reaped" /\ cli'[c].slot = current
      /\ cli'[c].requested = ses[current].stopping
  <2>1. cli[c] \in Cli /\ cli \in [1..setup.clis -> Cli] /\ c \in 1..setup.clis
        /\ ses[current].stopping \in BOOLEAN
    BY <1>2 DEF IInv, Types, Clis, Session
  <2>2. [cli[c] EXCEPT !.phase = "reaped", !.requested = ses[current].stopping] \in Cli
    BY <2>1 DEF Cli, Phases
  <2>3. cli' = [cli EXCEPT ![c] = [cli[c] EXCEPT !.phase = "reaped", !.requested = ses[current].stopping]]
    BY <1>1, <1>2, <2>1
  <2> QED BY <1>2, <2>1, <2>2, <2>3 DEF Cli, Clis
<1>4. /\ ses' \in [AllSlots -> Session] /\ \A s \in AllSlots \ {current} : ses'[s] = ses[s]
      /\ ses'[current].state = "exited" /\ ~ses'[current].stopping
      /\ ses'[current].driver = ses[current].driver /\ ses'[current].proc = ses[current].proc
  <2>1. ses[current] \in Session /\ ses \in [AllSlots -> Session]
    BY <1>2 DEF IInv, Types
  <2>2. [ses[current] EXCEPT !.state = "exited", !.stopping = FALSE] \in Session
    BY <2>1 DEF Session, States
  <2>3. ses' = [ses EXCEPT ![current] = [ses[current] EXCEPT !.state = "exited", !.stopping = FALSE]]
    BY <1>1, <1>2, <2>1
  <2> QED BY <1>2, <2>1, <2>2, <2>3 DEF Session
<1>5. Made' = Made /\ Clis' = Clis
  BY <1>1, <1>3 DEF Made, Quiet, Uncounted, Clis, IInv, Types
<1>6. Types' /\ Numbered'
  BY <1>1, <1>2, <1>3, <1>4, TypesKept DEF IInv, Types, Humans
<1>7. Pointed' /\ Marked'
  BY <1>1, <1>2, <1>4, <1>5 DEF IInv, Pointed, Marked, Target
<1>8. \A x \in Clis' : ~Unreaped(x)'
  BY <1>1, <1>2, <1>3, <1>5 DEF Unreaped
<1>9. Held' /\ Vacant'
  BY <1>8 DEF Held, Vacant
<1>10. Backed'
  BY <1>1, <1>2, <1>4, <1>5 DEF IInv, Backed
<1>11. Accounted'
  BY <1>1, <1>2, <1>3, <1>5 DEF IInv, Accounted, Pending, Marked
<1> QED BY <1>6, <1>7, <1>9, <1>10, <1>11 DEF IInv

\* The report of an exit reaches the human, or is of a CLI Duo stopped itself.
LEMMA ReportedKeeps == ASSUME IInv, NEW c \in Clis, Reported(c) PROVE IInv'
<1> USE DEF At
<1>1. /\ Quiet /\ UNCHANGED <<human, ses, plug, current>> /\ cli[c].phase = "reaped"
      /\ cli' = [cli EXCEPT ![c].phase = "gone"]
      /\ told' = (told \/ (~cli[c].requested /\ cli[c].slot = current))
  BY SameCount DEF Reported, Quiet, IInv
<1>2. /\ cli' \in [1..setup.clis -> Cli] /\ \A x \in Clis \ {c} : cli'[x] = cli[x]
      /\ cli'[c].phase = "gone"
  BY <1>1 DEF IInv, Types, Cli, Phases, Clis
<1>3. Made' = Made /\ Clis' = Clis
  BY <1>1, <1>2 DEF Made, Quiet, Uncounted, Clis, IInv, Types
<1>4. Types' /\ Numbered'
  BY <1>1, <1>2, TypesKept DEF IInv, Types, Humans
<1>5. Pointed' /\ Marked'
  BY <1>1, <1>3 DEF IInv, Pointed, Marked, Target
<1>6. Held' /\ Backed' /\ Vacant'
  BY <1>1, <1>2, <1>3 DEF IInv, Held, Backed, Vacant, Unreaped
<1>7. Accounted'
  BY <1>1, <1>2, <1>3 DEF IInv, Accounted, Pending
<1> QED BY <1>4, <1>5, <1>6, <1>7 DEF IInv


-----------------------------------------------------------------------------
\* Launches, and what changes the object the manager holds.

\* An object that is launched has the only CLI that is not reaped.
LEMMA LaunchedHas ==
  ASSUME IInv, NEW s \in Made, Launched(s), \A c \in Clis : ~Unreaped(c)
  PROVE  /\ Uncounted
         /\ ses' \in [AllSlots -> Session] /\ \A r \in AllSlots \ {s} : ses'[r] = ses[r]
         /\ ses'[s].driver = ses[s].driver /\ ses'[s].state = "running" /\ ~ses'[s].stopping
         /\ plug' \in [AllSlots -> Memory]
         /\ cli' \in [1..setup.clis -> Cli]
         /\ ses'[s].proc \in Clis /\ cli'[ses'[s].proc].slot = s
         /\ cli'[ses'[s].proc].phase = "running"
         /\ \A c \in Clis \ {ses'[s].proc} : cli'[c] = cli[c]
<1> DEFINE c == count.clis + 1
<1>1. /\ s \in AllSlots /\ ses[s] \in Session /\ plug[s] \in Memory /\ c \in Nat /\ count.convs + 1 \in Nat
      /\ ses \in [AllSlots -> Session] /\ plug \in [AllSlots -> Memory] /\ cli \in [1..setup.clis -> Cli]
      /\ count \in Counts /\ s \in Nat /\ ses[s].driver \in Drivers
  <2>1. s \in AllSlots /\ ses[s].driver \in Drivers /\ count.slots \in Nat
    BY Places DEF IInv
  <2>2. s \in Nat
    BY <2>1 DEF Made
  <2> QED BY <2>1, <2>2, SMTT(20) DEF IInv, Types, Counts
<1>2. Resolved(s) \in Nat
  BY <1>1 DEF Resolved, Session, Memory, Blobs
<1>3. Plan(s) \in Blobs
  BY <1>1, <1>2 DEF Plan, Session, Blobs
<1>4. Remembered(s) \in Memory
  BY <1>1, <1>2 DEF Remembered, Memory
<1>5. /\ c \in Clis
      /\ ses' = [ses EXCEPT ![s].plan = Plan(s), ![s].preflight = FALSE, ![s].state = "running",
                            ![s].stopping = FALSE, ![s].proc = c]
      /\ plug' = Plugged(s)
      /\ cli' = [cli EXCEPT ![c] = [NoCli EXCEPT !.slot = s, !.conv = Plan(s).conv, !.phase = "running"]]
      /\ count' = [count EXCEPT !.clis = c, !.convs = Given(s)]
  BY DEF Launched
<1> HIDE DEF c
<1>6. Uncounted
  <2>1. Given(s) \in Nat
    BY <1>1 DEF Given, Counts
  <2> QED
    BY <1>1, <1>5, <2>1 DEF Counts, Uncounted
<1>7. ses' = [ses EXCEPT ![s] = [ses[s] EXCEPT !.plan = Plan(s), !.preflight = FALSE, !.state = "running",
                                               !.stopping = FALSE, !.proc = c]]
  BY <1>1, <1>5
<1>8. [ses[s] EXCEPT !.plan = Plan(s), !.preflight = FALSE, !.state = "running",
                     !.stopping = FALSE, !.proc = c] \in Session
  BY <1>1, <1>3 DEF Session, States
<1>9. /\ ses' \in [AllSlots -> Session] /\ \A r \in AllSlots \ {s} : ses'[r] = ses[r]
      /\ ses'[s].driver = ses[s].driver /\ ses'[s].state = "running" /\ ~ses'[s].stopping
      /\ ses'[s].proc = c
  BY <1>1, <1>7, <1>8 DEF Session
<1>10. plug' \in [AllSlots -> Memory]
  BY <1>1, <1>4, <1>5 DEF Plugged
<1>11. [NoCli EXCEPT !.slot = s, !.conv = Plan(s).conv, !.phase = "running"] \in Cli
  BY <1>1, <1>3 DEF NoCli, Cli, Phases, Blobs
<1>12. /\ cli' \in [1..setup.clis -> Cli] /\ \A x \in Clis \ {c} : cli'[x] = cli[x]
       /\ cli'[c].slot = s /\ cli'[c].phase = "running"
  BY <1>1, <1>5, <1>11 DEF Clis, NoCli
<1> QED BY <1>5, <1>6, <1>9, <1>10, <1>12

\* A launch of the object that the manager then holds ends every other command's claim.
LEMMA LaunchKeeps ==
  ASSUME IInv, NEW s \in Made, Launched(s), \A c \in Clis : ~Unreaped(c),
         setup' = setup, save' = save, disk' = disk, told' \in BOOLEAN,
         current' = s, human.pc # "saving", human' \in Humans, human'.pc \in {"idle", "saving"}, human'.cmd # "close",
         human'.pc = "saving" => human'.cmd \in {"model", "driver", "start"},
         \A r \in Made : r \in {human'.slot, human'.old} /\ r # s
           => ~ses[r].stopping /\ ses[r].state \notin {"running", "stopping"}
  PROVE  IInv'
<1> USE DEF At
<1>1. s \in AllSlots /\ Made \subseteq AllSlots
  BY Places DEF IInv
<1>2. /\ Uncounted
      /\ ses' \in [AllSlots -> Session] /\ \A r \in AllSlots \ {s} : ses'[r] = ses[r]
      /\ ses'[s].driver = ses[s].driver /\ ses'[s].state = "running" /\ ~ses'[s].stopping
      /\ plug' \in [AllSlots -> Memory]
      /\ cli' \in [1..setup.clis -> Cli]
      /\ ses'[s].proc \in Clis /\ cli'[ses'[s].proc].slot = s
      /\ cli'[ses'[s].proc].phase = "running"
      /\ \A c \in Clis \ {ses'[s].proc} : cli'[c] = cli[c]
  BY LaunchedHas
<1>3. Made' = Made /\ Clis' = Clis
  BY <1>2 DEF Made, Uncounted, Clis, IInv, Types
<1>4. Types' /\ Numbered'
  BY <1>1, <1>2, TypesKept DEF Quiet
<1>5. Pointed' /\ Vacant'
  BY DEF Pointed, Vacant
<1>6. Marked'
  BY <1>1, <1>2, <1>3 DEF Marked
<1>7. Held'
  BY <1>2, <1>3 DEF Held, Unreaped
<1>8. Backed'
  BY <1>1, <1>2, <1>3 DEF Backed, Unreaped
<1>9. Accounted'
  BY <1>2 DEF Accounted
<1> QED BY <1>4, <1>5, <1>6, <1>7, <1>8, <1>9 DEF IInv


\* A launch that fails leaves the object dead.
LEMMA NotLaunchedHas ==
  ASSUME IInv, NEW s \in Made, NotLaunched(s)
  PROVE  /\ Uncounted /\ plug' \in [AllSlots -> Memory] /\ cli' = cli
         /\ ses' \in [AllSlots -> Session] /\ \A r \in AllSlots \ {s} : ses'[r] = ses[r]
         /\ ses'[s].driver = ses[s].driver /\ ses'[s].state = "failed" /\ ses'[s].proc = ses[s].proc
         /\ ses'[s].stopping = ses[s].stopping /\ ~ses'[s].preflight
<1>1. /\ s \in AllSlots /\ ses[s] \in Session /\ ses \in [AllSlots -> Session]
      /\ plug[s] \in Memory /\ plug \in [AllSlots -> Memory] /\ count \in Counts
      /\ ses[s].driver \in Drivers /\ count.convs + 1 \in Nat
  BY Places DEF IInv, Types, Counts
<1>2. CASE NotPrepared(s)
  <2>1. Uncounted
    BY <1>2, SpendKeeps DEF NotPrepared, Spent, IInv
  <2>2. ses' = [ses EXCEPT ![s] = [ses[s] EXCEPT !.state = "failed"]] /\ ~ses[s].preflight
    BY <1>2 DEF NotPrepared
  <2>3. [ses[s] EXCEPT !.state = "failed"] \in Session
    BY <1>1 DEF Session, States
  <2> QED
    BY <1>1, <1>2, <2>1, <2>2, <2>3 DEF NotPrepared, NotLaunched, Session
<1>3. CASE NotStarted(s)
  <2> DEFINE t == [ses[s] EXCEPT !.plan = Plan(s), !.preflight = FALSE, !.state = "failed"]
  <2>1. Resolved(s) \in Nat
    BY <1>1 DEF Resolved, Session, Memory, Blobs
  <2>2. Plan(s) \in Blobs /\ Remembered(s) \in Memory /\ Given(s) \in Nat
    BY <1>1, <2>1 DEF Plan, Session, Blobs, Remembered, Memory, Given, Counts
  <2>3. Uncounted
    <3> DEFINE f == count.fails + 1
               g == Given(s)
    <3>1. count' = [count EXCEPT !.fails = f, !.convs = g]
      BY <1>3 DEF NotStarted
    <3>2. f \in Nat /\ g \in Nat
      BY <1>1, <2>2 DEF Counts
    <3> HIDE DEF f, g
    <3> QED
      BY <1>1, <3>1, <3>2 DEF Counts, Uncounted
  <2>4. ses' = [ses EXCEPT ![s] = t]
    BY <1>3 DEF NotStarted
  <2>5. /\ t \in Session /\ t.driver = ses[s].driver /\ t.state = "failed" /\ ~t.preflight
        /\ t.proc = ses[s].proc /\ t.stopping = ses[s].stopping
    BY <1>1, <2>2 DEF Session, States
  <2>6. plug' \in [AllSlots -> Memory]
    BY <1>1, <1>3, <2>2 DEF NotStarted, Plugged
  <2> HIDE DEF t
  <2> QED
    BY <1>1, <2>3, <2>4, <2>5, <2>6 DEF NotLaunched
<1> QED
  BY <1>2, <1>3 DEF NotLaunched

\* After a failed launch nothing lives: what remains to be said is where the command goes.
LEMMA FailureKeeps ==
  ASSUME IInv, NEW s \in Made, NotLaunched(s), \A c \in Clis : ~Unreaped(c),
         setup' = setup, save' = save, disk' = disk, told' \in BOOLEAN,
         human.pc \in {"launching", "restoring"},
         current' \in Made, human' \in Humans, human'.pc \notin {"waiting", "down"},
         current' \in {current, human.slot, human.old},
         \A r \in Made : r \in {human'.slot, human'.old} => r \in {current, human.slot, human.old},
         Pointed', Accounted', s = current
  PROVE  IInv'
<1> USE DEF At
<1>1. s \in AllSlots /\ Made \subseteq AllSlots
  BY Places DEF IInv
<1>2. /\ Uncounted /\ plug' \in [AllSlots -> Memory] /\ cli' = cli
      /\ ses' \in [AllSlots -> Session] /\ \A r \in AllSlots \ {s} : ses'[r] = ses[r]
      /\ ses'[s].driver = ses[s].driver /\ ses'[s].state = "failed" /\ ses'[s].proc = ses[s].proc
      /\ ses'[s].stopping = ses[s].stopping
  BY NotLaunchedHas
<1>3. Made' = Made /\ Clis' = Clis
  BY <1>2 DEF Made, Uncounted, Clis
<1>4. Types' /\ Numbered'
  BY <1>1, <1>2, TypesKept DEF Quiet, IInv, Types
<1>5. \A r \in Made : r \in {current, human.slot, human.old} => ~ses'[r].stopping
  BY <1>1, <1>2 DEF IInv, Marked
<1>6. Marked'
  BY <1>3, <1>5 DEF Marked
<1>7. Held' /\ Vacant'
  BY <1>2, <1>3 DEF Held, Vacant, Unreaped
<1>8. \A r \in Made : r \in {current, human.slot, human.old}
        => ses'[r].state \notin {"running", "stopping"}
  BY <1>1, <1>2 DEF IInv, Backed
<1>9. Backed'
  BY <1>3, <1>8 DEF Backed
<1> QED BY <1>4, <1>6, <1>7, <1>9 DEF IInv

\* A launch that fails leaves the object without a CLI, and one that succeeds gives it one.
LEMMA StartKeeps == ASSUME IInv, Start PROVE IInv'
<1> USE DEF At
<1>1. /\ human.pc = "launching" /\ human.slot = current /\ current \in Made
      /\ human.cmd \in {"restart", "model", "thinking", "driver", "start"}
      /\ human.cmd = "driver" => human.old \in Made
      /\ \A c \in Clis : ~Unreaped(c)
      /\ human \in Humans
      /\ UNCHANGED <<setup, save, disk>>
  BY DEF Start, IInv, Pointed, Vacant, Types, Humans
<1>2. \A r \in Made : r \in {current, human.slot, human.old} /\ r # current
        => ~ses[r].stopping /\ ses[r].state \notin {"running", "stopping"}
  BY <1>1 DEF IInv, Marked, Backed
<1>3. CASE Launched(human.slot) /\ told' = FALSE /\ UNCHANGED current
           /\ (IF human.cmd \in {"restart", "thinking"} THEN human' = Idle ELSE GoOn("saving"))
  <2>1. \/ human' = [pc |-> "idle", cmd |-> "none", slot |-> 0, old |-> 0]
        \/ human.cmd \in {"model", "driver", "start"} /\ human' = [human EXCEPT !.pc = "saving"]
    BY <1>1, <1>3 DEF Idle, GoOn
  <2>2. /\ human' \in Humans /\ human'.pc \in {"idle", "saving"} /\ human'.cmd # "close"
        /\ human'.pc = "saving" => human'.cmd \in {"model", "driver", "start"}
        /\ \A r \in Made : r \in {human'.slot, human'.old} => r \in {human.slot, human.old}
    BY <1>1, <2>1, Places DEF Humans, Pcs, Cmds, IInv
  <2> QED BY <1>1, <1>2, <1>3, <2>2, LaunchKeeps
<1>4. CASE NotLaunched(human.slot) /\ told' = TRUE /\ UNCHANGED current /\ human' = Idle
  <2>1. human' \in Humans /\ human'.pc = "idle" /\ human'.slot = 0 /\ human'.old = 0
    BY <1>4 DEF Idle, Humans, Pcs, Cmds
  <2>2. Pointed' /\ Accounted'
    BY <1>4, <2>1 DEF Pointed, Accounted
  <2> QED BY <1>1, <1>4, <2>1, <2>2, FailureKeeps, Places DEF IInv
<1>5. CASE NotLaunched(human.slot) /\ human.cmd = "driver" /\ current' = human.old
           /\ GoOn("restoring") /\ UNCHANGED told
  <2>1. /\ human' \in Humans /\ human'.pc = "restoring" /\ human'.cmd = "driver"
        /\ human'.slot = human.slot /\ human'.old = human.old
    BY <1>1, <1>5 DEF GoOn, Humans, Pcs
  <2>2. Pointed' /\ Accounted'
    BY <1>5, <2>1 DEF Pointed, Accounted
  <2>3. told' \in BOOLEAN
    BY <1>5 DEF IInv, Types
  <2> QED BY <1>1, <1>5, <2>1, <2>2, <2>3, FailureKeeps
<1>6. CASE NotLaunched(human.slot) /\ told' = TRUE /\ UNCHANGED current
           /\ human' = [human EXCEPT !.pc = "stopping", !.cmd = "close"]
  <2>1. /\ human' \in Humans /\ human'.pc = "stopping" /\ human'.cmd = "close"
        /\ human'.slot = human.slot /\ human'.old = human.old
    BY <1>1, <1>6 DEF Humans, Pcs, Cmds
  <2>2. Pointed' /\ Accounted'
    BY <1>1, <1>6, <2>1 DEF Pointed, Accounted, Target
  <2> QED BY <1>1, <1>6, <2>1, <2>2, FailureKeeps
<1> QED BY <1>3, <1>4, <1>5, <1>6 DEF Start

\* A driver switch whose launch failed goes back to the old object, which has no CLI either.
LEMMA RestoreKeeps == ASSUME IInv, Restore PROVE IInv'
<1> USE DEF At
<1>1. /\ human.pc = "restoring" /\ human.old = current /\ current \in Made
      /\ \A c \in Clis : ~Unreaped(c)
      /\ UNCHANGED <<setup, save, disk, current>>
  BY DEF Restore, IInv, Pointed, Vacant, Types
<1>2. /\ human' \in Humans /\ human'.pc = "idle" /\ human'.slot = 0 /\ human'.old = 0
      /\ human'.cmd = "none"
  BY DEF Restore, Idle, Humans, Pcs, Cmds
<1>3. \A r \in Made : r \notin {human'.slot, human'.old}
  BY <1>2, Places DEF IInv
<1>4. CASE Launched(human.old) /\ told' = FALSE
  BY <1>1, <1>2, <1>3, <1>4, LaunchKeeps
<1>5. CASE NotLaunched(human.old) /\ told' = TRUE
  <2>1. Pointed' /\ Accounted'
    BY <1>2, <1>5 DEF Pointed, Accounted
  <2> QED BY <1>1, <1>2, <1>3, <1>5, <2>1, FailureKeeps
<1> QED BY <1>4, <1>5 DEF Restore

\* The manager is handed the replacement, which has launched nothing yet.
LEMMA ReplaceKeeps == ASSUME IInv, Replace PROVE IInv'
<1> USE DEF At
<1>1. /\ human.pc = "replacing" /\ human.cmd = "driver" /\ human.old = current
      /\ human.slot \in Made \ {current} /\ \A c \in Clis : ~Unreaped(c)
      /\ UNCHANGED <<ses, plug, cli, told>> /\ Quiet
      /\ current' = human.slot /\ human' = [human EXCEPT !.pc = "launching"]
  BY SameCount DEF Replace, IInv, Pointed, Vacant, Quiet, GoOn
<1>2. /\ human' \in Humans /\ human'.pc = "launching" /\ human'.slot = human.slot
      /\ human'.old = current /\ human'.cmd = "driver" /\ current \in Made
  BY <1>1 DEF IInv, Types, Humans, Pcs
<1>3. Made' = Made /\ Clis' = Clis
  BY <1>1 DEF Made, Quiet, Uncounted, Clis
<1>4. Types' /\ Numbered'
  BY <1>1, <1>2, TypesKept DEF IInv, Types
<1>5. Pointed'
  BY <1>1, <1>2, <1>3 DEF Pointed
<1>6. Marked' /\ Backed'
  BY <1>1, <1>2, <1>3 DEF IInv, Marked, Backed, Unreaped
<1>7. Held' /\ Vacant' /\ Accounted'
  BY <1>1, <1>2, <1>3 DEF Held, Vacant, Accounted, Unreaped
<1> QED BY <1>4, <1>5, <1>6, <1>7 DEF IInv


-----------------------------------------------------------------------------
\* New objects.

\* The number of the next object is free, and the objects made so far keep theirs.
LEMMA NextObject ==
  ASSUME IInv, setup' = setup, NEW n, n = count.slots + 1,
         count' \in Counts, count'.slots = n,
         \/ count'.switches = count.switches + 1 /\ count'.resumes = count.resumes
            /\ count.switches < setup.switches
         \/ count'.switches = count.switches /\ count'.resumes = count.resumes + 1
            /\ count.resumes < setup.resumes
  PROVE  /\ n \in AllSlots /\ n \notin Made /\ n # 0 /\ Made' = Made \cup {n} /\ AllSlots' = AllSlots
         /\ 0 \notin Made'
         /\ count'.slots = 1 + count'.switches + count'.resumes
         /\ count'.switches <= setup.switches /\ count'.resumes <= setup.resumes
<1>1. /\ count.slots \in Nat /\ count.switches \in Nat /\ count.resumes \in Nat
      /\ setup.switches \in Nat /\ setup.resumes \in Nat
      /\ count.slots = 1 + count.switches + count.resumes
      /\ count.switches <= setup.switches /\ count.resumes <= setup.resumes
  BY Places DEF IInv, Numbered, Types, Counts
<1> QED BY <1>1 DEF Made, AllSlots

\* A new session object is one, of its driver, and has no CLI.
LEMMA NewIsSession ==
  ASSUME NEW d \in Drivers, NEW b \in Blobs
  PROVE  /\ NewSlot(d, b) \in Session /\ NewSlot(d, b).driver = d /\ NewSlot(d, b).state = "new"
         /\ ~NewSlot(d, b).stopping /\ NewSlot(d, b).proc = 0
BY DEF NewSlot, NoSession, Session, NoBlob, Blobs, States

\* An empty driver state is a blob.
LEMMA NoBlobIsBlob == NoBlob \in Blobs
BY DEF NoBlob, Blobs

\* A driver switch makes an object of its own and leaves the manager's where it is.
LEMMA SetDriverKeeps == ASSUME IInv, SetDriver PROVE IInv'
<1> USE DEF At
<1> DEFINE n == count.slots + 1
<1>1. /\ human.pc = "idle" /\ count.switches < setup.switches
      /\ count' = [count EXCEPT !["switches"] = @ + 1, !.slots = n]
      /\ human' = [pc |-> "preflight", cmd |-> "driver", slot |-> n, old |-> current]
      /\ UNCHANGED <<setup, plug, current, cli, save, disk, told>>
  BY DEF SetDriver
<1>2. PICK driver \in Drivers : ses' = [ses EXCEPT ![n] = NewSlot(driver, NoBlob)]
  BY DEF SetDriver
<1> HIDE DEF n
<1>3. /\ count' \in Counts /\ count'.slots = n /\ count'.switches = count.switches + 1
      /\ count'.resumes = count.resumes
  <2>1. n \in Nat /\ count \in Counts
    BY Places DEF n, IInv, Types
  <2>2. count.switches + 1 \in Nat
    BY <2>1 DEF Counts
  <2>3. count' = [count EXCEPT !.switches = count.switches + 1, !.slots = n]
    BY <1>1
  <2> QED BY <2>1, <2>2, <2>3 DEF Counts
<1>4. /\ n \in AllSlots /\ n \notin Made /\ n # 0 /\ Made' = Made \cup {n} /\ AllSlots' = AllSlots
      /\ 0 \notin Made'
      /\ count'.slots = 1 + count'.switches + count'.resumes
      /\ count'.switches <= setup.switches /\ count'.resumes <= setup.resumes
  BY <1>1, <1>3, NextObject DEF n
<1>5. Made \subseteq AllSlots /\ current \in Made
  BY Places DEF IInv
<1>6. /\ ses' \in [AllSlots -> Session] /\ \A s \in AllSlots \ {n} : ses'[s] = ses[s]
      /\ ses'[n].driver \in Drivers /\ ses'[n].state = "new" /\ ~ses'[n].stopping
      /\ ses'[n].proc = 0
  BY <1>2, <1>4, NewIsSession, NoBlobIsBlob DEF IInv, Types
<1>7. Types'
  BY <1>1, <1>3, <1>4, <1>6 DEF IInv, Types, Pcs, Cmds
<1>8. Numbered'
  BY <1>1, <1>4, <1>5, <1>6 DEF IInv, Numbered, Clis
<1>9. Pointed'
  BY <1>1, <1>4, <1>5 DEF Pointed, Target
<1>10. Clis' = Clis /\ human'.slot = n /\ human'.old = current /\ human'.pc = "preflight"
  BY <1>1 DEF Clis
<1>11. Marked'
  BY <1>1, <1>4, <1>5, <1>6, <1>10 DEF IInv, Marked
<1>12. Held' /\ Vacant'
  BY <1>1, <1>4, <1>5, <1>6, <1>10 DEF IInv, Held, Vacant, Unreaped
<1>13. Backed'
  <2>1. ses'[current] = ses[current]
    BY <1>4, <1>5, <1>6
  <2>2. ses[current].state \in {"running", "stopping"}
          => ses[current].proc \in Clis /\ Unreaped(ses[current].proc)
    BY <1>1, <1>5 DEF IInv, Backed
  <2> QED BY <1>1, <1>6, <1>10, <2>1, <2>2 DEF Backed, Unreaped
<1>14. Accounted'
  BY <1>1, <1>4, <1>5, <1>6, <1>10 DEF IInv, Accounted, Pending
<1> QED BY <1>7, <1>8, <1>9, <1>11, <1>12, <1>13, <1>14 DEF IInv

\* Planning the replacement's launch touches only the replacement.
LEMMA PreflightKeeps == ASSUME IInv, Preflight PROVE IInv'
<1> USE DEF At
<1> DEFINE s == human.slot
<1>1. /\ human.pc = "preflight" /\ human.cmd = "driver" /\ human.old = current
      /\ s \in Made \ {current} /\ current \in Made /\ human \in Humans
      /\ UNCHANGED <<setup, current, cli, save, disk, told>>
      /\ Made \subseteq AllSlots
  BY Places DEF Preflight, IInv, Pointed, Types, Humans
<1> HIDE DEF s
<1>2. CASE /\ ses' = [ses EXCEPT ![s].plan = [by |-> ses[s].driver, conv |-> Resolved(s)],
                                ![s].preflight = TRUE]
           /\ plug' = [plug EXCEPT ![s] = Remembered(s)]
           /\ count' = [count EXCEPT !.convs = IF Minted(s) THEN @ + 1 ELSE @]
           /\ GoOn("capturing")
  <2>1. /\ s \in AllSlots /\ ses[s] \in Session /\ plug[s] \in Memory /\ count \in Counts
        /\ ses \in [AllSlots -> Session] /\ plug \in [AllSlots -> Memory] /\ ses[s].driver \in Drivers
    BY <1>1, Places DEF IInv, Types
  <2>2. Resolved(s) \in Nat
    BY <2>1 DEF Resolved, Session, Memory, Blobs, Counts
  <2>3. Remembered(s) \in Memory /\ [by |-> ses[s].driver, conv |-> Resolved(s)] \in Blobs
    BY <2>1, <2>2 DEF Remembered, Memory, Blobs
  <2>4. Uncounted
    BY <1>2, <2>1 DEF Uncounted, Counts
  <2>5. /\ ses' \in [AllSlots -> Session] /\ \A r \in AllSlots \ {s} : ses'[r] = ses[r]
        /\ ses'[s].driver = ses[s].driver /\ ses'[s].state = ses[s].state
        /\ ses'[s].stopping = ses[s].stopping /\ ses'[s].proc = ses[s].proc
    <3>1. ses' = [ses EXCEPT ![s] = [ses[s] EXCEPT !.plan = [by |-> ses[s].driver, conv |-> Resolved(s)],
                                                   !.preflight = TRUE]]
      BY <1>2, <2>1
    <3>2. [ses[s] EXCEPT !.plan = [by |-> ses[s].driver, conv |-> Resolved(s)],
                         !.preflight = TRUE] \in Session
      BY <2>1, <2>3 DEF Session
    <3> QED BY <2>1, <3>1, <3>2 DEF Session
  <2>6. plug' \in [AllSlots -> Memory]
    BY <1>2, <2>1, <2>3
  <2>7. /\ human' \in Humans /\ human'.pc = "capturing" /\ human'.cmd = "driver"
        /\ human'.slot = s /\ human'.old = current
    BY <1>1, <1>2 DEF GoOn, Humans, Pcs, s
  <2>8. Made' = Made /\ Clis' = Clis
    BY <1>1, <2>4 DEF Made, Uncounted, Clis
  <2>9. Types' /\ Numbered'
    BY <1>1, <2>1, <2>4, <2>5, <2>6, <2>7, TypesKept DEF IInv, Types, Quiet
  <2>10. Pointed'
    BY <1>1, <2>7, <2>8 DEF Pointed, Target
  <2>11. Marked' /\ Vacant' /\ Accounted'
    BY <1>1, <2>1, <2>5, <2>7, <2>8 DEF IInv, Marked, Vacant, Accounted, s
  <2>12. ses'[current] = ses[current]
    BY <1>1, <2>5
  <2>13. Held'
    BY <1>1, <2>7, <2>8, <2>12 DEF IInv, Held, Unreaped
  <2>14. Backed'
    BY <1>1, <2>5, <2>7, <2>8, <2>12 DEF IInv, Backed, Unreaped, s
  <2> QED BY <2>9, <2>10, <2>11, <2>13, <2>14 DEF IInv
<1>3. CASE Spend("fails") /\ human' = Idle /\ UNCHANGED <<ses, plug>>
  <2>1. human' \in Humans /\ human'.pc = "idle" /\ human'.slot = 0 /\ human'.old = 0
    BY <1>3 DEF Idle, Humans, Pcs, Cmds
  <2>2. Quiet
    BY <1>1, <1>3, SpendKeeps DEF Quiet, Spent, IInv
  <2>3. Pointed' /\ Vacant'
    BY <2>1 DEF Pointed, Vacant
  <2>4. Accounted'
    BY <1>1, <1>3, <2>1 DEF IInv, Accounted, Clis, Pending
  <2> QED BY <1>1, <1>3, <2>1, <2>2, <2>3, <2>4, OnlyHuman, Places DEF IInv
<1> QED BY <1>2, <1>3 DEF Preflight, s


\* Duo's crash takes every CLI with it.
LEMMA CrashKeeps == ASSUME IInv, Crash PROVE IInv'
<1> USE DEF At
<1>1. /\ Uncounted /\ setup' = setup /\ UNCHANGED <<ses, current, disk, told>>
      /\ human' = [Idle EXCEPT !.pc = "down"]
      /\ cli' = [c \in Clis |-> IF cli[c].phase = "none" THEN NoCli ELSE [cli[c] EXCEPT !.phase = "gone"]]
      /\ save' = [who \in DOMAIN save |-> NoSave]
      /\ plug' = [s \in Slots |-> NoMemory]
  BY SpendKeeps DEF Crash, Spent, IInv
<1>2. human' \in Humans /\ human'.pc = "down"
  BY <1>1 DEF Idle, Humans, Pcs, Cmds
<1>3. NoMemory \in Memory /\ NoSave \in Save /\ NoSave.pc = "none" /\ NoCli \in Cli /\ NoCli.phase = "none"
  BY DEF NoMemory, Memory, NoSave, Save, NoBlob, Blobs, NoCli, Cli, Phases
<1>4. /\ cli' \in [1..setup.clis -> Cli]
      /\ \A c \in Clis : cli'[c].phase \in {"none", "gone"}
  BY <1>1, <1>3 DEF IInv, Types, Cli, Phases, Clis
<1>5. plug' \in [AllSlots -> Memory] /\ save' \in [Savers -> Save]
      /\ \A who \in Savers : save'[who].pc = "none"
  BY <1>1, <1>3, Places DEF IInv, Types
<1>6. Made' = Made /\ AllSlots' = AllSlots /\ Clis' = Clis
  BY <1>1, <1>4 DEF Made, AllSlots, Uncounted, Clis, IInv, Types
<1>7. Types'
  BY <1>1, <1>2, <1>4, <1>5, <1>6 DEF IInv, Types, Uncounted, Humans
<1>8. Numbered'
  BY <1>1, <1>5, <1>6 DEF IInv, Numbered, Uncounted, Savers
<1>9. Pointed' /\ Marked' /\ Backed' /\ Accounted'
  BY <1>2 DEF Pointed, Marked, Backed, Accounted
<1>10. Held' /\ Vacant'
  BY <1>4, <1>6 DEF Held, Vacant, Unreaped
<1> QED BY <1>7, <1>8, <1>9, <1>10 DEF IInv

\* A resumed Duo makes one object more, from the checkpoint, and launches it.
LEMMA ResumeKeeps == ASSUME IInv, Resume PROVE IInv'
<1> USE DEF At
<1> DEFINE n == count.slots + 1
<1>1. /\ human.pc \in {"down", "closed"} /\ count.resumes < setup.resumes
      /\ \A c \in Clis : cli[c].phase \in {"none", "gone"}
      /\ plug' = [s \in Slots |-> NoMemory]
      /\ current' = n
      /\ count' = [count EXCEPT !["resumes"] = @ + 1, !.slots = n]
      /\ human' = [pc |-> "launching", cmd |-> "start", slot |-> n, old |-> 0]
      /\ UNCHANGED <<setup, cli, save, told>>
  BY DEF Resume
<1>2. PICK driver \in Drivers : /\ ses' = [ses EXCEPT ![n] = NewSlot(driver, disk.blob)]
                               /\ disk' = [disk EXCEPT !.driver = driver]
  BY DEF Resume, IInv, Types
<1> HIDE DEF n
<1>3. /\ count' \in Counts /\ count'.slots = n /\ count'.switches = count.switches
      /\ count'.resumes = count.resumes + 1
  <2>1. n \in Nat /\ count \in Counts
    BY Places DEF n, IInv, Types
  <2>2. count.resumes + 1 \in Nat
    BY <2>1 DEF Counts
  <2>3. count' = [count EXCEPT !.resumes = count.resumes + 1, !.slots = n]
    BY <1>1
  <2> QED BY <2>1, <2>2, <2>3 DEF Counts
<1>4. /\ n \in AllSlots /\ n \notin Made /\ n # 0 /\ Made' = Made \cup {n} /\ AllSlots' = AllSlots
      /\ 0 \notin Made'
      /\ count'.slots = 1 + count'.switches + count'.resumes
      /\ count'.switches <= setup.switches /\ count'.resumes <= setup.resumes
  BY <1>1, <1>3, NextObject DEF n
<1>5. Made \subseteq AllSlots /\ Slots = AllSlots
  BY Places DEF IInv
<1>6. disk.blob \in Blobs /\ disk' \in [driver : Drivers, blob : Blobs]
  BY <1>2 DEF IInv, Types
<1>7. /\ ses' \in [AllSlots -> Session] /\ \A s \in AllSlots \ {n} : ses'[s] = ses[s]
      /\ ses'[n].driver \in Drivers /\ ses'[n].state = "new" /\ ~ses'[n].stopping
      /\ ses'[n].proc = 0
  BY <1>2, <1>4, <1>6, NewIsSession DEF IInv, Types
<1>8. plug' \in [AllSlots -> Memory]
  BY <1>1, <1>5 DEF NoMemory, Memory
<1>9. Types'
  BY <1>1, <1>3, <1>4, <1>6, <1>7, <1>8 DEF IInv, Types, Pcs, Cmds
<1>10. Numbered'
  BY <1>1, <1>4, <1>5, <1>7 DEF IInv, Numbered, Clis
<1>11. /\ human'.pc = "launching" /\ human'.cmd = "start" /\ human'.slot = n /\ human'.old = 0
       /\ Clis' = Clis
  BY <1>1 DEF Clis
<1>12. Pointed' /\ Marked' /\ Backed' /\ Accounted'
  BY <1>1, <1>4, <1>7, <1>11 DEF Pointed, Marked, Backed, Accounted
<1>13. Held' /\ Vacant'
  BY <1>1, <1>11 DEF Held, Vacant, Unreaped
<1> QED BY <1>9, <1>10, <1>12, <1>13 DEF IInv

-----------------------------------------------------------------------------
\* The plugins and the saves.

\* What a plugin learns or forgets by crashing is no part of the invariant.
LEMMA PluginKeeps ==
  ASSUME IInv, NEW s \in Slots, PluginCrashes(s) \/ Learns(s)
  PROVE  IInv'
<1>1. /\ setup' = setup /\ UNCHANGED <<human, current, cli, told, ses, save, disk>> /\ Uncounted
  BY SpendKeeps, SameCount DEF PluginCrashes, Learns, Spent, IInv
<1>2. s \in AllSlots /\ plug[s] \in Memory /\ plug \in [AllSlots -> Memory]
  BY Places DEF IInv, Types
<1>3. plug' \in [AllSlots -> Memory]
  <2>1. CASE PluginCrashes(s)
    BY <1>2, <2>1 DEF PluginCrashes, NoMemory, Memory
  <2>2. CASE Learns(s)
    <3>1. ses[s].proc \in Clis
      BY <1>2, <2>2 DEF Learns, IInv, Numbered
    <3>2. cli[ses[s].proc].conv \in Nat
      BY <3>1 DEF IInv, Types, Cli, Clis
    <3>3. [plug[s] EXCEPT !.learned = cli[ses[s].proc].conv, !.resolved = cli[ses[s].proc].conv] \in Memory
      BY <1>2, <3>2 DEF Memory
    <3> QED BY <1>2, <2>2, <3>3 DEF Learns
  <2> QED BY <2>1, <2>2
<1> QED BY <1>1, <1>3, Beside DEF IInv, Types, Numbered

\* A checkpoint that is composed meanwhile changes neither sessions nor CLIs.
LEMMA SaveKeeps ==
  ASSUME IInv, NEW who \in Savers, Takes(who) \/ Asks(who)
  PROVE  IInv'
<1>1. /\ setup' = setup /\ UNCHANGED <<human, current, cli, told, ses, plug, disk>> /\ Uncounted
  BY SpendKeeps, SameCount DEF Takes, Asks, SavesAgain, Spent, IInv
<1>2. /\ save[who] \in Save /\ save \in [Savers -> Save] /\ current \in Made /\ current \in Nat
      /\ ses[current].driver \in Drivers /\ Made \subseteq AllSlots
  BY Places DEF IInv, Types, Made
<1>3. CASE Takes(who)
  <2>1. [NoSave EXCEPT !.pc = "taken", !.slot = current, !.driver = ses[current].driver] \in Save
    BY <1>2 DEF NoSave, Save, NoBlob, Blobs
  <2>2. /\ save' \in [Savers -> Save] /\ \A w \in Savers \ {who} : save'[w] = save[w]
        /\ save'[who].slot \in Made /\ save'[who].driver \in Drivers
        /\ who = "human" => human.pc = "saving"
    BY <1>2, <1>3, <2>1 DEF Takes, NoSave, SavesAgain, At
  <2> QED BY <1>1, <2>2, Beside DEF IInv, Types, Numbered, Savers
<1>4. CASE Asks(who)
  <2>1. save[who].slot \in Made /\ save[who].driver \in Drivers
    BY <1>4 DEF Asks, IInv, Numbered
  <2>2. DriverState(save[who].slot) \in Blobs
    BY <1>2, <2>1, StateIsBlob DEF IInv
  <2>3. [save[who] EXCEPT !.pc = "composed", !.blob = DriverState(save[who].slot)] \in Save
    BY <1>2, <2>2 DEF Save
  <2>4. /\ save' \in [Savers -> Save] /\ \A w \in Savers \ {who} : save'[w] = save[w]
        /\ save'[who].slot = save[who].slot /\ save'[who].driver = save[who].driver
        /\ save[who].pc # "none"
    BY <1>2, <1>4, <2>3 DEF Asks, Save
  <2> QED BY <1>1, <2>1, <2>4, Beside DEF IInv, Types, Numbered, Savers
<1> QED BY <1>3, <1>4

\* A save that is written; the human's own ends its command.
LEMMA SavedKeeps == ASSUME IInv, NEW who \in Savers, Saved(who) PROVE IInv'
<1> USE DEF At
<1>1. /\ UNCHANGED <<setup, ses, plug, current, cli, told>> /\ Uncounted /\ save[who].pc = "composed"
      /\ disk' = [driver |-> save[who].driver, blob |-> save[who].blob]
      /\ save' = [save EXCEPT ![who] = NoSave]
      /\ human' = IF who = "human" THEN IF human.cmd = "close" THEN [Idle EXCEPT !.pc = "closed"] ELSE Idle
                  ELSE human
  BY SameCount DEF Saved, IInv
<1>2. disk' \in [driver : Drivers, blob : Blobs]
  BY <1>1 DEF IInv, Types, Numbered, Save
<1>3. /\ save' \in [Savers -> Save] /\ save'[who].pc = "none"
      /\ \A w \in Savers \ {who} : save'[w] = save[w]
  BY <1>1 DEF IInv, Types, NoSave, Save, NoBlob, Blobs
<1>4. CASE human' = human
  BY <1>1, <1>2, <1>3, <1>4, Beside DEF IInv, Types, Numbered, Savers
<1>5. CASE who = "human"
  <2>1. human.pc = "saving"
    BY <1>1, <1>5 DEF IInv, Numbered
  <2>2. /\ human' = IF human.cmd = "close" THEN [Idle EXCEPT !.pc = "closed"] ELSE Idle
        /\ human' \in Humans /\ human'.slot = 0 /\ human'.old = 0
        /\ human'.pc = IF human.cmd = "close" THEN "closed" ELSE "idle"
    BY <1>1, <1>5 DEF Idle, Humans, Pcs, Cmds
  <2>3. Made' = Made /\ AllSlots' = AllSlots /\ Clis' = Clis
    BY <1>1 DEF Uncounted, Made, AllSlots, Clis
  <2>4. Types'
    BY <1>1, <1>2, <1>3, <2>2, <2>3 DEF IInv, Types, Uncounted, Humans
  <2>5. Numbered'
    BY <1>1, <1>3, <1>5, <2>3 DEF IInv, Numbered, Uncounted
  <2>6. Pointed'
    BY <2>2 DEF Pointed
  <2>7. Marked' /\ Held' /\ Backed'
    BY <1>1, <2>1, <2>2, <2>3, Places DEF IInv, Marked, Held, Backed, Unreaped
  <2>8. Vacant'
    BY <1>1, <2>1, <2>2, <2>3 DEF IInv, Vacant, Unreaped
  <2>9. Accounted'
    BY <1>1, <2>1, <2>2, <2>3 DEF IInv, Accounted, Pending
  <2> QED BY <2>4, <2>5, <2>6, <2>7, <2>8, <2>9 DEF IInv
<1> QED BY <1>1, <1>4, <1>5

-----------------------------------------------------------------------------
\* The invariant holds at first: one object, and its launch ahead.
LEMMA InitInv == Init => IInv
<1> SUFFICES ASSUME Init PROVE IInv
  OBVIOUS
<1>1. setup.switches \in Nat /\ setup.resumes \in Nat /\ setup.clis \in Nat
  BY SetupsAssumption DEF Init
<1>2. /\ NoMemory \in Memory /\ NoSave \in Save /\ NoCli \in Cli /\ NoBlob \in Blobs
      /\ NoSession \in Session /\ NewSlot("a", NoBlob) \in Session
  BY DEF NoMemory, Memory, NoSave, Save, NoBlob, Blobs, NoCli, Cli, Phases, NoSession, Session,
         States, NewSlot, Drivers
<1>3. /\ human.pc = "launching" /\ human.cmd = "start" /\ human.slot = 1 /\ human.old = 0
      /\ human \in [pc : Pcs, cmd : Cmds, slot : Made \cup {0}, old : Made \cup {0}]
      /\ count.slots = 1 /\ count.switches = 0 /\ count.resumes = 0 /\ count \in Counts
  BY DEF Init, Pcs, Cmds, Made, Counts
<1>4. Made = {1} /\ 1 \in AllSlots /\ Clis = 1..setup.clis
  BY <1>1, <1>3 DEF Made, AllSlots, Init, Clis
<1>5. /\ ses \in [AllSlots -> Session] /\ ses[1] = NewSlot("a", NoBlob)
      /\ \A s \in AllSlots : ses[s].proc = 0
  BY <1>1, <1>2, <1>4 DEF Init, AllSlots, NewSlot, NoSession
<1>6. ses[1].state = "new" /\ ~ses[1].stopping /\ ses[1].driver \in Drivers
  BY <1>5 DEF NewSlot, NoSession, Drivers
<1>7. plug \in [AllSlots -> Memory]
  BY <1>2, <1>5 DEF Init
<1>8. cli \in [1..setup.clis -> Cli] /\ \A c \in Clis : cli[c].phase = "none"
  BY <1>2, <1>4 DEF Init, NoCli
<1>9. save \in [Savers -> Save] /\ \A who \in Savers : save[who].pc = "none"
  BY <1>2 DEF Init, Savers, NoSave
<1>10. Types
  BY <1>2, <1>3, <1>4, <1>5, <1>7, <1>8, <1>9 DEF Init, Types, Drivers
<1>11. Numbered
  BY <1>1, <1>3, <1>4, <1>5, <1>6, <1>9 DEF Numbered, Savers
<1>12. Pointed
  BY <1>3 DEF Pointed, At, Init
<1>13. Marked /\ Held /\ Backed /\ Vacant /\ Accounted
  BY <1>3, <1>4, <1>6, <1>8 DEF Marked, Held, Backed, Vacant, Accounted, At, Unreaped, Init
<1> QED BY <1>10, <1>11, <1>12, <1>13 DEF IInv

\* Every step keeps the invariant.
LEMMA StepInv == IInv /\ [Next]_vars => IInv'
<1> SUFFICES ASSUME IInv, [Next]_vars PROVE IInv'
  OBVIOUS
<1>1. CASE Command
  BY <1>1, RestartAgentKeeps, RestartsKeeps, SetDriverKeeps, CloseKeeps DEF Command, SetModel, CycleThinking
<1>2. CASE Works
  BY <1>2, PreflightKeeps, CaptureKeeps, StopKeeps, KillKeeps, StoppedKeeps, ReplaceKeeps, StartKeeps,
     RestoreKeeps DEF Works
<1>3. CASE Crash \/ Resume
  BY <1>3, CrashKeeps, ResumeKeeps
<1>4. CASE \E s \in Slots : ses[s].driver # "none" /\ (PluginCrashes(s) \/ Learns(s))
  BY <1>4, PluginKeeps
<1>5. CASE \E c \in Clis : Opens(c) \/ Exits(c) \/ Obeys(c) \/ Waiter(c)
  BY <1>5, OpensKeeps, ExitsObeysKeep, ReapedKeeps, ReportedKeeps DEF Waiter
<1>6. CASE \E who \in DOMAIN save : Takes(who) \/ Saver(who)
  <2>1. DOMAIN save = Savers
    BY DEF IInv, Types
  <2> QED BY <1>6, <2>1, SaveKeeps, SavedKeeps DEF Saver
<1>7. CASE UNCHANGED vars
  <2>1. UNCHANGED <<setup, human, ses, plug, current, cli, save, disk, count, told>>
    BY <1>7 DEF vars
  <2> QED BY <2>1, SameCount, Beside DEF IInv, Types, Numbered
<1> QED BY <1>1, <1>2, <1>3, <1>4, <1>5, <1>6, <1>7 DEF Next

\* The inductive invariant holds in every reachable state, for any setups of natural bounds.
THEOREM AgentsInvariant == Spec => []IInv
BY InitInv, StepInv, PTL DEF Spec

\* At any time at most one CLI of the agent runs; when no command is under way it is the
\* one that the manager's object can stop, and none outlives the session (session.go:332,
\* 594; manager.go:194-226): for any number of launches, switches, resumes and failures.
THEOREM OneCliHolds == Spec => []OneCli
<1>1. IInv => OneCli
  <2> SUFFICES ASSUME IInv PROVE OneCli
    OBVIOUS
  <2> DEFINE running == {c \in Clis : cli[c].phase = "running"}
  <2>1. TypeOK
    BY Places DEF IInv, Types, TypeOK, Session, States, Cli, Phases, Clis
  <2>2. running \subseteq {ses[current].proc}
    BY DEF IInv, Held, Unreaped
  <2>3. IsFiniteSet({ses[current].proc}) /\ Cardinality({ses[current].proc}) = 1
    BY FS_Singleton
  <2>4. Cardinality(running) <= 1
    BY <2>2, <2>3, FS_Subset, FS_CardinalityType
  <2>5. At("idle") => \A c \in running : c = ses[current].proc /\ ses[current].state = "running"
    BY DEF IInv, Held, Unreaped, At
  <2>6. At("closed") => running = {}
    BY DEF IInv, Vacant, Unreaped, At
  <2> QED BY <2>1, <2>4, <2>5, <2>6 DEF OneCli
<1> QED BY <1>1, AgentsInvariant, PTL

\* An agent that is not running while no command is under way is known to the human as
\* gone, once its exits are settled (service.go:538-560, 1221-1223; manager.go:48-57): an
\* exit is reported by the object the manager holds at that time, however it was replaced.
THEOREM NeverSilentlyGoneHolds == Spec => []NeverSilentlyGone
<1>1. IInv => NeverSilentlyGone
  BY DEF IInv, Accounted, NeverSilentlyGone, Pending, At
<1> QED BY <1>1, AgentsInvariant, PTL
-----------------------------------------------------------------------------
(***************************************************************************)
(* Launches go on with the conversation that is known.  Every copy of a    *)
(* conversation's number, in an object, a plugin, a CLI, a save or the     *)
(* checkpoint, is one that has been given out; and an object from which a  *)
(* command is about to launch has had its state captured.                  *)
(***************************************************************************)
Numbers == 0..count.convs

Known ==
  /\ \A s \in AllSlots : {ses[s].cfg.conv, ses[s].plan.conv, plug[s].resolved, plug[s].learned} \subseteq Numbers
  /\ \A c \in Clis : cli[c].conv \in Numbers
  /\ \A who \in Savers : save[who].blob.conv \in Numbers
  /\ disk.blob.conv \in Numbers

\* A plugin that prepared a launch has not lost the conversation it prepared it with.
Recalled ==
  \A s \in Made : Server(s) /\ plug[s].ran /\ ses[s].plan.conv # 0 => plug[s].resolved # 0

\* Only the replacement of a driver switch has a plan made in advance, from no state.
Switching ==
  human.cmd = "driver" /\ human.pc \in {"capturing", "stopping", "waiting", "replacing", "launching"}

Planned ==
  /\ \A s \in Made : ses[s].preflight /\ s \in {current, human.slot, human.old}
       => human.pc = "down" \/ (Switching /\ s = human.slot)
  /\ Switching => ses[human.slot].preflight
  /\ Switching \/ human.pc = "preflight" => ses[human.slot].cfg.conv = 0
  /\ Switching \/ human.pc = "restoring"
       => human.slot # human.old /\ human.slot \in Made /\ human.old \in Made

\* An object without a conversation to go on with was never launched with one.
Blank(s) == ses[s].cfg.conv = 0 => ses[s].plan.conv = 0

Captured ==
  /\ human.pc \in {"stopping", "waiting", "launching"} /\ human.cmd \in {"model", "thinking"}
       => Blank(human.slot)
  /\ human.pc = "launching" /\ human.cmd = "start" => Blank(human.slot)
  /\ human.pc \in {"stopping", "waiting", "replacing", "launching", "restoring"} /\ human.cmd = "driver"
       => Blank(human.old)

\* An object that is not made yet has launched nothing.
Fresh == \A s \in AllSlots \ Made : ses[s].proc = 0

Kept == Known /\ Recalled /\ Planned /\ Captured /\ Fresh

\* A step that leaves what the objects would launch with as it is.
Same(s) == /\ ses'[s].cfg = ses[s].cfg /\ ses'[s].plan = ses[s].plan /\ ses'[s].driver = ses[s].driver
           /\ ses'[s].preflight = ses[s].preflight /\ ses'[s].proc = ses[s].proc

Passive ==
  /\ setup' = setup /\ count'.convs \in {count.convs, count.convs + 1}
  /\ Made' = Made /\ AllSlots' = AllSlots /\ Clis' = Clis
  /\ \A s \in AllSlots : Same(s)

\* The objects the manager and the command know stay the same, and so does the command.
Standing == human' = human /\ current' = current

\* Numbers are only ever added.
LEMMA NumbersGrow ==
  ASSUME IInv, count'.convs \in {count.convs, count.convs + 1}
  PROVE  Numbers \subseteq Numbers' /\ 0 \in Numbers' /\ count.convs \in Nat
BY DEF Numbers, IInv, Types, Counts

\* A step beside the objects keeps their conversations, if it loses none of the copies it moves.
LEMMA PassiveKept ==
  ASSUME IInv, Kept, Passive,
         \A s \in AllSlots : \/ plug'[s] = plug[s] \/ plug'[s] = NoMemory
                             \/ /\ plug'[s].resolved = plug'[s].learned
                                /\ plug'[s].learned \in Numbers' \ {0},
         \A c \in Clis : cli'[c].conv \in Numbers',
         \A who \in Savers : save'[who].blob.conv \in Numbers',
         disk'.blob.conv \in Numbers',
         Standing \/ (Planned' /\ Captured')
  PROVE  Kept'
<1>1. Made \subseteq AllSlots /\ Numbers \subseteq Numbers' /\ 0 \in Numbers'
  BY Places, NumbersGrow DEF IInv, Passive
<1>2. Known'
  <2>1. \A s \in AllSlots : plug'[s].resolved \in Numbers' /\ plug'[s].learned \in Numbers'
    BY <1>1 DEF Kept, Known, NoMemory
  <2>2. \A s \in AllSlots : ses'[s].cfg.conv \in Numbers' /\ ses'[s].plan.conv \in Numbers'
    BY <1>1 DEF Kept, Known, Passive, Same
  <2> QED
    BY <2>1, <2>2 DEF Known, Passive
<1>3. Recalled'
  <2>1. ASSUME NEW s \in Made, Server(s)', plug'[s].ran, ses'[s].plan.conv # 0
        PROVE  plug'[s].resolved # 0
    <3>1. s \in AllSlots /\ Server(s) /\ ses[s].plan.conv # 0
      BY <1>1, <2>1 DEF Passive, Same, Server
    <3>2. plug'[s] # NoMemory
      BY <2>1 DEF NoMemory
    <3> QED
      BY <2>1, <3>1, <3>2 DEF Kept, Recalled
  <2> QED
    BY <2>1 DEF Recalled, Passive
<1>4. Planned' /\ Captured'
  <2>1. CASE Standing
    <3>1. \A s \in Made : Same(s)
      BY <1>1 DEF Passive
    <3>2. Switching' = Switching
      BY <2>1 DEF Switching, Standing
    <3>3. Switching \/ human.pc = "preflight" => human.slot \in Made
      BY DEF Kept, Planned, IInv, Pointed, At, Switching
    <3>4. Planned'
      BY <2>1, <3>1, <3>2, <3>3 DEF Kept, Planned, Standing, Same, Passive
    <3>5. /\ human.pc \in {"stopping", "waiting", "launching"} /\ human.cmd \in {"model", "thinking"}
               => human.slot \in Made
          /\ human.pc = "launching" => human.slot \in Made
          /\ human.pc \in {"stopping", "waiting", "replacing", "launching", "restoring"} /\ human.cmd = "driver"
               => human.old \in Made
      BY Places DEF IInv, Pointed, At, Target
    <3>6. Captured'
      BY <2>1, <3>1, <3>5 DEF Kept, Captured, Standing, Same, Blank
    <3> QED
      BY <3>4, <3>6
  <2> QED
    BY <2>1
<1>5. Fresh'
  BY DEF Fresh, Passive, Same, Kept
<1> QED
  BY <1>2, <1>3, <1>4, <1>5 DEF Kept

\* A step that changes neither objects, nor plugins, nor saves, nor CLIs keeps what there is to know.
LEMMA OnlyMoves ==
  ASSUME IInv, Kept, Passive, plug' = plug, save' = save, disk' = disk,
         \A c \in Clis : cli'[c].conv = cli[c].conv,
         Standing \/ (Planned' /\ Captured')
  PROVE  Kept'
<1>1. Numbers \subseteq Numbers'
  BY NumbersGrow DEF Passive
<1>2. \A c \in Clis : cli'[c].conv \in Numbers'
  BY <1>1 DEF Kept, Known
<1>3. (\A who \in Savers : save'[who].blob.conv \in Numbers') /\ disk'.blob.conv \in Numbers'
  BY <1>1 DEF Kept, Known
<1> QED
  BY <1>2, <1>3, PassiveKept

\* What most steps leave alone.
LEMMA PassiveSteps ==
  ASSUME IInv, setup' = setup, count' = count \/ \E what \in Spent : Spend(what),
         ses' = ses \/ \E s \in Slots : \E state \in States, stopping \in BOOLEAN :
           ses' = [ses EXCEPT ![s].state = state, ![s].stopping = stopping],
         DOMAIN cli' = DOMAIN cli
  PROVE  Passive
<1>1. Uncounted /\ count'.convs = count.convs
  BY SpendKeeps, SameCount DEF IInv
<1>2. Made' = Made /\ AllSlots' = AllSlots /\ Clis' = Clis
  BY <1>1 DEF Made, AllSlots, Uncounted, Clis
<1>3. \A s \in AllSlots : ses[s] \in Session
  BY DEF IInv, Types
<1>4. CASE ses' = ses
  BY <1>1, <1>2, <1>4 DEF Passive, Same
<1>5. CASE \E s \in Slots : \E state \in States, stopping \in BOOLEAN :
             ses' = [ses EXCEPT ![s].state = state, ![s].stopping = stopping]
  <2>1. PICK s \in Slots, state \in States, stopping \in BOOLEAN :
          ses' = [ses EXCEPT ![s].state = state, ![s].stopping = stopping]
    BY <1>5
  <2>2. ses' = [ses EXCEPT ![s] = [ses[s] EXCEPT !.state = state, !.stopping = stopping]]
    BY <2>1
  <2>3. \A r \in AllSlots : ses'[r] = IF r = s THEN [ses[s] EXCEPT !.state = state, !.stopping = stopping] ELSE ses[r]
    BY <2>2 DEF IInv, Types
  <2>4. \A r \in AllSlots : Same(r)
    <3>1. ASSUME NEW r \in AllSlots, r # s PROVE Same(r)
      BY <2>3, <3>1 DEF Same
    <3>2. ASSUME s \in AllSlots PROVE Same(s)
      <4>1. ses[s] \in Session /\ ses'[s] = [ses[s] EXCEPT !.state = state, !.stopping = stopping]
        BY <1>3, <2>3, <3>2
      <4> QED
        BY <4>1 DEF Same, Session
    <3> QED
      BY <3>1, <3>2
  <2> QED
    BY <1>1, <1>2, <2>4 DEF Passive
<1> QED
  BY <1>4, <1>5

\* A command is asked for where none is under way.
LEMMA AsksKept ==
  ASSUME IInv, Kept, RestartAgent \/ SetModel \/ CycleThinking \/ Close
  PROVE  Kept'
<1>1. /\ human.pc = "idle" /\ setup' = setup /\ UNCHANGED <<ses, plug, current, cli, save, disk>>
      /\ count' = count \/ \E what \in Spent : Spend(what)
  BY DEF RestartAgent, SetModel, CycleThinking, Restarts, Close, At, Spent
<1>2. Passive
  BY <1>1, PassiveSteps
<1>3. /\ human'.slot = current /\ human'.old = 0
      /\ \/ human'.pc = "launching" /\ human'.cmd = "restart"
         \/ human'.pc \in {"capturing", "saving", "idle"} /\ human'.cmd \in {"model", "thinking"}
         \/ human'.pc = "stopping" /\ human'.cmd = "close"
  BY DEF RestartAgent, SetModel, CycleThinking, Restarts, Close, Ask
<1>4. Planned'
  <2>1. \A s \in Made : ses[s].preflight => s # current
    BY <1>1 DEF Kept, Planned, Switching
  <2>2. ~Switching' /\ human'.pc \notin {"preflight", "restoring"}
    BY <1>3 DEF Switching
  <2>3. 0 \notin Made
    BY Places DEF IInv
  <2> QED
    BY <1>1, <1>2, <1>3, <2>1, <2>2, <2>3 DEF Planned, Passive
<1>5. Captured'
  BY <1>3 DEF Captured
<1> QED
  BY <1>1, <1>2, <1>4, <1>5, OnlyMoves

\* A stop, and the end of the wait for it, move the command on to its next place.
LEMMA StopsKept ==
  ASSUME IInv, Kept, Stop \/ Stopped
  PROVE  Kept'
<1>1. /\ human.pc \in {"stopping", "waiting"} /\ setup' = setup /\ UNCHANGED <<plug, current, cli, save, disk, count>>
      /\ human \in Humans /\ human.cmd \in {"model", "thinking", "driver", "close"} /\ Target = current
      /\ current \in Slots
  BY Places DEF Stop, Stopped, At, IInv, Types, Humans, Pointed
<1>2. Passive
  <2>1. ses' = ses \/ ses' = [ses EXCEPT ![current].state = "stopping", ![current].stopping = TRUE]
    BY <1>1 DEF Stop, Stopped
  <2> QED
    BY <1>1, <2>1, PassiveSteps DEF States
<1>3. /\ human'.slot = human.slot /\ human'.old = human.old /\ human'.cmd = human.cmd
      /\ \/ human'.pc = "waiting"
         \/ human'.pc = "launching" /\ human.cmd \in {"model", "thinking"}
         \/ human'.pc = "replacing" /\ human.cmd = "driver"
         \/ human'.pc = "saving" /\ human.cmd = "close"
  BY <1>1 DEF Stop, Stopped, GoOn, AfterStop, Humans
<1>4. Made \subseteq AllSlots /\ 0 \notin Made
  BY Places DEF IInv
<1>5. Switching' = Switching /\ (Switching <=> human.cmd = "driver")
  BY <1>1, <1>3 DEF Switching
<1>6. Planned'
  <2>1. \A s \in Made : Same(s)
    BY <1>2, <1>4 DEF Passive
  <2>2. Switching => human.slot \in Made
    BY DEF Kept, Planned
  <2> QED
    BY <1>1, <1>2, <1>3, <1>5, <2>1, <2>2 DEF Kept, Planned, Same, Passive
<1>7. Captured'
  <2>1. human.cmd \in {"model", "thinking"} => human.slot \in AllSlots
    BY <1>1, <1>4, Places DEF Target, IInv
  <2>2. human.cmd = "driver" => human.old \in AllSlots
    BY <1>1, <1>4, Places DEF Target, IInv
  <2> QED
    BY <1>1, <1>2, <1>3, <2>1, <2>2 DEF Kept, Captured, Blank, Passive, Same
<1> QED
  BY <1>1, <1>2, <1>6, <1>7, OnlyMoves

\* The manager gets the replacement.
LEMMA ReplaceKept == ASSUME IInv, Kept, Replace PROVE Kept'
<1>1. /\ human.pc = "replacing" /\ setup' = setup /\ UNCHANGED <<ses, plug, cli, save, disk, count>>
      /\ human.cmd = "driver" /\ human.old = current /\ human \in Humans
      /\ current' = human.slot /\ human'.slot = human.slot /\ human'.old = human.old
      /\ human'.cmd = "driver" /\ human'.pc = "launching"
  BY DEF Replace, At, GoOn, IInv, Types, Humans, Pointed
<1>2. Passive
  BY <1>1, PassiveSteps
<1>3. Switching' /\ Switching
  BY <1>1 DEF Switching
<1>4. Planned'
  BY <1>1, <1>2, <1>3 DEF Kept, Planned, Passive
<1>5. Captured'
  BY <1>1 DEF Kept, Captured, Blank
<1> QED
  BY <1>1, <1>2, <1>4, <1>5, OnlyMoves

\* A CLI ends, is reaped or is reported.
LEMMA EndsKept ==
  ASSUME IInv, Kept, Kill \/ \E c \in Clis : Exits(c) \/ Obeys(c) \/ Waiter(c)
  PROVE  Kept'
<1>1. /\ setup' = setup /\ UNCHANGED <<human, current, plug, save, disk>>
      /\ count' = count \/ \E what \in Spent : Spend(what)
  BY DEF Kill, Exits, Obeys, Waiter, Reaped, Reported, Spent
<1>2. PICK c : /\ c \in Clis \/ c = ses[Target].proc
               /\ \/ \E phase \in Phases : cli' = [cli EXCEPT ![c].phase = phase]
                  \/ \E asked : cli' = [cli EXCEPT ![c].phase = "reaped", ![c].requested = asked]
  BY DEF Kill, Exits, Obeys, Waiter, Reaped, Reported, Phases
<1>3. /\ DOMAIN cli' = DOMAIN cli /\ \A x \in Clis : cli'[x].conv = cli[x].conv
  <2>1. \A x \in Clis : cli[x] \in Cli
    BY DEF IInv, Types, Clis
  <2> QED
    BY <1>2, <2>1 DEF Cli, Clis
<1>4. Passive
  <2>1. CASE ses' = ses
    BY <1>1, <1>3, <2>1, PassiveSteps
  <2>2. CASE \E x \in Clis : cli[x].phase = "ended" /\ ses' = [ses EXCEPT ![cli[x].slot].state = "exited",
                                                                ![cli[x].slot].stopping = FALSE]
    <3>1. PICK x \in Clis : cli[x].phase = "ended" /\ ses' = [ses EXCEPT ![cli[x].slot].state = "exited",
                                                                   ![cli[x].slot].stopping = FALSE]
      BY <2>2
    <3>2. cli[x].slot \in Slots
      BY <3>1, Places DEF IInv, Held, Unreaped
    <3>3. "exited" \in States /\ FALSE \in BOOLEAN
      BY DEF States
    <3> QED
      BY <1>1, <1>3, <3>1, <3>2, <3>3, PassiveSteps
  <2> QED
    BY <2>1, <2>2 DEF Kill, Exits, Obeys, Waiter, Reaped, Reported
<1>5. Standing
  BY <1>1 DEF Standing
<1> QED
  BY <1>1, <1>3, <1>4, <1>5, OnlyMoves

\* A conversation is opened, and so there is one more.
LEMMA OpensKept == ASSUME IInv, Kept, NEW c \in Clis, Opens(c) PROVE Kept'
<1>1. /\ UNCHANGED <<setup, human, ses, plug, current, save, disk>> /\ count \in Counts
      /\ cli' = [cli EXCEPT ![c].conv = count.convs + 1]
      /\ count' = [count EXCEPT !.convs = count.convs + 1]
  BY DEF Opens, IInv, Types
<1>2. count'.convs = count.convs + 1 /\ count'.slots = count.slots /\ count.convs \in Nat
  BY <1>1 DEF Counts
<1>3. Passive /\ Standing
  BY <1>1, <1>2 DEF Passive, Standing, Same, Made, AllSlots, Clis
<1>4. Numbers \subseteq Numbers' /\ count.convs + 1 \in Numbers'
  BY <1>2 DEF Numbers
<1>5. \A x \in Clis : cli'[x].conv \in Numbers'
  <2>1. \A x \in Clis : cli[x] \in Cli /\ cli[x].conv \in Numbers
    BY DEF IInv, Types, Clis, Kept, Known
  <2>2. \A x \in Clis : cli'[x].conv = IF x = c THEN count.convs + 1 ELSE cli[x].conv
    BY <1>1, <2>1 DEF Cli, Clis
  <2> QED
    BY <1>4, <2>1, <2>2
<1>6. (\A who \in Savers : save'[who].blob.conv \in Numbers') /\ disk'.blob.conv \in Numbers'
  BY <1>1, <1>4 DEF Kept, Known
<1> QED
  BY <1>1, <1>3, <1>5, <1>6, PassiveKept

\* A plugin forgets everything at once, or learns a conversation.
LEMMA PluginKept ==
  ASSUME IInv, Kept, NEW s \in Slots, PluginCrashes(s) \/ Learns(s)
  PROVE  Kept'
<1>1. /\ UNCHANGED <<setup, human, ses, current, cli, save, disk>> /\ s \in AllSlots
      /\ count' = count \/ \E what \in Spent : Spend(what)
      /\ plug \in [AllSlots -> Memory]
  BY Places DEF PluginCrashes, Learns, Spent, IInv, Types
<1>2. Passive /\ Standing
  BY <1>1, PassiveSteps DEF Standing
<1>3. Numbers \subseteq Numbers'
  BY <1>2, NumbersGrow DEF Passive
<1>4. \A r \in AllSlots : \/ plug'[r] = plug[r] \/ plug'[r] = NoMemory
                          \/ plug'[r].resolved = plug'[r].learned /\ plug'[r].learned \in Numbers' \ {0}
  <2>1. CASE PluginCrashes(s)
    BY <1>1, <2>1 DEF PluginCrashes
  <2>2. CASE Learns(s)
    <3> DEFINE n == cli[ses[s].proc].conv
               m == [plug[s] EXCEPT !.learned = n, !.resolved = n]
    <3>1. n # 0 /\ plug' = [plug EXCEPT ![s] = m]
      BY <1>1, <2>2 DEF Learns
    <3>2. n \in Numbers
      <4>1. ses[s].proc \in Clis
        BY <1>1, <2>2 DEF Learns, IInv, Numbered
      <4> QED
        BY <4>1 DEF Kept, Known
    <3>3. m.resolved = n /\ m.learned = n
      BY <1>1 DEF Memory
    <3> HIDE DEF m, n
    <3>4. \A r \in AllSlots : plug'[r] = IF r = s THEN m ELSE plug[r]
      BY <1>1, <3>1
    <3> QED
      BY <1>3, <3>1, <3>2, <3>3, <3>4
  <2> QED
    BY <2>1, <2>2
<1>5. \A c \in Clis : cli'[c].conv \in Numbers'
  BY <1>1, <1>3 DEF Kept, Known
<1>6. (\A who \in Savers : save'[who].blob.conv \in Numbers') /\ disk'.blob.conv \in Numbers'
  BY <1>1, <1>3 DEF Kept, Known
<1> QED
  BY <1>2, <1>4, <1>5, <1>6, PassiveKept

\* What a driver says of its state is a conversation that is known, or none.
LEMMA StateIsNumber ==
  ASSUME IInv, Kept, NEW s \in AllSlots
  PROVE  DriverState(s).conv \in Numbers
BY DEF Kept, Known, DriverState

\* A save takes such a state to the checkpoint.
LEMMA SaverKept ==
  ASSUME IInv, Kept, NEW who \in Savers, Takes(who) \/ Saver(who)
  PROVE  Kept'
<1>1. /\ UNCHANGED <<setup, ses, plug, current, cli>>
      /\ count' = count \/ \E what \in Spent : Spend(what)
      /\ save \in [Savers -> Save] /\ Made \subseteq AllSlots
  BY Places DEF Takes, Saver, Asks, Saved, SavesAgain, Spent, IInv, Types
<1>2. Passive
  BY <1>1, PassiveSteps
<1>3. Numbers \subseteq Numbers' /\ 0 \in Numbers'
  BY <1>2, NumbersGrow DEF Passive
<1>4. \A w \in Savers : save'[w].blob.conv \in Numbers'
  <2>1. CASE Takes(who)
    <3> DEFINE t == [NoSave EXCEPT !.pc = "taken", !.slot = current, !.driver = ses[current].driver]
    <3>1. save' = [save EXCEPT ![who] = t] /\ t.blob = NoBlob
      BY <2>1 DEF Takes, NoSave
    <3> HIDE DEF t
    <3> QED
      BY <1>1, <1>3, <3>1 DEF NoBlob, Kept, Known
  <2>2. CASE Asks(who)
    <3> DEFINE t == [save[who] EXCEPT !.pc = "composed", !.blob = DriverState(save[who].slot)]
    <3>1. save[who].slot \in AllSlots
      BY <1>1, <2>2 DEF Asks, IInv, Numbered
    <3>2. save' = [save EXCEPT ![who] = t] /\ t.blob.conv \in Numbers
      BY <1>1, <2>2, <3>1, StateIsNumber DEF Asks, Save
    <3> HIDE DEF t
    <3> QED
      BY <1>1, <1>3, <3>2 DEF Kept, Known
  <2>3. CASE Saved(who)
    <3>1. save' = [save EXCEPT ![who] = NoSave] /\ NoSave.blob.conv = 0
      BY <2>3 DEF Saved, NoSave, NoBlob
    <3> QED
      BY <1>1, <1>3, <3>1 DEF Kept, Known
  <2> QED
    BY <2>1, <2>2, <2>3 DEF Saver
<1>5. disk'.blob.conv \in Numbers'
  BY <1>3 DEF Takes, Saver, Asks, Saved, Kept, Known
<1>6. \A c \in Clis : cli'[c].conv \in Numbers'
  BY <1>1, <1>3 DEF Kept, Known
<1>7. Standing \/ (Planned' /\ Captured')
  <2>1. CASE human' = human
    BY <1>1, <2>1 DEF Standing
  <2>2. CASE human' # human
    <3>1. /\ human'.pc \in {"idle", "closed"} /\ human'.slot = 0 /\ human'.old = 0
          /\ human.pc = "saving"
      BY <2>2 DEF Takes, Saver, Asks, Saved, Idle, IInv, Numbered
    <3>2. ~Switching' /\ ~Switching /\ 0 \notin Made
      BY <3>1, Places DEF Switching, IInv
    <3>3. Planned' /\ Captured'
      BY <1>1, <1>2, <3>1, <3>2 DEF Kept, Planned, Captured, Passive
    <3> QED
      BY <3>3
  <2> QED
    BY <2>1, <2>2
<1> QED
  BY <1>1, <1>2, <1>4, <1>5, <1>6, <1>7, PassiveKept

\* Duo's crash loses what the plugins and the saves knew, never the checkpoint.
LEMMA CrashKept == ASSUME IInv, Kept, Crash PROVE Kept'
<1>1. /\ UNCHANGED <<setup, ses, current, disk>> /\ \E what \in Spent : Spend(what)
      /\ human'.pc = "down" /\ human'.cmd = "none"
      /\ cli' = [c \in Clis |-> IF cli[c].phase = "none" THEN NoCli ELSE [cli[c] EXCEPT !.phase = "gone"]]
      /\ save' = [who \in Savers |-> NoSave] /\ plug' = [s \in AllSlots |-> NoMemory]
  BY Places DEF Crash, Spent, IInv, Types, Idle
<1>2. Passive
  BY <1>1, PassiveSteps DEF Clis
<1>3. Numbers \subseteq Numbers' /\ 0 \in Numbers'
  BY <1>2, NumbersGrow DEF Passive
<1>4. \A c \in Clis : cli'[c].conv \in Numbers'
  <2>1. ASSUME NEW c \in Clis PROVE cli'[c].conv \in {cli[c].conv, 0}
    <3>1. cli[c] \in Cli
      BY DEF IInv, Types, Clis
    <3> QED
      BY <1>1, <3>1 DEF Cli, NoCli
  <2> QED
    BY <1>3, <2>1 DEF Kept, Known
<1>5. (\A who \in Savers : save'[who].blob.conv \in Numbers') /\ disk'.blob.conv \in Numbers'
  BY <1>1, <1>3 DEF Kept, Known, NoSave, NoBlob
<1>6. Planned' /\ Captured'
  BY <1>1 DEF Planned, Captured, Switching
<1> QED
  BY <1>1, <1>2, <1>4, <1>5, <1>6, PassiveKept

-----------------------------------------------------------------------------
\* Capturing, preparing and launching.

\* What a plugin prepares a launch with is known, or given out by that very step.
LEMMA Prepared ==
  ASSUME IInv, Kept, NEW s \in AllSlots,
         count'.convs = IF Minted(s) THEN count.convs + 1 ELSE count.convs
  PROVE  /\ Numbers \subseteq Numbers' /\ 0 \in Numbers' /\ Resolved(s) \in Numbers'
         /\ Remembered(s).resolved \in Numbers' /\ Remembered(s).learned \in Numbers'
         /\ Server(s) => Remembered(s).resolved = Resolved(s)
         /\ Resolved(s) # 0 \/ ses[s].cfg.conv = 0
         /\ Minted(s) => Resolved(s) # 0
<1>1. count.convs \in Nat /\ plug[s] \in Memory
  BY DEF IInv, Types, Counts
<1>2. Numbers \subseteq Numbers' /\ 0 \in Numbers' /\ count'.convs \in Numbers'
  BY <1>1, NumbersGrow DEF Numbers
<1>3. ses[s].cfg.conv \in Numbers /\ plug[s].learned \in Numbers /\ plug[s].resolved \in Numbers
  BY DEF Kept, Known
<1>4. Resolved(s) \in Numbers'
  BY <1>1, <1>2, <1>3 DEF Resolved, Minted
<1>5. Resolved(s) # 0 \/ ses[s].cfg.conv = 0
  BY <1>1 DEF Resolved
<1>6. Minted(s) => Resolved(s) # 0
  BY <1>1 DEF Resolved, Minted
<1>7. CASE Server(s)
  <2>1. Remembered(s).resolved = Resolved(s) /\ Remembered(s).learned = plug[s].learned
    BY <1>1, <1>7 DEF Remembered, Memory
  <2> QED
    BY <1>2, <1>3, <1>4, <1>5, <1>6, <2>1
<1>8. CASE ~Server(s)
  BY <1>2, <1>3, <1>4, <1>5, <1>6, <1>8 DEF Remembered
<1> QED
  BY <1>7, <1>8

\* What a launch writes.
LEMMA LaunchShows ==
  ASSUME IInv, NEW s \in Made, Launched(s), \A c \in Clis : ~Unreaped(c)
  PROVE  /\ s \in AllSlots /\ Uncounted
         /\ \A r \in AllSlots \ {s} : ses'[r] = ses[r] /\ plug'[r] = plug[r]
         /\ ses'[s].plan = Plan(s) /\ ses'[s].cfg = ses[s].cfg /\ ses'[s].driver = ses[s].driver
         /\ ~ses'[s].preflight
         /\ plug'[s] = IF ses[s].preflight THEN plug[s] ELSE Remembered(s)
         /\ DOMAIN cli' = Clis
         /\ \A c \in Clis : cli'[c].conv \in {cli[c].conv, Plan(s).conv}
         /\ count'.convs = IF Minted(s) /\ ~ses[s].preflight THEN count.convs + 1 ELSE count.convs
<1> DEFINE c == count.clis + 1
           t == [ses[s] EXCEPT !.plan = Plan(s), !.preflight = FALSE, !.state = "running",
                               !.stopping = FALSE, !.proc = c]
           x == [NoCli EXCEPT !.slot = s, !.conv = Plan(s).conv, !.phase = "running"]
<1>1. /\ s \in AllSlots /\ ses[s] \in Session /\ count \in Counts
      /\ ses \in [AllSlots -> Session] /\ plug \in [AllSlots -> Memory]
  BY Places DEF IInv, Types
<1>2. /\ ses' = [ses EXCEPT ![s] = t]
      /\ plug' = IF ses[s].preflight THEN plug ELSE [plug EXCEPT ![s] = Remembered(s)]
      /\ cli' = [cli EXCEPT ![c] = x]
      /\ count' = [count EXCEPT !.clis = c, !.convs = IF Minted(s) /\ ~ses[s].preflight THEN count.convs + 1
                                                      ELSE count.convs]
  BY <1>1 DEF Launched, Plugged, Given
<1>3. /\ t.plan = Plan(s) /\ t.cfg = ses[s].cfg /\ t.driver = ses[s].driver /\ ~t.preflight
      /\ x.conv = Plan(s).conv
  BY <1>1 DEF Session, NoCli
<1>4. Uncounted /\ count'.convs = IF Minted(s) /\ ~ses[s].preflight THEN count.convs + 1 ELSE count.convs
  <2> DEFINE v == IF Minted(s) /\ ~ses[s].preflight THEN count.convs + 1 ELSE count.convs
  <2>1. count' = [count EXCEPT !.clis = c, !.convs = v]
    BY <1>2
  <2> HIDE DEF v
  <2>2. count'.convs = v
    BY <1>1, <2>1 DEF Counts
  <2>3. Uncounted
    BY LaunchedHas
  <2> QED
    BY <2>2, <2>3 DEF v
<1> HIDE DEF t, x, c
<1>5. /\ \A r \in AllSlots \ {s} : ses'[r] = ses[r] /\ plug'[r] = plug[r]
      /\ ses'[s] = t /\ plug'[s] = IF ses[s].preflight THEN plug[s] ELSE Remembered(s)
  BY <1>1, <1>2
<1>6. DOMAIN cli' = Clis /\ \A y \in Clis : cli'[y].conv \in {cli[y].conv, Plan(s).conv}
  <2>1. \A y \in Clis : cli'[y] = IF y = c THEN x ELSE cli[y]
    BY <1>2 DEF Clis
  <2> QED
    BY <1>2, <1>3, <2>1 DEF Clis
<1> QED
  BY <1>1, <1>3, <1>4, <1>5, <1>6

\* A plan that was made from what is known keeps it: the object s then has that plan, and
\* no CLI has another conversation than it had or the plan names.
LEMMA PlannedKept ==
  ASSUME IInv, Kept, NEW s \in Made, Uncounted, UNCHANGED <<setup, save, disk>>,
         \A r \in AllSlots \ {s} : ses'[r] = ses[r] /\ plug'[r] = plug[r],
         ses'[s].plan = Plan(s), ses'[s].cfg = ses[s].cfg, ses'[s].driver = ses[s].driver,
         plug'[s] = IF ses[s].preflight THEN plug[s] ELSE Remembered(s),
         DOMAIN cli' = Clis,
         \A c \in Clis : cli'[c].conv \in {cli[c].conv, Plan(s).conv},
         count'.convs = IF Minted(s) /\ ~ses[s].preflight THEN count.convs + 1 ELSE count.convs,
         Planned', Captured'
  PROVE  Kept'
<1>1. s \in AllSlots
  BY Places DEF IInv
<1>2. Made' = Made /\ AllSlots' = AllSlots /\ Clis' = Clis
  BY DEF Made, AllSlots, Clis, Uncounted
<1>3. /\ Numbers \subseteq Numbers' /\ Plan(s).conv \in Numbers'
      /\ plug'[s].resolved \in Numbers' /\ plug'[s].learned \in Numbers'
      /\ Server(s) /\ plug'[s].ran /\ Plan(s).conv # 0 => plug'[s].resolved # 0
  <2>1. CASE ses[s].preflight
    <3>1. Plan(s) = ses[s].plan /\ plug'[s] = plug[s]
      BY <1>1, <2>1 DEF Plan
    <3>2. Numbers \subseteq Numbers'
      BY <1>1, <2>1, NumbersGrow
    <3> QED
      BY <1>1, <3>1, <3>2 DEF Kept, Known, Recalled
  <2>2. CASE ~ses[s].preflight
    <3>1. Plan(s) = [by |-> ses[s].driver, conv |-> Resolved(s)] /\ plug'[s] = Remembered(s)
      BY <1>1, <2>2 DEF Plan
    <3>2. count'.convs = IF Minted(s) THEN count.convs + 1 ELSE count.convs
      BY <1>1, <2>2
    <3> QED
      BY <1>1, <3>1, <3>2, Prepared
  <2> QED
    BY <2>1, <2>2
<1>4. Known'
  <2>1. \A r \in AllSlots : {ses'[r].cfg.conv, ses'[r].plan.conv, plug'[r].resolved, plug'[r].learned} \subseteq Numbers'
    BY <1>1, <1>3 DEF Kept, Known
  <2>2. \A c \in Clis : cli'[c].conv \in Numbers'
    BY <1>1, <1>3 DEF Kept, Known
  <2>3. (\A who \in Savers : save'[who].blob.conv \in Numbers') /\ disk'.blob.conv \in Numbers'
    BY <1>3 DEF Kept, Known
  <2> QED
    BY <1>2, <2>1, <2>2, <2>3 DEF Known
<1>5. Recalled'
  <2>1. Made \subseteq AllSlots
    BY Places DEF IInv
  <2>2. \A r \in Made : Server(r)' = Server(r)
    BY <1>1, <2>1 DEF Server
  <2> QED
    BY <1>1, <1>2, <1>3, <2>1, <2>2 DEF Kept, Recalled
<1>6. Fresh'
  BY <1>1, <1>2 DEF Kept, Fresh
<1> QED
  BY <1>4, <1>5, <1>6 DEF Kept

\* A launch keeps what is known; where the command goes then decides the rest.
LEMMA LaunchKept ==
  ASSUME IInv, Kept, NEW s \in Made, Launched(s), \A c \in Clis : ~Unreaped(c),
         UNCHANGED <<setup, save, disk>>,
         Planned', Captured'
  PROVE  Kept'
BY LaunchShows, PlannedKept

\* A launch that fails writes nothing, or the plan whose command did not start.
LEMMA FailureKept ==
  ASSUME IInv, Kept, NEW s \in Made, NotLaunched(s), UNCHANGED <<setup, save, disk>>,
         Planned', Captured'
  PROVE  Kept'
<1>1. /\ s \in AllSlots /\ ses[s] \in Session /\ Made \subseteq AllSlots /\ Uncounted /\ cli' = cli
      /\ \A r \in AllSlots \ {s} : ses'[r] = ses[r]
      /\ ses'[s].driver = ses[s].driver /\ ses'[s].proc = ses[s].proc
  BY NotLaunchedHas, Places DEF IInv, Types
<1>2. CASE NotPrepared(s)
  <2>1. count'.convs = count.convs /\ plug' = plug
    BY <1>2, SpendKeeps DEF NotPrepared, Spent, IInv
  <2>2. Made' = Made /\ AllSlots' = AllSlots /\ Clis' = Clis /\ Numbers' = Numbers
    BY <1>1, <2>1 DEF Made, AllSlots, Clis, Uncounted, Numbers
  <2>3. ses'[s].cfg = ses[s].cfg /\ ses'[s].plan = ses[s].plan
    <3>1. ses' = [ses EXCEPT ![s] = [ses[s] EXCEPT !.state = "failed"]]
      BY <1>2 DEF NotPrepared
    <3> QED
      BY <1>1, <3>1 DEF IInv, Types, Session
  <2>4. \A r \in AllSlots : /\ ses'[r].cfg = ses[r].cfg /\ ses'[r].plan = ses[r].plan
                            /\ ses'[r].driver = ses[r].driver /\ ses'[r].proc = ses[r].proc
    BY <1>1, <2>3
  <2>5. Known'
    BY <1>1, <2>1, <2>2, <2>4 DEF Kept, Known
  <2>6. Recalled' /\ Fresh'
    BY <1>1, <2>1, <2>2, <2>4 DEF Kept, Recalled, Fresh, Server
  <2> QED
    BY <2>5, <2>6 DEF Kept
<1>3. CASE NotStarted(s)
  <2> DEFINE t == [ses[s] EXCEPT !.plan = Plan(s), !.preflight = FALSE, !.state = "failed"]
  <2>1. ses' = [ses EXCEPT ![s] = t]
    BY <1>3 DEF NotStarted
  <2>2. t.plan = Plan(s) /\ t.cfg = ses[s].cfg
    BY <1>1 DEF Session
  <2> HIDE DEF t
  <2>3. ses'[s].plan = Plan(s) /\ ses'[s].cfg = ses[s].cfg
    BY <1>1, <2>1, <2>2 DEF IInv, Types
  <2>4. /\ \A r \in AllSlots \ {s} : plug'[r] = plug[r]
        /\ plug'[s] = IF ses[s].preflight THEN plug[s] ELSE Remembered(s)
    BY <1>1, <1>3 DEF NotStarted, Plugged, IInv, Types
  <2>5. count'.convs = IF Minted(s) /\ ~ses[s].preflight THEN count.convs + 1 ELSE count.convs
    <3>1. count' = [count EXCEPT !.fails = count.fails + 1, !.convs = Given(s)]
      BY <1>3 DEF NotStarted
    <3>2. count'.convs = Given(s)
      BY <3>1 DEF IInv, Types, Counts
    <3> QED
      BY <3>2 DEF Given
  <2>6. DOMAIN cli' = Clis /\ \A c \in Clis : cli'[c].conv \in {cli[c].conv, Plan(s).conv}
    BY <1>1 DEF IInv, Types, Clis
  <2> QED
    BY <1>1, <2>3, <2>4, <2>5, <2>6, PlannedKept
<1> QED
  BY <1>2, <1>3 DEF NotLaunched

\* A start that works has used its plan; one that does not is undone, or closes the session.
LEMMA StartKept == ASSUME IInv, Kept, Start PROVE Kept'
<1>1. /\ human.pc = "launching" /\ human.slot = current /\ current \in Made /\ human \in Humans
      /\ human.cmd = "driver" => human.old \in Made
      /\ UNCHANGED <<setup, save, disk>> /\ 0 \notin Made /\ \A c \in Clis : ~Unreaped(c)
  BY Places DEF Start, IInv, Pointed, Vacant, Types, Humans, At
<1>2. /\ human.cmd = "driver" => human.slot # human.old
      /\ \A s \in Made : s \in {human.slot, human.old} /\ ses[s].preflight => s = human.slot
  BY <1>1 DEF Kept, Planned, Switching
<1>3. CASE Launched(human.slot) /\ UNCHANGED current
           /\ (IF human.cmd \in {"restart", "thinking"} THEN human' = Idle ELSE GoOn("saving"))
  <2>1. /\ human'.pc \in {"idle", "saving"}
        /\ \/ human'.slot = 0 /\ human'.old = 0
           \/ human'.slot = human.slot /\ human'.old = human.old
    BY <1>1, <1>3 DEF Idle, GoOn, Humans
  <2>2. /\ \A r \in AllSlots \ {current} : ses'[r] = ses[r]
        /\ ~ses'[current].preflight /\ Made' = Made /\ Made \subseteq AllSlots
    BY <1>1, <1>3, LaunchShows, Places DEF Uncounted, Made, IInv
  <2>3. \A s \in Made : s \in {human.slot, human.old, 0} => ~ses'[s].preflight
    BY <1>1, <1>2, <2>2
  <2>4. Planned' /\ Captured'
    BY <1>1, <1>3, <2>1, <2>2, <2>3 DEF Planned, Captured, Switching
  <2> QED
    BY <1>1, <1>3, <2>4, LaunchKept
<1>4. CASE NotLaunched(human.slot)
  <2>1. /\ \A r \in AllSlots \ {current} : ses'[r] = ses[r]
        /\ ~ses'[current].preflight /\ Made' = Made /\ Made \subseteq AllSlots
    BY <1>1, <1>4, NotLaunchedHas, Places DEF Uncounted, Made, IInv
  <2>2. \A s \in Made : s \in {human.slot, human.old, 0} => ~ses'[s].preflight
    BY <1>1, <1>2, <2>1
  <2>3. \/ human'.pc = "idle" /\ human'.slot = 0 /\ human'.old = 0 /\ current' = current
        \/ /\ human'.pc = "stopping" /\ human'.cmd = "close" /\ human'.slot = human.slot
           /\ human'.old = human.old /\ current' = current
        \/ /\ human'.pc = "restoring" /\ human'.cmd = "driver" /\ human.cmd = "driver"
           /\ human'.slot = human.slot /\ human'.old = human.old /\ current' = human.old
    <3>1. CASE Launched(human.slot)
      <4>1. ses'[current].state = "running"
        BY <1>1, <3>1, LaunchedHas
      <4>2. ses'[current].state = "failed"
        BY <1>1, <1>4, NotLaunchedHas
      <4> QED
        BY <4>1, <4>2
    <3>2. CASE ~Launched(human.slot)
      <4>1. CASE human' = Idle /\ UNCHANGED current
        BY <4>1 DEF Idle
      <4>2. CASE human.cmd = "driver" /\ GoOn("restoring") /\ current' = human.old
        BY <1>1, <4>2 DEF GoOn, Humans
      <4>3. CASE human' = [human EXCEPT !.pc = "stopping", !.cmd = "close"] /\ UNCHANGED current
        BY <1>1, <4>3 DEF Humans
      <4> QED
        BY <3>2, <4>1, <4>2, <4>3 DEF Start
    <3> QED
      BY <3>1, <3>2
  <2>4. Planned'
    BY <1>1, <1>2, <2>1, <2>2, <2>3 DEF Planned, Switching
  <2>5. Captured'
    BY <1>1, <1>2, <2>1, <2>3 DEF Kept, Captured, Blank
  <2> QED
    BY <1>1, <1>4, <2>4, <2>5, FailureKept
<1> QED
  BY <1>3, <1>4 DEF Start

\* The old object is launched again, from what was captured of it, or is lost.
LEMMA RestoreKept == ASSUME IInv, Kept, Restore PROVE Kept'
<1>1. /\ human.pc = "restoring" /\ human.old = current /\ current \in Made
      /\ UNCHANGED <<setup, save, disk, current>>
      /\ human'.pc = "idle" /\ human'.slot = 0 /\ human'.old = 0 /\ 0 \notin Made
      /\ \A c \in Clis : ~Unreaped(c)
  BY Places DEF Restore, IInv, Pointed, Vacant, Idle, At
<1>2. Captured'
  BY <1>1 DEF Captured
<1>3. CASE Launched(human.old)
  <2>1. ~ses'[current].preflight /\ Made' = Made
    BY <1>1, <1>3, LaunchShows DEF Uncounted, Made
  <2>2. Planned'
    BY <1>1, <2>1 DEF Planned, Switching
  <2> QED
    BY <1>1, <1>2, <1>3, <2>2, LaunchKept
<1>4. CASE NotLaunched(human.old)
  <2>1. ~ses'[current].preflight /\ Made' = Made
    BY <1>1, <1>4, NotLaunchedHas DEF Uncounted, Made
  <2>2. Planned'
    BY <1>1, <2>1 DEF Planned, Switching
  <2> QED
    BY <1>1, <1>2, <1>4, <2>2, FailureKept
<1> QED
  BY <1>3, <1>4 DEF Restore

\* The state that is captured names a conversation, if the last launch had one.
LEMMA CaptureKept == ASSUME IInv, Kept, Capture PROVE Kept'
<1>1. /\ human.pc = "capturing" /\ Target = current /\ human.cmd \in {"model", "thinking", "driver"}
      /\ UNCHANGED <<setup, plug, current, cli, save, disk, count>>
      /\ ses' = [ses EXCEPT ![current].cfg = DriverState(current)]
      /\ current \in AllSlots /\ current \in Made /\ Made \subseteq AllSlots
      /\ ses[current] \in Session /\ human \in Humans
  BY Places DEF Capture, At, IInv, Pointed, Types, Humans
<1>2. /\ human'.pc = "stopping" /\ human'.cmd = human.cmd /\ human'.slot = human.slot
      /\ human'.old = human.old
  BY <1>1 DEF Capture, GoOn, Humans
<1>3. /\ \A r \in AllSlots \ {current} : ses'[r] = ses[r]
      /\ ses'[current] = [ses[current] EXCEPT !.cfg = DriverState(current)]
  BY <1>1 DEF IInv, Types
<1>4. /\ ses'[current].cfg = DriverState(current) /\ ses'[current].plan = ses[current].plan
      /\ ses'[current].driver = ses[current].driver /\ ses'[current].proc = ses[current].proc
      /\ ses'[current].preflight = ses[current].preflight
  BY <1>1, <1>3 DEF Session
<1>5. Made' = Made /\ AllSlots' = AllSlots /\ Clis' = Clis /\ Numbers' = Numbers
  BY <1>1 DEF Made, AllSlots, Clis, Numbers
<1>6. Known'
  BY <1>1, <1>3, <1>4, <1>5, StateIsNumber DEF Kept, Known
<1>7. Recalled' /\ Fresh'
  BY <1>1, <1>3, <1>4, <1>5 DEF Kept, Recalled, Fresh, Server
<1>8. Blank(current)'
  <2>1. DriverState(current).conv = 0 => ses[current].plan.conv = 0
    BY <1>1 DEF DriverState, NoBlob, Kept, Recalled
  <2> QED
    BY <1>1, <1>4, <2>1 DEF Blank
<1>9. Planned'
  <2>1. Switching' = Switching /\ (Switching <=> human.cmd = "driver")
    BY <1>1, <1>2 DEF Switching
  <2>2. human.cmd = "driver" => human.slot \in Made \ {current}
    BY <1>1 DEF IInv, Pointed
  <2>3. \A r \in AllSlots : ses'[r].preflight = ses[r].preflight
    BY <1>3, <1>4
  <2> QED
    BY <1>1, <1>2, <1>3, <1>5, <2>1, <2>2, <2>3 DEF Kept, Planned
<1>10. Captured'
  <2>1. IF human.cmd = "driver" THEN human.old = current ELSE human.slot = current
    BY <1>1 DEF Target
  <2> QED
    BY <1>1, <1>2, <1>8, <2>1 DEF Captured, Blank
<1> QED
  BY <1>6, <1>7, <1>9, <1>10 DEF Kept

-----------------------------------------------------------------------------
\* New objects, and the plan of a replacement.

\* There is a number left for the object a switch or a resume makes.
LEMMA NextNumber ==
  ASSUME IInv, count.switches < setup.switches \/ count.resumes < setup.resumes
  PROVE  count.slots + 1 \in AllSlots /\ count.slots \in Nat
<1>1. /\ count.slots \in Nat /\ count.switches \in Nat /\ count.resumes \in Nat
      /\ setup.switches \in Nat /\ setup.resumes \in Nat
      /\ count.slots = 1 + count.switches + count.resumes
      /\ count.switches <= setup.switches /\ count.resumes <= setup.resumes
  BY Places DEF IInv, Numbered, Types, Counts
<1> QED
  BY <1>1 DEF AllSlots

\* A new object starts from the blob it is given and has launched nothing.
LEMMA NewKept ==
  ASSUME IInv, Kept, setup' = setup, NEW n, n = count.slots + 1, n \in AllSlots,
         NEW d \in Drivers, NEW b \in {NoBlob, disk.blob},
         ses' = [ses EXCEPT ![n] = NewSlot(d, b)],
         count'.slots = n, count'.convs = count.convs,
         plug' = plug \/ plug' = [s \in Slots |-> NoMemory],
         cli' = cli, save' = save, disk'.blob = disk.blob,
         Planned', Captured'
  PROVE  Kept'
<1>1. /\ Made' = Made \cup {n} /\ AllSlots' = AllSlots /\ Clis' = Clis /\ Numbers' = Numbers
      /\ Made \subseteq AllSlots /\ Slots = AllSlots /\ n \notin Made
  BY Places DEF Made, AllSlots, Clis, Numbers, IInv
<1>2. /\ \A s \in AllSlots \ {n} : ses'[s] = ses[s]
      /\ ses'[n] = NewSlot(d, b)
  BY DEF IInv, Types
<1>3. /\ NewSlot(d, b).cfg = b /\ NewSlot(d, b).plan = NoBlob /\ NewSlot(d, b).proc = 0
      /\ NoBlob.conv = 0
  BY DEF NewSlot, NoSession, NoBlob
<1>4. 0 \in Numbers /\ b.conv \in Numbers
  BY <1>3, NumbersGrow, <1>1 DEF Kept, Known
<1>5. \A s \in AllSlots : plug'[s] = plug[s] \/ plug'[s] = NoMemory
  BY <1>1
<1>6. \A s \in AllSlots : plug'[s].resolved \in Numbers /\ plug'[s].learned \in Numbers
  BY <1>4, <1>5 DEF NoMemory, Kept, Known
<1>7. \A s \in AllSlots : ses'[s].cfg.conv \in Numbers /\ ses'[s].plan.conv \in Numbers
  BY <1>2, <1>3, <1>4 DEF Kept, Known
<1>8. Known'
  BY <1>1, <1>6, <1>7 DEF Kept, Known
<1>9. Recalled'
  <2>1. ASSUME NEW s \in Made, Server(s)', plug'[s].ran, ses'[s].plan.conv # 0
        PROVE  plug'[s].resolved # 0
    <3>1. s \in AllSlots /\ ses'[s] = ses[s] /\ Server(s)
      BY <1>1, <1>2, <2>1 DEF Server
    <3>2. plug'[s] = plug[s]
      BY <1>5, <2>1, <3>1 DEF NoMemory
    <3> QED
      BY <2>1, <3>1, <3>2 DEF Kept, Recalled
  <2> QED
    BY <1>1, <1>2, <1>3, <2>1 DEF Recalled
<1>10. Fresh'
  BY <1>1, <1>2 DEF Kept, Fresh
<1> QED
  BY <1>8, <1>9, <1>10 DEF Kept

\* The replacement of a driver switch starts with no state.
LEMMA SetDriverKept == ASSUME IInv, Kept, SetDriver PROVE Kept'
<1> DEFINE n == count.slots + 1
<1>1. /\ human.pc = "idle" /\ UNCHANGED <<setup, plug, current, cli, save, disk>>
      /\ count' = [count EXCEPT !.switches = count.switches + 1, !.slots = n]
      /\ human'.pc = "preflight" /\ human'.slot = n /\ human'.old = current /\ current \in Made
      /\ count \in Counts /\ Made \subseteq AllSlots /\ count.switches < setup.switches
  BY Places DEF SetDriver, At, IInv, Types
<1>2. PICK d \in Drivers : ses' = [ses EXCEPT ![n] = NewSlot(d, NoBlob)]
  BY DEF SetDriver
<1>3. count'.convs = count.convs /\ count'.slots = n
  BY <1>1 DEF Counts
<1>4. n \in AllSlots /\ n \notin Made /\ Made' = Made \cup {n}
  BY <1>1, <1>3, NextNumber DEF Made
<1> HIDE DEF n
<1>5. ses'[n] = NewSlot(d, NoBlob) /\ \A s \in AllSlots \ {n} : ses'[s] = ses[s]
  BY <1>2, <1>4 DEF IInv, Types
<1>6. NewSlot(d, NoBlob).cfg.conv = 0 /\ ~NewSlot(d, NoBlob).preflight
  BY DEF NewSlot, NoSession, NoBlob
<1>7. ~ses[current].preflight
  BY <1>1 DEF Kept, Planned, Switching
<1>8. ~ses'[current].preflight
  BY <1>1, <1>4, <1>5, <1>7
<1>9. Planned'
  BY <1>1, <1>4, <1>5, <1>6, <1>8 DEF Planned, Switching
<1>10. Captured'
  BY <1>1 DEF Captured
<1> QED
  BY <1>1, <1>2, <1>3, <1>4, <1>9, <1>10, NewKept DEF n

\* A resumed session starts from the checkpoint's blob.
LEMMA ResumeKept == ASSUME IInv, Kept, Resume PROVE Kept'
<1> DEFINE n == count.slots + 1
<1>1. /\ UNCHANGED <<setup, cli, save>> /\ current' = n
      /\ count' = [count EXCEPT !.resumes = count.resumes + 1, !.slots = n]
      /\ human' = [pc |-> "launching", cmd |-> "start", slot |-> n, old |-> 0]
      /\ plug' = [s \in Slots |-> NoMemory] /\ count.resumes < setup.resumes
      /\ count \in Counts /\ Made \subseteq AllSlots
  BY Places DEF Resume, IInv, Types
<1>2. PICK d \in Drivers : ses' = [ses EXCEPT ![n] = NewSlot(d, disk.blob)] /\ disk' = [disk EXCEPT !.driver = d]
  BY DEF Resume, IInv, Types
<1>3. count'.convs = count.convs /\ count'.slots = n /\ disk'.blob = disk.blob
  BY <1>1, <1>2 DEF Counts, IInv, Types
<1>4. n \in AllSlots /\ n \notin Made /\ Made' = Made \cup {n} /\ 0 \notin Made'
  BY <1>1, <1>3, NextNumber DEF Made
<1> HIDE DEF n
<1>5. ses'[n] = NewSlot(d, disk.blob)
  BY <1>2, <1>4 DEF IInv, Types
<1>6. NewSlot(d, disk.blob).plan.conv = 0 /\ ~NewSlot(d, disk.blob).preflight
  BY DEF NewSlot, NoSession, NoBlob
<1>7. Planned' /\ Captured'
  BY <1>1, <1>4, <1>5, <1>6 DEF Planned, Captured, Switching, Blank
<1> QED
  BY <1>1, <1>2, <1>3, <1>4, <1>7, NewKept DEF n

\* The plan of the replacement is made while the old object runs on.
LEMMA PreflightKept == ASSUME IInv, Kept, Preflight PROVE Kept'
<1> DEFINE s == human.slot
           t == [ses[s] EXCEPT !.plan = [by |-> ses[s].driver, conv |-> Resolved(s)], !.preflight = TRUE]
           v == IF Minted(s) THEN count.convs + 1 ELSE count.convs
<1>1. /\ human.pc = "preflight" /\ human.cmd = "driver" /\ human.old = current
      /\ s \in Made \ {current} /\ s \in AllSlots /\ current \in Made /\ human \in Humans
      /\ UNCHANGED <<setup, current, cli, save, disk>> /\ Made \subseteq AllSlots
      /\ ses[s] \in Session /\ count \in Counts /\ 0 \notin Made
  BY Places DEF Preflight, At, IInv, Pointed, Types, Humans
<1>2. /\ ses[s].cfg.conv = 0 /\ \A r \in Made : r \in {current, s} => ~ses[r].preflight
  BY <1>1 DEF Kept, Planned, Switching
<1>3. CASE Spend("fails") /\ human' = Idle /\ UNCHANGED <<ses, plug>>
  <2>1. Passive
    BY <1>1, <1>3, PassiveSteps DEF Spent
  <2>2. human'.pc = "idle" /\ human'.slot = 0 /\ human'.old = 0
    BY <1>3 DEF Idle
  <2>3. Planned' /\ Captured'
    BY <1>1, <1>2, <1>3, <2>1, <2>2 DEF Planned, Captured, Switching, Passive
  <2> QED
    BY <1>1, <1>3, <2>1, <2>3, OnlyMoves
<1>4. CASE /\ ses' = [ses EXCEPT ![s].plan = [by |-> ses[s].driver, conv |-> Resolved(s)],
                                ![s].preflight = TRUE]
           /\ plug' = [plug EXCEPT ![s] = Remembered(s)]
           /\ count' = [count EXCEPT !.convs = IF Minted(s) THEN @ + 1 ELSE @]
           /\ GoOn("capturing")
  <2>1. /\ ses' = [ses EXCEPT ![s] = t]
        /\ count' = [count EXCEPT !.convs = v]
    BY <1>1, <1>4
  <2>2. /\ t.plan.conv = Resolved(s) /\ t.cfg = ses[s].cfg /\ t.driver = ses[s].driver
        /\ t.preflight /\ t.proc = ses[s].proc
    BY <1>1 DEF Session
  <2> HIDE DEF t
  <2>3. /\ human'.pc = "capturing" /\ human'.cmd = "driver" /\ human'.slot = s /\ human'.old = current
    BY <1>1, <1>4 DEF GoOn, Humans
  <2>4. count'.convs = v /\ count'.slots = count.slots
    BY <1>1, <2>1 DEF Counts
  <2> HIDE DEF s
  <2>5. /\ \A r \in AllSlots \ {s} : ses'[r] = ses[r] /\ plug'[r] = plug[r]
        /\ ses'[s] = t /\ plug'[s] = Remembered(s)
    BY <1>1, <1>4, <2>1 DEF IInv, Types
  <2>6. Made' = Made /\ AllSlots' = AllSlots /\ Clis' = Clis
    BY <1>1, <2>4 DEF Made, AllSlots, Clis
  <2>7. /\ Numbers \subseteq Numbers' /\ Resolved(s) \in Numbers'
        /\ Remembered(s).resolved \in Numbers' /\ Remembered(s).learned \in Numbers'
        /\ Server(s) => Remembered(s).resolved = Resolved(s)
    BY <1>1, <2>4, Prepared
  <2>8. Known'
    <3>1. \A r \in AllSlots : {ses'[r].cfg.conv, ses'[r].plan.conv, plug'[r].resolved, plug'[r].learned} \subseteq Numbers'
      BY <2>2, <2>5, <2>7 DEF Kept, Known
    <3>2. \A c \in Clis : cli'[c].conv \in Numbers'
      BY <1>1, <2>7 DEF Kept, Known
    <3>3. (\A who \in Savers : save'[who].blob.conv \in Numbers') /\ disk'.blob.conv \in Numbers'
      BY <1>1, <2>7 DEF Kept, Known
    <3> QED
      BY <2>6, <3>1, <3>2, <3>3 DEF Known
  <2>9. Recalled'
    BY <1>1, <2>2, <2>5, <2>6, <2>7 DEF Kept, Recalled, Server
  <2>10. Planned'
    BY <1>1, <1>2, <2>2, <2>3, <2>5, <2>6 DEF Planned, Switching
  <2>11. Captured'
    BY <2>3 DEF Captured
  <2>12. Fresh'
    BY <1>1, <2>2, <2>5, <2>6 DEF Kept, Fresh
  <2> QED
    BY <2>8, <2>9, <2>10, <2>11, <2>12 DEF Kept
<1> QED
  BY <1>3, <1>4 DEF Preflight, s

-----------------------------------------------------------------------------
\* At first nothing is known, and one object is about to be launched from no state.
LEMMA InitKept == Init => Kept
<1> SUFFICES ASSUME Init PROVE Kept
  OBVIOUS
<1>1. IInv
  BY InitInv
<1>2. /\ human.pc = "launching" /\ human.cmd = "start" /\ human.slot = 1 /\ human.old = 0 /\ current = 1
      /\ Made = {1} /\ 0 \in Numbers /\ count.convs = 0
  BY DEF Init, Made, Numbers
<1>3. /\ \A s \in AllSlots : ses[s].cfg = NoBlob /\ ses[s].plan = NoBlob /\ ~ses[s].preflight /\ ses[s].proc = 0
      /\ \A s \in AllSlots : plug[s] = NoMemory
  <2>1. ses = [s \in AllSlots |-> IF s = 1 THEN NewSlot("a", NoBlob) ELSE NoSession]
    BY DEF Init, AllSlots
  <2>2. plug = [s \in AllSlots |-> NoMemory]
    BY <2>1 DEF Init
  <2>3. \A x \in {NewSlot("a", NoBlob), NoSession} :
          x.cfg = NoBlob /\ x.plan = NoBlob /\ ~x.preflight /\ x.proc = 0
    <3>1. NewSlot("a", NoBlob) = [NoSession EXCEPT !.driver = "a", !.cfg = NoBlob]
      BY DEF NewSlot
    <3>2. /\ NoSession.cfg = NoBlob /\ NoSession.plan = NoBlob /\ ~NoSession.preflight
          /\ NoSession.proc = 0
      BY DEF NoSession
    <3>3. LET x == NewSlot("a", NoBlob)
          IN  x.cfg = NoBlob /\ x.plan = NoBlob /\ ~x.preflight /\ x.proc = 0
      BY <3>1 DEF NoSession
    <3> QED
      BY <3>2, <3>3
  <2>4. \A s \in AllSlots : ses[s] \in {NewSlot("a", NoBlob), NoSession}
    BY <2>1
  <2> QED
    BY <2>2, <2>3, <2>4
<1>4. /\ \A c \in Clis : cli[c].conv = 0
      /\ \A who \in Savers : save[who].blob = NoBlob
      /\ disk.blob = NoBlob
  BY DEF Init, Clis, NoCli, NoSave, Savers
<1>5. NoBlob.conv = 0 /\ NoMemory.resolved = 0 /\ NoMemory.learned = 0
  BY DEF NoBlob, NoMemory
<1>6. Known
  BY <1>2, <1>3, <1>4, <1>5 DEF Known
<1>7. 1 \in AllSlots
  BY <1>1, <1>2, Places DEF IInv
<1>8. Recalled /\ Fresh
  BY <1>2, <1>3, <1>5, <1>7 DEF Recalled, Fresh
<1>9. Planned /\ Captured
  BY <1>2, <1>3, <1>5, <1>7 DEF Planned, Captured, Switching, Blank
<1> QED
  BY <1>6, <1>8, <1>9 DEF Kept

\* Every step keeps what is known.
LEMMA StepKept == IInv /\ Kept /\ [Next]_vars => Kept'
<1> SUFFICES ASSUME IInv, Kept, [Next]_vars PROVE Kept'
  OBVIOUS
<1>1. CASE Command
  BY <1>1, AsksKept, SetDriverKept DEF Command
<1>2. CASE Works
  BY <1>2, PreflightKept, CaptureKept, StopsKept, EndsKept, ReplaceKept, StartKept, RestoreKept DEF Works
<1>3. CASE Crash \/ Resume
  BY <1>3, CrashKept, ResumeKept
<1>4. CASE \E s \in Slots : ses[s].driver # "none" /\ (PluginCrashes(s) \/ Learns(s))
  BY <1>4, PluginKept
<1>5. CASE \E c \in Clis : Opens(c) \/ Exits(c) \/ Obeys(c) \/ Waiter(c)
  BY <1>5, OpensKept, EndsKept
<1>6. CASE \E who \in DOMAIN save : Takes(who) \/ Saver(who)
  <2>1. DOMAIN save = Savers
    BY DEF IInv, Types
  <2> QED BY <1>6, <2>1, SaverKept
<1>7. CASE UNCHANGED vars
  <2>1. UNCHANGED <<setup, human, ses, plug, current, cli, save, disk, count, told>>
    BY <1>7 DEF vars
  <2>2. Passive /\ Standing
    BY <2>1, PassiveSteps DEF Standing
  <2> QED
    BY <2>1, <2>2, OnlyMoves
<1> QED
  BY <1>1, <1>2, <1>3, <1>4, <1>5, <1>6, <1>7 DEF Next

\* A launch from an object that has its state captured, or a plan made from no state,
\* replays a conversation that is known when there is one.
LEMMA Continues ==
  ASSUME IInv, Kept, NEW s \in Made, Launched(s), \A c \in Clis : ~Unreaped(c), KnownTo(s),
         IF ses[s].preflight THEN ses[s].cfg.conv = 0 ELSE Blank(s)
  PROVE  ses'[s].plan.conv \in 1..count.convs
<1>1. s \in AllSlots /\ ses'[s].plan = Plan(s)
  BY LaunchShows
<1>2. /\ ses[s].cfg.conv \in 0..count.convs /\ ses[s].plan.conv \in 0..count.convs
      /\ plug[s].learned \in 0..count.convs /\ count.convs \in Nat
  BY <1>1 DEF Kept, Known, Numbers, IInv, Types, Counts
<1>3. CASE ses[s].preflight
  BY <1>1, <1>2, <1>3 DEF Plan, KnownTo
<1>4. CASE ~ses[s].preflight
  <2>1. ses[s].cfg.conv # 0
    BY <1>4 DEF KnownTo, Blank
  <2>2. Resolved(s) \in 1..count.convs
    BY <1>2, <2>1 DEF Resolved
  <2>3. ses'[s].plan.conv = Resolved(s)
    BY <1>1, <1>4 DEF Plan
  <2> QED
    BY <2>2, <2>3
<1> QED
  BY <1>3, <1>4

\* Only a start or a restore launches, one object each, and from what it has captured.
LEMMA NothingIsLost ==
  ASSUME IInv, Kept, [Next]_vars
  PROVE  ~Relaunches({"start", "model", "thinking", "driver"})
<1> SUFFICES ASSUME human.cmd \in {"start", "model", "thinking", "driver"},
                    NEW s \in Slots, ses[s].proc # ses'[s].proc, KnownTo(s)
             PROVE  ses'[s].plan.conv \in 1..count.convs
  BY DEF Relaunches
<1>1. s \in AllSlots /\ Made \subseteq AllSlots
  BY Places DEF IInv
<1>2. ~Passive
  BY <1>1 DEF Passive, Same
<1>3. CASE Start
  <2>1. /\ human.pc = "launching" /\ human.slot = current /\ current \in Made
        /\ \A c \in Clis : ~Unreaped(c)
    BY <1>3 DEF Start, At, IInv, Pointed, Vacant, Types
  <2>2. Launched(human.slot) /\ s = human.slot
    <3>1. ~NotLaunched(human.slot)
      BY <1>1, <2>1, NotLaunchedHas
    <3> QED
      BY <1>1, <1>3, <2>1, <3>1, LaunchShows DEF Start
  <2>3. IF ses[s].preflight THEN ses[s].cfg.conv = 0 ELSE Blank(s)
    BY <2>1, <2>2 DEF Kept, Planned, Captured, Switching
  <2> QED
    BY <2>1, <2>2, <2>3, Continues
<1>4. CASE Restore
  <2>1. /\ human.pc = "restoring" /\ human.old = current /\ current \in Made /\ human.cmd = "driver"
        /\ \A c \in Clis : ~Unreaped(c)
    BY <1>4 DEF Restore, At, IInv, Pointed, Vacant, Types
  <2>2. Launched(human.old) /\ s = human.old
    <3>1. ~NotLaunched(human.old)
      BY <1>1, <2>1, NotLaunchedHas
    <3> QED
      BY <1>1, <1>4, <2>1, <3>1, LaunchShows DEF Restore
  <2>3. ~ses[s].preflight /\ Blank(s)
    BY <2>1, <2>2 DEF Kept, Planned, Captured, Switching
  <2> QED
    BY <2>1, <2>2, <2>3, Continues
<1>5. CASE SetDriver \/ Resume
  <2> DEFINE n == count.slots + 1
  <2>1. \E d \in Drivers : \E b : ses' = [ses EXCEPT ![n] = NewSlot(d, b)]
    <3>1. disk.driver \in Drivers
      BY DEF IInv, Types
    <3>2. CASE SetDriver
      BY <3>2 DEF SetDriver
    <3>3. CASE Resume
      BY <3>1, <3>3 DEF Resume
    <3> QED
      BY <1>5, <3>2, <3>3
  <2>2. n \in AllSlots /\ n \notin Made
    <3>1. count.switches < setup.switches \/ count.resumes < setup.resumes
      BY <1>5 DEF SetDriver, Resume
    <3> QED
      BY <3>1, NextNumber DEF Made
  <2> HIDE DEF n
  <2>3. s = n /\ ses'[s].proc = 0
    BY <1>1, <2>1, <2>2 DEF IInv, Types, NewSlot, NoSession
  <2> QED
    BY <2>2, <2>3 DEF Kept, Fresh
<1>6. CASE Preflight \/ Capture
  <2>1. human.slot \in AllSlots \/ Capture
    BY <1>1, <1>6 DEF Preflight, At, IInv, Pointed, Types
  <2>2. \A r \in AllSlots : ses[r] \in Session
    BY DEF IInv, Types
  <2>3. \A r \in AllSlots : ses'[r].proc = ses[r].proc
    <3>1. CASE \E r \in AllSlots : \E p : ses' = [ses EXCEPT ![r].plan = p, ![r].preflight = TRUE]
      BY <2>2, <3>1 DEF IInv, Types, Session
    <3>2. CASE \E r \in AllSlots : \E p : ses' = [ses EXCEPT ![r].cfg = p]
      BY <2>2, <3>2 DEF IInv, Types, Session
    <3>3. CASE ses' = ses
      BY <3>3
    <3>4. Capture => Target \in AllSlots
      BY <1>1, Places DEF Capture, At, IInv, Pointed
    <3> QED
      BY <1>6, <2>1, <3>1, <3>2, <3>3, <3>4 DEF Preflight, Capture
  <2> QED
    BY <1>1, <2>3
<1>7. CASE \E c \in Clis : Reaped(c)
  <2>1. PICK c \in Clis : Reaped(c)
    BY <1>7
  <2>2. \A r \in AllSlots : ses'[r].proc = ses[r].proc
    BY <2>1 DEF Reaped, IInv, Types, Session
  <2> QED
    BY <1>1, <2>2
<1>8. CASE Stop
  <2>1. \A r \in AllSlots : ses'[r].proc = ses[r].proc
    <3>1. \/ ses' = ses
          \/ \E t : ses' = [ses EXCEPT ![t].state = "stopping", ![t].stopping = TRUE]
      BY <1>8 DEF Stop
    <3>2. \A r \in AllSlots : ses[r] \in Session
      BY DEF IInv, Types
    <3>3. ASSUME NEW t, ses' = [ses EXCEPT ![t].state = "stopping", ![t].stopping = TRUE],
                 NEW r \in AllSlots
          PROVE  ses'[r].proc = ses[r].proc
      <4>1. ses' = [ses EXCEPT ![t] = [ses[t] EXCEPT !.state = "stopping", !.stopping = TRUE]]
        BY <3>3
      <4>2. ses'[r] = IF r = t THEN [ses[r] EXCEPT !.state = "stopping", !.stopping = TRUE] ELSE ses[r]
        BY <4>1 DEF IInv, Types
      <4>3. ses[r] \in Session
        BY <3>2
      <4> QED
        BY <4>2, <4>3 DEF Session
    <3> QED
      BY <3>1, <3>3
  <2> QED
    BY <1>1, <2>1
<1>9. CASE ses' = ses
  BY <1>9
<1> QED
  BY <1>3, <1>4, <1>5, <1>6, <1>7, <1>8, <1>9
  DEF Next, Command, RestartAgent, SetModel, CycleThinking, Restarts, Close, Works, Kill, Stopped, Replace,
      Crash, PluginCrashes, Learns, Opens, Exits, Obeys, Waiter, Reported, Takes, Saver, Asks, Saved, vars

-----------------------------------------------------------------------------
(***************************************************************************)
(* Whose blob it is.  A save takes the driver's name and the state from    *)
(* one object, and an object keeps its driver; a resume that names another *)
(* driver hands it the checkpoint's blob, and is left out.                 *)
(***************************************************************************)
NoneExplicit == \A s \in Setups : ~s.explicit

OfDriver(b, d) == b # NoBlob => b.by = d

Owned ==
  /\ \A s \in Made : OfDriver(ses[s].cfg, ses[s].driver) /\ OfDriver(ses[s].plan, ses[s].driver)
  /\ \A who \in Savers :
       /\ save[who].pc = "taken" => save[who].driver = ses[save[who].slot].driver
       /\ save[who].pc = "composed" => OfDriver(save[who].blob, save[who].driver)
  /\ OfDriver(disk.blob, disk.driver)

\* What an object says of its state is its driver's.
LEMMA StateIsOwned ==
  ASSUME Owned, NEW s \in Made
  PROVE  OfDriver(DriverState(s), ses[s].driver)
BY DEF Owned, OfDriver, DriverState

\* A step that changes the blobs of at most one object, to its driver's, and saves nothing.
LEMMA ObjectOwned ==
  ASSUME IInv, Owned, Made' = Made, UNCHANGED <<save, disk>>,
         \A s \in Made : /\ ses'[s].driver = ses[s].driver
                         /\ OfDriver(ses'[s].cfg, ses[s].driver) /\ OfDriver(ses'[s].plan, ses[s].driver)
  PROVE  Owned'
<1>1. \A who \in Savers : save[who].pc = "taken" => save[who].slot \in Made
  BY DEF IInv, Numbered
<1> QED
  BY <1>1 DEF Owned

\* A launch or its failure.
LEMMA LaunchOwned ==
  ASSUME IInv, Owned, NEW s \in Made, Launched(s) \/ NotLaunched(s), \A c \in Clis : ~Unreaped(c),
         UNCHANGED <<setup, save, disk>>
  PROVE  Owned'
<1>1. s \in AllSlots /\ Made \subseteq AllSlots
  BY Places DEF IInv
<1>2. OfDriver(Plan(s), ses[s].driver)
  BY DEF Plan, OfDriver, Owned
<1>3. CASE Launched(s)
  <2>1. /\ \A r \in AllSlots \ {s} : ses'[r] = ses[r]
        /\ ses'[s].plan = Plan(s) /\ ses'[s].cfg = ses[s].cfg /\ ses'[s].driver = ses[s].driver
        /\ Made' = Made
    BY <1>3, LaunchShows DEF Uncounted, Made
  <2>2. \A r \in Made : /\ ses'[r].driver = ses[r].driver
                        /\ OfDriver(ses'[r].cfg, ses[r].driver) /\ OfDriver(ses'[r].plan, ses[r].driver)
    BY <1>1, <1>2, <2>1 DEF Owned
  <2> QED
    BY <2>1, <2>2, ObjectOwned
<1>4. CASE NotLaunched(s)
  <2>1. Made' = Made
    BY <1>4, NotLaunchedHas DEF Uncounted, Made
  <2>2. ses[s] \in Session
    BY <1>1 DEF IInv, Types
  <2>3. /\ ses'[s].cfg = ses[s].cfg /\ ses'[s].plan \in {ses[s].plan, Plan(s)}
        /\ ses'[s].driver = ses[s].driver /\ \A r \in AllSlots \ {s} : ses'[r] = ses[r]
    <3> DEFINE t == [ses[s] EXCEPT !.state = "failed"]
               u == [ses[s] EXCEPT !.plan = Plan(s), !.preflight = FALSE, !.state = "failed"]
    <3>1. \E x \in {t, u} : ses' = [ses EXCEPT ![s] = x]
      BY <1>4 DEF NotLaunched, NotPrepared, NotStarted
    <3>2. \A x \in {t, u} : /\ x.cfg = ses[s].cfg /\ x.plan \in {ses[s].plan, Plan(s)}
                            /\ x.driver = ses[s].driver
      BY <2>2 DEF Session
    <3> HIDE DEF t, u
    <3> QED
      BY <1>1, <3>1, <3>2 DEF IInv, Types
  <2> QED
    BY <1>1, <1>2, <2>1, <2>3, ObjectOwned DEF Owned
<1> QED
  BY <1>3, <1>4

\* A new object with no blob, or with the blob of the checkpoint that names its driver.
LEMMA NewOwned ==
  ASSUME IInv, Owned, NEW n, n = count.slots + 1, n \in AllSlots, count'.slots = n, save' = save,
         NEW d \in Drivers, NEW b, OfDriver(b, d),
         ses' = [ses EXCEPT ![n] = NewSlot(d, b)],
         OfDriver(disk'.blob, disk'.driver)
  PROVE  Owned'
<1>1. Made' = Made \cup {n} /\ Made \subseteq AllSlots /\ n \notin Made
  BY Places DEF Made, IInv
<1>2. /\ \A s \in AllSlots \ {n} : ses'[s] = ses[s]
      /\ ses'[n] = NewSlot(d, b)
  BY DEF IInv, Types
<1>3. NewSlot(d, b).cfg = b /\ NewSlot(d, b).plan = NoBlob /\ NewSlot(d, b).driver = d
  BY DEF NewSlot, NoSession
<1>4. \A who \in Savers : save[who].pc = "taken" => save[who].slot \in Made
  BY DEF IInv, Numbered
<1>5. \A s \in Made' : OfDriver(ses'[s].cfg, ses'[s].driver) /\ OfDriver(ses'[s].plan, ses'[s].driver)
  <2>1. OfDriver(ses'[n].cfg, ses'[n].driver) /\ OfDriver(ses'[n].plan, ses'[n].driver)
    BY <1>2, <1>3 DEF OfDriver
  <2> QED
    BY <1>1, <1>2, <2>1 DEF Owned
<1>6. \A who \in Savers :
        /\ save'[who].pc = "taken" => save'[who].driver = ses'[save'[who].slot].driver
        /\ save'[who].pc = "composed" => OfDriver(save'[who].blob, save'[who].driver)
  BY <1>1, <1>2, <1>4 DEF Owned
<1> QED
  BY <1>5, <1>6 DEF Owned

\* A save: its name and its state come from one object.
LEMMA SaverOwned ==
  ASSUME IInv, Owned, NEW who \in Savers, Takes(who) \/ Saver(who)
  PROVE  Owned'
<1>1. /\ ses' = ses /\ save \in [Savers -> Save]
      /\ count' = count \/ \E what \in Spent : Spend(what)
  BY DEF Takes, Saver, Asks, Saved, SavesAgain, Spent, IInv, Types
<1>2. Made' = Made
  BY <1>1, SpendKeeps DEF Made, Uncounted, IInv
<1>3. CASE Takes(who)
  <2> DEFINE t == [NoSave EXCEPT !.pc = "taken", !.slot = current, !.driver = ses[current].driver]
  <2>1. /\ save' = [save EXCEPT ![who] = t] /\ disk' = disk
        /\ t.pc = "taken" /\ t.driver = ses[t.slot].driver
    BY <1>3 DEF Takes, NoSave
  <2> HIDE DEF t
  <2> QED
    BY <1>1, <1>2, <2>1 DEF Owned
<1>4. CASE Asks(who)
  <2> DEFINE t == [save[who] EXCEPT !.pc = "composed", !.blob = DriverState(save[who].slot)]
  <2>1. /\ save[who].slot \in Made /\ save[who].driver = ses[save[who].slot].driver
    BY <1>4 DEF Asks, IInv, Numbered, Owned
  <2>2. /\ save' = [save EXCEPT ![who] = t] /\ disk' = disk
        /\ t.pc = "composed" /\ t.blob = DriverState(save[who].slot) /\ t.driver = save[who].driver
    BY <1>1, <1>4 DEF Asks, Save
  <2>3. OfDriver(t.blob, t.driver)
    BY <2>1, <2>2, StateIsOwned
  <2> HIDE DEF t
  <2> QED
    BY <1>1, <1>2, <2>2, <2>3 DEF Owned
<1>5. CASE Saved(who)
  <2>1. /\ save' = [save EXCEPT ![who] = NoSave] /\ NoSave.pc = "none"
        /\ disk'.driver = save[who].driver /\ disk'.blob = save[who].blob
        /\ OfDriver(save[who].blob, save[who].driver)
    BY <1>5 DEF Saved, NoSave, Owned
  <2> QED
    BY <1>1, <1>2, <2>1 DEF Owned
<1> QED
  BY <1>3, <1>4, <1>5 DEF Saver

\* At first there is no blob.
LEMMA InitOwned == Init => Owned
<1> SUFFICES ASSUME Init PROVE Owned
  OBVIOUS
<1>1. Made = {1} /\ 1 \in AllSlots
  BY Places, InitInv DEF Init, Made, IInv
<1>2. ses[1] = NewSlot("a", NoBlob)
  BY <1>1 DEF Init, AllSlots
<1>3. ses[1].cfg = NoBlob /\ ses[1].plan = NoBlob
  BY <1>2 DEF NewSlot, NoSession
<1>4. \A who \in Savers : save[who].pc = "none"
  BY DEF Init, NoSave, Savers
<1>5. disk.blob = NoBlob
  BY DEF Init
<1> QED
  BY <1>1, <1>3, <1>4, <1>5 DEF Owned, OfDriver

\* A step that only moves a command, a CLI or a plugin on.
LEMMA PassiveOwned ==
  ASSUME IInv, Owned, Passive, UNCHANGED <<save, disk>>
  PROVE  Owned'
<1>1. Made \subseteq AllSlots
  BY Places DEF IInv
<1> QED
  BY <1>1, ObjectOwned DEF Owned, Passive, Same

\* Every step keeps the owners, where no resume names a driver.
LEMMA StepOwned ==
  ASSUME NoneExplicit, IInv, Owned, [Next]_vars
  PROVE  Owned'
<1>0. Made \subseteq AllSlots /\ Slots = AllSlots /\ \A s \in AllSlots : ses[s] \in Session
  BY Places DEF IInv, Types
<1>1. CASE RestartAgent \/ SetModel \/ CycleThinking \/ Close \/ Stop \/ Stopped \/ Replace \/ Kill
           \/ (\E s \in Slots : PluginCrashes(s) \/ Learns(s))
           \/ (\E c \in Clis : Exits(c) \/ Obeys(c) \/ Waiter(c))
           \/ UNCHANGED vars
  <2>1. UNCHANGED <<save, disk>> /\ setup' = setup /\ (count' = count \/ \E what \in Spent : Spend(what))
        /\ DOMAIN cli' = DOMAIN cli
    BY <1>1 DEF RestartAgent, SetModel, CycleThinking, Restarts, Close, Stop, Stopped, Replace, Kill, PluginCrashes,
                Learns, Exits, Obeys, Waiter, Reaped, Reported, Spent, vars
  <2>2. ses' = ses \/ \E s \in Slots : \E state \in States, stopping \in BOOLEAN :
          ses' = [ses EXCEPT ![s].state = state, ![s].stopping = stopping]
    <3>1. CASE Stop
      <4>1. Target \in Slots
        BY <1>0, <3>1, Places DEF Stop, At, IInv, Pointed
      <4> QED
        BY <3>1, <4>1 DEF Stop, States
    <3>2. CASE \E c \in Clis : Reaped(c)
      <4>1. PICK c \in Clis : Reaped(c)
        BY <3>2
      <4>2. cli[c].slot \in Slots
        BY <1>0, <4>1, Places DEF Reaped, IInv, Held, Unreaped
      <4>3. "exited" \in States /\ FALSE \in BOOLEAN
        BY DEF States
      <4> QED
        BY <4>1, <4>2, <4>3 DEF Reaped
    <3>3. CASE ses' = ses
      BY <3>3
    <3> QED
      BY <1>1, <3>1, <3>2, <3>3
      DEF RestartAgent, SetModel, CycleThinking, Restarts, Close, Stopped, Replace, Kill, PluginCrashes,
          Learns, Exits, Obeys, Waiter, Reported, vars
  <2> QED
    BY <2>1, <2>2, PassiveSteps, PassiveOwned
<1>2. CASE \E c \in Clis : Opens(c)
  <2>1. count \in Counts
    BY DEF IInv, Types
  <2>2. Made' = Made /\ ses' = ses /\ save' = save /\ disk' = disk
    BY <1>2, <2>1 DEF Opens, Made, Counts
  <2> QED
    BY <2>2, ObjectOwned DEF Owned
<1>3. CASE SetDriver
  <2> DEFINE n == count.slots + 1
  <2>1. PICK d \in Drivers : ses' = [ses EXCEPT ![n] = NewSlot(d, NoBlob)]
    BY <1>3 DEF SetDriver
  <2>2. /\ count' = [count EXCEPT !.switches = count.switches + 1, !.slots = n] /\ count \in Counts
        /\ n \in AllSlots /\ UNCHANGED <<save, disk>>
    BY <1>3, NextNumber DEF SetDriver, IInv, Types
  <2>3. count'.slots = n
    BY <2>2 DEF Counts
  <2>4. OfDriver(NoBlob, d) /\ OfDriver(disk'.blob, disk'.driver)
    BY <2>2 DEF OfDriver, Owned
  <2> QED
    BY <2>1, <2>2, <2>3, <2>4, NewOwned
<1>4. CASE Resume
  <2> DEFINE n == count.slots + 1
  <2>1. ~setup.explicit
    BY DEF NoneExplicit, IInv, Types
  <2>2. disk.driver \in Drivers /\ disk' = disk /\ ses' = [ses EXCEPT ![n] = NewSlot(disk.driver, disk.blob)]
    BY <1>4, <2>1 DEF Resume, IInv, Types
  <2>3. /\ count' = [count EXCEPT !.resumes = count.resumes + 1, !.slots = n] /\ count \in Counts
        /\ n \in AllSlots /\ save' = save
    BY <1>4, NextNumber DEF Resume, IInv, Types
  <2>4. count'.slots = n
    BY <2>3 DEF Counts
  <2>5. OfDriver(disk.blob, disk.driver)
    BY DEF Owned
  <2> QED
    BY <2>2, <2>3, <2>4, <2>5, NewOwned
<1>5. CASE Preflight
  <2> DEFINE s == human.slot
             t == [ses[s] EXCEPT !.plan = [by |-> ses[s].driver, conv |-> Resolved(s)], !.preflight = TRUE]
  <2>1. s \in Made /\ UNCHANGED <<save, disk>> /\ count \in Counts
    BY <1>5 DEF Preflight, At, IInv, Pointed, Types
  <2>2. count'.slots = count.slots
    <3>1. CASE Spend("fails")
      BY <3>1, SpendKeeps DEF Spent, IInv, Uncounted
    <3>2. CASE count' = [count EXCEPT !.convs = IF Minted(s) THEN @ + 1 ELSE @]
      BY <2>1, <3>2 DEF Counts
    <3> QED
      BY <1>5, <3>1, <3>2 DEF Preflight
  <2>3. t.driver = ses[s].driver /\ t.cfg = ses[s].cfg /\ t.plan.by = ses[s].driver
    BY <1>0, <2>1 DEF Session
  <2>4. ses' = ses \/ ses' = [ses EXCEPT ![s] = t]
    BY <1>0, <1>5, <2>1 DEF Preflight
  <2> HIDE DEF t, s
  <2>5. \A r \in Made : ses'[r] = ses[r] \/ (r = s /\ ses'[r] = t)
    BY <1>0, <2>4 DEF IInv, Types
  <2>6. Made' = Made
    BY <2>2 DEF Made
  <2>7. \A r \in Made : /\ ses'[r].driver = ses[r].driver
                        /\ OfDriver(ses'[r].cfg, ses[r].driver) /\ OfDriver(ses'[r].plan, ses[r].driver)
    BY <2>3, <2>5 DEF Owned, OfDriver
  <2> QED
    BY <2>1, <2>6, <2>7, ObjectOwned
<1>6. CASE Capture
  <2>1. /\ Target = current /\ current \in Made /\ UNCHANGED <<save, disk>> /\ Made' = Made
        /\ ses' = [ses EXCEPT ![current] = [ses[current] EXCEPT !.cfg = DriverState(current)]]
    BY <1>6 DEF Capture, At, IInv, Pointed, Types, Made
  <2>2. /\ \A r \in Made \ {current} : ses'[r] = ses[r]
        /\ ses'[current].cfg = DriverState(current) /\ ses'[current].plan = ses[current].plan
        /\ ses'[current].driver = ses[current].driver
    BY <1>0, <2>1 DEF IInv, Types, Session
  <2> QED
    BY <2>1, <2>2, StateIsOwned, ObjectOwned DEF Owned
<1>7. CASE Start
  <2>1. /\ human.slot = current /\ current \in Made /\ \A c \in Clis : ~Unreaped(c)
        /\ UNCHANGED <<setup, save, disk>> /\ (Launched(human.slot) \/ NotLaunched(human.slot))
    BY <1>7 DEF Start, At, IInv, Pointed, Vacant, Types
  <2> QED
    BY <2>1, LaunchOwned
<1>8. CASE Restore
  <2>1. /\ human.old = current /\ current \in Made /\ \A c \in Clis : ~Unreaped(c)
        /\ UNCHANGED <<setup, save, disk>> /\ (Launched(human.old) \/ NotLaunched(human.old))
    BY <1>8 DEF Restore, At, IInv, Pointed, Vacant, Types
  <2> QED
    BY <2>1, LaunchOwned
<1>9. CASE Crash
  <2>1. Made' = Made
    BY <1>9, SpendKeeps DEF Crash, Spent, IInv, Uncounted, Made
  <2>2. ses' = ses /\ disk' = disk /\ \A who \in Savers : save'[who].pc = "none"
    BY <1>9 DEF Crash, NoSave, IInv, Types
  <2> QED
    BY <2>1, <2>2 DEF Owned
<1>10. CASE \E who \in Savers : Takes(who) \/ Saver(who)
  BY <1>10, SaverOwned
<1>11. DOMAIN save = Savers
  BY DEF IInv, Types
<1> QED
  BY <1>1, <1>2, <1>3, <1>4, <1>5, <1>6, <1>7, <1>8, <1>9, <1>10, <1>11 DEF Next, Command, Works

\* What is known of conversations holds in every reachable state, for any setups.
THEOREM ConversationsInvariant == Spec => [](IInv /\ Kept)
<1>1. Init => IInv /\ Kept
  BY InitInv, InitKept
<1>2. IInv /\ Kept /\ [Next]_vars => (IInv /\ Kept)'
  BY StepInv, StepKept
<1> QED
  BY <1>1, <1>2, PTL DEF Spec

\* No launch of a start, a model or a driver command loses a conversation that the agent
\* was launched with (session.go:303-313, 225-256), with or without resumes that name a
\* driver of their own.
THEOREM NothingIsLostHolds == Spec => [][~Relaunches({"start", "model", "thinking", "driver"})]_vars
<1>1. IInv /\ Kept /\ [Next]_vars => [~Relaunches({"start", "model", "thinking", "driver"})]_vars
  BY NothingIsLost
<1> QED
  BY <1>1, ConversationsInvariant, PTL DEF Spec

\* No launch after a model switch, a failed driver switch or a resume loses a conversation
\* that the agent was launched with (session.go:303-313, 225-256), whatever crashes in
\* between, and a checkpoint hands no driver the blob of another one (snapshot.go:53-71,
\* protocol.go:279), where no resume names a driver of its own.
THEOREM LaunchesContinueHolds ==
  ASSUME NoneExplicit
  PROVE  Spec => LaunchesContinue
<1> DEFINE A == ~Relaunches({"start", "model", "thinking", "driver"}) /\ BlobIsOfDriver'
<1>1. Init => IInv /\ Kept /\ Owned
  BY InitInv, InitKept, InitOwned
<1>2. IInv /\ Kept /\ Owned /\ [Next]_vars => (IInv /\ Kept /\ Owned)'
  BY StepInv, StepKept, StepOwned
<1>3. IInv /\ Kept /\ Owned /\ [Next]_vars => [A]_vars
  <2> SUFFICES ASSUME IInv, Kept, Owned, [Next]_vars PROVE A
    OBVIOUS
  <2>1. Owned'
    BY StepOwned
  <2> QED
    BY <2>1, NothingIsLost DEF BlobIsOfDriver, Owned, OfDriver
<1> QED
  BY <1>1, <1>2, <1>3, PTL DEF Spec, LaunchesContinue

-----------------------------------------------------------------------------
(* The terminal interface.  What it shows is read at one time, answered at *)
(* another and reported at a third: the invariant ties each of them to the *)
(* session.                                                                *)

Things == UNION {Holds(mode) : mode \in Modes}
DriverNames == {"pi", "codex"}

Views == [mode : Modes, phase : {"fresh", "work", "done"}, round : SUBSET Things,
          pause : {"running", "pausing", "paused"}, driver : [Agents -> DriverNames],
          up : [Agents -> BOOLEAN], landed : BOOLEAN, ended : {"", "new", "recall", "resume"}]

Texts == [kind : {"text"}, size : UNION {s.sizes : s \in Scenes}, word : BOOLEAN]
Changes == [kind : {"up", "down"}, agent : Agents]
Events == {Pulse} \cup Texts \cup Changes

Questions == [kind : {"confirm"}, what : {"mode", "resume", "quit", "recall"}, target : Modes \cup {""},
              told : SUBSET Things, seen : Views]
Panels == [kind : {"none", "modes", "sessions", "drivers", "models", "details", "qrcode"}] \cup Questions

Lists == Agents \X DriverNames
Outcomes == [kind : {"started"}, failed : BOOLEAN, code : Nat] \cup [kind : {"stopped"}, failed : {FALSE}]
Results == Outcomes \cup [kind : {"details"}]
           \cup [kind : {"models"}, agent : Agents, failed : BOOLEAN, catalogue : Lists]
Requests == [kind : {"models"}, agent : Agents] \cup [kind : {"details"}] \cup [kind : {"stop"}]
            \cup [kind : {"start"}, rotate : BOOLEAN] \cup [kind : {"answer"}, result : Outcomes]

PickerType == [agent : Agents, of : Agents \cup {""}, all : {NoCatalogue} \cup Lists,
               loaded : BOOLEAN, loading : BOOLEAN]
DriverPickerType == [agent : Agents, current : DriverNames]
PairingType == [on : BOOLEAN, code : Nat, shown : Nat]
ScreenType == [dirty : BOOLEAN, native : Agents \cup {""}, stopped : BOOLEAN, gone : BOOLEAN]
Hearing == [announced : SUBSET Agents, told : [Agents -> {"up", "down", "none"}], missed : BOOLEAN]

\* What runs beside the loop and what it answers.
CallTypes ==
  /\ calls \in Seq(Requests) /\ Len(calls) <= scene.calls
  /\ async \in Seq(Results) /\ Len(async) <= scene.channel

PartTypes == picker \in PickerType /\ drivers \in DriverPickerType /\ remote \in PairingType /\ screen \in ScreenType

BesideTypes == CallTypes /\ PartTypes

\* The session, its View and the events between them.  A round holds what its mode may.
ViewTypes ==
  /\ scene \in Scenes
  /\ sess \in Views /\ sess.round \subseteq Holds(sess.mode)
  /\ live \in Views
  /\ bus \in Seq(Events) /\ Len(bus) <= scene.buffer
  /\ news \in Seq(Changes)
  /\ heard \in Hearing

\* A question names what a switch takes from the View that is seen.
Excused(losses) == \A loss \in losses : loss.late \/ LeftOut(loss)

Named ==
  /\ panel \in Panels
  /\ panel.kind = "confirm" /\ panel.what = "mode" =>
       panel.target \in Modes /\ panel.told = ModeSwitchLoss(panel.seen, panel.target)
  /\ Excused(unasked)

UInv == ViewTypes /\ BesideTypes /\ Named

-----------------------------------------------------------------------------
\* The last event about an agent that is on its way says what is so.
About(e, a) == e.kind \in {"up", "down"} /\ e.agent = a
Mentions(q, a) == \E k \in DOMAIN q : About(q[k], a)
LastAgrees(q, a, s) ==
  \A k \in DOMAIN q :
     About(q[k], a) /\ (\A j \in DOMAIN q : j > k => ~About(q[j], a)) => (q[k].kind = "up" <=> s.up[a])

Followed(a) ==
  /\ LastAgrees(news, a, sess)
  /\ ~Mentions(news, a) => LastAgrees(bus, a, sess)
  /\ ~Mentions(news, a) /\ ~Mentions(bus, a) => (heard.told[a] = "up" <=> sess.up[a])

Notices ==
  /\ \A a \in heard.announced : heard.told[a] = "up"
  /\ ~heard.missed => \A a \in Agents : Followed(a)

\* A catalogue is that of the driver an agent runs, and the panels know the driver.
ListsAgree ==
  /\ live.driver = sess.driver
  /\ panel.kind = "drivers" => May("drivers") /\ drivers.current = sess.driver[drivers.agent]
  /\ panel.kind = "models" => May("models")
  /\ picker.of \in {picker.agent, ""}
  /\ picker.loaded => May("models") /\ picker.all = Catalogue(picker.agent)
  /\ \A i \in DOMAIN calls : calls[i].kind = "models" => May("models")
  /\ \A i \in DOMAIN async : async[i].kind = "models" =>
       May("models") /\ (~async[i].failed => async[i].catalogue = Catalogue(async[i].agent))

\* One request for the pairing at a time, whose answer is still so when it is handled.
AsksPairing(call) == call.kind \in {"start", "stop", "answer"}
TellsPairing(result) == result.kind \in {"started", "stopped"}
OneRequest(q) == \A i, j \in DOMAIN q : AsksPairing(q[i]) /\ AsksPairing(q[j]) => i = j
OneAnswer(q) == \A i, j \in DOMAIN q : TellsPairing(q[i]) /\ TellsPairing(q[j]) => i = j
Alone ==
  /\ OneRequest(calls) /\ OneAnswer(async)
  /\ Pairing => ~PairingAnswers

Renews(result) == result.kind = "stopped" \/ (result.kind = "started" /\ ~result.failed)
SoStill(result, now) ==
  /\ result.kind = "stopped" => ~now.on
  /\ result.kind = "started" /\ ~result.failed => now.on /\ now.code = result.code
Shown ==
  /\ \A i \in DOMAIN calls : calls[i].kind = "answer" => SoStill(calls[i].result, remote)
  /\ \A i \in DOMAIN async : TellsPairing(async[i]) => SoStill(async[i], remote)
  /\ panel.kind = "qrcode" =>
       \/ remote.on /\ remote.shown = remote.code
       \/ \E i \in DOMAIN calls : calls[i].kind = "answer" /\ Renews(calls[i].result)
       \/ \E i \in DOMAIN async : TellsPairing(async[i]) /\ Renews(async[i])

-----------------------------------------------------------------------------
\* What leaves a queue in front, and what goes into it behind.
LEMMA TailOf ==
  ASSUME NEW S, NEW q \in Seq(S), q # << >>
  PROVE  /\ Tail(q) \in Seq(S) /\ Len(q) > 0 /\ Len(Tail(q)) = Len(q) - 1
         /\ 1 \in DOMAIN q /\ Head(q) = q[1] /\ Head(q) \in S
         /\ \A k \in DOMAIN Tail(q) : k + 1 \in DOMAIN q /\ k > 0 /\ Tail(q)[k] = q[k + 1]
         /\ \A k \in DOMAIN q : k # 1 => k - 1 \in DOMAIN Tail(q) /\ Tail(q)[k - 1] = q[k]
OBVIOUS

LEMMA AppendOf ==
  ASSUME NEW S, NEW q \in Seq(S), NEW e \in S
  PROVE  /\ Append(q, e) \in Seq(S) /\ Len(Append(q, e)) = Len(q) + 1
         /\ Len(q) + 1 \in DOMAIN Append(q, e) /\ Append(q, e)[Len(q) + 1] = e
         /\ Len(q) + 1 \notin DOMAIN q
         /\ \A k \in DOMAIN q : k \in DOMAIN Append(q, e) /\ Append(q, e)[k] = q[k] /\ k < Len(q) + 1
         /\ \A k \in DOMAIN Append(q, e) : k = Len(q) + 1 \/ k \in DOMAIN q
OBVIOUS

LEMMA RemoveOf ==
  ASSUME NEW S, NEW q \in Seq(S), NEW i \in DOMAIN q
  PROVE  /\ RemoveAt(q, i) \in Seq(S) /\ Len(RemoveAt(q, i)) = Len(q) - 1
         /\ \A k \in DOMAIN RemoveAt(q, i) :
              /\ k \in DOMAIN q /\ k + 1 \in DOMAIN q
              /\ RemoveAt(q, i)[k] = IF k < i THEN q[k] ELSE q[k + 1]
         /\ \A k \in DOMAIN q : k # i =>
              \E j \in DOMAIN RemoveAt(q, i) : RemoveAt(q, i)[j] = q[k]
<1> DEFINE t == RemoveAt(q, i)
<1>1. i \in 1 .. Len(q) /\ Len(q) \in Nat
  OBVIOUS
<1>2. SubSeq(q, 1, i - 1) \in Seq(S) /\ SubSeq(q, i + 1, Len(q)) \in Seq(S)
      /\ Len(SubSeq(q, 1, i - 1)) = i - 1 /\ Len(SubSeq(q, i + 1, Len(q))) = Len(q) - i
  BY <1>1
<1>3. /\ t \in Seq(S) /\ Len(t) = Len(q) - 1
      /\ \A k \in 1 .. Len(q) - 1 : t[k] = IF k < i THEN q[k] ELSE q[k + 1]
  <2> DEFINE u == SubSeq(q, 1, i - 1)
             v == SubSeq(q, i + 1, Len(q))
  <2>1. /\ \A k \in 1 .. i - 1 : u[k] = q[k]
        /\ \A k \in 1 .. Len(q) - i : v[k] = q[k + i]
    BY <1>1
  <2>2. t = u \o v
    BY DEF RemoveAt
  <2>3. u \in Seq(S) /\ v \in Seq(S) /\ Len(u) = i - 1 /\ Len(v) = Len(q) - i
    BY <1>2
  <2> HIDE DEF u, v, t
  <2>4. /\ t \in Seq(S) /\ Len(t) = Len(q) - 1
        /\ \A k \in 1 .. Len(q) - 1 : t[k] = IF k < i THEN u[k] ELSE v[k - (i - 1)]
    <3>1. t \in Seq(S) /\ Len(t) = Len(u) + Len(v)
      BY <2>2, <2>3
    <3>2. \A k \in 1 .. Len(t) : t[k] = IF k <= Len(u) THEN u[k] ELSE v[k - Len(u)]
      BY <2>2, <2>3
    <3>3. Len(t) = Len(q) - 1 /\ i \in Int
      BY <1>1, <2>3, <3>1
    <3>4. ASSUME NEW k \in 1 .. Len(q) - 1
          PROVE  t[k] = IF k < i THEN u[k] ELSE v[k - (i - 1)]
      <4>1. k <= Len(u) <=> k < i
        BY <2>3, <3>3
      <4>2. t[k] = IF k <= Len(u) THEN u[k] ELSE v[k - Len(u)]
        BY <3>2, <3>3
      <4> QED BY <2>3, <4>1, <4>2
    <3> QED BY <3>1, <3>3, <3>4
  <2>5. ASSUME NEW k \in 1 .. Len(q) - 1
        PROVE  t[k] = IF k < i THEN q[k] ELSE q[k + 1]
    <3>1. CASE k < i
      BY <1>1, <2>1, <2>4, <3>1
    <3>2. CASE ~(k < i)
      <4>1. k - (i - 1) \in 1 .. Len(q) - i /\ (k - (i - 1)) + i = k + 1
        BY <1>1, <3>2
      <4> QED BY <2>1, <2>4, <3>2, <4>1
    <3> QED BY <3>1, <3>2
  <2> QED BY <2>4, <2>5
<1>4. \A k \in 1 .. Len(q) : k # i => \E j \in 1 .. Len(q) - 1 : t[j] = q[k]
  <2> SUFFICES ASSUME NEW k \in 1 .. Len(q), k # i PROVE \E j \in 1 .. Len(q) - 1 : t[j] = q[k]
    OBVIOUS
  <2>1. CASE k < i
    <3>1. k \in 1 .. Len(q) - 1 /\ t[k] = q[k]
      BY <1>1, <1>3, <2>1
    <3> QED BY <3>1
  <2>2. CASE k > i
    <3>1. k - 1 \in 1 .. Len(q) - 1 /\ ~(k - 1 < i) /\ (k - 1) + 1 = k
      BY <1>1, <2>2
    <3>2. t[k - 1] = q[k]
      BY <1>3, <3>1
    <3> QED BY <3>1, <3>2
  <2> QED BY <1>1, <2>1, <2>2
<1>5. DOMAIN t = 1 .. Len(q) - 1
  BY <1>1, <1>3
<1>6. DOMAIN q = 1 .. Len(q)
  OBVIOUS
<1> HIDE DEF t
<1>7. \A k \in 1 .. Len(q) - 1 : k \in 1 .. Len(q) /\ k + 1 \in 1 .. Len(q)
  BY <1>1
<1> QED
  <2>1. /\ t \in Seq(S) /\ Len(t) = Len(q) - 1
        /\ \A k \in DOMAIN t : /\ k \in DOMAIN q /\ k + 1 \in DOMAIN q
                               /\ t[k] = IF k < i THEN q[k] ELSE q[k + 1]
        /\ \A k \in DOMAIN q : k # i => \E j \in DOMAIN t : t[j] = q[k]
    BY <1>3, <1>4, <1>5, <1>6, <1>7
  <2> QED BY <2>1 DEF t

\* A word about another agent, or about none, changes nothing for this one.
LEMMA OtherWord ==
  ASSUME NEW S, NEW q \in Seq(S), NEW e \in S, NEW a, NEW s, ~About(e, a)
  PROVE  /\ Mentions(Append(q, e), a) <=> Mentions(q, a)
         /\ LastAgrees(q, a, s) => LastAgrees(Append(q, e), a, s)
BY AppendOf DEF Mentions, LastAgrees

LEMMA LastWord ==
  ASSUME NEW S, NEW q \in Seq(S), NEW e \in S, NEW a, NEW s, About(e, a), e.kind = "up" <=> s.up[a]
  PROVE  Mentions(Append(q, e), a) /\ LastAgrees(Append(q, e), a, s)
<1>1. Mentions(Append(q, e), a)
  BY AppendOf DEF Mentions
<1>2. ASSUME NEW k \in DOMAIN Append(q, e), \A j \in DOMAIN Append(q, e) : j > k => ~About(Append(q, e)[j], a)
      PROVE  k = Len(q) + 1
  BY <1>2, AppendOf
<1>3. LastAgrees(Append(q, e), a, s)
  BY <1>2, AppendOf DEF LastAgrees
<1> QED BY <1>1, <1>3

LEMMA FirstWord ==
  ASSUME NEW S, NEW q \in Seq(S), q # << >>, NEW a, NEW s, LastAgrees(q, a, s)
  PROVE  /\ LastAgrees(Tail(q), a, s)
         /\ Mentions(Tail(q), a) => Mentions(q, a)
         /\ Mentions(q, a) /\ ~About(Head(q), a) => Mentions(Tail(q), a)
         /\ ~Mentions(Tail(q), a) /\ About(Head(q), a) => (Head(q).kind = "up" <=> s.up[a])
<1> DEFINE t == Tail(q)
<1>1. Mentions(t, a) => Mentions(q, a)
  BY TailOf DEF Mentions
<1>2. Mentions(q, a) /\ ~About(Head(q), a) => Mentions(t, a)
  <2>1. ASSUME NEW k \in DOMAIN q, About(q[k], a), ~About(Head(q), a)
        PROVE  Mentions(t, a)
    <3>1. k # 1
      BY <2>1, TailOf
    <3>2. k - 1 \in DOMAIN t /\ t[k - 1] = q[k]
      BY <3>1, TailOf
    <3> QED BY <2>1, <3>2 DEF Mentions
  <2> QED BY <2>1 DEF Mentions
<1>3. ASSUME NEW k \in DOMAIN t, About(t[k], a), \A j \in DOMAIN t : j > k => ~About(t[j], a)
      PROVE  t[k].kind = "up" <=> s.up[a]
  <2>1. k + 1 \in DOMAIN q /\ q[k + 1] = t[k] /\ k \in Nat
    BY TailOf
  <2>2. ASSUME NEW j \in DOMAIN q, j > k + 1
        PROVE  ~About(q[j], a)
    <3>1. j - 1 \in DOMAIN t /\ t[j - 1] = q[j] /\ j - 1 > k
      BY <2>1, <2>2, TailOf
    <3> QED BY <1>3, <3>1
  <2> QED BY <1>3, <2>1, <2>2 DEF LastAgrees
<1>4. ASSUME ~Mentions(t, a), About(Head(q), a)
      PROVE  Head(q).kind = "up" <=> s.up[a]
  <2>1. 1 \in DOMAIN q /\ Head(q) = q[1]
    BY TailOf
  <2>2. ASSUME NEW j \in DOMAIN q, j > 1
        PROVE  ~About(q[j], a)
    <3>1. j - 1 \in DOMAIN t /\ t[j - 1] = q[j]
      BY <2>2, TailOf
    <3> QED BY <1>4, <3>1 DEF Mentions
  <2> QED BY <1>4, <2>1, <2>2 DEF LastAgrees
<1> QED BY <1>1, <1>2, <1>3, <1>4 DEF LastAgrees

-----------------------------------------------------------------------------
\* What a step leaves alone.
LEMMA PaneAlone ==
  ASSUME PaneKey
  PROVE  UNCHANGED <<scene, sess, bus, news, live, heard, panel, unasked, picker, drivers, calls, async, remote>>
         /\ Handled
<1>1. scene' = scene
  <2>1. CASE SearchKey
    BY <2>1 DEF SearchKey, OpenSearch, Searched, TypeQuery, EnterSearch, SearchJump, CloseSearch
  <2>2. CASE Scroll
    BY <2>2 DEF Scroll
  <2>3. CASE Resize
    BY <2>3 DEF Resize
  <2>4. CASE ToggleTimestamps \/ ShowStatus
    BY <2>4 DEF ToggleTimestamps, ShowStatus
  <2> QED BY <2>1, <2>2, <2>3, <2>4 DEF PaneKey
<1> QED BY <1>1 DEF PaneKey, NotPanes, sessionVars, panelVars, callVars

PanelSteps == \/ CloseOverlay \/ OpenModePicker \/ ConfirmResume \/ ConfirmQuit \/ RequestQuit \/ RequestRecall
              \/ OpenSessions
DriverPanelSteps == OpenDriverPicker \/ SwitchDriverAgent
BesideSteps == OpenPicker \/ SwitchModelAgent \/ OpenDetails \/ RequestPairing \/ Return \/ HandleAsync
FrameSteps == Draw \/ Leave \/ EnterNative \/ PaneKey
EndSteps == ConfirmRecall \/ RequestNewSession \/ ChooseSession
SessionSteps == \/ Work \/ Task \/ Finish \/ SwitchedElsewhere \/ PauseReached \/ Land \/ EndedElsewhere
                \/ Connect \/ Speak
ReadSteps == Tick \/ LeaveNative

LEMMA ViewFrame ==
  ASSUME PanelSteps \/ DriverPanelSteps \/ BesideSteps \/ FrameSteps
  PROVE  UNCHANGED <<scene, sess, bus, news, live, heard>>
<1>1. CASE PanelSteps
  BY <1>1 DEF PanelSteps, sessionVars, CloseOverlay, OpenModePicker, ConfirmResume, ConfirmQuit, RequestQuit,
     RequestRecall, OpenSessions
<1>2. CASE DriverPanelSteps
  BY <1>2 DEF DriverPanelSteps, sessionVars, OpenDriverPicker, SwitchDriverAgent
<1>3. CASE BesideSteps
  BY <1>3 DEF BesideSteps, sessionVars, OpenPicker, SwitchModelAgent, OpenDetails, RequestPairing, Return, HandleAsync
<1>4. CASE Draw \/ Leave \/ EnterNative
  BY <1>4 DEF sessionVars, Draw, Leave, EnterNative
<1>5. CASE PaneKey
  BY <1>5, PaneAlone
<1> QED BY <1>1, <1>2, <1>3, <1>4, <1>5 DEF FrameSteps

LEMMA PanelFrame ==
  ASSUME FrameSteps \/ SessionSteps \/ ReadSteps \/ Publish \/ HandleEvent \/ PauseVerb \/ RequestRestart
         \/ SwitchDriverAgent \/ SwitchModelAgent \/ RequestPairing \/ Return \/ RequestNewSession
  PROVE  UNCHANGED <<panel, unasked>>
<1>1. CASE Draw \/ Leave \/ EnterNative
  BY <1>1 DEF panelVars, Draw, Leave, EnterNative
<1>2. CASE PaneKey
  BY <1>2, PaneAlone
<1>3. CASE SessionSteps
  BY <1>3 DEF SessionSteps, SessionAlone, panelVars, Work, Task, Finish, SwitchedElsewhere, PauseReached, Land,
     EndedElsewhere, Connect, Speak
<1>4. CASE ReadSteps
  BY <1>4 DEF ReadSteps, panelVars, Tick, LeaveNative
<1>5. CASE Publish \/ HandleEvent \/ PauseVerb \/ RequestRestart \/ RequestNewSession
  BY <1>5 DEF panelVars, Publish, HandleEvent, PauseVerb, Verb, RequestRestart, RequestNewSession
<1>6. CASE SwitchDriverAgent \/ SwitchModelAgent \/ RequestPairing \/ Return
  BY <1>6 DEF panelVars, SwitchDriverAgent, SwitchModelAgent, RequestPairing, Return
<1> QED BY <1>1, <1>2, <1>3, <1>4, <1>5, <1>6 DEF FrameSteps

LEMMA BesideFrame ==
  ASSUME PanelSteps \/ FrameSteps \/ SessionSteps \/ ReadSteps \/ EndSteps \/ Publish \/ HandleEvent \/ PauseVerb
         \/ RequestRestart \/ ChooseMode \/ ConfirmMode \/ ApplyPickerModel
  PROVE  UNCHANGED <<scene, calls, async, remote, picker, drivers>>
<1>1. CASE Draw \/ Leave \/ EnterNative
  BY <1>1 DEF panelVars, callVars, Draw, Leave, EnterNative
<1>2. CASE PaneKey
  BY <1>2, PaneAlone
<1>3. CASE SessionSteps
  BY <1>3 DEF SessionSteps, SessionAlone, panelVars, callVars, Work, Task, Finish, SwitchedElsewhere, PauseReached,
     Land, EndedElsewhere, Connect, Speak
<1>4. CASE ReadSteps
  BY <1>4 DEF ReadSteps, panelVars, callVars, Tick, LeaveNative
<1>5. CASE Publish \/ HandleEvent \/ PauseVerb \/ RequestRestart
  BY <1>5 DEF panelVars, callVars, Publish, HandleEvent, PauseVerb, Verb, RequestRestart
<1>6. CASE PanelSteps
  BY <1>6 DEF PanelSteps, callVars, CloseOverlay, OpenModePicker, ConfirmResume, ConfirmQuit, RequestQuit,
     RequestRecall, OpenSessions
<1>7. CASE EndSteps
  BY <1>7 DEF EndSteps, panelVars, callVars, ConfirmRecall, RequestNewSession, ChooseSession
<1>8. CASE ChooseMode \/ ConfirmMode
  BY <1>8 DEF callVars, ChooseMode, RequestModeSwitch, ConfirmMode, ApplyModeSwitch
<1>9. CASE ApplyPickerModel
  BY <1>9 DEF callVars, ApplyPickerModel
<1> QED BY <1>1, <1>2, <1>3, <1>4, <1>5, <1>6, <1>7, <1>8, <1>9 DEF FrameSteps

LEMMA StepKinds ==
  InterfaceNext <=> \/ PanelSteps \/ DriverPanelSteps \/ BesideSteps \/ FrameSteps \/ EndSteps \/ SessionSteps
                    \/ ReadSteps \/ Publish \/ HandleEvent \/ ChooseMode \/ ConfirmMode \/ PauseVerb \/ ApplyDriver
                    \/ RequestRestart \/ ApplyPickerModel
BY DEF InterfaceNext, PanelSteps, DriverPanelSteps, BesideSteps, FrameSteps, EndSteps, SessionSteps, ReadSteps

-----------------------------------------------------------------------------
\* The types.
LEMMA SwitchedView ==
  ASSUME NEW s \in Views, s.round \subseteq Holds(s.mode), NEW target \in Modes
  PROVE  /\ Switched(s, target) \in Views /\ Switched(s, target).round \subseteq Holds(Switched(s, target).mode)
         /\ Switched(s, target).driver = s.driver /\ Switched(s, target).up = s.up
<1>1. CASE target = s.mode
  BY <1>1 DEF Switched
<1>2. CASE target # s.mode
  <2> DEFINE r == IF s.phase # "done" /\ target \in {"GOAL", "STEP"} THEN {"plan"} ELSE {}
             p == IF s.phase = "done" THEN s.phase ELSE "work"
  <2>1. r \subseteq Holds(target) /\ r \in SUBSET Things
    BY DEF Holds, Things, Modes
  <2>2. p \in {"fresh", "work", "done"}
    BY DEF Views
  <2>3. Switched(s, target) = [s EXCEPT !.mode = target, !.phase = p, !.round = r]
    BY <1>2 DEF Switched
  <2> HIDE DEF r, p
  <2> QED BY <2>1, <2>2, <2>3 DEF Views
<1> QED BY <1>1, <1>2

LEMMA HeldThings == \A mode \in Modes : Holds(mode) \subseteq Things
BY DEF Things

LEMMA PulseIsEvent == Pulse \in Events
BY DEF Events

LEMMA EmittedQueue ==
  ASSUME ViewTypes, NEW e \in Events
  PROVE  Emitted(e) \in Seq(Events) /\ Len(Emitted(e)) <= scene.buffer
<1>1. scene.buffer \in Nat
  BY ScenesAssumption DEF ViewTypes
<1>2. Append(bus, e) \in Seq(Events) /\ Len(Append(bus, e)) = Len(bus) + 1 /\ Len(bus) \in Nat
  BY AppendOf DEF ViewTypes
<1> QED BY <1>1, <1>2 DEF Emitted, ViewTypes

LEMMA EndedView ==
  ASSUME ViewTypes, NEW how \in {"new", "recall", "resume"}, RequestEnd(how)
  PROVE  /\ sess' \in Views /\ sess'.round \subseteq Holds(sess'.mode)
         /\ sess'.driver = sess.driver /\ sess'.up = sess.up
         /\ bus' \in Seq(Events) /\ Len(bus') <= scene.buffer
         /\ bus' = bus \/ bus' = Append(bus, Pulse)
<1>1. bus' \in Seq(Events) /\ Len(bus') <= scene.buffer /\ (bus' = bus \/ bus' = Append(bus, Pulse))
  <2>1. bus' = Emitted(Pulse) \/ bus' = bus
    BY DEF RequestEnd
  <2>2. Emitted(Pulse) = bus \/ Emitted(Pulse) = Append(bus, Pulse)
    BY DEF Emitted
  <2> QED BY <2>1, <2>2, EmittedQueue, PulseIsEvent DEF ViewTypes
<1>2. PICK h \in {"", "new", "recall", "resume"} : sess' = [sess EXCEPT !.ended = h]
  BY DEF RequestEnd, ViewTypes, Views
<1> QED BY <1>1, <1>2 DEF ViewTypes, Views

LEMMA AnnouncedAgents ==
  ASSUME ViewTypes, NEW s
  PROVE  /\ Announced(s) \subseteq Agents /\ Announced(s) \subseteq heard.announced
         /\ [heard EXCEPT !.announced = Announced(s)] \in Hearing
         /\ [heard EXCEPT !.announced = Announced(s)].told = heard.told
         /\ [heard EXCEPT !.announced = Announced(s)].announced = Announced(s)
         /\ [heard EXCEPT !.announced = Announced(s)].missed = heard.missed
BY DEF Announced, ViewTypes, Hearing

LEMMA RoutedHearing ==
  ASSUME ViewTypes, NEW e \in Events
  PROVE  Route(e) \in Hearing
<1>1. Announced(sess) \subseteq Agents /\ heard \in Hearing
  BY AnnouncedAgents DEF ViewTypes, Hearing
<1>2. [heard EXCEPT !.announced = Announced(sess)] \in Hearing
  BY <1>1 DEF Hearing
<1>3. CASE e \in Changes
  <2>1. e.agent \in Agents /\ e.kind \in {"up", "down"}
    BY <1>3 DEF Changes
  <2>2. [heard EXCEPT !.announced = Announced(sess) \cup {e.agent}, !.told[e.agent] = "up"] \in Hearing
    BY <1>1, <2>1 DEF Hearing
  <2>3. [heard EXCEPT !.announced = Announced(sess) \ {e.agent}, !.told[e.agent] = "down"] \in Hearing
    BY <1>1, <2>1 DEF Hearing
  <2> QED BY <1>2, <2>1, <2>2, <2>3 DEF Route
<1>4. CASE e \notin Changes
  <2>1. e.kind \in {"pulse", "text"}
    BY <1>4 DEF Events, Pulse, Texts
  <2>2. Route(e) = [heard EXCEPT !.announced = Announced(sess)]
    BY <2>1 DEF Route
  <2> QED BY <1>2, <2>2
<1> QED BY <1>3, <1>4

LEMMA SessionTypes ==
  ASSUME ViewTypes, SessionSteps
  PROVE  /\ sess' \in Views /\ sess'.round \subseteq Holds(sess'.mode) /\ sess'.driver = sess.driver
         /\ bus' \in Seq(Events) /\ Len(bus') <= scene.buffer /\ news' \in Seq(Changes)
<1>0. UNCHANGED <<scene, live, heard>>
  BY DEF SessionSteps, SessionAlone, Work, Task, Finish, SwitchedElsewhere, PauseReached, Land, EndedElsewhere,
     Connect, Speak
<1> USE DEF ViewTypes
<1>1. CASE Work
  <2>1. PICK r : sess' = [sess EXCEPT !.round = r] /\ r \subseteq Holds(sess.mode)
    <3>1. CASE \E thing \in Holds(sess.mode) : sess' = [sess EXCEPT !.round = @ \cup {thing}]
      <4>1. PICK thing \in Holds(sess.mode) : sess' = [sess EXCEPT !.round = sess.round \cup {thing}]
        BY <3>1
      <4>2. sess.round \cup {thing} \subseteq Holds(sess.mode)
        BY <4>1
      <4> QED BY <4>1, <4>2
    <3>2. CASE sess' = [sess EXCEPT !.round = @ \ {"signatures", "claim", "inbox"}]
      <4>1. sess.round \ {"signatures", "claim", "inbox"} \subseteq Holds(sess.mode)
        OBVIOUS
      <4> QED BY <3>2, <4>1
    <3> QED BY <1>1, <3>1, <3>2 DEF Work
  <2>2. r \subseteq Things
    BY <2>1, HeldThings DEF Views
  <2>3. UNCHANGED <<bus, news>>
    BY <1>1 DEF Work
  <2> QED BY <2>1, <2>2, <2>3 DEF Views
<1>2. CASE Task
  BY <1>2 DEF Task, Views
<1>3. CASE Finish
  BY <1>3 DEF Finish, Views
<1>4. CASE SwitchedElsewhere
  BY <1>4, SwitchedView DEF SwitchedElsewhere
<1>5. CASE PauseReached
  BY <1>5 DEF PauseReached, Views
<1>6. CASE Land
  BY <1>6 DEF Land, Views
<1>7. CASE EndedElsewhere
  BY <1>7, EndedView DEF EndedElsewhere
<1>8. CASE Connect
  <2>1. PICK a \in Agents : /\ sess' = [sess EXCEPT !.up[a] = ~@]
                            /\ news' = Append(news, [kind |-> IF sess.up[a] THEN "down" ELSE "up", agent |-> a])
    BY <1>8, ScenesAssumption DEF Connect
  <2>2. [kind |-> IF sess.up[a] THEN "down" ELSE "up", agent |-> a] \in Changes
    BY DEF Changes
  <2>3. news' \in Seq(Changes)
    BY <2>1, <2>2, AppendOf
  <2>4. sess' \in Views /\ sess'.round = sess.round /\ sess'.mode = sess.mode /\ sess'.driver = sess.driver
    BY <2>1 DEF Views
  <2>5. bus' = bus
    BY <1>8 DEF Connect
  <2> QED BY <2>3, <2>4, <2>5
<1>9. CASE Speak
  <2>1. PICK size \in scene.sizes, word \in BOOLEAN :
          bus' = Append(bus, [kind |-> "text", size |-> size, word |-> word])
    BY <1>9 DEF Speak
  <2>2. [kind |-> "text", size |-> size, word |-> word] \in Events
    BY DEF Events, Texts
  <2>3. Len(bus) < scene.buffer /\ UNCHANGED <<sess, news>> /\ scene.buffer \in Nat
    BY <1>9, ScenesAssumption DEF Speak
  <2>4. bus' \in Seq(Events) /\ Len(bus') = Len(bus) + 1 /\ Len(bus) \in Nat
    BY <2>1, <2>2, AppendOf
  <2> QED BY <2>3, <2>4
<1> QED BY <1>1, <1>2, <1>3, <1>4, <1>5, <1>6, <1>7, <1>8, <1>9 DEF SessionSteps

\* Any View the interface reads is of the session, and so is the driver in it.
LEMMA ViewStep ==
  ASSUME UInv, InterfaceNext
  PROVE  ViewTypes' /\ (live.driver = sess.driver => live'.driver = sess'.driver \/ ApplyDriver)
<1> USE DEF UInv
<1>0. heard \in Hearing
  BY DEF ViewTypes
<1>1. CASE PanelSteps \/ DriverPanelSteps \/ BesideSteps \/ FrameSteps
  BY <1>1, ViewFrame DEF ViewTypes
<1>2. CASE EndSteps
  <2>1. PICK how \in {"new", "recall", "resume"} : RequestEnd(how)
    BY <1>2 DEF EndSteps, ConfirmRecall, RequestNewSession, ChooseSession
  <2>2. UNCHANGED <<scene, live, heard, news>>
    BY <1>2 DEF EndSteps, ConfirmRecall, RequestNewSession, ChooseSession
  <2> QED BY <2>1, <2>2, EndedView DEF ViewTypes
<1>3. CASE SessionSteps
  <2>1. UNCHANGED <<scene, live, heard>>
    BY <1>3 DEF SessionSteps, SessionAlone, Work, Task, Finish, SwitchedElsewhere, PauseReached, Land, EndedElsewhere,
       Connect, Speak
  <2> QED BY <1>3, <2>1, SessionTypes DEF ViewTypes
<1>4. CASE ReadSteps
  <2>1. UNCHANGED <<scene, sess, bus, news>> /\ live' = sess /\ heard' = [heard EXCEPT !.announced = Announced(sess)]
    BY <1>4 DEF ReadSteps, Tick, Refresh, LeaveNative, sessionVars
  <2> QED BY <2>1, AnnouncedAgents DEF ViewTypes
<1>5. CASE Publish
  <2>1. /\ news # << >> /\ bus' = Emitted(Head(news)) /\ news' = Tail(news) /\ UNCHANGED <<scene, sess, live>>
        /\ heard' = [heard EXCEPT !.missed = @ \/ Len(bus) = scene.buffer]
    BY <1>5 DEF Publish
  <2>2. Head(news) \in Changes /\ news' \in Seq(Changes)
    BY <2>1, TailOf DEF ViewTypes
  <2>3. Emitted(Head(news)) \in Seq(Events) /\ Len(Emitted(Head(news))) <= scene.buffer
    BY <2>2, EmittedQueue DEF Events
  <2>4. heard' \in Hearing
    BY <1>0, <2>1 DEF Hearing
  <2> QED BY <2>1, <2>2, <2>3, <2>4 DEF ViewTypes, Hearing
<1>6. CASE HandleEvent
  <2>1. /\ bus # << >> /\ bus' = Tail(bus) /\ live' = sess /\ heard' = Route(Head(bus))
        /\ UNCHANGED <<scene, sess, news>>
    BY <1>6 DEF HandleEvent
  <2>2. Head(bus) \in Events /\ bus' \in Seq(Events) /\ Len(bus') = Len(bus) - 1 /\ Len(bus) \in Nat
    BY <2>1, TailOf DEF ViewTypes
  <2>3. Route(Head(bus)) \in Hearing /\ scene.buffer \in Nat
    BY <2>2, RoutedHearing, ScenesAssumption DEF ViewTypes
  <2> QED BY <2>1, <2>2, <2>3 DEF ViewTypes, Hearing
<1>7. ASSUME NEW s \in Views, s.round \subseteq Holds(s.mode), sess' = s, HandledWith(s), bus' = bus,
             news' \in Seq(Changes), scene' = scene
      PROVE  ViewTypes' /\ live'.driver = sess'.driver
  BY <1>7, AnnouncedAgents DEF HandledWith, ViewTypes
<1>8. ASSUME NEW seen, NEW target \in Modes, NEW loss, ApplyModeSwitch(seen, target, loss)
      PROVE  ViewTypes' /\ live'.driver = sess'.driver
  <2>1. /\ sess' = Switched(sess, target) /\ HandledWith(Switched(sess, target)) /\ UNCHANGED <<scene, bus, news>>
    BY <1>8 DEF ApplyModeSwitch
  <2> QED BY <1>7, <2>1, SwitchedView DEF ViewTypes
<1>9. CASE ChooseMode
  <2>1. PICK target \in Modes : RequestModeSwitch(target)
    BY <1>9 DEF ChooseMode
  <2>2. CASE ApplyModeSwitch(live, target, {})
    BY <1>8, <2>2
  <2>3. CASE ~ApplyModeSwitch(live, target, {})
    BY <2>1, <2>3 DEF RequestModeSwitch, sessionVars, ViewTypes
  <2> QED BY <2>2, <2>3
<1>10. CASE ConfirmMode
  <2>1. ApplyModeSwitch(panel.seen, panel.target, panel.told) /\ panel.target \in Modes
    BY <1>10 DEF ConfirmMode, Asked, Named
  <2> QED BY <1>8, <2>1
<1>11. CASE PauseVerb
  <2>1. PICK p \in {"running", "pausing"} : Verb(TRUE, [sess EXCEPT !.pause = p]) \/ UNCHANGED <<sess, live, heard>>
    BY <1>11 DEF PauseVerb, Verb
  <2>2. UNCHANGED <<scene, bus, news>>
    BY <1>11 DEF PauseVerb, Verb
  <2>3. CASE Verb(TRUE, [sess EXCEPT !.pause = p])
    <3>1. [sess EXCEPT !.pause = p] \in Views /\ [sess EXCEPT !.pause = p].round = sess.round
          /\ [sess EXCEPT !.pause = p].mode = sess.mode
      BY DEF ViewTypes, Views
    <3> QED BY <1>7, <2>2, <2>3, <3>1 DEF Verb, ViewTypes
  <2>4. CASE UNCHANGED <<sess, live, heard>>
    BY <2>2, <2>4 DEF ViewTypes
  <2> QED BY <2>1, <2>3, <2>4
<1>12. CASE ApplyDriver
  <2>1. PICK d \in DriverNames :
          \/ sess' = [sess EXCEPT !.driver[drivers.agent] = d] /\ HandledWith([sess EXCEPT !.driver[drivers.agent] = d])
          \/ UNCHANGED <<sess, live, heard>>
    BY <1>12 DEF ApplyDriver, DriverNames
  <2>2. UNCHANGED <<scene, bus, news>>
    BY <1>12 DEF ApplyDriver
  <2>3. [sess EXCEPT !.driver[drivers.agent] = d] \in Views
        /\ [sess EXCEPT !.driver[drivers.agent] = d].round = sess.round
        /\ [sess EXCEPT !.driver[drivers.agent] = d].mode = sess.mode
    BY DEF ViewTypes, Views
  <2> QED BY <1>7, <1>12, <2>1, <2>2, <2>3 DEF ViewTypes
<1>13. CASE RequestRestart
  <2>1. PICK a \in Agents : /\ sess' = [sess EXCEPT !.up[a] = FALSE] /\ HandledWith([sess EXCEPT !.up[a] = FALSE])
                            /\ news' = Append(news, [kind |-> "down", agent |-> a])
    BY <1>13, ScenesAssumption DEF RequestRestart, ViewTypes
  <2>2. UNCHANGED <<scene, bus>>
    BY <1>13 DEF RequestRestart
  <2>3. [kind |-> "down", agent |-> a] \in Changes
    BY DEF Changes
  <2>4. news' \in Seq(Changes)
    BY <2>1, <2>3, AppendOf DEF ViewTypes
  <2>5. [sess EXCEPT !.up[a] = FALSE] \in Views /\ [sess EXCEPT !.up[a] = FALSE].round = sess.round
        /\ [sess EXCEPT !.up[a] = FALSE].mode = sess.mode
    BY DEF ViewTypes, Views
  <2> QED BY <1>7, <2>1, <2>2, <2>4, <2>5 DEF ViewTypes
<1>14. CASE ApplyPickerModel
  <2>1. HandledWith(sess) /\ UNCHANGED <<scene, sess, bus, news>>
    BY <1>14 DEF ApplyPickerModel, sessionVars
  <2> QED BY <1>7, <2>1 DEF ViewTypes
<1> QED BY <1>1, <1>2, <1>3, <1>4, <1>5, <1>6, <1>9, <1>10, <1>11, <1>12, <1>13, <1>14, StepKinds

\* A request is made, and its place is free.
LEMMA StartedCall ==
  ASSUME BesideTypes, ViewTypes, NEW call \in Requests, Started(call)
  PROVE  calls' \in Seq(Requests) /\ Len(calls') <= scene.calls /\ calls' = Append(calls, call)
<1>1. scene.calls \in Nat /\ Len(calls) < scene.calls /\ calls' = Append(calls, call)
  BY ScenesAssumption DEF Started, ViewTypes
<1>2. calls' \in Seq(Requests) /\ Len(calls') = Len(calls) + 1 /\ Len(calls) \in Nat
  BY <1>1, AppendOf DEF BesideTypes, CallTypes, PartTypes
<1> QED BY <1>1, <1>2

LEMMA LoadedPicker ==
  ASSUME BesideTypes, ViewTypes, NEW a \in Agents, Load(Targeted(a))
  PROVE  /\ picker' \in PickerType /\ calls' \in Seq(Requests) /\ Len(calls') <= scene.calls
         /\ picker'.agent = a /\ picker'.of = a
         /\ calls' = calls \/ calls' = Append(calls, [kind |-> "models", agent |-> a])
         /\ picker'.loaded => picker.loaded /\ picker.of = a /\ picker'.all = picker.all
<1> DEFINE p == Targeted(a)
<1>1. p \in PickerType /\ p.agent = a /\ p.of = a /\ (p.loaded => picker.loaded /\ picker.of = a /\ p.all = picker.all)
  BY DEF Targeted, BesideTypes, PartTypes, PickerType
<1> HIDE DEF p
<1>2. Load(p)
  BY DEF p
<1>3. CASE picker' = p /\ UNCHANGED calls
  BY <1>1, <1>3 DEF BesideTypes, CallTypes, PartTypes
<1>4. CASE picker' = [p EXCEPT !.loading = TRUE] /\ Started([kind |-> "models", agent |-> p.agent])
  <2>1. [kind |-> "models", agent |-> p.agent] \in Requests
    BY <1>1 DEF Requests
  <2>2. picker' \in PickerType /\ picker'.agent = a /\ picker'.of = a
        /\ picker'.loaded = p.loaded /\ picker'.all = p.all
    BY <1>1, <1>4 DEF PickerType
  <2>3. calls' \in Seq(Requests) /\ Len(calls') <= scene.calls
        /\ calls' = Append(calls, [kind |-> "models", agent |-> a])
    BY <1>1, <1>4, <2>1, StartedCall
  <2> QED BY <1>1, <2>2, <2>3
<1> QED BY <1>2, <1>3, <1>4 DEF Load

LEMMA LoadedType ==
  ASSUME BesideTypes, NEW r \in Results, r.kind = "models"
  PROVE  Loaded(r) \in PickerType
<1>1. picker \in PickerType
  BY DEF BesideTypes, PartTypes, PickerType
<1>2. r.agent \in Agents /\ r.failed \in BOOLEAN /\ r.catalogue \in Lists
  BY DEF Results, Outcomes
<1> QED BY <1>1, <1>2 DEF Loaded, PickerType

\* The call that returns, what it did to the pairing and what it answers.
LEMMA ReturnTypes ==
  ASSUME BesideTypes, ViewTypes, Return
  PROVE  /\ calls' \in Seq(Requests) /\ Len(calls') <= scene.calls
         /\ async' \in Seq(Results) /\ Len(async') <= scene.channel
         /\ remote' \in PairingType
<1>0. scene.channel \in Nat /\ scene.calls \in Nat
  BY ScenesAssumption DEF ViewTypes
<1>1. PICK i \in DOMAIN calls :
        ReadCatalogue(i) \/ ReadDetails(i) \/ StartPairing(i) \/ StopPairing(i) \/ AnswerPairing(i)
  BY DEF Return
<1>2. calls[i] \in Requests
  BY DEF BesideTypes, CallTypes, PartTypes
<1>3. ASSUME NEW r \in Results, NEW w, Answered(i, r, w), remote' = remote
      PROVE  /\ calls' \in Seq(Requests) /\ Len(calls') <= scene.calls
             /\ async' \in Seq(Results) /\ Len(async') <= scene.channel
             /\ remote' \in PairingType
  <2>1. calls' = RemoveAt(calls, i) /\ async' = IF Len(async) < scene.channel THEN Append(async, r) ELSE async
    BY <1>3 DEF Answered
  <2>2. calls' \in Seq(Requests) /\ Len(calls') = Len(calls) - 1 /\ Len(calls) \in Nat
    BY <2>1, RemoveOf DEF BesideTypes, CallTypes, PartTypes
  <2>3. Append(async, r) \in Seq(Results) /\ Len(Append(async, r)) = Len(async) + 1 /\ Len(async) \in Nat
    BY AppendOf DEF BesideTypes, CallTypes, PartTypes
  <2> QED BY <1>0, <1>3, <2>1, <2>2, <2>3 DEF BesideTypes, CallTypes, PartTypes
<1>4. ASSUME NEW r \in Outcomes, Acted(i, r), remote' \in PairingType
      PROVE  /\ calls' \in Seq(Requests) /\ Len(calls') <= scene.calls
             /\ async' \in Seq(Results) /\ Len(async') <= scene.channel
             /\ remote' \in PairingType
  <2>1. [kind |-> "answer", result |-> r] \in Requests
    BY DEF Requests
  <2>2. calls' \in Seq(Requests) /\ Len(calls') = Len(calls)
    BY <1>4, <2>1 DEF Acted, BesideTypes, CallTypes, PartTypes
  <2> QED BY <1>4, <2>2 DEF Acted, BesideTypes, CallTypes, PartTypes
<1>5. CASE ReadCatalogue(i)
  <2>1. PICK failed \in BOOLEAN :
          Answered(i, [kind |-> "models", agent |-> calls[i].agent, failed |-> failed,
                       catalogue |-> Catalogue(calls[i].agent)], FALSE)
    BY <1>5 DEF ReadCatalogue
  <2>2. calls[i].agent \in Agents
    BY <1>2, <1>5 DEF ReadCatalogue, Requests
  <2>3. Catalogue(calls[i].agent) \in Lists
    BY <2>2 DEF Catalogue, Lists, ViewTypes, Views
  <2>4. [kind |-> "models", agent |-> calls[i].agent, failed |-> failed,
         catalogue |-> Catalogue(calls[i].agent)] \in Results
    BY <2>2, <2>3 DEF Results
  <2>5. remote' = remote
    BY <1>5 DEF ReadCatalogue
  <2> QED BY <1>3, <2>1, <2>4, <2>5
<1>6. CASE ReadDetails(i)
  <2>1. [kind |-> "details"] \in Results
    BY DEF Results
  <2> QED BY <1>3, <1>6, <2>1 DEF ReadDetails
<1>7. CASE StartPairing(i)
  <2>1. CASE Acted(i, [kind |-> "started", failed |-> TRUE, code |-> 0]) /\ UNCHANGED remote
    <3>1. [kind |-> "started", failed |-> TRUE, code |-> 0] \in Outcomes
      BY DEF Outcomes
    <3> QED BY <1>4, <2>1, <3>1 DEF BesideTypes, CallTypes, PartTypes
  <2>2. CASE \E code \in Nat : remote' = [remote EXCEPT !.on = TRUE, !.code = code]
                               /\ Acted(i, [kind |-> "started", failed |-> FALSE, code |-> code])
    <3>1. PICK code \in Nat : remote' = [remote EXCEPT !.on = TRUE, !.code = code]
                               /\ Acted(i, [kind |-> "started", failed |-> FALSE, code |-> code])
      BY <2>2
    <3>2. [kind |-> "started", failed |-> FALSE, code |-> code] \in Outcomes
      BY DEF Outcomes
    <3>3. remote' \in PairingType
      BY <3>1 DEF BesideTypes, PartTypes, PairingType
    <3> QED BY <1>4, <3>1, <3>2, <3>3
  <2>3. remote.code \in Nat /\ remote.code + 1 \in Nat
    BY DEF BesideTypes, PartTypes, PairingType
  <2> QED BY <1>7, <2>1, <2>2, <2>3 DEF StartPairing
<1>8. CASE StopPairing(i)
  <2>1. [kind |-> "stopped", failed |-> FALSE] \in Outcomes
    BY DEF Outcomes
  <2>2. remote' \in PairingType
    BY <1>8 DEF StopPairing, BesideTypes, PartTypes, PairingType
  <2> QED BY <1>4, <1>8, <2>1, <2>2 DEF StopPairing
<1>9. CASE AnswerPairing(i)
  <2>1. calls[i].result \in Results
    BY <1>2, <1>9 DEF AnswerPairing, Requests, Results
  <2> QED BY <1>3, <1>9, <2>1 DEF AnswerPairing
<1> QED BY <1>1, <1>5, <1>6, <1>7, <1>8, <1>9

LEMMA ScreenStep ==
  ASSUME UInv, InterfaceNext
  PROVE  screen' \in ScreenType
<1> USE DEF ScreenType
<1>0. screen \in ScreenType
  BY DEF UInv, BesideTypes, PartTypes
<1>1. CASE PanelSteps
  BY <1>0, <1>1 DEF PanelSteps, CloseOverlay, OpenModePicker, ConfirmResume, ConfirmQuit, RequestQuit,
     RequestRecall, OpenSessions, Handled, HandledStopping
<1>2. CASE DriverPanelSteps
  BY <1>0, <1>2 DEF DriverPanelSteps, OpenDriverPicker, SwitchDriverAgent, Handled
<1>3. CASE BesideSteps
  BY <1>0, <1>3 DEF BesideSteps, OpenPicker, SwitchModelAgent, OpenDetails, RequestPairing, Return, HandleAsync, Handled
<1>4. CASE Draw \/ Leave \/ EnterNative
  BY <1>0, <1>4 DEF Draw, Leave, EnterNative
<1>5. CASE PaneKey
  BY <1>0, <1>5, PaneAlone DEF Handled
<1>6. CASE EndSteps
  BY <1>0, <1>6 DEF EndSteps, ConfirmRecall, RequestNewSession, ChooseSession, Handled, HandledStopping
<1>7. CASE SessionSteps
  BY <1>0, <1>7 DEF SessionSteps, SessionAlone, Work, Task, Finish, SwitchedElsewhere, PauseReached, Land,
     EndedElsewhere, Connect, Speak
<1>8. CASE ReadSteps \/ HandleEvent \/ Publish
  BY <1>0, <1>8 DEF ReadSteps, Tick, Refresh, LeaveNative, HandleEvent, Publish, Stops
<1>9. CASE ChooseMode \/ ConfirmMode
  BY <1>0, <1>9 DEF ChooseMode, RequestModeSwitch, ConfirmMode, ApplyModeSwitch, Handled, HandledWith, Stops
<1>10. CASE PauseVerb
  <2>1. Handled \/ \E s : HandledWith(s)
    BY <1>10 DEF PauseVerb, Verb
  <2> QED BY <1>0, <2>1 DEF Handled, HandledWith, Stops
<1>11. CASE ApplyDriver \/ RequestRestart \/ ApplyPickerModel
  <2>1. Handled \/ \E s : HandledWith(s)
    BY <1>11 DEF ApplyDriver, RequestRestart, ApplyPickerModel
  <2> QED BY <1>0, <2>1 DEF Handled, HandledWith, Stops
<1> QED BY <1>1, <1>2, <1>3, <1>4, <1>5, <1>6, <1>7, <1>8, <1>9, <1>10, <1>11, StepKinds DEF FrameSteps

LEMMA BesideStep ==
  ASSUME UInv, InterfaceNext
  PROVE  BesideTypes'
<1> USE DEF UInv
<1>0. screen' \in ScreenType
  BY ScreenStep
<1>1. CASE UNCHANGED <<scene, calls, async, remote, picker, drivers>>
  BY <1>0, <1>1 DEF BesideTypes, CallTypes, PartTypes
<1>2. CASE DriverPanelSteps
  <2>1. UNCHANGED <<scene, calls, async, remote, picker>>
    BY <1>2 DEF DriverPanelSteps, OpenDriverPicker, SwitchDriverAgent, callVars
  <2>2. \A a \in Agents : Other(a) \in Agents /\ live.driver[a] \in DriverNames
    <3>1. \A a \in Agents : \E b \in Agents : b # a
      BY DEF Agents
    <3> QED BY <3>1 DEF Other, ViewTypes, Views
  <2>3. drivers' \in DriverPickerType
    BY <1>2, <2>2 DEF DriverPanelSteps, OpenDriverPicker, SwitchDriverAgent, BesideTypes, PartTypes,
       DriverPickerType
  <2> QED BY <1>0, <2>1, <2>3 DEF BesideTypes, CallTypes, PartTypes
<1>3. CASE ApplyDriver
  <2>1. UNCHANGED <<scene, calls, async, remote, picker>>
    BY <1>3 DEF ApplyDriver, callVars
  <2>2. drivers' \in DriverPickerType
    BY <1>3 DEF ApplyDriver, BesideTypes, PartTypes, DriverPickerType, DriverNames
  <2> QED BY <1>0, <2>1, <2>2 DEF BesideTypes, CallTypes, PartTypes
<1>4. CASE OpenPicker \/ SwitchModelAgent
  <2>1. UNCHANGED <<scene, drivers, async, remote>>
    BY <1>4 DEF OpenPicker, SwitchModelAgent
  <2>2. PICK a \in Agents : Load(Targeted(a))
    <3>1. \A a \in Agents : Other(a) \in Agents
      BY DEF Agents, Other
    <3> QED BY <1>4, <3>1 DEF OpenPicker, SwitchModelAgent, BesideTypes, PartTypes, PickerType
  <2> QED BY <1>0, <2>1, <2>2, LoadedPicker DEF BesideTypes, CallTypes, PartTypes
<1>5. CASE OpenDetails \/ RequestPairing
  <2>1. UNCHANGED <<scene, picker, drivers, async, remote>>
    BY <1>5 DEF OpenDetails, RequestPairing, panelVars
  <2>2. PICK call \in Requests : Started(call)
    BY <1>5 DEF OpenDetails, RequestPairing, Requests
  <2> QED BY <1>0, <2>1, <2>2, StartedCall DEF BesideTypes, CallTypes, PartTypes
<1>6. CASE Return
  <2>1. UNCHANGED <<scene, picker, drivers>>
    BY <1>6 DEF Return, panelVars
  <2> QED BY <1>0, <1>6, <2>1, ReturnTypes DEF BesideTypes, CallTypes, PartTypes
<1>7. CASE HandleAsync
  <2>1. /\ async # << >> /\ async' = Tail(async) /\ UNCHANGED <<scene, drivers, calls>>
        /\ picker' = IF Head(async).kind = "models" THEN Loaded(Head(async)) ELSE picker
        /\ remote' = IF Head(async).kind = "started" /\ ~Head(async).failed
                     THEN [remote EXCEPT !.shown = Head(async).code] ELSE remote
    BY <1>7 DEF HandleAsync
  <2>2. Head(async) \in Results /\ async' \in Seq(Results) /\ Len(async') = Len(async) - 1 /\ Len(async) \in Nat
    BY <2>1, TailOf DEF BesideTypes, CallTypes, PartTypes
  <2>3. picker' \in PickerType
    BY <2>1, <2>2, LoadedType DEF BesideTypes, PartTypes
  <2>4. Head(async).kind = "started" => Head(async).code \in Nat
    BY <2>2 DEF Results, Outcomes
  <2>5. remote' \in PairingType
    BY <2>1, <2>4 DEF BesideTypes, PartTypes, PairingType
  <2>6. scene.channel \in Nat
    BY ScenesAssumption DEF ViewTypes
  <2> QED BY <1>0, <2>1, <2>2, <2>3, <2>5, <2>6 DEF BesideTypes, CallTypes, PartTypes
<1> QED BY <1>1, <1>2, <1>3, <1>4, <1>5, <1>6, <1>7, BesideFrame, StepKinds DEF BesideSteps

-----------------------------------------------------------------------------
(* What is discarded was asked about.                                       *)

LEMMA LossThings ==
  ASSUME NEW v \in Views, NEW target
  PROVE  ModeSwitchLoss(v, target) \in SUBSET Things
BY DEF ModeSwitchLoss, Views

\* The question names all that a switch would take of the View it was made from.
LEMMA NothingUnasked ==
  ASSUME ViewTypes, NEW seen \in Views, NEW target \in Modes
  PROVE  Excused(Unasked(seen, target, ModeSwitchLoss(seen, target)))
<1> SUFFICES ASSUME seen.mode = sess.mode, seen.phase = sess.phase, NEW thing \in Discarded(sess, target),
                    thing \in seen.round, thing \notin ModeSwitchLoss(seen, target)
             PROVE  \/ thing = "claim" /\ sess.mode = "FAST" /\ target = "LOOP"
                    \/ thing = "inbox" /\ sess.mode = "LOOP"
  BY DEF Unasked, Late, Excused, LeftOut
<1>1. target # sess.mode /\ sess.phase # "done" /\ ~Escalates(sess, target) /\ thing \in sess.round
  BY DEF Discarded
<1>2. Escalates(seen, target) <=> Escalates(sess, target)
  BY DEF Escalates
<1>3. thing \notin {"queue", "plan", "signatures"} /\ ~(thing = "claim" /\ sess.mode = "FAST" /\ target = "STEP")
  BY <1>1, <1>2 DEF ModeSwitchLoss
<1>4. thing \in Holds(sess.mode) /\ sess.mode \in Modes
  BY <1>1 DEF ViewTypes, Views
<1>5. CASE sess.mode = "FAST"
  <2>1. thing = "claim" /\ target # "GOAL"
    BY <1>1, <1>4, <1>5 DEF Holds, Escalates
  <2>2. target = "LOOP"
    BY <1>1, <1>3, <1>5, <2>1 DEF Modes
  <2> QED BY <1>5, <2>1, <2>2
<1>6. CASE sess.mode = "LOOP"
  <2>1. thing = "inbox"
    BY <1>4, <1>6 DEF Holds
  <2> QED BY <1>6, <2>1
<1>7. CASE sess.mode \in {"GOAL", "STEP"}
  BY <1>3, <1>4, <1>7 DEF Holds
<1> QED BY <1>4, <1>5, <1>6, <1>7 DEF Modes

LEMMA PlainPanel ==
  \A kind \in {"none", "modes", "sessions", "drivers", "models", "details", "qrcode"} :
     [kind |-> kind] \in Panels /\ [kind |-> kind].kind # "confirm"
BY DEF Panels

LEMMA AskedPanel ==
  ASSUME ViewTypes, NEW what \in {"resume", "quit", "recall", "mode"}, NEW target \in Modes \cup {""},
         NEW loss \in SUBSET Things
  PROVE  Confirm(what, target, loss) \in Panels
BY DEF Confirm, Panels, Questions, ViewTypes

LEMMA NamedStep ==
  ASSUME UInv, InterfaceNext
  PROVE  Named'
<1> USE DEF UInv
<1>0. /\ panel \in Panels /\ Excused(unasked)
      /\ panel.kind = "confirm" /\ panel.what = "mode" =>
           panel.target \in Modes /\ panel.told = ModeSwitchLoss(panel.seen, panel.target)
  BY DEF Named
<1>1. CASE UNCHANGED <<panel, unasked>>
  BY <1>0, <1>1 DEF Named
<1>2. ASSUME NEW kind \in {"none", "modes", "sessions", "drivers", "models", "details", "qrcode"},
             panel' = [kind |-> kind], Excused(unasked')
      PROVE  Named'
  BY <1>2, PlainPanel DEF Named
<1>3. ASSUME NEW what \in {"resume", "quit", "recall"}, NEW target \in Modes \cup {""},
             panel' = Confirm(what, target, {}), Excused(unasked')
      PROVE  Named'
  <2>1. panel' \in Panels
    BY <1>3, AskedPanel
  <2>2. panel'.what # "mode"
    BY <1>3 DEF Confirm
  <2> QED BY <1>3, <2>1, <2>2 DEF Named
<1>4. ASSUME NEW seen \in Views, NEW target \in Modes,
             ApplyModeSwitch(seen, target, ModeSwitchLoss(seen, target))
      PROVE  Named'
  <2>1. unasked' = Unasked(seen, target, ModeSwitchLoss(seen, target))
    BY <1>4 DEF ApplyModeSwitch
  <2>2. panel' = Confirm("resume", target, {}) \/ panel' = [kind |-> "none"]
    BY <1>4 DEF ApplyModeSwitch, Closed
  <2> QED BY <1>2, <1>3, <2>1, <2>2, NothingUnasked
<1>5. CASE PanelSteps
  <2>1. unasked' = unasked
    BY <1>5 DEF PanelSteps, CloseOverlay, OpenModePicker, ConfirmResume, ConfirmQuit, RequestQuit, RequestRecall,
       OpenSessions
  <2>2. \/ panel' = panel \/ panel' = Confirm("quit", "", {}) \/ panel' = Confirm("recall", "", {})
        \/ \E kind \in {"none", "modes", "sessions"} : panel' = [kind |-> kind]
    BY <1>5 DEF PanelSteps, CloseOverlay, OpenModePicker, ConfirmResume, ConfirmQuit, RequestQuit, RequestRecall,
       OpenSessions, Opened, Closed
  <2> QED BY <1>0, <1>1, <1>2, <1>3, <2>1, <2>2
<1>6. CASE DriverPanelSteps \/ ApplyDriver \/ ApplyPickerModel \/ EndSteps
  <2>1. unasked' = unasked
    BY <1>6 DEF DriverPanelSteps, OpenDriverPicker, SwitchDriverAgent, ApplyDriver, ApplyPickerModel, EndSteps,
       ConfirmRecall, RequestNewSession, ChooseSession
  <2>2. panel' = panel \/ \E kind \in {"none", "drivers"} : panel' = [kind |-> kind]
    BY <1>6 DEF DriverPanelSteps, OpenDriverPicker, SwitchDriverAgent, ApplyDriver, ApplyPickerModel, EndSteps,
       ConfirmRecall, RequestNewSession, ChooseSession, Opened, Closed, panelVars
  <2> QED BY <1>0, <1>1, <1>2, <2>1, <2>2
<1>7. CASE BesideSteps
  <2>1. unasked' = unasked
    BY <1>7 DEF BesideSteps, OpenPicker, SwitchModelAgent, OpenDetails, RequestPairing, Return, HandleAsync
  <2>2. panel' = panel \/ \E kind \in {"none", "models", "details", "qrcode"} : panel' = [kind |-> kind]
    BY <1>7 DEF BesideSteps, OpenPicker, SwitchModelAgent, OpenDetails, RequestPairing, Return, HandleAsync,
       PanelAfter, Opened, Closed, panelVars
  <2> QED BY <1>0, <1>1, <1>2, <2>1, <2>2
<1>8. CASE ChooseMode
  <2>1. PICK target \in Modes : RequestModeSwitch(target)
    BY <1>8 DEF ChooseMode
  <2>2. live \in Views
    BY DEF ViewTypes
  <2>3. CASE target = live.mode /\ panel' = Closed /\ UNCHANGED unasked
    BY <1>0, <1>2, <2>3 DEF Closed
  <2>4. CASE panel' = Confirm("mode", target, ModeSwitchLoss(live, target)) /\ UNCHANGED unasked
    <3>1. panel' \in Panels
      BY <2>2, <2>4, AskedPanel, LossThings
    <3>2. panel'.target = target /\ panel'.told = ModeSwitchLoss(live, target) /\ panel'.seen = live
      BY <2>4 DEF Confirm
    <3> QED BY <1>0, <2>4, <3>1, <3>2 DEF Named
  <2>5. CASE ModeSwitchLoss(live, target) = {} /\ ApplyModeSwitch(live, target, {})
    <3>1. ApplyModeSwitch(live, target, ModeSwitchLoss(live, target))
      BY <2>5
    <3> QED BY <1>4, <2>2, <3>1
  <2> QED BY <2>1, <2>3, <2>4, <2>5 DEF RequestModeSwitch
<1>9. CASE ConfirmMode
  <2>1. panel.kind = "confirm" /\ panel.what = "mode" /\ ApplyModeSwitch(panel.seen, panel.target, panel.told)
    BY <1>9 DEF ConfirmMode, Asked
  <2>2. panel.seen \in Views
    BY <1>0, <2>1 DEF Panels, Questions
  <2>3. panel.target \in Modes /\ ApplyModeSwitch(panel.seen, panel.target, ModeSwitchLoss(panel.seen, panel.target))
    BY <1>0, <2>1
  <2> QED BY <1>4, <2>2, <2>3
<1> QED BY <1>1, <1>5, <1>6, <1>7, <1>8, <1>9, PanelFrame, StepKinds

LEMMA EmptyQueue ==
  ASSUME NEW S
  PROVE  << >> \in Seq(S) /\ Len(<< >>) = 0
OBVIOUS

LEMMA UInit ==
  ASSUME InterfaceInit
  PROVE  UInv
<1> USE DEF InterfaceInit
<1>1. PICK mode \in scene.modes, up \in [Agents -> BOOLEAN] :
        sess = [mode |-> mode, phase |-> "fresh", round |-> {}, pause |-> "running",
                driver |-> [a \in Agents |-> "pi"], up |-> up, landed |-> FALSE, ended |-> ""]
  OBVIOUS
<1>2. mode \in Modes
  BY <1>1, ScenesAssumption
<1>3. sess \in Views /\ sess.round \subseteq Holds(sess.mode)
  BY <1>1, <1>2 DEF Views, DriverNames
<1>4. scene.buffer \in Nat /\ scene.calls \in Nat /\ scene.channel \in Nat
  BY ScenesAssumption
<1>5. heard \in Hearing
  BY DEF Hearing
<1>6. bus = << >> /\ news = << >> /\ calls = << >> /\ async = << >> /\ scene \in Scenes /\ live = sess
  OBVIOUS
<1>7. << >> \in Seq(Events) /\ << >> \in Seq(Changes) /\ << >> \in Seq(Requests) /\ << >> \in Seq(Results)
      /\ Len(<< >>) = 0
  <2> HIDE DEF InterfaceInit
  <2> QED BY EmptyQueue
<1>8. ViewTypes
  <2> HIDE DEF InterfaceInit
  <2> QED BY <1>3, <1>4, <1>5, <1>6, <1>7 DEF ViewTypes
<1>9. PartTypes
  BY DEF PartTypes, PickerType, DriverPickerType, DriverNames, PairingType, ScreenType, Agents
<1>10. CallTypes
  <2> HIDE DEF InterfaceInit
  <2> QED BY <1>4, <1>6, <1>7 DEF CallTypes
<1>11. Named
  BY PlainPanel DEF Named, Closed, Excused
<1> QED BY <1>8, <1>9, <1>10, <1>11 DEF UInv, BesideTypes

LEMMA UStep ==
  ASSUME UInv, [InterfaceNext]_interfaceVars
  PROVE  UInv'
<1>1. CASE InterfaceNext
  BY <1>1, ViewStep, BesideStep, NamedStep DEF UInv
<1>2. CASE UNCHANGED interfaceVars
  BY <1>2 DEF interfaceVars, paneVars, sessionVars, panelVars, callVars, UInv, ViewTypes, BesideTypes, CallTypes,
     PartTypes, Named
<1> QED BY <1>1, <1>2

\* The records of the interface, its queues within their bounds, and questions that name
\* what a switch of the session they were made from would take.
THEOREM InterfaceIsTyped == InterfaceSpec => []UInv
<1>1. UInv /\ [InterfaceNext]_interfaceVars => UInv'
  BY UStep
<1> QED BY <1>1, UInit, PTL DEF InterfaceSpec

\* modeSwitchLoss against switchModeLocked: of the View the question was made from, a
\* confirmed switch takes only what it named or is known to leave out.
THEOREM LossIsConfirmedHolds == InterfaceSpec => []LossIsConfirmed
<1>1. UInv => LossIsConfirmed
  <2> SUFFICES ASSUME UInv PROVE LossIsConfirmed
    OBVIOUS
  <2>1. sess.mode \in Modes /\ sess.round \subseteq UNION {Holds(m) : m \in Modes}
    BY DEF UInv, ViewTypes, Views, Things
  <2>2. panel.kind \in {"none", "confirm", "modes", "sessions", "drivers", "models", "details", "qrcode"}
    BY DEF UInv, Named, Panels, Questions
  <2>3. Len(bus) <= scene.buffer /\ Len(async) <= scene.channel /\ Len(calls) <= scene.calls
    BY DEF UInv, ViewTypes, BesideTypes, CallTypes
  <2>4. screen.native \in Agents \cup {""} /\ heard.announced \subseteq Agents
    BY DEF UInv, ViewTypes, BesideTypes, PartTypes, ScreenType, Hearing
  <2>5. \A loss \in unasked : loss.late \/ LeftOut(loss)
    BY DEF UInv, Named, Excused
  <2> QED BY <2>1, <2>2, <2>3, <2>4, <2>5 DEF LossIsConfirmed, InterfaceTypeOK
<1> QED BY <1>1, InterfaceIsTyped, PTL

-----------------------------------------------------------------------------
(* The line about a connection.                                             *)

LEMMA WordOfOne ==
  ASSUME NEW e \in Events, NEW a
  PROVE  About(e, a) => e \in Changes
BY DEF About, Events, Texts, Pulse

\* Nothing happened to a connection.
LEMMA NoticesKept ==
  ASSUME ViewTypes, Notices, sess'.up = sess.up, news' = news, NEW e \in Events, e \notin Changes,
         bus' = bus \/ bus' = Append(bus, e),
         heard'.announced \subseteq heard.announced, heard'.told = heard.told, heard'.missed = heard.missed
  PROVE  Notices'
<1>1. ASSUME NEW a, NEW q
      PROVE  LastAgrees(q, a, sess) => LastAgrees(q, a, sess')
  BY DEF LastAgrees
<1>2. ASSUME NEW a \in Agents, Followed(a)
      PROVE  Followed(a)'
  <2>1. ~About(e, a) /\ bus \in Seq(Events)
    BY WordOfOne DEF ViewTypes
  <2>2. (Mentions(bus', a) <=> Mentions(bus, a)) /\ (LastAgrees(bus, a, sess) => LastAgrees(bus', a, sess))
    BY <2>1, OtherWord
  <2>3. LastAgrees(bus, a, sess) => LastAgrees(bus', a, sess')
    BY <1>1, <2>2
  <2>4. LastAgrees(news, a, sess')
    BY <1>1, <1>2 DEF Followed
  <2> QED BY <1>2, <2>2, <2>3, <2>4 DEF Followed
<1> QED BY <1>2 DEF Notices

\* A connection changed, and the word about it is the last one.
LEMMA NoticesNews ==
  ASSUME ViewTypes, Notices, NEW a0 \in Agents, NEW e \in Changes, e.agent = a0, news' = Append(news, e), bus' = bus,
         e.kind = "up" <=> sess'.up[a0], \A a \in Agents : a # a0 => sess'.up[a] = sess.up[a],
         heard'.announced \subseteq heard.announced, heard'.told = heard.told, heard'.missed = heard.missed
  PROVE  Notices'
<1>1. news \in Seq(Changes)
  BY DEF ViewTypes
<1>2. ASSUME NEW a \in Agents, a # a0, Followed(a)
      PROVE  Followed(a)'
  <2>1. ~About(e, a) /\ sess'.up[a] = sess.up[a]
    BY <1>2 DEF About
  <2>2. (Mentions(news', a) <=> Mentions(news, a)) /\ (LastAgrees(news, a, sess') => LastAgrees(news', a, sess'))
    BY <1>1, <2>1, OtherWord
  <2>3. \A q : LastAgrees(q, a, sess) => LastAgrees(q, a, sess')
    BY <2>1 DEF LastAgrees
  <2> QED BY <1>2, <2>1, <2>2, <2>3 DEF Followed
<1>3. Followed(a0)'
  <2>1. About(e, a0)
    BY DEF About, Changes
  <2>2. Mentions(news', a0) /\ LastAgrees(news', a0, sess')
    BY <1>1, <2>1, LastWord
  <2> QED BY <2>2 DEF Followed
<1> QED BY <1>2, <1>3 DEF Notices

LEMMA NoticesPublish ==
  ASSUME ViewTypes, Notices, Publish
  PROVE  Notices'
<1>1. /\ news # << >> /\ bus' = Emitted(Head(news)) /\ news' = Tail(news) /\ sess' = sess
      /\ heard' = [heard EXCEPT !.missed = @ \/ Len(bus) = scene.buffer]
  BY DEF Publish
<1>2. heard'.told = heard.told /\ heard'.announced = heard.announced
      /\ (~heard'.missed => ~heard.missed /\ Len(bus) # scene.buffer)
  BY <1>1 DEF ViewTypes, Hearing
<1>3. news \in Seq(Changes) /\ bus \in Seq(Events) /\ Head(news) \in Events
  BY <1>1, TailOf DEF ViewTypes, Events
<1>4. SUFFICES ASSUME ~heard'.missed, NEW a \in Agents
               PROVE  Followed(a)'
  BY <1>2 DEF Notices
<1>5. bus' = Append(bus, Head(news))
  <2>1. scene.buffer \in Nat /\ Len(bus) \in Nat /\ Len(bus) <= scene.buffer
    BY <1>3, ScenesAssumption DEF ViewTypes
  <2> QED BY <1>1, <1>2, <1>4, <2>1 DEF Emitted
<1>6. Followed(a)
  BY <1>2, <1>4 DEF Notices
<1>7. /\ LastAgrees(news', a, sess) /\ (Mentions(news', a) => Mentions(news, a))
      /\ (Mentions(news, a) /\ ~About(Head(news), a) => Mentions(news', a))
      /\ (~Mentions(news', a) /\ About(Head(news), a) => (Head(news).kind = "up" <=> sess.up[a]))
  BY <1>1, <1>3, <1>6, FirstWord DEF Followed
<1>8. CASE About(Head(news), a)
  <2>1. CASE Mentions(news', a)
    <3>1. Mentions(bus', a)
      <4>1. Len(bus) + 1 \in DOMAIN bus' /\ bus'[Len(bus) + 1] = Head(news)
        BY <1>3, <1>5, AppendOf
      <4> QED BY <1>8, <4>1 DEF Mentions
    <3> QED BY <1>1, <1>7, <2>1, <3>1 DEF Followed
  <2>2. CASE ~Mentions(news', a)
    <3>1. Mentions(bus', a) /\ LastAgrees(bus', a, sess)
      BY <1>3, <1>5, <1>7, <1>8, <2>2, LastWord
    <3> QED BY <1>1, <1>7, <3>1 DEF Followed
  <2> QED BY <2>1, <2>2
<1>9. CASE ~About(Head(news), a)
  <2>1. (Mentions(bus', a) <=> Mentions(bus, a)) /\ (LastAgrees(bus, a, sess) => LastAgrees(bus', a, sess))
    BY <1>3, <1>5, <1>9, OtherWord
  <2> QED BY <1>1, <1>2, <1>6, <1>7, <1>9, <2>1 DEF Followed
<1> QED BY <1>8, <1>9

\* A connection that was announced from the View is told once, as the event says.
LEMMA RoutedWord ==
  ASSUME ViewTypes, Notices, NEW e \in Events
  PROVE  /\ \A a \in Route(e).announced : Route(e).told[a] = "up"
         /\ Route(e).missed = heard.missed
         /\ \A a \in Agents : ~About(e, a) => Route(e).told[a] = heard.told[a]
         /\ \A a \in Agents : About(e, a) => (Route(e).told[a] = "up" <=> e.kind = "up")
<1>1. heard \in Hearing /\ Announced(sess) \subseteq heard.announced /\ Announced(sess) \subseteq Agents
  BY AnnouncedAgents DEF ViewTypes
<1>2. \A a \in Announced(sess) : heard.told[a] = "up"
  BY <1>1 DEF Notices
<1>3. CASE e.kind = "up" /\ e.agent \notin Announced(sess)
  <2>1. e \in Changes
    BY <1>3 DEF Events, Texts, Pulse
  <2>2. e.agent \in Agents
    BY <2>1 DEF Changes
  <2>3. Route(e) = [heard EXCEPT !.announced = Announced(sess) \cup {e.agent}, !.told[e.agent] = "up"]
    BY <1>3 DEF Route
  <2> QED BY <1>1, <1>2, <1>3, <2>2, <2>3 DEF Hearing, About
<1>4. CASE e.kind = "down"
  <2>1. e \in Changes
    BY <1>4 DEF Events, Texts, Pulse
  <2>2. e.agent \in Agents
    BY <2>1 DEF Changes
  <2>3. Route(e) = [heard EXCEPT !.announced = Announced(sess) \ {e.agent}, !.told[e.agent] = "down"]
    BY <1>4 DEF Route
  <2> QED BY <1>1, <1>2, <1>4, <2>2, <2>3 DEF Hearing, About
<1>5. CASE ~(e.kind = "up" /\ e.agent \notin Announced(sess)) /\ e.kind # "down"
  <2>1. Route(e) = [heard EXCEPT !.announced = Announced(sess)]
    BY <1>5 DEF Route
  <2>2. \A a \in Agents : About(e, a) => a \in Announced(sess) /\ e.kind = "up"
    BY <1>5 DEF About
  <2> QED BY <1>1, <1>2, <2>1, <2>2 DEF Hearing
<1> QED BY <1>3, <1>4, <1>5

LEMMA NoticesHandled ==
  ASSUME ViewTypes, Notices, HandleEvent
  PROVE  Notices'
<1>1. bus # << >> /\ bus' = Tail(bus) /\ heard' = Route(Head(bus)) /\ UNCHANGED <<sess, news>>
  BY DEF HandleEvent
<1>2. Head(bus) \in Events /\ bus \in Seq(Events)
  BY <1>1, TailOf DEF ViewTypes
<1>3. /\ \A a \in heard'.announced : heard'.told[a] = "up"
      /\ heard'.missed = heard.missed
      /\ \A a \in Agents : ~About(Head(bus), a) => heard'.told[a] = heard.told[a]
      /\ \A a \in Agents : About(Head(bus), a) => (heard'.told[a] = "up" <=> Head(bus).kind = "up")
  BY <1>1, <1>2, RoutedWord
<1>4. ASSUME NEW a \in Agents, Followed(a)
      PROVE  Followed(a)'
  <2>1. CASE Mentions(news, a)
    BY <1>1, <1>4, <2>1 DEF Followed
  <2>2. CASE ~Mentions(news, a)
    <3>1. LastAgrees(news, a, sess) /\ LastAgrees(bus, a, sess)
          /\ (~Mentions(bus, a) => (heard.told[a] = "up" <=> sess.up[a]))
      BY <1>4, <2>2 DEF Followed
    <3>2. /\ LastAgrees(bus', a, sess) /\ (Mentions(bus, a) /\ ~About(Head(bus), a) => Mentions(bus', a))
          /\ (~Mentions(bus', a) /\ About(Head(bus), a) => (Head(bus).kind = "up" <=> sess.up[a]))
      BY <1>1, <1>2, <3>1, FirstWord
    <3>3. ~Mentions(bus', a) => (heard'.told[a] = "up" <=> sess.up[a])
      <4>1. CASE About(Head(bus), a)
        BY <1>3, <3>2, <4>1
      <4>2. CASE ~About(Head(bus), a)
        BY <1>3, <3>1, <3>2, <4>2
      <4> QED BY <4>1, <4>2
    <3> QED BY <1>1, <3>1, <3>2, <3>3 DEF Followed
  <2> QED BY <2>1, <2>2
<1> QED BY <1>3, <1>4 DEF Notices

LEMMA NoticesStep ==
  ASSUME UInv, Notices, InterfaceNext
  PROVE  Notices'
<1> USE DEF UInv
<1>0. Pulse \in Events /\ Pulse \notin Changes
  BY DEF Events, Pulse, Changes
<1>1. ASSUME sess'.up = sess.up, news' = news, bus' = bus \/ bus' = Append(bus, Pulse),
             heard' = heard \/ \E s : heard' = [heard EXCEPT !.announced = Announced(s)]
      PROVE  Notices'
  <2>1. heard'.announced \subseteq heard.announced /\ heard'.told = heard.told /\ heard'.missed = heard.missed
    BY <1>1, AnnouncedAgents
  <2> QED BY <1>0, <1>1, <2>1, NoticesKept
<1>2. CASE PanelSteps \/ DriverPanelSteps \/ BesideSteps \/ FrameSteps
  BY <1>1, <1>2, ViewFrame
<1>3. CASE EndSteps
  <2>1. PICK how \in {"new", "recall", "resume"} : RequestEnd(how)
    BY <1>3 DEF EndSteps, ConfirmRecall, RequestNewSession, ChooseSession
  <2>2. UNCHANGED <<heard, news>>
    BY <1>3 DEF EndSteps, ConfirmRecall, RequestNewSession, ChooseSession
  <2> QED BY <1>1, <2>1, <2>2, EndedView
<1>4. CASE Work \/ Task \/ Finish \/ PauseReached \/ Land
  <2>1. UNCHANGED <<bus, news, heard>>
    BY <1>4 DEF SessionAlone, Work, Task, Finish, PauseReached, Land
  <2>2. sess'.up = sess.up
    BY <1>4 DEF Work, Task, Finish, PauseReached, Land, ViewTypes, Views
  <2> QED BY <1>1, <2>1, <2>2
<1>5. CASE SwitchedElsewhere
  <2>1. UNCHANGED <<bus, news, heard>>
    BY <1>5 DEF SessionAlone, SwitchedElsewhere
  <2>2. sess'.up = sess.up
    BY <1>5, SwitchedView DEF SwitchedElsewhere, ViewTypes
  <2> QED BY <1>1, <2>1, <2>2
<1>6. CASE EndedElsewhere
  <2>1. UNCHANGED <<news, heard>>
    BY <1>6 DEF SessionAlone, EndedElsewhere
  <2> QED BY <1>1, <1>6, <2>1, EndedView DEF EndedElsewhere
<1>7. CASE Connect
  <2>1. PICK a \in Agents : /\ sess' = [sess EXCEPT !.up[a] = ~@]
                            /\ news' = Append(news, [kind |-> IF sess.up[a] THEN "down" ELSE "up", agent |-> a])
    BY <1>7, ScenesAssumption DEF Connect, ViewTypes
  <2> DEFINE e == [kind |-> IF sess.up[a] THEN "down" ELSE "up", agent |-> a]
  <2>2. e \in Changes /\ e.agent = a /\ (e.kind = "up" <=> ~sess.up[a])
    BY DEF Changes
  <2>3. (sess'.up[a] <=> ~sess.up[a]) /\ \A b \in Agents : b # a => sess'.up[b] = sess.up[b]
    BY <2>1 DEF ViewTypes, Views
  <2>4. bus' = bus /\ heard' = heard
    BY <1>7 DEF Connect, SessionAlone
  <2> HIDE DEF e
  <2>5. news' = Append(news, e)
    BY <2>1 DEF e
  <2> QED BY <2>2, <2>3, <2>4, <2>5, NoticesNews
<1>8. CASE Speak
  <2>1. PICK size \in scene.sizes, word \in BOOLEAN :
          bus' = Append(bus, [kind |-> "text", size |-> size, word |-> word])
    BY <1>8 DEF Speak
  <2>2. [kind |-> "text", size |-> size, word |-> word] \in Events
        /\ [kind |-> "text", size |-> size, word |-> word] \notin Changes
    BY DEF Events, Texts, Changes, ViewTypes
  <2>3. UNCHANGED <<sess, news, heard>>
    BY <1>8 DEF Speak, SessionAlone
  <2> QED BY <2>1, <2>2, <2>3, NoticesKept
<1>9. CASE ReadSteps
  BY <1>1, <1>9 DEF ReadSteps, Tick, Refresh, LeaveNative, sessionVars
<1>10. ASSUME NEW s, HandledWith(s), s.up = sess.up, sess' = s, UNCHANGED <<bus, news>>
       PROVE  Notices'
  BY <1>1, <1>10 DEF HandledWith
<1>11. ASSUME NEW seen, NEW target \in Modes, NEW loss, ApplyModeSwitch(seen, target, loss)
       PROVE  Notices'
  <2>1. /\ sess' = Switched(sess, target) /\ HandledWith(Switched(sess, target)) /\ UNCHANGED <<bus, news>>
    BY <1>11 DEF ApplyModeSwitch
  <2> QED BY <1>10, <2>1, SwitchedView DEF ViewTypes
<1>12. CASE ChooseMode
  <2>1. PICK target \in Modes : RequestModeSwitch(target)
    BY <1>12 DEF ChooseMode
  <2>2. CASE ApplyModeSwitch(live, target, {})
    BY <1>11, <2>2
  <2>3. CASE ~ApplyModeSwitch(live, target, {})
    BY <1>1, <2>1, <2>3 DEF RequestModeSwitch, sessionVars
  <2> QED BY <2>2, <2>3
<1>13. CASE ConfirmMode
  <2>1. ApplyModeSwitch(panel.seen, panel.target, panel.told) /\ panel.target \in Modes
    BY <1>13 DEF ConfirmMode, Asked, Named
  <2> QED BY <1>11, <2>1
<1>14. CASE PauseVerb
  <2>1. PICK p : Verb(TRUE, [sess EXCEPT !.pause = p]) \/ UNCHANGED <<sess, live, heard>>
    BY <1>14 DEF PauseVerb, Verb
  <2>2. UNCHANGED <<bus, news>> /\ [sess EXCEPT !.pause = p].up = sess.up
    BY <1>14 DEF PauseVerb, Verb, ViewTypes, Views
  <2> QED BY <1>1, <1>10, <2>1, <2>2 DEF Verb
<1>15. CASE ApplyDriver
  <2>1. PICK d : \/ sess' = [sess EXCEPT !.driver[drivers.agent] = d]
                    /\ HandledWith([sess EXCEPT !.driver[drivers.agent] = d])
                 \/ UNCHANGED <<sess, live, heard>>
    BY <1>15 DEF ApplyDriver
  <2>2. UNCHANGED <<bus, news>> /\ [sess EXCEPT !.driver[drivers.agent] = d].up = sess.up
    BY <1>15 DEF ApplyDriver, ViewTypes, Views
  <2> QED BY <1>1, <1>10, <2>1, <2>2
<1>16. CASE RequestRestart
  <2>1. PICK a \in Agents : /\ sess' = [sess EXCEPT !.up[a] = FALSE] /\ HandledWith([sess EXCEPT !.up[a] = FALSE])
                            /\ news' = Append(news, [kind |-> "down", agent |-> a])
    BY <1>16, ScenesAssumption DEF RequestRestart, ViewTypes
  <2>2. [kind |-> "down", agent |-> a] \in Changes
    BY DEF Changes
  <2>3. ~sess'.up[a] /\ \A b \in Agents : b # a => sess'.up[b] = sess.up[b]
    BY <2>1 DEF ViewTypes, Views
  <2>4. bus' = bus
    BY <1>16 DEF RequestRestart
  <2>5. heard'.announced \subseteq heard.announced /\ heard'.told = heard.told /\ heard'.missed = heard.missed
    BY <2>1, AnnouncedAgents DEF HandledWith
  <2>6. [kind |-> "down", agent |-> a].kind = "up" <=> sess'.up[a]
    BY <2>3
  <2>7. [kind |-> "down", agent |-> a].agent = a
    OBVIOUS
  <2> DEFINE e == [kind |-> "down", agent |-> a]
  <2> HIDE DEF e
  <2>8. e \in Changes /\ e.agent = a /\ (e.kind = "up" <=> sess'.up[a]) /\ news' = Append(news, e)
    BY <2>1, <2>2, <2>6, <2>7 DEF e
  <2> QED BY <2>3, <2>4, <2>5, <2>8, NoticesNews
<1>17. CASE ApplyPickerModel
  <2>1. HandledWith(sess) /\ UNCHANGED <<sess, bus, news>>
    BY <1>17 DEF ApplyPickerModel, sessionVars
  <2> QED BY <1>10, <2>1
<1> QED BY <1>2, <1>3, <1>4, <1>5, <1>6, <1>7, <1>8, <1>9, <1>12, <1>13, <1>14, <1>15, <1>16, <1>17, NoticesPublish,
        NoticesHandled, StepKinds DEF SessionSteps

-----------------------------------------------------------------------------
(* The catalogues and the drivers.                                          *)

\* The View the interface has read knows the drivers, and no driver changes where models
\* are chosen.
LEMMA DriverKept ==
  ASSUME UInv, InterfaceNext, ~ApplyDriver
  PROVE  sess'.driver = sess.driver
<1> USE DEF UInv
<1>1. CASE PanelSteps \/ DriverPanelSteps \/ BesideSteps \/ FrameSteps
  BY <1>1, ViewFrame
<1>2. CASE EndSteps
  BY <1>2, EndedView DEF EndSteps, ConfirmRecall, RequestNewSession, ChooseSession
<1>3. CASE SessionSteps
  BY <1>3, SessionTypes
<1>4. CASE ReadSteps \/ HandleEvent \/ Publish
  BY <1>4 DEF ReadSteps, Tick, LeaveNative, HandleEvent, Publish, sessionVars
<1>5. ASSUME NEW seen, NEW target \in Modes, NEW loss, ApplyModeSwitch(seen, target, loss)
      PROVE  sess'.driver = sess.driver
  BY <1>5, SwitchedView DEF ApplyModeSwitch, ViewTypes
<1>6. CASE ChooseMode
  <2>1. PICK target \in Modes : RequestModeSwitch(target)
    BY <1>6 DEF ChooseMode
  <2> QED BY <1>5, <2>1 DEF RequestModeSwitch, sessionVars
<1>7. CASE ConfirmMode
  <2>1. ApplyModeSwitch(panel.seen, panel.target, panel.told) /\ panel.target \in Modes
    BY <1>7 DEF ConfirmMode, Asked, Named
  <2> QED BY <1>5, <2>1
<1>8. CASE PauseVerb \/ RequestRestart \/ ApplyPickerModel
  BY <1>8 DEF PauseVerb, Verb, RequestRestart, ApplyPickerModel, sessionVars, ViewTypes, Views
<1> QED BY <1>1, <1>2, <1>3, <1>4, <1>6, <1>7, <1>8, StepKinds

LEMMA SceneKept ==
  ASSUME InterfaceNext
  PROVE  scene' = scene
<1>1. CASE PanelSteps \/ DriverPanelSteps \/ BesideSteps \/ FrameSteps
  BY <1>1, ViewFrame
<1>2. CASE ApplyDriver
  BY <1>2 DEF ApplyDriver
<1> QED BY <1>1, <1>2, BesideFrame, StepKinds

\* Which steps open a panel that shows something of the session.
LEMMA OpenedBy ==
  ASSUME InterfaceNext
  PROVE  /\ panel'.kind = "drivers" => panel.kind = "drivers" \/ (OpenDriverPicker /\ DriverChangeAllowed(live))
         /\ panel'.kind = "models" => panel.kind = "models" \/ OpenPicker
         /\ panel'.kind = "qrcode" => panel.kind = "qrcode" \/ HandleAsync
<1>1. CASE panel' = panel
  BY <1>1
<1>2. CASE PanelSteps
  <2>1. \/ panel' = panel \/ panel' = Confirm("quit", "", {}) \/ panel' = Confirm("recall", "", {})
        \/ \E kind \in {"none", "modes", "sessions"} : panel' = [kind |-> kind]
    BY <1>2 DEF PanelSteps, CloseOverlay, OpenModePicker, ConfirmResume, ConfirmQuit, RequestQuit, RequestRecall,
       OpenSessions, Opened, Closed
  <2>2. \A what, target : Confirm(what, target, {}).kind = "confirm"
    BY DEF Confirm
  <2>3. panel' = panel \/ panel'.kind \in {"confirm", "none", "modes", "sessions"}
    <3>1. CASE panel' = Confirm("quit", "", {}) \/ panel' = Confirm("recall", "", {})
      BY <2>2, <3>1
    <3>2. CASE \E kind \in {"none", "modes", "sessions"} : panel' = [kind |-> kind]
      BY <3>2
    <3> QED BY <2>1, <3>1, <3>2
  <2> QED BY <2>3
<1>3. CASE OpenDriverPicker
  BY <1>3 DEF OpenDriverPicker, Opened
<1>4. CASE ApplyDriver \/ ApplyPickerModel \/ EndSteps
  BY <1>4 DEF ApplyDriver, ApplyPickerModel, EndSteps, ConfirmRecall, RequestNewSession, ChooseSession, Closed,
     panelVars
<1>5. CASE OpenPicker \/ OpenDetails
  BY <1>5 DEF OpenPicker, OpenDetails, Opened
<1>6. CASE HandleAsync
  BY <1>6 DEF HandleAsync, PanelAfter, Closed
<1>7. CASE ChooseMode \/ ConfirmMode
  BY <1>7 DEF ChooseMode, RequestModeSwitch, ConfirmMode, ApplyModeSwitch, Closed, Confirm
<1> QED BY <1>1, <1>2, <1>3, <1>4, <1>5, <1>6, <1>7, PanelFrame, StepKinds DEF DriverPanelSteps, BesideSteps

\* Where drivers are chosen no catalogue is read.
Apart == \A s \in Scenes : ~({"models", "drivers"} \subseteq s.topics)

LEMMA ListsStep ==
  ASSUME UInv, ListsAgree, InterfaceNext, Apart
  PROVE  ListsAgree'
<1> USE DEF UInv
<1>0. ~(May("models") /\ May("drivers"))
  BY DEF Apart, May, ViewTypes
<1>1. (May("models")' <=> May("models")) /\ (May("drivers")' <=> May("drivers")) /\ scene' = scene
  BY SceneKept DEF May
<1>2. calls \in Seq(Requests) /\ async \in Seq(Results)
  BY DEF BesideTypes, CallTypes
<1>3. /\ \A i \in DOMAIN calls : calls[i].kind = "models" => May("models")
      /\ \A i \in DOMAIN async : async[i].kind = "models" =>
           May("models") /\ (~async[i].failed => async[i].catalogue = Catalogue(async[i].agent))
  BY DEF ListsAgree
<1>4. CASE ApplyDriver
  <2>1. panel.kind = "drivers" /\ May("drivers") /\ ~May("models") /\ drivers.current = sess.driver[drivers.agent]
    BY <1>0, <1>4 DEF ApplyDriver, ListsAgree
  <2>2. UNCHANGED <<calls, async, picker>>
    BY <1>4 DEF ApplyDriver, callVars
  <2>3. live'.driver = sess'.driver /\ (panel'.kind = "drivers" => drivers'.current = sess'.driver[drivers'.agent])
    <3>1. PICK d \in DriverNames :
            \/ /\ sess' = [sess EXCEPT !.driver[drivers.agent] = d]
               /\ HandledWith([sess EXCEPT !.driver[drivers.agent] = d]) /\ drivers' = [drivers EXCEPT !.current = d]
            \/ UNCHANGED <<sess, live, heard, drivers>>
      BY <1>4 DEF ApplyDriver, DriverNames
    <3>2. CASE UNCHANGED <<sess, live, heard, drivers>>
      BY <2>1, <3>2 DEF ListsAgree
    <3>3. CASE /\ sess' = [sess EXCEPT !.driver[drivers.agent] = d]
               /\ HandledWith([sess EXCEPT !.driver[drivers.agent] = d]) /\ drivers' = [drivers EXCEPT !.current = d]
      <4>1. live' = sess' /\ drivers.agent \in Agents /\ drivers'.agent = drivers.agent /\ drivers'.current = d
        BY <3>3 DEF HandledWith, BesideTypes, PartTypes, DriverPickerType
      <4>2. sess'.driver[drivers.agent] = d
        BY <3>3, <4>1 DEF ViewTypes, Views
      <4> QED BY <4>1, <4>2
    <3> QED BY <3>1, <3>2, <3>3
  <2>4. panel'.kind # "models"
    BY <1>4, <2>1 DEF ApplyDriver, Closed
  <2> QED BY <1>1, <2>1, <2>2, <2>3, <2>4 DEF ListsAgree
<1>5. SUFFICES ASSUME ~ApplyDriver PROVE ListsAgree'
  BY <1>4
<1>6. sess'.driver = sess.driver /\ live'.driver = sess'.driver /\ \A a : Catalogue(a)' = Catalogue(a)
  BY <1>5, ViewStep, DriverKept DEF ListsAgree, Catalogue
<1>7. panel'.kind = "models" => May("models")
  BY OpenedBy DEF ListsAgree, OpenPicker
<1>8. panel'.kind = "drivers" => May("drivers")
  BY OpenedBy DEF ListsAgree, OpenDriverPicker
<1>9. ASSUME UNCHANGED drivers, ~OpenDriverPicker
      PROVE  panel'.kind = "drivers" => drivers'.current = sess'.driver[drivers'.agent]
  BY <1>6, <1>9, OpenedBy DEF ListsAgree
<1>10. CASE DriverPanelSteps
  <2>1. UNCHANGED <<calls, async, picker>>
    BY <1>10 DEF DriverPanelSteps, OpenDriverPicker, SwitchDriverAgent, callVars
  <2>2. panel'.kind = "drivers" => drivers'.current = sess'.driver[drivers'.agent]
    <3>1. CASE OpenDriverPicker
      BY <1>6, <3>1, OpenedBy DEF OpenDriverPicker, Opened, ListsAgree, BesideTypes, PartTypes, DriverPickerType
    <3>2. CASE SwitchDriverAgent
      BY <1>6, <3>2 DEF SwitchDriverAgent, ListsAgree
    <3> QED BY <1>10, <3>1, <3>2 DEF DriverPanelSteps
  <2> QED BY <1>1, <1>6, <1>7, <1>8, <2>1, <2>2 DEF ListsAgree
<1>11. SUFFICES ASSUME ~DriverPanelSteps PROVE ListsAgree'
  BY <1>10
<1>12. drivers' = drivers
  BY <1>5, <1>11, StepKinds, BesideFrame DEF BesideSteps, OpenPicker, SwitchModelAgent, OpenDetails, RequestPairing,
     Return, HandleAsync, panelVars
<1>13. panel'.kind = "drivers" => drivers'.current = sess'.driver[drivers'.agent]
  BY <1>9, <1>11, <1>12 DEF DriverPanelSteps
<1>14. CASE UNCHANGED <<calls, async, picker>>
  BY <1>1, <1>6, <1>7, <1>8, <1>13, <1>14 DEF ListsAgree
<1>15. CASE OpenPicker \/ SwitchModelAgent
  <2>1. PICK a \in Agents : Load(Targeted(a))
    <3>1. \A a \in Agents : Other(a) \in Agents
      BY DEF Agents, Other
    <3> QED BY <1>15, <3>1 DEF OpenPicker, SwitchModelAgent, BesideTypes, PartTypes, PickerType
  <2>2. May("models")
    BY <1>15 DEF OpenPicker, SwitchModelAgent, ListsAgree
  <2>3. /\ picker'.agent = a /\ picker'.of = a
        /\ calls' = calls \/ calls' = Append(calls, [kind |-> "models", agent |-> a])
        /\ picker'.loaded => picker.loaded /\ picker.of = a /\ picker'.all = picker.all
    BY <2>1, LoadedPicker
  <2>4. picker'.loaded => picker'.all = Catalogue(picker'.agent)
    <3>1. a # ""
      BY DEF Agents
    <3> QED BY <2>3, <3>1 DEF ListsAgree
  <2>5. async' = async
    BY <1>15 DEF OpenPicker, SwitchModelAgent
  <2> QED BY <1>1, <1>6, <1>7, <1>8, <1>13, <2>2, <2>3, <2>4, <2>5 DEF ListsAgree
<1>16. CASE OpenDetails \/ RequestPairing
  <2>1. PICK call \in Requests : Started(call) /\ call.kind # "models"
    <3>1. [kind |-> "details"] \in Requests /\ [kind |-> "stop"] \in Requests
          /\ \A rotate \in BOOLEAN : [kind |-> "start", rotate |-> rotate] \in Requests
      BY DEF Requests
    <3>2. \/ Started([kind |-> "details"]) \/ Started([kind |-> "stop"])
          \/ \E rotate \in BOOLEAN : Started([kind |-> "start", rotate |-> rotate])
      BY <1>16 DEF OpenDetails, RequestPairing
    <3> QED BY <3>1, <3>2
  <2>2. calls' = Append(calls, call) /\ UNCHANGED <<async, picker>>
    BY <1>16, <2>1 DEF OpenDetails, RequestPairing, Started, panelVars
  <2>3. \A i \in DOMAIN calls' : calls'[i].kind = "models" => May("models")
    BY <1>2, <1>3, <2>1, <2>2, AppendOf
  <2> QED BY <1>1, <1>6, <1>7, <1>8, <1>13, <2>2, <2>3 DEF ListsAgree
<1>17. CASE Return
  <2>1. UNCHANGED picker
    BY <1>17 DEF Return, panelVars
  <2>2. PICK i \in DOMAIN calls :
          ReadCatalogue(i) \/ ReadDetails(i) \/ StartPairing(i) \/ StopPairing(i) \/ AnswerPairing(i)
    BY <1>17 DEF Return
  <2>3. \A k \in DOMAIN calls' : calls'[k].kind = "models" => May("models")
    <3>1. CASE calls' = RemoveAt(calls, i)
      <4>1. \A k \in DOMAIN calls' : \E j \in DOMAIN calls : calls'[k] = calls[j]
        <5>1. ASSUME NEW k \in DOMAIN calls'
              PROVE  \E j \in DOMAIN calls : calls'[k] = calls[j]
          <6>1. k \in DOMAIN calls /\ k + 1 \in DOMAIN calls
                /\ calls'[k] = IF k < i THEN calls[k] ELSE calls[k + 1]
            BY <1>2, <3>1, <5>1, RemoveOf
          <6> QED BY <6>1
        <5> QED BY <5>1
      <4> QED BY <1>3, <4>1
    <3>2. CASE \E r : calls' = [calls EXCEPT ![i] = [kind |-> "answer", result |-> r]]
      BY <1>2, <1>3, <3>2
    <3> QED BY <2>2, <3>1, <3>2 DEF ReadCatalogue, ReadDetails, StartPairing, StopPairing, AnswerPairing, Answered,
               Acted
  <2>4. async' = async \/ \E r \in Results :
          /\ async' = Append(async, r)
          /\ r.kind = "models" => May("models") /\ (~r.failed => r.catalogue = Catalogue(r.agent))
    <3>1. CASE ReadCatalogue(i)
      <4>1. PICK failed \in BOOLEAN :
              Answered(i, [kind |-> "models", agent |-> calls[i].agent, failed |-> failed,
                           catalogue |-> Catalogue(calls[i].agent)], FALSE)
        BY <3>1 DEF ReadCatalogue
      <4>2. calls[i] \in Requests /\ calls[i].kind = "models"
        BY <1>2, <3>1 DEF ReadCatalogue
      <4>3. calls[i].agent \in Agents /\ May("models")
        BY <4>2 DEF Requests, ListsAgree
      <4>4. Catalogue(calls[i].agent) \in Lists
        BY <4>3 DEF Catalogue, Lists, ViewTypes, Views
      <4> DEFINE r == [kind |-> "models", agent |-> calls[i].agent, failed |-> failed,
                       catalogue |-> Catalogue(calls[i].agent)]
      <4>5. r \in Results /\ r.catalogue = Catalogue(r.agent)
        BY <4>3, <4>4 DEF Results
      <4> HIDE DEF r
      <4>6. async' = async \/ async' = Append(async, r)
        BY <4>1 DEF Answered, r
      <4> QED BY <4>3, <4>5, <4>6
    <3>2. CASE ReadDetails(i)
      <4>1. [kind |-> "details"] \in Results /\ [kind |-> "details"].kind # "models"
        BY DEF Results
      <4>2. async' = async \/ async' = Append(async, [kind |-> "details"])
        BY <3>2 DEF ReadDetails, Answered
      <4> QED BY <4>1, <4>2
    <3>3. CASE StartPairing(i) \/ StopPairing(i)
      BY <3>3 DEF StartPairing, StopPairing, Acted
    <3>4. CASE AnswerPairing(i)
      <4>1. calls[i] \in Requests /\ calls[i].kind = "answer"
        BY <1>2, <3>4 DEF AnswerPairing
      <4>2. calls[i].result \in Outcomes
        BY <4>1 DEF Requests
      <4>3. calls[i].result \in Results /\ calls[i].result.kind # "models"
        BY <4>2 DEF Results, Outcomes
      <4>4. async' = async \/ async' = Append(async, calls[i].result)
        BY <3>4 DEF AnswerPairing, Answered
      <4> QED BY <4>3, <4>4
    <3> QED BY <2>2, <3>1, <3>2, <3>3, <3>4
  <2>5. \A k \in DOMAIN async' : async'[k].kind = "models" =>
          May("models") /\ (~async'[k].failed => async'[k].catalogue = Catalogue(async'[k].agent))
    BY <1>2, <1>3, <2>4, AppendOf
  <2> QED BY <1>1, <1>6, <1>7, <1>8, <1>13, <2>1, <2>3, <2>5 DEF ListsAgree
<1>18. CASE HandleAsync
  <2>1. /\ async # << >> /\ async' = Tail(async) /\ UNCHANGED calls
        /\ picker' = IF Head(async).kind = "models" THEN Loaded(Head(async)) ELSE picker
    BY <1>18 DEF HandleAsync
  <2>2. Head(async) = async[1] /\ 1 \in DOMAIN async /\ Head(async) \in Results
    BY <1>2, <2>1, TailOf
  <2>3. \A k \in DOMAIN async' : async'[k].kind = "models" =>
          May("models") /\ (~async'[k].failed => async'[k].catalogue = Catalogue(async'[k].agent))
    BY <1>2, <1>3, <2>1, TailOf
  <2>4. picker'.of \in {picker'.agent, ""}
        /\ (picker'.loaded => May("models") /\ picker'.all = Catalogue(picker'.agent))
    <3>1. CASE Head(async).kind = "models"
      <4>1. May("models") /\ (~Head(async).failed => Head(async).catalogue = Catalogue(Head(async).agent))
        BY <2>2, <3>1 DEF ListsAgree
      <4>2. picker' = Loaded(Head(async)) /\ picker \in PickerType
        BY <2>1, <3>1 DEF BesideTypes, PartTypes
      <4>3. CASE Head(async).agent # picker.agent
        BY <4>2, <4>3 DEF Loaded, ListsAgree
      <4>4. CASE Head(async).agent = picker.agent /\ Head(async).failed
        <5>1. picker' = [picker EXCEPT !.loading = FALSE]
          BY <4>2, <4>4 DEF Loaded
        <5> QED BY <4>2, <5>1 DEF ListsAgree, PickerType
      <4>5. CASE Head(async).agent = picker.agent /\ ~Head(async).failed
        <5>1. picker' = [picker EXCEPT !.loading = FALSE, !.loaded = TRUE, !.all = Head(async).catalogue]
          BY <4>2, <4>5 DEF Loaded
        <5> QED BY <4>1, <4>2, <4>5, <5>1 DEF ListsAgree, PickerType
      <4> QED BY <4>3, <4>4, <4>5
    <3>2. CASE Head(async).kind # "models"
      BY <2>1, <3>2 DEF ListsAgree
    <3> QED BY <3>1, <3>2
  <2> QED BY <1>1, <1>6, <1>7, <1>8, <1>13, <2>1, <2>3, <2>4 DEF ListsAgree
<1> QED BY <1>5, <1>11, <1>14, <1>15, <1>16, <1>17, <1>18, BesideFrame, StepKinds DEF BesideSteps

-----------------------------------------------------------------------------
(* The pairing code.                                                        *)

Settled == Alone /\ Shown

\* Two queues with the same requests for the pairing, or the same answers about it.
SameAsks(p, q) ==
  /\ \A i \in DOMAIN p : AsksPairing(p[i]) => \E j \in DOMAIN q : q[j] = p[i]
  /\ \A j \in DOMAIN q : AsksPairing(q[j]) => \E i \in DOMAIN p : p[i] = q[j]
  /\ OneRequest(q) => OneRequest(p)
SameTells(p, q) ==
  /\ \A i \in DOMAIN p : TellsPairing(p[i]) => \E j \in DOMAIN q : q[j] = p[i]
  /\ \A j \in DOMAIN q : TellsPairing(q[j]) => \E i \in DOMAIN p : p[i] = q[j]
  /\ OneAnswer(q) => OneAnswer(p)

LEMMA AppendSame ==
  ASSUME NEW S, NEW q \in Seq(S), NEW e \in S
  PROVE  /\ ~AsksPairing(e) => SameAsks(Append(q, e), q)
         /\ ~TellsPairing(e) => SameTells(Append(q, e), q)
<1> DEFINE p == Append(q, e)
<1>1. /\ Len(q) + 1 \in DOMAIN p /\ p[Len(q) + 1] = e
      /\ \A k \in DOMAIN q : k \in DOMAIN p /\ p[k] = q[k]
      /\ \A k \in DOMAIN p : k = Len(q) + 1 \/ k \in DOMAIN q
  BY AppendOf
<1> HIDE DEF p
<1>2. ASSUME ~AsksPairing(e) PROVE SameAsks(p, q)
  BY <1>1, <1>2 DEF SameAsks, OneRequest
<1>3. ASSUME ~TellsPairing(e) PROVE SameTells(p, q)
  BY <1>1, <1>3 DEF SameTells, OneAnswer
<1> QED BY <1>2, <1>3 DEF p

LEMMA RemoveSame ==
  ASSUME NEW S, NEW q \in Seq(S), NEW i \in DOMAIN q, ~AsksPairing(q[i])
  PROVE  SameAsks(RemoveAt(q, i), q)
<1> DEFINE p == RemoveAt(q, i)
<1>1. /\ \A k \in DOMAIN p : k \in DOMAIN q /\ k + 1 \in DOMAIN q /\ p[k] = IF k < i THEN q[k] ELSE q[k + 1]
      /\ \A k \in DOMAIN q : k # i => \E j \in DOMAIN p : p[j] = q[k]
  BY RemoveOf
<1>2. DOMAIN q = 1 .. Len(q) /\ Len(q) \in Nat
  OBVIOUS
<1> HIDE DEF p
<1>3. \A k \in DOMAIN p : \E j \in DOMAIN q : q[j] = p[k]
  <2>1. ASSUME NEW k \in DOMAIN p PROVE \E j \in DOMAIN q : q[j] = p[k]
    <3>1. CASE k < i
      BY <1>1, <3>1
    <3>2. CASE ~(k < i)
      BY <1>1, <3>2
    <3> QED BY <3>1, <3>2
  <2> QED BY <2>1
<1>4. ASSUME OneRequest(q) PROVE OneRequest(p)
  <2>1. ASSUME NEW k \in DOMAIN p, NEW l \in DOMAIN p, AsksPairing(p[k]), AsksPairing(p[l]) PROVE k = l
    <3>1. k \in Int /\ l \in Int /\ i \in Int
      BY <1>1, <1>2
    <3>2. (IF k < i THEN k ELSE k + 1) = (IF l < i THEN l ELSE l + 1)
      BY <1>1, <1>4, <2>1 DEF OneRequest
    <3> QED BY <3>1, <3>2
  <2> QED BY <2>1 DEF OneRequest
<1>5. SameAsks(p, q)
  BY <1>1, <1>3, <1>4 DEF SameAsks
<1> QED BY <1>5 DEF p

LEMMA TailSame ==
  ASSUME NEW S, NEW q \in Seq(S), q # << >>, ~TellsPairing(Head(q))
  PROVE  SameTells(Tail(q), q)
<1> DEFINE p == Tail(q)
<1>1. /\ Head(q) = q[1]
      /\ \A k \in DOMAIN p : k + 1 \in DOMAIN q /\ k > 0 /\ p[k] = q[k + 1]
      /\ \A k \in DOMAIN q : k # 1 => k - 1 \in DOMAIN p /\ p[k - 1] = q[k]
      /\ DOMAIN p \subseteq Int
  <2>1. Tail(q) \in Seq(S)
    BY TailOf
  <2>2. DOMAIN Tail(q) \subseteq Int
    BY <2>1
  <2> QED BY <2>2, TailOf
<1> HIDE DEF p
<1>2. \A k \in DOMAIN q : TellsPairing(q[k]) => \E j \in DOMAIN p : p[j] = q[k]
  BY <1>1
<1>3. ASSUME OneAnswer(q) PROVE OneAnswer(p)
  <2>1. ASSUME NEW k \in DOMAIN p, NEW l \in DOMAIN p, TellsPairing(p[k]), TellsPairing(p[l]) PROVE k = l
    <3>1. k + 1 = l + 1 /\ k \in Int /\ l \in Int
      BY <1>1, <1>3, <2>1 DEF OneAnswer
    <3> QED BY <3>1
  <2> QED BY <2>1 DEF OneAnswer
<1>4. SameTells(p, q)
  BY <1>1, <1>2, <1>3 DEF SameTells
<1> QED BY <1>4 DEF p

LEMMA AloneSame ==
  ASSUME Alone, SameAsks(calls', calls), SameTells(async', async)
  PROVE  Alone'
<1>1. Pairing' => Pairing
  BY DEF Pairing, SameAsks, AsksPairing
<1>2. PairingAnswers' => PairingAnswers
  BY DEF PairingAnswers, SameTells, TellsPairing
<1>3. OneRequest(calls') /\ OneAnswer(async')
  BY DEF Alone, SameAsks, SameTells
<1> QED BY <1>1, <1>2, <1>3 DEF Alone

\* Nothing that has to do with a pairing happens.
LEMMA SettledKept ==
  ASSUME Settled, remote' = remote, panel'.kind = "qrcode" => panel.kind = "qrcode",
         SameAsks(calls', calls), SameTells(async', async)
  PROVE  Settled'
<1>1. Alone'
  BY AloneSame DEF Settled
<1>2. \A i \in DOMAIN calls' : calls'[i].kind = "answer" => SoStill(calls'[i].result, remote')
  BY DEF Settled, Shown, SameAsks, AsksPairing
<1>3. \A i \in DOMAIN async' : TellsPairing(async'[i]) => SoStill(async'[i], remote')
  BY DEF Settled, Shown, SameTells
<1>4. panel'.kind = "qrcode" =>
        \/ remote'.on /\ remote'.shown = remote'.code
        \/ \E i \in DOMAIN calls' : calls'[i].kind = "answer" /\ Renews(calls'[i].result)
        \/ \E i \in DOMAIN async' : TellsPairing(async'[i]) /\ Renews(async'[i])
  <2>1. CASE \E i \in DOMAIN calls : calls[i].kind = "answer" /\ Renews(calls[i].result)
    <3>1. PICK i \in DOMAIN calls : calls[i].kind = "answer" /\ Renews(calls[i].result)
      BY <2>1
    <3>2. PICK j \in DOMAIN calls' : calls'[j] = calls[i]
      BY <3>1 DEF SameAsks, AsksPairing
    <3> QED BY <3>1, <3>2
  <2>2. CASE \E i \in DOMAIN async : TellsPairing(async[i]) /\ Renews(async[i])
    <3>1. PICK i \in DOMAIN async : TellsPairing(async[i]) /\ Renews(async[i])
      BY <2>2
    <3>2. PICK j \in DOMAIN async' : async'[j] = async[i]
      BY <3>1 DEF SameTells
    <3> QED BY <3>1, <3>2
  <2> QED BY <2>1, <2>2 DEF Settled, Shown
<1> QED BY <1>1, <1>2, <1>3, <1>4 DEF Settled, Shown

LEMMA SameItself ==
  ASSUME NEW q
  PROVE  SameAsks(q, q) /\ SameTells(q, q)
BY DEF SameAsks, SameTells

NoOverlap == \A s \in Scenes : "overlap" \notin s.known

\* The one request there is takes effect.
LEMMA ActedSettled ==
  ASSUME UInv, Settled, NEW i \in DOMAIN calls, AsksPairing(calls[i]), calls[i].kind # "answer", NEW r \in Outcomes,
         Acted(i, r), SoStill(r, remote'), Renews(r) \/ remote' = remote, panel' = panel
  PROVE  Settled'
<1>1. calls \in Seq(Requests) /\ async \in Seq(Results)
  BY DEF UInv, BesideTypes, CallTypes
<1> DEFINE e == [kind |-> "answer", result |-> r]
<1>2. calls' = [calls EXCEPT ![i] = e] /\ async' = async
  BY DEF Acted
<1>3. e.kind = "answer" /\ e.result = r
  OBVIOUS
<1> HIDE DEF e
<1>4. DOMAIN calls' = DOMAIN calls /\ calls'[i] = e /\ \A k \in DOMAIN calls : k # i => calls'[k] = calls[k]
  BY <1>1, <1>2
<1>5. \A k \in DOMAIN calls : k # i => ~AsksPairing(calls[k])
  BY DEF Settled, Alone, OneRequest
<1>6. \A k \in DOMAIN async : ~TellsPairing(async[k])
  BY DEF Settled, Alone, Pairing, PairingAnswers, AsksPairing, TellsPairing
<1>7. Alone'
  <2>1. OneRequest(calls') /\ OneAnswer(async')
    BY <1>2, <1>4, <1>5, <1>6 DEF OneRequest, OneAnswer
  <2>2. ~PairingAnswers'
    BY <1>2, <1>6 DEF PairingAnswers, TellsPairing
  <2> QED BY <2>1, <2>2 DEF Alone
<1>8. \A k \in DOMAIN calls' : calls'[k].kind = "answer" => k = i
  BY <1>4, <1>5 DEF AsksPairing
<1>9. /\ \A k \in DOMAIN calls' : calls'[k].kind = "answer" => SoStill(calls'[k].result, remote')
      /\ \A k \in DOMAIN async' : TellsPairing(async'[k]) => SoStill(async'[k], remote')
  BY <1>2, <1>3, <1>4, <1>6, <1>8
<1>10. panel'.kind = "qrcode" =>
         \/ remote'.on /\ remote'.shown = remote'.code
         \/ \E k \in DOMAIN calls' : calls'[k].kind = "answer" /\ Renews(calls'[k].result)
  <2>1. CASE Renews(r)
    BY <1>3, <1>4, <2>1
  <2>2. CASE remote' = remote
    <3>1. \A k \in DOMAIN calls : calls[k].kind # "answer"
      BY <1>5 DEF AsksPairing
    <3> QED BY <1>6, <2>2, <3>1 DEF Settled, Shown
  <2> QED BY <2>1, <2>2
<1> QED BY <1>7, <1>9, <1>10 DEF Settled, Shown

\* Its answer goes to the loop.
LEMMA AnsweredSettled ==
  ASSUME UInv, Settled, NEW i \in DOMAIN calls, AnswerPairing(i), panel' = panel
  PROVE  Settled'
<1>1. calls \in Seq(Requests) /\ async \in Seq(Results)
  BY DEF UInv, BesideTypes, CallTypes
<1> DEFINE r == calls[i].result
<1>2. /\ calls[i].kind = "answer" /\ calls' = RemoveAt(calls, i) /\ async' = Append(async, r) /\ remote' = remote
  BY DEF AnswerPairing, Answered
<1>3. r \in Outcomes
  BY <1>1, <1>2 DEF Requests
<1>4. r \in Results /\ TellsPairing(r)
  BY <1>3 DEF Results, TellsPairing, Outcomes
<1> HIDE DEF r
<1>5. \A k \in DOMAIN calls : k # i => ~AsksPairing(calls[k])
  BY <1>2 DEF Settled, Alone, OneRequest, AsksPairing
<1>6. \A k \in DOMAIN async : ~TellsPairing(async[k])
  BY <1>2 DEF Settled, Alone, Pairing, PairingAnswers, TellsPairing
<1>7. \A k \in DOMAIN calls' : ~AsksPairing(calls'[k])
  <2>1. ASSUME NEW k \in DOMAIN calls' PROVE ~AsksPairing(calls'[k])
    <3>1. k \in DOMAIN calls /\ k + 1 \in DOMAIN calls /\ calls'[k] = IF k < i THEN calls[k] ELSE calls[k + 1]
      BY <1>1, <1>2, <2>1, RemoveOf
    <3>2. k \in Int /\ i \in Int
      BY <1>1, <3>1
    <3>3. CASE k < i
      BY <1>5, <3>1, <3>2, <3>3
    <3>4. CASE ~(k < i)
      <4>1. k + 1 # i
        BY <3>2, <3>4
      <4> QED BY <1>5, <3>1, <3>4, <4>1
    <3> QED BY <3>3, <3>4
  <2> QED BY <2>1
<1>8. /\ Len(async) + 1 \in DOMAIN async' /\ async'[Len(async) + 1] = r
      /\ \A k \in DOMAIN async' : TellsPairing(async'[k]) => k = Len(async) + 1
  BY <1>1, <1>2, <1>4, <1>6, AppendOf
<1>9. Alone'
  <2>1. OneRequest(calls') /\ OneAnswer(async')
    BY <1>7, <1>8 DEF OneRequest, OneAnswer
  <2>2. ~Pairing'
    BY <1>7 DEF Pairing, AsksPairing
  <2> QED BY <2>1, <2>2 DEF Alone
<1>10. SoStill(r, remote)
  BY <1>2 DEF Settled, Shown, r
<1>11. /\ \A k \in DOMAIN calls' : calls'[k].kind # "answer"
       /\ \A k \in DOMAIN async' : TellsPairing(async'[k]) => SoStill(async'[k], remote')
  BY <1>2, <1>7, <1>8, <1>10 DEF AsksPairing
<1>12. panel'.kind = "qrcode" =>
         \/ remote'.on /\ remote'.shown = remote'.code
         \/ \E k \in DOMAIN async' : TellsPairing(async'[k]) /\ Renews(async'[k])
  <2>1. CASE Renews(r)
    BY <1>4, <1>8, <2>1
  <2>2. CASE ~Renews(r)
    <3>1. \A k \in DOMAIN calls : calls[k].kind = "answer" => ~Renews(calls[k].result)
      BY <1>5, <2>2 DEF AsksPairing, r
    <3> QED BY <1>2, <1>6, <3>1 DEF Settled, Shown
  <2> QED BY <2>1, <2>2
<1> QED BY <1>9, <1>11, <1>12 DEF Settled, Shown

\* It is handled: what it says is shown.
LEMMA HandledSettled ==
  ASSUME UInv, Settled, HandleAsync, TellsPairing(Head(async))
  PROVE  Settled'
<1>1. async \in Seq(Results) /\ remote \in PairingType
  BY DEF UInv, BesideTypes, CallTypes, PartTypes
<1> DEFINE r == Head(async)
<1>2. /\ async # << >> /\ async' = Tail(async) /\ calls' = calls /\ panel' = PanelAfter(r)
      /\ remote' = IF r.kind = "started" /\ ~r.failed THEN [remote EXCEPT !.shown = r.code] ELSE remote
  BY DEF HandleAsync
<1>3. 1 \in DOMAIN async /\ r = async[1] /\ r \in Results
  BY <1>1, <1>2, TailOf
<1>4. TellsPairing(r)
  OBVIOUS
<1> HIDE DEF r
<1>5. \A k \in DOMAIN async : k # 1 => ~TellsPairing(async[k])
  BY <1>3, <1>4 DEF Settled, Alone, OneAnswer
<1>6. \A k \in DOMAIN async' : ~TellsPairing(async'[k])
  <2>1. ASSUME NEW k \in DOMAIN async' PROVE ~TellsPairing(async'[k])
    <3>1. k + 1 \in DOMAIN async /\ k > 0 /\ async'[k] = async[k + 1]
      BY <1>1, <1>2, <2>1, TailOf
    <3>2. k + 1 # 1
      <4>1. k \in Int
        <5>1. async' \in Seq(Results)
          BY <1>1, <1>2, TailOf
        <5> QED BY <2>1, <5>1
      <4> QED BY <3>1, <4>1
    <3> QED BY <1>5, <3>1, <3>2
  <2> QED BY <2>1
<1>7. \A k \in DOMAIN calls : ~AsksPairing(calls[k])
  BY <1>3, <1>4 DEF Settled, Alone, Pairing, PairingAnswers, AsksPairing, TellsPairing
<1>8. Alone'
  BY <1>2, <1>6, <1>7 DEF Settled, Alone, OneRequest, OneAnswer, PairingAnswers, TellsPairing
<1>9. SoStill(r, remote)
  BY <1>3, <1>4 DEF Settled, Shown
<1>10. panel'.kind = "qrcode" => remote'.on /\ remote'.shown = remote'.code
  <2>1. CASE r.kind = "started" /\ ~r.failed
    <3>1. remote' = [remote EXCEPT !.shown = r.code] /\ remote.on /\ remote.code = r.code
      BY <1>2, <1>9, <2>1 DEF SoStill
    <3> QED BY <1>1, <3>1 DEF PairingType
  <2>2. CASE r.kind = "stopped"
    BY <1>2, <2>2 DEF PanelAfter, Closed
  <2>3. CASE r.kind = "started" /\ r.failed
    <3>1. ~Renews(r) /\ remote' = remote /\ panel' = panel
      BY <1>2, <2>3 DEF Renews, PanelAfter
    <3>2. \A k \in DOMAIN async : TellsPairing(async[k]) => ~Renews(async[k])
      BY <1>3, <1>5, <3>1
    <3>3. \A k \in DOMAIN calls : calls[k].kind # "answer"
      BY <1>7 DEF AsksPairing
    <3> QED BY <3>1, <3>2, <3>3 DEF Settled, Shown
  <2> QED BY <1>4, <2>1, <2>2, <2>3 DEF TellsPairing
<1>11. \A k \in DOMAIN calls' : calls'[k].kind # "answer"
  BY <1>2, <1>7 DEF AsksPairing
<1> QED BY <1>6, <1>8, <1>10, <1>11 DEF Settled, Shown

LEMMA SettledStep ==
  ASSUME UInv, Settled, InterfaceNext, NoOverlap
  PROVE  Settled'
<1>1. calls \in Seq(Requests) /\ async \in Seq(Results)
  BY DEF UInv, BesideTypes, CallTypes
<1>2. ASSUME ~HandleAsync PROVE panel'.kind = "qrcode" => panel.kind = "qrcode"
  BY <1>2, OpenedBy
<1>3. CASE UNCHANGED <<calls, async, remote>> /\ ~HandleAsync
  BY <1>2, <1>3, SettledKept, SameItself
<1>4. CASE DriverPanelSteps \/ ApplyDriver
  <2>1. UNCHANGED <<calls, async, remote>> /\ (panel'.kind = "qrcode" => panel.kind = "qrcode")
    BY <1>4 DEF DriverPanelSteps, OpenDriverPicker, SwitchDriverAgent, ApplyDriver, callVars, Opened, Closed
  <2> QED BY <2>1, SettledKept, SameItself
<1>5. CASE OpenPicker \/ SwitchModelAgent \/ OpenDetails
  <2>1. UNCHANGED <<async, remote>> /\ (panel'.kind = "qrcode" => panel.kind = "qrcode")
    BY <1>5 DEF OpenPicker, SwitchModelAgent, OpenDetails, Opened
  <2>2. calls' = calls \/ \E e \in Requests : ~AsksPairing(e) /\ calls' = Append(calls, e)
    <3>1. CASE OpenDetails
      <4>1. [kind |-> "details"] \in Requests /\ ~AsksPairing([kind |-> "details"])
        BY DEF Requests, AsksPairing
      <4> QED BY <3>1, <4>1 DEF OpenDetails, Started
    <3>2. CASE OpenPicker \/ SwitchModelAgent
      <4>1. PICK a \in Agents : Load(Targeted(a))
        <5>1. \A a \in Agents : Other(a) \in Agents
          BY DEF Agents, Other
        <5> QED BY <3>2, <5>1 DEF OpenPicker, SwitchModelAgent, UInv, BesideTypes, PartTypes, PickerType
      <4>2. calls' = calls \/ calls' = Append(calls, [kind |-> "models", agent |-> a])
        BY <4>1, LoadedPicker DEF UInv
      <4>3. [kind |-> "models", agent |-> a] \in Requests /\ ~AsksPairing([kind |-> "models", agent |-> a])
        BY DEF Requests, AsksPairing
      <4> QED BY <4>2, <4>3
    <3> QED BY <1>5, <3>1, <3>2
  <2>3. SameAsks(calls', calls)
    BY <1>1, <2>2, AppendSame, SameItself
  <2> QED BY <2>1, <2>3, SettledKept, SameItself
<1>6. CASE RequestPairing
  <2>1. ~Pairing /\ ~PairingAnswers
    BY <1>6 DEF RequestPairing, NoOverlap, UInv, ViewTypes
  <2>2. UNCHANGED <<async, remote, panel>>
    BY <1>6 DEF RequestPairing, panelVars
  <2>3. PICK e \in Requests : calls' = Append(calls, e) /\ e.kind # "answer"
    <3>1. [kind |-> "stop"] \in Requests /\ [kind |-> "stop"].kind # "answer"
          /\ \A rotate \in BOOLEAN : [kind |-> "start", rotate |-> rotate] \in Requests
                                     /\ [kind |-> "start", rotate |-> rotate].kind # "answer"
      BY DEF Requests
    <3>2. \/ calls' = Append(calls, [kind |-> "stop"])
          \/ \E rotate \in BOOLEAN : calls' = Append(calls, [kind |-> "start", rotate |-> rotate])
      BY <1>6 DEF RequestPairing, Started
    <3> QED BY <3>1, <3>2
  <2>4. \A k \in DOMAIN calls : ~AsksPairing(calls[k])
    BY <2>1 DEF Pairing, AsksPairing
  <2>5. \A k \in DOMAIN async : ~TellsPairing(async[k])
    BY <2>1 DEF PairingAnswers, TellsPairing
  <2>6. \A k \in DOMAIN calls' : AsksPairing(calls'[k]) => k = Len(calls) + 1
    BY <1>1, <2>3, <2>4, AppendOf
  <2>7. \A k \in DOMAIN calls' : calls'[k].kind # "answer"
    BY <1>1, <2>3, <2>4, AppendOf DEF AsksPairing
  <2>8. Alone'
    BY <2>1, <2>2, <2>5, <2>6 DEF Alone, OneRequest, OneAnswer, PairingAnswers
  <2>9. panel.kind = "qrcode" => remote.on /\ remote.shown = remote.code
    BY <2>4, <2>5 DEF Settled, Shown, AsksPairing
  <2> QED BY <2>2, <2>5, <2>7, <2>8, <2>9 DEF Settled, Shown
<1>7. CASE Return
  <2>1. panel' = panel
    BY <1>7 DEF Return, panelVars
  <2>2. PICK i \in DOMAIN calls :
          ReadCatalogue(i) \/ ReadDetails(i) \/ StartPairing(i) \/ StopPairing(i) \/ AnswerPairing(i)
    BY <1>7 DEF Return
  <2>3. calls[i] \in Requests
    BY <1>1
  <2>4. ASSUME NEW r \in Results, ~TellsPairing(r), ~AsksPairing(calls[i]), NEW w, Answered(i, r, w), remote' = remote
        PROVE  Settled'
    <3>1. calls' = RemoveAt(calls, i) /\ (async' = async \/ async' = Append(async, r))
      BY <2>4 DEF Answered
    <3>2. SameAsks(calls', calls)
      BY <1>1, <2>4, <3>1, RemoveSame
    <3>3. SameTells(async', async)
      BY <1>1, <2>4, <3>1, AppendSame, SameItself
    <3> QED BY <2>1, <2>4, <3>2, <3>3, SettledKept
  <2>5. CASE ReadCatalogue(i)
    <3>1. PICK failed \in BOOLEAN :
            Answered(i, [kind |-> "models", agent |-> calls[i].agent, failed |-> failed,
                         catalogue |-> Catalogue(calls[i].agent)], FALSE)
      BY <2>5 DEF ReadCatalogue
    <3>2. calls[i].agent \in Agents /\ ~AsksPairing(calls[i])
      BY <2>3, <2>5 DEF ReadCatalogue, Requests, AsksPairing
    <3>3. Catalogue(calls[i].agent) \in Lists
      BY <3>2 DEF Catalogue, Lists, UInv, ViewTypes, Views
    <3> DEFINE r == [kind |-> "models", agent |-> calls[i].agent, failed |-> failed,
                     catalogue |-> Catalogue(calls[i].agent)]
    <3>4. r \in Results /\ ~TellsPairing(r)
      BY <3>2, <3>3 DEF Results, TellsPairing
    <3>5. remote' = remote
      BY <2>5 DEF ReadCatalogue
    <3> HIDE DEF r
    <3>6. Answered(i, r, FALSE)
      BY <3>1 DEF r
    <3> QED BY <2>4, <3>2, <3>4, <3>5, <3>6
  <2>6. CASE ReadDetails(i)
    <3>1. [kind |-> "details"] \in Results /\ ~TellsPairing([kind |-> "details"])
      BY DEF Results, TellsPairing
    <3> QED BY <2>4, <2>6, <3>1 DEF ReadDetails, AsksPairing
  <2>7. CASE StartPairing(i)
    <3>1. AsksPairing(calls[i]) /\ calls[i].kind # "answer" /\ remote \in PairingType
      BY <2>7 DEF StartPairing, AsksPairing, UInv, BesideTypes, PartTypes
    <3>2. CASE Acted(i, [kind |-> "started", failed |-> TRUE, code |-> 0]) /\ UNCHANGED remote
      <4> DEFINE r == [kind |-> "started", failed |-> TRUE, code |-> 0]
      <4>1. r \in Outcomes /\ SoStill(r, remote')
        BY DEF Outcomes, SoStill
      <4>2. Acted(i, r)
        BY <3>2
      <4> HIDE DEF r
      <4> QED BY <2>1, <3>1, <3>2, <4>1, <4>2, ActedSettled
    <3>3. CASE \E code \in Nat : remote' = [remote EXCEPT !.on = TRUE, !.code = code]
                                 /\ Acted(i, [kind |-> "started", failed |-> FALSE, code |-> code])
      <4>1. PICK code \in Nat : remote' = [remote EXCEPT !.on = TRUE, !.code = code]
                                 /\ Acted(i, [kind |-> "started", failed |-> FALSE, code |-> code])
        BY <3>3
      <4> DEFINE r == [kind |-> "started", failed |-> FALSE, code |-> code]
      <4>2. r \in Outcomes /\ Renews(r) /\ r.kind = "started" /\ r.code = code
        BY DEF Outcomes, Renews
      <4>3. remote'.on /\ remote'.code = code
        BY <3>1, <4>1 DEF PairingType
      <4>4. Acted(i, r)
        BY <4>1
      <4> HIDE DEF r
      <4>5. SoStill(r, remote')
        BY <4>2, <4>3 DEF SoStill
      <4> QED BY <2>1, <3>1, <4>2, <4>4, <4>5, ActedSettled
    <3>4. remote.code \in Nat /\ remote.code + 1 \in Nat
      BY <3>1 DEF PairingType
    <3> QED BY <2>7, <3>2, <3>3, <3>4 DEF StartPairing
  <2>8. CASE StopPairing(i)
    <3>1. AsksPairing(calls[i]) /\ calls[i].kind # "answer" /\ remote \in PairingType
      BY <2>8 DEF StopPairing, AsksPairing, UInv, BesideTypes, PartTypes
    <3> DEFINE r == [kind |-> "stopped", failed |-> FALSE]
    <3>2. r \in Outcomes /\ Renews(r) /\ r.kind = "stopped"
      BY DEF Outcomes, Renews
    <3>3. ~remote'.on
      BY <2>8, <3>1 DEF StopPairing, PairingType
    <3>4. Acted(i, r)
      BY <2>8 DEF StopPairing
    <3> HIDE DEF r
    <3>5. SoStill(r, remote')
      BY <3>2, <3>3 DEF SoStill
    <3> QED BY <2>1, <3>1, <3>2, <3>4, <3>5, ActedSettled
  <2>9. CASE AnswerPairing(i)
    BY <2>1, <2>9, AnsweredSettled
  <2> QED BY <2>2, <2>5, <2>6, <2>7, <2>8, <2>9
<1>8. CASE HandleAsync
  <2>1. CASE TellsPairing(Head(async))
    BY <1>8, <2>1, HandledSettled
  <2>2. CASE ~TellsPairing(Head(async))
    <3>1. async # << >> /\ async' = Tail(async) /\ calls' = calls /\ remote' = remote /\ panel' = panel
      BY <1>8, <2>2 DEF HandleAsync, PanelAfter, TellsPairing
    <3> QED BY <1>1, <2>2, <3>1, SettledKept, SameItself, TailSame
  <2> QED BY <2>1, <2>2
<1> QED BY <1>3, <1>4, <1>5, <1>6, <1>7, <1>8, BesideFrame, StepKinds DEF BesideSteps

-----------------------------------------------------------------------------
CurrentInv == UInv /\ Notices /\ ListsAgree /\ Settled

LEMMA CurrentInit ==
  ASSUME InterfaceInit
  PROVE  CurrentInv
<1>1. /\ bus = << >> /\ news = << >> /\ calls = << >> /\ async = << >> /\ live = sess
      /\ panel.kind = "none" /\ ~picker.loaded /\ picker.of = ""
      /\ heard.announced = {a \in Agents : sess.up[a]}
      /\ \A a \in Agents : heard.told[a] = IF sess.up[a] THEN "up" ELSE "none"
  BY DEF InterfaceInit, Closed
<1>2. DOMAIN bus = {} /\ DOMAIN news = {} /\ DOMAIN calls = {} /\ DOMAIN async = {}
  <2>1. DOMAIN << >> = {}
    OBVIOUS
  <2> QED BY <1>1, <2>1
<1>3. Notices
  BY <1>1, <1>2 DEF Notices, Followed, LastAgrees, Mentions
<1>4. ListsAgree
  BY <1>1, <1>2 DEF ListsAgree
<1>5. Settled
  BY <1>1, <1>2 DEF Settled, Alone, Shown, OneRequest, OneAnswer, Pairing, PairingAnswers
<1> QED BY <1>3, <1>4, <1>5, UInit DEF CurrentInv

LEMMA CurrentStep ==
  ASSUME CurrentInv, [InterfaceNext]_interfaceVars, Apart, NoOverlap
  PROVE  CurrentInv'
<1>1. CASE InterfaceNext
  BY <1>1, UStep, NoticesStep, ListsStep, SettledStep DEF CurrentInv
<1>2. CASE UNCHANGED interfaceVars
  <2>1. UNCHANGED <<scene, sess, live, bus, news, heard, panel, picker, drivers, calls, async, remote>>
    BY <1>2 DEF interfaceVars, sessionVars, panelVars, callVars
  <2>2. Notices'
    BY <2>1 DEF CurrentInv, Notices, Followed, LastAgrees, Mentions
  <2>3. ListsAgree'
    BY <2>1 DEF CurrentInv, ListsAgree, May, Catalogue
  <2>4. Settled'
    BY <2>1 DEF CurrentInv, Settled, Alone, Shown, Pairing, PairingAnswers
  <2> QED BY <2>2, <2>3, <2>4, UStep DEF CurrentInv
<1> QED BY <1>1, <1>2

\* What the interface shows agrees with the session once nothing is under way, for every
\* number of agents' connections lost and regained, calls and answers: the last line about
\* a connection, the catalogue, the driver and the pairing code.  It is said of scenes in
\* which drivers are not switched while models are listed, and in which the pairing is not
\* asked for while it is being asked for: with either the code shows what is no longer so.
THEOREM ScreenIsCurrentHolds ==
  ASSUME \A s \in Scenes : ~({"models", "drivers"} \subseteq s.topics) /\ "overlap" \notin s.known
  PROVE  InterfaceSpec => []ScreenIsCurrent
<1>1. Apart /\ NoOverlap
  BY DEF Apart, NoOverlap
<1>2. CurrentInv /\ [InterfaceNext]_interfaceVars => CurrentInv'
  BY <1>1, CurrentStep
<1>3. CurrentInv => ScreenIsCurrent
  <2> SUFFICES ASSUME CurrentInv PROVE ScreenIsCurrent
    OBVIOUS
  <2>1. bus = << >> /\ news = << >> /\ ~heard.missed => \A a \in Agents : heard.told[a] = "up" <=> sess.up[a]
    BY DEF CurrentInv, Notices, Followed, Mentions
  <2>2. panel.kind = "models" /\ picker.loaded => picker.all = Catalogue(picker.agent)
    BY DEF CurrentInv, ListsAgree
  <2>3. panel.kind = "drivers" => drivers.current = sess.driver[drivers.agent]
    BY DEF CurrentInv, ListsAgree
  <2>4. panel.kind = "qrcode" /\ ~Pairing /\ ~PairingAnswers => remote.on /\ remote.shown = remote.code
    BY DEF CurrentInv, Settled, Shown, Pairing, PairingAnswers, TellsPairing
  <2> QED BY <2>1, <2>2, <2>3, <2>4 DEF ScreenIsCurrent
<1> QED BY <1>2, <1>3, CurrentInit, PTL DEF InterfaceSpec
=============================================================================
