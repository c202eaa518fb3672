--------------------------- MODULE Sessions_proofs ---------------------------
(***************************************************************************)
(* One team: the agents of two processes are never at work on the same     *)
(* worktrees.  Only the lock keeps them apart, and it says nothing of      *)
(* teams; the invariant relates it to the program counters of all the      *)
(* commands that take it, and the first process, which takes a lock nobody *)
(* can contend, to the directory that only then comes into being.          *)
(* A second invariant follows a session from one process to the next: what *)
(* each remembers of it, what it may remove, and what its handlers save.   *)
(* The observer of a session, whose state is its own, follows at the end.  *)
(***************************************************************************)
EXTENDS Sessions, Observer, TLAPS

Pcs == {"off", "prepared", "fresh", "loaded", "owner", "handing", "starting", "started", "up",
        "stopping", "composing", "collecting", "composed", "stopped", "releasing", "released",
        "dropping", "dropped", "removing", "cancelling", "applying", "cleaning", "listing", "cleaned",
        "clearing", "probing"}

\* Where a process has the lock, and where its agents run.
Owners == {"fresh", "owner", "handing", "starting", "started", "up", "stopping", "composing",
           "collecting", "composed", "stopped", "releasing", "cleaned", "probing"}
Teams == {"started", "up", "stopping"}

Handlers == {"none", "turn", "approval", "final", "pending", "landed", "applied"}
Wants == {"none", "new", "recall"}

Holds == {"none", "start", "command", "close"}

Process == [pc : Pcs, mu : Holds, deaf : BOOLEAN, seen : Records, mem : Records, comp : Records, team : BOOLEAN,
            handler : Handlers,
            bye : BOOLEAN, journal : BOOLEAN, want : Wants,
            restart : BOOLEAN, discarded : BOOLEAN]

Disk == [dir : {"none", "present", "emptied"}, rec : Records, trees : BOOLEAN, work : BOOLEAN,
         landed : BOOLEAN]

Types == /\ setup \in Setups
         /\ disk \in Disk
         /\ lock \in Procs \cup {Nobody}
         /\ me \in [Procs -> Process]
         /\ count \in [Bounds -> Nat]

\* The lock is held by whoever acts as if it were, and a team needs it.
Locked == \A p \in Procs : me[p].pc \in Owners => lock = p
Teamed == \A p \in Procs : me[p].team => me[p].pc \in Teams

\* Before the session is made nothing runs; until its directory is, its maker is alone.
Unmade == count["fresh"] = 0 => disk.dir = "none" /\ \A p \in Procs : me[p].pc = "off"
Alone == \A p \in Procs : me[p].pc = "prepared"
           => /\ disk.dir = "none" /\ count["fresh"] # 0
              /\ \A q \in Procs \ {p} : me[q].pc = "off"

IInv == Types /\ Locked /\ Teamed /\ Unmade /\ Alone

\* A step of p that keeps to the discipline of the lock keeps the invariant.
LEMMA Onward ==
  ASSUME IInv, NEW p \in Procs, me[p].pc # "off" \/ disk.dir # "none",
         me' \in [Procs -> Process], \A q \in Procs \ {p} : me'[q] = me[q],
         me'[p].pc # "prepared",
         me'[p].pc \in Owners => lock' = p,
         me'[p].team => me'[p].pc \in Teams,
         lock' = lock \/ lock \in {p, Nobody} \/ me[p].pc = "prepared",
         lock' \in Procs \cup {Nobody},
         disk' \in Disk, setup' = setup,
         count' \in [Bounds -> Nat], count'["fresh"] = count["fresh"]
  PROVE  IInv'
<1>1. Types'
  BY DEF Types, IInv
<1>2. Locked'
  BY ProcsAssumption DEF Locked, Alone, IInv, Types, Owners
<1>3. Teamed'
  BY DEF Teamed, IInv
<1>4. Unmade' /\ Alone'
  BY DEF Unmade, Alone, IInv
<1> QED BY <1>1, <1>2, <1>3, <1>4 DEF IInv

\* So does one that leaves the lock, the program counters and the agents alone.
LEMMA Beside ==
  ASSUME IInv, NEW p \in Procs,
         me' \in [Procs -> Process], \A q \in Procs \ {p} : me'[q] = me[q],
         me'[p].pc = me[p].pc, me'[p].team => me[p].team,
         disk' \in Disk, disk.dir = "none" => disk'.dir = "none",
         UNCHANGED <<setup, lock>>,
         count' \in [Bounds -> Nat], count'["fresh"] = count["fresh"]
  PROVE  IInv'
<1>1. Types'
  BY DEF Types, IInv
<1>2. Locked' /\ Teamed'
  BY DEF Locked, Teamed, IInv
<1>3. Unmade' /\ Alone'
  BY DEF Unmade, Alone, IInv
<1> QED BY <1>1, <1>2, <1>3 DEF IInv

\* A bound other than that of the first session leaves that one alone.
LEMMA SpendKeeps ==
  ASSUME Types, NEW what \in Bounds \ {"fresh"}, Spend(what)
  PROVE  count' \in [Bounds -> Nat] /\ count'["fresh"] = count["fresh"]
BY DEF Types, Spend, Bounds

\* A save keeps the directory's type and makes no directory.
LEMMA SavedKeeps ==
  ASSUME NEW d \in Disk, NEW r \in Records
  PROVE  Saved(d, r) \in Disk /\ (d.dir = "none" => Saved(d, r) = d)
BY DEF Saved, Disk

\* The initial records are typed.
LEMMA Fresh == NoRecord \in Records /\ NewRecord \in Records /\ NoProcess \in Process
BY DEF NoRecord, NewRecord, Records, NoProcess, Process, Pcs, Holds, Handlers, Wants

\* The values the program counter takes.
LEMMA InPcs ==
  /\ "off" \in Pcs /\ "prepared" \in Pcs /\ "fresh" \in Pcs
  /\ "loaded" \in Pcs /\ "owner" \in Pcs /\ "handing" \in Pcs
  /\ "starting" \in Pcs /\ "started" \in Pcs /\ "up" \in Pcs
  /\ "stopping" \in Pcs /\ "composing" \in Pcs /\ "composed" \in Pcs /\ "collecting" \in Pcs
  /\ "stopped" \in Pcs /\ "releasing" \in Pcs /\ "released" \in Pcs
  /\ "dropping" \in Pcs /\ "dropped" \in Pcs /\ "removing" \in Pcs
  /\ "cancelling" \in Pcs /\ "applying" \in Pcs /\ "cleaning" \in Pcs
  /\ "listing" \in Pcs /\ "cleaned" \in Pcs /\ "clearing" \in Pcs
  /\ "probing" \in Pcs
  /\ "none" \in Handlers /\ "turn" \in Handlers /\ "approval" \in Handlers /\ "landed" \in Handlers
  /\ "none" \in Wants /\ "new" \in Wants /\ "recall" \in Wants
  /\ "none" \in Holds /\ "start" \in Holds /\ "command" \in Holds /\ "close" \in Holds
BY DEF Pcs, Holds, Handlers, Wants

\* A process that ends.
LEMMA Gone ==
  ASSUME IInv, NEW p \in Procs, me' = [me EXCEPT ![p] = NoProcess]
  PROVE  /\ me' \in [Procs -> Process] /\ \A q \in Procs \ {p} : me'[q] = me[q]
         /\ me'[p].pc = "off" /\ ~me'[p].team
BY Fresh DEF NoProcess, IInv, Types

\* A process that only moves on.
LEMMA Goes ==
  ASSUME IInv, NEW p \in Procs, NEW x \in Pcs, Go(p, x)
  PROVE  /\ me' \in [Procs -> Process] /\ \A q \in Procs \ {p} : me'[q] = me[q]
         /\ me'[p].pc = x /\ me'[p].team = me[p].team
BY DEF Go, IInv, Types, Process

\* Only one's own lock is given back.
LEMMA UnlockedIs ==
  ASSUME IInv, NEW p \in Procs
  PROVE  Unlocked(p) \in Procs \cup {Nobody} /\ (Unlocked(p) = lock \/ lock = p)
BY DEF Unlocked, IInv, Types

\* What a process and the disk hold is a record of the right kind.
LEMMA Typed ==
  ASSUME IInv, NEW p \in Procs
  PROVE  me[p].mem \in Records /\ me[p].seen \in Records /\ me[p].comp \in Records /\ disk \in Disk
BY DEF IInv, Types, Process

\* A handler that changes the record in memory and saves it.
LEMMA HandledKeeps ==
  ASSUME IInv, NEW p \in Procs, NEW r \in Records,
         NEW next \in Handlers, Handled(p, r, next)
  PROVE  IInv'
<1>1. /\ me' \in [Procs -> Process] /\ \A q \in Procs \ {p} : me'[q] = me[q]
      /\ me'[p].pc = me[p].pc /\ me'[p].team = me[p].team
  BY ZenonT(60) DEF Handled, IInv, Types, Process
<1>2. disk' \in Disk /\ (disk.dir = "none" => disk'.dir = "none")
  BY SavedKeeps, Typed DEF Handled
<1> QED BY <1>1, <1>2, Beside DEF Handled, IInv, Types

\* The steps that start or resume a session.
LEMMA StartKeeps ==
  ASSUME IInv, NEW p \in Procs, Start(p)
  PROVE  IInv'
<1>1. CASE Prepare(p)
  <2>1. count["fresh"] = 0 /\ count' \in [Bounds -> Nat] /\ count'["fresh"] # 0
    BY <1>1, SetupsAssumption DEF Prepare, Spend, IInv, Types, Bounds
  <2>2. disk' \in Disk /\ disk'.dir = "none"
    BY <1>1, Fresh DEF Prepare, NoDisk, Disk
  <2>3. /\ me' \in [Procs -> Process] /\ \A q \in Procs \ {p} : me'[q] = me[q]
        /\ me'[p].pc = "prepared" /\ ~me'[p].team
    BY <1>1, Fresh, InPcs DEF Prepare, IInv, Types, NoProcess, Process
  <2>4. \A q \in Procs : me[q].pc = "off"
    BY <2>1 DEF IInv, Unmade
  <2>5. Types' /\ UNCHANGED lock
    BY <1>1, <2>1, <2>2, <2>3 DEF Prepare, IInv, Types
  <2>6. Locked' /\ Teamed'
    BY <2>3, <2>4, <2>5 DEF IInv, Locked, Teamed, Owners
  <2>7. Unmade' /\ Alone'
    BY <2>1, <2>2, <2>3, <2>4 DEF Unmade, Alone
  <2> QED BY <2>5, <2>6, <2>7 DEF IInv
<1>2. CASE NewStore(p)
  <2>1. /\ me' \in [Procs -> Process] /\ \A q \in Procs \ {p} : me'[q] = me[q]
        /\ me'[p].pc = "fresh" /\ me'[p].team = me[p].team
    BY <1>2, Fresh, InPcs DEF NewStore, IInv, Types, Process
  <2>2. disk' \in Disk
    BY <1>2, Fresh DEF NewStore, IInv, Types, Disk
  <2> QED BY <1>2, <2>1, <2>2, Onward DEF NewStore, IInv, Types, Locked, Teamed, Owners, Teams
<1>3. CASE FirstSave(p)
  <2>1. /\ me' \in [Procs -> Process] /\ \A q \in Procs \ {p} : me'[q] = me[q]
        /\ me'[p].pc = "starting" /\ me'[p].team = me[p].team
    BY <1>3, Goes DEF FirstSave, Pcs
  <2>2. disk' \in Disk /\ (disk.dir = "none" => disk'.dir = "none")
    BY <1>3, SavedKeeps, Typed DEF FirstSave, IInv, Types
  <2> QED BY <1>3, <2>1, <2>2, Onward DEF FirstSave, IInv, Types, Locked, Teamed, Owners, Teams
<1>4. CASE SelectSession(p)
  <2>1. /\ me' \in [Procs -> Process] /\ \A q \in Procs \ {p} : me'[q] = me[q]
        /\ me'[p].pc = "loaded" /\ ~me'[p].team
    BY <1>4, Fresh, InPcs DEF SelectSession, IInv, Types, Process, NoProcess, Disk
  <2>3. count' \in [Bounds -> Nat] /\ count'["fresh"] = count["fresh"]
    BY <1>4, SpendKeeps DEF SelectSession, IInv, Bounds
  <2> QED BY <1>4, <2>1, <2>3, Onward DEF SelectSession, Readable, IInv, Types, Locked, Teamed, Owners, Teams
<1>5. CASE TakeLock(p)
  <2>1. /\ me' \in [Procs -> Process] /\ \A q \in Procs \ {p} : me'[q] = me[q]
        /\ me'[p].pc = (IF CanLock THEN "owner" ELSE "off") /\ (me'[p].team => me[p].team)
    BY <1>5, Fresh, InPcs DEF TakeLock, IInv, Types, Process, NoProcess
  <2> QED BY <1>5, <2>1, Onward DEF TakeLock, CanLock, IInv, Types, Locked, Teamed, Owners, Teams
<1>6. CASE Reconcile(p)
  <2> DEFINE r == me[p].seen
             saved == IF r.phase = "final" /\ r.delivery = "applied"
                      THEN [r EXCEPT !.phase = "done"]
                      ELSE IF AwaitsHandOff(r) THEN [r EXCEPT !.delivery = "pending"] ELSE r
             ended == me' = [me EXCEPT ![p] = NoProcess] /\ lock' = Unlocked(p)
             kept == /\ me' = [me EXCEPT ![p].mem = r, ![p].seen = NoRecord,
                                         ![p].pc = IF AwaitsHandOff(r) THEN "handing" ELSE "starting"]
                     /\ lock' = lock
  <2>1. me[p].pc = "owner" /\ (ended \/ kept) /\ disk' \in {disk, Saved(disk, saved)}
        /\ UNCHANGED <<setup, count>>
    BY <1>6 DEF Reconcile
  <2>2. saved \in Records
    BY Typed DEF Records
  <2>3. disk' \in Disk
    BY <2>1, <2>2, SavedKeeps, Typed
  <2>4. CASE ended
    BY <2>1, <2>3, <2>4, Gone, UnlockedIs, Onward DEF IInv, Types, Owners
  <2>5. CASE kept
    <3>1. /\ me' \in [Procs -> Process] /\ \A q \in Procs \ {p} : me'[q] = me[q]
          /\ me'[p].pc \in {"handing", "starting"} /\ me'[p].team = me[p].team
      BY <2>5, Fresh, InPcs, Typed, ZenonT(60) DEF IInv, Types, Process
    <3> QED BY <2>1, <2>3, <2>5, <3>1, Onward DEF IInv, Types, Locked, Teamed, Owners, Teams
  <2> QED BY <2>1, <2>4, <2>5
<1>7. CASE HandOff(p)
  <2>1. [me[p].mem EXCEPT !.phase = "done", !.delivery = "applied"] \in Records
    BY Typed DEF Records
  <2>2. Delivered(disk, me[p].mem) \in Disk
    BY <2>1, SavedKeeps, Typed DEF Delivered, Disk
  <2>3. disk' \in Disk
    BY <1>7, <2>2, Typed DEF HandOff
  <2> QED BY <1>7, <2>3, Gone, UnlockedIs, Onward DEF HandOff, IInv, Types, Owners
<1>8. CASE StartTeam(p)
  <2>1. /\ me' \in [Procs -> Process] /\ \A q \in Procs \ {p} : me'[q] = me[q]
        /\ me'[p].pc = "started" /\ me'[p].team
    BY <1>8, Fresh, InPcs DEF StartTeam, IInv, Types, Process
  <2> QED BY <1>8, <2>1, Onward DEF StartTeam, IInv, Types, Locked, Teamed, Owners, Teams
<1>9. CASE LaunchFails(p)
  <2>1. /\ me' \in [Procs -> Process] /\ \A q \in Procs \ {p} : me'[q] = me[q]
        /\ me'[p].pc = "stopping" /\ me'[p].team = me[p].team
    <3>1. PICK b \in BOOLEAN : me' = [me EXCEPT ![p].pc = "stopping", ![p].deaf = b]
      BY <1>9, SetupsAssumption DEF LaunchFails, IInv, Types
    <3> QED BY <3>1, InPcs, ZenonT(60) DEF IInv, Types, Process
  <2>3. count' \in [Bounds -> Nat] /\ count'["fresh"] = count["fresh"]
    BY <1>9, SpendKeeps DEF LaunchFails, IInv, Bounds
  <2> QED BY <1>9, <2>1, <2>3, Onward DEF LaunchFails, IInv, Types, Locked, Teamed, Owners, Teams
<1>10. CASE StartupSave(p)
  <2>1. /\ me' \in [Procs -> Process] /\ \A q \in Procs \ {p} : me'[q] = me[q]
        /\ me'[p].pc = "up" /\ me'[p].team = me[p].team
    BY <1>10, InPcs, ZenonT(60) DEF StartupSave, IInv, Types, Process
  <2>2. disk' \in Disk /\ (disk.dir = "none" => disk'.dir = "none")
    BY <1>10, SavedKeeps, Typed DEF StartupSave, IInv, Types
  <2> QED BY <1>10, <2>1, <2>2, Onward DEF StartupSave, IInv, Types, Locked, Teamed, Owners, Teams
<1> QED BY <1>1, <1>2, <1>3, <1>4, <1>5, <1>6, <1>7, <1>8, <1>9, <1>10 DEF Start

\* The handlers of the bridge, wherever the process has got to.
LEMMA HandlerKeeps ==
  ASSUME IInv, NEW p \in Procs, Handler(p)
  PROVE  IInv'
<1>1. CASE TurnStarts(p)
  BY <1>1, HandledKeeps, Typed DEF TurnStarts, Records, Handlers
<1>2. CASE Approves(p)
  BY <1>2, HandledKeeps, Typed DEF Approves, Records, Handlers
<1>3. CASE DeliveryBegins(p)
  BY <1>3, HandledKeeps, Typed DEF DeliveryBegins, Records, Handlers
<1>4. CASE Lands(p)
  <2>1. /\ me' \in [Procs -> Process] /\ \A q \in Procs \ {p} : me'[q] = me[q]
        /\ me'[p].pc = me[p].pc /\ me'[p].team = me[p].team
    BY <1>4, Fresh, InPcs DEF Lands, IInv, Types, Process
  <2>2. disk' \in Disk /\ (disk.dir = "none" => disk'.dir = "none")
    BY <1>4, Fresh DEF Lands, IInv, Types, Disk
  <2> QED BY <1>4, <2>1, <2>2, Beside DEF Lands, IInv, Types
<1>5. CASE Receipt(p)
  BY <1>5, HandledKeeps, Typed DEF Receipt, Records, Handlers
<1>6. CASE Completes(p)
  BY <1>6, HandledKeeps, Typed DEF Completes, Records, Handlers
<1>7. CASE Disconnected(p)
  <2>1. /\ me' \in [Procs -> Process] /\ \A q \in Procs \ {p} : me'[q] = me[q]
        /\ me'[p].pc = me[p].pc /\ me'[p].team = me[p].team
    BY <1>7, Fresh, InPcs DEF Disconnected, IInv, Types, Process
  <2>2. disk' \in Disk /\ (disk.dir = "none" => disk'.dir = "none")
    BY <1>7, Fresh DEF Disconnected, IInv, Types, Disk, Appended
  <2> QED BY <1>7, <2>1, <2>2, Beside DEF Disconnected, IInv, Types
<1> QED BY <1>1, <1>2, <1>3, <1>4, <1>5, <1>6, <1>7 DEF Handler

\* What the human and the agents do in a live session.
LEMMA RunKeeps ==
  ASSUME IInv, NEW p \in Procs, Run(p)
  PROVE  IInv'
<1>1. CASE Task(p)
  <2> DEFINE r == me[p].mem
             next == [started |-> TRUE, phase |-> IF r.phase = "done" THEN "work" ELSE r.phase,
                      delivery |-> IF r.phase = "done" THEN "none" ELSE r.delivery]
  <2>1. next \in Records
    BY Typed DEF Records
  <2>2. me' = [me EXCEPT ![p].mem = next, ![p].mu = "command"] /\ disk' = Saved(disk, next) /\ Spend("tasks")
        /\ UNCHANGED <<setup, lock>>
    BY <1>1 DEF Task, Change
  <2> HIDE DEF next
  <2>3. /\ me' \in [Procs -> Process] /\ \A q \in Procs \ {p} : me'[q] = me[q]
        /\ me'[p].pc = me[p].pc /\ me'[p].team = me[p].team
    BY <2>1, <2>2, InPcs, ZenonT(60) DEF IInv, Types, Process
  <2>4. disk' \in Disk /\ (disk.dir = "none" => disk'.dir = "none")
    BY <2>1, <2>2, SavedKeeps, Typed
  <2>5. count' \in [Bounds -> Nat] /\ count'["fresh"] = count["fresh"]
    BY <2>2, SpendKeeps DEF IInv, Bounds
  <2> QED BY <2>2, <2>3, <2>4, <2>5, Beside
<1>2. CASE Work(p)
  <2>1. /\ me' \in [Procs -> Process] /\ \A q \in Procs \ {p} : me'[q] = me[q]
        /\ me'[p].pc = me[p].pc /\ me'[p].team = me[p].team
    BY <1>2, Fresh, InPcs DEF Work, IInv, Types, Process
  <2>2. disk' \in Disk /\ (disk.dir = "none" => disk'.dir = "none")
    BY <1>2, Fresh DEF Work, IInv, Types, Disk
  <2> QED BY <1>2, <2>1, <2>2, Beside DEF Work, IInv, Types
<1>3. CASE Arrives(p)
  <2>1. /\ me' \in [Procs -> Process] /\ \A q \in Procs \ {p} : me'[q] = me[q]
        /\ me'[p].pc = me[p].pc /\ me'[p].team = me[p].team
    <3>1. PICK call \in Handlers : me' = [me EXCEPT ![p].handler = call]
      BY <1>3 DEF Arrives, Handlers
    <3> QED BY <3>1 DEF IInv, Types, Process
  <2>3. count' \in [Bounds -> Nat] /\ count'["fresh"] = count["fresh"]
    BY <1>3, SpendKeeps DEF Arrives, IInv, Bounds
  <2> QED BY <1>3, <2>1, <2>3, Beside DEF Arrives, IInv, Types
<1>4. CASE AskRestart(p)
  <2>1. /\ me' \in [Procs -> Process] /\ \A q \in Procs \ {p} : me'[q] = me[q]
        /\ me'[p].pc = me[p].pc /\ me'[p].team = me[p].team
    BY <1>4, Fresh, InPcs DEF AskRestart, IInv, Types, Process
  <2>3. count' \in [Bounds -> Nat] /\ count'["fresh"] = count["fresh"]
    BY <1>4, SpendKeeps DEF AskRestart, IInv, Bounds
  <2> QED BY <1>4, <2>1, <2>3, Beside DEF AskRestart, IInv, Types
<1>5. CASE RequestNew(p)
  <2>1. /\ me' \in [Procs -> Process] /\ \A q \in Procs \ {p} : me'[q] = me[q]
        /\ me'[p].pc = me[p].pc /\ me'[p].team = me[p].team
    BY <1>5, Fresh, InPcs DEF RequestNew, IInv, Types, Process
  <2>3. count' \in [Bounds -> Nat] /\ count'["fresh"] = count["fresh"]
    BY <1>5, SpendKeeps DEF RequestNew, IInv, Bounds
  <2> QED BY <1>5, <2>1, <2>3, Beside DEF RequestNew, IInv, Types
<1>6. CASE RequestRecall(p)
  <2>1. /\ me' \in [Procs -> Process] /\ \A q \in Procs \ {p} : me'[q] = me[q]
        /\ me'[p].pc = me[p].pc /\ ~me'[p].team
    <3>1. PICK b \in BOOLEAN : me' = [me EXCEPT ![p] = [@ EXCEPT !.want = "recall", !.mu = "command",
                                                           !.team = FALSE, !.bye = b]]
      BY <1>6 DEF RequestRecall, IInv, Types, Process
    <3>2. [me[p] EXCEPT !.want = "recall", !.mu = "command", !.team = FALSE, !.bye = b] \in Process
      BY InPcs DEF IInv, Types, Process
    <3>3. /\ [me[p] EXCEPT !.want = "recall", !.mu = "command", !.team = FALSE, !.bye = b].pc = me[p].pc
          /\ ~[me[p] EXCEPT !.want = "recall", !.mu = "command", !.team = FALSE, !.bye = b].team
      BY DEF IInv, Types, Process
    <3> QED BY <3>1, <3>2, <3>3 DEF IInv, Types
  <2>3. count' \in [Bounds -> Nat] /\ count'["fresh"] = count["fresh"]
    BY <1>6, SpendKeeps DEF RequestRecall, IInv, Bounds
  <2> QED BY <1>6, <2>1, <2>3, Beside DEF RequestRecall, IInv, Types
<1>7. CASE Quit(p)
  <2>1. /\ me' \in [Procs -> Process] /\ \A q \in Procs \ {p} : me'[q] = me[q]
        /\ me'[p].pc = "stopping" /\ me'[p].team = me[p].team
    BY <1>7, Goes DEF Quit, Pcs
  <2> QED BY <1>7, <2>1, Onward DEF Quit, IInv, Types, Locked, Teamed, Owners, Teams
<1> QED BY <1>1, <1>2, <1>3, <1>4, <1>5, <1>6, <1>7 DEF Run

\* Closing: the agents stop before the lock is given back.
LEMMA CloseKeeps ==
  ASSUME IInv, NEW p \in Procs, Close(p)
  PROVE  IInv'
<1>1. CASE StopTeam(p)
  <2>1. /\ me' \in [Procs -> Process] /\ \A q \in Procs \ {p} : me'[q] = me[q]
        /\ me'[p].pc \in {"stopped", "composing"} /\ ~me'[p].team
    <3> DEFINE x == IF me[p].want = "recall" THEN "stopped" ELSE "composing"
               b == me[p].bye \/ me[p].team
    <3>1. b \in BOOLEAN /\ x \in {"stopped", "composing"} /\ x \in Pcs
      BY InPcs
    <3>2. me' = [me EXCEPT ![p] = [@ EXCEPT !.mu = "close", !.pc = x, !.team = FALSE, !.bye = b]]
      BY <1>1 DEF StopTeam, IInv, Types
    <3> HIDE DEF x, b
    <3>3. [me[p] EXCEPT !.mu = "close", !.pc = x, !.team = FALSE, !.bye = b] \in Process
      BY <3>1, InPcs DEF IInv, Types, Process
    <3>4. [me[p] EXCEPT !.mu = "close", !.pc = x, !.team = FALSE, !.bye = b].pc = x
          /\ ~[me[p] EXCEPT !.mu = "close", !.pc = x, !.team = FALSE, !.bye = b].team
      BY DEF IInv, Types, Process
    <3> QED BY <3>1, <3>2, <3>3, <3>4 DEF IInv, Types
  <2> QED BY <1>1, <2>1, Onward DEF StopTeam, IInv, Types, Locked, Teamed, Owners, Teams
<1>2. CASE ComposeDelivery(p)
  <2>1. /\ me' \in [Procs -> Process] /\ \A q \in Procs \ {p} : me'[q] = me[q]
        /\ me'[p].pc = "collecting" /\ me'[p].team = me[p].team
    <3>1. PICK r \in Records : me' = [me EXCEPT ![p].pc = "collecting", ![p].comp = r]
      <4>1. [me[p].comp EXCEPT !.delivery = me[p].mem.delivery] \in Records
        BY Typed DEF Records
      <4> QED BY <1>2, <4>1 DEF ComposeDelivery
    <3> QED BY <3>1, InPcs, ZenonT(60) DEF IInv, Types, Process
  <2> QED BY <1>2, <2>1, Onward DEF ComposeDelivery, IInv, Types, Locked, Teamed, Owners, Teams
<1>11. CASE ComposeProject(p)
  <2>1. /\ me' \in [Procs -> Process] /\ \A q \in Procs \ {p} : me'[q] = me[q]
        /\ me'[p].pc = "composed" /\ me'[p].team = me[p].team
    <3>1. PICK r \in Records : me' = [me EXCEPT ![p].pc = "composed", ![p].comp = r]
      <4>1. [me[p].mem EXCEPT !.delivery = me[p].comp.delivery] \in Records
        BY Typed DEF Records
      <4> QED BY <1>11, <4>1 DEF ComposeProject
    <3> QED BY <3>1, InPcs, ZenonT(60) DEF IInv, Types, Process
  <2> QED BY <1>11, <2>1, Onward DEF ComposeProject, IInv, Types, Locked, Teamed, Owners, Teams
<1>3. CASE FinalSave(p)
  <2>1. /\ me' \in [Procs -> Process] /\ \A q \in Procs \ {p} : me'[q] = me[q]
        /\ me'[p].pc = "stopped" /\ me'[p].team = me[p].team
    BY <1>3, Fresh, InPcs DEF FinalSave, IInv, Types, Process
  <2>2. disk' \in Disk /\ (disk.dir = "none" => disk'.dir = "none")
    BY <1>3, SavedKeeps, Typed DEF FinalSave, IInv, Types, Records
  <2> QED BY <1>3, <2>1, <2>2, Onward DEF FinalSave, IInv, Types, Locked, Teamed, Owners, Teams
<1>4. CASE CloseJournal(p)
  <2>1. /\ me' \in [Procs -> Process] /\ \A q \in Procs \ {p} : me'[q] = me[q]
        /\ me'[p].pc = "releasing" /\ me'[p].team = me[p].team
    BY <1>4, Fresh, InPcs DEF CloseJournal, IInv, Types, Process
  <2> QED BY <1>4, <2>1, Onward DEF CloseJournal, IInv, Types, Locked, Teamed, Owners, Teams
<1>5. CASE Release(p)
  <2>1. /\ me' \in [Procs -> Process] /\ \A q \in Procs \ {p} : me'[q] = me[q]
        /\ me'[p].pc = "released" /\ me'[p].team = me[p].team
    BY <1>5, Goes DEF Release, Pcs
  <2> QED BY <1>5, <2>1, UnlockedIs, Onward DEF Release, IInv, Types, Locked, Teamed, Owners, Teams
<1>6. CASE Decide(p)
  <2>1. /\ me' \in [Procs -> Process] /\ \A q \in Procs \ {p} : me'[q] = me[q]
        /\ me'[p].pc \in {"dropping", "cancelling"} /\ me'[p].team = me[p].team
    BY <1>6, Goes DEF Decide, Pcs
  <2> QED BY <1>6, <2>1, Onward DEF Decide, IInv, Types, Locked, Teamed, Owners, Teams
<1>7. CASE DropTrees(p)
  <2>1. /\ me' \in [Procs -> Process] /\ \A q \in Procs \ {p} : me'[q] = me[q]
        /\ me'[p].pc = "dropped" /\ me'[p].team = me[p].team
    BY <1>7, Goes DEF DropTrees, Pcs
  <2>2. disk' \in Disk /\ (disk.dir = "none" => disk'.dir = "none")
    BY <1>7, Fresh DEF DropTrees, IInv, Types, Disk
  <2> QED BY <1>7, <2>1, <2>2, Onward DEF DropTrees, IInv, Types, Locked, Teamed, Owners, Teams
<1>8. CASE EmptyRecord(p)
  <2>1. /\ me' \in [Procs -> Process] /\ \A q \in Procs \ {p} : me'[q] = me[q]
        /\ me'[p].pc = "removing" /\ me'[p].team = me[p].team
    BY <1>8, Goes DEF EmptyRecord, Pcs
  <2>2. disk' \in Disk /\ (disk.dir = "none" => disk'.dir = "none")
    BY <1>8, Fresh DEF EmptyRecord, IInv, Types, Disk, Emptied
  <2> QED BY <1>8, <2>1, <2>2, Onward DEF EmptyRecord, IInv, Types, Locked, Teamed, Owners, Teams
<1>9. CASE RemoveRecord(p)
  <2>1. /\ me' \in [Procs -> Process] /\ \A q \in Procs \ {p} : me'[q] = me[q]
        /\ me'[p].pc = "cancelling" /\ me'[p].team = me[p].team
    BY <1>9, Fresh, InPcs, ZenonT(60) DEF RemoveRecord, IInv, Types, Process
  <2>2. disk' \in Disk /\ (disk.dir = "none" => disk'.dir = "none")
    BY <1>9, Fresh DEF RemoveRecord, IInv, Types, Disk
  <2> QED BY <1>9, <2>1, <2>2, Onward DEF RemoveRecord, IInv, Types, Locked, Teamed, Owners, Teams
<1>10. CASE Closed(p)
  <2>1. /\ me' \in [Procs -> Process] /\ \A q \in Procs \ {p} : me'[q] = me[q]
        /\ me'[p].pc = "off" /\ ~me'[p].team
    BY <1>10, Gone DEF Closed
  <2> QED BY <1>10, <2>1, Onward DEF Closed, IInv, Types, Locked, Teamed, Owners, Teams
<1> QED BY <1>1, <1>2, <1>3, <1>4, <1>5, <1>6, <1>7, <1>8, <1>9, <1>10, <1>11 DEF Close

\* `duo apply`, `duo clean` and `duo sessions`.
LEMMA ToolsKeeps ==
  ASSUME IInv, NEW p \in Procs, Tools(p)
  PROVE  IInv'
<1>1. CASE Apply(p)
  <2>1. /\ me' \in [Procs -> Process] /\ \A q \in Procs \ {p} : me'[q] = me[q]
        /\ me'[p].pc = "applying" /\ ~me'[p].team
    BY <1>1, Fresh, InPcs DEF Apply, IInv, Types, Process, Tool, NoProcess, Disk
  <2>3. count' \in [Bounds -> Nat] /\ count'["fresh"] = count["fresh"]
    BY <1>1, SpendKeeps DEF Apply, IInv, Bounds, Tool
  <2> QED BY <1>1, <2>1, <2>3, Onward DEF Apply, Tool, Readable, IInv, Types, Locked, Teamed, Owners, Teams
<1>2. CASE Clean(p)
  <2>1. /\ me' \in [Procs -> Process] /\ \A q \in Procs \ {p} : me'[q] = me[q]
        /\ me'[p].pc = "cleaning" /\ ~me'[p].team
    BY <1>2, Fresh, InPcs DEF Clean, IInv, Types, Process, Tool, NoProcess, Disk
  <2>3. count' \in [Bounds -> Nat] /\ count'["fresh"] = count["fresh"]
    BY <1>2, SpendKeeps DEF Clean, IInv, Bounds, Tool
  <2> QED BY <1>2, <2>1, <2>3, Onward DEF Clean, Tool, Readable, IInv, Types, Locked, Teamed, Owners, Teams
<1>3. CASE Sessions(p)
  <2>1. /\ me' \in [Procs -> Process] /\ \A q \in Procs \ {p} : me'[q] = me[q]
        /\ me'[p].pc = "listing" /\ ~me'[p].team
    BY <1>3, Fresh, InPcs DEF Sessions, IInv, Types, Process, Tool, NoProcess, Disk
  <2>3. count' \in [Bounds -> Nat] /\ count'["fresh"] = count["fresh"]
    BY <1>3, SpendKeeps DEF Sessions, IInv, Bounds, Tool
  <2> QED BY <1>3, <2>1, <2>3, Onward DEF Sessions, Tool, Readable, IInv, Types, Locked, Teamed, Owners, Teams
<1>4. CASE ApplyLock(p)
  <2>1. /\ me' \in [Procs -> Process] /\ \A q \in Procs \ {p} : me'[q] = me[q]
        /\ me'[p].pc = (IF CanLock THEN "handing" ELSE "off") /\ (me'[p].team => me[p].team)
    BY <1>4, Fresh, InPcs DEF ApplyLock, IInv, Types, Process, Owned, NoProcess
  <2> QED BY <1>4, <2>1, Onward DEF ApplyLock, Owned, CanLock, IInv, Types, Locked, Teamed, Owners, Teams
<1>5. CASE CleanLock(p)
  <2>1. /\ me' \in [Procs -> Process] /\ \A q \in Procs \ {p} : me'[q] = me[q]
        /\ me'[p].pc = (IF CanLock THEN "cleaned" ELSE "off") /\ (me'[p].team => me[p].team)
    BY <1>5, Fresh, InPcs DEF CleanLock, IInv, Types, Process, Owned, NoProcess
  <2> QED BY <1>5, <2>1, Onward DEF CleanLock, Owned, CanLock, IInv, Types, Locked, Teamed, Owners, Teams
<1>6. CASE Probe(p)
  <2>1. /\ me' \in [Procs -> Process] /\ \A q \in Procs \ {p} : me'[q] = me[q]
        /\ me'[p].pc = (IF CanLock THEN "probing" ELSE "off") /\ (me'[p].team => me[p].team)
    BY <1>6, Fresh, InPcs DEF Probe, IInv, Types, Process, Owned, NoProcess
  <2> QED BY <1>6, <2>1, Onward DEF Probe, Owned, CanLock, IInv, Types, Locked, Teamed, Owners, Teams
<1>7. CASE CleanTrees(p)
  <2>1. /\ me' \in [Procs -> Process] /\ \A q \in Procs \ {p} : me'[q] = me[q]
        /\ me'[p].pc = "clearing" /\ me'[p].team = me[p].team
    BY <1>7, Goes DEF CleanTrees, Pcs
  <2>2. disk' \in Disk /\ (disk.dir = "none" => disk'.dir = "none")
    BY <1>7, Fresh DEF CleanTrees, IInv, Types, Disk
  <2> QED BY <1>7, <2>1, <2>2, UnlockedIs, Onward DEF CleanTrees, IInv, Types, Locked, Teamed, Owners, Teams
<1>8. CASE CleanRecord(p)
  <2>1. /\ me' \in [Procs -> Process] /\ \A q \in Procs \ {p} : me'[q] = me[q]
        /\ me'[p].pc = "off" /\ ~me'[p].team
    BY <1>8, Gone DEF CleanRecord
  <2>2. disk' \in Disk /\ (disk.dir = "none" => disk'.dir = "none")
    BY <1>8, Fresh DEF CleanRecord, IInv, Types, Disk
  <2> QED BY <1>8, <2>1, <2>2, Onward DEF CleanRecord, IInv, Types, Locked, Teamed, Owners, Teams
<1>9. CASE Probed(p)
  <2>1. /\ me' \in [Procs -> Process] /\ \A q \in Procs \ {p} : me'[q] = me[q]
        /\ me'[p].pc = "off" /\ ~me'[p].team
    BY <1>9, Gone DEF Probed
  <2> QED BY <1>9, <2>1, UnlockedIs, Onward DEF Probed, IInv, Types, Locked, Teamed, Owners, Teams
<1> QED BY <1>1, <1>2, <1>3, <1>4, <1>5, <1>6, <1>7, <1>8, <1>9 DEF Tools

\* The request in the View is read.
LEMMA ReadKeeps ==
  ASSUME IInv, NEW p \in Procs, ReadRequest(p)
  PROVE  IInv'
<1>1. /\ me' \in [Procs -> Process] /\ \A q \in Procs \ {p} : me'[q] = me[q]
      /\ me'[p].pc = "stopping" /\ me'[p].team = me[p].team
  BY Goes DEF ReadRequest, Pcs
<1> QED BY <1>1, Onward DEF ReadRequest, IInv, Types, Locked, Owners, Teams

\* A command returns.
LEMMA ReturnsKeeps ==
  ASSUME IInv, NEW p \in Procs, Returns(p)
  PROVE  IInv'
<1>1. /\ me' \in [Procs -> Process] /\ \A q \in Procs \ {p} : me'[q] = me[q]
      /\ me'[p].pc = me[p].pc /\ me'[p].team = me[p].team
  BY InPcs DEF Returns, IInv, Types, Process
<1> QED BY <1>1, Beside DEF Returns, IInv, Types

\* A crash frees the lock of the process and ends its agents.
LEMMA CrashKeeps ==
  ASSUME IInv, NEW p \in Procs, Crash(p)
  PROVE  IInv'
<1>1. /\ me' \in [Procs -> Process] /\ \A q \in Procs \ {p} : me'[q] = me[q]
      /\ me'[p].pc = "off" /\ ~me'[p].team
  BY Gone DEF Crash
<1>2. count' \in [Bounds -> Nat] /\ count'["fresh"] = count["fresh"]
  BY SpendKeeps DEF Crash, IInv, Bounds
<1> QED BY <1>1, <1>2, Onward, UnlockedIs DEF Crash, Idle, IInv, Types, Owners

\* It holds when nothing has been started.
LEMMA InitIInv == Init => IInv
<1> SUFFICES ASSUME Init PROVE IInv
  OBVIOUS
<1>1. disk \in Disk /\ disk.dir = "none"
  BY Fresh DEF Init, NoDisk, Disk
<1>2. /\ me \in [Procs -> Process]
      /\ \A p \in Procs : me[p].pc = "off" /\ ~me[p].team
  BY Fresh DEF Init, NoProcess
<1>3. Types
  BY <1>1, <1>2 DEF Init, Types
<1> QED BY <1>1, <1>2, <1>3 DEF IInv, Locked, Teamed, Unmade, Alone, Owners

\* Every step keeps it.
LEMMA StepIInv == IInv /\ [Next]_vars => IInv'
<1> SUFFICES ASSUME IInv, [Next]_vars PROVE IInv'
  OBVIOUS
<1>1. CASE UNCHANGED vars
  BY <1>1 DEF vars, IInv, Types, Locked, Teamed, Unmade, Alone
<1>2. CASE Next
  BY <1>2, StartKeeps, HandlerKeeps, RunKeeps, ReturnsKeeps, ReadKeeps, CloseKeeps, CrashKeeps, ToolsKeeps DEF Next
<1> QED BY <1>1, <1>2

\* The lock decides who has a team.
LEMMA IInvOneTeam == IInv => OneTeam
<1> SUFFICES ASSUME IInv PROVE OneTeam
  OBVIOUS
<1>1. TypeOK
  BY DEF TypeOK, IInv, Types, Disk, Process, Holds
<1>2. \A p, q \in Procs : me[p].team /\ me[q].team => p = q
  BY DEF IInv, Locked, Teamed, Teams, Owners
<1> QED BY <1>1, <1>2 DEF OneTeam

\* The agents of two processes are never at work on the same worktrees, whatever
\* starts, resumes, closes, cleans and crashes beside one another, for every number
\* of processes and every bound (service.go:580-612, lock.go:54).
THEOREM OneTeamHolds == Spec => []OneTeam
<1> QED BY InitIInv, StepIInv, IInvOneTeam, PTL DEF Spec

-----------------------------------------------------------------------------
(***************************************************************************)
(* Processes that follow one another.  What a process read before it took  *)
(* the lock is still true, so that it writes back what it found; what it   *)
(* may lose of the session is a record that says nothing was started, and  *)
(* a handler that is still at work cannot bring a removed record back.     *)
(***************************************************************************)
Readers == {"loaded", "owner", "applying", "cleaning", "listing"}
Live == {"starting", "started", "up", "stopping", "composing", "collecting", "composed",
         "stopped", "releasing", "released"}
Calm == Readers \cup {"off", "prepared", "fresh", "handing", "cleaned", "clearing", "probing"}
Shut == {"releasing", "released", "dropping", "dropped", "removing", "cancelling"}

\* What a process remembers of a session with an accepted task, and may do to it.
Promised(m) ==
  /\ m.pc \in {"prepared", "fresh", "dropped", "removing", "clearing"} => ~accepted
  /\ m.pc = "dropping" /\ accepted => m.want = "recall"
  /\ m.pc \in Readers /\ accepted => m.seen.started
  /\ m.pc \notin Readers \cup {"off"} /\ accepted => m.mem.started
  /\ m.pc = "composed" /\ accepted => m.comp.started

\* Where the session's directory and worktrees are there, and where they are gone.
Housed(m) ==
  /\ m.pc \in {"prepared", "fresh"} \cup Live => disk.trees
  /\ m.pc \in {"fresh"} \cup Readers \cup Live => disk.dir = "present"
  /\ m.pc = "dropped" => ~disk.trees
  /\ m.pc = "removing" => ~disk.trees /\ disk.dir # "present"
  /\ m.pc = "cancelling" /\ ~m.mem.started /\ m.want # "recall" /\ ~disk.work
       => disk.dir = "none" /\ ~disk.trees

\* Which calls of the bridge and of the human a process may still be serving.
Served(m) ==
  /\ m.handler # "none" \/ m.bye => m.pc \notin Calm
  /\ m.mu = "command" => m.pc \in {"up", "stopping"}
  /\ m.handler \notin {"none", "turn"} => m.mem.started
  /\ m.pc \in Shut => ~m.journal

Sound(m) == Promised(m) /\ Housed(m) /\ Served(m)

\* At most one process runs.
Single == \A p, q \in Procs : me[p].pc # "off" /\ me[q].pc # "off" => p = q

Sole == /\ accepted => Kept
        /\ Single
        /\ \A p \in Procs : Sound(me[p])

OneByOne == ~setup.overlap => Sole

\* The steps of one process.
Step(p) == Start(p) \/ Handler(p) \/ Run(p) \/ Returns(p) \/ ReadRequest(p) \/ Close(p) \/ Crash(p)
           \/ Tools(p)

\* A process that has ended says nothing of the session.
LEMMA EndedIsSound == Sound(NoProcess)
BY DEF Sound, Promised, Housed, Served, NoProcess, Readers, Live, Calm, Shut

\* Whoever takes a step is alone, and stays it.
LEMMA StepIsAlone ==
  ASSUME IInv, Sole, ~setup.overlap, NEW p \in Procs, Step(p)
  PROVE  \A q \in Procs \ {p} : me[q].pc = "off" /\ me'[q] = me[q]
<1>1. me[p].pc = "off" => MayBegin(p)
  <2>1. me[p].pc = "off" => ~me[p].team /\ me[p].handler = "none" /\ ~me[p].bye
    BY DEF Sole, Sound, Served, Calm, IInv, Types, Process, Teamed, Teams
  <2>2. Start(p) => me[p].pc # "off" \/ MayBegin(p)
    BY DEF Start, Prepare, NewStore, FirstSave, SelectSession, TakeLock, Reconcile, HandOff,
           StartTeam, LaunchFails, StartupSave
  <2>3. Handler(p) => me[p].handler # "none" \/ me[p].bye
    BY DEF Handler, TurnStarts, Approves, DeliveryBegins, Lands, Receipt, Completes, Disconnected, Serves
  <2>4. Run(p) => me[p].pc # "off" \/ me[p].team
    BY DEF Run, Task, Work, Arrives, AskRestart, RequestNew, RequestRecall, Quit
  <2>5. ReadRequest(p) \/ Close(p) \/ Crash(p) => me[p].pc # "off"
    BY DEF ReadRequest, Close, StopTeam, ComposeDelivery, ComposeProject, FinalSave, CloseJournal, Release, Decide,
           DropTrees, EmptyRecord, RemoveRecord, Closed, Crash, Idle
  <2>6. Tools(p) => me[p].pc # "off" \/ MayBegin(p)
    BY DEF Tools, Apply, Clean, Sessions, Tool, ApplyLock, CleanLock, Probe, Owned, CleanTrees,
           CleanRecord, Probed
  <2>7. Returns(p) => me[p].pc # "off"
    BY DEF Returns, Sole, Sound, Served
  <2> QED
    BY <2>1, <2>2, <2>3, <2>4, <2>5, <2>6, <2>7 DEF Step
<1>2. \A q \in Procs \ {p} : me[q].pc = "off"
  BY <1>1 DEF MayBegin, Idle, Sole, Single
<1>3. me \in [Procs -> Process]
  BY DEF IInv, Types
<1>4. Start(p) => \A q \in Procs \ {p} : me'[q] = me[q]
  BY <1>3 DEF Start, Prepare, NewStore, FirstSave, SelectSession, TakeLock, Reconcile, HandOff,
              StartTeam, LaunchFails, StartupSave, Go
<1>5. Handler(p) => \A q \in Procs \ {p} : me'[q] = me[q]
  BY <1>3 DEF Handler, TurnStarts, Approves, DeliveryBegins, Lands, Receipt, Completes, Disconnected, Handled
<1>6. Run(p) => \A q \in Procs \ {p} : me'[q] = me[q]
  BY <1>3 DEF Run, Task, Work, Arrives, AskRestart, RequestNew, RequestRecall, Quit, Go, Change
<1>7. Returns(p) \/ ReadRequest(p) \/ Close(p) \/ Crash(p) => \A q \in Procs \ {p} : me'[q] = me[q]
  BY <1>3 DEF Returns, ReadRequest, Close, StopTeam, ComposeDelivery, ComposeProject, FinalSave, CloseJournal, Release, Decide,
              DropTrees, EmptyRecord, RemoveRecord, Closed, Crash, Go
<1>8. Tools(p) => \A q \in Procs \ {p} : me'[q] = me[q]
  BY <1>3 DEF Tools, Apply, Clean, Sessions, Tool, ApplyLock, CleanLock, Probe, Owned, CleanTrees,
              CleanRecord, Probed, Go
<1> QED
  BY <1>2, <1>4, <1>5, <1>6, <1>7, <1>8 DEF Step

\* It is enough to look at the process that takes the step.
LEMMA SoleStep ==
  ASSUME IInv, Sole, ~setup.overlap, NEW p \in Procs, Step(p), Sound(me[p])', accepted' => Kept'
  PROVE  Sole'
<1>1. \A q \in Procs \ {p} : me[q].pc = "off" /\ me'[q] = me[q]
  BY StepIsAlone
<1>2. \A q \in Procs \ {p} : me[q].handler = "none" /\ ~me[q].bye /\ me[q].mu # "command"
  BY <1>1 DEF Sole, Sound, Served, Calm, IInv, Types, Process
<1>3. ASSUME NEW q \in Procs \ {p} PROVE Sound(me[q])'
  BY <1>1, <1>2 DEF Sound, Promised, Housed, Served, Readers, Live, Calm, Shut
<1> QED
  BY <1>1, <1>3 DEF Sole, Single

\* Starting and resuming: what was read is what is there.
LEMMA SoleStart ==
  ASSUME IInv, Sole, ~setup.overlap, NEW p \in Procs, Start(p)
  PROVE  Sound(me[p])' /\ (accepted' => Kept')
<1> USE DEF Sound, Promised, Housed, Served, Readers, Live, Calm, Shut, Kept
<1>0. me \in [Procs -> Process] /\ disk \in Disk /\ Sound(me[p]) /\ (accepted => Kept)
  BY DEF IInv, Types, Sole
<1>1. CASE Prepare(p)
  BY <1>0, <1>1 DEF Prepare, NoProcess, NoDisk, Process, Records, Disk
<1>2. CASE NewStore(p)
  BY <1>0, <1>2 DEF NewStore, Process, Records, Disk
<1>3. CASE FirstSave(p)
  BY <1>0, <1>3 DEF FirstSave, Go, Saved, Process, Records, Disk
<1>4. CASE SelectSession(p)
  BY <1>0, <1>4 DEF SelectSession, NoProcess, Readable, Process, Records, Disk
<1>5. CASE TakeLock(p)
  BY <1>0, <1>5, EndedIsSound DEF TakeLock, CanLock, NoProcess, Process, Records, Disk
<1>6. CASE Reconcile(p)
  <2> DEFINE r == me[p].seen
             saved == IF r.phase = "final" /\ r.delivery = "applied"
                      THEN [r EXCEPT !.phase = "done"]
                      ELSE IF AwaitsHandOff(r) THEN [r EXCEPT !.delivery = "pending"] ELSE r
             pc == IF AwaitsHandOff(r) THEN "handing" ELSE "starting"
  <2>1. me[p].pc = "owner" /\ disk.dir = "present" /\ r \in Records /\ (accepted => r.started)
    BY <1>0, <1>6 DEF Reconcile, Process
  <2>2. saved \in Records /\ saved.started = r.started
    BY <2>1 DEF Records
  <2>3. \/ me' = [me EXCEPT ![p] = NoProcess] /\ disk' = disk /\ UNCHANGED accepted
        \/ me' = [me EXCEPT ![p] = NoProcess] /\ disk' = Saved(disk, saved) /\ UNCHANGED accepted
        \/ /\ me' = [me EXCEPT ![p].mem = r, ![p].seen = NoRecord, ![p].pc = pc]
           /\ disk.trees /\ disk' = Saved(disk, saved) /\ UNCHANGED accepted
    BY <1>6 DEF Reconcile
  <2>4. pc \in {"handing", "starting"}
    OBVIOUS
  <2> HIDE DEF saved, pc
  <2>5. Saved(disk, saved).dir = "present" /\ Saved(disk, saved).rec = saved
        /\ Saved(disk, saved).trees = disk.trees
    BY <1>0, <2>1 DEF Saved, Disk
  <2>6. CASE me' = [me EXCEPT ![p] = NoProcess]
    <3>1. Sound(me[p])'
      BY <1>0, <2>6, EndedIsSound DEF NoProcess
    <3> QED
      BY <1>0, <2>1, <2>2, <2>3, <2>5, <3>1
  <2>7. CASE /\ me' = [me EXCEPT ![p].mem = r, ![p].seen = NoRecord, ![p].pc = pc]
             /\ disk.trees /\ disk' = Saved(disk, saved) /\ UNCHANGED accepted
    <3>1. me'[p].pc = pc /\ me'[p].mem = r /\ me'[p].handler = me[p].handler /\ me'[p].bye = me[p].bye
          /\ me'[p].mu = me[p].mu
      BY <1>0, <2>7 DEF Process
    <3> HIDE DEF r
    <3> QED
      BY <1>0, <2>1, <2>2, <2>4, <2>5, <2>7, <3>1
  <2> QED
    BY <2>3, <2>6, <2>7
<1>7. CASE HandOff(p)
  <2>1. me'[p] = NoProcess /\ UNCHANGED accepted /\ disk' \in {disk, Delivered(disk, me[p].mem)}
        /\ (accepted => me[p].mem.started)
    BY <1>0, <1>7 DEF HandOff
  <2>2. Sound(me[p])'
    BY <2>1, EndedIsSound DEF NoProcess
  <2>3. accepted => Delivered(disk, me[p].mem).dir = "present" /\ Delivered(disk, me[p].mem).rec.started
                    /\ Delivered(disk, me[p].mem).trees
    BY <1>0, <2>1 DEF Delivered, Saved, Disk, Process, Records
  <2> QED
    BY <1>0, <2>1, <2>2, <2>3
<1>8. CASE StartTeam(p)
  BY <1>0, <1>8 DEF StartTeam, Process, Records, Disk
<1>9. CASE LaunchFails(p)
  BY <1>0, <1>9 DEF LaunchFails, Go, Process, Records, Disk
<1>10. CASE StartupSave(p)
  BY <1>0, <1>10 DEF StartupSave, Go, Saved, Process, Records, Disk
<1> QED
  BY <1>1, <1>2, <1>3, <1>4, <1>5, <1>6, <1>7, <1>8, <1>9, <1>10 DEF Start

\* The bridge's calls, some of them while the session closes.
LEMMA SoleHandler ==
  ASSUME IInv, Sole, ~setup.overlap, NEW p \in Procs, Handler(p)
  PROVE  Sound(me[p])' /\ (accepted' => Kept')
<1> USE DEF Sound, Promised, Housed, Served, Readers, Live, Calm, Shut, Kept
<1>0. me \in [Procs -> Process] /\ disk \in Disk /\ Sound(me[p]) /\ (accepted => Kept)
  BY DEF IInv, Types, Sole
<1>1. CASE TurnStarts(p)
  BY <1>0, <1>1 DEF TurnStarts, Serves, Handled, Saved, Process, Records, Disk
<1>2. CASE Approves(p)
  BY <1>0, <1>2 DEF Approves, Serves, Handled, Saved, Process, Records, Disk
<1>3. CASE DeliveryBegins(p)
  BY <1>0, <1>3 DEF DeliveryBegins, Serves, Handled, Saved, Process, Records, Disk
<1>4. CASE Lands(p)
  <2>1. /\ UNCHANGED accepted /\ (disk' = disk \/ disk' = [disk EXCEPT !.landed = TRUE])
        /\ \E h \in {"none", "landed"} : me' = [me EXCEPT ![p].handler = h]
        /\ me[p].handler = "pending"
    BY <1>4 DEF Lands
  <2>2. disk'.dir = disk.dir /\ disk'.rec = disk.rec /\ disk'.trees = disk.trees /\ disk'.work = disk.work
    BY <1>0, <2>1 DEF Disk
  <2>3. /\ me'[p].handler \in {"none", "landed"} /\ me'[p].pc = me[p].pc /\ me'[p].mem = me[p].mem
        /\ me'[p].seen = me[p].seen /\ me'[p].want = me[p].want /\ me'[p].bye = me[p].bye
        /\ me'[p].journal = me[p].journal
    BY <1>0, <2>1 DEF Process
  <2> QED
    BY <1>0, <2>1, <2>2, <2>3
<1>5. CASE Receipt(p)
  BY <1>0, <1>5 DEF Receipt, Serves, Handled, Saved, Process, Records, Disk
<1>6. CASE Completes(p)
  BY <1>0, <1>6 DEF Completes, Serves, Handled, Saved, Process, Records, Disk
<1>7. CASE Disconnected(p)
  BY <1>0, <1>7 DEF Disconnected, Appended, Process, Records, Disk
<1> QED
  BY <1>1, <1>2, <1>3, <1>4, <1>5, <1>6, <1>7 DEF Handler

\* A live session.
LEMMA SoleRun ==
  ASSUME IInv, Sole, ~setup.overlap, NEW p \in Procs, Run(p)
  PROVE  Sound(me[p])' /\ (accepted' => Kept')
<1> USE DEF Sound, Promised, Housed, Served, Readers, Live, Calm, Shut, Kept
<1>0. me \in [Procs -> Process] /\ disk \in Disk /\ Sound(me[p]) /\ (accepted => Kept)
  BY DEF IInv, Types, Sole
<1>1. CASE Task(p)
  BY <1>0, <1>1 DEF Task, Change, Saved, Process, Records, Disk
<1>2. CASE Work(p)
  BY <1>0, <1>2 DEF Work, Process, Records, Disk
<1>3. CASE Arrives(p)
  <2>1. /\ UNCHANGED <<accepted, disk>> /\ me[p].team
        /\ \E h \in {"turn", "approval"} : /\ h = "approval" => me[p].mem.started
                                         /\ me' = [me EXCEPT ![p].handler = h]
    BY <1>3 DEF Arrives
  <2>2. me[p].pc \in Teams
    BY <2>1 DEF IInv, Teamed
  <2>3. /\ me'[p].handler \in {"turn", "approval"} /\ me'[p].pc = me[p].pc /\ me'[p].mem = me[p].mem
        /\ me'[p].seen = me[p].seen /\ me'[p].want = me[p].want /\ me'[p].bye = me[p].bye
        /\ me'[p].journal = me[p].journal /\ (me'[p].handler = "approval" => me[p].mem.started)
    BY <1>0, <2>1 DEF Process
  <2> QED
    BY <1>0, <2>1, <2>2, <2>3 DEF Teams
<1>4. CASE AskRestart(p)
  BY <1>0, <1>4 DEF AskRestart, Process, Records, Disk
<1>5. CASE RequestNew(p)
  BY <1>0, <1>5 DEF RequestNew, Process, Records, Disk
<1>6. CASE RequestRecall(p)
  BY <1>0, <1>6 DEF RequestRecall, Process, Records, Disk
<1>7. CASE Quit(p)
  BY <1>0, <1>7 DEF Quit, Go, Process, Records, Disk
<1> QED
  BY <1>1, <1>2, <1>3, <1>4, <1>5, <1>6, <1>7 DEF Run

\* Closing, and what is discarded.
LEMMA SoleClose ==
  ASSUME IInv, Sole, ~setup.overlap, NEW p \in Procs, Close(p)
  PROVE  Sound(me[p])' /\ (accepted' => Kept')
<1> USE DEF Sound, Promised, Housed, Served, Readers, Live, Calm, Shut, Kept
<1>0. me \in [Procs -> Process] /\ disk \in Disk /\ Sound(me[p]) /\ (accepted => Kept)
  BY DEF IInv, Types, Sole
<1>1. CASE StopTeam(p)
  BY <1>0, <1>1 DEF StopTeam, Process, Records, Disk
<1>2. CASE ComposeDelivery(p)
  BY <1>0, <1>2 DEF ComposeDelivery, Process, Records, Disk
<1>11. CASE ComposeProject(p)
  BY <1>0, <1>11 DEF ComposeProject, Process, Records, Disk
<1>3. CASE FinalSave(p)
  BY <1>0, <1>3 DEF FinalSave, Saved, NoRecord, Process, Records, Disk
<1>4. CASE CloseJournal(p)
  BY <1>0, <1>4 DEF CloseJournal, Process, Records, Disk
<1>5. CASE Release(p)
  BY <1>0, <1>5 DEF Release, Go, Process, Records, Disk
<1>6. CASE Decide(p)
  BY <1>0, <1>6 DEF Decide, Go, ToDiscard, Process, Records, Disk
<1>7. CASE DropTrees(p)
  BY <1>0, <1>7 DEF DropTrees, Go, Process, Records, Disk
<1>8. CASE EmptyRecord(p)
  BY <1>0, <1>8 DEF EmptyRecord, Go, Emptied, Process, Records, Disk
<1>9. CASE RemoveRecord(p)
  BY <1>0, <1>9 DEF RemoveRecord, Process, Records, Disk
<1>10. CASE Closed(p)
  BY <1>0, <1>10, EndedIsSound DEF Closed, Process, Records, Disk
<1> QED
  BY <1>1, <1>2, <1>3, <1>4, <1>5, <1>6, <1>7, <1>8, <1>9, <1>10, <1>11 DEF Close

\* `duo apply`, `duo clean` and `duo sessions`.
LEMMA SoleTools ==
  ASSUME IInv, Sole, ~setup.overlap, NEW p \in Procs, Tools(p)
  PROVE  Sound(me[p])' /\ (accepted' => Kept')
<1> USE DEF Sound, Promised, Housed, Served, Readers, Live, Calm, Shut, Kept
<1>0. me \in [Procs -> Process] /\ disk \in Disk /\ Sound(me[p]) /\ (accepted => Kept)
  BY DEF IInv, Types, Sole
<1>1. CASE Apply(p)
  BY <1>0, <1>1 DEF Apply, Tool, NoProcess, Readable, Process, Records, Disk
<1>2. CASE Clean(p)
  BY <1>0, <1>2 DEF Clean, Tool, NoProcess, Readable, Process, Records, Disk
<1>3. CASE Sessions(p)
  BY <1>0, <1>3 DEF Sessions, Tool, NoProcess, Readable, Process, Records, Disk
<1>4. CASE ApplyLock(p)
  BY <1>0, <1>4, EndedIsSound DEF ApplyLock, Owned, CanLock, Process, Records, Disk
<1>5. CASE CleanLock(p)
  BY <1>0, <1>5, EndedIsSound DEF CleanLock, Owned, CanLock, Process, Records, Disk
<1>6. CASE Probe(p)
  BY <1>0, <1>6, EndedIsSound DEF Probe, Owned, CanLock, Process, Records, Disk
<1>7. CASE CleanTrees(p)
  BY <1>0, <1>7 DEF CleanTrees, Go, Process, Records, Disk
<1>8. CASE CleanRecord(p)
  <2>1. ~accepted /\ UNCHANGED accepted /\ me'[p] = NoProcess
    BY <1>0, <1>8 DEF CleanRecord
  <2>2. Sound(me[p])'
    BY <2>1, EndedIsSound DEF NoProcess
  <2> QED
    BY <2>1, <2>2
<1>9. CASE Probed(p)
  BY <1>0, <1>9, EndedIsSound DEF Probed, Process, Records, Disk
<1> QED
  BY <1>1, <1>2, <1>3, <1>4, <1>5, <1>6, <1>7, <1>8, <1>9 DEF Tools


\* A crash, and the request in the View.
LEMMA SoleEnds ==
  ASSUME IInv, Sole, ~setup.overlap, NEW p \in Procs, Crash(p) \/ ReadRequest(p) \/ Returns(p)
  PROVE  Sound(me[p])' /\ (accepted' => Kept')
<1> USE DEF Sound, Promised, Housed, Served, Readers, Live, Calm, Shut, Kept
<1>0. me \in [Procs -> Process] /\ disk \in Disk /\ Sound(me[p]) /\ (accepted => Kept)
  BY DEF IInv, Types, Sole
<1>1. CASE Crash(p)
  BY <1>0, <1>1, EndedIsSound DEF Crash, NoProcess
<1>2. CASE ReadRequest(p)
  BY <1>0, <1>2 DEF ReadRequest, Go, Process
<1>3. CASE Returns(p)
  BY <1>0, <1>3 DEF Returns, Process
<1> QED
  BY <1>1, <1>2, <1>3

\* It holds when nothing has been started.
LEMMA InitOneByOne == Init => OneByOne
<1> SUFFICES ASSUME Init PROVE Sole
  BY DEF OneByOne
<1>1. \A p \in Procs : me[p] = NoProcess
  BY DEF Init
<1>2. NoProcess.pc = "off" /\ ~accepted
  BY DEF Init, NoProcess
<1> QED
  BY <1>1, <1>2, EndedIsSound DEF Sole, Single

\* Every step keeps the second one too.
LEMMA StepOneByOne == IInv /\ OneByOne /\ [Next]_vars => OneByOne'
<1> SUFFICES ASSUME IInv, OneByOne, [Next]_vars PROVE OneByOne'
  OBVIOUS
<1>1. setup' = setup
  <2>1. \A p \in Procs : Start(p) => setup' = setup
    BY DEF Start, Prepare, NewStore, FirstSave, SelectSession, TakeLock, Reconcile, HandOff,
           StartTeam, LaunchFails, StartupSave
  <2>2. \A p \in Procs : Handler(p) => setup' = setup
    BY DEF Handler, TurnStarts, Approves, DeliveryBegins, Lands, Receipt, Completes, Handled, Disconnected
  <2>3. \A p \in Procs : Run(p) \/ Returns(p) \/ ReadRequest(p) \/ Crash(p) => setup' = setup
    BY DEF Returns, Run, Task, Work, Arrives, AskRestart, RequestNew, RequestRecall, Quit, ReadRequest, Crash
  <2>4. \A p \in Procs : Close(p) => setup' = setup
    BY DEF Close, StopTeam, ComposeDelivery, ComposeProject, FinalSave, CloseJournal, Release, Decide,
           DropTrees, EmptyRecord, RemoveRecord, Closed
  <2>5. \A p \in Procs : Tools(p) => setup' = setup
    BY DEF Tools, Apply, Clean, Sessions, Tool, ApplyLock, CleanLock, Probe, Owned, CleanTrees,
           CleanRecord, Probed
  <2> QED
    BY <2>1, <2>2, <2>3, <2>4, <2>5 DEF Next, vars
<1>2. CASE UNCHANGED vars
  BY <1>2 DEF vars, OneByOne, Sole, Single, Sound, Promised, Housed, Served, Kept
<1>3. ASSUME NEW p \in Procs, Step(p), ~setup.overlap PROVE Sole'
  <2>1. Sole
    BY <1>3 DEF OneByOne
  <2>2. Sound(me[p])' /\ (accepted' => Kept')
    BY <1>3, <2>1, SoleStart, SoleHandler, SoleRun, SoleClose, SoleTools, SoleEnds DEF Step
  <2> QED
    BY <1>3, <2>1, <2>2, SoleStep
<1> QED
  BY <1>1, <1>2, <1>3 DEF Next, Step, OneByOne

\* A task that was accepted is on disk, in a session that can be resumed, until a human
\* recalls or cleans it, for any number of crashes, failed launches, resumes and calls
\* of the bridge (service.go:1736-1741): said of processes that do not overlap.
THEOREM AcceptedIsKeptHolds == Spec => []AcceptedIsKept
<1>1. OneByOne => AcceptedIsKept
  BY DEF OneByOne, Sole, AcceptedIsKept
<1> QED
  BY <1>1, InitIInv, StepIInv, InitOneByOne, StepOneByOne, PTL DEF Spec

\* A session that was opened and closed without a task, a turn or a change leaves neither
\* worktrees nor a record, wherever the handlers of the bridge are when it is discarded
\* (service.go:603-609, 1722-1727).
THEOREM UntouchedLeavesNothingHolds == Spec => UntouchedLeavesNothing
<1>1. OneByOne => [\A p \in Procs :
                     Closed(p) /\ ~me[p].mem.started /\ me[p].want # "recall" /\ ~disk.work /\ ~setup.overlap
                       => disk.dir = "none" /\ ~disk.trees]_vars
  BY DEF OneByOne, Sole, Sound, Housed, Closed
<1> QED
  BY <1>1, InitIInv, StepIInv, InitOneByOne, StepOneByOne, PTL DEF Spec, UntouchedLeavesNothing

-----------------------------------------------------------------------------
(***************************************************************************)
(* The observer of the session, the other half of the same Service.  A     *)
(* request has one place: it waits, one worker serves it, or it is over.   *)
(* A command leaves in the session's hands what it saved and tells what    *)
(* it takes from there to end.  And where no worker is replaced while it   *)
(* is asked, only the last one started has anything to do: it is that one  *)
(* the panel speaks of.                                                    *)
(***************************************************************************)
Steps == {"free", "persist", "stop", "close", "clear", "start"}
Reasons == {"none", "settings", "language", "closed"}
Ends == {"none", "report", "cut", "empty", "error", "nokey"}
Overlays == {"none", "config", "reports"}

\* Where a worker has a request: at work on it, or about to say that it failed.
AtWork == {"taken", "sampling", "calling", "filing", "clearing", "ending"}
Serving == AtWork \cup {"publishing"}
Points == Serving \cup {"waiting", "woken", "gone"}

\* The provers do not know that "" is a string.
Words == STRING \cup {""}
Configs == [enabled : BOOLEAN, target : Words, lang : {0, 1}]
Messages == [kind : {"user", "agent"}, id : Nat]
Observers == [cfg : Configs, key : BOOLEAN, subscribed : BOOLEAN, collecting : BOOLEAN,
              queue : Seq(Messages), window : Seq(Messages), task : Nat, previous : Nat]
Workers == [pc : Points, token : BOOLEAN, sends : Nat, cancelled : BOOLEAN,
            req : Nat, obs : Nat, out : Ends]
Panels == [pending : Nat, analyzing : Nat, reports : Seq(Nat), notice : Nat]
Forms == [enabled : BOOLEAN, target : Words, key : BOOLEAN, first : BOOLEAN]
Views == [notice : Nat, analyzing : Nat, enabled : BOOLEAN, target : Words, key : BOOLEAN]
Screens == [pc : {"ready", "reading", "doing"}, next : Overlays, notice : Nat, overlay : Overlays,
            form : Forms, view : Views]
Sums == [requests : Nat, saves : Nat, fails : Nat, langs : Nat, says : Nat, tasks : Nat, closes : Nat]

ObserverTypes ==
  /\ launch \in ObserverSetups
  /\ file \in [enabled : BOOLEAN, target : Words, written : BOOLEAN]
  /\ key \in BOOLEAN /\ opts \in Configs
  /\ cmd \in [pc : Steps, of : Reasons] /\ live \in [obs : Nat, worker : Nat]
  /\ obs \in Seq(Observers) /\ workers \in Seq(Workers)
  /\ live.obs \in 0..Len(obs) /\ live.worker \in 0..Len(workers)
  /\ panel \in Panels /\ title \in Nat /\ namers \in SUBSET Nat
  /\ ui \in Screens /\ spent \in Sums
  /\ cmd.pc = "free" => cmd.of \in {"none", "closed"}
  /\ cmd.pc \in {"persist", "clear"} => cmd.of = "settings"
  /\ cmd.pc \in {"stop", "close"} => cmd.of # "none"
  /\ cmd.pc = "start" => cmd.of \in {"settings", "language"}

\* What is numbered was asked for.
Numbered ==
  /\ {panel.pending, panel.analyzing, panel.notice, ui.notice} \subseteq 0..spent.requests
  /\ \A i \in DOMAIN panel.reports : panel.reports[i] <= spent.requests
  /\ \A w \in DOMAIN workers : workers[w].pc \in Serving => workers[w].req <= spent.requests

Named == title <= spent.tasks /\ \A t \in namers : t <= spent.tasks

\* A request waits or is served by one worker, and one that failed is over.
Over(n) == /\ n # panel.pending /\ n # panel.analyzing
           /\ \A w \in DOMAIN workers : workers[w].pc \in Serving => workers[w].req # n
Apart ==
  /\ panel.pending # 0 => panel.pending # panel.analyzing
  /\ \A w \in DOMAIN workers : workers[w].pc \in Serving =>
       /\ workers[w].req # 0 /\ workers[w].req # panel.pending
       /\ workers[w].pc = "publishing" => workers[w].req # panel.analyzing
  /\ \A v, w \in DOMAIN workers :
       workers[v].pc \in Serving /\ workers[w].pc \in Serving /\ v # w => workers[v].req # workers[w].req
  /\ panel.notice # 0 => Over(panel.notice)
  /\ ui.notice # 0 => Over(ui.notice)

\* What the view shows was read so.
Viewed == ui.view.notice # 0 => ui.view.notice # ui.view.analyzing

RInv == ObserverTypes /\ Numbered /\ Named /\ Apart /\ Viewed

\* The command that holds Service.mu, and what it has done to the two the session holds.
Commanded ==
  /\ cmd.of \in {"settings", "language"} => ui.pc = "doing"
  /\ cmd.pc \in {"close", "clear", "start"} => live.worker = 0
  /\ cmd.pc \in {"clear", "start"} => live.obs = 0
  /\ cmd = [pc |-> "free", of |-> "closed"] => live.obs = 0 /\ live.worker = 0

\* The observers and the workers that the session no longer holds are told to end.
Held ==
  /\ \A i \in DOMAIN obs : /\ obs[i].subscribed => obs[i].collecting
                           /\ i # live.obs => ~obs[i].collecting
                           /\ i = live.obs /\ cmd.pc # "close" => obs[i].subscribed
  /\ \A w \in DOMAIN workers : workers[w].cancelled = (w # live.worker)

\* What runs is what is saved; a key is stored before the settings are.
Running ==
  /\ opts = Loaded(file, opts.lang)
  /\ cmd.pc \in {"free", "persist"} /\ cmd.of # "closed" =>
       /\ (live.obs # 0) = opts.enabled /\ (live.worker # 0) = opts.enabled
       /\ live.obs # 0 => /\ obs[live.obs].cfg = opts
                          /\ (cmd.pc = "persist" /\ ui.form.key) \/ obs[live.obs].key = key

KInv == ObserverTypes /\ Commanded /\ Held /\ Running

\* The first dialog of a session is that of one without an observer.
Blank == ui.form.first => /\ workers = <<>> /\ ui.overlay = "config" /\ ui.pc # "reading"

\* Only the last worker has anything to do, and the panel names what it does.
Lonely == /\ file.written \/ file = NoSection
          /\ \A w \in DOMAIN workers : /\ w # Len(workers) => Still(w)
                                       /\ workers[w].pc \in AtWork => panel.analyzing = workers[w].req
          /\ live.worker \in {0, Len(workers)}
          /\ cmd.of \in {"settings", "language"} => \A w \in DOMAIN workers : Still(w)

SInv == ObserverTypes /\ Commanded /\ Blank /\ Lonely

(***************************************************************************)
(* Sequences of which one element changes, and of which one is new.        *)
(***************************************************************************)
LEMMA Changed ==
  ASSUME NEW S, NEW s \in Seq(S), NEW i \in DOMAIN s, NEW e \in S
  PROVE  LET t == [s EXCEPT ![i] = e]
         IN  /\ t \in Seq(S) /\ Len(t) = Len(s) /\ DOMAIN t = DOMAIN s
             /\ t[i] = e /\ \A j \in DOMAIN s \ {i} : t[j] = s[j]
OBVIOUS

LEMMA Grown ==
  ASSUME NEW S, NEW s \in Seq(S), NEW e \in S
  PROVE  LET t == Append(s, e)
         IN  /\ t \in Seq(S) /\ Len(t) = Len(s) + 1 /\ DOMAIN t = DOMAIN s \cup {Len(s) + 1}
             /\ t[Len(s) + 1] = e /\ \A j \in DOMAIN s : t[j] = s[j]
OBVIOUS

LEMMA Lengths ==
  ASSUME NEW S, NEW s \in Seq(S)
  PROVE  Len(s) \in Nat /\ DOMAIN s = 1..Len(s) /\ \A i \in DOMAIN s : s[i] \in S
OBVIOUS

LEMMA WorkerAt ==
  ASSUME ObserverTypes, NEW w \in DOMAIN workers
  PROVE  workers[w] \in Workers
BY Lengths DEF ObserverTypes

LEMMA InPoints ==
  /\ "waiting" \in Points /\ "woken" \in Points /\ "gone" \in Points /\ "publishing" \in Points
  /\ AtWork \subseteq Points
  /\ "taken" \in AtWork /\ "sampling" \in AtWork /\ "calling" \in AtWork
  /\ "filing" \in AtWork /\ "clearing" \in AtWork /\ "ending" \in AtWork
BY DEF Points, Serving, AtWork

\* A worker goes on: what it is in the next state, and that the others stay.
GoesOn(w, e) == /\ workers' \in Seq(Workers) /\ Len(workers') = Len(workers) /\ DOMAIN workers' = DOMAIN workers
               /\ workers'[w] = e /\ \A v \in DOMAIN workers \ {w} : workers'[v] = workers[v]

LEMMA WakeGoes ==
  ASSUME ObserverTypes, NEW w \in DOMAIN workers, Wake(w)
  PROVE  GoesOn(w, [workers[w] EXCEPT !.pc = "woken", !.token = FALSE])
<1> DEFINE e == [workers[w] EXCEPT !.pc = "woken", !.token = FALSE]
<1>1. e \in Workers
  <2>1. workers[w] \in Workers
    BY WorkerAt
  <2> QED
    BY <2>1, InPoints DEF Workers
<1>2. workers' = [workers EXCEPT ![w] = e]
  BY DEF Wake, ObserverTypes, Workers
<1> QED
  BY <1>1, <1>2, Changed DEF ObserverTypes, GoesOn

LEMMA SentGoes ==
  ASSUME ObserverTypes, NEW w \in DOMAIN workers, Sent(w)
  PROVE  GoesOn(w, [workers[w] EXCEPT !.sends = @ - 1, !.token = TRUE])
<1> DEFINE e == [workers[w] EXCEPT !.sends = @ - 1, !.token = TRUE]
<1>1. e \in Workers
  <2>1. workers[w] \in Workers /\ workers[w].sends \in Nat /\ workers[w].sends > 0
    BY WorkerAt DEF Sent, Workers
  <2>2. workers[w].sends - 1 \in Nat
    BY <2>1
  <2> QED
    BY <2>1, <2>2 DEF Workers
<1>2. workers' = [workers EXCEPT ![w] = e]
  BY DEF Sent, ObserverTypes, Workers
<1> QED
  BY <1>1, <1>2, Changed DEF ObserverTypes, GoesOn

LEMMA ExitGoes ==
  ASSUME ObserverTypes, NEW w \in DOMAIN workers, Exit(w)
  PROVE  GoesOn(w, [workers[w] EXCEPT !.pc = "gone"])
<1> DEFINE e == [workers[w] EXCEPT !.pc = "gone"]
<1>1. e \in Workers
  <2>1. workers[w] \in Workers
    BY WorkerAt
  <2> QED
    BY <2>1, InPoints DEF Workers
<1>2. workers' = [workers EXCEPT ![w] = e]
  BY DEF Exit, ObserverTypes, Workers
<1> QED
  BY <1>1, <1>2, Changed DEF ObserverTypes, GoesOn

LEMMA TakeNothingGoes ==
  ASSUME ObserverTypes, NEW w \in DOMAIN workers, Take(w), panel.pending = 0
  PROVE  GoesOn(w, [workers[w] EXCEPT !.pc = "waiting"])
<1> DEFINE e == [workers[w] EXCEPT !.pc = "waiting"]
<1>1. e \in Workers
  <2>1. workers[w] \in Workers
    BY WorkerAt
  <2> QED
    BY <2>1, InPoints DEF Workers
<1>2. workers' = [workers EXCEPT ![w] = e]
  BY DEF Take, ObserverTypes, Workers
<1> QED
  BY <1>1, <1>2, Changed DEF ObserverTypes, GoesOn

LEMMA TakeGoes ==
  ASSUME ObserverTypes, NEW w \in DOMAIN workers, Take(w), panel.pending # 0
  PROVE  GoesOn(w, [workers[w] EXCEPT !.pc = "taken", !.req = panel.pending])
<1> DEFINE e == [workers[w] EXCEPT !.pc = "taken", !.req = panel.pending]
<1>1. e \in Workers
  <2>1. workers[w] \in Workers /\ panel.pending \in Nat
    BY WorkerAt DEF ObserverTypes, Panels
  <2> QED
    BY <2>1, InPoints DEF Workers
<1>2. workers' = [workers EXCEPT ![w] = e]
  BY DEF Take, ObserverTypes, Workers
<1> QED
  BY <1>1, <1>2, Changed DEF ObserverTypes, GoesOn

LEMMA BeginGoes ==
  ASSUME ObserverTypes, NEW w \in DOMAIN workers, Begin(w)
  PROVE  GoesOn(w, [workers[w] EXCEPT !.pc = IF live.obs = 0 THEN "ending" ELSE "sampling",
                              !.obs = live.obs, !.out = "none"])
<1> DEFINE e == [workers[w] EXCEPT !.pc = IF live.obs = 0 THEN "ending" ELSE "sampling",
                              !.obs = live.obs, !.out = "none"]
<1>1. e \in Workers
  <2>1. workers[w] \in Workers /\ live.obs \in Nat
    BY WorkerAt DEF ObserverTypes
  <2>2. (IF live.obs = 0 THEN "ending" ELSE "sampling") \in Points
    BY InPoints
  <2> QED
    BY <2>1, <2>2 DEF Workers, Ends
<1>2. workers' = [workers EXCEPT ![w] = e]
  BY DEF Begin, ObserverTypes, Workers
<1> QED
  BY <1>1, <1>2, Changed DEF ObserverTypes, GoesOn

LEMMA SampleGoes ==
  ASSUME ObserverTypes, NEW w \in DOMAIN workers, Sample(w)
  PROVE  GoesOn(w, [workers[w] EXCEPT !.pc = "calling"])
<1> DEFINE e == [workers[w] EXCEPT !.pc = "calling"]
<1>1. e \in Workers
  <2>1. workers[w] \in Workers
    BY WorkerAt
  <2> QED
    BY <2>1, InPoints DEF Workers
<1>2. workers' = [workers EXCEPT ![w] = e]
  BY DEF Sample, ObserverTypes, Workers
<1> QED
  BY <1>1, <1>2, Changed DEF ObserverTypes, GoesOn

LEMMA AnsweredGoes ==
  ASSUME ObserverTypes, NEW w \in DOMAIN workers, NEW out \in Ends, Answered(w, out)
  PROVE  GoesOn(w, [workers[w] EXCEPT !.pc = IF HasText(out) THEN "filing" ELSE "ending", !.out = out])
<1> DEFINE e == [workers[w] EXCEPT !.pc = IF HasText(out) THEN "filing" ELSE "ending", !.out = out]
<1>1. e \in Workers
  <2>1. workers[w] \in Workers
    BY WorkerAt
  <2> QED
    BY <2>1, InPoints DEF Workers, HasText
<1>2. workers' = [workers EXCEPT ![w] = e]
  BY DEF Answered, ObserverTypes, Workers
<1> QED
  BY <1>1, <1>2, Changed DEF ObserverTypes, GoesOn

LEMMA FileGoes ==
  ASSUME ObserverTypes, NEW w \in DOMAIN workers, File(w)
  PROVE  GoesOn(w, [workers[w] EXCEPT !.pc = "clearing"])
<1> DEFINE e == [workers[w] EXCEPT !.pc = "clearing"]
<1>1. e \in Workers
  <2>1. workers[w] \in Workers
    BY WorkerAt
  <2> QED
    BY <2>1, InPoints DEF Workers
<1>2. workers' = [workers EXCEPT ![w] = e]
  BY DEF File, ObserverTypes, Workers
<1> QED
  BY <1>1, <1>2, Changed DEF ObserverTypes, GoesOn

LEMMA ClearNoticeGoes ==
  ASSUME ObserverTypes, NEW w \in DOMAIN workers, ClearNotice(w)
  PROVE  GoesOn(w, [workers[w] EXCEPT !.pc = "ending"])
<1> DEFINE e == [workers[w] EXCEPT !.pc = "ending"]
<1>1. e \in Workers
  <2>1. workers[w] \in Workers
    BY WorkerAt
  <2> QED
    BY <2>1, InPoints DEF Workers
<1>2. workers' = [workers EXCEPT ![w] = e]
  BY DEF ClearNotice, ObserverTypes, Workers
<1> QED
  BY <1>1, <1>2, Changed DEF ObserverTypes, GoesOn

LEMMA EndGoes ==
  ASSUME ObserverTypes, NEW w \in DOMAIN workers, End(w)
  PROVE  GoesOn(w, [workers[w] EXCEPT !.pc = IF Noteworthy(workers[w].out) THEN "publishing" ELSE "waiting"])
<1> DEFINE e == [workers[w] EXCEPT !.pc = IF Noteworthy(workers[w].out) THEN "publishing" ELSE "waiting"]
<1>1. e \in Workers
  <2>1. workers[w] \in Workers
    BY WorkerAt
  <2> QED
    BY <2>1, InPoints DEF Workers, Noteworthy
<1>2. workers' = [workers EXCEPT ![w] = e]
  BY DEF End, ObserverTypes, Workers
<1> QED
  BY <1>1, <1>2, Changed DEF ObserverTypes, GoesOn

LEMMA PublishGoes ==
  ASSUME ObserverTypes, NEW w \in DOMAIN workers, Publish(w)
  PROVE  GoesOn(w, [workers[w] EXCEPT !.pc = "waiting"])
<1> DEFINE e == [workers[w] EXCEPT !.pc = "waiting"]
<1>1. e \in Workers
  <2>1. workers[w] \in Workers
    BY WorkerAt
  <2> QED
    BY <2>1, InPoints DEF Workers
<1>2. workers' = [workers EXCEPT ![w] = e]
  BY DEF Publish, ObserverTypes, Workers
<1> QED
  BY <1>1, <1>2, Changed DEF ObserverTypes, GoesOn


\* The observers stay what they were, but for what they heard and remember.
Alike == /\ obs' \in Seq(Observers) /\ Len(obs') = Len(obs) /\ DOMAIN obs' = DOMAIN obs
         /\ \A i \in DOMAIN obs : /\ obs'[i].cfg = obs[i].cfg /\ obs'[i].key = obs[i].key
                                  /\ obs'[i].subscribed = obs[i].subscribed
                                  /\ obs'[i].collecting = obs[i].collecting

LEMMA HeardFacts ==
  ASSUME NEW o \in Observers, NEW e \in Messages
  PROVE  /\ Heard(o, e) \in Observers
         /\ Heard(o, e).cfg = o.cfg /\ Heard(o, e).key = o.key
         /\ Heard(o, e).subscribed = o.subscribed /\ Heard(o, e).collecting = o.collecting
<1>1. Append(o.queue, e) \in Seq(Messages)
  BY DEF Observers
<1> QED
  BY <1>1 DEF Heard, Observers

LEMMA Emitted ==
  ASSUME ObserverTypes, NEW e \in Messages, obs' = EmitToAll(e)
  PROVE  Alike
<1>1. obs \in Seq(Observers) /\ \A i \in DOMAIN obs : obs[i] \in Observers
  BY Lengths DEF ObserverTypes
<1>2. \A i \in DOMAIN obs : obs'[i] = Heard(obs[i], e)
  BY DEF EmitToAll
<1>3. DOMAIN obs' = DOMAIN obs /\ \A i \in DOMAIN obs : obs'[i] \in Observers
  BY <1>1, <1>2, HeardFacts DEF EmitToAll
<1>4. obs' \in Seq(Observers) /\ Len(obs') = Len(obs)
  <2>1. Len(obs) \in Nat /\ DOMAIN obs = 1..Len(obs)
    BY <1>1
  <2>2. obs' \in [1..Len(obs) -> Observers]
    BY <1>3, <2>1 DEF EmitToAll
  <2> QED
    BY <2>1, <2>2
<1> QED
  BY <1>1, <1>2, <1>3, <1>4, HeardFacts DEF Alike

LEMMA Remembered ==
  ASSUME ObserverTypes, NEW i \in DOMAIN obs, NEW o \in Observers, obs' = [obs EXCEPT ![i] = o],
         o.cfg = obs[i].cfg, o.key = obs[i].key,
         o.subscribed = obs[i].subscribed, o.collecting = obs[i].collecting
  PROVE  Alike
BY Changed DEF Alike, ObserverTypes

LEMMA SameObservers == ASSUME ObserverTypes, obs' = obs PROVE Alike
BY DEF Alike, ObserverTypes

LEMMA Collected ==
  ASSUME ObserverTypes, NEW i \in DOMAIN obs, Collect(i)
  PROVE  Alike
<1> DEFINE e == Head(obs[i].queue)
           o == [obs[i] EXCEPT !.queue = Tail(@), !.window = trimWindow(Append(@, e)),
                               !.task = IF e.kind = "user" THEN e.id ELSE @]
<1>1. obs[i] \in Observers
  BY Lengths DEF ObserverTypes
<1>2. e \in Messages /\ Tail(obs[i].queue) \in Seq(Messages)
  BY <1>1 DEF Collect, Observers
<1>3. Append(obs[i].window, e) \in Seq(Messages) /\ Append(obs[i].window, e) # <<>>
  BY <1>1, <1>2 DEF Observers
<1>4. trimWindow(Append(obs[i].window, e)) \in Seq(Messages)
  BY <1>3 DEF trimWindow
<1>5. o \in Observers
  BY <1>1, <1>2, <1>4 DEF Observers, Messages
<1>6. obs' = [obs EXCEPT ![i] = o]
  BY <1>1 DEF Collect, ObserverTypes, Observers
<1> QED
  BY <1>1, <1>5, <1>6, Remembered DEF Observers

LEMMA AnsweredAlike ==
  ASSUME ObserverTypes, NEW w \in DOMAIN workers, NEW out \in Ends, Answered(w, out)
  PROVE  Alike
<1> DEFINE i == workers[w].obs
           o == [obs[i] EXCEPT !.previous = IF out = "report" THEN workers[w].req ELSE @]
<1>1. workers[w] \in Workers /\ workers[w].req \in Nat
  BY WorkerAt DEF Workers
<1>2. CASE i \in DOMAIN obs
  <2>1. obs[i] \in Observers
    BY <1>2, Lengths DEF ObserverTypes
  <2>2. o \in Observers
    BY <1>1, <2>1 DEF Observers
  <2>3. obs' = [obs EXCEPT ![i] = o]
    BY <1>2, <2>1 DEF Answered, ObserverTypes, Observers
  <2> QED
    BY <1>2, <2>1, <2>2, <2>3, Remembered DEF Observers
<1>3. CASE i \notin DOMAIN obs
  <2>1. obs' = obs
    BY <1>3 DEF Answered, ObserverTypes
  <2> QED
    BY <2>1, SameObservers
<1> QED
  BY <1>2, <1>3

\* A request is counted; the worker that is told is the one of the session.
LEMMA RequestsGoes ==
  ASSUME ObserverTypes, Requests
  PROVE  /\ spent' = [spent EXCEPT !.requests = @ + 1] /\ spent' \in Sums
         /\ spent'.requests = spent.requests + 1 /\ spent'.tasks = spent.tasks
         /\ live.worker = 0 => panel' = panel /\ workers' = workers
         /\ live.worker # 0 =>
              /\ panel' = [panel EXCEPT !.pending = spent.requests + 1]
              /\ live.worker \in DOMAIN workers
              /\ GoesOn(live.worker, [workers[live.worker] EXCEPT !.sends = @ + 1])
<1>1. spent' = [spent EXCEPT !.requests = @ + 1] /\ spent' \in Sums
      /\ spent'.requests = spent.requests + 1 /\ spent'.tasks = spent.tasks
  <2>1. spent' = [spent EXCEPT !.requests = @ + 1]
    BY DEF Requests, Spends
  <2>2. spent \in Sums
    BY DEF ObserverTypes
  <2> QED
    BY <2>1, <2>2 DEF Sums
<1>2. ASSUME live.worker = 0 PROVE panel' = panel /\ workers' = workers
  BY <1>2 DEF Requests, Ask
<1>3. ASSUME live.worker # 0
      PROVE  /\ panel' = [panel EXCEPT !.pending = spent.requests + 1]
             /\ live.worker \in DOMAIN workers
             /\ GoesOn(live.worker, [workers[live.worker] EXCEPT !.sends = @ + 1])
  <2> DEFINE w == live.worker
             e == [workers[w] EXCEPT !.sends = @ + 1]
  <2>1. w \in DOMAIN workers
    BY <1>3 DEF ObserverTypes
  <2>2. e \in Workers
    BY <2>1, WorkerAt DEF Workers
  <2>3. panel' = [panel EXCEPT !.pending = spent.requests + 1]
        /\ workers' = [workers EXCEPT ![w].sends = @ + 1]
    BY <1>3 DEF Requests, Ask
  <2>4. workers' = [workers EXCEPT ![w] = e]
    BY <2>1, <2>3 DEF ObserverTypes, Workers
  <2> QED
    BY <2>1, <2>2, <2>3, <2>4, Changed DEF ObserverTypes, GoesOn
<1> QED
  BY <1>1, <1>2, <1>3

\* What any step of a worker leaves alone.
WorkerOnly(w) ==
  /\ UNCHANGED <<launch, opts, file, key, cmd, live, title, namers, ui, spent>>
  /\ Alike /\ panel' \in Panels
  /\ workers' \in Seq(Workers) /\ Len(workers') = Len(workers) /\ DOMAIN workers' = DOMAIN workers
  /\ workers'[w].cancelled = workers[w].cancelled
  /\ \A v \in DOMAIN workers \ {w} : workers'[v] = workers[v]

LEMMA ServeFrame ==
  ASSUME ObserverTypes, NEW w \in DOMAIN workers, Serve(w) \/ Sent(w)
  PROVE  WorkerOnly(w)
<1> USE DEF GoesOn
<1>0. panel \in Panels /\ workers[w] \in Workers
  BY WorkerAt DEF ObserverTypes
<1>1. ASSUME Wake(w) PROVE WorkerOnly(w)
  <2>1. UNCHANGED <<launch, opts, file, key, cmd, live, obs, title, namers, ui, spent>> /\ panel' \in Panels
    BY <1>0, <1>1 DEF Wake, Panels, Workers
  <2> QED
    BY <1>0, <1>1, <2>1, WakeGoes, SameObservers DEF WorkerOnly, Workers
<1>2. ASSUME Sent(w) PROVE WorkerOnly(w)
  <2>1. UNCHANGED <<launch, opts, file, key, cmd, live, obs, title, namers, ui, spent>> /\ panel' \in Panels
    BY <1>0, <1>2 DEF Sent, Panels, Workers
  <2> QED
    BY <1>0, <1>2, <2>1, SentGoes, SameObservers DEF WorkerOnly, Workers
<1>3. ASSUME Exit(w) PROVE WorkerOnly(w)
  <2>1. UNCHANGED <<launch, opts, file, key, cmd, live, obs, title, namers, ui, spent>> /\ panel' \in Panels
    BY <1>0, <1>3 DEF Exit, Panels, Workers
  <2> QED
    BY <1>0, <1>3, <2>1, ExitGoes, SameObservers DEF WorkerOnly, Workers
<1>4. ASSUME Take(w) PROVE WorkerOnly(w)
  <2>1. UNCHANGED <<launch, opts, file, key, cmd, live, obs, title, namers, ui, spent>>
    BY <1>4 DEF Take
  <2>2. CASE panel.pending = 0
    <3>1. panel' = panel
      BY <1>4, <2>2 DEF Take
    <3> QED
      BY <1>0, <1>4, <2>1, <2>2, <3>1, TakeNothingGoes, SameObservers DEF WorkerOnly, Workers
  <2>3. CASE panel.pending # 0
    <3>1. panel' = [panel EXCEPT !.pending = 0, !.analyzing = panel.pending]
      BY <1>4, <2>3 DEF Take
    <3>2. panel' \in Panels
      BY <1>0, <3>1 DEF Panels
    <3> QED
      BY <1>0, <1>4, <2>1, <2>3, <3>2, TakeGoes, SameObservers DEF WorkerOnly, Workers
  <2> QED
    BY <2>2, <2>3
<1>5. ASSUME Begin(w) PROVE WorkerOnly(w)
  <2>1. UNCHANGED <<launch, opts, file, key, cmd, live, obs, title, namers, ui, spent>> /\ panel' \in Panels
    BY <1>0, <1>5 DEF Begin, Panels, Workers
  <2> QED
    BY <1>0, <1>5, <2>1, BeginGoes, SameObservers DEF WorkerOnly, Workers
<1>6. ASSUME Sample(w) PROVE WorkerOnly(w)
  <2>1. UNCHANGED <<launch, opts, file, key, cmd, live, obs, title, namers, ui, spent>> /\ panel' \in Panels
    BY <1>0, <1>6 DEF Sample, Panels, Workers
  <2> QED
    BY <1>0, <1>6, <2>1, SampleGoes, SameObservers DEF WorkerOnly, Workers
<1>7. ASSUME NEW out \in Ends, Answered(w, out) PROVE WorkerOnly(w)
  <2>1. UNCHANGED <<launch, opts, file, key, cmd, live, title, namers, ui, spent>> /\ panel' = panel
    BY <1>7 DEF Answered
  <2> QED
    BY <1>0, <1>7, <2>1, AnsweredGoes, AnsweredAlike DEF WorkerOnly, Workers
<1>8. ASSUME File(w) PROVE WorkerOnly(w)
  <2>1. UNCHANGED <<launch, opts, file, key, cmd, live, obs, title, namers, ui, spent>>
    BY <1>8 DEF File
  <2>2. panel' \in Panels
    <3> DEFINE reports == <<workers[w].req>> \o panel.reports
    <3>1. reports \in Seq(Nat) /\ reports # <<>>
      BY <1>0 DEF Workers, Panels
    <3>2. Front(reports) \in Seq(Nat)
      BY <3>1 DEF Front
    <3>3. panel' = [panel EXCEPT !.reports = IF Len(reports) > launch.kept THEN Front(reports) ELSE reports]
      BY <1>8 DEF File
    <3> HIDE DEF reports
    <3> QED
      BY <1>0, <3>1, <3>2, <3>3 DEF Panels
  <2> QED
    BY <1>0, <1>8, <2>1, <2>2, FileGoes, SameObservers DEF WorkerOnly, Workers
<1>9. ASSUME ClearNotice(w) PROVE WorkerOnly(w)
  <2>1. UNCHANGED <<launch, opts, file, key, cmd, live, obs, title, namers, ui, spent>> /\ panel' \in Panels
    BY <1>0, <1>9 DEF ClearNotice, Panels, Workers
  <2> QED
    BY <1>0, <1>9, <2>1, ClearNoticeGoes, SameObservers DEF WorkerOnly, Workers
<1>10. ASSUME End(w) PROVE WorkerOnly(w)
  <2>1. UNCHANGED <<launch, opts, file, key, cmd, live, obs, title, namers, ui, spent>> /\ panel' \in Panels
    BY <1>0, <1>10 DEF End, Panels, Workers
  <2> QED
    BY <1>0, <1>10, <2>1, EndGoes, SameObservers DEF WorkerOnly, Workers
<1>11. ASSUME Publish(w) PROVE WorkerOnly(w)
  <2>1. UNCHANGED <<launch, opts, file, key, cmd, live, obs, title, namers, ui, spent>> /\ panel' \in Panels
    BY <1>0, <1>11 DEF Publish, Panels, Workers
  <2> QED
    BY <1>0, <1>11, <2>1, PublishGoes, SameObservers DEF WorkerOnly, Workers
<1> QED
  BY <1>1, <1>2, <1>3, <1>4, <1>5, <1>6, <1>7, <1>8, <1>9, <1>10, <1>11 DEF Serve, Ends

LEMMA LoadedTyped ==
  ASSUME ObserverTypes
  PROVE  Loaded(file, opts.lang) \in Configs
BY ObserverSetupsAssumption DEF Loaded, WithEnv, Configs, ObserverTypes, Words

LEMMA NewTyped ==
  ASSUME ObserverTypes, NEW c \in Configs
  PROVE  /\ NewWorker \in Workers /\ ~NewWorker.cancelled /\ NewWorker.pc = "waiting"
         /\ [NewObserver EXCEPT !.cfg = c] \in Observers
         /\ NewObserver \in Observers /\ NewObserver.cfg = opts /\ NewObserver.key = key
         /\ NewObserver.subscribed /\ NewObserver.collecting
<1>1. <<>> \in Seq(Messages)
  OBVIOUS
<1>2. opts \in Configs /\ key \in BOOLEAN
  BY DEF ObserverTypes
<1>3. NewWorker \in Workers /\ ~NewWorker.cancelled /\ NewWorker.pc = "waiting"
  BY DEF NewWorker, Workers, Points, Serving, AtWork, Ends
<1>4. /\ [NewObserver EXCEPT !.cfg = c] \in Observers
      /\ NewObserver \in Observers /\ NewObserver.cfg = opts /\ NewObserver.key = key
      /\ NewObserver.subscribed /\ NewObserver.collecting
  BY <1>1, <1>2 DEF NewObserver, Observers
<1> QED
  BY <1>3, <1>4

LEMMA OnboardingTyped ==
  ASSUME ObserverTypes, NEW c \in Configs
  PROVE  Onboarding(c) \in Screens
<1>1. launch.default \in Words
  BY ObserverSetupsAssumption DEF ObserverTypes, Words
<1>2. NoForm \in Forms
  BY DEF NoForm, Forms, Words
<1>3. [NoForm EXCEPT !.target = IF c.target = "" THEN launch.default ELSE c.target, !.first = TRUE] \in Forms
  BY <1>1, <1>2 DEF Forms, Configs
<1>4. [notice |-> 0, analyzing |-> 0, enabled |-> c.enabled, target |-> c.target, key |-> key] \in Views
  BY DEF Views, Configs, ObserverTypes
<1> QED
  BY <1>2, <1>3, <1>4 DEF Onboarding, Screens, Overlays

\* What an action of the interface leaves typed.
LEMMA RequestsTypes ==
  ASSUME ObserverTypes, Requests
  PROVE  /\ spent' \in Sums /\ panel' \in Panels /\ workers' \in Seq(Workers) /\ Len(workers') = Len(workers)
<1>1. panel \in Panels /\ spent \in Sums /\ workers \in Seq(Workers)
  BY DEF ObserverTypes
<1>2. CASE live.worker = 0
  BY <1>1, <1>2, RequestsGoes
<1>3. CASE live.worker # 0
  <2>1. spent.requests + 1 \in Nat
    BY <1>1 DEF Sums
  <2> QED
    BY <1>1, <1>3, <2>1, RequestsGoes DEF Panels, GoesOn
<1> QED
  BY <1>2, <1>3

LEMMA SpendsTypes ==
  ASSUME ObserverTypes,
         NEW what \in {"requests", "saves", "fails", "langs", "says", "tasks", "closes"}, Spends(what)
  PROVE  /\ spent' \in Sums
         /\ spent'.requests >= spent.requests /\ spent'.tasks >= spent.tasks
<1>1. spent \in Sums /\ spent' = [spent EXCEPT ![what] = @ + 1]
  BY DEF ObserverTypes, Spends
<1> QED
  BY <1>1 DEF Sums

LEMMA ChosenTyped ==
  ASSUME ObserverTypes
  PROVE  LET chosen == [enabled |-> ui.form.enabled, target |-> ui.form.target, lang |-> opts.lang]
         IN  /\ chosen \in Configs /\ WithEnv(chosen) \in Configs
             /\ SaveProjectObserver(FileSettings(chosen)) \in [enabled : BOOLEAN, target : Words, written : BOOLEAN]
             /\ SaveProjectObserver(FileSettings(chosen)).written
             /\ WithEnv(chosen).lang = opts.lang
             /\ WithEnv(chosen) = Loaded(SaveProjectObserver(FileSettings(chosen)), opts.lang)
<1>1. ui.form.enabled \in BOOLEAN /\ ui.form.target \in Words /\ opts.lang \in {0, 1}
  BY DEF ObserverTypes, Screens, Forms, Configs
<1>2. launch.env.target \in Words
  BY ObserverSetupsAssumption DEF ObserverTypes, Words
<1> QED
  BY <1>1, <1>2 DEF SaveProjectObserver, FileSettings, Loaded, WithEnv, Configs

LEMMA TypesInit == ObserverInit => ObserverTypes
<1> SUFFICES ASSUME ObserverInit PROVE ObserverTypes
  OBVIOUS
<1>1. /\ launch \in ObserverSetups /\ key \in BOOLEAN
      /\ file \in [enabled : BOOLEAN, target : Words, written : BOOLEAN]
  BY ObserverSetupsAssumption DEF ObserverInit, Words
<1>2. launch.default \in Words /\ launch.env.target \in Words
  BY <1>1, ObserverSetupsAssumption DEF Words
<1>3. opts \in Configs /\ opts = Loaded(file, 0)
  BY <1>1, <1>2 DEF ObserverInit, Loaded, WithEnv, Configs
<1>4. cmd \in [pc : Steps, of : Reasons] /\ panel \in Panels /\ title \in Nat /\ namers \in SUBSET Nat
      /\ spent \in Sums /\ cmd.pc = "free" /\ cmd.of = "none"
  BY DEF ObserverInit, Free, NoPanel, Steps, Reasons, Panels, Sums
<1>5. NewObserver \in Observers /\ NewWorker \in Workers
  <2>1. <<>> \in Seq(Messages)
    OBVIOUS
  <2> QED
    BY <1>1, <1>3, <2>1 DEF NewObserver, NewWorker, Observers, Workers, Points, Serving, AtWork, Ends
<1>6. /\ obs \in Seq(Observers) /\ workers \in Seq(Workers) /\ live \in [obs : Nat, worker : Nat]
      /\ live.obs \in 0..Len(obs) /\ live.worker \in 0..Len(workers)
  BY <1>5 DEF ObserverInit
<1>7. ui \in Screens
  <2>1. NoForm \in Forms
    BY DEF NoForm, Forms, Words
  <2>2. [NoForm EXCEPT !.target = IF opts.target = "" THEN launch.default ELSE opts.target, !.first = TRUE] \in Forms
    BY <1>2, <1>3, <2>1 DEF Forms, Configs
  <2>3. [notice |-> 0, analyzing |-> 0, enabled |-> opts.enabled, target |-> opts.target, key |-> key] \in Views
    BY <1>1, <1>3 DEF Views, Configs
  <2> QED
    BY <2>1, <2>2, <2>3 DEF ObserverInit, Onboarding, Screens, Overlays
<1> QED
  BY <1>1, <1>3, <1>4, <1>6, <1>7 DEF ObserverTypes

LEMMA TypesKeep == ObserverTypes /\ [ObserverNext]_observerVars => ObserverTypes'
<1> SUFFICES ASSUME ObserverTypes, [ObserverNext]_observerVars PROVE ObserverTypes'
  OBVIOUS
<1>0. /\ launch \in ObserverSetups
      /\ file \in [enabled : BOOLEAN, target : Words, written : BOOLEAN]
      /\ key \in BOOLEAN /\ opts \in Configs
      /\ cmd \in [pc : Steps, of : Reasons] /\ live \in [obs : Nat, worker : Nat]
      /\ obs \in Seq(Observers) /\ workers \in Seq(Workers)
      /\ live.obs \in 0..Len(obs) /\ live.worker \in 0..Len(workers)
      /\ panel \in Panels /\ title \in Nat /\ namers \in SUBSET Nat
      /\ ui \in Screens /\ spent \in Sums
      /\ cmd.pc = "free" => cmd.of \in {"none", "closed"}
      /\ cmd.pc \in {"persist", "clear"} => cmd.of = "settings"
      /\ cmd.pc \in {"stop", "close"} => cmd.of # "none"
      /\ cmd.pc = "start" => cmd.of \in {"settings", "language"}
  BY DEF ObserverTypes
<1>1. CASE UNCHANGED observerVars
  BY <1>1 DEF ObserverTypes, observerVars
<1>2. ASSUME NEW w \in DOMAIN workers, Serve(w) \/ Sent(w) PROVE ObserverTypes'
  BY <1>0, <1>2, ServeFrame DEF WorkerOnly, Alike, ObserverTypes
<1>3. ASSUME NEW i \in DOMAIN obs, Collect(i) PROVE ObserverTypes'
  BY <1>0, <1>3, Collected DEF Collect, Alike, ObserverTypes
<1>4. ASSUME NEW i \in DOMAIN obs, CollectorEnds(i) PROVE ObserverTypes'
  <2> DEFINE o == [obs[i] EXCEPT !.collecting = FALSE]
  <2>1. o \in Observers
    <3>1. obs[i] \in Observers
      BY <1>0, Lengths
    <3> QED
      BY <3>1 DEF Observers
  <2>2. obs' = [obs EXCEPT ![i] = o]
    BY <1>0, <1>4 DEF CollectorEnds, Observers
  <2> QED
    BY <1>0, <1>4, <2>1, <2>2, Changed DEF CollectorEnds, ObserverTypes
<1>5. CASE Says
  <2>1. [kind |-> "agent", id |-> spent.says + 1] \in Messages
    BY <1>0 DEF Sums, Messages
  <2> QED
    BY <1>0, <1>5, <2>1, Emitted, SpendsTypes DEF Says, Alike, ObserverTypes
<1>6. CASE SubmitTask
  <2>1. spent.tasks + 1 \in Nat
    BY <1>0 DEF Sums
  <2>2. [kind |-> "user", id |-> spent.tasks + 1] \in Messages
    BY <2>1 DEF Messages
  <2> QED
    BY <1>0, <1>6, <2>1, <2>2, Emitted, SpendsTypes DEF SubmitTask, Alike, ObserverTypes
<1>7. ASSUME NEW t \in namers, NameArrives(t) PROVE ObserverTypes'
  <2>1. title' \in Nat
    BY <1>0, <1>7 DEF NameArrives, TitleOutcomes
  <2> QED
    BY <1>0, <1>7, <2>1 DEF NameArrives, ObserverTypes
<1>8. CASE Persist
  <2> DEFINE chosen == [enabled |-> ui.form.enabled, target |-> ui.form.target, lang |-> opts.lang]
  <2>0. /\ WithEnv(chosen) \in Configs
        /\ SaveProjectObserver(FileSettings(chosen)) \in [enabled : BOOLEAN, target : Words, written : BOOLEAN]
    BY ChosenTyped
  <2>1. CASE /\ file' = SaveProjectObserver(FileSettings(chosen)) /\ opts' = WithEnv(chosen)
             /\ cmd' = [cmd EXCEPT !.pc = "stop"] /\ UNCHANGED <<spent, ui>>
    <3>1. cmd' \in [pc : Steps, of : Reasons] /\ cmd'.pc = "stop" /\ cmd'.of = "settings"
      BY <1>0, <1>8, <2>1 DEF Persist, Steps
    <3>2. UNCHANGED <<launch, key, live, obs, workers, panel, title, namers>>
      BY <1>8 DEF Persist
    <3> QED
      BY <1>0, <2>0, <2>1, <3>1, <3>2 DEF ObserverTypes
  <2>2. CASE SaveFails /\ cmd' = Free /\ ui' = [ui EXCEPT !.pc = "ready"] /\ UNCHANGED <<file, opts>>
    BY <1>0, <1>8, <2>2, SpendsTypes DEF Persist, SaveFails, ObserverTypes, Steps, Free, Reasons, Screens
  <2> QED
    BY <1>8, <2>1, <2>2 DEF Persist
<1>9. CASE StopWorker
  <2>1. workers' \in Seq(Workers) /\ Len(workers') = Len(workers)
    <3>1. CASE live.worker = 0
      BY <1>0, <1>9, <3>1 DEF StopWorker
    <3>2. CASE live.worker # 0
      <4> DEFINE w == live.worker
                 e == [workers[w] EXCEPT !.cancelled = TRUE]
      <4>1. w \in DOMAIN workers
        BY <1>0, <3>2
      <4>2. e \in Workers
        BY <4>1, WorkerAt DEF Workers
      <4>3. workers' = [workers EXCEPT ![w] = e]
        BY <1>0, <1>9, <3>2, <4>1 DEF StopWorker, Workers
      <4> QED
        BY <1>0, <4>1, <4>2, <4>3, Changed
    <3> QED
      BY <3>1, <3>2
  <2> QED
    <3>1. cmd' \in [pc : Steps, of : Reasons] /\ cmd'.pc = "close" /\ cmd'.of = cmd.of /\ cmd.pc = "stop"
      BY <1>0, <1>9 DEF StopWorker, Steps
    <3>2. live' \in [obs : Nat, worker : Nat] /\ live'.worker = 0 /\ live'.obs = live.obs
      BY <1>0, <1>9 DEF StopWorker
    <3>3. Len(workers) \in Nat
      BY <1>0
    <3>4. UNCHANGED <<launch, opts, file, key, obs, panel, title, namers, ui, spent>>
      BY <1>9 DEF StopWorker
    <3> QED
      BY <1>0, <2>1, <3>1, <3>2, <3>3, <3>4 DEF ObserverTypes
<1>10. CASE CloseObserver
  <2> DEFINE i == live.obs
             o == [obs[i] EXCEPT !.subscribed = FALSE]
  <2>1. i \in DOMAIN obs
    BY <1>0, <1>10 DEF CloseObserver
  <2>2. o \in Observers
    <3>1. obs[i] \in Observers
      BY <1>0, <2>1, Lengths
    <3> QED
      BY <3>1 DEF Observers
  <2>3. obs' = [obs EXCEPT ![i] = o]
    BY <1>0, <1>10, <2>1 DEF CloseObserver, Observers
  <2> QED
    BY <1>0, <1>10, <2>1, <2>2, <2>3, Changed DEF CloseObserver, ObserverTypes
<1>11. CASE ObserverClosed
  <2>1. cmd.of \in {"settings", "language", "closed"} /\ cmd.pc = "close"
    BY <1>0, <1>11 DEF ObserverClosed, Reasons
  <2>2. /\ cmd' \in [pc : Steps, of : Reasons] /\ cmd'.of = cmd.of
        /\ cmd.of = "settings" => cmd'.pc = "clear"
        /\ cmd.of = "language" => cmd'.pc = "start"
        /\ cmd.of = "closed" => cmd'.pc = "free"
    BY <1>0, <1>11, <2>1 DEF ObserverClosed, Steps
  <2>3. live' \in [obs : Nat, worker : Nat] /\ live'.obs = 0 /\ live'.worker = live.worker
    BY <1>0, <1>11 DEF ObserverClosed
  <2>4. Len(obs) \in Nat
    BY <1>0
  <2>5. UNCHANGED <<launch, opts, file, key, obs, workers, panel, title, namers, ui, spent>>
    BY <1>11 DEF ObserverClosed
  <2> QED
    BY <1>0, <2>1, <2>2, <2>3, <2>4, <2>5 DEF ObserverTypes
<1>12. CASE ClearForSettings
  BY <1>0, <1>12 DEF ClearForSettings, ObserverTypes, Steps, Panels
<1>13. CASE StartObserver
  <2>1. NoForm \in Forms
    BY DEF NoForm, Forms, Words
  <2>2. ui' \in Screens /\ cmd' \in [pc : Steps, of : Reasons] /\ cmd'.pc = "free" /\ cmd'.of = "none"
    BY <1>0, <1>13, <2>1 DEF StartObserver, Screens, Overlays, Free, Steps, Reasons
  <2>3. /\ obs' \in Seq(Observers) /\ workers' \in Seq(Workers) /\ live' \in [obs : Nat, worker : Nat]
        /\ live'.obs \in 0..Len(obs') /\ live'.worker \in 0..Len(workers')
    <3>1. CASE opts.enabled
      <4>1. NewObserver \in Observers /\ NewWorker \in Workers
        BY <1>0, NewTyped
      <4>2. /\ obs' = Append(obs, NewObserver) /\ workers' = Append(workers, NewWorker)
            /\ live' = [obs |-> Len(obs) + 1, worker |-> Len(workers) + 1]
        BY <1>13, <3>1 DEF StartObserver
      <4> QED
        BY <1>0, <4>1, <4>2
    <3>2. CASE ~opts.enabled
      BY <1>0, <1>13, <3>2 DEF StartObserver
    <3> QED
      BY <3>1, <3>2
  <2> QED
    BY <1>0, <1>13, <2>2, <2>3 DEF StartObserver, ObserverTypes
<1>14. ASSUME NEW next \in Overlays, ReadNotice(next) PROVE ObserverTypes'
  BY <1>0, <1>14 DEF ReadNotice, ObserverTypes, Screens, Panels, Overlays
<1>15. CASE ReadPanel
  <2>1. View(ui.notice) \in Views
    BY <1>0 DEF View, Views, Screens, Panels, Configs
  <2>2. Begun(View(ui.notice)) \in Forms
    BY <2>1 DEF Begun, NoForm, Forms, Views
  <2>3. ui' \in Screens
    BY <1>0, <1>15, <2>1, <2>2 DEF ReadPanel, Screens, Overlays
  <2>4. spent' \in Sums /\ panel' \in Panels /\ workers' \in Seq(Workers) /\ Len(workers') = Len(workers)
    <3>1. Requests \/ UNCHANGED <<panel, workers, spent>>
      BY <1>15 DEF ReadPanel
    <3> QED
      BY <1>0, <3>1, RequestsTypes
  <2> QED
    BY <1>0, <1>15, <2>3, <2>4 DEF ReadPanel, ObserverTypes
<1>16. CASE PressAsk
  BY <1>0, <1>16, RequestsTypes DEF PressAsk, ObserverTypes
<1>17. CASE Type
  <2>1. launch.targets \subseteq Words
    BY <1>0, ObserverSetupsAssumption DEF Words
  <2>2. ui' \in Screens
    <3>0. ui.form \in Forms
      BY <1>0 DEF Screens
    <3>1. \A f \in Forms : [ui EXCEPT !.form = f] \in Screens
      BY <1>0 DEF Screens
    <3>2. CASE ui' = [ui EXCEPT !.form.enabled = ~@]
      <4>1. [ui.form EXCEPT !.enabled = ~@] \in Forms
        BY <3>0 DEF Forms
      <4> QED
        BY <3>1, <3>2, <4>1
    <3>3. ASSUME NEW t \in launch.targets, ui' = [ui EXCEPT !.form.target = t] PROVE ui' \in Screens
      <4>1. [ui.form EXCEPT !.target = t] \in Forms
        BY <2>1, <3>0 DEF Forms
      <4> QED
        BY <3>1, <3>3, <4>1
    <3>4. CASE ui' = [ui EXCEPT !.form.key = TRUE]
      <4>1. [ui.form EXCEPT !.key = TRUE] \in Forms
        BY <3>0 DEF Forms
      <4> QED
        BY <3>1, <3>4, <4>1
    <3> QED
      BY <1>17, <3>2, <3>3, <3>4 DEF Type
  <2> QED
    BY <1>0, <1>17, <2>2 DEF Type, ObserverTypes
<1>18. CASE Save
  BY <1>0, <1>18, SpendsTypes DEF Save, ObserverTypes, SaveAPIKey, Screens, Forms, Steps, Reasons
<1>19. CASE Escape
  <2>1. NoForm \in Forms /\ [NoForm EXCEPT !.first = TRUE] \in Forms
    BY DEF NoForm, Forms, Words
  <2>2. ui' \in Screens
    <3>1. \/ ui' = [ui EXCEPT !.pc = "doing", !.form = [NoForm EXCEPT !.first = TRUE]]
          \/ ui' = [ui EXCEPT !.overlay = "none", !.form = NoForm]
      BY <1>19 DEF Escape
    <3> QED
      BY <1>0, <2>1, <3>1 DEF Screens, Overlays
  <2>3. cmd' = cmd \/ cmd' = [pc |-> "persist", of |-> "settings"]
    BY <1>19 DEF Escape
  <2>4. UNCHANGED <<launch, opts, file, key, live, obs, workers, panel, title, namers, spent>>
    BY <1>19 DEF Escape
  <2> QED
    BY <1>0, <2>2, <2>3, <2>4 DEF ObserverTypes, Steps, Reasons
<1>20. CASE SwitchLanguage
  <2>1. opts' \in Configs /\ ui' \in Screens
    <3>1. opts.lang \in {0, 1} /\ 1 - opts.lang \in {0, 1}
      BY <1>0 DEF Configs
    <3>2. opts' = [opts EXCEPT !.lang = 1 - @] /\ ui' = [ui EXCEPT !.pc = "doing"]
      BY <1>20 DEF SwitchLanguage
    <3> QED
      BY <1>0, <3>1, <3>2 DEF Configs, Screens
  <2>2. spent' \in Sums
    BY <1>20, SpendsTypes DEF SwitchLanguage
  <2>3. /\ cmd' = [pc |-> "stop", of |-> "language"]
        /\ UNCHANGED <<launch, file, key, live, obs, workers, panel, title, namers>>
    BY <1>20 DEF SwitchLanguage
  <2> QED
    BY <1>0, <2>1, <2>2, <2>3 DEF ObserverTypes, Steps, Reasons
<1>21. CASE CloseSession
  BY <1>0, <1>21, SpendsTypes DEF CloseSession, ObserverTypes, Steps, Reasons
<1>22. CASE Relaunch
  <2> DEFINE loaded == Loaded(file, opts.lang)
  <2>1. loaded \in Configs
    BY LoadedTyped
  <2>2. Onboarding(loaded) \in Screens /\ [NewObserver EXCEPT !.cfg = loaded] \in Observers /\ NewWorker \in Workers
    BY <2>1, OnboardingTyped, NewTyped
  <2> HIDE DEF loaded
  <2>3. /\ obs' \in Seq(Observers) /\ workers' \in Seq(Workers) /\ live' \in [obs : Nat, worker : Nat]
        /\ live'.obs \in 0..Len(obs') /\ live'.worker \in 0..Len(workers')
    BY <1>22, <2>2 DEF Relaunch, loaded
  <2>4. panel' \in Panels /\ namers' \in SUBSET Nat /\ cmd' \in [pc : Steps, of : Reasons]
        /\ cmd'.pc = "free" /\ cmd'.of = "none"
    BY <1>22 DEF Relaunch, NoPanel, Panels, Free, Steps, Reasons
  <2>5. UNCHANGED <<launch, file, key, title, spent>> /\ opts' = loaded /\ ui' = Onboarding(loaded)
    BY <1>22 DEF Relaunch, loaded
  <2> QED
    BY <1>0, <2>1, <2>2, <2>3, <2>4, <2>5 DEF ObserverTypes
<1>23. CASE PhoneAsks
  BY <1>0, <1>23, RequestsTypes DEF PhoneAsks, ObserverTypes
<1>24. CASE Poll \/ Frame
  BY <1>24 DEF Poll, Frame, ObserverTypes
<1> QED
  BY <1>1, <1>2, <1>3, <1>4, <1>5, <1>6, <1>7, <1>8, <1>9, <1>10, <1>11, <1>12, <1>13, <1>14, <1>15, <1>16,
     <1>17, <1>18, <1>19, <1>20, <1>21, <1>22, <1>23, <1>24
  DEF ObserverNext, Command, Interface, Overlays

(***************************************************************************)
(* Requests: who has one, and what is shown of it.                         *)
(***************************************************************************)

\* No worker gets a request, and one that begins to say it failed is not shown at work.
NoNewWork ==
  \A w \in DOMAIN workers' : workers'[w].pc \in Serving =>
    /\ w \in DOMAIN workers /\ workers[w].pc \in Serving /\ workers'[w].req = workers[w].req
    /\ workers'[w].pc = "publishing" => workers[w].pc = "publishing" \/ panel'.analyzing = 0

LEMMA Quietly ==
  ASSUME ObserverTypes, Numbered, Apart, ObserverTypes', NoNewWork,
         panel'.pending \in {panel.pending, 0}, panel'.analyzing \in {panel.analyzing, 0},
         panel'.notice \in {panel.notice, 0}, ui'.notice \in {ui.notice, panel.notice, 0},
         \A i \in DOMAIN panel'.reports : panel'.reports[i] <= spent'.requests,
         spent'.requests >= spent.requests
  PROVE  Numbered' /\ Apart'
<1>1. /\ panel \in Panels /\ panel' \in Panels /\ spent \in Sums /\ spent' \in Sums
      /\ workers' \in Seq(Workers) /\ \A w \in DOMAIN workers' : workers'[w] \in Workers
      /\ \A w \in DOMAIN workers : workers[w] \in Workers
  BY Lengths DEF ObserverTypes
<1>2. /\ panel.pending \in Nat /\ panel.analyzing \in Nat /\ panel.notice \in Nat /\ ui.notice \in Nat
      /\ spent.requests \in Nat /\ spent'.requests \in Nat
      /\ \A w \in DOMAIN workers' : workers'[w].req \in Nat
  BY <1>1 DEF Panels, Sums, Workers, ObserverTypes, Screens
<1>3. Numbered'
  BY <1>2 DEF Numbered, NoNewWork
<1>4. panel'.pending # 0 => panel'.pending # panel'.analyzing
  BY DEF Apart
<1>5. \A w \in DOMAIN workers' : workers'[w].pc \in Serving =>
        /\ workers'[w].req # 0 /\ workers'[w].req # panel'.pending
        /\ workers'[w].pc = "publishing" => workers'[w].req # panel'.analyzing
  BY DEF Apart, NoNewWork
<1>6. \A v, w \in DOMAIN workers' :
        workers'[v].pc \in Serving /\ workers'[w].pc \in Serving /\ v # w => workers'[v].req # workers'[w].req
  BY DEF Apart, NoNewWork
<1>7. ASSUME NEW n \in {panel'.notice, ui'.notice}, n # 0 PROVE Over(n)'
  <2>1. Over(n)
    BY <1>7 DEF Apart
  <2> QED
    BY <1>7, <2>1 DEF Over, NoNewWork
<1> QED
  BY <1>3, <1>4, <1>5, <1>6, <1>7 DEF Apart

\* A request takes the waiting slot under a number of its own.
LEMMA Asked ==
  ASSUME ObserverTypes, Numbered, Apart, ObserverTypes', Requests, ui'.notice \in {ui.notice, 0}
  PROVE  Numbered' /\ Apart'
<1>1. /\ panel \in Panels /\ spent \in Sums /\ spent'.requests = spent.requests + 1
      /\ \A w \in DOMAIN workers : workers[w] \in Workers
  BY RequestsGoes, Lengths DEF ObserverTypes
<1>2. /\ panel.pending \in Nat /\ panel.analyzing \in Nat /\ panel.notice \in Nat /\ ui.notice \in Nat
      /\ spent.requests \in Nat /\ \A w \in DOMAIN workers : workers[w].req \in Nat
      /\ \A i \in DOMAIN panel.reports : panel.reports[i] \in Nat
  <2>1. panel.pending \in Nat /\ panel.analyzing \in Nat /\ panel.notice \in Nat /\ panel.reports \in Seq(Nat)
    BY <1>1 DEF Panels
  <2>2. ui.notice \in Nat
    BY DEF ObserverTypes, Screens
  <2>3. spent.requests \in Nat /\ \A w \in DOMAIN workers : workers[w].req \in Nat
    BY <1>1 DEF Sums, Workers
  <2>4. \A i \in DOMAIN panel.reports : panel.reports[i] \in Nat
    BY <2>1, Lengths
  <2> QED
    BY <2>1, <2>2, <2>3, <2>4
<1>3. CASE live.worker = 0
  <2>1. panel' = panel /\ workers' = workers
    BY <1>3, RequestsGoes
  <2> QED
    BY <1>1, <1>2, <2>1, Quietly DEF NoNewWork, Numbered
<1>4. CASE live.worker # 0
  <2> DEFINE n == spent.requests + 1
  <2>1. /\ panel'.pending = n /\ panel'.analyzing = panel.analyzing /\ panel'.notice = panel.notice
        /\ panel'.reports = panel.reports
    BY <1>1, <1>4, RequestsGoes DEF Panels
  <2>2. /\ DOMAIN workers' = DOMAIN workers
        /\ \A w \in DOMAIN workers : workers'[w].pc = workers[w].pc /\ workers'[w].req = workers[w].req
    <3>1. /\ live.worker \in DOMAIN workers
          /\ GoesOn(live.worker, [workers[live.worker] EXCEPT !.sends = @ + 1])
      BY <1>4, RequestsGoes
    <3> QED
      BY <1>1, <3>1 DEF GoesOn, Workers
  <2>3. Numbered'
    BY <1>1, <1>2, <2>1, <2>2 DEF Numbered
  <2>4. /\ panel.analyzing < n /\ panel.notice < n /\ ui.notice < n /\ n > 0
        /\ \A w \in DOMAIN workers : workers[w].pc \in Serving => workers[w].req < n
    BY <1>2 DEF Numbered
  <2>5. ASSUME NEW m \in {panel'.notice, ui'.notice}, m # 0 PROVE Over(m)'
    <3>1. Over(m) /\ m # n
      BY <1>2, <2>1, <2>4, <2>5 DEF Apart
    <3> QED
      BY <2>1, <2>2, <3>1 DEF Over
  <2> QED
    BY <1>2, <2>1, <2>2, <2>3, <2>4, <2>5 DEF Apart
<1> QED
  BY <1>3, <1>4

\* Taken from the slot, it is the one the panel names.
LEMMA Taken ==
  ASSUME ObserverTypes, Numbered, Apart, ObserverTypes', NEW w \in DOMAIN workers, Take(w), panel.pending # 0
  PROVE  Numbered' /\ Apart'
<1> DEFINE n == panel.pending
<1>1. /\ panel \in Panels /\ workers[w] \in Workers /\ GoesOn(w, [workers[w] EXCEPT !.pc = "taken", !.req = n])
  BY TakeGoes, WorkerAt DEF ObserverTypes
<1>2. /\ panel'.pending = 0 /\ panel'.analyzing = n /\ panel'.notice = panel.notice
      /\ panel'.reports = panel.reports /\ ui' = ui /\ spent' = spent
  BY <1>1 DEF Take, Panels
<1>3. /\ DOMAIN workers' = DOMAIN workers /\ workers'[w].pc = "taken" /\ workers'[w].req = n
      /\ \A v \in DOMAIN workers \ {w} : workers'[v] = workers[v]
  BY <1>1 DEF GoesOn, Workers
<1>4. n \in Nat /\ n <= spent.requests /\ spent.requests \in Nat
  BY <1>1 DEF Numbered, Panels, ObserverTypes, Sums
<1>5. Numbered'
  BY <1>2, <1>3, <1>4 DEF Numbered
<1>6. \A v \in DOMAIN workers' : workers'[v].pc \in Serving =>
        /\ workers'[v].req # 0 /\ workers'[v].req # panel'.pending
        /\ workers'[v].pc = "publishing" => workers'[v].req # panel'.analyzing
  BY <1>2, <1>3 DEF Apart
<1>7. \A u, v \in DOMAIN workers' :
        workers'[u].pc \in Serving /\ workers'[v].pc \in Serving /\ u # v => workers'[u].req # workers'[v].req
  BY <1>3 DEF Apart
<1>8. ASSUME NEW m \in {panel'.notice, ui'.notice}, m # 0 PROVE Over(m)'
  <2>1. Over(m)
    BY <1>2, <1>8 DEF Apart
  <2> QED
    BY <1>2, <1>3, <1>8, <2>1 DEF Over
<1> QED
  BY <1>2, <1>5, <1>6, <1>7, <1>8 DEF Apart

\* The failure of a request is said when the panel no longer shows it at work.
LEMMA Published ==
  ASSUME ObserverTypes, Numbered, Apart, ObserverTypes', NEW w \in DOMAIN workers, Publish(w)
  PROVE  Numbered' /\ Apart'
<1> DEFINE n == workers[w].req
<1>1. /\ panel \in Panels /\ workers[w] \in Workers /\ GoesOn(w, [workers[w] EXCEPT !.pc = "waiting"])
  BY PublishGoes, WorkerAt DEF ObserverTypes
<1>2. /\ panel'.pending = panel.pending /\ panel'.analyzing = panel.analyzing /\ panel'.notice = n
      /\ panel'.reports = panel.reports /\ ui' = ui /\ spent' = spent
  BY <1>1 DEF Publish, Panels
<1>3. /\ DOMAIN workers' = DOMAIN workers /\ workers'[w].pc = "waiting" /\ workers[w].pc = "publishing"
      /\ \A v \in DOMAIN workers \ {w} : workers'[v] = workers[v]
  BY <1>1 DEF GoesOn, Workers, Publish
<1>4. n \in Nat /\ n <= spent.requests /\ spent.requests \in Nat
  BY <1>1, <1>3 DEF Numbered, Workers, ObserverTypes, Sums, Serving
<1>5. Numbered'
  BY <1>2, <1>3, <1>4 DEF Numbered, Serving, AtWork
<1>6. \A v \in DOMAIN workers' : workers'[v].pc \in Serving =>
        /\ workers'[v].req # 0 /\ workers'[v].req # panel'.pending
        /\ workers'[v].pc = "publishing" => workers'[v].req # panel'.analyzing
  BY <1>2, <1>3 DEF Apart, Serving, AtWork
<1>7. \A u, v \in DOMAIN workers' :
        workers'[u].pc \in Serving /\ workers'[v].pc \in Serving /\ u # v => workers'[u].req # workers'[v].req
  BY <1>3 DEF Apart, Serving, AtWork
<1>8. \A v \in DOMAIN workers' :
        workers'[v].pc \in Serving => v # w /\ workers'[v] = workers[v] /\ v \in DOMAIN workers
  BY <1>3 DEF Serving, AtWork
<1>9. n # 0 /\ n # panel.pending /\ n # panel.analyzing /\ workers[w].pc \in Serving
  BY <1>3 DEF Apart, Serving
<1>10. ASSUME NEW m \in {panel'.notice, ui'.notice}, m # 0 PROVE Over(m)'
  <2>1. /\ m # panel.pending /\ m # panel.analyzing
        /\ \A v \in DOMAIN workers' : workers'[v].pc \in Serving => workers'[v].req # m
    <3>1. CASE m = n
      BY <1>8, <1>9, <3>1 DEF Apart
    <3>2. CASE m = ui.notice
      BY <1>8, <1>10, <3>2 DEF Apart, Over
    <3> QED
      BY <1>2, <1>10, <3>1, <3>2
  <2> QED
    BY <1>2, <2>1 DEF Over
<1>11. panel'.pending # 0 => panel'.pending # panel'.analyzing
  BY <1>2 DEF Apart
<1> QED
  BY <1>5, <1>6, <1>7, <1>10, <1>11 DEF Apart

\* A worker that goes on with what it has, or waits again.
LEMMA GoesQuietly ==
  ASSUME ObserverTypes, NEW w \in DOMAIN workers, WorkerOnly(w),
         \/ workers'[w].pc \notin Serving
         \/ /\ workers[w].pc \in Serving /\ workers'[w].req = workers[w].req
            /\ workers'[w].pc = "publishing" => panel'.analyzing = 0
  PROVE  NoNewWork
BY DEF NoNewWork, WorkerOnly

\* Of the actions of a worker only Take gives it a request, and only Publish a notice.
LEMMA ServeNumbers ==
  ASSUME RInv, ObserverTypes', NEW w \in DOMAIN workers, Serve(w) \/ Sent(w)
  PROVE  Numbered' /\ Apart'
<1> USE DEF RInv
<1>0. /\ workers[w] \in Workers /\ panel \in Panels /\ spent.requests \in Nat /\ spent.requests >= spent.requests
      /\ ui'.notice = ui.notice /\ spent' = spent
      /\ \A i \in DOMAIN panel.reports : panel.reports[i] <= spent.requests
  <2>1. workers[w] \in Workers /\ panel \in Panels /\ spent.requests \in Nat
    BY WorkerAt DEF ObserverTypes, Sums
  <2>2. ui' = ui /\ spent' = spent
    BY ServeFrame DEF WorkerOnly
  <2> QED
    BY <2>1, <2>2 DEF Numbered
<1>a. WorkerOnly(w)
  BY ServeFrame
<1>1. CASE Wake(w)
  <2>1. workers'[w].pc = "woken" /\ panel' = panel
    BY <1>0, <1>1, WakeGoes DEF GoesOn, Workers, Wake
  <2>2. NoNewWork
    BY <1>a, <2>1, GoesQuietly DEF Serving, AtWork
  <2> QED
    BY <1>0, <2>1, <2>2, Quietly
<1>2. CASE Sent(w)
  <2>1. workers'[w].pc = workers[w].pc /\ workers'[w].req = workers[w].req /\ panel' = panel
    BY <1>0, <1>2, SentGoes DEF GoesOn, Workers, Sent
  <2>2. NoNewWork
    BY <1>a, <2>1 DEF NoNewWork, WorkerOnly
  <2> QED
    BY <1>0, <2>1, <2>2, Quietly
<1>3. CASE Exit(w)
  <2>1. workers'[w].pc = "gone" /\ panel' = panel
    BY <1>0, <1>3, ExitGoes DEF GoesOn, Workers, Exit
  <2>2. NoNewWork
    BY <1>a, <2>1, GoesQuietly DEF Serving, AtWork
  <2> QED
    BY <1>0, <2>1, <2>2, Quietly
<1>4. CASE Take(w)
  <2>1. CASE panel.pending = 0
    <3>1. workers'[w].pc = "waiting" /\ panel' = panel
      BY <1>0, <1>4, <2>1, TakeNothingGoes DEF GoesOn, Workers, Take
    <3>2. NoNewWork
      BY <1>a, <3>1, GoesQuietly DEF Serving, AtWork
    <3> QED
      BY <1>0, <3>1, <3>2, Quietly
  <2>2. CASE panel.pending # 0
    BY <1>4, <2>2, Taken
  <2> QED
    BY <2>1, <2>2
<1>5. CASE Begin(w)
  <2>1. /\ workers[w].pc \in Serving /\ workers'[w].pc # "publishing"
        /\ workers'[w].req = workers[w].req /\ panel' = panel
    BY <1>0, <1>5, BeginGoes DEF GoesOn, Workers, Begin, Serving, AtWork
  <2>2. NoNewWork
    BY <1>a, <2>1, GoesQuietly
  <2> QED
    BY <1>0, <2>1, <2>2, Quietly
<1>6. CASE Sample(w)
  <2>1. /\ workers[w].pc \in Serving /\ workers'[w].pc # "publishing"
        /\ workers'[w].req = workers[w].req /\ panel' = panel
    BY <1>0, <1>6, SampleGoes DEF GoesOn, Workers, Sample, Serving, AtWork
  <2>2. NoNewWork
    BY <1>a, <2>1, GoesQuietly
  <2> QED
    BY <1>0, <2>1, <2>2, Quietly
<1>7. ASSUME NEW out \in Ends, Answered(w, out) PROVE Numbered' /\ Apart'
  <2>1. /\ workers[w].pc \in Serving /\ workers'[w].pc # "publishing"
        /\ workers'[w].req = workers[w].req /\ panel' = panel
    BY <1>0, <1>7, AnsweredGoes DEF GoesOn, Workers, Answered, Serving, AtWork
  <2>2. NoNewWork
    BY <1>a, <2>1, GoesQuietly
  <2> QED
    BY <1>0, <2>1, <2>2, Quietly
<1>8. CASE File(w)
  <2> DEFINE reports == <<workers[w].req>> \o panel.reports
  <2>1. /\ workers[w].pc \in Serving /\ workers'[w].pc # "publishing"
        /\ workers'[w].req = workers[w].req
    BY <1>0, <1>8, FileGoes DEF GoesOn, Workers, File, Serving, AtWork
  <2>2. NoNewWork
    BY <1>a, <2>1, GoesQuietly
  <2>3. panel' = [panel EXCEPT !.reports = IF Len(reports) > launch.kept THEN Front(reports) ELSE reports]
    BY <1>8 DEF File
  <2>4. /\ reports \in Seq(Nat) /\ reports # <<>>
        /\ \A i \in DOMAIN reports : reports[i] <= spent.requests
    <3>1. workers[w].req \in Nat /\ workers[w].req <= spent.requests /\ panel.reports \in Seq(Nat)
      BY <1>0, <2>1 DEF Numbered, Workers, Panels
    <3>2. reports \in Seq(Nat) /\ reports # <<>> /\ Len(reports) = Len(panel.reports) + 1
          /\ \A i \in DOMAIN reports : reports[i] = IF i = 1 THEN workers[w].req ELSE panel.reports[i - 1]
      BY <3>1
    <3>3. ASSUME NEW i \in DOMAIN reports PROVE reports[i] <= spent.requests
      <4>1. i \in 1..(Len(panel.reports) + 1) /\ DOMAIN panel.reports = 1..Len(panel.reports)
        BY <3>1, <3>2
      <4>2. i # 1 => i - 1 \in DOMAIN panel.reports
        BY <3>1, <4>1
      <4> QED
        BY <1>0, <3>1, <3>2, <4>2
    <3> QED
      BY <3>2, <3>3
  <2>5. \A i \in DOMAIN Front(reports) : i \in DOMAIN reports /\ Front(reports)[i] = reports[i]
    <3> HIDE DEF reports
    <3> QED
      BY <2>4 DEF Front
  <2> HIDE DEF reports
  <2>6. \A i \in DOMAIN panel'.reports : panel'.reports[i] <= spent.requests
    <3>1. panel'.reports \in {reports, Front(reports)}
      BY <1>0, <2>3 DEF Panels
    <3> QED
      BY <2>4, <2>5, <3>1
  <2>7. panel'.pending = panel.pending /\ panel'.analyzing = panel.analyzing /\ panel'.notice = panel.notice
    BY <1>0, <2>3 DEF Panels
  <2> QED
    BY <1>0, <2>2, <2>6, <2>7, Quietly
<1>9. CASE ClearNotice(w)
  <2>1. /\ workers[w].pc \in Serving /\ workers'[w].pc # "publishing" /\ workers'[w].req = workers[w].req
        /\ panel'.pending = panel.pending /\ panel'.analyzing = panel.analyzing /\ panel'.notice = 0
        /\ panel'.reports = panel.reports
    BY <1>0, <1>9, ClearNoticeGoes DEF GoesOn, Workers, ClearNotice, Serving, AtWork, Panels
  <2>2. NoNewWork
    BY <1>a, <2>1, GoesQuietly
  <2> QED
    BY <1>0, <2>1, <2>2, Quietly
<1>10. CASE End(w)
  <2>1. /\ workers[w].pc \in Serving /\ workers'[w].req = workers[w].req
        /\ panel'.pending = panel.pending /\ panel'.analyzing = 0 /\ panel'.notice = panel.notice
        /\ panel'.reports = panel.reports
    BY <1>0, <1>10, EndGoes DEF GoesOn, Workers, End, Serving, AtWork, Panels
  <2>2. NoNewWork
    BY <1>a, <2>1, GoesQuietly
  <2> QED
    BY <1>0, <2>1, <2>2, Quietly
<1>11. CASE Publish(w)
  BY <1>11, Published
<1> QED
  BY <1>1, <1>2, <1>3, <1>4, <1>5, <1>6, <1>7, <1>8, <1>9, <1>10, <1>11 DEF Serve, Ends

\* A step that asks for nothing and shows nothing new.
LEMMA SilentNumbers ==
  ASSUME RInv, ObserverTypes', workers' = workers, panel' \in {panel, [panel EXCEPT !.notice = 0]},
         ui'.notice \in {ui.notice, panel.notice, 0}, spent'.requests >= spent.requests
  PROVE  Numbered' /\ Apart'
<1>1. panel \in Panels /\ spent.requests \in Nat /\ spent'.requests \in Nat /\ panel.reports \in Seq(Nat)
  BY DEF RInv, ObserverTypes, Sums, Panels
<1>2. /\ panel'.pending = panel.pending /\ panel'.analyzing = panel.analyzing
      /\ panel'.notice \in {panel.notice, 0} /\ panel'.reports = panel.reports
  BY <1>1 DEF Panels
<1>3. \A i \in DOMAIN panel'.reports : panel'.reports[i] <= spent'.requests
  <2>1. \A i \in DOMAIN panel.reports : panel.reports[i] <= spent.requests /\ panel.reports[i] \in Nat
    BY <1>1, Lengths DEF RInv, Numbered
  <2> QED
    BY <1>1, <1>2, <2>1
<1>4. NoNewWork
  BY DEF NoNewWork
<1> QED
  BY <1>2, <1>3, <1>4, Quietly DEF RInv

LEMMA NumbersKeep == RInv /\ [ObserverNext]_observerVars => Numbered' /\ Apart'
<1> SUFFICES ASSUME RInv, [ObserverNext]_observerVars PROVE Numbered' /\ Apart'
  OBVIOUS
<1>0. /\ ObserverTypes /\ ObserverTypes' /\ ui \in Screens /\ panel \in Panels
      /\ spent.requests \in Nat /\ spent.requests >= spent.requests
  <2>1. ObserverTypes /\ ObserverTypes'
    BY TypesKeep DEF RInv
  <2>2. spent.requests \in Nat
    BY <2>1 DEF ObserverTypes, Sums
  <2> QED
    BY <2>1, <2>2 DEF ObserverTypes
<1>1. CASE UNCHANGED observerVars
  BY <1>0, <1>1, SilentNumbers DEF observerVars
<1>2. ASSUME NEW w \in DOMAIN workers, Serve(w) \/ Sent(w) PROVE Numbered' /\ Apart'
  BY <1>0, <1>2, ServeNumbers
<1>3. ASSUME NEW i \in DOMAIN obs, Collect(i) \/ CollectorEnds(i) PROVE Numbered' /\ Apart'
  BY <1>0, <1>3, SilentNumbers DEF Collect, CollectorEnds
<1>4. CASE Says
  BY <1>0, <1>4, SpendsTypes, SilentNumbers DEF Says
<1>5. CASE SubmitTask
  BY <1>0, <1>5, SpendsTypes, SilentNumbers DEF SubmitTask
<1>6. ASSUME NEW t \in namers, NameArrives(t) PROVE Numbered' /\ Apart'
  BY <1>0, <1>6, SilentNumbers DEF NameArrives
<1>7. CASE Persist
  <2>1. spent'.requests >= spent.requests /\ ui'.notice = ui.notice
    BY <1>0, <1>7, SpendsTypes DEF Persist, SaveFails, Screens
  <2> QED
    BY <1>0, <1>7, <2>1, SilentNumbers DEF Persist
<1>8. CASE StopWorker
  <2>1. NoNewWork
    <3>1. CASE live.worker = 0
      BY <1>8, <3>1 DEF NoNewWork, StopWorker
    <3>2. CASE live.worker # 0
      <4>1. live.worker \in DOMAIN workers /\ workers \in Seq(Workers)
        BY <1>0, <3>2 DEF ObserverTypes
      <4>2. workers' = [workers EXCEPT ![live.worker].cancelled = TRUE]
        BY <1>8, <3>2 DEF StopWorker
      <4>3. /\ DOMAIN workers' = DOMAIN workers
            /\ \A v \in DOMAIN workers : workers'[v].pc = workers[v].pc /\ workers'[v].req = workers[v].req
        <5>1. DOMAIN workers' = DOMAIN workers
          BY <4>1, <4>2
        <5>2. \A v \in DOMAIN workers : workers[v] \in Workers
          BY <4>1, Lengths
        <5> QED
          BY <4>1, <4>2, <5>1, <5>2 DEF Workers
      <4> QED
        BY <4>3 DEF NoNewWork
    <3> QED
      BY <3>1, <3>2
  <2>2. panel' = panel /\ ui' = ui /\ spent' = spent
    BY <1>8 DEF StopWorker
  <2>3. \A i \in DOMAIN panel.reports : panel.reports[i] <= spent.requests
    BY DEF RInv, Numbered
  <2> QED
    BY <1>0, <2>1, <2>2, <2>3, Quietly DEF RInv
<1>9. CASE CloseObserver \/ ObserverClosed
  BY <1>0, <1>9, SilentNumbers DEF CloseObserver, ObserverClosed
<1>10. CASE ClearForSettings
  BY <1>0, <1>10, SilentNumbers DEF ClearForSettings
<1>11. CASE StartObserver
  <2>1. NoNewWork
    <3>1. CASE ~opts.enabled
      BY <1>11, <3>1 DEF NoNewWork, StartObserver
    <3>2. CASE opts.enabled
      <4>1. workers' = Append(workers, NewWorker) /\ workers \in Seq(Workers) /\ NewWorker \in Workers
        BY <1>0, <1>11, <3>2, NewTyped DEF StartObserver, ObserverTypes
      <4>2. /\ DOMAIN workers' = DOMAIN workers \cup {Len(workers) + 1}
            /\ workers'[Len(workers) + 1] = NewWorker
            /\ \A v \in DOMAIN workers : workers'[v] = workers[v]
        BY <4>1, Grown
      <4> QED
        BY <4>2 DEF NoNewWork, NewWorker, Serving, AtWork
    <3> QED
      BY <3>1, <3>2
  <2>2. panel' = panel /\ ui'.notice = ui.notice /\ spent' = spent
    BY <1>0, <1>11 DEF StartObserver, Screens
  <2>3. \A i \in DOMAIN panel.reports : panel.reports[i] <= spent.requests
    BY DEF RInv, Numbered
  <2> QED
    BY <1>0, <2>1, <2>2, <2>3, Quietly DEF RInv
<1>12. ASSUME NEW next \in Overlays, ReadNotice(next) PROVE Numbered' /\ Apart'
  <2>1. ui'.notice = panel.notice
    BY <1>0, <1>12 DEF ReadNotice, Screens
  <2> QED
    BY <1>0, <1>12, <2>1, SilentNumbers DEF ReadNotice
<1>13. CASE ReadPanel
  <2>1. ui'.notice = 0
    BY <1>0, <1>13 DEF ReadPanel, Screens
  <2>2. CASE Requests
    BY <1>0, <2>1, <2>2, Asked DEF RInv
  <2>3. CASE UNCHANGED <<panel, workers, spent>>
    BY <1>0, <2>1, <2>3, SilentNumbers
  <2> QED
    BY <1>13, <2>2, <2>3 DEF ReadPanel
<1>14. CASE PressAsk \/ PhoneAsks
  BY <1>0, <1>14, Asked DEF PressAsk, PhoneAsks, RInv
<1>15. CASE Type
  <2>1. ui'.notice = ui.notice
    BY <1>0, <1>15 DEF Type, Screens
  <2> QED
    BY <1>0, <1>15, <2>1, SilentNumbers DEF Type
<1>16. CASE Save
  <2>1. ui'.notice = ui.notice /\ spent'.requests >= spent.requests
    BY <1>0, <1>16, SpendsTypes DEF Save, Screens
  <2> QED
    BY <1>0, <1>16, <2>1, SilentNumbers DEF Save
<1>17. CASE Escape
  <2>1. ui'.notice = ui.notice
    BY <1>0, <1>17 DEF Escape, Screens
  <2> QED
    BY <1>0, <1>17, <2>1, SilentNumbers DEF Escape
<1>18. CASE SwitchLanguage
  <2>1. ui'.notice = ui.notice /\ spent'.requests >= spent.requests
    BY <1>0, <1>18, SpendsTypes DEF SwitchLanguage, Screens
  <2> QED
    BY <1>0, <1>18, <2>1, SilentNumbers DEF SwitchLanguage
<1>19. CASE CloseSession
  BY <1>0, <1>19, SpendsTypes, SilentNumbers DEF CloseSession
<1>20. CASE Relaunch
  <2>1. ui'.notice = 0
    BY <1>20 DEF Relaunch, Onboarding
  <2>2. panel' = NoPanel /\ spent' = spent
    BY <1>20 DEF Relaunch
  <2>3. NoNewWork
    <3>1. workers' = <<>> \/ workers' = <<NewWorker>>
      BY <1>20 DEF Relaunch
    <3>2. \A w \in DOMAIN workers' : workers'[w].pc = "waiting"
      BY <3>1 DEF NewWorker
    <3> QED
      BY <3>2 DEF NoNewWork, Serving, AtWork
  <2> QED
    BY <1>0, <2>1, <2>2, <2>3, Quietly DEF RInv, NoPanel
<1>21. CASE Poll \/ Frame
  BY <1>0, <1>21, SilentNumbers DEF Poll, Frame
<1> QED
  BY <1>1, <1>2, <1>3, <1>4, <1>5, <1>6, <1>7, <1>8, <1>9, <1>10, <1>11, <1>12, <1>13, <1>14, <1>15, <1>16,
     <1>17, <1>18, <1>19, <1>20, <1>21
  DEF ObserverNext, Command, Interface, Overlays

LEMMA NamedKeeps == RInv /\ [ObserverNext]_observerVars => Named'
<1> SUFFICES ASSUME RInv, [ObserverNext]_observerVars PROVE Named'
  OBVIOUS
<1>0. /\ ObserverTypes /\ ObserverTypes' /\ namers \in SUBSET Nat /\ title \in Nat
      /\ spent.tasks \in Nat /\ spent'.tasks \in Nat
      /\ title <= spent.tasks /\ \A t \in namers : t <= spent.tasks
  <2>1. ObserverTypes /\ ObserverTypes' /\ Named
    BY TypesKeep DEF RInv
  <2>2. spent.tasks \in Nat /\ spent'.tasks \in Nat
    BY <2>1 DEF ObserverTypes, Sums
  <2> QED
    BY <2>1, <2>2 DEF ObserverTypes, Named
<1>1. ASSUME title' = title, namers' \subseteq namers, spent'.tasks >= spent.tasks PROVE Named'
  BY <1>0, <1>1 DEF Named
<1>2. CASE UNCHANGED observerVars
  BY <1>0, <1>1, <1>2 DEF observerVars
<1>3. ASSUME NEW w \in DOMAIN workers, Serve(w) \/ Sent(w) PROVE Named'
  BY <1>0, <1>1, <1>3, ServeFrame DEF WorkerOnly
<1>4. ASSUME NEW i \in DOMAIN obs, Collect(i) \/ CollectorEnds(i) PROVE Named'
  BY <1>0, <1>1, <1>4 DEF Collect, CollectorEnds
<1>5. ASSUME NEW t \in namers, NameArrives(t) PROVE Named'
  BY <1>0, <1>5 DEF NameArrives, TitleOutcomes, Named
<1>6. CASE SubmitTask
  <2>1. spent'.tasks = spent.tasks + 1
    BY <1>0, <1>6 DEF SubmitTask, Spends, ObserverTypes, Sums
  <2> QED
    BY <1>0, <1>6, <2>1 DEF SubmitTask, Named
<1>7. CASE Relaunch
  BY <1>0, <1>1, <1>7 DEF Relaunch
<1>8. CASE Persist \/ Says \/ Save \/ SwitchLanguage \/ CloseSession
  <2>1. title' = title /\ namers' = namers
    BY <1>8 DEF Persist, Says, Save, SwitchLanguage, CloseSession
  <2>2. spent'.tasks >= spent.tasks
    BY <1>0, <1>8, SpendsTypes DEF Persist, SaveFails, Says, Save, SwitchLanguage, CloseSession
  <2> QED
    BY <1>1, <2>1, <2>2
<1>9. CASE ReadPanel \/ PressAsk \/ PhoneAsks
  <2>1. title' = title /\ namers' = namers /\ (Requests \/ spent' = spent)
    BY <1>9 DEF ReadPanel, PressAsk, PhoneAsks
  <2> QED
    BY <1>0, <1>1, <2>1, RequestsGoes
<1>10. CASE StopWorker \/ CloseObserver \/ ObserverClosed \/ ClearForSettings \/ StartObserver \/ Type \/ Escape
            \/ Poll \/ Frame
  BY <1>0, <1>1, <1>10
  DEF StopWorker, CloseObserver, ObserverClosed, ClearForSettings, StartObserver, Type, Escape, Poll, Frame
<1>11. ASSUME NEW next \in Overlays, ReadNotice(next) PROVE Named'
  BY <1>0, <1>1, <1>11 DEF ReadNotice
<1> QED
  BY <1>2, <1>3, <1>4, <1>5, <1>6, <1>7, <1>8, <1>9, <1>10, <1>11
  DEF ObserverNext, Command, Interface, Overlays

\* The notice is read before the panel, and a request that failed is not begun again.
LEMMA ViewedKeeps == RInv /\ [ObserverNext]_observerVars => Viewed'
<1> SUFFICES ASSUME RInv, [ObserverNext]_observerVars PROVE Viewed'
  OBVIOUS
<1>0. ObserverTypes /\ ui \in Screens /\ Viewed
  BY DEF RInv, ObserverTypes
<1>1. ASSUME ui'.view = ui.view PROVE Viewed'
  BY <1>0, <1>1 DEF Viewed
<1>2. CASE UNCHANGED observerVars
  BY <1>1, <1>2 DEF observerVars
<1>3. ASSUME NEW w \in DOMAIN workers, Serve(w) \/ Sent(w) PROVE Viewed'
  BY <1>0, <1>1, <1>3, ServeFrame DEF WorkerOnly
<1>4. ASSUME NEW i \in DOMAIN obs, Collect(i) \/ CollectorEnds(i) PROVE Viewed'
  BY <1>1, <1>4 DEF Collect, CollectorEnds
<1>5. ASSUME NEW t \in namers, NameArrives(t) PROVE Viewed'
  BY <1>1, <1>5 DEF NameArrives
<1>6. CASE ReadPanel
  <2>1. ui'.view = View(ui.notice)
    BY <1>0, <1>6 DEF ReadPanel, Screens
  <2>2. ui'.view.notice = ui.notice /\ ui'.view.analyzing = panel.analyzing
    BY <2>1 DEF View
  <2>3. ui.notice # 0 => ui.notice # panel.analyzing
    BY DEF RInv, Apart, Over
  <2> QED
    BY <2>2, <2>3 DEF Viewed
<1>7. CASE Relaunch
  BY <1>7 DEF Relaunch, Onboarding, Viewed
<1>8. ASSUME NEW next \in Overlays, ReadNotice(next) PROVE Viewed'
  BY <1>0, <1>1, <1>8 DEF ReadNotice, Screens
<1>9. CASE StartObserver \/ Type \/ Save \/ Escape \/ SwitchLanguage \/ Persist
  <2>1. ui'.view = ui.view
    BY <1>0, <1>9 DEF StartObserver, Type, Save, Escape, SwitchLanguage, Persist, Screens
  <2> QED
    BY <1>1, <2>1
<1>10. CASE Says \/ SubmitTask \/ StopWorker \/ CloseObserver \/ ObserverClosed \/ ClearForSettings \/ PressAsk
            \/ PhoneAsks \/ CloseSession \/ Poll \/ Frame
  BY <1>1, <1>10 DEF Says, SubmitTask, StopWorker, CloseObserver, ObserverClosed, ClearForSettings, PressAsk,
     PhoneAsks, CloseSession, Poll, Frame
<1> QED
  BY <1>2, <1>3, <1>4, <1>5, <1>6, <1>7, <1>8, <1>9, <1>10
  DEF ObserverNext, Command, Interface, Overlays

LEMMA RequestsInit == ObserverInit => RInv
<1> SUFFICES ASSUME ObserverInit PROVE RInv
  OBVIOUS
<1>1. ObserverTypes
  BY TypesInit
<1>2. \A w \in DOMAIN workers : workers[w].pc = "waiting"
  BY DEF ObserverInit, NewWorker
<1>3. /\ panel = NoPanel /\ title = 0 /\ namers = {} /\ spent.requests = 0 /\ spent.tasks = 0
      /\ ui.notice = 0 /\ ui.view.notice = 0
  BY DEF ObserverInit, Onboarding
<1> QED
  BY <1>1, <1>2, <1>3 DEF RInv, Numbered, Named, Apart, Viewed, NoPanel, Serving, AtWork

LEMMA RequestsKeep == RInv /\ [ObserverNext]_observerVars => RInv'
BY TypesKeep, NumbersKeep, NamedKeeps, ViewedKeeps DEF RInv

(***************************************************************************)
(* What runs is what is saved.                                             *)
(***************************************************************************)

\* A step that leaves the settings, the command and what the session holds alone.
Undisturbed ==
  /\ UNCHANGED <<launch, opts, file, key, cmd, live>>
  /\ Alike
  /\ DOMAIN workers' = DOMAIN workers
  /\ \A w \in DOMAIN workers : workers'[w].cancelled = workers[w].cancelled
  /\ cmd.of \in {"settings", "language"} => ui' = ui

LEMMA UndisturbedKeeps ==
  ASSUME KInv, Undisturbed
  PROVE  Commanded' /\ Held' /\ Running'
<1> USE DEF KInv, Undisturbed
<1>1. Commanded'
  BY DEF Commanded
<1>2. Held'
  BY DEF Held, Alike
<1>3. Running'
  <2>1. opts' = Loaded(file, opts.lang)'
    BY DEF Running, Loaded, WithEnv
  <2>2. ASSUME cmd.pc \in {"free", "persist"}, cmd.of # "closed"
        PROVE  /\ (live.obs # 0) = opts.enabled /\ (live.worker # 0) = opts.enabled
               /\ live.obs # 0 => /\ obs'[live.obs].cfg = opts
                                  /\ (cmd.pc = "persist" /\ ui'.form.key) \/ obs'[live.obs].key = key
    <3>1. cmd.pc = "persist" => ui' = ui
      BY DEF ObserverTypes
    <3>2. live.obs # 0 => live.obs \in DOMAIN obs
      BY DEF ObserverTypes
    <3> QED
      BY <2>2, <3>1, <3>2 DEF Running, Alike
  <2> QED
    BY <2>1, <2>2 DEF Running
<1> QED
  BY <1>1, <1>2, <1>3

LEMMA RequestsUndisturb ==
  ASSUME ObserverTypes, Requests
  PROVE  DOMAIN workers' = DOMAIN workers
         /\ \A w \in DOMAIN workers : workers'[w].cancelled = workers[w].cancelled
<1>1. \A w \in DOMAIN workers : workers[w] \in Workers
  BY WorkerAt
<1> QED
  BY <1>1, RequestsGoes DEF GoesOn, Workers

\* The steps of the workers, the collectors, the interface and the phone.
LEMMA Bystanders ==
  ASSUME ObserverTypes, Commanded,
         \/ UNCHANGED observerVars
         \/ \E w \in DOMAIN workers : Serve(w) \/ Sent(w)
         \/ \E i \in DOMAIN obs : Collect(i)
         \/ \E t \in namers : NameArrives(t)
         \/ \E next \in {"none", "config", "reports"} : ReadNotice(next)
         \/ ReadPanel \/ PressAsk \/ Type \/ Says \/ SubmitTask \/ PhoneAsks \/ Poll \/ Frame
  PROVE  Undisturbed
<1>0. ObserverTypes /\ Commanded /\ spent \in Sums /\ (obs' = obs => Alike)
  BY SameObservers DEF ObserverTypes
<1>1. CASE UNCHANGED observerVars
  BY <1>0, <1>1 DEF observerVars, Undisturbed
<1>2. ASSUME NEW w \in DOMAIN workers, Serve(w) \/ Sent(w) PROVE Undisturbed
  BY <1>0, <1>2, ServeFrame DEF WorkerOnly, Undisturbed
<1>3. ASSUME NEW i \in DOMAIN obs, Collect(i) PROVE Undisturbed
  <2>1. Alike
    BY <1>0, <1>3, Collected
  <2> QED
    BY <1>3, <2>1 DEF Collect, Undisturbed
<1>4. ASSUME NEW t \in namers, NameArrives(t) PROVE Undisturbed
  BY <1>0, <1>4 DEF NameArrives, Undisturbed
<1>5. ASSUME NEW next \in {"none", "config", "reports"}, ReadNotice(next) PROVE Undisturbed
  BY <1>0, <1>5 DEF ReadNotice, Undisturbed, Commanded
<1>6. CASE ReadPanel
  <2>1. DOMAIN workers' = DOMAIN workers /\ \A w \in DOMAIN workers : workers'[w].cancelled = workers[w].cancelled
    BY <1>0, <1>6, RequestsUndisturb DEF ReadPanel
  <2> QED
    BY <1>0, <1>6, <2>1 DEF ReadPanel, Undisturbed, Commanded
<1>7. CASE PressAsk \/ PhoneAsks
  <2>1. DOMAIN workers' = DOMAIN workers /\ \A w \in DOMAIN workers : workers'[w].cancelled = workers[w].cancelled
    BY <1>0, <1>7, RequestsUndisturb DEF PressAsk, PhoneAsks
  <2> QED
    BY <1>0, <1>7, <2>1 DEF PressAsk, PhoneAsks, Undisturbed
<1>8. CASE Type
  BY <1>0, <1>8 DEF Type, Undisturbed, Commanded
<1>9. CASE Says
  <2>1. [kind |-> "agent", id |-> spent.says + 1] \in Messages
    BY <1>0 DEF Sums, Messages
  <2> QED
    BY <1>0, <1>9, <2>1, Emitted DEF Says, Undisturbed
<1>10. CASE SubmitTask
  <2>1. [kind |-> "user", id |-> spent.tasks + 1] \in Messages
    BY <1>0 DEF Sums, Messages
  <2> QED
    BY <1>0, <1>10, <2>1, Emitted DEF SubmitTask, Undisturbed
<1>11. CASE Poll \/ Frame
  BY <1>0, <1>11 DEF Poll, Frame, Undisturbed
<1> QED
  BY <1>1, <1>2, <1>3, <1>4, <1>5, <1>6, <1>7, <1>8, <1>9, <1>10, <1>11

LEMMA CommandedKeeps == ObserverTypes /\ Commanded /\ [ObserverNext]_observerVars => Commanded'
<1> SUFFICES ASSUME ObserverTypes, Commanded, [ObserverNext]_observerVars PROVE Commanded'
  OBVIOUS
<1>0. /\ ObserverTypes /\ Commanded /\ ui \in Screens
      /\ cmd \in [pc : Steps, of : Reasons] /\ live \in [obs : Nat, worker : Nat]
  BY DEF ObserverTypes
<1>1. ASSUME Undisturbed PROVE Commanded'
  BY <1>0, <1>1 DEF Undisturbed, Commanded
<1>2. ASSUME NEW i \in DOMAIN obs, CollectorEnds(i) PROVE Commanded'
  BY <1>0, <1>2 DEF CollectorEnds, Commanded
<1>3. CASE Persist
  BY <1>0, <1>3 DEF Persist, Commanded, Free
<1>4. CASE StopWorker
  BY <1>0, <1>4 DEF StopWorker, Commanded
<1>5. CASE CloseObserver
  BY <1>0, <1>5 DEF CloseObserver, Commanded
<1>6. CASE ObserverClosed
  BY <1>0, <1>6 DEF ObserverClosed, Commanded
<1>7. CASE ClearForSettings
  BY <1>0, <1>7 DEF ClearForSettings, Commanded
<1>8. CASE StartObserver
  BY <1>8 DEF StartObserver, Commanded, Free
<1>9. CASE Save
  BY <1>0, <1>9 DEF Save, Commanded, Screens
<1>10. CASE Escape
  <2>1. CASE ui.overlay = "config" /\ ui.form.first
    <3>1. /\ cmd' = [pc |-> "persist", of |-> "settings"]
          /\ ui' = [ui EXCEPT !.pc = "doing", !.form = [NoForm EXCEPT !.first = TRUE]]
      BY <1>10, <2>1 DEF Escape
    <3>2. ui'.pc = "doing" /\ cmd'.pc = "persist" /\ cmd'.of = "settings"
      BY <1>0, <3>1 DEF Screens
    <3> QED
      BY <3>2 DEF Commanded
  <2>2. CASE ~(ui.overlay = "config" /\ ui.form.first)
    BY <1>0, <1>10, <2>2 DEF Escape, Commanded, Screens
  <2> QED
    BY <2>1, <2>2
<1>11. CASE SwitchLanguage
  BY <1>0, <1>11 DEF SwitchLanguage, Commanded, Screens
<1>12. CASE CloseSession
  BY <1>12 DEF CloseSession, Commanded
<1>13. CASE Relaunch
  BY <1>13 DEF Relaunch, Commanded, Free
<1> QED
  BY <1>1, <1>2, <1>3, <1>4, <1>5, <1>6, <1>7, <1>8, <1>9, <1>10, <1>11, <1>12, <1>13, Bystanders
  DEF ObserverNext, Command, Interface

LEMMA HeldKeeps == KInv /\ [ObserverNext]_observerVars => Held'
<1> SUFFICES ASSUME KInv, [ObserverNext]_observerVars PROVE Held'
  OBVIOUS
<1>0. /\ ObserverTypes /\ ObserverTypes' /\ Commanded /\ Held
      /\ cmd \in [pc : Steps, of : Reasons] /\ live \in [obs : Nat, worker : Nat]
      /\ obs \in Seq(Observers) /\ workers \in Seq(Workers)
      /\ live.obs \in 0..Len(obs) /\ live.worker \in 0..Len(workers)
      /\ \A i \in DOMAIN obs : obs[i] \in Observers
      /\ \A w \in DOMAIN workers : workers[w] \in Workers
  BY TypesKeep, Lengths DEF KInv, ObserverTypes
<1>1. ASSUME Undisturbed PROVE Held'
  BY <1>1, UndisturbedKeeps
<1>2. ASSUME NEW i \in DOMAIN obs, CollectorEnds(i) PROVE Held'
  <2>1. /\ DOMAIN obs' = DOMAIN obs /\ ~obs'[i].collecting /\ ~obs'[i].subscribed /\ ~obs[i].subscribed
        /\ \A j \in DOMAIN obs \ {i} : obs'[j] = obs[j]
    BY <1>0, <1>2 DEF CollectorEnds, Observers
  <2>2. workers' = workers /\ live' = live /\ cmd' = cmd
    BY <1>2 DEF CollectorEnds
  <2> QED
    BY <1>0, <2>1, <2>2 DEF Held
<1>3. ASSUME UNCHANGED <<obs, workers, live>>, cmd'.pc # "close" => cmd.pc # "close" PROVE Held'
  BY <1>0, <1>3 DEF Held
<1>4. CASE Persist
  BY <1>0, <1>3, <1>4 DEF Persist
<1>5. CASE StopWorker
  <2>1. cmd'.pc = "close" /\ live'.worker = 0 /\ live'.obs = live.obs /\ obs' = obs
    BY <1>0, <1>5 DEF StopWorker
  <2>2. DOMAIN workers' = DOMAIN workers /\ \A w \in DOMAIN workers : workers'[w].cancelled
    <3>1. CASE live.worker = 0
      <4>1. workers' = workers
        BY <1>5, <3>1 DEF StopWorker
      <4>2. \A w \in DOMAIN workers : w # 0
        BY <1>0
      <4> QED
        BY <1>0, <3>1, <4>1, <4>2 DEF Held
    <3>2. CASE live.worker # 0
      <4>1. workers' = [workers EXCEPT ![live.worker].cancelled = TRUE] /\ live.worker \in DOMAIN workers
        BY <1>0, <1>5, <3>2 DEF StopWorker
      <4> QED
        BY <1>0, <4>1 DEF Held, Workers
    <3> QED
      BY <3>1, <3>2
  <2>3. \A w \in DOMAIN workers : w # 0
    BY <1>0
  <2> QED
    BY <1>0, <2>1, <2>2, <2>3 DEF Held
<1>6. CASE CloseObserver
  <2>1. cmd'.pc = "close" /\ live' = live /\ workers' = workers /\ live.obs \in DOMAIN obs
    BY <1>0, <1>6 DEF CloseObserver
  <2>2. /\ DOMAIN obs' = DOMAIN obs /\ ~obs'[live.obs].subscribed
        /\ \A j \in DOMAIN obs \ {live.obs} : obs'[j] = obs[j]
    BY <1>0, <1>6, <2>1 DEF CloseObserver, Observers
  <2> QED
    BY <1>0, <2>1, <2>2 DEF Held
<1>7. CASE ObserverClosed
  <2>1. live'.obs = 0 /\ live'.worker = live.worker /\ obs' = obs /\ workers' = workers
        /\ (live.obs # 0 => ~obs[live.obs].collecting)
    BY <1>0, <1>7 DEF ObserverClosed
  <2>2. \A i \in DOMAIN obs : i # 0 /\ ~obs[i].collecting
    BY <1>0, <2>1 DEF Held
  <2> QED
    BY <1>0, <2>1, <2>2 DEF Held
<1>8. CASE ClearForSettings
  BY <1>0, <1>3, <1>8 DEF ClearForSettings
<1>9. CASE StartObserver
  <2>1. cmd.pc = "start" /\ live.obs = 0 /\ live.worker = 0 /\ cmd'.pc = "free"
    BY <1>0, <1>9 DEF StartObserver, Commanded, Free
  <2>2. CASE ~opts.enabled
    BY <1>3, <1>9, <2>1, <2>2 DEF StartObserver
  <2>3. CASE opts.enabled
    <3>1. /\ NewObserver \in Observers /\ NewWorker \in Workers
          /\ NewObserver.subscribed /\ NewObserver.collecting /\ ~NewWorker.cancelled
      BY <1>0, NewTyped DEF ObserverTypes
    <3>2. /\ obs' = Append(obs, NewObserver) /\ workers' = Append(workers, NewWorker)
          /\ live'.obs = Len(obs) + 1 /\ live'.worker = Len(workers) + 1
      BY <1>9, <2>3 DEF StartObserver
    <3>3. /\ DOMAIN obs' = DOMAIN obs \cup {Len(obs) + 1} /\ obs'[Len(obs) + 1] = NewObserver
          /\ \A i \in DOMAIN obs : obs'[i] = obs[i]
      BY <1>0, <3>1, <3>2, Grown
    <3>4. /\ DOMAIN workers' = DOMAIN workers \cup {Len(workers) + 1} /\ workers'[Len(workers) + 1] = NewWorker
          /\ \A w \in DOMAIN workers : workers'[w] = workers[w]
      BY <1>0, <3>1, <3>2, Grown
    <3>5. /\ \A i \in DOMAIN obs : i # 0 /\ i # Len(obs) + 1
          /\ \A w \in DOMAIN workers : w # 0 /\ w # Len(workers) + 1
      BY <1>0
    <3>6. \A i \in DOMAIN obs : ~obs[i].collecting /\ ~obs[i].subscribed
      BY <1>0, <2>1, <3>5 DEF Held
    <3>7. \A w \in DOMAIN workers : workers[w].cancelled = TRUE
      BY <1>0, <2>1, <3>5 DEF Held
    <3>8. \A i \in DOMAIN obs' : /\ obs'[i].subscribed => obs'[i].collecting
                                 /\ i # live'.obs => ~obs'[i].collecting
                                 /\ i = live'.obs => obs'[i].subscribed
      BY <3>1, <3>2, <3>3, <3>5, <3>6
    <3>9. \A w \in DOMAIN workers' : workers'[w].cancelled = (w # live'.worker)
      <4>1. \A w \in DOMAIN workers : workers'[w].cancelled = TRUE /\ w # live'.worker
        BY <3>2, <3>4, <3>5, <3>7
      <4>2. workers'[Len(workers) + 1].cancelled = FALSE
        BY <3>4 DEF NewWorker
      <4> QED
        BY <3>2, <3>4, <4>1, <4>2
    <3> QED
      BY <3>8, <3>9 DEF Held
  <2> QED
    BY <2>2, <2>3
<1>10. CASE Save \/ Escape \/ SwitchLanguage \/ CloseSession
  <2>1. UNCHANGED <<obs, workers, live>> /\ (cmd' = cmd \/ cmd.pc = "free" \/ cmd'.pc = "close")
    BY <1>10 DEF Save, Escape, SwitchLanguage, CloseSession, LockIsFree
  <2> QED
    BY <1>3, <2>1
<1>11. CASE Relaunch
  <2> DEFINE loaded == Loaded(file, opts.lang)
  <2>1. NewWorker \in Workers /\ ~NewWorker.cancelled
    BY <1>0, LoadedTyped, NewTyped
  <2>2. CASE loaded.enabled
    <3>1. /\ obs' = <<[NewObserver EXCEPT !.cfg = loaded]>> /\ workers' = <<NewWorker>>
          /\ live'.obs = 1 /\ live'.worker = 1
      BY <1>11, <2>2 DEF Relaunch
    <3>2. /\ DOMAIN obs' = {1} /\ obs'[1].subscribed /\ obs'[1].collecting
          /\ DOMAIN workers' = {1} /\ workers'[1].cancelled = FALSE
      BY <3>1 DEF NewObserver, NewWorker
    <3> QED
      BY <3>1, <3>2 DEF Held
  <2>3. CASE ~loaded.enabled
    <3>1. obs' = <<>> /\ workers' = <<>>
      BY <1>11, <2>3 DEF Relaunch
    <3> QED
      BY <3>1 DEF Held
  <2> QED
    BY <2>2, <2>3
<1> QED
  BY <1>1, <1>2, <1>4, <1>5, <1>6, <1>7, <1>8, <1>9, <1>10, <1>11, Bystanders
  DEF KInv, ObserverNext, Command, Interface

\* Of what is loaded only the language is the session's own.
LEMMA LoadedIs ==
  ASSUME NEW f, NEW l, NEW k
  PROVE  Loaded(f, k) = [Loaded(f, l) EXCEPT !.lang = k]
<1> DEFINE r(n) == [enabled |-> f.enabled, target |-> f.target, lang |-> n]
           on == CASE launch.env.enabled = "on" -> TRUE
                   [] launch.env.enabled = "off" -> FALSE
                   [] OTHER -> f.enabled
           target == IF launch.env.target # "" THEN launch.env.target ELSE f.target
<1>1. \A n : r(n).enabled = f.enabled /\ r(n).target = f.target
  OBVIOUS
<1>2. \A n : Loaded(f, n) = [r(n) EXCEPT !.enabled = on, !.target = target]
  BY <1>1 DEF Loaded, WithEnv
<1> HIDE DEF on, target
<1>3. \A n : Loaded(f, n) = [enabled |-> on, target |-> target, lang |-> n]
  BY <1>2
<1>4. Loaded(f, k) = [enabled |-> on, target |-> target, lang |-> k]
      /\ Loaded(f, l) = [enabled |-> on, target |-> target, lang |-> l]
  BY <1>3
<1> QED
  BY <1>4

\* Where the project keeps the key of its observer, a failed save leaves none behind that
\* the observer does not have.
LEMMA RunningKeeps ==
  ASSUME \A s \in ObserverSetups : "key" \notin s["known"], KInv, [ObserverNext]_observerVars
  PROVE  Running'
<1>0. /\ ObserverTypes /\ Commanded /\ Held /\ Running /\ launch \in ObserverSetups
      /\ cmd \in [pc : Steps, of : Reasons] /\ live \in [obs : Nat, worker : Nat]
      /\ obs \in Seq(Observers) /\ ui \in Screens /\ opts \in Configs /\ key \in BOOLEAN
      /\ live.obs \in 0..Len(obs)
      /\ \A i \in DOMAIN obs : obs[i] \in Observers
  BY Lengths DEF KInv, ObserverTypes
<1>1. ASSUME Undisturbed PROVE Running'
  BY <1>1, UndisturbedKeeps
<1>2. ASSUME UNCHANGED <<launch, file, opts>> PROVE opts' = Loaded(file, opts.lang)'
  BY <1>0, <1>2 DEF Running, Loaded, WithEnv
<1>3. ASSUME opts' = Loaded(file, opts.lang)', cmd'.pc \notin {"free", "persist"} \/ cmd'.of = "closed"
      PROVE  Running'
  BY <1>3 DEF Running
<1>4. ASSUME NEW i \in DOMAIN obs, CollectorEnds(i) PROVE Running'
  <2>1. \A j \in DOMAIN obs : obs'[j].cfg = obs[j].cfg /\ obs'[j].key = obs[j].key
    BY <1>0, <1>4 DEF CollectorEnds, Observers
  <2>2. UNCHANGED <<launch, opts, file, key, cmd, live, ui>> /\ (live.obs # 0 => live.obs \in DOMAIN obs)
    BY <1>0, <1>4 DEF CollectorEnds
  <2> QED
    BY <1>0, <1>2, <2>1, <2>2 DEF Running
<1>5. CASE Persist
  <2> DEFINE chosen == [enabled |-> ui.form.enabled, target |-> ui.form.target, lang |-> opts.lang]
  <2>1. CASE /\ file' = SaveProjectObserver(FileSettings(chosen)) /\ opts' = WithEnv(chosen)
             /\ cmd' = [cmd EXCEPT !.pc = "stop"]
    <3>1. launch' = launch /\ cmd'.pc = "stop"
      BY <1>0, <1>5, <2>1 DEF Persist
    <3>2. opts' = Loaded(file', opts.lang) /\ opts'.lang = opts.lang
      BY <1>0, <2>1, ChosenTyped
    <3>3. opts' = Loaded(file, opts.lang)'
      BY <3>1, <3>2 DEF Loaded, WithEnv
    <3> QED
      BY <1>3, <3>1, <3>3
  <2>2. CASE /\ ui.form.key => May("key")
             /\ cmd' = Free /\ ui' = [ui EXCEPT !.pc = "ready"] /\ UNCHANGED <<file, opts>>
    <3>1. ~ui.form.key /\ cmd'.pc = "free" /\ cmd.pc = "persist" /\ cmd.of = "settings"
      BY <1>0, <1>5, <2>2 DEF May, Free, Persist, ObserverTypes
    <3>2. UNCHANGED <<launch, key, live, obs>>
      BY <1>5 DEF Persist
    <3> QED
      BY <1>0, <1>2, <2>2, <3>1, <3>2 DEF Running
  <2> QED
    BY <1>5, <2>1, <2>2 DEF Persist
<1>6. CASE StopWorker
  BY <1>0, <1>2, <1>3, <1>6 DEF StopWorker
<1>7. CASE CloseObserver
  BY <1>0, <1>2, <1>3, <1>7 DEF CloseObserver
<1>8. CASE ObserverClosed
  <2>1. cmd'.pc \notin {"free", "persist"} \/ cmd'.of = "closed"
    <3>1. cmd.of \in {"settings", "language", "closed"}
      BY <1>0, <1>8 DEF ObserverClosed, ObserverTypes, Reasons
    <3> QED
      BY <1>0, <1>8, <3>1 DEF ObserverClosed
  <2> QED
    BY <1>2, <1>3, <1>8, <2>1 DEF ObserverClosed
<1>9. CASE ClearForSettings
  BY <1>0, <1>2, <1>3, <1>9 DEF ClearForSettings
<1>10. CASE StartObserver
  <2>1. UNCHANGED <<launch, file, opts, key>> /\ live.obs = 0 /\ live.worker = 0
    BY <1>0, <1>10 DEF StartObserver, Commanded
  <2>2. CASE ~opts.enabled
    <3>1. UNCHANGED <<live, obs>> /\ opts.enabled = FALSE
      BY <1>0, <1>10, <2>2 DEF StartObserver, Configs
    <3> QED
      BY <1>2, <2>1, <3>1 DEF Running
  <2>3. CASE opts.enabled
    <3>1. NewObserver \in Observers /\ NewObserver.cfg = opts /\ NewObserver.key = key
      BY <1>0, NewTyped
    <3>2. live'.obs = Len(obs) + 1 /\ live'.worker = Len(workers) + 1 /\ obs' = Append(obs, NewObserver)
      BY <1>10, <2>3 DEF StartObserver
    <3>3. obs'[live'.obs] = NewObserver /\ live'.obs # 0
      BY <1>0, <3>1, <3>2, Grown
    <3>4. live'.worker # 0
      BY <1>0, <3>2 DEF ObserverTypes
    <3> QED
      BY <1>0, <1>2, <2>1, <2>3, <3>1, <3>3, <3>4 DEF Running, Configs
  <2> QED
    BY <2>2, <2>3
<1>11. CASE Save
  <2>1. /\ cmd.pc = "free" /\ cmd.of # "closed" /\ cmd'.pc = "persist" /\ UNCHANGED <<launch, opts, file, live, obs>>
        /\ key' = (key \/ ui.form.key) /\ ui'.form = ui.form
    BY <1>0, <1>11 DEF Save, SaveAPIKey, Screens
  <2>2. ui.form.key \in BOOLEAN
    BY <1>0 DEF Screens, Forms
  <2>3. /\ (live.obs # 0) = opts.enabled /\ (live.worker # 0) = opts.enabled
        /\ live.obs # 0 => obs[live.obs].cfg = opts /\ obs[live.obs].key = key
    BY <1>0, <2>1 DEF Running
  <2>4. ui.form.key \/ key' = key
    BY <1>0, <2>1, <2>2
  <2> QED
    BY <1>2, <1>11, <2>1, <2>3, <2>4 DEF Running, Save
<1>12. CASE Escape
  <2>1. UNCHANGED <<launch, opts, file, key, live, obs>> /\ (cmd' = cmd \/ (cmd.pc = "free" /\ cmd.of # "closed"))
    <3>1. CASE ui.overlay = "config" /\ ui.form.first
      BY <1>12, <3>1 DEF Escape
    <3>2. CASE ~(ui.overlay = "config" /\ ui.form.first)
      BY <1>12, <3>2 DEF Escape
    <3> QED
      BY <3>1, <3>2
  <2>2. ui.pc = "ready" /\ cmd.pc # "persist"
    BY <1>0, <1>12 DEF Escape, Commanded, ObserverTypes
  <2> QED
    BY <1>0, <1>2, <2>1, <2>2 DEF Running
<1>13. CASE SwitchLanguage
  <2>1. opts' = [opts EXCEPT !.lang = 1 - @] /\ UNCHANGED <<launch, file>> /\ cmd'.pc = "stop"
    BY <1>13 DEF SwitchLanguage
  <2>2. opts'.lang = 1 - opts.lang
    BY <1>0, <2>1 DEF Configs
  <2>3. opts' = Loaded(file, 1 - opts.lang)
    BY <1>0, <2>1, LoadedIs DEF Running
  <2>4. opts' = Loaded(file, opts.lang)'
    BY <2>1, <2>2, <2>3 DEF Loaded, WithEnv
  <2> QED
    BY <1>3, <2>1, <2>4
<1>14. CASE CloseSession
  BY <1>0, <1>2, <1>3, <1>14 DEF CloseSession
<1>15. CASE Relaunch
  <2> DEFINE loaded == Loaded(file, opts.lang)
  <2>1. UNCHANGED <<launch, file, key>> /\ opts' = loaded /\ loaded.lang = opts.lang /\ loaded \in Configs
    BY <1>0, <1>15, LoadedTyped DEF Relaunch, Loaded, WithEnv
  <2>2. opts' = Loaded(file, opts.lang)'
    BY <2>1 DEF Loaded, WithEnv
  <2> HIDE DEF loaded
  <2>3. CASE loaded.enabled
    <3>1. obs' = <<[NewObserver EXCEPT !.cfg = loaded]>> /\ live'.obs = 1 /\ live'.worker = 1
      BY <1>15, <2>3 DEF Relaunch, loaded
    <3>2. obs'[1].cfg = loaded /\ obs'[1].key = key
      BY <3>1 DEF NewObserver
    <3>3. opts'.enabled = TRUE /\ (live'.obs # 0) = TRUE /\ (live'.worker # 0) = TRUE
      BY <2>1, <2>3, <3>1 DEF Configs
    <3>4. obs'[live'.obs].cfg = opts' /\ obs'[live'.obs].key = key'
      BY <2>1, <3>1, <3>2
    <3> QED
      BY <2>2, <3>3, <3>4 DEF Running
  <2>4. CASE ~loaded.enabled
    <3>1. live'.obs = 0 /\ live'.worker = 0
      BY <1>15, <2>4 DEF Relaunch, loaded
    <3> QED
      BY <2>1, <2>2, <2>4, <3>1 DEF Running, Configs
  <2> QED
    BY <2>3, <2>4
<1> QED
  BY <1>1, <1>4, <1>5, <1>6, <1>7, <1>8, <1>9, <1>10, <1>11, <1>12, <1>13, <1>14, <1>15, Bystanders
  DEF KInv, ObserverNext, Command, Interface

LEMMA KeptInit == ObserverInit => KInv
<1> SUFFICES ASSUME ObserverInit PROVE KInv
  OBVIOUS
<1>1. ObserverTypes
  BY TypesInit
<1>2. /\ cmd.pc = "free" /\ cmd.of = "none" /\ opts = Loaded(file, 0) /\ opts.lang = 0 /\ opts.enabled \in BOOLEAN
  BY <1>1 DEF ObserverInit, Free, Loaded, WithEnv, ObserverTypes, Configs
<1>3. CASE opts.enabled
  <2>1. obs = <<NewObserver>> /\ workers = <<NewWorker>> /\ live.obs = 1 /\ live.worker = 1
    BY <1>3 DEF ObserverInit
  <2>2. /\ DOMAIN obs = {1} /\ obs[1].subscribed /\ obs[1].collecting /\ obs[1].cfg = opts /\ obs[1].key = key
        /\ DOMAIN workers = {1} /\ workers[1].cancelled = FALSE
    BY <2>1 DEF NewObserver, NewWorker
  <2>3. Commanded
    BY <1>2 DEF Commanded
  <2>4. Held
    BY <2>1, <2>2 DEF Held
  <2>5. Running
    BY <1>2, <1>3, <2>1, <2>2 DEF Running
  <2> QED
    BY <1>1, <2>3, <2>4, <2>5 DEF KInv
<1>4. CASE ~opts.enabled
  <2>1. obs = <<>> /\ workers = <<>> /\ live.obs = 0 /\ live.worker = 0
    BY <1>4 DEF ObserverInit
  <2> QED
    BY <1>1, <1>2, <1>4, <2>1 DEF KInv, Commanded, Held, Running
<1> QED
  BY <1>3, <1>4

LEMMA KeptKeep ==
  ASSUME \A s \in ObserverSetups : "key" \notin s["known"]
  PROVE  KInv /\ [ObserverNext]_observerVars => KInv'
BY TypesKeep, CommandedKeeps, HeldKeeps, RunningKeeps DEF KInv

LEMMA RunsIt == RInv /\ KInv => RunsWhatIsSaved
<1> SUFFICES ASSUME RInv, KInv PROVE RunsWhatIsSaved
  OBVIOUS
<1>1. ObserverTypes /\ Numbered /\ Named /\ Held /\ Running
  BY DEF RInv, KInv
<1>2. ObserverTypeOK
  <2>1. {file.enabled, file.written, opts.enabled, key} \subseteq BOOLEAN
    BY <1>1 DEF ObserverTypes, Configs
  <2>2. cmd.of \in {"none", "settings", "language", "closed"} /\ ui.overlay \in {"none", "config", "reports"}
    BY <1>1 DEF ObserverTypes, Reasons, Screens, Overlays
  <2>3. {panel.pending, panel.analyzing, panel.notice} \cup Range(panel.reports) \subseteq 0..spent.requests
    <3>1. panel \in Panels /\ spent.requests \in Nat
      BY <1>1 DEF ObserverTypes, Sums
    <3>2. panel.reports \in Seq(Nat)
      BY <3>1 DEF Panels
    <3>3. \A i \in DOMAIN panel.reports : panel.reports[i] \in 0..spent.requests
      BY <1>1, <3>1, <3>2, Lengths DEF Numbered
    <3> QED
      BY <1>1, <3>3 DEF Numbered, Range
  <2>4. {title} \cup namers \subseteq 0..spent.tasks
    BY <1>1 DEF ObserverTypes, Named, Sums
  <2> QED
    BY <2>1, <2>2, <2>3, <2>4 DEF ObserverTypeOK
<1>3. ASSUME cmd = Free
      PROVE  /\ opts = Loaded(file, opts.lang)
             /\ (live.obs # 0) = opts.enabled /\ (live.worker # 0) = opts.enabled
             /\ live.obs # 0 => obs[live.obs].cfg = opts /\ obs[live.obs].key = key
             /\ \A i \in DOMAIN obs : (obs[i].subscribed \/ obs[i].collecting) = (i = live.obs)
             /\ \A w \in DOMAIN workers : workers[w].cancelled = (w # live.worker)
  <2>1. cmd.pc = "free" /\ cmd.of = "none"
    BY <1>3 DEF Free
  <2>2. \A i \in DOMAIN obs : obs[i].subscribed \in BOOLEAN /\ obs[i].collecting \in BOOLEAN
    <3>1. \A i \in DOMAIN obs : obs[i] \in Observers
      BY <1>1, Lengths DEF ObserverTypes
    <3> QED
      BY <3>1 DEF Observers
  <2> QED
    BY <1>1, <2>1, <2>2 DEF Held, Running
<1> QED
  BY <1>2, <1>3 DEF RunsWhatIsSaved

(***************************************************************************)
(* What the panel says is under way.                                       *)
(***************************************************************************)

\* A session that nobody has configured runs no observer.
LEMMA Unconfigured ==
  ASSUME ~Configured, file.written \/ file = NoSection, NEW l
  PROVE  ~Loaded(file, l).enabled
<1>1. launch.env.enabled = "unset" /\ launch.env.target = "" /\ file = NoSection
  BY DEF Configured, EnvOverrides
<1>2. file.enabled = FALSE
  BY <1>1 DEF NoSection
<1> QED
  BY <1>1, <1>2 DEF Loaded, WithEnv

LEMMA BlankKeeps == SInv /\ [ObserverNext]_observerVars => Blank'
<1> SUFFICES ASSUME SInv, [ObserverNext]_observerVars PROVE Blank'
  OBVIOUS
<1>0. /\ ObserverTypes /\ Blank /\ Lonely /\ ui \in Screens /\ ui.form \in Forms
      /\ workers = <<>> => DOMAIN workers = {} /\ live.worker = 0
  <2>1. ObserverTypes /\ Blank /\ Lonely /\ ui \in Screens
    BY DEF SInv, ObserverTypes
  <2>2. workers = <<>> => DOMAIN workers = {} /\ live.worker = 0
    BY <2>1 DEF ObserverTypes
  <2> QED
    BY <2>1, <2>2 DEF Screens
<1>1. ASSUME ui' = ui, workers = <<>> => workers' = workers PROVE Blank'
  BY <1>0, <1>1 DEF Blank
<1>2. ASSUME ~ui'.form.first PROVE Blank'
  BY <1>2 DEF Blank
<1>3. CASE UNCHANGED observerVars
  BY <1>1, <1>3 DEF observerVars
<1>4. ASSUME NEW w \in DOMAIN workers, Serve(w) \/ Sent(w) PROVE Blank'
  BY <1>0, <1>1, <1>4, ServeFrame DEF WorkerOnly
<1>5. ASSUME NEW i \in DOMAIN obs, Collect(i) \/ CollectorEnds(i) PROVE Blank'
  BY <1>1, <1>5 DEF Collect, CollectorEnds
<1>6. ASSUME NEW t \in namers, NameArrives(t) PROVE Blank'
  BY <1>1, <1>6 DEF NameArrives
<1>7. CASE Persist
  <2>1. (ui'.form = ui.form /\ ui'.overlay = ui.overlay /\ ui'.pc # "reading") \/ ui' = ui
    BY <1>0, <1>7 DEF Persist, Screens
  <2>2. workers' = workers
    BY <1>7 DEF Persist
  <2> QED
    BY <1>0, <1>1, <2>1, <2>2 DEF Blank
<1>8. CASE StopWorker
  BY <1>0, <1>1, <1>8 DEF StopWorker
<1>9. CASE CloseObserver \/ ObserverClosed \/ ClearForSettings
  BY <1>1, <1>9 DEF CloseObserver, ObserverClosed, ClearForSettings
<1>10. CASE StartObserver
  <2>1. ~ui'.form.first
    BY <1>0, <1>10 DEF StartObserver, Screens, NoForm
  <2> QED
    BY <1>2, <2>1
<1>11. ASSUME NEW next \in {"none", "config", "reports"}, ReadNotice(next) PROVE Blank'
  <2>1. ui'.form = ui.form /\ ui.overlay # "config"
    BY <1>0, <1>11 DEF ReadNotice, Screens
  <2> QED
    BY <1>0, <1>2, <2>1 DEF Blank
<1>12. CASE ReadPanel
  <2>1. ~ui.form.first
    BY <1>0, <1>12 DEF ReadPanel, Blank
  <2>2. ui'.form \in {ui.form, Begun(View(ui.notice))}
    BY <1>0, <1>12 DEF ReadPanel, Screens
  <2>3. ~Begun(View(ui.notice)).first
    BY DEF Begun, NoForm
  <2> QED
    BY <1>2, <2>1, <2>2, <2>3
<1>13. CASE PressAsk \/ PhoneAsks
  BY <1>0, <1>1, <1>13, RequestsGoes DEF PressAsk, PhoneAsks
<1>14. CASE Type
  <2>1. ui'.form.first = ui.form.first /\ ui'.overlay = ui.overlay /\ ui'.pc = ui.pc
    BY <1>0, <1>14 DEF Type, Screens, Forms
  <2>2. workers' = workers
    BY <1>14 DEF Type
  <2> QED
    BY <1>0, <2>1, <2>2 DEF Blank
<1>15. CASE Save
  <2>1. ui'.form = ui.form /\ ui'.overlay = ui.overlay /\ ui'.pc = "doing" /\ workers' = workers
    BY <1>0, <1>15 DEF Save, Screens
  <2> QED
    BY <1>0, <2>1 DEF Blank
<1>16. CASE Escape
  <2>1. CASE ui.overlay = "config" /\ ui.form.first
    <3>1. ui'.overlay = ui.overlay /\ ui'.pc = "doing" /\ workers' = workers
      BY <1>0, <1>16, <2>1 DEF Escape, Screens
    <3> QED
      BY <1>0, <2>1, <3>1 DEF Blank
  <2>2. CASE ~(ui.overlay = "config" /\ ui.form.first)
    <3>1. ~ui'.form.first
      <4>1. ui' = [ui EXCEPT !.overlay = "none", !.form = NoForm]
        BY <1>16, <2>2 DEF Escape
      <4> QED
        BY <1>0, <4>1 DEF Screens, NoForm
    <3> QED
      BY <1>2, <3>1
  <2> QED
    BY <2>1, <2>2
<1>17. CASE SwitchLanguage
  <2>1. ui'.form = ui.form /\ ui'.overlay = ui.overlay /\ ui'.pc = "doing" /\ workers' = workers
    BY <1>0, <1>17 DEF SwitchLanguage, Screens
  <2> QED
    BY <1>0, <2>1 DEF Blank
<1>18. CASE Relaunch
  <2>1. CASE Configured
    <3>1. ~ui'.form.first
      BY <1>18, <2>1 DEF Relaunch, Onboarding, NoForm, Configured, EnvOverrides
    <3> QED
      BY <1>2, <3>1
  <2>2. CASE ~Configured
    <3>1. ~Loaded(file, opts.lang).enabled
      BY <1>0, <2>2, Unconfigured DEF Lonely
    <3>2. workers' = <<>> /\ ui' = Onboarding(Loaded(file, opts.lang))
      BY <1>18, <3>1 DEF Relaunch
    <3>3. ui'.overlay = "config" /\ ui'.pc = "ready"
      BY <2>2, <3>2 DEF Onboarding
    <3> QED
      BY <3>2, <3>3 DEF Blank
  <2> QED
    BY <2>1, <2>2
<1>19. CASE Says \/ SubmitTask \/ CloseSession \/ Poll \/ Frame
  BY <1>1, <1>19 DEF Says, SubmitTask, CloseSession, Poll, Frame
<1> QED
  BY <1>3, <1>4, <1>5, <1>6, <1>7, <1>8, <1>9, <1>10, <1>11, <1>12, <1>13, <1>14, <1>15, <1>16, <1>17, <1>18, <1>19
  DEF ObserverNext, Command, Interface

\* The last worker goes on with what the panel names.
LEMMA WorkKeeps ==
  ASSUME SInv, NEW w \in DOMAIN workers, WorkerOnly(w), ~Still(w),
         workers'[w].pc \in AtWork => panel'.analyzing = workers'[w].req
  PROVE  Lonely'
<1>1. ObserverTypes /\ Lonely
  BY DEF SInv
<1>2. w = Len(workers) /\ cmd.of \notin {"settings", "language"}
  BY <1>1 DEF Lonely
<1>3. /\ DOMAIN workers' = DOMAIN workers /\ Len(workers') = Len(workers)
      /\ UNCHANGED <<file, live, cmd>>
      /\ \A v \in DOMAIN workers \ {w} : workers'[v] = workers[v]
  BY DEF WorkerOnly
<1>4. \A v \in DOMAIN workers \ {w} : Still(v) /\ Still(v)' /\ workers'[v].pc \notin AtWork
  BY <1>1, <1>2, <1>3 DEF Lonely, Still, AtWork
<1> QED
  BY <1>1, <1>2, <1>3, <1>4 DEF Lonely

LEMMA ServeLonely ==
  ASSUME SInv, NEW w \in DOMAIN workers, Serve(w) \/ Sent(w)
  PROVE  Lonely'
<1>0. ObserverTypes /\ Lonely /\ workers[w] \in Workers /\ panel \in Panels /\ WorkerOnly(w)
  <2>1. ObserverTypes /\ Lonely
    BY DEF SInv
  <2> QED
    BY <2>1, WorkerAt, ServeFrame DEF ObserverTypes
<1>1. workers[w].pc \in AtWork => panel.analyzing = workers[w].req
  BY <1>0 DEF Lonely
<1>2. CASE Wake(w)
  <2>1. ~Still(w) /\ workers'[w].pc = "woken"
    BY <1>0, <1>2, WakeGoes DEF GoesOn, Workers, Wake, Still
  <2> QED
    BY <1>0, <2>1, WorkKeeps DEF AtWork
<1>3. CASE Sent(w)
  <2>1. workers'[w].pc = workers[w].pc /\ workers'[w].req = workers[w].req
    BY <1>0, <1>3, SentGoes DEF GoesOn, Workers
  <2>2. ~Still(w) /\ panel' = panel
    BY <1>0, <1>3 DEF Sent, Still, Workers
  <2> QED
    BY <1>0, <1>1, <2>1, <2>2, WorkKeeps
<1>4. CASE Exit(w)
  <2>1. /\ workers'[w].pc = "gone" /\ workers[w].pc = "waiting" /\ panel' = panel
        /\ workers'[w].token = workers[w].token /\ workers'[w].sends = workers[w].sends
    BY <1>0, <1>4, ExitGoes DEF GoesOn, Workers, Exit
  <2>2. \A v \in DOMAIN workers : Still(v) => Still(v)'
    BY <1>0, <2>1 DEF Still, WorkerOnly
  <2>3. \A v \in DOMAIN workers' : workers'[v].pc \in AtWork => workers'[v] = workers[v]
    BY <1>0, <2>1 DEF AtWork, WorkerOnly
  <2> QED
    BY <1>0, <2>1, <2>2, <2>3 DEF Lonely, WorkerOnly
<1>5. CASE Take(w)
  <2>1. ~Still(w)
    BY <1>5 DEF Take, Still
  <2>2. CASE panel.pending = 0
    <3>1. workers'[w].pc = "waiting"
      BY <1>0, <1>5, <2>2, TakeNothingGoes DEF GoesOn, Workers
    <3> QED
      BY <1>0, <2>1, <3>1, WorkKeeps DEF AtWork
  <2>3. CASE panel.pending # 0
    <3>1. workers'[w].req = panel.pending
      BY <1>0, <1>5, <2>3, TakeGoes DEF GoesOn, Workers
    <3>2. panel'.analyzing = panel.pending
      BY <1>0, <1>5, <2>3 DEF Take, Panels
    <3> QED
      BY <1>0, <2>1, <3>1, <3>2, WorkKeeps
  <2> QED
    BY <2>2, <2>3
<1>6. CASE Begin(w)
  <2>1. ~Still(w) /\ workers[w].pc \in AtWork /\ workers'[w].req = workers[w].req /\ panel' = panel
    BY <1>0, <1>6, BeginGoes DEF GoesOn, Workers, Begin, Still, AtWork
  <2> QED
    BY <1>0, <1>1, <2>1, WorkKeeps
<1>7. CASE Sample(w)
  <2>1. ~Still(w) /\ workers[w].pc \in AtWork /\ workers'[w].req = workers[w].req /\ panel' = panel
    BY <1>0, <1>7, SampleGoes DEF GoesOn, Workers, Sample, Still, AtWork
  <2> QED
    BY <1>0, <1>1, <2>1, WorkKeeps
<1>8. ASSUME NEW out \in Ends, Answered(w, out) PROVE Lonely'
  <2>1. ~Still(w) /\ workers[w].pc \in AtWork /\ workers'[w].req = workers[w].req /\ panel' = panel
    BY <1>0, <1>8, AnsweredGoes DEF GoesOn, Workers, Answered, Still, AtWork
  <2> QED
    BY <1>0, <1>1, <2>1, WorkKeeps
<1>9. CASE File(w)
  <2>1. ~Still(w) /\ workers[w].pc \in AtWork /\ workers'[w].req = workers[w].req
    BY <1>0, <1>9, FileGoes DEF GoesOn, Workers, File, Still, AtWork
  <2>2. panel'.analyzing = panel.analyzing
    BY <1>0, <1>9 DEF File, Panels
  <2> QED
    BY <1>0, <1>1, <2>1, <2>2, WorkKeeps
<1>10. CASE ClearNotice(w)
  <2>1. ~Still(w) /\ workers[w].pc \in AtWork /\ workers'[w].req = workers[w].req
    BY <1>0, <1>10, ClearNoticeGoes DEF GoesOn, Workers, ClearNotice, Still, AtWork
  <2>2. panel'.analyzing = panel.analyzing
    BY <1>0, <1>10 DEF ClearNotice, Panels
  <2> QED
    BY <1>0, <1>1, <2>1, <2>2, WorkKeeps
<1>11. CASE End(w)
  <2>1. ~Still(w) /\ workers'[w].pc \in {"publishing", "waiting"}
    BY <1>0, <1>11, EndGoes DEF GoesOn, Workers, End, Still
  <2> QED
    BY <1>0, <2>1, WorkKeeps DEF AtWork
<1>12. CASE Publish(w)
  <2>1. ~Still(w) /\ workers'[w].pc = "waiting"
    BY <1>0, <1>12, PublishGoes DEF GoesOn, Workers, Publish, Still
  <2> QED
    BY <1>0, <2>1, WorkKeeps DEF AtWork
<1> QED
  BY <1>2, <1>3, <1>4, <1>5, <1>6, <1>7, <1>8, <1>9, <1>10, <1>11, <1>12 DEF Serve, Ends

\* A request is told to the last worker, when no command of the human replaces it.
LEMMA RequestsLonely ==
  ASSUME SInv, Requests, cmd.of \notin {"settings", "language"}, UNCHANGED <<file, live, cmd>>
  PROVE  Lonely'
<1>0. ObserverTypes /\ Lonely /\ panel \in Panels /\ \A v \in DOMAIN workers : workers[v] \in Workers
  <2>1. ObserverTypes /\ Lonely
    BY DEF SInv
  <2> QED
    BY <2>1, WorkerAt DEF ObserverTypes
<1>1. CASE live.worker = 0
  <2>1. panel' = panel /\ workers' = workers
    BY <1>0, <1>1, RequestsGoes
  <2> QED
    BY <1>0, <2>1 DEF Lonely, Still
<1>2. CASE live.worker # 0
  <2>1. /\ DOMAIN workers' = DOMAIN workers /\ Len(workers') = Len(workers) /\ live.worker = Len(workers)
        /\ workers'[Len(workers)].pc = workers[Len(workers)].pc
        /\ workers'[Len(workers)].req = workers[Len(workers)].req
        /\ \A v \in DOMAIN workers \ {Len(workers)} : workers'[v] = workers[v]
    <3>1. /\ live.worker \in DOMAIN workers /\ live.worker = Len(workers)
          /\ GoesOn(live.worker, [workers[live.worker] EXCEPT !.sends = @ + 1])
      BY <1>0, <1>2, RequestsGoes DEF Lonely
    <3> QED
      BY <1>0, <3>1 DEF GoesOn, Workers
  <2>2. panel'.analyzing = panel.analyzing
    BY <1>0, <1>2, RequestsGoes DEF Panels
  <2>3. \A v \in DOMAIN workers : workers'[v].pc = workers[v].pc /\ workers'[v].req = workers[v].req
    BY <2>1
  <2>4. \A v \in DOMAIN workers : v # Len(workers) => Still(v)'
    BY <1>0, <2>1 DEF Lonely, Still
  <2> QED
    BY <1>0, <2>1, <2>2, <2>3, <2>4 DEF Lonely
<1> QED
  BY <1>1, <1>2

\* A step that leaves the workers and the panel's call alone.
LEMMA IdleLonely ==
  ASSUME SInv, UNCHANGED <<file, live, workers>>, panel'.analyzing = panel.analyzing,
         cmd'.of \in {"settings", "language"} => cmd.of \in {"settings", "language"} \/ Quiet \/ workers = <<>>
  PROVE  Lonely'
<1>1. Lonely
  BY DEF SInv
<1>2. \A v \in DOMAIN workers : Still(v) => Still(v)'
  BY DEF Still
<1>3. cmd'.of \in {"settings", "language"} => \A v \in DOMAIN workers : Still(v)
  BY <1>1 DEF Lonely, Quiet
<1> QED
  BY <1>1, <1>2, <1>3 DEF Lonely

LEMMA LonelyKeeps ==
  ASSUME \A s \in ObserverSetups : "swap" \notin s["known"], SInv, [ObserverNext]_observerVars
  PROVE  Lonely'
<1>0. /\ ObserverTypes /\ Commanded /\ Blank /\ Lonely /\ ~May("swap")
      /\ panel \in Panels /\ workers \in Seq(Workers) /\ cmd \in [pc : Steps, of : Reasons]
  BY DEF SInv, ObserverTypes, May
<1>1. ASSUME UNCHANGED <<file, live, workers, panel, cmd>> PROVE Lonely'
  BY <1>1, IdleLonely
<1>2. CASE UNCHANGED observerVars
  BY <1>1, <1>2 DEF observerVars
<1>3. ASSUME NEW w \in DOMAIN workers, Serve(w) \/ Sent(w) PROVE Lonely'
  BY <1>3, ServeLonely
<1>4. ASSUME NEW i \in DOMAIN obs, Collect(i) \/ CollectorEnds(i) PROVE Lonely'
  BY <1>1, <1>4 DEF Collect, CollectorEnds
<1>5. ASSUME NEW t \in namers, NameArrives(t) PROVE Lonely'
  BY <1>1, <1>5 DEF NameArrives
<1>6. CASE Persist
  <2> DEFINE chosen == [enabled |-> ui.form.enabled, target |-> ui.form.target, lang |-> opts.lang]
  <2>1. cmd.of = "settings" /\ UNCHANGED <<live, workers, panel>>
    BY <1>0, <1>6 DEF Persist, ObserverTypes
  <2>2. file' = file \/ file'.written
    BY <1>6, ChosenTyped, <1>0 DEF Persist
  <2>3. \A v \in DOMAIN workers : Still(v) /\ Still(v)'
    BY <1>0, <2>1 DEF Lonely, Still
  <2> QED
    BY <1>0, <2>1, <2>2, <2>3 DEF Lonely
<1>7. CASE StopWorker
  <2>1. cmd'.of = cmd.of /\ live'.worker = 0 /\ UNCHANGED <<file, panel>>
    BY <1>0, <1>7 DEF StopWorker, ObserverTypes
  <2>2. /\ DOMAIN workers' = DOMAIN workers /\ Len(workers') = Len(workers)
        /\ \A v \in DOMAIN workers : /\ workers'[v].pc = workers[v].pc /\ workers'[v].req = workers[v].req
                                     /\ workers'[v].token = workers[v].token /\ workers'[v].sends = workers[v].sends
    <3>1. CASE live.worker = 0
      BY <1>7, <3>1 DEF StopWorker
    <3>2. CASE live.worker # 0
      <4>1. workers' = [workers EXCEPT ![live.worker].cancelled = TRUE] /\ live.worker \in DOMAIN workers
        BY <1>0, <1>7, <3>2 DEF StopWorker, ObserverTypes
      <4>2. \A v \in DOMAIN workers : workers[v] \in Workers
        BY <1>0, WorkerAt
      <4>3. DOMAIN workers' = DOMAIN workers /\ Len(workers') = Len(workers)
        BY <1>0, <4>1
      <4> QED
        BY <4>1, <4>2, <4>3 DEF Workers
    <3> QED
      BY <3>1, <3>2
  <2>3. \A v \in DOMAIN workers : Still(v) => Still(v)'
    BY <2>2 DEF Still
  <2> QED
    BY <1>0, <2>1, <2>2, <2>3 DEF Lonely
<1>8. CASE CloseObserver
  BY <1>1, <1>8 DEF CloseObserver
<1>9. CASE ObserverClosed
  <2>1. cmd'.of = cmd.of /\ live'.worker = live.worker /\ UNCHANGED <<file, panel, workers>>
    BY <1>0, <1>9 DEF ObserverClosed, ObserverTypes
  <2>2. \A v \in DOMAIN workers : Still(v) => Still(v)'
    BY <2>1 DEF Still
  <2> QED
    BY <1>0, <2>1, <2>2 DEF Lonely
<1>10. CASE ClearForSettings
  <2>1. panel'.analyzing = panel.analyzing /\ cmd'.of = cmd.of
    BY <1>0, <1>10 DEF ClearForSettings, Panels
  <2> QED
    BY <1>10, <2>1, IdleLonely DEF ClearForSettings
<1>11. CASE StartObserver
  <2>1. /\ cmd.of \in {"settings", "language"} /\ cmd'.of = "none" /\ UNCHANGED <<file, panel>>
        /\ \A v \in DOMAIN workers : Still(v)
    BY <1>0, <1>11 DEF StartObserver, ObserverTypes, Free, Lonely
  <2>2. CASE ~opts.enabled
    BY <1>11, <2>1, <2>2, IdleLonely DEF StartObserver
  <2>3. CASE opts.enabled
    <3>1. workers' = Append(workers, NewWorker) /\ live'.worker = Len(workers) + 1 /\ NewWorker \in Workers
      <4>1. opts \in Configs
        BY <1>0 DEF ObserverTypes
      <4>2. NewWorker \in Workers
        BY <1>0, <4>1, NewTyped
      <4> QED
        BY <1>11, <2>3, <4>2 DEF StartObserver
    <3>2. /\ Len(workers') = Len(workers) + 1 /\ DOMAIN workers' = DOMAIN workers \cup {Len(workers) + 1}
          /\ workers'[Len(workers) + 1].pc = "waiting"
          /\ \A v \in DOMAIN workers : workers'[v] = workers[v]
      BY <1>0, <3>1, Grown DEF NewWorker
    <3>3. \A v \in DOMAIN workers : Still(v)'
      BY <2>1, <3>2 DEF Still
    <3>4. \A v \in DOMAIN workers' : workers'[v].pc \notin AtWork
      BY <2>1, <3>2 DEF Still, AtWork
    <3> QED
      BY <1>0, <2>1, <3>1, <3>2, <3>3, <3>4 DEF Lonely
  <2> QED
    BY <2>2, <2>3
<1>12. ASSUME NEW next \in {"none", "config", "reports"}, ReadNotice(next) PROVE Lonely'
  BY <1>1, <1>12 DEF ReadNotice
<1>13. CASE ReadPanel
  <2>1. cmd.of \notin {"settings", "language"} /\ UNCHANGED <<file, live, cmd>>
    BY <1>0, <1>13 DEF ReadPanel, Commanded
  <2>2. CASE Requests
    BY <2>1, <2>2, RequestsLonely
  <2>3. CASE UNCHANGED <<panel, workers, spent>>
    BY <1>1, <2>1, <2>3
  <2> QED
    BY <1>13, <2>2, <2>3 DEF ReadPanel
<1>14. CASE PressAsk
  BY <1>0, <1>14, RequestsLonely DEF PressAsk, Commanded
<1>15. CASE PhoneAsks
  <2>1. cmd.of \notin {"settings", "language"}
    BY <1>0, <1>15 DEF PhoneAsks, ObserverTypes
  <2> QED
    BY <1>15, <2>1, RequestsLonely DEF PhoneAsks
<1>16. CASE Type
  BY <1>1, <1>16 DEF Type
<1>17. CASE Save
  BY <1>0, <1>17, IdleLonely DEF Save
<1>18. CASE Escape
  <2>1. UNCHANGED <<file, live, workers, panel>>
    BY <1>18 DEF Escape
  <2>2. CASE ui.overlay = "config" /\ ui.form.first
    BY <1>0, <2>1, <2>2, IdleLonely DEF Blank
  <2>3. CASE ~(ui.overlay = "config" /\ ui.form.first)
    BY <1>1, <1>18, <2>1, <2>3 DEF Escape
  <2> QED
    BY <2>2, <2>3
<1>19. CASE SwitchLanguage
  BY <1>0, <1>19, IdleLonely DEF SwitchLanguage
<1>20. CASE CloseSession
  <2>1. cmd'.of = "closed"
    BY <1>20 DEF CloseSession
  <2> QED
    BY <1>20, <2>1, IdleLonely DEF CloseSession
<1>21. CASE Relaunch
  <2>1. file' = file /\ cmd'.of = "none"
    BY <1>21 DEF Relaunch, Free
  <2>2. \/ (workers' = <<>> /\ live'.worker = 0)
        \/ (workers' = <<NewWorker>> /\ live'.worker = 1)
    BY <1>21 DEF Relaunch
  <2>3. \A v \in DOMAIN workers' : v = 1 /\ workers'[v].pc = "waiting"
    BY <2>2 DEF NewWorker
  <2>4. live'.worker \in {0, Len(workers')} /\ \A v \in DOMAIN workers' : v = Len(workers')
    <3>1. CASE workers' = <<>> /\ live'.worker = 0
      BY <3>1
    <3>2. CASE workers' = <<NewWorker>> /\ live'.worker = 1
      BY <3>2
    <3> QED
      BY <2>2, <3>1, <3>2
  <2> QED
    BY <1>0, <2>1, <2>3, <2>4 DEF Lonely, AtWork
<1>22. CASE Says \/ SubmitTask \/ Poll \/ Frame
  BY <1>1, <1>22 DEF Says, SubmitTask, Poll, Frame
<1> QED
  BY <1>2, <1>3, <1>4, <1>5, <1>6, <1>7, <1>8, <1>9, <1>10, <1>11, <1>12, <1>13, <1>14, <1>15, <1>16, <1>17,
     <1>18, <1>19, <1>20, <1>21, <1>22
  DEF ObserverNext, Command, Interface

LEMMA StillInit == ObserverInit => SInv
<1> SUFFICES ASSUME ObserverInit PROVE SInv
  OBVIOUS
<1>1. ObserverTypes /\ Commanded /\ (file.written \/ file = NoSection)
  BY KeptInit, ObserverSetupsAssumption DEF ObserverInit, KInv
<1>2. /\ cmd.of = "none" /\ panel.analyzing = 0
      /\ opts = Loaded(file, 0) /\ ui = Onboarding(opts)
  BY DEF ObserverInit, Free, NoPanel
<1>3. \/ opts.enabled /\ workers = <<NewWorker>> /\ live.worker = 1
      \/ ~opts.enabled /\ workers = <<>> /\ live.worker = 0
  BY DEF ObserverInit
<1>4. Lonely
  <2>1. \A v \in DOMAIN workers : v = 1 /\ workers[v].pc = "waiting"
    BY <1>3 DEF NewWorker
  <2>2. live.worker \in {0, Len(workers)} /\ \A v \in DOMAIN workers : v = Len(workers)
    <3>1. CASE workers = <<>> /\ live.worker = 0
      BY <3>1
    <3>2. CASE workers = <<NewWorker>> /\ live.worker = 1
      BY <3>2
    <3> QED
      BY <1>3, <3>1, <3>2
  <2> QED
    BY <1>1, <1>2, <2>1, <2>2 DEF Lonely, AtWork
<1>5. Blank
  <2>1. CASE Configured
    BY <1>2, <2>1 DEF Blank, Onboarding, NoForm, Configured, EnvOverrides
  <2>2. CASE ~Configured
    <3>1. ~opts.enabled
      BY <1>1, <1>2, <2>2, Unconfigured
    <3> QED
      BY <1>2, <1>3, <2>2, <3>1 DEF Blank, Onboarding
  <2> QED
    BY <2>1, <2>2
<1> QED
  BY <1>1, <1>4, <1>5 DEF SInv

LEMMA StillKeep ==
  ASSUME \A s \in ObserverSetups : "swap" \notin s["known"]
  PROVE  SInv /\ [ObserverNext]_observerVars => SInv'
BY TypesKeep, CommandedKeeps, BlankKeeps, LonelyKeeps DEF SInv

LEMMA HonestIt == RInv /\ SInv => PanelIsHonest
<1> SUFFICES ASSUME RInv, SInv PROVE PanelIsHonest
  OBVIOUS
<1>1. /\ ui.view.notice # 0 => ui.view.notice # ui.view.analyzing
      /\ \A w \in DOMAIN workers : workers[w].pc \in AtWork => panel.analyzing = workers[w].req
  BY DEF RInv, SInv, Viewed, Lonely
<1>2. \A w \in DOMAIN workers : workers[w].pc \in Points
  <2>1. \A w \in DOMAIN workers : workers[w] \in Workers
    BY WorkerAt DEF RInv
  <2> QED
    BY <2>1 DEF Workers
<1> QED
  BY <1>1, <1>2 DEF PanelIsHonest, Points, Serving, AtWork

(***************************************************************************)
(* Theorems.                                                               *)
(***************************************************************************)

\* Every request has one place: it waits, one worker serves it, or it is over and may be
\* shown as failed; what is numbered was asked for.  (requestObserver, takeObserverRequest,
\* analyzeObserverReport.)
THEOREM RequestsApart == ObserverSpec => []RInv
<1>1. ObserverInit => RInv
  BY RequestsInit
<1>2. RInv /\ [ObserverNext]_observerVars => RInv'
  BY RequestsKeep
<1> QED
  BY <1>1, <1>2, PTL DEF ObserverSpec

\* Between two commands the session runs what the project's file and the environment say,
\* and the key that resolves, in a project where a save that fails after a new key was
\* stored does not happen.  (setObserver, startObserver, stopObserver.)
THEOREM RunsWhatIsSavedHolds ==
  ASSUME \A s \in ObserverSetups : "key" \notin s["known"]
  PROVE  ObserverSpec => []RunsWhatIsSaved
<1>1. ObserverInit => KInv
  BY KeptInit
<1>2. KInv /\ [ObserverNext]_observerVars => KInv'
  BY KeptKeep
<1>3. RInv /\ KInv => RunsWhatIsSaved
  BY RunsIt
<1> QED
  BY <1>1, <1>2, <1>3, RequestsApart, PTL DEF ObserverSpec

\* The panel names the call under way, and no view shows the failure of a request as the
\* request under way, where no worker is replaced while it is asked.
\* (analyzeObserverReport, observerView.)
THEOREM PanelIsHonestHolds ==
  ASSUME \A s \in ObserverSetups : "swap" \notin s["known"]
  PROVE  ObserverSpec => []PanelIsHonest
<1>1. ObserverInit => SInv
  BY StillInit
<1>2. SInv /\ [ObserverNext]_observerVars => SInv'
  BY StillKeep
<1>3. RInv /\ SInv => PanelIsHonest
  BY HonestIt
<1> QED
  BY <1>1, <1>2, <1>3, RequestsApart, PTL DEF ObserverSpec
=============================================================================
