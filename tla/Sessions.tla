------------------------------ MODULE Sessions ------------------------------
(***************************************************************************)
(* The life of one session on disk: the Duo processes that start, resume,  *)
(* close, recall and clean it (internal/session/service.go, resume.go,     *)
(* cmd/duo), its directory and lock (internal/sessionstore), the agents'   *)
(* worktrees, and the calls the bridge is still serving when a process     *)
(* goes down.                                                              *)
(*                                                                         *)
(* A process is a program counter that moves from one file operation to    *)
(* the next.  Service.mu is held by Start, by a command of the human and   *)
(* by Close, which waits for the handlers of the bridge before it lets go; *)
(* they run beside all three and never ask for it.  The kernel frees the   *)
(* lock of a process that crashes, and its agents end with their           *)
(* terminals.                                                              *)
(***************************************************************************)
EXTENDS Naturals, FiniteSets

CONSTANTS
  Procs,       \* processes: `duo`, `duo resume`, `duo apply`, `duo clean`, `duo sessions`
  Setups       \* the instances to check, see MCSessions

Nobody == "nobody"

\* The name of a process is not the one of nobody.
ASSUME ProcsAssumption == Nobody \notin Procs

\* One session is followed: a second `duo` makes another directory.
ASSUME SetupsAssumption == \A s \in Setups : s["fresh"] \in {0, 1} /\ s["deaf"] \in BOOLEAN

VARIABLES
  setup,     \* the bounds of this behaviour, and whether processes may overlap
  disk,      \* the session's directory, the worktrees and the user's branch
  lock,      \* who holds the exclusive lock of the session
  me,        \* what each process is doing and remembers
  count,     \* what has happened so far, against the bounds
  accepted   \* ghost: a task was accepted and no human has thrown the session away

vars == <<setup, disk, lock, me, count, accepted>>

(***************************************************************************)
(* What is recorded of a session: whether it was started, where it stands  *)
(* (final: both agents have approved), and the receipt of its delivery.    *)
(***************************************************************************)
NoRecord == [started |-> FALSE, phase |-> "none", delivery |-> "none"]
NewRecord == [NoRecord EXCEPT !.phase = "work"]
Records == [started : BOOLEAN, phase : {"none", "work", "final", "done"},
            delivery : {"none", "pending", "applied"}]

NoProcess == [pc |-> "off", mu |-> "none", deaf |-> FALSE, seen |-> NoRecord, mem |-> NoRecord, comp |-> NoRecord,
              team |-> FALSE, handler |-> "none", bye |-> FALSE, journal |-> FALSE,
              want |-> "none", restart |-> FALSE, discarded |-> FALSE]

NoDisk == [dir |-> "none", rec |-> NoRecord, trees |-> FALSE, work |-> FALSE, landed |-> FALSE]

Idle(p) == me[p].pc = "off"

Closing(p) == me[p].pc \in {"stopping", "composing", "collecting", "composed", "stopped", "releasing",
                            "released", "dropping", "dropped", "removing", "cancelling"}

Spend(what) == /\ count[what] < setup[what]
               /\ count' = [count EXCEPT ![what] = @ + 1]

Go(p, pc) == me' = [me EXCEPT ![p].pc = pc]

\* Service.mu of the process, which Start, Do and Close hold to their ends.
Unheld(p) == me[p].mu = "none"

\* A process may begin: the other ones have ended, unless they may overlap.
MayBegin(p) == Idle(p) /\ (setup.overlap \/ \A q \in Procs : Idle(q))

-----------------------------------------------------------------------------
(* The session's directory.                                                 *)

\* The snapshot is written and renamed over the old one; a directory that is
\* gone is not made again, one that is just being emptied is.
Saved(d, r) == IF d.dir = "none" THEN d ELSE [d EXCEPT !.rec = r, !.dir = "present"]

\* A line is appended to a file of the directory.
Appended(d) == [d EXCEPT !.dir = IF @ = "emptied" THEN "present" ELSE @]

Readable(d) == d.dir = "present" /\ d.rec # NoRecord

\* The first try decides; a directory that is gone has no lock file to take.
CanLock == lock = Nobody /\ disk.dir # "none"

Unlocked(p) == IF lock = p THEN Nobody ELSE lock

-----------------------------------------------------------------------------
(* `duo`: a new session.                                                    *)

Prepare(p) ==
  /\ MayBegin(p) /\ disk = NoDisk /\ Spend("fresh")
  /\ disk' = [disk EXCEPT !.trees = TRUE]
  /\ me' = [me EXCEPT ![p] = [NoProcess EXCEPT !.pc = "prepared", !.mu = "start",
                                              !.mem = NewRecord]]
  /\ UNCHANGED <<setup, lock, accepted>>

NewStore(p) ==
  /\ me[p].pc = "prepared"
  /\ disk' = [disk EXCEPT !.dir = "present"]
  /\ lock' = p
  /\ me' = [me EXCEPT ![p].pc = "fresh", ![p].journal = TRUE]
  /\ UNCHANGED <<setup, count, accepted>>

\* The first checkpoint, before any agent starts.
FirstSave(p) ==
  /\ me[p].pc = "fresh"
  /\ disk' = Saved(disk, me[p].mem)
  /\ Go(p, "starting")
  /\ UNCHANGED <<setup, lock, count, accepted>>

-----------------------------------------------------------------------------
(* `duo resume`.                                                            *)

\* The snapshot is read before the lock is taken.
SelectSession(p) ==
  /\ MayBegin(p) /\ Readable(disk) /\ Spend("resumes")
  /\ me' = [me EXCEPT ![p] = [NoProcess EXCEPT !.pc = "loaded", !.mu = "start",
                                              !.seen = disk.rec]]
  /\ UNCHANGED <<setup, disk, lock, accepted>>

\* Mutant: the lock is taken for granted when somebody else holds it.
TakeLockAnyway(p) ==
  /\ me[p].pc = "loaded"
  /\ lock' = IF disk.dir # "none" THEN p ELSE lock
  /\ me' = [me EXCEPT ![p] = IF disk.dir # "none" THEN [@ EXCEPT !.pc = "owner", !.journal = TRUE]
                                                   ELSE NoProcess]
  /\ UNCHANGED <<setup, disk, count, accepted>>

TakeLock(p) ==
  /\ me[p].pc = "loaded"
  /\ lock' = IF CanLock THEN p ELSE lock
  /\ me' = [me EXCEPT ![p] = IF CanLock THEN [@ EXCEPT !.pc = "owner", !.journal = TRUE]
                                        ELSE NoProcess]
  /\ UNCHANGED <<setup, disk, count, accepted>>

\* NeedsDelivery, or an applied record whose DONE was not saved.
AwaitsHandOff(r) == r.phase = "final" \/ (r.phase = "done" /\ r.delivery = "pending")

\* Validate the worktrees, reconcile, and save before anything starts.
Reconcile(p) ==
  LET r == me[p].seen IN
  /\ me[p].pc = "owner"
  /\ IF ~disk.trees
     THEN /\ me' = [me EXCEPT ![p] = NoProcess]
          /\ lock' = Unlocked(p)
          /\ UNCHANGED disk
     ELSE /\ disk' = Saved(disk, IF r.phase = "final" /\ r.delivery = "applied"
                                 THEN [r EXCEPT !.phase = "done"]
                                 ELSE IF AwaitsHandOff(r) THEN [r EXCEPT !.delivery = "pending"] ELSE r)
          /\ IF r.phase = "final" /\ r.delivery = "applied"
             THEN me' = [me EXCEPT ![p] = NoProcess] /\ lock' = Unlocked(p)
             ELSE /\ me' = [me EXCEPT ![p].mem = r, ![p].seen = NoRecord,
                                      ![p].pc = IF AwaitsHandOff(r) THEN "handing" ELSE "starting"]
                  /\ UNCHANGED lock
  /\ UNCHANGED <<setup, count, accepted>>

\* The artifact is in the user's branch and recorded as delivered, or it stays
\* pending; either way the process ends without starting an agent.
Delivered(d, r) == [Saved(d, [r EXCEPT !.phase = "done", !.delivery = "applied"])
                    EXCEPT !.landed = TRUE]

HandOff(p) ==
  /\ me[p].pc = "handing"
  /\ disk' \in {disk, Delivered(disk, me[p].mem)}
  /\ me' = [me EXCEPT ![p] = NoProcess]
  /\ lock' = Unlocked(p)
  /\ UNCHANGED <<setup, count, accepted>>

-----------------------------------------------------------------------------
(* launch, shared by new and resumed sessions.                              *)

StartTeam(p) ==
  /\ me[p].pc = "starting"
  /\ me' = [me EXCEPT ![p].pc = "started", ![p].team = TRUE]
  /\ UNCHANGED <<setup, disk, lock, count, accepted>>

\* An agent does not start: StartAll stops the other one and Start closes the session.
\* Or the bridge cannot listen, and its only word is heard here (deaf).
LaunchFails(p) ==
  /\ me[p].pc = "starting" /\ Spend("failures")
  /\ me' = [me EXCEPT ![p].pc = "stopping", ![p].deaf = setup["deaf"]]
  /\ UNCHANGED <<setup, disk, lock, accepted>>

StartupSave(p) ==
  /\ me[p].pc = "started"
  /\ disk' = Saved(disk, me[p].mem)
  /\ me' = [me EXCEPT ![p].pc = "up", ![p].mu = "none"]
  /\ UNCHANGED <<setup, lock, count, accepted>>

-----------------------------------------------------------------------------
(* A live session.                                                          *)

Change(p, r) == /\ me' = [me EXCEPT ![p].mem = r, ![p].mu = "command"]
                /\ disk' = Saved(disk, r)

\* Service.Do(SubmitTask) meets no error; a finished session is reopened.  A phone may
\* still send one when the interface has ended, until Close has the lock.
Task(p) ==
  LET r == me[p].mem IN
  /\ me[p].pc \in {"up", "stopping"} /\ me[p].team /\ Unheld(p) /\ Spend("tasks")
  /\ Change(p, [started |-> TRUE, phase |-> IF r.phase = "done" THEN "work" ELSE r.phase,
                delivery |-> IF r.phase = "done" THEN "none" ELSE r.delivery])
  /\ accepted' = TRUE
  /\ UNCHANGED <<setup, lock>>

\* Do returns.
Returns(p) ==
  /\ me[p].mu = "command"
  /\ me' = [me EXCEPT ![p].mu = "none"]
  /\ UNCHANGED <<setup, disk, lock, count, accepted>>

\* An agent commits or edits in its worktree, asked by a task or through its terminal.
Work(p) ==
  /\ me[p].team /\ disk.trees /\ ~disk.work
  /\ disk' = [disk EXCEPT !.work = TRUE]
  /\ UNCHANGED <<setup, lock, me, count, accepted>>

\* A call arrives over the bridge: the start of a turn, or the last approval.
Arrives(p) ==
  /\ me[p].team /\ me[p].handler = "none" /\ Spend("calls")
  /\ \E call \in {"turn", "approval"} :
       /\ call = "approval" => me[p].mem.started /\ me[p].mem.phase \in {"work", "final"} /\ disk.work
       /\ me' = [me EXCEPT ![p].handler = call]
  /\ UNCHANGED <<setup, disk, lock, accepted>>

\* A handler is served beside everything else; only the removal of the record
\* and its saves exclude each other (Store.mu).
Serves(p, call) == me[p].handler = call /\ me[p].pc # "removing"

Handled(p, r, next) ==
  /\ me' = [me EXCEPT ![p].mem = r, ![p].handler = next]
  /\ disk' = Saved(disk, r)
  /\ UNCHANGED <<setup, lock, count, accepted>>

\* MarkStarted.
TurnStarts(p) == Serves(p, "turn") /\ Handled(p, [me[p].mem EXCEPT !.started = TRUE], "none")

Approves(p) == Serves(p, "approval") /\ Handled(p, [me[p].mem EXCEPT !.phase = "final"], "final")

DeliveryBegins(p) ==
  /\ Serves(p, "final")
  /\ Handled(p, [me[p].mem EXCEPT !.delivery = "pending"], "pending")

\* Git moves the user's branch, or leaves it alone: it is not fit for the
\* delivery, or the command ends with the session's context.
Lands(p) ==
  /\ me[p].handler = "pending"
  /\ \/ /\ disk' = [disk EXCEPT !.landed = TRUE]
        /\ me' = [me EXCEPT ![p].handler = "landed"]
     \/ /\ me' = [me EXCEPT ![p].handler = "none"]
        /\ UNCHANGED disk
  /\ UNCHANGED <<setup, lock, count, accepted>>

Receipt(p) == Serves(p, "landed") /\ Handled(p, [me[p].mem EXCEPT !.delivery = "applied"], "applied")

Completes(p) == Serves(p, "applied") /\ Handled(p, [me[p].mem EXCEPT !.phase = "done"], "none")

\* handleRestartDuo records the request where only tests read it.
AskRestart(p) ==
  /\ me[p].team /\ me[p].mem.started /\ me[p].mem.phase = "work" /\ ~me[p].restart
  /\ Spend("restarts")
  /\ me' = [me EXCEPT ![p].restart = TRUE]
  /\ UNCHANGED <<setup, disk, lock, accepted>>

-----------------------------------------------------------------------------
(* What the human asks of the session, and how its interface ends.          *)

\* requestNewSession, requestResumeSession.
RequestNew(p) ==
  /\ me[p].pc = "up" /\ Unheld(p) /\ me[p].want = "none" /\ Spend("requests")
  /\ me' = [me EXCEPT ![p].want = "new", ![p].mu = "command"]
  /\ UNCHANGED <<setup, disk, lock, accepted>>

RecallBlocked(r) == r.delivery = "applied" \/ r.phase = "done"

\* The agents stop at once; the record goes when the session is closed.
RequestRecall(p) ==
  /\ me[p].pc = "up" /\ Unheld(p) /\ me[p].want = "none" /\ ~RecallBlocked(me[p].mem) /\ Spend("requests")
  /\ me' = [me EXCEPT ![p].want = "recall", ![p].mu = "command",
                      ![p].team = FALSE, ![p].bye = me[p].team]
  /\ UNCHANGED <<setup, disk, lock, accepted>>

\* The interface finds the request in the View, which is read under Service.mu.
ReadRequest(p) ==
  /\ me[p].pc = "up" /\ Unheld(p) /\ me[p].want \in {"new", "recall"}
  /\ Go(p, "stopping")
  /\ UNCHANGED <<setup, disk, lock, count, accepted>>

\* The human leaves.
Quit(p) ==
  /\ me[p].pc = "up"
  /\ Go(p, "stopping")
  /\ UNCHANGED <<setup, disk, lock, count, accepted>>

-----------------------------------------------------------------------------
(* closeLocked.                                                             *)

\* Close takes Service.mu when the command under way is done; Start already has it.
StopTeam(p) ==
  /\ me[p].pc = "stopping" /\ me[p].mu \in {"none", "start"}
  /\ me' = [me EXCEPT ![p].mu = "close",
                      ![p].pc = IF me[p].want = "recall" THEN "stopped" ELSE "composing",
                      ![p].team = FALSE, ![p].bye = @ \/ me[p].team]
  /\ UNCHANGED <<setup, disk, lock, count, accepted>>

\* composeSnapshot reads the receipt first and the project after the plugins.
ComposeDelivery(p) ==
  /\ me[p].pc = "composing"
  /\ me' = [me EXCEPT ![p].pc = "collecting", ![p].comp.delivery = me[p].mem.delivery]
  /\ UNCHANGED <<setup, disk, lock, count, accepted>>

ComposeProject(p) ==
  /\ me[p].pc = "collecting"
  /\ me' = [me EXCEPT ![p].pc = "composed",
                      ![p].comp = [me[p].mem EXCEPT !.delivery = me[p].comp.delivery]]
  /\ UNCHANGED <<setup, disk, lock, count, accepted>>

\* What was composed is written, whatever the handlers have saved since.
FinalSave(p) ==
  /\ me[p].pc = "composed"
  /\ disk' = Saved(disk, me[p].comp)
  /\ me' = [me EXCEPT ![p].pc = "stopped", ![p].comp = NoRecord]
  /\ UNCHANGED <<setup, lock, count, accepted>>

\* Mutant: the journal stays open.
LeaveJournal(p) ==
  /\ me[p].pc = "stopped"
  /\ Go(p, "releasing")
  /\ UNCHANGED <<setup, disk, lock, count, accepted>>

CloseJournal(p) ==
  /\ me[p].pc = "stopped"
  /\ me' = [me EXCEPT ![p].pc = "releasing", ![p].journal = FALSE]
  /\ UNCHANGED <<setup, disk, lock, count, accepted>>

Release(p) ==
  /\ me[p].pc = "releasing"
  /\ lock' = Unlocked(p)
  /\ Go(p, "released")
  /\ UNCHANGED <<setup, disk, count, accepted>>

\* Mutant: only Git is asked whether the session was used.
DiscardUnlessWork(p) == IF me[p].want = "recall" THEN ~RecallBlocked(me[p].mem) ELSE ~disk.work

\* discardRecalled looks for a landing again; discardUnstarted for a task and for
\* anything in the worktrees.
ToDiscard(p) == IF me[p].want = "recall" THEN ~RecallBlocked(me[p].mem)
                                         ELSE ~me[p].mem.started /\ ~disk.work

Decide(p) ==
  /\ me[p].pc = "released"
  /\ Go(p, IF ToDiscard(p) THEN "dropping" ELSE "cancelling")
  /\ UNCHANGED <<setup, disk, lock, count, accepted>>

DropTrees(p) ==
  /\ me[p].pc = "dropping"
  /\ disk' = [disk EXCEPT !.trees = FALSE, !.work = FALSE]
  /\ accepted' = (accepted /\ me[p].want # "recall")
  /\ Go(p, "dropped")
  /\ UNCHANGED <<setup, lock, count>>

\* os.RemoveAll: the entries, then the directory, which fails when a file came back.
Emptied(d) == IF d.dir = "none" THEN d ELSE [d EXCEPT !.rec = NoRecord, !.dir = "emptied"]

EmptyRecord(p) ==
  /\ me[p].pc = "dropped"
  /\ disk' = Emptied(disk)
  /\ Go(p, "removing")
  /\ UNCHANGED <<setup, lock, count, accepted>>

RemoveRecord(p) ==
  /\ me[p].pc = "removing"
  /\ disk' = [disk EXCEPT !.dir = IF @ = "emptied" THEN "none" ELSE @]
  /\ me' = [me EXCEPT ![p].pc = "cancelling", ![p].discarded = (disk.dir # "present")]
  /\ UNCHANGED <<setup, lock, count, accepted>>

\* cancel, and wait for the bridge to say that its connections are served; only then
\* is Service.mu let go.
Closed(p) ==
  /\ me[p].pc = "cancelling" /\ me[p].handler = "none" /\ ~me[p].bye /\ ~me[p].deaf
  /\ me' = [me EXCEPT ![p] = NoProcess]
  /\ UNCHANGED <<setup, disk, lock, count, accepted>>

\* Mutant: the line goes through RecordEntry, which takes Service.mu.
DisconnectedLocked(p) ==
  /\ me[p].bye /\ Unheld(p)
  /\ disk' = IF me[p].journal THEN Appended(disk) ELSE disk
  /\ me' = [me EXCEPT ![p].bye = FALSE]
  /\ UNCHANGED <<setup, lock, count, accepted>>

\* The bridge reports the agents gone, and the journal records it.
Disconnected(p) ==
  /\ me[p].bye
  /\ disk' = IF me[p].journal THEN Appended(disk) ELSE disk
  /\ me' = [me EXCEPT ![p].bye = FALSE]
  /\ UNCHANGED <<setup, lock, count, accepted>>

\* A crash or a signal the process does not handle.
Crash(p) ==
  /\ ~Idle(p) /\ Spend("crashes")
  /\ me' = [me EXCEPT ![p] = NoProcess]
  /\ lock' = Unlocked(p)
  /\ UNCHANGED <<setup, disk, accepted>>

-----------------------------------------------------------------------------
(* The other commands: `duo apply`, `duo clean <id>` and `duo sessions`.    *)

\* The target is read, then the lock is asked for.
Tool(p, what, pc) ==
  /\ MayBegin(p) /\ Readable(disk) /\ Spend(what)
  /\ me' = [me EXCEPT ![p] = [NoProcess EXCEPT !.pc = pc, !.seen = disk.rec]]
  /\ UNCHANGED <<setup, disk, lock, accepted>>

Apply(p) == AwaitsHandOff(disk.rec) /\ disk.rec.delivery # "applied" /\ Tool(p, "applies", "applying")
Clean(p) == Tool(p, "cleans", "cleaning")
Sessions(p) == Tool(p, "lists", "listing")

\* The lock is busy, and the tool leaves the session alone.
Owned(p, pc, next) ==
  /\ me[p].pc = pc
  /\ lock' = IF CanLock THEN p ELSE lock
  /\ me' = [me EXCEPT ![p] = IF CanLock THEN [@ EXCEPT !.pc = next, !.mem = me[p].seen, !.seen = NoRecord]
                                        ELSE NoProcess]
  /\ UNCHANGED <<setup, disk, count, accepted>>

ApplyLock(p) == Owned(p, "applying", "handing")
CleanLock(p) == Owned(p, "cleaning", "cleaned")
Probe(p) == Owned(p, "listing", "probing")

CleanTrees(p) ==
  /\ me[p].pc = "cleaned"
  /\ disk' = [disk EXCEPT !.trees = FALSE, !.work = FALSE]
  /\ accepted' = FALSE
  /\ lock' = Unlocked(p)
  /\ Go(p, "clearing")
  /\ UNCHANGED <<setup, count>>

CleanRecord(p) ==
  /\ me[p].pc = "clearing"
  /\ disk' = [disk EXCEPT !.rec = NoRecord, !.dir = "none"]
  /\ me' = [me EXCEPT ![p] = NoProcess]
  /\ UNCHANGED <<setup, lock, count, accepted>>

\* sessionStatus gives the lock back.
Probed(p) ==
  /\ me[p].pc = "probing"
  /\ lock' = Unlocked(p)
  /\ me' = [me EXCEPT ![p] = NoProcess]
  /\ UNCHANGED <<setup, disk, count, accepted>>

-----------------------------------------------------------------------------
Bounds == {"fresh", "resumes", "failures", "tasks", "calls", "restarts", "requests", "crashes",
           "applies", "cleans", "lists"}

Init ==
  /\ setup \in Setups
  /\ disk = NoDisk
  /\ lock = Nobody
  /\ me = [p \in Procs |-> NoProcess]
  /\ count = [what \in Bounds |-> 0]
  /\ accepted = FALSE

Start(p) == \/ Prepare(p) \/ NewStore(p) \/ FirstSave(p)
            \/ SelectSession(p) \/ TakeLock(p) \/ Reconcile(p) \/ HandOff(p)
            \/ StartTeam(p) \/ LaunchFails(p) \/ StartupSave(p)

Handler(p) == \/ TurnStarts(p) \/ Approves(p) \/ DeliveryBegins(p) \/ Lands(p)
              \/ Receipt(p) \/ Completes(p) \/ Disconnected(p)

Run(p) == \/ Task(p) \/ Work(p) \/ Arrives(p) \/ AskRestart(p)
          \/ RequestNew(p) \/ RequestRecall(p) \/ Quit(p)

Close(p) == \/ StopTeam(p) \/ ComposeDelivery(p) \/ ComposeProject(p) \/ FinalSave(p)
            \/ CloseJournal(p) \/ Release(p) \/ Decide(p) \/ DropTrees(p) \/ EmptyRecord(p) \/ RemoveRecord(p)
            \/ Closed(p)

Tools(p) == \/ Apply(p) \/ Clean(p) \/ Sessions(p) \/ ApplyLock(p) \/ CleanLock(p) \/ Probe(p)
            \/ CleanTrees(p) \/ CleanRecord(p) \/ Probed(p)

Next == \E p \in Procs : \/ Start(p) \/ Handler(p) \/ Run(p) \/ Returns(p) \/ ReadRequest(p) \/ Close(p)
                          \/ Crash(p) \/ Tools(p)

Spec == Init /\ [][Next]_vars

\* A process that runs goes on: it closes, serves the calls it took, ends its commands,
\* and its interface reads the View.  Nothing is assumed of agents and humans.
FairSpec == /\ Spec
            /\ \A p \in Procs : /\ WF_vars(Close(p)) /\ WF_vars(Handler(p))
                                /\ WF_vars(Returns(p)) /\ WF_vars(ReadRequest(p))

-----------------------------------------------------------------------------
(* Properties.                                                              *)

TypeOK ==
  /\ disk.dir \in {"none", "present", "emptied"} /\ disk.rec \in Records
  /\ lock \in Procs \cup {Nobody}
  /\ \A p \in Procs : /\ me[p].mem \in Records /\ me[p].seen \in Records
                     /\ me[p].mu \in {"none", "start", "command", "close"}

\* The agents of two processes are never at work on the session's worktrees at the
\* same time, whatever starts, resumes, closes and crashes beside one another:
\* a launch comes after the lock and the lock is given back after StopAll
\* (service.go:580-612, lock.go:54).
OneTeam == TypeOK /\ \A p, q \in Procs : me[p].team /\ me[q].team => p = q

\* A session that was opened and closed without a task, a turn or a change leaves
\* neither worktrees nor a record, though the bridge still reports the end of its
\* agents while they are removed (service.go:603-609, 1722-1727).
UntouchedLeavesNothing ==
  [][\A p \in Procs :
       Closed(p) /\ ~me[p].mem.started /\ me[p].want # "recall" /\ ~disk.work /\ ~setup.overlap
         => disk.dir = "none" /\ ~disk.trees]_vars

\* A task that was accepted stays on disk, in a session that can be resumed, until
\* a human recalls or cleans it, through crashes, failed launches and resumes
\* (service.go:1736-1741): said of processes that do not overlap.
Kept == disk.dir = "present" /\ disk.rec.started /\ disk.trees
AcceptedIsKept == accepted /\ ~setup.overlap => Kept

\* The same of processes that overlap.
AcceptedSurvives == accepted => Kept

\* What is asked for with /new, /sessions and /recall, and every Close, comes to an
\* end: Close waits with Service.mu in its hand for handlers that are still at work,
\* and itself for the command under way, so neither may ever wait for the other
\* (service.go:229, 609-625).  Said of launches whose bridge could listen.
CloseEnds ==
  \A p \in Procs : (me[p].want # "none" /\ me[p].pc = "up") \/ Closing(p) ~> Idle(p)

\* A recall does not take the record of a session whose artifact is in the user's
\* branch ("A delivered artifact wins", service.go:1648-1656).
LandedIsNotRecalled ==
  \A p \in Procs : me[p].want = "recall" /\ me[p].discarded => ~disk.landed

\* A restart an agent asked for stops the process, so that the launcher can go on
\* (step.go:479, docs/self-upgrade.md:14).
RestartStops == \A p \in Procs : me[p].restart ~> ~me[p].restart
=============================================================================
