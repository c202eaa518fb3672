--------------------------- MODULE Messages_proofs ---------------------------
(***************************************************************************)
(* No message is lost in a pause, and no pause in a crash.  A piece of     *)
(* work is followed from the sender over the pause (held, or admitted and  *)
(* not written yet), the command that lets it go and the connection it is  *)
(* written to; Kept says that it is at one of these places.  Claims says   *)
(* at which places the one resume prompt of an agent can be, and Asked     *)
(* what the file holds of a pause the human was told of.                   *)
(***************************************************************************)
EXTENDS Messages, TLAPS

USE DEF Agents

States == {"running", "pausing", "paused"}
Ops == {"none", "pause", "cancel", "continue", "task", "resume", "switch", "replaced"}
Kinds == {"work", "resume", "claimed", "continue", "reset"}
MessageSet == [to : Agents, kind : Kinds, work : SUBSET Nat]
Counts == [works : Nat, pauses : Nat, exits : Nat, switches : Nat, saves : Nat, restarts : Nat]

\* The pause as it is, or as it was composed or saved.
Snapshots == {s \in [state : States, paused : [Agents -> BOOLEAN]] :
                s.state = "paused" => s.paused = Both(TRUE)}

Pauses ==
  /\ PauseSnapshot \in Snapshots /\ (pause = "running" => paused = Both(FALSE))
  /\ saved \in Snapshots /\ saver \subseteq Snapshots
  /\ emits \subseteq Agents \cup {"do"}

\* The agents' processes, connections and turns.
Crew ==
  /\ link \in [Agents -> {"none", "up", "dead"}] /\ proc \in [Agents -> {"running", "exited"}]
  /\ working \in [Agents -> BOOLEAN] /\ unread \in [Agents -> BOOLEAN]
  /\ \A a \in Agents : /\ link[a] = "up" => proc[a] = "running"
                       /\ working[a] => proc[a] = "running"

\* What a command may have left to send.
Fits(op, m) ==
  \/ op \in {"cancel", "task"} /\ m.kind = "work"
  \/ op = "continue" /\ m.kind = "continue"
  \/ op = "resume" /\ m.kind \in {"resume", "claimed"} /\ m.work = {}
  \/ op \in {"switch", "replaced"} /\ m.kind = "reset" /\ m.work = {}

Mail ==
  /\ held \in Seq(MessageSet)
  /\ \A i \in DOMAIN held : pause # "running" /\ held[i].kind = "work"
  /\ sends \subseteq MessageSet
  /\ \A m \in sends : m.kind = "work" \/ (m.kind = "resume" /\ m.work = {})
  /\ do \in [op : Ops, todo : Seq(MessageSet), failed : BOOLEAN]
  /\ \A i \in DOMAIN do.todo : Fits(do.op, do.todo[i]) /\ (i > 1 => do.todo[i].kind # "claimed")
  /\ count \in Counts /\ setup \in Setups
  /\ got \in [Agents -> SUBSET Nat]
  /\ resumes \in [Agents -> {0, 1}] /\ attempted \in [Agents -> BOOLEAN]

\* Where the resume prompt of a can be: with the agent, in a goroutine, with the command.
Queued(a) == Message(a, "resume", {}) \in sends
Claiming(a) == do.todo # <<>> /\ Head(do.todo).kind = "claimed" /\ Head(do.todo).to = a

Claims ==
  \A a \in Agents :
    /\ ~(resumes[a] = 1 /\ Queued(a)) /\ ~(resumes[a] = 1 /\ Claiming(a)) /\ ~(Queued(a) /\ Claiming(a))
    /\ resumes[a] = 1 \/ Queued(a) \/ Claiming(a) => attempted[a]

\* Where a piece of work can be.
Everywhere ==
  gone \cup got["Austin"] \cup got["Tony"]
    \cup Carried(sends) \cup Carried(ToSet(held)) \cup Carried(ToSet(do.todo))

Kept == 1 .. count.works \subseteq Everywhere

IInv == Pauses /\ Crew /\ Mail /\ Claims /\ Kept

----------------------------------------------------------------------------
(***************************************************************************)
(* Sequences and sets of messages.                                         *)
(***************************************************************************)
\* What is in a sequence with one more element, without its first, of one or two.
LEMMA ToSetIs ==
  ASSUME NEW S, NEW s \in Seq(S)
  PROVE  /\ \A x \in S : ToSet(Append(s, x)) = ToSet(s) \cup {x}
         /\ s # <<>> => ToSet(s) = {Head(s)} \cup ToSet(Tail(s))
         /\ s # <<>> => Head(s) \in S /\ Tail(s) \in Seq(S) /\ Len(Tail(s)) = Len(s) - 1
                        /\ Head(s) = s[1] /\ \A i \in DOMAIN Tail(s) : Tail(s)[i] = s[i + 1]
         /\ \A i \in DOMAIN s : s[i] \in S
<1>1. ASSUME NEW x \in S PROVE ToSet(Append(s, x)) = ToSet(s) \cup {x}
  <2>1. \A i \in DOMAIN Append(s, x) : Append(s, x)[i] = IF i <= Len(s) THEN s[i] ELSE x
    OBVIOUS
  <2>2. DOMAIN Append(s, x) = 1 .. Len(s) + 1 /\ DOMAIN s = 1 .. Len(s) /\ Len(s) \in Nat
    OBVIOUS
  <2>3. ASSUME NEW y \in ToSet(s) PROVE y \in ToSet(Append(s, x))
    <3>1. PICK i \in DOMAIN s : y = s[i]
      BY <2>3 DEF ToSet
    <3>2. i \in DOMAIN Append(s, x) /\ Append(s, x)[i] = y
      BY <2>1, <2>2, <3>1
    <3> QED
      BY <3>2 DEF ToSet
  <2>4. x \in ToSet(Append(s, x))
    <3>1. Len(s) + 1 \in DOMAIN Append(s, x) /\ Append(s, x)[Len(s) + 1] = x
      BY <2>1, <2>2
    <3> QED
      BY <3>1 DEF ToSet
  <2>5. ASSUME NEW i \in DOMAIN Append(s, x) PROVE Append(s, x)[i] \in ToSet(s) \cup {x}
    <3>1. CASE i <= Len(s)
      <4>1. i \in DOMAIN s /\ Append(s, x)[i] = s[i]
        BY <2>1, <2>2, <3>1
      <4> QED
        BY <4>1 DEF ToSet
    <3>2. CASE ~(i <= Len(s))
      BY <2>1, <3>2
    <3> QED
      BY <3>1, <3>2
  <2> QED
    BY <2>3, <2>4, <2>5 DEF ToSet
<1>2. ASSUME s # <<>>
      PROVE  /\ Head(s) \in S /\ Tail(s) \in Seq(S) /\ Len(Tail(s)) = Len(s) - 1
             /\ Head(s) = s[1] /\ \A i \in DOMAIN Tail(s) : Tail(s)[i] = s[i + 1]
  BY <1>2
<1>3. ASSUME s # <<>> PROVE ToSet(s) = {Head(s)} \cup ToSet(Tail(s))
  <2>1. DOMAIN s = 1 .. Len(s) /\ Len(s) \in Nat /\ Len(s) >= 1 /\ DOMAIN Tail(s) = 1 .. Len(s) - 1
    BY <1>3
  <2>2. ASSUME NEW i \in DOMAIN s PROVE s[i] \in {Head(s)} \cup ToSet(Tail(s))
    <3>1. CASE i = 1
      BY <1>2, <1>3, <3>1
    <3>2. CASE i # 1
      <4>1. i - 1 \in DOMAIN Tail(s) /\ Tail(s)[i - 1] = s[i]
        BY <1>2, <1>3, <2>1, <3>2
      <4> QED
        BY <4>1 DEF ToSet
    <3> QED
      BY <3>1, <3>2
  <2>3. ASSUME NEW i \in DOMAIN Tail(s) PROVE Tail(s)[i] \in ToSet(s)
    <3>1. i + 1 \in DOMAIN s /\ Tail(s)[i] = s[i + 1]
      BY <1>2, <1>3, <2>1
    <3> QED
      BY <3>1 DEF ToSet
  <2>4. Head(s) \in ToSet(s)
    BY <1>2, <1>3, <2>1 DEF ToSet
  <2> QED
    BY <2>2, <2>3, <2>4 DEF ToSet
<1> QED
  BY <1>1, <1>2, <1>3

\* Nothing, one message, two messages.
LEMMA ToSetShort ==
  /\ ToSet(<<>>) = {}
  /\ \A x : ToSet(<<x>>) = {x}
  /\ \A x, y : ToSet(<<x, y>>) = {x, y}
<1>1. \A x, y : ToSet(<<x, y>>) = {x, y}
  <2> SUFFICES ASSUME NEW x, NEW y PROVE ToSet(<<x, y>>) = {x, y}
    OBVIOUS
  <2>1. DOMAIN <<x, y>> = {1, 2} /\ <<x, y>>[1] = x /\ <<x, y>>[2] = y
    OBVIOUS
  <2> QED
    BY <2>1 DEF ToSet
<1> QED
  BY <1>1 DEF ToSet

\* A message and its parts.
LEMMA MessageIs ==
  \A a, kind, work :
    /\ Message(a, kind, work).to = a /\ Message(a, kind, work).kind = kind
    /\ Message(a, kind, work).work = work
    /\ a \in Agents /\ kind \in Kinds /\ work \in SUBSET Nat => Message(a, kind, work) \in MessageSet
    /\ \A m \in MessageSet : m.to = a /\ m.kind = kind /\ m.work = work => m = Message(a, kind, work)
BY DEF Message, MessageSet

\* A bound is spent: the counters keep their type and no other one moves.
LEMMA SpendIs ==
  ASSUME NEW what \in {"works", "pauses", "exits", "switches", "saves", "restarts"},
         count \in Counts, Spend(what)
  PROVE  /\ count' \in Counts /\ (what # "works" => count'.works = count.works)
         /\ (what = "works" => count'.works = count.works + 1)
         /\ (what # "saves" => count'.saves = count.saves)
         /\ (what # "restarts" => count'.restarts = count.restarts)
         /\ count[what] \in Nat /\ count[what] < setup[what]
BY DEF Spend, Counts

\* Work that is somewhere stays somewhere.
LEMMA StaysKept ==
  ASSUME Kept, count'.works = count.works, Everywhere \subseteq Everywhere'
  PROVE  Kept'
BY DEF Kept

\* ... and so does the next piece, when it goes there.
LEMMA NextIsKept ==
  ASSUME Kept, count \in Counts, count'.works = count.works + 1, Everywhere \subseteq Everywhere',
         count'.works \in Everywhere'
  PROVE  Kept'
<1>1. count.works \in Nat
  BY DEF Counts
<1>2. 1 .. count'.works = (1 .. count.works) \cup {count'.works}
  BY <1>1
<1> QED
  BY <1>2 DEF Kept

\* The work of some messages, of one, of none.
LEMMA CarriedIs ==
  /\ \A s, t : Carried(s \cup t) = Carried(s) \cup Carried(t)
  /\ \A m : Carried({m}) = m.work
  /\ Carried({}) = {}
BY DEF Carried

----------------------------------------------------------------------------
(***************************************************************************)
(* The agents: their processes, connections and turns.                     *)
(***************************************************************************)
\* The activity of an agent moves the pause but never ends it.
LEMMA RefreshKeeps ==
  ASSUME Pauses, NEW a \in Agents, RefreshPause(a), UNCHANGED <<saved, saver>>
  PROVE  Pauses' /\ (pause' = "running" <=> pause = "running")
<1> DEFINE idle == isIdle(a)'
           q == IF pause = "running" THEN paused ELSE [paused EXCEPT ![a] = idle]
<1>1. idle \in BOOLEAN
  BY DEF isIdle
<1>2. /\ paused' = q
      /\ pause' = CASE pause = "pausing" /\ \A b \in Agents : q[b] -> "paused"
                    [] pause = "paused" /\ ~q[a] -> "pausing"
                    [] OTHER -> pause
      /\ emits' \in {emits, emits \cup {a}}
  BY DEF RefreshPause
<1> HIDE DEF idle
<1>3. pause \in States /\ paused \in [Agents -> BOOLEAN] /\ (pause = "paused" => paused = Both(TRUE))
      /\ (pause = "running" => paused = Both(FALSE))
  BY DEF Pauses, Snapshots, PauseSnapshot
<1>4. q \in [Agents -> BOOLEAN]
  BY <1>1, <1>3
<1>5. CASE pause = "running"
  BY <1>2, <1>3, <1>5 DEF Pauses, Snapshots, PauseSnapshot
<1>6. CASE pause = "pausing"
  <2>1. pause' = IF \A b \in Agents : q[b] THEN "paused" ELSE "pausing"
    BY <1>2, <1>6
  <2>2. (\A b \in Agents : q[b]) => q = Both(TRUE)
    BY <1>4 DEF Both
  <2> HIDE DEF q
  <2> QED
    BY <1>2, <1>4, <1>6, <2>1, <2>2 DEF Pauses, Snapshots, PauseSnapshot, States
<1>7. CASE pause = "paused"
  <2>1. pause' = IF q[a] THEN "paused" ELSE "pausing"
    BY <1>2, <1>7
  <2>2. q = [paused EXCEPT ![a] = idle] /\ paused = Both(TRUE)
    BY <1>3, <1>7
  <2>3. q[a] => q = Both(TRUE)
    BY <1>1, <1>4, <2>2 DEF Both
  <2> HIDE DEF q
  <2> QED
    BY <1>2, <1>4, <1>7, <2>1, <2>3 DEF Pauses, Snapshots, PauseSnapshot, States
<1> QED
  BY <1>3, <1>5, <1>6, <1>7 DEF States

\* What an agent does leaves the messages where they are, up to the command, and no pause ends.
Aside ==
  /\ UNCHANGED <<setup, held, sends, got, gone, resumes, attempted>>
  /\ count' \in Counts /\ count'.works = count.works
  /\ pause' = "running" => pause = "running"

\* A step of an agent keeps the invariant with its pause and its crew.
LEMMA AsideKeeps ==
  ASSUME IInv, Aside, Pauses', Crew', do' = do
  PROVE  IInv'
<1>1. Mail'
  BY DEF IInv, Mail, Aside
<1>2. Claims'
  BY DEF IInv, Claims, Queued, Claiming, Aside
<1>3. Everywhere' = Everywhere
  BY DEF Everywhere, Aside
<1> QED
  BY <1>1, <1>2, <1>3, StaysKept DEF IInv, Aside

\* An exit, of its own.
LEMMA ExitKeeps == ASSUME IInv, NEW a \in Agents, Exit(a) PROVE IInv'
<1>1. Spend("exits") /\ RefreshPause(a) /\ UNCHANGED <<saved, saver, do>>
      /\ UNCHANGED <<setup, held, sends, got, gone, resumes, attempted>>
  BY DEF Exit, diskVars, resumeVars
<1>2. count \in Counts
  BY DEF IInv, Mail
<1>3. Pauses' /\ Aside
  BY <1>1, <1>2, SpendIs, RefreshKeeps DEF IInv, Aside
<1>4. Crew'
  <2>1. /\ proc' = [proc EXCEPT ![a] = "exited"] /\ working' = [working EXCEPT ![a] = FALSE]
        /\ unread' = [unread EXCEPT ![a] = FALSE]
        /\ link' = IF link[a] = "up" THEN [link EXCEPT ![a] = "dead"] ELSE link
    BY DEF Exit
  <2> QED
    BY <2>1 DEF IInv, Crew
<1> QED
  BY <1>1, <1>3, <1>4, AsideKeeps

\* Turns begin and end, connections end and are missed.
LEMMA TurnKeeps ==
  ASSUME IInv, NEW a \in Agents, TurnStart(a) \/ TurnEnd(a) \/ ConnectionEnds(a) \/ OnDisconnect(a)
  PROVE  IInv'
<1>1. UNCHANGED <<setup, held, sends, got, gone, resumes, attempted, do, count, saved, saver>>
  BY DEF TurnStart, TurnEnd, ConnectionEnds, OnDisconnect, diskVars, resumeVars, ghosts, pauseVars
<1>2. RefreshPause(a) \/ UNCHANGED <<pause, paused, emits>>
  BY DEF TurnStart, TurnEnd, ConnectionEnds, OnDisconnect, pauseVars
<1>3. Pauses' /\ (pause' = "running" <=> pause = "running")
  <2>1. CASE RefreshPause(a)
    BY <1>1, <2>1, RefreshKeeps DEF IInv
  <2>2. CASE UNCHANGED <<pause, paused, emits>>
    BY <1>1, <2>2 DEF IInv, Pauses, Snapshots, PauseSnapshot
  <2> QED
    BY <1>2, <2>1, <2>2
<1>4. Crew'
  <2>1. CASE TurnStart(a)
    BY <2>1 DEF IInv, Crew, TurnStart, CanReport
  <2>2. CASE TurnEnd(a)
    BY <2>2 DEF IInv, Crew, TurnEnd
  <2>3. CASE ConnectionEnds(a)
    BY <2>3 DEF IInv, Crew, ConnectionEnds
  <2>4. CASE OnDisconnect(a)
    BY <2>4 DEF IInv, Crew, OnDisconnect
  <2> QED
    BY <2>1, <2>2, <2>3, <2>4
<1>5. Aside
  BY <1>1, <1>3 DEF IInv, Mail, Aside
<1> QED
  BY <1>1, <1>3, <1>4, <1>5, AsideKeeps

\* A command is begun, goes on or ends and has no work to send.
LEMMA CommandKeeps ==
  ASSUME IInv, Aside, Pauses', Crew', do' \in [op : Ops, todo : Seq(MessageSet), failed : BOOLEAN],
         \A i \in DOMAIN do'.todo : Fits(do'.op, do'.todo[i]) /\ do'.todo[i].kind # "claimed",
         do.op \notin {"cancel", "continue", "task"} \/ do'.todo = do.todo
  PROVE  IInv'
<1>1. Mail'
  BY DEF IInv, Mail, Aside
<1>2. \A a \in Agents : ~Claiming(a)'
  <2>1. do'.todo # <<>> => 1 \in DOMAIN do'.todo /\ Head(do'.todo) = do'.todo[1]
    OBVIOUS
  <2> QED
    BY <2>1 DEF Claiming
<1>3. Claims'
  BY <1>2 DEF IInv, Claims, Queued, Aside
<1>4. Carried(ToSet(do.todo)) = {} \/ do'.todo = do.todo
  BY DEF IInv, Mail, Fits, Carried, ToSet
<1>5. Everywhere \subseteq Everywhere'
  BY <1>4 DEF Everywhere, Aside, Carried
<1> QED
  BY <1>1, <1>3, <1>5, StaysKept DEF IInv, Aside

\* A process is launched: at once when the old one has exited, or in its place.
LEMMA LaunchKeeps ==
  ASSUME IInv, NEW a \in Agents, Restart(a) \/ Replace(a)
  PROVE  IInv'
<1>1. Launch(a) /\ UNCHANGED <<setup, held, sends, got, gone, resumes, attempted, count, saved, saver>>
  BY DEF Restart, Replace, resumeVars, diskVars
<1>2. Pauses' /\ Aside
  <2>1. RefreshPause(a)
    BY <1>1 DEF Launch
  <2> QED
    BY <1>1, <2>1, RefreshKeeps DEF IInv, Mail, Aside
<1>3. Crew'
  <2>1. /\ proc' = [proc EXCEPT ![a] = "running"] /\ working' = [working EXCEPT ![a] = FALSE]
        /\ unread' = [unread EXCEPT ![a] = FALSE]
        /\ link' = IF link[a] = "up" THEN [link EXCEPT ![a] = "dead"] ELSE link
    BY <1>1 DEF Launch
  <2> QED
    BY <2>1 DEF IInv, Crew
<1>4. /\ do' \in [op : Ops, todo : Seq(MessageSet), failed : BOOLEAN]
      /\ \A i \in DOMAIN do'.todo : Fits(do'.op, do'.todo[i]) /\ do'.todo[i].kind # "claimed"
      /\ do.op \notin {"cancel", "continue", "task"}
  <2>1. CASE Restart(a)
    <3> DEFINE m == Message(a, "reset", {})
    <3>1. m \in MessageSet /\ m.kind = "reset" /\ m.work = {}
      BY MessageIs DEF Kinds
    <3>2. do' = [op |-> "replaced", todo |-> <<m>>, failed |-> FALSE] /\ do.op = "none"
      BY <2>1 DEF Restart, Begin
    <3> HIDE DEF m
    <3> QED
      BY <3>1, <3>2 DEF Ops, Fits
  <2>2. CASE Replace(a)
    <3>1. do' = [do EXCEPT !.op = "replaced"] /\ do.op = "switch"
      BY <2>2 DEF Replace
    <3>2. do \in [op : Ops, todo : Seq(MessageSet), failed : BOOLEAN]
          /\ \A i \in DOMAIN do.todo : Fits(do.op, do.todo[i])
      BY DEF IInv, Mail
    <3> QED
      BY <3>1, <3>2 DEF Ops, Fits
  <2> QED
    BY <1>1, <2>1, <2>2 DEF Restart, Replace
<1> QED
  BY <1>2, <1>3, <1>4, CommandKeeps

\* The other commands that begin or end with no work to send.
LEMMA BeginKeeps ==
  ASSUME IInv, NEW a \in Agents,
         BeginDriverSwitch(a) \/ Replaced(a) \/ RequestResumeWork \/ DoDone
  PROVE  IInv'
<1>1. /\ UNCHANGED <<setup, held, sends, got, gone, resumes, attempted, pause, paused, emits,
                     saved, saver, link, proc, working, unread>>
      /\ count' \in Counts /\ count'.works = count.works
  <2>1. CASE BeginDriverSwitch(a)
    <3>1. Spend("switches") /\ count \in Counts
      BY <2>1 DEF BeginDriverSwitch, IInv, Mail
    <3> QED
      BY <2>1, <3>1, SpendIs DEF BeginDriverSwitch, pauseVars, resumeVars, agentVars, diskVars, ghosts
  <2>2. CASE Replaced(a) \/ RequestResumeWork \/ DoDone
    BY <2>2 DEF Replaced, RequestResumeWork, DoDone, pauseVars, resumeVars, agentVars, diskVars,
                ghosts, IInv, Mail
  <2> QED
    BY <2>1, <2>2
<1>2. Pauses' /\ Aside /\ Crew'
  BY <1>1 DEF IInv, Pauses, Snapshots, PauseSnapshot, Aside, Crew
<1>3. /\ do' \in [op : Ops, todo : Seq(MessageSet), failed : BOOLEAN]
      /\ \A i \in DOMAIN do'.todo : Fits(do'.op, do'.todo[i]) /\ do'.todo[i].kind # "claimed"
      /\ do.op \notin {"cancel", "continue", "task"} \/ do'.todo = do.todo
  <2>1. CASE BeginDriverSwitch(a)
    <3> DEFINE m == Message(a, "reset", {})
    <3>1. m \in MessageSet /\ m.kind = "reset" /\ m.work = {}
      BY MessageIs DEF Kinds
    <3>2. do' = [op |-> "switch", todo |-> <<m>>, failed |-> FALSE] /\ do.op = "none"
      BY <2>1 DEF BeginDriverSwitch, Begin
    <3> HIDE DEF m
    <3> QED
      BY <3>1, <3>2 DEF Ops, Fits
  <2>2. CASE RequestResumeWork
    <3> DEFINE m == [i \in 1..2 |-> Message(AgentOrder[i], "resume", {})]
    <3>1. ASSUME NEW i \in 1..2 PROVE m[i] \in MessageSet /\ m[i].kind = "resume" /\ m[i].work = {}
      <4>1. AgentOrder[i] \in Agents
        BY DEF AgentOrder
      <4> QED
        BY <4>1, MessageIs DEF Kinds
    <3>2. m \in Seq(MessageSet) /\ DOMAIN m = 1..2
      BY <3>1
    <3>3. do' = [op |-> "resume", todo |-> m, failed |-> FALSE] /\ do.op = "none"
      BY <2>2 DEF RequestResumeWork, Begin
    <3> HIDE DEF m
    <3> QED
      BY <3>1, <3>2, <3>3 DEF Ops, Fits
  <2>3. CASE Replaced(a) \/ DoDone
    <3>1. do' = NoCommand /\ (do.op = "replaced" \/ do.todo = <<>>)
      BY <2>3 DEF Replaced, DoDone
    <3> QED
      BY <3>1 DEF NoCommand, Ops
  <2> QED
    BY <2>1, <2>2, <2>3
<1> QED
  BY <1>2, <1>3, CommandKeeps

\* The pause is recorded.
LEMMA DiskKeeps ==
  ASSUME IInv, (\E t \in emits : EmitPause(t)) \/ Compose \/ WriteComposed
  PROVE  IInv'
<1>1. UNCHANGED <<setup, held, sends, got, gone, resumes, attempted, pause, paused,
                  link, proc, working, unread, do>>
  BY DEF EmitPause, Compose, WriteComposed, pauseVars, resumeVars, agentVars, ghosts
<1>2. count' \in Counts /\ count'.works = count.works
  <2>1. count \in Counts
    BY DEF IInv, Mail
  <2>2. CASE Compose
    BY <2>1, <2>2, SpendIs DEF Compose
  <2> QED
    BY <2>1, <2>2 DEF EmitPause, WriteComposed
<1>3. Pauses'
  <2>1. CASE \E t \in emits : EmitPause(t)
    BY <2>1, <1>1 DEF EmitPause, IInv, Pauses, PauseSnapshot
  <2>2. CASE Compose
    BY <2>2, <1>1 DEF Compose, IInv, Pauses, PauseSnapshot
  <2>3. CASE WriteComposed
    <3>1. saved' \in saver
      BY <2>3 DEF WriteComposed
    <3> QED
      BY <2>3, <3>1, <1>1 DEF WriteComposed, IInv, Pauses, PauseSnapshot
  <2> QED
    BY <2>1, <2>2, <2>3
<1>4. Aside /\ Crew'
  BY <1>1, <1>2 DEF Aside, IInv, Crew
<1> QED
  BY <1>1, <1>3, <1>4, AsideKeeps

----------------------------------------------------------------------------
(***************************************************************************)
(* The pause begins and ends, and work is handed over.                     *)
(***************************************************************************)
LEMMA SetPauseKeeps == ASSUME IInv, SetPause PROVE IInv'
<1>1. UNCHANGED <<setup, held, sends, got, gone, resumes, attempted, saved, saver,
                  link, proc, working, unread>>
      /\ Spend("pauses") /\ Begin("pause", <<>>)
  BY DEF SetPause, resumeVars, agentVars, diskVars, ghosts
<1>2. Aside /\ Crew'
  <2>1. count \in Counts
    BY DEF IInv, Mail
  <2>2. pause = "running"
    BY DEF SetPause
  <2> QED
    BY <1>1, <2>1, <2>2, SpendIs DEF Aside, IInv, Crew
<1>3. Pauses'
  <2> DEFINE idle == [a \in Agents |-> isIdle(a)]
  <2>1. \A a \in Agents : isIdle(a) \in BOOLEAN
    BY DEF isIdle
  <2>2. idle \in [Agents -> BOOLEAN] /\ ((\A a \in Agents : isIdle(a)) => idle = Both(TRUE))
    BY <2>1 DEF Both
  <2>3. paused' = idle /\ pause' = (IF \A a \in Agents : isIdle(a) THEN "paused" ELSE "pausing")
        /\ emits' = emits \cup {"do"}
    BY DEF SetPause
  <2> HIDE DEF idle
  <2> QED
    BY <1>1, <2>2, <2>3 DEF IInv, Pauses, Snapshots, PauseSnapshot, States
<1>4. do' = [op |-> "pause", todo |-> <<>>, failed |-> FALSE] /\ do.op = "none"
  BY <1>1 DEF Begin
<1>5. /\ do' \in [op : Ops, todo : Seq(MessageSet), failed : BOOLEAN]
      /\ \A i \in DOMAIN do'.todo : Fits(do'.op, do'.todo[i]) /\ do'.todo[i].kind # "claimed"
      /\ do.op \notin {"cancel", "continue", "task"}
  BY <1>4 DEF Ops
<1> QED
  BY <1>2, <1>3, <1>5, CommandKeeps

\* The pause is over: the new command has what was held.
LEMMA LetGoKeeps ==
  ASSUME IInv, do.op = "none", pause' = "running", paused' = Both(FALSE), held' = <<>>,
         emits' = emits \cup {"do"},
         do' \in [op : Ops, todo : Seq(MessageSet), failed : BOOLEAN],
         \A i \in DOMAIN do'.todo : Fits(do'.op, do'.todo[i]) /\ do'.todo[i].kind # "claimed",
         Carried(ToSet(held)) \subseteq Carried(ToSet(do'.todo)),
         UNCHANGED <<setup, attempted, agentVars, diskVars, sends, count, got, gone, resumes>>
  PROVE  IInv'
<1>1. Pauses' /\ Crew'
  BY DEF IInv, Pauses, Snapshots, PauseSnapshot, States, Crew, agentVars, diskVars, Both
<1>2. Mail'
  BY DEF IInv, Mail
<1>3. \A a \in Agents : ~Claiming(a)'
  <2>1. do'.todo # <<>> => 1 \in DOMAIN do'.todo /\ Head(do'.todo) = do'.todo[1]
    OBVIOUS
  <2> QED
    BY <2>1 DEF Claiming
<1>4. Claims'
  BY <1>3 DEF IInv, Claims, Queued
<1>5. ToSet(do.todo) = {}
  BY DEF IInv, Mail, Fits, ToSet
<1>6. Everywhere \subseteq Everywhere'
  BY <1>5, CarriedIs DEF Everywhere
<1> QED
  BY <1>1, <1>2, <1>4, <1>6, StaysKept DEF IInv

LEMMA CancelPauseKeeps == ASSUME IInv, CancelPause PROVE IInv'
<1>1. do' = [op |-> "cancel", todo |-> held, failed |-> FALSE] /\ do.op = "none"
  BY DEF CancelPause, Begin
<1>2. /\ do' \in [op : Ops, todo : Seq(MessageSet), failed : BOOLEAN]
      /\ \A i \in DOMAIN do'.todo : Fits(do'.op, do'.todo[i]) /\ do'.todo[i].kind # "claimed"
  BY <1>1 DEF Ops, IInv, Mail, Fits
<1>3. UNCHANGED <<setup, attempted, agentVars, diskVars, sends, count, got, gone, resumes>>
      /\ pause' = "running" /\ paused' = Both(FALSE) /\ held' = <<>> /\ emits' = emits \cup {"do"}
  BY DEF CancelPause, resumeVars
<1> QED
  BY <1>1, <1>2, <1>3, LetGoKeeps

\* What was held for either agent is in the summary it is sent.
LEMMA ContinuePauseKeeps == ASSUME IInv, ContinuePause PROVE IInv'
<1> DEFINE m(a) == Message(a, "continue", Summary(a))
           t == [i \in 1..2 |-> m(AgentOrder[i])]
<1>1. do' = [op |-> "continue", todo |-> t, failed |-> FALSE] /\ do.op = "none"
  BY DEF ContinuePause, Begin
<1>2. \A x \in ToSet(held) : x.to \in Agents /\ x.work \in SUBSET Nat
  <2> SUFFICES ASSUME NEW i \in DOMAIN held PROVE held[i].to \in Agents /\ held[i].work \in SUBSET Nat
    BY DEF ToSet
  <2>1. held[i] \in MessageSet
    BY ToSetIs DEF IInv, Mail
  <2> QED
    BY <2>1 DEF MessageSet
<1>3. ASSUME NEW a \in Agents PROVE m(a) \in MessageSet /\ m(a).kind = "continue" /\ m(a).work = Summary(a)
  <2>1. Summary(a) \in SUBSET Nat
    BY <1>2 DEF Summary, Carried
  <2> QED
    BY <2>1, MessageIs DEF Kinds
<1> HIDE DEF m
<1>4. t = <<m("Austin"), m("Tony")>>
  BY DEF AgentOrder
<1> HIDE DEF t
<1>5. /\ do' \in [op : Ops, todo : Seq(MessageSet), failed : BOOLEAN]
      /\ \A i \in DOMAIN do'.todo : Fits(do'.op, do'.todo[i]) /\ do'.todo[i].kind # "claimed"
  BY <1>1, <1>3, <1>4 DEF Ops, Fits
<1>6. Carried(ToSet(held)) \subseteq Carried(ToSet(do'.todo))
  <2>1. ToSet(do'.todo) = {m("Austin")} \cup {m("Tony")}
    BY <1>1, <1>4, ToSetShort
  <2>2. Carried(ToSet(do'.todo)) = Summary("Austin") \cup Summary("Tony")
    <3>1. Carried(ToSet(do'.todo)) = Carried({m("Austin")}) \cup Carried({m("Tony")})
      BY <2>1, CarriedIs
    <3>2. Carried({m("Austin")}) = m("Austin").work /\ Carried({m("Tony")}) = m("Tony").work
      BY CarriedIs
    <3> QED
      BY <3>1, <3>2, <1>3
  <2> QED
    BY <1>2, <2>2 DEF Summary, Carried
<1>7. UNCHANGED <<setup, attempted, agentVars, diskVars, sends, count, got, gone, resumes>>
      /\ pause' = "running" /\ paused' = Both(FALSE) /\ held' = <<>> /\ emits' = emits \cup {"do"}
  BY DEF ContinuePause
<1> QED
  BY <1>1, <1>5, <1>6, <1>7, LetGoKeeps

\* The human's task is with the command.
LEMMA SubmitUserTaskKeeps == ASSUME IInv, SubmitUserTask PROVE IInv'
<1> DEFINE w == {count'.works}
           m == Message("Austin", "work", w)
<1>1. count \in Counts /\ Spend("works")
  BY DEF IInv, Mail, SubmitUserTask
<1>2. count' \in Counts /\ count'.works = count.works + 1 /\ count'.works \in Nat
  BY <1>1, SpendIs DEF Counts
<1>3. UNCHANGED <<pauseVars, attempted, agentVars, diskVars, sends, emits, setup, got, gone, resumes>>
      /\ do.op = "none" /\ do' = [op |-> "task", todo |-> <<m>>, failed |-> FALSE]
  BY DEF SubmitUserTask, Begin, ghosts
<1>4. m \in MessageSet /\ m.kind = "work" /\ m.work = w
  BY <1>2, MessageIs DEF Kinds
<1> HIDE DEF m
<1>5. Pauses' /\ Crew'
  BY <1>3 DEF IInv, Pauses, Snapshots, PauseSnapshot, Crew, agentVars, diskVars, pauseVars
<1>6. Mail'
  BY <1>2, <1>3, <1>4 DEF IInv, Mail, pauseVars, Ops, Fits
<1>7. Claims'
  BY <1>3, <1>4 DEF IInv, Claims, Queued, Claiming
<1>8. ToSet(do.todo) = {}
  BY <1>3 DEF IInv, Mail, Fits, ToSet
<1>9. Carried(ToSet(do'.todo)) = w
  BY <1>3, <1>4, ToSetShort, CarriedIs
<1>10. Everywhere \subseteq Everywhere' /\ count'.works \in Everywhere'
  BY <1>3, <1>8, <1>9, CarriedIs DEF Everywhere, pauseVars
<1> QED
  BY <1>1, <1>2, <1>5, <1>6, <1>7, <1>10, NextIsKept DEF IInv

\* A message of a peer is held or on its way.
LEMMA SendKeeps == ASSUME IInv, NEW a \in Agents, Send(a) PROVE IInv'
<1> DEFINE w == {count'.works}
           m == Message(a, "work", w)
<1>1. count \in Counts /\ Spend("works")
  BY DEF IInv, Mail, Send
<1>2. count' \in Counts /\ count'.works = count.works + 1 /\ count'.works \in Nat
  BY <1>1, SpendIs DEF Counts
<1>3. UNCHANGED <<pause, paused, attempted, agentVars, diskVars, do, emits, setup, got, gone, resumes>>
      /\ \/ pause # "running" /\ held' = Append(held, m) /\ UNCHANGED sends
         \/ sends' = sends \cup {m} /\ UNCHANGED held
  <2>1. Admission("work") = IF pause = "running" THEN "sent" ELSE "held"
    BY DEF Admission
  <2>2. Admission("work") = "held" => pause # "running"
    BY <2>1
  <2>3. UNCHANGED <<pause, paused, attempted, agentVars, diskVars, do, emits, setup, got, gone, resumes>>
    BY DEF Send, ghosts, resumeVars
  <2> HIDE DEF m
  <2> QED
    BY <2>2, <2>3 DEF Send, m
<1>4. m \in MessageSet /\ m.kind = "work" /\ m.work = w
  BY <1>2, MessageIs DEF Kinds
<1> HIDE DEF m
<1>5. Pauses' /\ Crew'
  BY <1>3 DEF IInv, Pauses, Snapshots, PauseSnapshot, Crew, agentVars, diskVars
<1>6. Claims'
  <2>1. \A b \in Agents : Queued(b)' => Queued(b)
    BY <1>3, <1>4, MessageIs DEF Queued
  <2> QED
    BY <1>3, <2>1 DEF IInv, Claims, Claiming
<1>7. held \in Seq(MessageSet) /\ sends \subseteq MessageSet
  BY DEF IInv, Mail
<1>8. CASE pause # "running" /\ held' = Append(held, m) /\ UNCHANGED sends
  <2>1. ToSet(held') = ToSet(held) \cup {m}
    BY <1>4, <1>7, <1>8, ToSetIs
  <2>2. held' \in Seq(MessageSet) /\ \A i \in DOMAIN held' : held'[i].kind = "work"
    <3>1. \A i \in DOMAIN held : held[i].kind = "work"
      BY DEF IInv, Mail
    <3> QED
      BY <1>4, <1>7, <1>8, <3>1
  <2>3. Mail'
    BY <1>2, <1>3, <1>8, <2>2 DEF IInv, Mail
  <2>4. Everywhere \subseteq Everywhere' /\ count'.works \in Everywhere'
    <3>1. Carried(ToSet(held')) = Carried(ToSet(held)) \cup Carried({m}) /\ Carried({m}) = w
      BY <1>4, <2>1, CarriedIs
    <3> QED
      BY <1>3, <1>8, <3>1 DEF Everywhere
  <2> QED
    BY <1>1, <1>2, <1>5, <1>6, <2>3, <2>4, NextIsKept DEF IInv
<1>9. CASE sends' = sends \cup {m} /\ UNCHANGED held
  <2>1. Mail'
    BY <1>2, <1>3, <1>4, <1>9 DEF IInv, Mail
  <2>2. Everywhere \subseteq Everywhere' /\ count'.works \in Everywhere'
    <3>1. Carried(sends') = Carried(sends) \cup Carried({m}) /\ Carried({m}) = w
      BY <1>4, <1>9, CarriedIs
    <3> QED
      BY <1>3, <1>9, <3>1 DEF Everywhere
  <2> QED
    BY <1>1, <1>2, <1>5, <1>6, <2>1, <2>2, NextIsKept DEF IInv
<1> QED
  BY <1>3, <1>8, <1>9

----------------------------------------------------------------------------
(***************************************************************************)
(* Messages go out.                                                        *)
(***************************************************************************)
\* Where a message ends up, when it is written.
LEMMA RouteIs == \A a : Route(a) \in {"reached", "lost", "refused"}
BY DEF Route

\* A goroutine writes its message.
LEMMA WriteKeeps == ASSUME IInv, NEW m \in sends, Write(m) PROVE IInv'
<1> DEFINE a == m.to
<1>1. /\ m \in MessageSet /\ a \in Agents /\ m.work \in SUBSET Nat
      /\ m.kind = "work" \/ (m.kind = "resume" /\ m = Message(a, "resume", {}))
  <2>1. m \in MessageSet /\ (m.kind = "work" \/ (m.kind = "resume" /\ m.work = {}))
    BY DEF IInv, Mail
  <2>2. a \in Agents /\ m.work \in SUBSET Nat
    BY <2>1 DEF MessageSet
  <2> QED
    BY <2>1, <2>2, MessageIs
<1>2. UNCHANGED <<setup, pause, paused, held, proc, link, working, do, saver, saved, emits, count>>
      /\ sends' = sends \ {m}
  BY DEF Write, pauseVars, diskVars
<1>3. /\ unread' \in {unread, [unread EXCEPT ![a] = TRUE]}
      /\ \/ got' = [got EXCEPT ![a] = @ \cup m.work] /\ gone' = gone
         \/ got' = got /\ gone' = gone \cup Carried({m})
      /\ resumes' = IF m.kind = "resume" /\ Route(a) = "reached"
                    THEN [resumes EXCEPT ![a] = @ + 1] ELSE resumes
      /\ attempted' = IF m.kind = "resume" /\ Route(a) = "refused"
                      THEN [attempted EXCEPT ![a] = FALSE] ELSE attempted
  BY DEF Write, Reach, Lose
<1> HIDE DEF a
<1>4. Pauses' /\ Crew'
  <2>1. unread' \in [Agents -> BOOLEAN]
    BY <1>1, <1>3 DEF IInv, Crew
  <2>2. Crew'
    BY <1>2, <2>1 DEF IInv, Crew
  <2> QED
    BY <1>2, <2>2 DEF IInv, Pauses, Snapshots, PauseSnapshot
<1>5. resumes \in [Agents -> {0, 1}] /\ attempted \in [Agents -> BOOLEAN] /\ got \in [Agents -> SUBSET Nat]
  BY DEF IInv, Mail
<1>6. m.kind = "resume" => Queued(a) /\ resumes[a] = 0 /\ ~Claiming(a) /\ attempted[a] /\ ~Queued(a)'
  BY <1>1, <1>2, <1>5 DEF IInv, Claims, Queued
<1>7. Mail'
  <2>1. resumes' \in [Agents -> {0, 1}] /\ attempted' \in [Agents -> BOOLEAN]
    BY <1>1, <1>3, <1>5, <1>6
  <2>2. got' \in [Agents -> SUBSET Nat]
    BY <1>1, <1>3, <1>5
  <2> QED
    BY <1>2, <2>1, <2>2 DEF IInv, Mail
<1>8. Claims'
  <2> SUFFICES ASSUME NEW b \in Agents
               PROVE  /\ ~(resumes'[b] = 1 /\ Queued(b)') /\ ~(resumes'[b] = 1 /\ Claiming(b))
                      /\ ~(Queued(b)' /\ Claiming(b))
                      /\ resumes'[b] = 1 \/ Queued(b)' \/ Claiming(b) => attempted'[b]
    BY <1>2 DEF Claims, Claiming
  <2>1. Queued(b)' => Queued(b)
    BY <1>2 DEF Queued
  <2>2. CASE b = a /\ m.kind = "resume"
    BY <1>3, <1>5, <1>6, <2>2, RouteIs
  <2>3. CASE ~(b = a /\ m.kind = "resume")
    <3>1. resumes'[b] = resumes[b] /\ attempted'[b] = attempted[b]
      BY <1>1, <1>3, <1>5, <2>3
    <3> QED
      BY <2>1, <3>1 DEF IInv, Claims
  <2> QED
    BY <2>2, <2>3
<1>9. Everywhere \subseteq Everywhere'
  <2>1. Carried(sends) \subseteq m.work \cup Carried(sends')
    BY <1>2 DEF Carried
  <2>2. m.work \cup gone \cup got["Austin"] \cup got["Tony"]
          \subseteq gone' \cup got'["Austin"] \cup got'["Tony"]
    BY <1>1, <1>3, <1>5, CarriedIs
  <2> QED
    BY <1>2, <2>1, <2>2 DEF Everywhere
<1> QED
  BY <1>2, <1>4, <1>7, <1>8, <1>9, StaysKept DEF IInv

\* A command sends the next message it has.
LEMMA DoSendKeeps == ASSUME IInv, DoSend PROVE IInv'
<1> DEFINE m == Head(do.todo)
           a == m.to
           t == Tail(do.todo)
<1>1. /\ do.todo # <<>> /\ do \in [op : Ops, todo : Seq(MessageSet), failed : BOOLEAN]
      /\ \A i \in DOMAIN do.todo : Fits(do.op, do.todo[i]) /\ (i > 1 => do.todo[i].kind # "claimed")
      /\ got \in [Agents -> SUBSET Nat]
      /\ resumes \in [Agents -> {0, 1}] /\ attempted \in [Agents -> BOOLEAN]
  BY DEF DoSend, IInv, Mail
<1>2. m \in MessageSet /\ t \in Seq(MessageSet) /\ ToSet(do.todo) = {m} \cup ToSet(t)
      /\ \A i \in DOMAIN t : Fits(do.op, t[i]) /\ t[i].kind # "claimed"
  <2>1. m \in MessageSet /\ t \in Seq(MessageSet) /\ ToSet(do.todo) = {m} \cup ToSet(t)
        /\ Len(t) = Len(do.todo) - 1 /\ \A i \in DOMAIN t : t[i] = do.todo[i + 1]
    BY <1>1, ToSetIs
  <2>2. \A i \in DOMAIN t : i + 1 \in DOMAIN do.todo /\ i + 1 > 1
    BY <1>1, <2>1
  <2> QED
    BY <1>1, <2>1, <2>2
<1>3. a \in Agents /\ m.work \in SUBSET Nat
  BY <1>2 DEF MessageSet
<1>4. UNCHANGED <<setup, pause, paused, held, proc, link, working, sends, saver, saved, emits, count>>
  BY DEF DoSend, pauseVars, diskVars
<1>5. /\ unread' \in {unread, [unread EXCEPT ![a] = TRUE]}
      /\ resumes' = IF m.kind = "claimed" /\ Route(a) = "reached"
                    THEN [resumes EXCEPT ![a] = @ + 1] ELSE resumes
      /\ attempted' = IF m.kind = "claimed" /\ Route(a) = "refused"
                      THEN [attempted EXCEPT ![a] = FALSE] ELSE attempted
  BY DEF DoSend, Reach
<1>6. \/ got' = [got EXCEPT ![a] = @ \cup m.work] /\ gone' = gone /\ do'.todo = t
      \/ got' = got /\ gone' = gone \cup Carried({m}) /\ do'.todo = t
      \/ got' = got /\ gone' = gone \cup Carried(ToSet(do.todo)) /\ do'.todo = <<>>
  <2>1. /\ Route(a) = "reached" => got' = [got EXCEPT ![a] = @ \cup m.work]
        /\ Route(a) # "reached" => got' = got
    BY DEF DoSend, Reach
  <2>2. \/ /\ do' = [do EXCEPT !.todo = <<>>] /\ gone' = gone \cup Carried(ToSet(do.todo))
           /\ Route(a) # "reached"
        \/ /\ do' = [do EXCEPT !.todo = Tail(@), !.failed = @ \/ Route(a) = "refused"]
           /\ gone' = gone \cup Carried(IF Route(a) = "reached" THEN {} ELSE {m})
    BY DEF DoSend, Lose
  <2> QED
    BY <1>1, <2>1, <2>2, CarriedIs
<1>7. do' \in [op : Ops, todo : Seq(MessageSet), failed : BOOLEAN] /\ do'.op = do.op
  <2>1. \/ do' = [do EXCEPT !.todo = <<>>]
        \/ do' = [do EXCEPT !.todo = Tail(@), !.failed = @ \/ Route(a) = "refused"]
    BY DEF DoSend
  <2>2. (do.failed \/ Route(a) = "refused") \in BOOLEAN
    BY <1>1
  <2> HIDE DEF m, a
  <2>3. CASE do' = [do EXCEPT !.todo = <<>>]
    <3>1. do' = [op |-> do.op, todo |-> <<>>, failed |-> do.failed]
      BY <1>1, <2>3
    <3>2. <<>> \in Seq(MessageSet)
      OBVIOUS
    <3>3. do.op \in Ops /\ do.failed \in BOOLEAN
      BY <1>1
    <3> HIDE DEF t
    <3> QED
      BY <3>1, <3>2, <3>3
  <2>4. CASE do' = [do EXCEPT !.todo = Tail(@), !.failed = @ \/ Route(a) = "refused"]
    <3>1. do' = [op |-> do.op, todo |-> t, failed |-> do.failed \/ Route(a) = "refused"]
      BY <1>1, <2>4
    <3> HIDE DEF t
    <3> QED
      BY <1>1, <1>2, <2>2, <3>1
  <2> QED
    BY <2>1, <2>3, <2>4
<1> HIDE DEF m, a, t
<1>8. Pauses' /\ Crew'
  <2>1. unread' \in [Agents -> BOOLEAN]
    BY <1>3, <1>5 DEF IInv, Crew
  <2>2. Crew'
    BY <1>4, <2>1 DEF IInv, Crew
  <2> QED
    BY <1>4, <2>2 DEF IInv, Pauses, Snapshots, PauseSnapshot
<1>9. m.kind = "claimed" => Claiming(a) /\ resumes[a] = 0 /\ ~Queued(a) /\ attempted[a]
  BY <1>1, <1>3 DEF IInv, Claims, Claiming, m, a
<1>10. Mail'
  <2>1. resumes' \in [Agents -> {0, 1}] /\ attempted' \in [Agents -> BOOLEAN]
    BY <1>1, <1>3, <1>5, <1>9
  <2>2. got' \in [Agents -> SUBSET Nat]
    BY <1>1, <1>3, <1>6
  <2>3. \A i \in DOMAIN do'.todo : Fits(do'.op, do'.todo[i]) /\ do'.todo[i].kind # "claimed"
    BY <1>2, <1>6, <1>7
  <2> QED
    BY <1>4, <1>7, <2>1, <2>2, <2>3 DEF IInv, Mail
<1>11. Claims'
  <2> SUFFICES ASSUME NEW b \in Agents
               PROVE  ~(resumes'[b] = 1 /\ Queued(b)) /\ (resumes'[b] = 1 \/ Queued(b) => attempted'[b])
    <3>1. \A b \in Agents : ~Claiming(b)'
      <4>1. do'.todo # <<>> => do'.todo = t /\ 1 \in DOMAIN t /\ Head(t) = t[1]
        BY <1>2, <1>6
      <4> QED
        BY <1>2, <4>1 DEF Claiming
    <3> QED
      BY <1>4, <3>1 DEF Claims, Queued
  <2>1. CASE b = a /\ m.kind = "claimed"
    BY <1>1, <1>5, <1>9, <2>1, RouteIs
  <2>2. CASE ~(b = a /\ m.kind = "claimed")
    <3>1. resumes'[b] = resumes[b] /\ attempted'[b] = attempted[b]
      BY <1>1, <1>3, <1>5, <2>2
    <3> QED
      BY <3>1 DEF IInv, Claims
  <2> QED
    BY <2>1, <2>2
<1>12. Everywhere \subseteq Everywhere'
  <2>1. Carried(ToSet(do.todo)) = m.work \cup Carried(ToSet(t))
    <3>1. Carried(ToSet(do.todo)) = Carried({m}) \cup Carried(ToSet(t)) /\ Carried({m}) = m.work
      BY <1>2, CarriedIs
    <3> QED
      BY <3>1
  <2>2. Carried(ToSet(do.todo)) \cup gone \cup got["Austin"] \cup got["Tony"]
          \subseteq gone' \cup got'["Austin"] \cup got'["Tony"] \cup Carried(ToSet(do'.todo))
    BY <1>1, <1>3, <1>6, <2>1, CarriedIs
  <2> QED
    BY <1>4, <2>2 DEF Everywhere
<1> QED
  BY <1>4, <1>8, <1>10, <1>11, <1>12, StaysKept DEF IInv

\* The resume command claims the prompt of the next agent, or passes over it.
LEMMA ResumeNextKeeps == ASSUME IInv, ResumeNext PROVE IInv'
<1> DEFINE a == Head(do.todo).to
           t == Tail(do.todo)
           m == Message(a, "claimed", {})
<1>1. /\ do \in [op : Ops, todo : Seq(MessageSet), failed : BOOLEAN]
      /\ \A i \in DOMAIN do.todo : Fits(do.op, do.todo[i]) /\ (i > 1 => do.todo[i].kind # "claimed")
      /\ resumes \in [Agents -> {0, 1}] /\ attempted \in [Agents -> BOOLEAN]
      /\ do.op = "resume" /\ do.todo # <<>> /\ Head(do.todo).kind = "resume"
  BY DEF ResumeNext, IInv, Mail
<1>2. UNCHANGED <<setup, pause, paused, held, proc, link, working, unread, sends, saver, saved, emits, count,
                  got, gone, resumes>>
  BY DEF ResumeNext, pauseVars, agentVars, diskVars, ghosts
<1>3. Head(do.todo) \in MessageSet /\ t \in Seq(MessageSet) /\ ToSet(do.todo) = {Head(do.todo)} \cup ToSet(t)
      /\ \A i \in DOMAIN t : Fits("resume", t[i]) /\ t[i].kind # "claimed"
  <2>1. Head(do.todo) \in MessageSet /\ t \in Seq(MessageSet)
        /\ ToSet(do.todo) = {Head(do.todo)} \cup ToSet(t)
        /\ Len(t) = Len(do.todo) - 1 /\ \A i \in DOMAIN t : t[i] = do.todo[i + 1]
    BY <1>1, ToSetIs
  <2>2. \A i \in DOMAIN t : i + 1 \in DOMAIN do.todo /\ i + 1 > 1
    BY <1>1, <2>1
  <2> QED
    BY <1>1, <2>1, <2>2
<1>4. a \in Agents
  BY <1>3 DEF MessageSet
<1>5. m \in MessageSet /\ m.to = a /\ m.kind = "claimed" /\ m.work = {}
  BY <1>4, MessageIs DEF Kinds
<1>6. \A x \in ToSet(do.todo) : x.work = {}
  BY <1>1 DEF Fits, ToSet
<1>7. Carried(ToSet(do.todo)) = {}
  BY <1>6 DEF Carried
<1>8. \/ do' = [do EXCEPT !.todo = <<m>> \o t] /\ attempted' = [attempted EXCEPT ![a] = TRUE] /\ ~attempted[a]
      \/ do' = [do EXCEPT !.todo = t] /\ attempted' = attempted
  BY DEF ResumeNext, CanClaim
<1> HIDE DEF m, t, a
<1>9. Pauses' /\ Crew'
  BY <1>2 DEF IInv, Pauses, Snapshots, PauseSnapshot, Crew
<1>10. Everywhere \subseteq Everywhere'
  BY <1>2, <1>7 DEF Everywhere
<1>11. CASE do' = [do EXCEPT !.todo = <<m>> \o t]
            /\ attempted' = [attempted EXCEPT ![a] = TRUE] /\ ~attempted[a]
  <2> DEFINE u == <<m>> \o t
  <2>1. u \in Seq(MessageSet) /\ u # <<>> /\ Head(u) = m
        /\ \A i \in DOMAIN u : u[i] = (IF i = 1 THEN m ELSE t[i - 1]) /\ (i # 1 => i - 1 \in DOMAIN t)
    <3>1. /\ u \in Seq(MessageSet) /\ u # <<>> /\ Len(u) = Len(t) + 1 /\ Head(u) = m
          /\ \A i \in 1 .. Len(u) : u[i] = IF i = 1 THEN m ELSE t[i - 1]
      BY <1>3, <1>5
    <3> HIDE DEF u
    <3>2. DOMAIN u = 1 .. Len(u) /\ DOMAIN t = 1 .. Len(t) /\ Len(t) \in Nat
      BY <1>3, <3>1
    <3>3. ASSUME NEW i \in DOMAIN u
          PROVE  u[i] = (IF i = 1 THEN m ELSE t[i - 1]) /\ (i # 1 => i - 1 \in DOMAIN t)
      <4>1. i \in 1 .. Len(u) /\ (i # 1 => i - 1 \in 1 .. Len(t))
        BY <3>1, <3>2
      <4> QED
        BY <3>1, <3>2, <4>1
    <3> QED
      BY <3>1, <3>3
  <2>2. \A i \in DOMAIN u : Fits("resume", u[i]) /\ (i > 1 => u[i].kind # "claimed")
    BY <1>3, <1>5, <2>1 DEF Fits
  <2>3. do'.todo = u /\ do'.op = "resume" /\ do' \in [op : Ops, todo : Seq(MessageSet), failed : BOOLEAN]
    <3> HIDE DEF u
    <3> QED
      BY <1>1, <1>11, <2>1 DEF u
  <2> HIDE DEF u
  <2>4. Mail'
    <3>1. attempted' \in [Agents -> BOOLEAN]
      BY <1>1, <1>4, <1>11
    <3>2. \A i \in DOMAIN do'.todo : Fits(do'.op, do'.todo[i]) /\ (i > 1 => do'.todo[i].kind # "claimed")
      BY <2>2, <2>3
    <3> QED
      BY <1>2, <2>3, <3>1, <3>2 DEF IInv, Mail
  <2>5. Claims'
    <3>1. resumes[a] = 0 /\ ~Queued(a)
      BY <1>1, <1>4, <1>11 DEF IInv, Claims
    <3>2. \A b \in Agents : Claiming(b)' <=> b = a
      BY <1>5, <2>1, <2>3 DEF Claiming
    <3>3. \A b \in Agents : attempted'[b] = (attempted[b] \/ b = a) /\ (Queued(b)' <=> Queued(b))
      BY <1>1, <1>2, <1>4, <1>11 DEF Queued
    <3> SUFFICES ASSUME NEW b \in Agents
                 PROVE  /\ ~(resumes[b] = 1 /\ Queued(b)) /\ ~(resumes[b] = 1 /\ b = a)
                        /\ ~(Queued(b) /\ b = a)
                        /\ resumes[b] = 1 \/ Queued(b) \/ b = a => attempted[b] \/ b = a
      BY <1>2, <3>2, <3>3 DEF Claims
    <3> QED
      BY <3>1 DEF IInv, Claims
  <2> QED
    BY <1>2, <1>9, <1>10, <2>4, <2>5, StaysKept DEF IInv
<1>12. CASE do' = [do EXCEPT !.todo = t] /\ attempted' = attempted
  <2>1. do'.todo = t /\ do'.op = "resume" /\ do' \in [op : Ops, todo : Seq(MessageSet), failed : BOOLEAN]
    BY <1>1, <1>3, <1>12
  <2>2. Mail'
    BY <1>2, <1>3, <1>12, <2>1 DEF IInv, Mail
  <2>3. \A b \in Agents : ~Claiming(b)'
    <3>1. t # <<>> => 1 \in DOMAIN t /\ Head(t) = t[1]
      BY <1>3
    <3> QED
      BY <1>3, <2>1, <3>1 DEF Claiming
  <2>4. Claims'
    BY <1>2, <1>12, <2>3 DEF IInv, Claims, Queued
  <2> QED
    BY <1>2, <1>9, <1>10, <2>2, <2>4, StaysKept DEF IInv
<1> QED
  BY <1>8, <1>11, <1>12

\* An agent connects and its prompt, if it has had none, is on its way.
LEMMA ConnectKeeps == ASSUME IInv, NEW a \in Agents, Connect(a) PROVE IInv'
<1> DEFINE m == Message(a, "resume", {})
<1>1. UNCHANGED <<setup, pause, paused, held, proc, working, unread, do, saver, saved, emits, count,
                  got, gone, resumes>>
      /\ link' = [link EXCEPT ![a] = "up"] /\ proc[a] = "running"
  BY DEF Connect, pauseVars, diskVars, ghosts
<1>2. \/ ~attempted[a] /\ attempted' = [attempted EXCEPT ![a] = TRUE] /\ sends' \in {sends, sends \cup {m}}
      \/ attempted' = attempted /\ sends' = sends
  BY DEF Connect, CanClaim
<1>3. m \in MessageSet /\ m.to = a /\ m.kind = "resume" /\ m.work = {}
  BY MessageIs DEF Kinds
<1>4. attempted \in [Agents -> BOOLEAN] /\ sends \subseteq MessageSet
  BY DEF IInv, Mail
<1>5. \A b \in Agents : b # a => (Queued(b)' => Queued(b))
  <2>1. \A b \in Agents : b # a => Message(b, "resume", {}) # m
    BY <1>3, MessageIs
  <2> QED
    BY <1>2, <2>1 DEF Queued
<1> HIDE DEF m
<1>6. Pauses' /\ Crew'
  <2>1. Crew'
    BY <1>1 DEF IInv, Crew
  <2> QED
    BY <1>1, <2>1 DEF IInv, Pauses, Snapshots, PauseSnapshot
<1>7. Mail'
  <2>1. attempted' \in [Agents -> BOOLEAN]
    BY <1>2, <1>4
  <2>2. sends' \subseteq MessageSet /\ \A x \in sends' : x.kind = "work" \/ (x.kind = "resume" /\ x.work = {})
    <3>1. \A x \in sends : x.kind = "work" \/ (x.kind = "resume" /\ x.work = {})
      BY DEF IInv, Mail
    <3> QED
      BY <1>2, <1>3, <1>4, <3>1
  <2> QED
    BY <1>1, <2>1, <2>2 DEF IInv, Mail
<1>8. Everywhere \subseteq Everywhere'
  <2>1. Carried(sends) \subseteq Carried(sends')
    BY <1>2 DEF Carried
  <2> QED
    BY <1>1, <2>1 DEF Everywhere
<1>9. Claims'
  <2>1. CASE ~attempted[a] /\ attempted' = [attempted EXCEPT ![a] = TRUE]
    <3>1. resumes[a] # 1 /\ ~Claiming(a) /\ attempted'[a]
      BY <1>4, <2>1 DEF IInv, Claims
    <3>2. \A b \in Agents : b # a => attempted'[b] = attempted[b]
      BY <1>4, <2>1
    <3>3. \A b \in Agents : Claiming(b)' <=> Claiming(b)
      BY <1>1 DEF Claiming
    <3> QED
      BY <1>1, <1>5, <3>1, <3>2, <3>3 DEF IInv, Claims
  <2>2. CASE attempted' = attempted /\ sends' = sends
    BY <1>1, <2>2 DEF IInv, Claims, Queued, Claiming
  <2> QED
    BY <1>2, <2>1, <2>2
<1> QED
  BY <1>1, <1>6, <1>7, <1>8, <1>9, StaysKept DEF IInv

\* Duo stops and is resumed.
LEMMA RestartsKeeps == ASSUME IInv, DuoRestarts PROVE IInv'
<1>1. /\ settled' = Both(TRUE) /\ held' = <<>> /\ attempted' = Both(FALSE)
      /\ proc' = Both("running") /\ link' = Both("none") /\ unread' = Both(FALSE) /\ working' = Both(FALSE)
      /\ do' = NoCommand /\ sends' = {} /\ emits' = {} /\ saver' = {} /\ resumes' = Both(0)
      /\ UNCHANGED <<setup, got>>
  BY DEF DuoRestarts
<1>2. count' \in Counts /\ count'.works = count.works
  <2>1. count \in Counts /\ Spend("restarts")
    BY DEF IInv, Mail, DuoRestarts
  <2> QED
    BY <2>1, SpendIs
<1>3. Pauses'
  <2>1. /\ pause' = IF saved.state # "running" THEN "paused" ELSE "running"
        /\ paused' = IF saved.state = "paused" THEN saved.paused ELSE Both(saved.state # "running")
        /\ saved' = [state |-> pause', paused |-> paused']
    BY DEF DuoRestarts, RestorePause
  <2>2. paused' = Both(pause' = "paused") /\ pause' \in {"running", "paused"}
    BY <2>1 DEF IInv, Pauses, Snapshots, Both
  <2>3. Both(TRUE) \in [Agents -> BOOLEAN] /\ Both(FALSE) \in [Agents -> BOOLEAN]
    BY DEF Both
  <2> QED
    BY <1>1, <2>1, <2>2, <2>3 DEF Pauses, Snapshots, PauseSnapshot, States
<1>4. Crew'
  BY <1>1 DEF Crew, Both
<1>5. Mail'
  BY <1>1, <1>2 DEF IInv, Mail, NoCommand, Both, Ops
<1>6. Claims'
  BY <1>1 DEF Claims, Queued, Claiming, NoCommand, Both
<1>7. Everywhere \subseteq Everywhere'
  <2>1. gone' = gone \cup Carried(sends \cup ToSet(held) \cup ToSet(do.todo))
    BY DEF DuoRestarts, Lose
  <2>2. gone' = gone \cup Carried(sends) \cup Carried(ToSet(held)) \cup Carried(ToSet(do.todo))
    <3>1. Carried(sends \cup ToSet(held) \cup ToSet(do.todo))
            = Carried(sends \cup ToSet(held)) \cup Carried(ToSet(do.todo))
      BY CarriedIs
    <3>2. Carried(sends \cup ToSet(held)) = Carried(sends) \cup Carried(ToSet(held))
      BY CarriedIs
    <3> QED
      BY <2>1, <3>1, <3>2
  <2> QED
    BY <1>1, <2>2 DEF Everywhere
<1> QED
  BY <1>2, <1>3, <1>4, <1>5, <1>6, <1>7, StaysKept DEF IInv

----------------------------------------------------------------------------
(***************************************************************************)
(* The invariant, and what it says of a message.                           *)
(***************************************************************************)
LEMMA InitInv == Init => IInv
<1> SUFFICES ASSUME Init PROVE IInv
  OBVIOUS
<1>1. Pauses /\ Crew
  BY DEF Init, Pauses, Snapshots, PauseSnapshot, States, Both, Crew
<1>2. Mail
  BY DEF Init, Mail, NoCommand, Both, Ops, Counts
<1>3. Claims
  BY DEF Init, Claims, Queued, Claiming, NoCommand, Both
<1>4. Kept
  BY DEF Init, Kept
<1> QED
  BY <1>1, <1>2, <1>3, <1>4 DEF IInv

\* Every step keeps it.
LEMMA StepInv == IInv /\ [Next]_vars => IInv'
<1> SUFFICES ASSUME IInv, [Next]_vars PROVE IInv'
  OBVIOUS
<1>1. CASE Command
  BY <1>1, SetPauseKeeps, CancelPauseKeeps, ContinuePauseKeeps, SubmitUserTaskKeeps, BeginKeeps, LaunchKeeps
     DEF Command
<1>2. CASE Progress
  BY <1>2, ResumeNextKeeps, DoSendKeeps, BeginKeeps, LaunchKeeps DEF Progress
<1>3. CASE \E a \in Agents : \/ Send(a) \/ Exit(a) \/ Connect(a) \/ ConnectionEnds(a) \/ OnDisconnect(a)
                             \/ TurnStart(a) \/ TurnEnd(a)
  BY <1>3, SendKeeps, ExitKeeps, ConnectKeeps, TurnKeeps
<1>4. CASE \E m \in sends : Write(m)
  BY <1>4, WriteKeeps
<1>5. CASE (\E t \in emits : EmitPause(t)) \/ Compose \/ WriteComposed
  BY <1>5, DiskKeeps
<1>6. CASE DuoRestarts
  BY <1>6, RestartsKeeps
<1>7. CASE UNCHANGED vars
  <2>1. Aside /\ Pauses' /\ Crew' /\ do' = do
    BY <1>7 DEF vars, pauseVars, resumeVars, agentVars, diskVars, ghosts, IInv, Mail, Aside, Pauses,
                Snapshots, PauseSnapshot, Crew
  <2> QED
    BY <2>1, AsideKeeps
<1> QED
  BY <1>1, <1>2, <1>3, <1>4, <1>5, <1>6, <1>7 DEF Next

\* The pause and its file, the agents, the messages, the claims of the resume prompts and
\* the places of the work keep to what Coordinator's handlers rely on, in every order of
\* commands, goroutines, connections, exits and restarts.
THEOREM MessagesInvariant == Spec => []IInv
<1> QED
  BY InitInv, StepInv, PTL DEF Spec

\* No work accepted by sendToAgent or SubmitUserTask disappears in a pause, a cancelled
\* pause or a continue, and no agent has its resume prompt twice, whatever the number of
\* messages, pauses, exits, driver switches and restarts.
THEOREM HeldIsKeptHolds == Spec => []HeldIsKept
<1>1. IInv => HeldIsKept
  <2> SUFFICES ASSUME IInv PROVE HeldIsKept
    OBVIOUS
  <2>1. TypeOK
    BY DEF IInv, Pauses, Snapshots, PauseSnapshot, States, Crew, Mail, TypeOK
  <2>2. OneResumePrompt
    BY DEF IInv, Mail, OneResumePrompt
  <2>3. Everywhere = gone \cup got["Austin"] \cup got["Tony"]
                       \cup Carried(sends \cup ToSet(held) \cup ToSet(do.todo))
    <3>1. Carried(sends \cup ToSet(held) \cup ToSet(do.todo))
            = Carried(sends \cup ToSet(held)) \cup Carried(ToSet(do.todo))
      BY CarriedIs
    <3>2. Carried(sends \cup ToSet(held)) = Carried(sends) \cup Carried(ToSet(held))
      BY CarriedIs
    <3> QED
      BY <3>1, <3>2 DEF Everywhere
  <2>4. 1 .. count.works \subseteq Everywhere
    BY DEF IInv, Kept
  <2> QED
    BY <2>1, <2>2, <2>3, <2>4 DEF HeldIsKept
<1> QED
  BY <1>1, MessagesInvariant, PTL

----------------------------------------------------------------------------
(***************************************************************************)
(* The pause the human was told of.  It is in the file before the command  *)
(* that asked for it returns, because that command waits for its own       *)
(* record; from then on only the human ends it, and every later record     *)
(* reads the pause again.  What Asked says of the file fails as soon as    *)
(* another save of the session composes its state before the pause and     *)
(* writes it afterwards, so that the theorem is about sessions in which no *)
(* such save runs into a restart.                                          *)
(***************************************************************************)
SavesApart == \A s \in Setups : s.saves = 0 \/ s.restarts = 0

Asked ==
  /\ asked \/ do.op = "pause" => pause # "running"
  /\ setup.saves = 0 => /\ saver = {}
                        /\ asked \/ (do.op = "pause" /\ "do" \notin emits) => saved.state # "running"

\* A step that is not about the pause of the human.
Unasked ==
  /\ UNCHANGED <<setup, asked, saved>>
  /\ setup.saves = 0 => saver' = saver
  /\ pause' = "running" => pause = "running"
  /\ do'.op = "pause" => do.op = "pause"
  /\ "do" \in emits => "do" \in emits'

\* Such a step changes nothing of what Asked says.
LEMMA UnaskedKeeps == Asked /\ Unasked => Asked'
BY DEF Asked, Unasked

\* The steps that move a pause by the activity of an agent, or do not move it.
LEMMA UnaskedSteps ==
  ASSUME IInv,
         \/ SubmitUserTask \/ RequestResumeWork \/ ResumeNext \/ DoSend \/ Compose \/ UNCHANGED vars
         \/ \E m \in sends : Write(m)
         \/ \E a \in Agents : \/ Restart(a) \/ BeginDriverSwitch(a) \/ Replace(a) \/ Replaced(a)
                              \/ Send(a) \/ Exit(a) \/ Connect(a) \/ ConnectionEnds(a) \/ OnDisconnect(a)
                              \/ TurnStart(a) \/ TurnEnd(a)
  PROVE  Unasked
<1> USE DEF Unasked
<1>1. do \in [op : Ops, todo : Seq(MessageSet), failed : BOOLEAN] /\ count \in Counts /\ Pauses
  BY DEF IInv, Mail
<1>2. CASE SubmitUserTask \/ RequestResumeWork
  BY <1>2 DEF SubmitUserTask, RequestResumeWork, Begin, pauseVars, diskVars, ghosts
<1>3. CASE ResumeNext
  BY <1>1, <1>3 DEF ResumeNext, pauseVars, diskVars, ghosts
<1>4. CASE DoSend
  <2>1. UNCHANGED <<setup, asked, saved, saver, pause, emits>>
    BY <1>4 DEF DoSend, pauseVars, diskVars
  <2>2. do'.op = do.op
    BY <1>1, <1>4 DEF DoSend
  <2> QED
    BY <2>1, <2>2
<1>5. CASE Compose
  <2>1. UNCHANGED <<setup, asked, saved, pause, emits, do>> /\ Spend("saves")
    BY <1>5 DEF Compose, pauseVars, ghosts
  <2>2. setup.saves # 0
    BY <1>1, <2>1, SpendIs
  <2> QED
    BY <2>1, <2>2
<1>6. CASE UNCHANGED vars
  BY <1>6 DEF vars, pauseVars, diskVars, ghosts
<1>7. CASE \E m \in sends : Write(m)
  BY <1>7 DEF Write, pauseVars, diskVars
<1>8. ASSUME NEW a \in Agents,
             Restart(a) \/ Replace(a) \/ Exit(a) \/ TurnStart(a) \/ TurnEnd(a)
      PROVE  Unasked
  <2>1. RefreshPause(a) /\ UNCHANGED <<setup, asked, saved, saver>>
    BY <1>8 DEF Restart, Replace, Launch, Exit, TurnStart, TurnEnd, diskVars, ghosts
  <2>2. do'.op = "pause" => do.op = "pause"
    BY <1>1, <1>8 DEF Restart, Replace, Begin, Exit, TurnStart, TurnEnd
  <2>3. emits \subseteq emits'
    BY <2>1 DEF RefreshPause
  <2> QED
    BY <1>1, <2>1, <2>2, <2>3, RefreshKeeps
<1>9. ASSUME NEW a \in Agents,
             \/ BeginDriverSwitch(a) \/ Replaced(a) \/ Send(a) \/ Connect(a)
             \/ ConnectionEnds(a) \/ OnDisconnect(a)
      PROVE  Unasked
  <2>1. UNCHANGED <<setup, asked, saved, saver, pause, emits>>
    BY <1>9 DEF BeginDriverSwitch, Replaced, Send, Connect, ConnectionEnds, OnDisconnect, pauseVars,
                diskVars, ghosts
  <2>2. do'.op = "pause" => do.op = "pause"
    BY <1>1, <1>9 DEF BeginDriverSwitch, Begin, Replaced, NoCommand, Send, Connect, ConnectionEnds,
                      OnDisconnect
  <2> QED
    BY <2>1, <2>2
<1> QED
  BY <1>2, <1>3, <1>4, <1>5, <1>6, <1>7, <1>8, <1>9

\* The pause begins, ends, is recorded, and is read by the next start.
LEMMA AskedStep ==
  ASSUME SavesApart, IInv, Asked, [Next]_vars
  PROVE  Asked'
<1>1. count \in Counts /\ setup \in Setups
  BY DEF IInv, Mail
<1>2. CASE SetPause
  <2>1. UNCHANGED <<setup, asked, saved, saver>> /\ "do" \in emits' /\ pause = "running" /\ pause' # "running"
    BY <1>2 DEF SetPause, diskVars, ghosts
  <2> QED
    BY <2>1 DEF Asked
<1>3. CASE CancelPause \/ ContinuePause
  <2>1. UNCHANGED <<setup, saved, saver>> /\ asked' = FALSE /\ do'.op # "pause"
    <3>1. CASE CancelPause
      BY <3>1 DEF CancelPause, Begin, diskVars
    <3>2. CASE ContinuePause
      <4>1. Begin("continue", [i \in 1..2 |-> Message(AgentOrder[i], "continue", Summary(AgentOrder[i]))])
        BY <3>2 DEF ContinuePause
      <4>2. do'.op = "continue"
        BY <4>1 DEF Begin
      <4> QED
        BY <3>2, <4>2 DEF ContinuePause, diskVars
    <3> QED
      BY <1>3, <3>1, <3>2
  <2> QED
    BY <2>1 DEF Asked
<1>4. CASE DoDone
  <2>1. UNCHANGED <<setup, saved, saver, pause, emits>> /\ asked' = (asked \/ do.op = "pause")
        /\ do'.op = "none" /\ "do" \notin emits
    BY <1>4 DEF DoDone, NoCommand, pauseVars, diskVars
  <2> QED
    BY <2>1 DEF Asked
<1>5. CASE \E t \in emits : EmitPause(t)
  <2>1. UNCHANGED <<setup, saver, pause, asked, do>> /\ saved'.state = pause
    BY <1>5 DEF EmitPause, PauseSnapshot, pauseVars, ghosts
  <2> QED
    BY <2>1 DEF Asked
<1>6. CASE WriteComposed
  <2>1. UNCHANGED <<setup, pause, asked, do, emits>> /\ saver # {} /\ saver' = {}
    BY <1>6 DEF WriteComposed, pauseVars, ghosts
  <2> QED
    BY <2>1 DEF Asked
<1>7. CASE DuoRestarts
  <2>1. Spend("restarts") /\ UNCHANGED <<setup, asked>> /\ do' = NoCommand /\ saver' = {}
        /\ pause' = (IF saved.state # "running" THEN "paused" ELSE "running") /\ saved'.state = pause'
    BY <1>7 DEF DuoRestarts, RestorePause
  <2>2. setup.saves = 0
    BY <1>1, <2>1, SpendIs DEF SavesApart
  <2> QED
    BY <2>1, <2>2 DEF Asked, NoCommand
<1> QED
  BY <1>2, <1>3, <1>4, <1>5, <1>6, <1>7, UnaskedSteps, UnaskedKeeps DEF Next, Command, Progress

\* A pause the human was told of outlives any number of crashes of Duo, until the human
\* cancels or continues it, when no other save of the session is under way.
THEOREM PauseSurvivesHolds ==
  ASSUME SavesApart
  PROVE  Spec => []PauseSurvives
<1>1. Init => Asked
  BY DEF Init, Asked, NoCommand
<1>2. IInv /\ Asked /\ [Next]_vars => Asked'
  BY AskedStep
<1>3. Asked => PauseSurvives
  BY DEF Asked, PauseSurvives
<1> QED
  BY <1>1, <1>2, <1>3, MessagesInvariant, PTL DEF Spec
=============================================================================
