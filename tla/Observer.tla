------------------------------- MODULE Observer -------------------------------
(***************************************************************************)
(* The advisory observer of a session: the settings the human saves and    *)
(* the environment overrides (gotui's dialogs, Service.setObserver), the   *)
(* observer that follows the event bus and asks a model (internal/         *)
(* observer), the worker that serves one request at a time and the panel   *)
(* it fills (session/observerreport.go), the session's title               *)
(* (session/title.go) and the phone that is shown the panel (cmd/duo).     *)
(*                                                                         *)
(* Service.mu is held by a command for all of its steps, here cmd; the     *)
(* workers, the collectors and the readers run beside it.  An endpoint     *)
(* with its model is a target, "" when it is not usable.  Requests, and    *)
(* what comes of them, are numbered.                                       *)
(***************************************************************************)
EXTENDS Naturals, Sequences, SequencesExt

CONSTANT ObserverSetups   \* the instances to check, see MCObserver

VARIABLES
  launch,    \* the environment of this behaviour and its bounds
  opts,      \* Options.Observer and Options.Language, as they run
  file,      \* the project's observer section, NoSection when there is none
  key,       \* an API key resolves
  cmd,       \* the command that holds Service.mu
  live,      \* the observer and the worker the session holds, 0 for none
  obs,       \* every observer started
  workers,   \* every worker started
  panel,     \* the request waiting, the call under way, the reports, the notice
  title,     \* the session's title: the task it was made from, 0 for none
  namers,    \* the tasks whose title is being asked for
  ui,        \* the dialogs and the view they show
  phone,     \* the panel as the phone shows it, and whether a frame is due
  spent      \* what has happened so far, against the bounds

observerVars == <<launch, opts, file, key, cmd, live, obs, workers, panel, title, namers, ui, phone, spent>>

NoSection == [enabled |-> FALSE, target |-> "", written |-> FALSE]
Free == [pc |-> "free", of |-> "none"]
NoForm == [enabled |-> FALSE, target |-> "", key |-> FALSE, first |-> FALSE]
NoPanel == [pending |-> 0, analyzing |-> 0, reports |-> <<>>, notice |-> 0]

\* A project has a section in its file or none; models and endpoints are named by words.
ASSUME ObserverSetupsAssumption ==
  \A s \in ObserverSetups :
    /\ s["keys"] \subseteq BOOLEAN /\ s["targets"] \subseteq STRING
    /\ s["default"] \in STRING /\ s["env"]["target"] \in STRING
    /\ \A f \in s["files"] : /\ f \in [enabled : BOOLEAN, target : STRING, written : BOOLEAN]
                            /\ (f.written \/ f = NoSection)

May(what) == what \in launch.known
Spends(what) == /\ spent[what] < launch[what]
                /\ spent' = [spent EXCEPT ![what] = @ + 1]

-----------------------------------------------------------------------------
(* Settings.                                                                *)

Validate(c) == c.enabled => c.target # ""

\* The environment has the last word for this run.
WithEnv(c) ==
  [c EXCEPT !.enabled = CASE launch.env.enabled = "on" -> TRUE
                          [] launch.env.enabled = "off" -> FALSE
                          [] OTHER -> c.enabled,
            !.target = IF launch.env.target # "" THEN launch.env.target ELSE c.target]

EnvOverrides == launch.env.enabled # "unset" \/ launch.env.target # ""

FileSettings(c) == [enabled |-> c.enabled, target |-> c.target]

\* The section replaces the one the project had.
SaveProjectObserver(settings) == [enabled |-> settings.enabled, target |-> settings.target, written |-> TRUE]

\* The file cannot be read, is no JSON object, or cannot be written or renamed.
SaveFails == Spends("fails")

\* Stored for later sessions; a blank field keeps the one there is.
SaveAPIKey(typed) == key \/ typed

Loaded(f, lang) == WithEnv([enabled |-> f.enabled, target |-> f.target, lang |-> lang])

Configured == file.written \/ key \/ EnvOverrides

-----------------------------------------------------------------------------
(* The event bus and the observer's window.                                 *)

\* Emit drops the event for a subscriber whose buffer is full.
Heard(o, e) == IF o.subscribed /\ Len(o.queue) < launch.buffer
               THEN [o EXCEPT !.queue = Append(@, e)]
               ELSE o

EmitToAll(e) == [i \in DOMAIN obs |-> Heard(obs[i], e)]

trimWindow(window) == IF Len(window) > launch.maxEvents THEN Tail(window) ELSE window

\* One event of the bus: the last human message is kept beside the window.
Collect(i) ==
  LET e == Head(obs[i].queue) IN
  /\ obs[i].queue # <<>> /\ obs[i].collecting
  /\ obs' = [obs EXCEPT ![i].queue = Tail(@),
                        ![i].window = trimWindow(Append(@, e)),
                        ![i].task = IF e.kind = "user" THEN e.id ELSE @]
  /\ UNCHANGED <<launch, opts, file, key, cmd, live, workers, panel, title, namers, ui, phone, spent>>

\* The collector sees its context cancelled, or its channel closed.
CollectorEnds(i) ==
  /\ obs[i].collecting /\ ~obs[i].subscribed
  /\ obs' = [obs EXCEPT ![i].collecting = FALSE]
  /\ UNCHANGED <<launch, opts, file, key, cmd, live, workers, panel, title, namers, ui, phone, spent>>

\* Any other event an agent or the coordinator emits.
Says ==
  /\ cmd.of # "closed" /\ Spends("says")
  /\ obs' = EmitToAll([kind |-> "agent", id |-> spent.says + 1])
  /\ phone' = [phone EXCEPT !.due = launch.phone]
  /\ UNCHANGED <<launch, opts, file, key, cmd, live, workers, panel, title, namers, ui>>

-----------------------------------------------------------------------------
(* A request, and the worker that serves it.                                *)

\* requestObserver: the request takes the waiting slot and its token is sent to the
\* worker whose channel was read; without a worker it is dropped.
Ask(pan, wrk, id) ==
  IF live.worker = 0 THEN <<pan, wrk>>
  ELSE <<[pan EXCEPT !.pending = id], [wrk EXCEPT ![live.worker].sends = @ + 1]>>

Requests ==
  LET asked == Ask(panel, workers, spent.requests + 1) IN
  /\ Spends("requests")
  /\ panel' = asked[1] /\ workers' = asked[2]

\* Mutant: the channel has no buffer.
SentUnbuffered(w) ==
  /\ workers[w].sends > 0
  /\ workers' = [workers EXCEPT ![w].sends = @ - 1, ![w].token = workers[w].pc = "waiting"]
  /\ UNCHANGED <<launch, opts, file, key, cmd, live, obs, panel, title, namers, ui, phone, spent>>

\* The channel holds one token: a second one is not needed.
Sent(w) ==
  /\ workers[w].sends > 0
  /\ workers' = [workers EXCEPT ![w].sends = @ - 1, ![w].token = TRUE]
  /\ UNCHANGED <<launch, opts, file, key, cmd, live, obs, panel, title, namers, ui, phone, spent>>

Wake(w) ==
  /\ workers[w].pc = "waiting" /\ workers[w].token
  /\ workers' = [workers EXCEPT ![w].pc = "woken", ![w].token = FALSE]
  /\ UNCHANGED <<launch, opts, file, key, cmd, live, obs, panel, title, namers, ui, phone, spent>>

\* With a token and a cancelled context, select may choose either.
Exit(w) ==
  /\ workers[w].pc = "waiting" /\ workers[w].cancelled
  /\ workers' = [workers EXCEPT ![w].pc = "gone"]
  /\ UNCHANGED <<launch, opts, file, key, cmd, live, obs, panel, title, namers, ui, phone, spent>>

\* takeObserverRequest: the panel names the call that runs.
Take(w) ==
  /\ workers[w].pc = "woken"
  /\ IF panel.pending = 0
     THEN /\ workers' = [workers EXCEPT ![w].pc = "waiting"]
          /\ panel' = panel
     ELSE /\ workers' = [workers EXCEPT ![w].pc = "taken", ![w].req = panel.pending]
          /\ panel' = [panel EXCEPT !.pending = 0, !.analyzing = panel.pending]
  /\ UNCHANGED <<launch, opts, file, key, cmd, live, obs, title, namers, ui, phone, spent>>

\* The live observer is read under Service.mu; without one there is nothing to do.
Begin(w) ==
  /\ workers[w].pc = "taken" /\ cmd.pc = "free"
  /\ workers' = [workers EXCEPT ![w].pc = IF live.obs = 0 THEN "ending" ELSE "sampling",
                                ![w].obs = live.obs, ![w].out = "none"]
  /\ UNCHANGED <<launch, opts, file, key, cmd, live, obs, panel, title, namers, ui, phone, spent>>

\* observerLiveContext: the state is rendered under Service.mu, when the call is made.
Sample(w) ==
  /\ workers[w].pc = "sampling" /\ cmd.pc = "free"
  /\ workers' = [workers EXCEPT ![w].pc = "calling"]
  /\ UNCHANGED <<launch, opts, file, key, cmd, live, obs, panel, title, namers, ui, phone, spent>>

\* What a call may come to: a report, one cut at the limit, an empty one, an error.
Outcomes(w) == IF ~obs[workers[w].obs].key THEN {"nokey"}
               ELSE IF workers[w].cancelled THEN {"error"}
               ELSE {"report", "cut", "empty", "error"}

HasText(out) == out \in {"report", "cut"}

\* Only a whole report is remembered for the next prompt.
Answered(w, out) ==
  /\ workers[w].pc = "calling" /\ out \in Outcomes(w)
  /\ workers' = [workers EXCEPT ![w].pc = IF HasText(out) THEN "filing" ELSE "ending", ![w].out = out]
  /\ obs' = [obs EXCEPT ![workers[w].obs].previous = IF out = "report" THEN workers[w].req ELSE @]
  /\ UNCHANGED <<launch, opts, file, key, cmd, live, panel, title, namers, ui, phone, spent>>

\* setObserverReport: the newest first, a short history.
File(w) ==
  LET reports == <<workers[w].req>> \o panel.reports IN
  /\ workers[w].pc = "filing"
  /\ workers' = [workers EXCEPT ![w].pc = "clearing"]
  /\ panel' = [panel EXCEPT !.reports = IF Len(reports) > launch.kept THEN Front(reports) ELSE reports]
  /\ UNCHANGED <<launch, opts, file, key, cmd, live, obs, title, namers, ui, phone, spent>>

ClearNotice(w) ==
  /\ workers[w].pc = "clearing"
  /\ workers' = [workers EXCEPT ![w].pc = "ending"]
  /\ panel' = [panel EXCEPT !.notice = 0]
  /\ UNCHANGED <<launch, opts, file, key, cmd, live, obs, title, namers, ui, phone, spent>>

\* An error is worth a notice, a missing key is not: the panel says that itself.
Noteworthy(out) == out \in {"cut", "empty", "error"}

\* Mutant: the notice is published while the panel still says it works.
EndNoticeFirst(w) ==
  /\ workers[w].pc \in {"ending", "publishing"}
  /\ IF workers[w].pc = "ending" /\ Noteworthy(workers[w].out)
     THEN /\ panel' = [panel EXCEPT !.notice = workers[w].req]
          /\ workers' = [workers EXCEPT ![w].pc = "publishing", ![w].out = "none"]
     ELSE /\ panel' = [panel EXCEPT !.analyzing = 0]
          /\ workers' = [workers EXCEPT ![w].pc = "waiting"]
  /\ UNCHANGED <<launch, opts, file, key, cmd, live, obs, title, namers, ui, phone, spent>>

\* The analyzing state ends; a notice follows it.
End(w) ==
  /\ workers[w].pc = "ending"
  /\ panel' = [panel EXCEPT !.analyzing = 0]
  /\ workers' = [workers EXCEPT ![w].pc = IF Noteworthy(workers[w].out) THEN "publishing" ELSE "waiting"]
  /\ UNCHANGED <<launch, opts, file, key, cmd, live, obs, title, namers, ui, phone, spent>>

Publish(w) ==
  /\ workers[w].pc = "publishing" /\ Noteworthy(workers[w].out)
  /\ panel' = [panel EXCEPT !.notice = workers[w].req]
  /\ workers' = [workers EXCEPT ![w].pc = "waiting"]
  /\ UNCHANGED <<launch, opts, file, key, cmd, live, obs, title, namers, ui, phone, spent>>

\* Nobody reads the view, which takes the lock too.
LockIsFree == cmd.pc = "free" /\ ui.pc # "reading"

\* Nothing is asked of the observer, and no token is left of what was.
Still(w) == workers[w].pc \in {"waiting", "gone"} /\ ~workers[w].token /\ workers[w].sends = 0
Quiet == panel.pending = 0 /\ \A w \in DOMAIN workers : Still(w)

-----------------------------------------------------------------------------
(* The interface, one goroutine: it waits for its commands.                 *)

View(notice) == [notice |-> notice, analyzing |-> panel.analyzing,
                 enabled |-> opts.enabled, target |-> opts.target, key |-> key]

\* The first run of a session nobody has configured opens the dialog.
Onboarding(cfg) ==
  [pc |-> "ready", next |-> "none", notice |-> 0,
   overlay |-> IF Configured THEN "none" ELSE "config",
   form |-> IF Configured THEN NoForm
            ELSE [NoForm EXCEPT !.target = IF cfg.target = "" THEN launch.default ELSE cfg.target, !.first = TRUE],
   view |-> [notice |-> 0, analyzing |-> 0, enabled |-> cfg.enabled, target |-> cfg.target, key |-> key]]

\* refreshView, before a dialog is opened and whenever something is drawn: under
\* Service.mu the notice is read before the panel, each under its own lock.
ReadNotice(next) ==
  /\ cmd.pc = "free" /\ cmd.of # "closed" /\ ui.pc = "ready"
  /\ next \in (IF ui.overlay = "none" THEN {"config", "reports"} ELSE {"none"}) \cap launch.opens
  /\ next = "none" => ui.overlay = "reports"
  /\ next = "reports" => spent.requests < launch.requests
  /\ ui' = [ui EXCEPT !.pc = "reading", !.next = next, !.notice = panel.notice]
  /\ UNCHANGED <<launch, opts, file, key, cmd, live, obs, workers, panel, title, namers, phone, spent>>

\* The dialog begins with what runs.
Begun(view) == [NoForm EXCEPT !.enabled = view.enabled, !.target = view.target]

\* The reports are opened with a request, unless the observer has no model at all.
ReadPanel ==
  LET view == View(ui.notice)
      overlay == CASE ui.next = "none" -> ui.overlay
                   [] ui.next = "reports" /\ view.target # "" -> "reports"
                   [] OTHER -> "config" IN
  /\ ui.pc = "reading"
  /\ ui' = [ui EXCEPT !.pc = "ready", !.next = "none", !.notice = 0, !.overlay = overlay, !.view = view,
                      !.form = IF overlay = "config" THEN Begun(view) ELSE @]
  /\ IF ui.next = "reports" /\ overlay = "reports" /\ view.enabled /\ view.key
     THEN Requests ELSE UNCHANGED <<panel, workers, spent>>
  /\ UNCHANGED <<launch, opts, file, key, cmd, live, obs, title, namers, phone>>

\* R, or a question: the guard reads the view that was drawn.
PressAsk ==
  /\ ui.pc = "ready" /\ ui.overlay = "reports" /\ ui.view.enabled /\ ui.view.key
  /\ Requests
  /\ UNCHANGED <<launch, opts, file, key, cmd, live, obs, title, namers, ui, phone>>

\* One field of the dialog is typed.
Type ==
  /\ ui.pc = "ready" /\ ui.overlay = "config"
  /\ \/ ui' = [ui EXCEPT !.form.enabled = ~@]
     \/ \E t \in launch.targets : ui' = [ui EXCEPT !.form.target = t]
     \/ ~key /\ ui' = [ui EXCEPT !.form.key = TRUE]
  /\ UNCHANGED <<launch, opts, file, key, cmd, live, obs, workers, panel, title, namers, phone, spent>>

\* Enter: what the form says and what the environment makes of it have to be usable;
\* the key is stored first.
Save ==
  LET chosen == [enabled |-> ui.form.enabled, target |-> ui.form.target, lang |-> opts.lang] IN
  /\ ui.pc = "ready" /\ ui.overlay = "config" /\ cmd.pc = "free" /\ cmd.of # "closed"
  /\ May("swap") \/ Quiet
  /\ Validate(chosen) /\ Validate(WithEnv(chosen))
  /\ Spends("saves")
  /\ key' = SaveAPIKey(ui.form.key)
  /\ cmd' = [pc |-> "persist", of |-> "settings"]
  /\ ui' = [ui EXCEPT !.pc = "doing"]
  /\ UNCHANGED <<launch, opts, file, live, obs, workers, panel, title, namers, phone>>

\* Esc: the first dialog records that the observer stays off, and its fields with it.
Escape ==
  /\ ui.pc = "ready" /\ ui.overlay # "none"
  /\ IF ui.overlay = "config" /\ ui.form.first
     THEN /\ cmd.pc = "free" /\ cmd.of # "closed"
          /\ cmd' = [pc |-> "persist", of |-> "settings"]
          /\ ui' = [ui EXCEPT !.pc = "doing", !.form = [NoForm EXCEPT !.first = TRUE]]
     ELSE /\ cmd' = cmd
          /\ ui' = [ui EXCEPT !.overlay = "none", !.form = NoForm]
  /\ UNCHANGED <<launch, opts, file, key, live, obs, workers, panel, title, namers, phone, spent>>

-----------------------------------------------------------------------------
(* The phone.                                                               *)

\* CmdObserverReport: the phone's request is not guarded, and waits for no command.
PhoneAsks ==
  /\ launch.phone /\ cmd.of # "closed"
  /\ May("swap") \/ cmd.pc = "free"
  /\ Requests
  /\ UNCHANGED <<launch, opts, file, key, cmd, live, obs, title, namers, ui, phone>>

\* watch: a snapshot is due while a report is being made.
Poll ==
  /\ launch.phone /\ cmd.pc = "free" /\ cmd.of # "closed" /\ panel.analyzing # 0 /\ ~phone.due
  /\ phone' = [phone EXCEPT !.due = TRUE]
  /\ UNCHANGED <<launch, opts, file, key, cmd, live, obs, workers, panel, title, namers, ui, spent>>

Frame ==
  /\ phone.due /\ cmd.pc = "free" /\ cmd.of # "closed"
  /\ phone' = [due |-> FALSE, analyzing |-> panel.analyzing # 0, reports |-> panel.reports]
  /\ UNCHANGED <<launch, opts, file, key, cmd, live, obs, workers, panel, title, namers, ui, spent>>

-----------------------------------------------------------------------------
(* Commands, each under Service.mu for all of its steps.                    *)

NewObserver == [cfg |-> opts, key |-> key, subscribed |-> TRUE, collecting |-> TRUE, queue |-> <<>>,
                window |-> <<>>, task |-> 0, previous |-> 0]
NewWorker == [pc |-> "waiting", token |-> FALSE, sends |-> 0, cancelled |-> FALSE,
              req |-> 0, obs |-> 0, out |-> "none"]

\* Mutant: the settings run although they could not be written.
PersistSwapsFirst ==
  LET chosen == [enabled |-> ui.form.enabled, target |-> ui.form.target, lang |-> opts.lang] IN
  /\ cmd.pc = "persist"
  /\ \E written \in BOOLEAN :
       /\ IF written THEN spent' = spent ELSE SaveFails
       /\ file' = IF written THEN SaveProjectObserver(FileSettings(chosen)) ELSE file
       /\ opts' = WithEnv(chosen)
       /\ cmd' = [cmd EXCEPT !.pc = "stop"]
  /\ UNCHANGED <<launch, key, live, obs, workers, panel, title, namers, ui, phone>>

\* setObserver: the settings are validated and written before anything is swapped.
Persist ==
  LET chosen == [enabled |-> ui.form.enabled, target |-> ui.form.target, lang |-> opts.lang] IN
  /\ cmd.pc = "persist"
  /\ \/ /\ file' = SaveProjectObserver(FileSettings(chosen))
        /\ opts' = WithEnv(chosen)
        /\ cmd' = [cmd EXCEPT !.pc = "stop"]
        /\ UNCHANGED <<spent, ui>>
     \/ /\ ui.form.key => May("key")
        /\ SaveFails
        /\ cmd' = Free /\ ui' = [ui EXCEPT !.pc = "ready"]
        /\ UNCHANGED <<file, opts>>
  /\ UNCHANGED <<launch, key, live, obs, workers, panel, title, namers, phone>>

\* stopObserver: the worker is cancelled, not waited for.
StopWorker ==
  /\ cmd.pc = "stop"
  /\ workers' = IF live.worker = 0 THEN workers ELSE [workers EXCEPT ![live.worker].cancelled = TRUE]
  /\ live' = [live EXCEPT !.worker = 0]
  /\ cmd' = [cmd EXCEPT !.pc = "close"]
  /\ UNCHANGED <<launch, opts, file, key, obs, panel, title, namers, ui, phone, spent>>

\* Observer.Close cancels and unsubscribes, and waits for the collector.
CloseObserver ==
  /\ cmd.pc = "close" /\ live.obs # 0 /\ obs[live.obs].subscribed
  /\ obs' = [obs EXCEPT ![live.obs].subscribed = FALSE]
  /\ UNCHANGED <<launch, opts, file, key, cmd, live, workers, panel, title, namers, ui, phone, spent>>

ObserverClosed ==
  /\ cmd.pc = "close" /\ (live.obs # 0 => ~obs[live.obs].collecting)
  /\ live' = [live EXCEPT !.obs = 0]
  /\ cmd' = [cmd EXCEPT !.pc = CASE cmd.of = "settings" -> "clear"
                                 [] cmd.of = "language" -> "start"
                                 [] cmd.of = "closed" -> "free"]
  /\ UNCHANGED <<launch, opts, file, key, obs, workers, panel, title, namers, ui, phone, spent>>

ClearForSettings ==
  /\ cmd.pc = "clear"
  /\ panel' = [panel EXCEPT !.notice = 0]
  /\ cmd' = [cmd EXCEPT !.pc = "start"]
  /\ UNCHANGED <<launch, opts, file, key, live, obs, workers, title, namers, ui, phone, spent>>

\* startObserver, and the interface closes its dialog.
StartObserver ==
  /\ cmd.pc = "start"
  /\ IF opts.enabled
     THEN /\ obs' = Append(obs, NewObserver)
          /\ workers' = Append(workers, NewWorker)
          /\ live' = [obs |-> Len(obs) + 1, worker |-> Len(workers) + 1]
     ELSE UNCHANGED <<obs, workers, live>>
  /\ cmd' = Free
  /\ ui' = [ui EXCEPT !.pc = "ready", !.overlay = "none", !.form = NoForm]
  /\ UNCHANGED <<launch, opts, file, key, panel, title, namers, phone, spent>>

\* /language: the old observer's prompt asks for the other language.
SwitchLanguage ==
  /\ LockIsFree /\ cmd.of # "closed" /\ ui.pc = "ready" /\ ui.overlay = "none"
  /\ May("swap") \/ Quiet
  /\ Spends("langs")
  /\ opts' = [opts EXCEPT !.lang = 1 - @]
  /\ cmd' = [pc |-> "stop", of |-> "language"]
  /\ ui' = [ui EXCEPT !.pc = "doing"]
  /\ UNCHANGED <<launch, file, key, live, obs, workers, panel, title, namers, phone>>

\* A task of the human: every subscriber hears it, and a session without a title
\* asks for one.
SubmitTask ==
  LET t == spent.tasks + 1 IN
  /\ LockIsFree /\ cmd.of # "closed" /\ Spends("tasks")
  /\ obs' = EmitToAll([kind |-> "user", id |-> t])
  /\ namers' = IF live.obs # 0 /\ title = 0 THEN namers \cup {t} ELSE namers
  /\ UNCHANGED <<launch, opts, file, key, cmd, live, workers, panel, title, ui, phone>>

\* What naming a task may come to: 0 is an error, an empty title or one cut short.
TitleOutcomes(t) == IF key THEN {0, t} ELSE {0}

\* The answer is recorded under the lock, if the session has none and is not closed.
NameArrives(t) ==
  /\ LockIsFree
  /\ namers' = namers \ {t}
  /\ IF cmd.of = "closed" \/ title # 0 THEN title' = title ELSE title' \in TitleOutcomes(t)
  /\ UNCHANGED <<launch, opts, file, key, cmd, live, obs, workers, panel, ui, phone, spent>>

CloseSession ==
  /\ LockIsFree /\ cmd.of # "closed" /\ ui.pc = "ready" /\ Spends("closes")
  /\ cmd' = [pc |-> "stop", of |-> "closed"]
  /\ UNCHANGED <<launch, opts, file, key, live, obs, workers, panel, title, namers, ui, phone>>

\* The next process of the session reads the file and the title.
Relaunch ==
  LET loaded == Loaded(file, opts.lang) IN
  /\ cmd = [pc |-> "free", of |-> "closed"]
  /\ cmd' = Free
  /\ opts' = loaded
  /\ obs' = IF loaded.enabled THEN <<[NewObserver EXCEPT !.cfg = loaded]>> ELSE <<>>
  /\ workers' = IF loaded.enabled THEN <<NewWorker>> ELSE <<>>
  /\ live' = IF loaded.enabled THEN [obs |-> 1, worker |-> 1] ELSE [obs |-> 0, worker |-> 0]
  /\ panel' = NoPanel /\ namers' = {}
  /\ ui' = Onboarding(loaded)
  /\ UNCHANGED <<launch, file, key, title, phone, spent>>

-----------------------------------------------------------------------------
Serve(w) == \/ Wake(w) \/ Exit(w) \/ Take(w) \/ Begin(w) \/ Sample(w)
            \/ \E out \in {"report", "cut", "empty", "error", "nokey"} : Answered(w, out)
            \/ File(w) \/ ClearNotice(w) \/ End(w) \/ Publish(w)

Command == Persist \/ StopWorker \/ CloseObserver \/ ObserverClosed \/ ClearForSettings \/ StartObserver

Interface == \/ \E next \in {"none", "config", "reports"} : ReadNotice(next)
             \/ ReadPanel \/ PressAsk \/ Type \/ Save \/ Escape

ObserverNext == \/ \E w \in DOMAIN workers : Serve(w) \/ Sent(w)
                \/ \E i \in DOMAIN obs : Collect(i) \/ CollectorEnds(i)
                \/ \E t \in namers : NameArrives(t)
                \/ Command \/ Interface
                \/ Says \/ SwitchLanguage \/ SubmitTask \/ CloseSession \/ Relaunch
                \/ PhoneAsks \/ Poll \/ Frame

ObserverInit ==
  /\ launch \in ObserverSetups
  /\ file \in launch.files /\ key \in launch.keys
  /\ opts = Loaded(file, 0) /\ Validate(opts)
  /\ cmd = Free /\ panel = NoPanel /\ title = 0 /\ namers = {}
  /\ spent = [requests |-> 0, saves |-> 0, fails |-> 0, langs |-> 0, says |-> 0, tasks |-> 0, closes |-> 0]
  /\ obs = IF opts.enabled THEN <<NewObserver>> ELSE <<>>
  /\ workers = IF opts.enabled THEN <<NewWorker>> ELSE <<>>
  /\ live = IF opts.enabled THEN [obs |-> 1, worker |-> 1] ELSE [obs |-> 0, worker |-> 0]
  /\ ui = Onboarding(opts)
  /\ phone = [due |-> FALSE, analyzing |-> FALSE, reports |-> <<>>]

\* A worker is a goroutine, a model call has a timeout and a command runs to its end;
\* a collector reads its channel and a drawn frame is finished.
Fairness ==
  /\ \A w \in 1..4 : /\ WF_observerVars(w \in DOMAIN workers /\ Serve(w))
                     /\ WF_observerVars(w \in DOMAIN workers /\ Sent(w))
  /\ \A i \in 1..4 : WF_observerVars(i \in DOMAIN obs /\ (Collect(i) \/ CollectorEnds(i)))
  /\ WF_observerVars(Command) /\ WF_observerVars(ReadPanel) /\ WF_observerVars(Poll) /\ WF_observerVars(Frame)

ObserverSpec == ObserverInit /\ [][ObserverNext]_observerVars /\ Fairness

-----------------------------------------------------------------------------
(* Properties.                                                              *)

ObserverTypeOK ==
  /\ {file.enabled, file.written, opts.enabled, key} \subseteq BOOLEAN
  /\ cmd.of \in {"none", "settings", "language", "closed"}
  /\ ui.overlay \in {"none", "config", "reports"}
  /\ {panel.pending, panel.analyzing, panel.notice} \cup Range(panel.reports) \subseteq 0..spent.requests
  /\ {title} \cup namers \subseteq 0..spent.tasks

\* Between two commands the session runs what the project's file and the environment
\* say: one observer and one worker, with these settings, this language and the key
\* that resolves, and none when it is off.  (setObserver: written before it is swapped.)
RunsWhatIsSaved ==
  /\ ObserverTypeOK
  /\ cmd = Free =>
    /\ opts = Loaded(file, opts.lang)
    /\ (live.obs # 0) = opts.enabled /\ (live.worker # 0) = opts.enabled
    /\ live.obs # 0 => obs[live.obs].cfg = opts /\ obs[live.obs].key = key
    /\ \A i \in DOMAIN obs : (obs[i].subscribed \/ obs[i].collecting) = (i = live.obs)
    /\ \A w \in DOMAIN workers : workers[w].cancelled = (w # live.worker)

\* No view shows the failure of a request as the request under way, and a call under
\* way is the one the panel names.  (analyzeObserverReport, observerView.)
PanelIsHonest ==
  /\ ui.view.notice # 0 => ui.view.notice # ui.view.analyzing
  /\ \A w \in DOMAIN workers :
       ~workers[w].cancelled /\ workers[w].pc \notin {"waiting", "woken", "publishing", "gone"}
         => panel.analyzing = workers[w].req

\* A request that waits is taken, or replaced and the later one taken; no token is lost
\* between the slot and the channel.  (requestObserver, runObserverReports.)
RequestIsServed == panel.pending # 0 ~> panel.pending = 0 \/ cmd.of = "closed"

\* A report reaches the phone that is shown the panel (cmd/duo/remote.go:310).
ReportReachesPhone ==
  launch.phone /\ panel.reports # <<>> ~> phone.reports = panel.reports \/ cmd.of = "closed"
=============================================================================
