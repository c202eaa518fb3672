------------------------------ MODULE Interface ------------------------------
(***************************************************************************)
(* The terminal interface (internal/gotui): one loop that handles the keys *)
(* of the human, the events of its subscription, the answers of what it    *)
(* started beside itself and a ticker.  It knows the session through the   *)
(* View it last read: the session goes on, other frontends change it, and  *)
(* a dialog that is answered was opened on an older View.                  *)
(*                                                                         *)
(* Keys that are waiting are handled one after the other before a frame is *)
(* drawn.  A human in the terminal of an agent is inside the handling of a *)
(* key, in which a loop of its own goes on handling the rest.              *)
(*                                                                         *)
(* "topics" of a scene are the parts of the interface it uses.  Corners in *)
(* which the interface is known to fail are left out unless "known" names  *)
(* them.                                                                   *)
(***************************************************************************)
EXTENDS Transcript

VARIABLES
  sess,      \* the session: what its View reports
  live,      \* the View the interface last read
  bus,       \* events of the subscription that were not handled
  news,      \* connections that changed and were not reported yet
  panel,     \* the overlay: what is open and what it asks
  picker,    \* modelPicker
  drivers,   \* driverPicker
  calls,     \* what runs beside the loop
  async,     \* asyncCh
  remote,    \* the pairing of the session, and the one whose code is shown
  screen,    \* where the loop is
  heard,     \* the agents announced, and what the human last read of each
  unasked    \* what the last mode switch discarded with no question that named it

sessionVars == <<sess, bus, news>>
panelVars == <<panel, picker, drivers>>
callVars == <<calls, async, remote>>
interfaceVars == <<scene, paneVars, sessionVars, live, panelVars, callVars, screen, heard, unasked>>

Agents == {"Austin", "Tony"}
Modes == {"FAST", "GOAL", "STEP", "LOOP"}
May(topic) == topic \in scene.topics

ASSUME ScenesAssumption ==
  \A s \in Scenes : /\ s.modes \subseteq Modes /\ s.bridges \subseteq Agents
                    /\ s.buffer \in Nat /\ s.channel \in Nat /\ s.calls \in Nat

-----------------------------------------------------------------------------
(* The session.                                                            *)

\* SwitchMode: a round belongs to the mode that began it.  FAST to GOAL is the
\* escalation, which writes what was said in the round into the new plan.
Switched(s, target) ==
  IF target = s.mode THEN s
  ELSE [s EXCEPT !.mode = target, !.phase = IF @ = "done" THEN @ ELSE "work",
                 !.round = IF s.phase # "done" /\ target \in {"GOAL", "STEP"} THEN {"plan"} ELSE {}]

Escalates(s, target) == s.mode = "FAST" /\ target = "GOAL" /\ s.phase # "done"

\* What a switch takes from an unfinished round.
Discarded(s, target) ==
  IF target = s.mode \/ s.phase = "done" \/ Escalates(s, target) THEN {} ELSE s.round

\* View.DriverChangeAllowed, and the same question in setDriver.
DriverChangeAllowed(s) == s.pause = "paused" \/ s.phase \in {"fresh", "done"}

\* recallBlocked
RecallBlocked(s) == s.landed \/ s.phase = "done"

\* emit: a subscription that is full misses the event.
Emitted(event) == IF Len(bus) < scene.buffer THEN Append(bus, event) ELSE bus
Pulse == [kind |-> "pulse"]

\* requestNewSession, requestRecall, requestResumeSession, each with its pulse.
RequestEnd(how) == /\ sess' = [sess EXCEPT !.ended = IF how = "recall" /\ RecallBlocked(sess) THEN @ ELSE how]
                   /\ bus' = IF sess'.ended = how THEN Emitted(Pulse) ELSE bus

SessionAlone == UNCHANGED <<scene, paneVars, live, panelVars, callVars, screen, heard, unasked>>

\* What agents and other frontends do with the round.
Holds(mode) == CASE mode = "FAST" -> {"claim"}
                 [] mode = "GOAL" -> {"plan", "signatures"}
                 [] mode = "STEP" -> {"plan", "queue", "signatures"}
                 [] mode = "LOOP" -> {"inbox"}

Work == /\ May("modes") /\ sess.phase = "work"
        /\ \/ \E thing \in Holds(sess.mode) :
                /\ thing \in {"queue", "signatures"} => "plan" \in sess.round
                /\ sess' = [sess EXCEPT !.round = @ \cup {thing}]
           \/ sess' = [sess EXCEPT !.round = @ \ {"signatures", "claim", "inbox"}]
        /\ UNCHANGED <<bus, news>> /\ SessionAlone

Task == /\ sess.phase # "work" /\ sess.pause = "running"
        /\ sess' = [sess EXCEPT !.phase = "work", !.round = {}]
        /\ UNCHANGED <<bus, news>> /\ SessionAlone

Finish == /\ sess.phase = "work"
          /\ sess' = [sess EXCEPT !.phase = "done", !.landed = TRUE]
          /\ UNCHANGED <<bus, news>> /\ SessionAlone

SwitchedElsewhere == /\ May("elsewhere")
                     /\ \E target \in Modes : sess' = Switched(sess, target)
                     /\ UNCHANGED <<bus, news>> /\ SessionAlone

\* refreshPause: the agents settle, and one may start again.
PauseReached == /\ sess.pause # "running"
                /\ sess' = [sess EXCEPT !.pause = IF @ = "pausing" THEN "paused" ELSE "pausing"]
                /\ UNCHANGED <<bus, news>> /\ SessionAlone

\* A step that landed stays in the repository.
Land == /\ May("leave") /\ sess.phase = "work" /\ ~sess.landed
        /\ sess' = [sess EXCEPT !.landed = TRUE]
        /\ UNCHANGED <<bus, news>> /\ SessionAlone

EndedElsewhere == /\ May("leave") /\ sess.ended = ""
                  /\ \E how \in {"new", "recall", "resume"} : RequestEnd(how)
                  /\ UNCHANGED news /\ SessionAlone

\* A bridge comes and goes; the event follows.
Connect == /\ May("agents") /\ Len(news) < 2
           /\ \E a \in scene.bridges :
                /\ sess' = [sess EXCEPT !.up[a] = ~@]
                /\ news' = Append(news, [kind |-> IF sess.up[a] THEN "down" ELSE "up", agent |-> a])
           /\ UNCHANGED bus /\ SessionAlone

Publish == /\ news # << >>
           /\ bus' = Emitted(Head(news)) /\ news' = Tail(news)
           /\ heard' = [heard EXCEPT !.missed = @ \/ Len(bus) = scene.buffer]
           /\ UNCHANGED <<scene, paneVars, sess, live, panelVars, callVars, screen, unasked>>

Spoken == Len(SelectSeq(bus, LAMBDA e : e.kind = "text"))
Speak == /\ NextSeq + Spoken <= scene.messages /\ Len(bus) < scene.buffer
         /\ \E size \in scene.sizes, word \in IF May("search") THEN BOOLEAN ELSE {FALSE} :
              bus' = Append(bus, [kind |-> "text", size |-> size, word |-> word])
         /\ UNCHANGED <<sess, news>> /\ SessionAlone

-----------------------------------------------------------------------------
(* The loop.                                                               *)

Native == screen.native # ""

\* Between two batches of keys, and in the loop of an agent's terminal.
Ready == ~screen.gone /\ (~screen.dirty \/ Native)

\* Mutant: only NewSession stops the interface.
StopsForNew(s) == s.ended \in {"new", "recall"}

\* observeNewSession, observeResumeSession
Stops(s) == s.ended # ""

\* refreshView: an agent that is gone may be announced again.
Announced(s) == {a \in heard.announced : s.up[a]}
Refresh(s) == /\ live' = s
              /\ screen' = [screen EXCEPT !.stopped = @ \/ Stops(s)]
              /\ heard' = [heard EXCEPT !.announced = Announced(s)]

\* draw, unless an agent has the terminal.
Draws(es) == IF Native THEN UNCHANGED <<pane, search>> ELSE DrawPane(es, look, height)

\* route: a connection that was announced from the View is not announced again.
Route(e) ==
  LET before == Announced(sess)
  IN CASE e.kind = "up" /\ e.agent \notin before ->
            [heard EXCEPT !.announced = before \cup {e.agent}, !.told[e.agent] = "up"]
       [] e.kind = "down" ->
            [heard EXCEPT !.announced = before \ {e.agent}, !.told[e.agent] = "down"]
       [] OTHER -> [heard EXCEPT !.announced = before]

\* The line an event adds.
EntriesWith(e) ==
  CASE e.kind = "text" -> AppendEntry(e.size, e.word)
    [] e.kind = "down" \/ (e.kind = "up" /\ e.agent \notin Announced(sess)) -> AppendEntry(1, FALSE)
    [] OTHER -> entries

HandleEvent ==
  /\ Ready /\ bus # << >>
  /\ bus' = Tail(bus)
  /\ live' = sess
  /\ screen' = [screen EXCEPT !.stopped = @ \/ Stops(sess)]
  /\ heard' = Route(Head(bus))
  /\ \E es \in {EntriesWith(Head(bus))} : entries' = es /\ Draws(es)
  /\ UNCHANGED <<scene, look, height, sess, news, panelVars, callVars, unasked>>

\* The dashboard reads the View when somebody is at work; an agent's terminal always.
Tick == /\ Ready
        /\ Refresh(sess) /\ Draws(entries)
        /\ UNCHANGED <<scene, entries, look, height, sessionVars, panelVars, callVars, unasked>>

Draw == /\ screen.dirty /\ ~Native /\ ~screen.stopped /\ ~screen.gone
        /\ DrawPane(entries, look, height)
        /\ screen' = [screen EXCEPT !.dirty = FALSE]
        /\ UNCHANGED <<scene, entries, look, height, sessionVars, live, panelVars, callVars, heard, unasked>>

\* run returns, and the outer command takes over.
Leave == /\ screen.stopped /\ ~Native /\ ~screen.gone
         /\ screen' = [screen EXCEPT !.gone = TRUE]
         /\ UNCHANGED <<scene, paneVars, sessionVars, live, panelVars, callVars, heard, unasked>>

-----------------------------------------------------------------------------
(* Keys.  After a key that stopped the interface no other one is handled.  *)

Listening == ~screen.gone /\ ~Native /\ ~(screen.dirty /\ screen.stopped)
Keymap == Listening /\ panel.kind = "none" /\ ~Prompting

Handled == screen' = [screen EXCEPT !.dirty = TRUE]

\* The View is read while a key is handled.
HandledWith(s) == /\ live' = s
                  /\ screen' = [screen EXCEPT !.dirty = TRUE, !.stopped = @ \/ Stops(s)]
                  /\ heard' = [heard EXCEPT !.announced = Announced(s)]

HandledStopping == screen' = [screen EXCEPT !.dirty = TRUE, !.stopped = TRUE]

Closed == [kind |-> "none"]
Opened(kind) == panel' = [kind |-> kind]

\* Esc, and the keys that close a panel.
CloseOverlay == /\ Listening /\ panel.kind # "none"
                /\ panel' = Closed /\ Handled
                /\ UNCHANGED <<scene, paneVars, sessionVars, live, picker, drivers, callVars, heard, unasked>>

-----------------------------------------------------------------------------
(* Mode switches.                                                          *)

\* Mutant: the signatures are not asked about.
LossWithoutSignatures(v, target) ==
  IF target = v.mode \/ v.phase = "done" \/ Escalates(v, target) THEN {}
  ELSE v.round \cap ({"queue", "plan"} \cup IF v.mode = "FAST" /\ target = "STEP" THEN {"claim"} ELSE {})

\* modeSwitchLoss: what the question names, from the View last read.
ModeSwitchLoss(v, target) ==
  IF target = v.mode \/ v.phase = "done" \/ Escalates(v, target) THEN {}
  ELSE v.round \cap ({"queue", "plan", "signatures"} \cup
                     IF v.mode = "FAST" /\ target = "STEP" THEN {"claim"} ELSE {})

Confirm(what, target, told) ==
  [kind |-> "confirm", what |-> what, target |-> target, told |-> told, seen |-> live]

\* What a switch discards that the question did not name.  What was not in the View it was
\* built from, another round or another mode having come since, counts only in scenes with
\* "late".
Late(seen, thing) == \/ seen.mode # sess.mode \/ seen.phase # sess.phase
                     \/ thing \notin seen.round

Unasked(seen, target, told) ==
  {[thing |-> thing, from |-> sess.mode, to |-> target, late |-> Late(seen, thing)] :
     thing \in {t \in Discarded(sess, target) \ told : Late(seen, t) => "late" \in scene.known}}

\* The agents are not woken: whether they resume is a question of its own, which a pause
\* answers.
ApplyModeSwitch(seen, target, told) ==
  LET s == Switched(sess, target)
  IN /\ sess' = s /\ HandledWith(s)
     /\ unasked' = Unasked(seen, target, told)
     /\ panel' = IF s.pause = "running" THEN Confirm("resume", target, {}) ELSE Closed
     /\ UNCHANGED <<scene, paneVars, bus, news, picker, drivers, callVars>>

\* requestModeSwitch, from /mode, /escalate and the panel.
RequestModeSwitch(target) ==
  LET loss == ModeSwitchLoss(live, target)
  IN \/ /\ target = live.mode
        /\ panel' = Closed /\ Handled
        /\ UNCHANGED <<scene, paneVars, sessionVars, live, picker, drivers, callVars, heard, unasked>>
     \/ /\ target # live.mode /\ loss # {}
        /\ panel' = Confirm("mode", target, loss) /\ Handled
        /\ UNCHANGED <<scene, paneVars, sessionVars, live, picker, drivers, callVars, heard, unasked>>
     \/ /\ target # live.mode /\ loss = {}
        /\ ApplyModeSwitch(live, target, {})

OpenModePicker == /\ May("modes") /\ Keymap
                  /\ Opened("modes") /\ Handled
                  /\ UNCHANGED <<scene, paneVars, sessionVars, live, picker, drivers, callVars, heard, unasked>>

ChooseMode == /\ May("modes") /\ (Keymap \/ (Listening /\ panel.kind = "modes"))
              /\ \E target \in Modes : RequestModeSwitch(target)

-----------------------------------------------------------------------------
(* Confirmations: "y", or Enter on the right button.                       *)

Asked(what) == Listening /\ panel.kind = "confirm" /\ panel.what = what

ConfirmMode == /\ Asked("mode")
               /\ ApplyModeSwitch(panel.seen, panel.target, panel.told)

\* ResumeMode changes nothing that the interface knows about.
ConfirmResume == /\ Asked("resume")
                 /\ panel' = Closed /\ Handled
                 /\ UNCHANGED <<scene, paneVars, sessionVars, live, picker, drivers, callVars, heard, unasked>>

ConfirmQuit == /\ Asked("quit")
               /\ panel' = Closed /\ HandledStopping
               /\ UNCHANGED <<scene, paneVars, sessionVars, live, picker, drivers, callVars, heard, unasked>>

\* The session may refuse what it allowed when the question was asked.
ConfirmRecall == /\ Asked("recall")
                 /\ RequestEnd("recall")
                 /\ panel' = Closed
                 /\ IF RecallBlocked(sess) THEN Handled ELSE HandledStopping
                 /\ UNCHANGED <<scene, paneVars, news, live, picker, drivers, callVars, heard, unasked>>

RequestQuit == /\ May("leave") /\ Keymap
               /\ IF live.phase = "done" THEN HandledStopping /\ UNCHANGED panel
                  ELSE panel' = Confirm("quit", "", {}) /\ Handled
               /\ UNCHANGED <<scene, paneVars, sessionVars, live, picker, drivers, callVars, heard, unasked>>

RequestRecall == /\ May("leave") /\ Keymap
                 /\ panel' = IF RecallBlocked(sess) THEN panel ELSE Confirm("recall", "", {})
                 /\ Handled
                 /\ UNCHANGED <<scene, paneVars, sessionVars, live, picker, drivers, callVars, heard, unasked>>

RequestNewSession == /\ May("leave") /\ Keymap
                     /\ RequestEnd("new") /\ HandledStopping
                     /\ UNCHANGED <<scene, paneVars, news, live, panelVars, callVars, heard, unasked>>

OpenSessions == /\ May("leave") /\ Keymap
                /\ Opened("sessions") /\ Handled
                /\ UNCHANGED <<scene, paneVars, sessionVars, live, picker, drivers, callVars, heard, unasked>>

\* The session records the choice; that the interface stops is left to the View.
ChooseSession == /\ Listening /\ panel.kind = "sessions"
                 /\ RequestEnd("resume")
                 /\ panel' = Closed /\ Handled
                 /\ UNCHANGED <<scene, paneVars, news, live, picker, drivers, callVars, heard, unasked>>

-----------------------------------------------------------------------------
(* Pause and drivers.                                                      *)

\* A verb that the session accepts, and the View after it.
Verb(allowed, s) ==
  /\ IF allowed THEN sess' = s /\ HandledWith(s) ELSE Handled /\ UNCHANGED <<sess, live, heard>>
  /\ UNCHANGED <<scene, paneVars, bus, news, panelVars, callVars, unasked>>

PauseVerb ==
  /\ May("pause") /\ Keymap
  /\ \/ Verb(sess.pause = "running", [sess EXCEPT !.pause = "pausing"])
     \/ Verb(sess.pause = "pausing", [sess EXCEPT !.pause = "running"])
     \/ Verb(sess.pause = "paused", [sess EXCEPT !.pause = "running"])

OpenDriverPicker ==
  /\ May("drivers") /\ Keymap
  /\ IF DriverChangeAllowed(live)
     THEN Opened("drivers") /\ drivers' = [drivers EXCEPT !.current = live.driver[drivers.agent]]
     ELSE UNCHANGED <<panel, drivers>>
  /\ Handled
  /\ UNCHANGED <<scene, paneVars, sessionVars, live, picker, callVars, heard, unasked>>

Other(a) == CHOOSE b \in Agents : b # a

SwitchDriverAgent ==
  /\ Listening /\ panel.kind = "drivers"
  /\ drivers' = [agent |-> Other(drivers.agent), current |-> live.driver[Other(drivers.agent)]]
  /\ Handled
  /\ UNCHANGED <<scene, paneVars, sessionVars, live, panel, picker, callVars, heard, unasked>>

\* The session may refuse, or fail to start the new process.  Space leaves the panel open.
ApplyDriver ==
  /\ Listening /\ panel.kind = "drivers"
  /\ \E d \in {"pi", "codex"}, starts, keepOpen \in BOOLEAN :
       LET s == [sess EXCEPT !.driver[drivers.agent] = d]
       IN /\ IF DriverChangeAllowed(sess) /\ starts
             THEN sess' = s /\ HandledWith(s) /\ drivers' = [drivers EXCEPT !.current = d]
             ELSE Handled /\ UNCHANGED <<sess, live, heard, drivers>>
          /\ panel' = IF keepOpen THEN panel ELSE Closed
  /\ UNCHANGED <<scene, paneVars, bus, news, picker, callVars, unasked>>

RequestRestart ==
  /\ May("agents") /\ Keymap /\ Len(news) < 2
  /\ \E a \in {b \in scene.bridges : sess.up[b]} :
       LET s == [sess EXCEPT !.up[a] = FALSE]
       IN sess' = s /\ HandledWith(s) /\ news' = Append(news, [kind |-> "down", agent |-> a])
  /\ UNCHANGED <<scene, paneVars, bus, panelVars, callVars, unasked>>

-----------------------------------------------------------------------------
(* Models: the catalogue of an agent is read beside the loop.              *)

Catalogue(a) == <<a, sess.driver[a]>>
NoCatalogue == << >>

Started(call) == Len(calls) < scene.calls /\ calls' = Append(calls, call)

\* openPicker and switchAgent: the catalogue of another agent is dropped, also when it
\* is still being read.
Targeted(a) ==
  IF picker.of = a THEN [picker EXCEPT !.agent = a]
  ELSE [agent |-> a, of |-> a, all |-> NoCatalogue, loaded |-> FALSE, loading |-> FALSE]

Load(p) ==
  IF p.loaded \/ p.loading THEN picker' = p /\ UNCHANGED calls
  ELSE picker' = [p EXCEPT !.loading = TRUE] /\ Started([kind |-> "models", agent |-> p.agent])

OpenPicker == /\ May("models") /\ Keymap
              /\ Load(Targeted(picker.agent))
              /\ Opened("models") /\ Handled
              /\ UNCHANGED <<scene, paneVars, sessionVars, live, drivers, async, remote, heard, unasked>>

SwitchModelAgent == /\ Listening /\ panel.kind = "models"
                    /\ Load(Targeted(Other(picker.agent)))
                    /\ Handled
                    /\ UNCHANGED <<scene, paneVars, sessionVars, live, panel, drivers, async, remote, heard, unasked>>

\* applyPickerModel, and the overview, whose texts are read beside the loop as well.
ApplyPickerModel == /\ Listening /\ panel.kind = "models" /\ picker.all # NoCatalogue
                    /\ HandledWith(sess)
                    /\ \E keepOpen \in BOOLEAN : panel' = IF keepOpen THEN panel ELSE Closed
                    /\ UNCHANGED <<scene, paneVars, sessionVars, picker, drivers, callVars, unasked>>

OpenDetails == /\ May("details") /\ Keymap
               /\ Opened("details") /\ Handled
               /\ Started([kind |-> "details"])
               /\ UNCHANGED <<scene, paneVars, sessionVars, live, picker, drivers, async, remote, heard, unasked>>

\* Mutant: the catalogue of an agent the panel no longer shows is taken.
LoadedAnyway(r) ==
  IF r.failed THEN [picker EXCEPT !.loading = FALSE]
  ELSE [picker EXCEPT !.loading = FALSE, !.loaded = TRUE, !.all = r.catalogue]

\* modelPicker.loaded
Loaded(r) ==
  IF r.agent # picker.agent THEN picker
  ELSE IF r.failed THEN [picker EXCEPT !.loading = FALSE]
  ELSE [picker EXCEPT !.loading = FALSE, !.loaded = TRUE, !.all = r.catalogue]

-----------------------------------------------------------------------------
(* Remote access.                                                          *)

\* Requests for the pairing run beside the loop in any order: a second one before the
\* first is answered is a known corner.
Pairing == \E i \in DOMAIN calls : calls[i].kind \in {"start", "stop", "answer"}
PairingAnswers == \E i \in DOMAIN async : async[i].kind \in {"started", "stopped"}

RequestPairing == /\ May("remote") /\ Keymap
                  /\ (Pairing \/ PairingAnswers) => "overlap" \in scene.known
                  /\ \/ \E rotate \in BOOLEAN : Started([kind |-> "start", rotate |-> rotate])
                     \/ Started([kind |-> "stop"])
                  /\ Handled
                  /\ UNCHANGED <<scene, paneVars, sessionVars, live, panelVars, async, remote, heard, unasked>>

-----------------------------------------------------------------------------
(* What runs beside the loop.                                              *)

\* addAsync drops an answer when asyncCh is full; a pairing waits for room.
Answered(i, result, waits) ==
  /\ waits => Len(async) < scene.channel
  /\ async' = IF Len(async) < scene.channel THEN Append(async, result) ELSE async
  /\ calls' = RemoveAt(calls, i)

ReadCatalogue(i) ==
  /\ calls[i].kind = "models"
  /\ \E failed \in BOOLEAN :
       Answered(i, [kind |-> "models", agent |-> calls[i].agent, failed |-> failed,
                    catalogue |-> Catalogue(calls[i].agent)], FALSE)
  /\ UNCHANGED remote

ReadDetails(i) == /\ calls[i].kind = "details"
                  /\ Answered(i, [kind |-> "details"], FALSE)
                  /\ UNCHANGED remote

\* What a pairing request did, and its answer, which may be overtaken.
Acted(i, result) == calls' = [calls EXCEPT ![i] = [kind |-> "answer", result |-> result]] /\ UNCHANGED async

\* Start mints a pairing when there is none, or a new one.
StartPairing(i) ==
  /\ calls[i].kind = "start"
  /\ \/ LET code == IF calls[i].rotate \/ ~remote.on THEN remote.code + 1 ELSE remote.code
        IN /\ code <= scene.codes
           /\ remote' = [remote EXCEPT !.on = TRUE, !.code = code]
           /\ Acted(i, [kind |-> "started", failed |-> FALSE, code |-> code])
     \/ /\ Acted(i, [kind |-> "started", failed |-> TRUE, code |-> 0])
        /\ UNCHANGED remote

StopPairing(i) ==
  /\ calls[i].kind = "stop"
  /\ remote' = [remote EXCEPT !.on = FALSE]
  /\ Acted(i, [kind |-> "stopped", failed |-> FALSE])

AnswerPairing(i) ==
  /\ calls[i].kind = "answer"
  /\ Answered(i, calls[i].result, TRUE)
  /\ UNCHANGED remote

Return == /\ \E i \in DOMAIN calls :
               \/ ReadCatalogue(i) \/ ReadDetails(i)
               \/ StartPairing(i) \/ StopPairing(i) \/ AnswerPairing(i)
          /\ UNCHANGED <<scene, paneVars, sessionVars, live, panelVars, screen, heard, unasked>>

\* handleAsync: a pairing replaces whatever panel is open.
PanelAfter(r) ==
  CASE r.kind = "started" /\ ~r.failed -> [kind |-> "qrcode"]
    [] r.kind = "stopped" /\ panel.kind = "qrcode" -> Closed
    [] OTHER -> panel

HandleAsync ==
  /\ Ready /\ async # << >>
  /\ async' = Tail(async)
  /\ LET r == Head(async)
     IN /\ picker' = IF r.kind = "models" THEN Loaded(r) ELSE picker
        /\ panel' = PanelAfter(r)
        /\ remote' = IF r.kind = "started" /\ ~r.failed THEN [remote EXCEPT !.shown = r.code] ELSE remote
  /\ Draws(entries)
  /\ UNCHANGED <<scene, entries, look, height, sessionVars, live, drivers, calls, screen, heard, unasked>>

-----------------------------------------------------------------------------
(* The terminal of an agent.  The loop waits in the handling of the key.   *)

EnterNative == /\ May("native") /\ Keymap
               /\ \E a \in {b \in Agents : live.up[b]} :
                    screen' = [screen EXCEPT !.dirty = TRUE, !.native = a]
               /\ UNCHANGED <<scene, paneVars, sessionVars, live, panelVars, callVars, heard, unasked>>

\* The detach key, the end of the agent's output, or a stopped interface.
LeaveNative == /\ Native
               /\ live' = sess
               /\ screen' = [screen EXCEPT !.native = "", !.stopped = @ \/ Stops(sess)]
               /\ heard' = [heard EXCEPT !.announced = Announced(sess)]
               /\ pane' = Settle(Rendered(pane, pane.look), 0, pane.height)
               /\ UNCHANGED <<scene, entries, look, height, search, sessionVars, panelVars, callVars, unasked>>

-----------------------------------------------------------------------------
(* The panes.                                                              *)

NotPanes == <<sessionVars, live, panelVars, callVars, heard, unasked>>

\* A line of Duo, as /status says one.
ShowStatus == /\ NextSeq + Spoken <= scene.messages
              /\ entries' = AppendEntry(1, FALSE)
              /\ UNCHANGED <<scene, look, height, pane, search>>

\* A key of the prompt is the prompt's; any other key ends a committed search first.
SearchKey == \/ \E query \in {"", "word"} : OpenSearch(query) /\ ~Prompting
             \/ \E query \in {"", "word", "none"} : TypeQuery(query)
             \/ EnterSearch
             \/ SearchJump
             \/ (Prompting \/ Navigating) /\ CloseSearch(TRUE)
             \/ Navigating /\ CloseSearch(FALSE)

PaneKey == /\ May("panes") /\ Listening /\ panel.kind = "none"
           /\ \/ May("search") /\ SearchKey
              \/ Scroll
              \/ Resize
              \/ search.mode = "off" /\ (ToggleTimestamps \/ ShowStatus)
           /\ Handled
           /\ UNCHANGED NotPanes

-----------------------------------------------------------------------------
\* New and run: the interface subscribes before it reads the View, and announces the
\* agents that are connected.
InterfaceInit ==
  /\ scene \in Scenes
  /\ PaneInit
  /\ \E mode \in scene.modes, up \in {f \in [Agents -> BOOLEAN] : \A a \in Agents \ scene.bridges : f[a]} :
       sess = [mode |-> mode, phase |-> "fresh", round |-> {}, pause |-> "running",
               driver |-> [a \in Agents |-> "pi"], up |-> up, landed |-> FALSE, ended |-> ""]
  /\ live = sess
  /\ bus = << >> /\ news = << >>
  /\ panel = Closed
  /\ picker = [agent |-> "Austin", of |-> "", all |-> NoCatalogue, loaded |-> FALSE, loading |-> FALSE]
  /\ drivers = [agent |-> "Austin", current |-> "pi"]
  /\ calls = << >> /\ async = << >>
  /\ remote = [on |-> FALSE, code |-> 0, shown |-> 0]
  /\ screen = [dirty |-> FALSE, native |-> "", stopped |-> FALSE, gone |-> FALSE]
  /\ heard = [announced |-> {a \in Agents : sess.up[a]},
              told |-> [a \in Agents |-> IF sess.up[a] THEN "up" ELSE "none"], missed |-> FALSE]
  /\ unasked = {}

InterfaceNext == \/ Work \/ Task \/ Finish \/ SwitchedElsewhere \/ PauseReached \/ Land \/ EndedElsewhere
                 \/ Connect \/ Publish \/ Speak
                 \/ HandleEvent \/ HandleAsync \/ Tick \/ Draw \/ Leave
                 \/ CloseOverlay \/ OpenModePicker \/ ChooseMode \/ ConfirmMode \/ ConfirmResume
                 \/ RequestQuit \/ ConfirmQuit \/ RequestRecall \/ ConfirmRecall \/ RequestNewSession
                 \/ OpenSessions \/ ChooseSession
                 \/ PauseVerb \/ OpenDriverPicker \/ SwitchDriverAgent \/ ApplyDriver \/ RequestRestart
                 \/ OpenPicker \/ SwitchModelAgent \/ ApplyPickerModel \/ OpenDetails \/ RequestPairing \/ Return
                 \/ EnterNative \/ LeaveNative
                 \/ PaneKey

InterfaceSpec == InterfaceInit /\ [][InterfaceNext]_interfaceVars

\* The loop draws after a batch, which has an end; its select takes every branch that
\* stays ready in the end, and so does the loop of an agent's terminal.  Where nothing
\* ends a session no fairness is asked for.
Fairly(A) == May("leave") /\ A
Fairness == /\ WF_interfaceVars(Fairly(Draw)) /\ WF_interfaceVars(Fairly(Leave))
            /\ SF_interfaceVars(Fairly(HandleEvent))
            /\ WF_interfaceVars(Fairly(screen.stopped /\ LeaveNative))
FairInterfaceSpec == InterfaceSpec /\ Fairness

-----------------------------------------------------------------------------
InterfaceTypeOK ==
  /\ sess.mode \in Modes /\ sess.round \subseteq UNION {Holds(m) : m \in Modes}
  /\ panel.kind \in {"none", "confirm", "modes", "sessions", "drivers", "models", "details", "qrcode"}
  /\ Len(bus) <= scene.buffer /\ Len(async) <= scene.channel /\ Len(calls) <= scene.calls
  /\ screen.native \in Agents \cup {""} /\ heard.announced \subseteq Agents

\* modeSwitchLoss names all that switchModeLocked discards of the View it reads - but for
\* what it leaves out: the claim that Tony is to verify when FAST becomes LOOP, and the
\* consultations that are open in LOOP.  It is not asked again when the human answers, so
\* this says nothing of what arose meanwhile.
LeftOut(loss) == \/ loss.thing = "claim" /\ loss.from = "FAST" /\ loss.to = "LOOP"
                 \/ loss.thing = "inbox" /\ loss.from = "LOOP"
LossIsConfirmed == InterfaceTypeOK /\ \A loss \in unasked : loss.late \/ LeftOut(loss)

\* Of a switch that would reset the round: it first names exactly what is discarded.  What
\* the round gained while the question was open is not named, and goes all the same.
NamesWhatGoes == \A loss \in unasked : LeftOut(loss)

\* What the interface shows agrees with the session once nothing is under way: the last
\* line about the connection of an agent, the catalogue in the model panel, the driver
\* marked in the driver panel and the pairing code on the screen.
ScreenIsCurrent ==
  /\ bus = << >> /\ news = << >> /\ ~heard.missed =>
       \A a \in Agents : heard.told[a] = "up" <=> sess.up[a]
  /\ panel.kind = "models" /\ picker.loaded => picker.all = Catalogue(picker.agent)
  /\ panel.kind = "drivers" => drivers.current = sess.driver[drivers.agent]
  /\ panel.kind = "qrcode" /\ ~Pairing /\ ~PairingAnswers => remote.on /\ remote.shown = remote.code

\* A drawn pane shows the last entries (syncBlocks, settle and syncSearch, in the order
\* of updateWidgets).
PaneShowsEntries == screen.dirty \/ ShowsEntries

\* A session that any frontend asked to end is handed over by the interface, also when
\* its subscription is full and while the human is in an agent's terminal.
HandedOver == sess.ended # "" ~> screen.gone
=============================================================================
