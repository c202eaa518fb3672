----------------------------- MODULE MCMessages -----------------------------
(***************************************************************************)
(* Small instances of Messages: two bridged agents, or one of them behind  *)
(* its terminal only; a few messages, pauses, exits and restarts.          *)
(***************************************************************************)
EXTENDS Messages

Quiet == [works |-> 0, pauses |-> 0, exits |-> 0, switches |-> 0, saves |-> 0, restarts |-> 0,
          live |-> Agents, fallback |-> {}, resumed |-> FALSE]

\* Messages of peers and the human against a pause, cancelled or continued.
PauseSetup == [Quiet EXCEPT !.works = 2, !.pauses = 2]
TerminalSetup == [Quiet EXCEPT !.works = 2, !.pauses = 1, !.exits = 1, !.live = {"Tony"},
                               !.fallback = {"Austin"}]
ExitSetup == [Quiet EXCEPT !.works = 2, !.pauses = 1, !.exits = 1]
SwitchSetup == [Quiet EXCEPT !.works = 1, !.pauses = 1, !.switches = 1]
ResumeSetup == [Quiet EXCEPT !.works = 1, !.pauses = 1, !.exits = 1, !.resumed = TRUE]
SaveSetup == [Quiet EXCEPT !.pauses = 1, !.saves = 1]
RestartSetup == [Quiet EXCEPT !.works = 1, !.pauses = 1, !.restarts = 1]

MessageSetups == {PauseSetup, TerminalSetup, ExitSetup, SwitchSetup, ResumeSetup, SaveSetup,
                  RestartSetup}

\* Another save of the session is under way when the human pauses it.
SaveSetups == {[Quiet EXCEPT !.pauses = 1, !.saves = 1, !.restarts = 1]}

\* An agent dies in its turn.
DiedSetups == {ExitSetup}
=============================================================================
