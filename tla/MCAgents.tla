------------------------------ MODULE MCAgents ------------------------------
(***************************************************************************)
(* Small instances of Agents: a client driver that switches models live    *)
(* (Pi) and a server driver that does not (opencode, agy), either first.   *)
(***************************************************************************)
EXTENDS Agents

Quiet(first, second) ==
  [kind |-> [a |-> first, b |-> second], live |-> [a |-> first = "client", b |-> second = "client"],
   restarts |-> 0, models |-> 0, switches |-> 0, exits |-> 0, fails |-> 0, plugins |-> 0, saves |-> 0,
   crashes |-> 0, resumes |-> 0, clis |-> 3, explicit |-> FALSE]

\* Model switches, restarts and exits of a server driver whose plugin crashes.
Remodelled == [Quiet("server", "client") EXCEPT !.models = 2, !.restarts = 1, !.exits = 1, !.fails = 1,
                                                !.plugins = 1, !.clis = 4]

\* A driver switch that fails or not, beside a save, with a CLI and a plugin that fail.
Switched == [Quiet("server", "client") EXCEPT !.switches = 1, !.exits = 1, !.fails = 2, !.plugins = 1,
                                              !.saves = 1]

\* A switch cut off by a crash, and the resume.
CutOff == [Quiet("client", "server") EXCEPT !.switches = 1, !.fails = 1, !.saves = 1, !.crashes = 1,
                                            !.resumes = 1]

\* A session that is closed or crashes and is resumed by the plugin's new process.
Resumed == [Quiet("server", "client") EXCEPT !.models = 1, !.plugins = 1, !.saves = 1, !.crashes = 1,
                                             !.resumes = 1]

AgentSetups == {Remodelled, Switched, CutOff, Resumed}

\* An agent that exits and is restarted.
RestartedSetups == {[Quiet("client", "server") EXCEPT !.restarts = 1, !.exits = 1]}

\* A resume that names another driver.
ExplicitSetups == {[Quiet("client", "server") EXCEPT !.resumes = 1, !.explicit = TRUE]}
=============================================================================
