------------------------------ MODULE MCObserver ------------------------------
(***************************************************************************)
(* Small instances of Observer.                                            *)
(***************************************************************************)
EXTENDS Observer

On(t) == [enabled |-> TRUE, target |-> t, written |-> TRUE]
Off(t) == [enabled |-> FALSE, target |-> t, written |-> TRUE]
NoEnv == [enabled |-> "unset", target |-> ""]

None == [env |-> NoEnv, default |-> "t1", targets |-> {}, files |-> {On("t1")}, keys |-> {TRUE},
         opens |-> {"none", "reports"}, phone |-> FALSE, buffer |-> 2, maxEvents |-> 1, kept |-> 2,
         requests |-> 0, saves |-> 0, fails |-> 0, langs |-> 0, says |-> 0, tasks |-> 0, closes |-> 0,
         known |-> {}]

\* Requests of the panel, and of the phone beside it, with and without a key.
Asked == [None EXCEPT !.requests = 3, !.closes = 1]
Phoned == [None EXCEPT !.requests = 2, !.phone = TRUE, !.langs = 1, !.keys = {TRUE, FALSE}]

\* Settings saved again, closed and read back, under every environment.
Saved(env) == [None EXCEPT !.env = env, !.targets = {"", "t1"}, !.opens = {"config"},
                           !.files = {NoSection, On("t2")}, !.keys = {TRUE, FALSE},
                           !.saves = 1, !.fails = 1, !.closes = 1]
SavedTwice == [Saved(NoEnv) EXCEPT !.saves = 2, !.requests = 1, !.opens = {"config", "reports"}]
Environments == [enabled : {"unset", "on", "off"}, target : {"", "t2"}]

\* Tasks and the agents' words, and the language switched between them.
Talked == [None EXCEPT !.tasks = 2, !.says = 2, !.langs = 1, !.closes = 1]

\* The observer is replaced while it works.
SwapSetups == {[None EXCEPT !.requests = 2, !.langs = 1, !.known = {"swap"}]}

\* The key is stored and the settings are not.
KeySetups == {[Saved(NoEnv) EXCEPT !.known = {"key"}]}

\* One report, and nothing else happens.
PhoneSetups == {[None EXCEPT !.requests = 1, !.phone = TRUE]}

Launches == {Asked, Phoned, Talked, SavedTwice} \cup {Saved(env) : env \in Environments}
=============================================================================
