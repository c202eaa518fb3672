----------------------------- MODULE MCInterface -----------------------------
(***************************************************************************)
(* Small instances of Interface, one for each group of its topics.         *)
(***************************************************************************)
EXTENDS Interface

Quiet == [topics |-> {}, known |-> {}, modes |-> {"GOAL"}, buffer |-> 1, channel |-> 1, calls |-> 0, bridges |-> {},
          codes |-> 0, window |-> 0, messages |-> 0, sizes |-> {}, resizes |-> FALSE]

\* Switches between all modes while agents work and another frontend switches; and with
\* pauses.
Switching == [Quiet EXCEPT !.topics = {"modes", "elsewhere"}, !.modes = Modes]
Pausing == [Quiet EXCEPT !.topics = {"modes", "pause"}]

\* Every way to end a session, with a full subscription and from an agent's terminal.
Leaving == [Quiet EXCEPT !.topics = {"leave", "native"}]

\* Bridges that come and go.
Bridges == [Quiet EXCEPT !.topics = {"agents", "native"}, !.bridges = {"Tony"}, !.buffer = 3]

\* Drivers before a task, in a pause and after DONE.
Driving == [Quiet EXCEPT !.topics = {"drivers", "pause"}]

\* Catalogues and texts that are read beside the loop, with little room for answers.
Reading == [Quiet EXCEPT !.topics = {"models", "details"}, !.calls = 3]
Pairings == [Quiet EXCEPT !.topics = {"remote"}, !.calls = 2, !.codes = 2]

\* Entries that leave the window, scrolled, searched and resized.
Growing == [Quiet EXCEPT !.topics = {"panes"}, !.window = 2, !.messages = 4, !.sizes = {0, 1, 2}]
Searching == [Quiet EXCEPT !.topics = {"panes", "search"}, !.window = 2, !.messages = 3, !.sizes = {1}]
Resized == [Growing EXCEPT !.messages = 3, !.sizes = {1}, !.resizes = TRUE]

InterfaceScenes == {Switching, Pausing, Leaving, Bridges, Driving, Reading, Pairings, Growing, Searching, Resized}

\* The corners in which the interface is known to fail.
OverlapScenes == {[Pairings EXCEPT !.known = {"overlap"}, !.channel = 2]}
RestoredScenes == {[Searching EXCEPT !.known = {"restored"}]}
DriverScenes == {[Reading EXCEPT !.topics = {"models", "drivers"}]}
LateScenes == {[Switching EXCEPT !.known = {"late"}]}
=============================================================================
