------------------------------ MODULE MCRemote ------------------------------
(***************************************************************************)
(* Small instances of Remote with one phone: two commands, with a markSeen *)
(* that starts afresh at the second; a command while a connection breaks,  *)
(* the relay has forgotten it or a second process takes the room; changes  *)
(* while connections break, Duo is quit and the room ends.                 *)
(***************************************************************************)
EXTENDS Remote

Calm == [keepCommands |-> 1, starts |-> 1, changes |-> 0, commands |-> 0, hostBreaks |-> 0,
         pageBreaks |-> 0, quits |-> 0, ends |-> 0]

Commanded == [Calm EXCEPT !.commands = 1]
Changed == [Calm EXCEPT !.changes = 1]

RemoteSetups ==
  {[Calm EXCEPT !.commands = 2],
   [Commanded EXCEPT !.hostBreaks = 1],
   [Commanded EXCEPT !.pageBreaks = 1],
   [Commanded EXCEPT !.pageBreaks = 1, !.keepCommands = 0],
   [Commanded EXCEPT !.starts = 2],
   [Commanded EXCEPT !.ends = 1],
   [Changed EXCEPT !.hostBreaks = 1],
   [Changed EXCEPT !.pageBreaks = 1],
   [Changed EXCEPT !.starts = 2, !.quits = 1],
   [Changed EXCEPT !.ends = 1]}

\* The session changes on and on while the connection of the host breaks.
BrokenSetups == {[Changed EXCEPT !.changes = 2, !.hostBreaks = 1]}
CommandSetups == {Commanded}
=============================================================================
