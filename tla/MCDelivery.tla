----------------------------- MODULE MCDelivery -----------------------------
(***************************************************************************)
(* Delivery on small instances.  Healthy is a session in which nothing     *)
(* goes wrong; each setup names what does.                                 *)
(***************************************************************************)
EXTENDS Delivery

Healthy(mode, commits) ==
  [mode |-> mode, tests |-> FALSE, commits |-> commits, plans |-> 1,
   crashes |-> 0, lost |-> 0, switches |-> FALSE, rounds |-> 0,
   dirty |-> FALSE, merge |-> FALSE, block |-> FALSE]

\* A crash, a lost write and an unfit repository around two deliveries.
GoalSetup == [Healthy("GOAL", 2) EXCEPT !.crashes = 1, !.lost = 1, !.block = TRUE]
FastSetup == [Healthy("FAST", 2) EXCEPT !.tests = TRUE, !.crashes = 1, !.lost = 1, !.block = TRUE]

\* A second task after DONE with the test gate, in GOAL and in FAST, and mode
\* switches both ways at any point of a delivery.
SecondTask ==
  [Healthy("GOAL", 1) EXCEPT !.tests = TRUE, !.plans = 2, !.crashes = 1, !.rounds = 1,
                             !.dirty = TRUE, !.merge = TRUE]
NextFast == [FastSetup EXCEPT !.lost = 0, !.rounds = 1]
Switched == [Healthy("FAST", 1) EXCEPT !.crashes = 1, !.switches = TRUE, !.rounds = 1]
DeliverySetups == {GoalSetup, FastSetup, SecondTask, NextFast, Switched}

\* Live sessions, for the liveness property.
AnsweredSetups ==
  {[Healthy("GOAL", 2) EXCEPT !.tests = TRUE, !.block = TRUE],
   [Healthy("FAST", 1) EXCEPT !.tests = TRUE, !.rounds = 1, !.block = TRUE]}

\* A switch whose second step comes late takes the pending record of a later round:
\* ApprovalIsAnswered does not hold.
LateClearSetups == {[Healthy("FAST", 1) EXCEPT !.switches = TRUE, !.rounds = 1, !.block = TRUE]}

\* One setup per documented promise that the code does not keep.
DoneSetups == {Healthy("GOAL", 2)}
SwitchSetups == {[Switched EXCEPT !.dirty = TRUE, !.merge = TRUE]}
GateSetups == {[Healthy("GOAL", 1) EXCEPT !.tests = TRUE, !.crashes = 1]}
RefusedSetups == {[Healthy("GOAL", 2) EXCEPT !.crashes = 1, !.block = TRUE]}
=============================================================================
