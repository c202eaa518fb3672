----------------------------- MODULE MCHarness -----------------------------
(***************************************************************************)
(* Small instances of Harness: one session per mode, with a few turns,     *)
(* errors, visits of the human and disconnects.                            *)
(***************************************************************************)
EXTENDS Harness

Quiet == [mode |-> "GOAL", session |-> NewState("GOAL"), activities |-> 2, errors |-> 0,
          attaches |-> 0, disconnects |-> 0, holds |-> 0, moves |-> 0]

Planned(policies) == StepPlan(SetSteps(NewQueue, policies))
InStep(s, policies) == [s EXCEPT !.mode = "STEP", !.session = Planned(policies)]
InFast(s) == [s EXCEPT !.mode = "FAST", !.session = NewState("FAST")]
InLoop(s) == [s EXCEPT !.mode = "LOOP", !.session = NewState("FAST")]

GoalSetups ==
  LET goal == [Quiet EXCEPT !.session = SetPlan(NewState("GOAL"))]
  IN  {[goal EXCEPT !.moves = 2],
       [goal EXCEPT !.disconnects = 1, !.attaches = 1, !.activities = 1],
       [goal EXCEPT !.session.phase = "INTEGRATE", !.moves = 2, !.activities = 1]}

FastSetups ==
  LET run == InFast(Quiet)
  IN  {[run EXCEPT !.moves = 2, !.errors = 1],
       [run EXCEPT !.attaches = 2, !.disconnects = 1, !.activities = 1, !.holds = 2],
       [run EXCEPT !.errors = 1, !.disconnects = 1]}

StepSetups ==
  {[InStep(Quiet, <<"FAST", "GOAL">>) EXCEPT !.moves = 7, !.activities = 1],
   [InStep(Quiet, <<"FAST">>) EXCEPT !.moves = 3, !.disconnects = 1, !.activities = 1]}

LoopSetups ==
  {[InLoop(Quiet) EXCEPT !.activities = 3],
   [InLoop(Quiet) EXCEPT !.disconnects = 1, !.holds = 1, !.activities = 1]}

HarnessSetups == GoalSetups \cup FastSetups \cup StepSetups \cup LoopSetups

\* A verification that Austin asked for at the end of a turn is handed back to him.
HandedBackSetups == {[InFast(Quiet) EXCEPT !.moves = 2, !.activities = 3]}
=============================================================================
