------------------------------- MODULE MCLoop -------------------------------
(***************************************************************************)
(* Small instances of Loop.  A task costs two events (one per agent), a    *)
(* consultation two; two commits tell a finished artifact from later work. *)
(***************************************************************************)
EXTENDS Loop

Healthy ==
  [events |-> 4, commits |-> 0, crashes |-> 0, lost |-> 0, drops |-> 0, pauses |-> 0, turns |-> 2,
   limit |-> 2, calls |-> {}, block |-> FALSE, dirty |-> FALSE, late |-> FALSE]

\* A consultation among other events, acknowledged in batches.
BatchSetup == [Healthy EXCEPT !.calls = {"consult", "batch", "peer"}, !.limit = 0, !.events = 5]
ConsultCrash == [Healthy EXCEPT !.calls = {"single", "consult"}, !.crashes = 1, !.limit = 1]
AskAndFinish == [Healthy EXCEPT !.calls = {"single", "consult", "finish"}, !.turns = 1, !.limit = 1]
\* Tony hears nothing of it.
DeafSetup == [Healthy EXCEPT !.calls = {"single", "consult"}, !.turns = 1, !.limit = 4, !.drops = 4]
PeerSetup == [Healthy EXCEPT !.calls = {"single", "peer", "batch"}, !.events = 3, !.crashes = 1,
                             !.limit = 1]
\* Timers, observed steps, and a budget that runs out.
TimerSetup == [Healthy EXCEPT !.calls = {"single", "wait", "timer"}, !.events = 3, !.drops = 1]
StepSetup == [Healthy EXCEPT !.calls = {"single", "step"}, !.events = 3, !.commits = 1, !.pauses = 1,
                             !.limit = 3, !.drops = 3, !.turns = 1]
\* A finish: taken back by the human, blocked, interrupted by a crash.
FinishSetup == [Healthy EXCEPT !.calls = {"single", "finish", "human"}, !.commits = 1,
                               !.late = TRUE, !.crashes = 1, !.limit = 0]
BlockedSetup == [Healthy EXCEPT !.calls = {"single", "finish"}, !.commits = 1, !.block = TRUE,
                                !.dirty = TRUE, !.crashes = 2, !.events = 2, !.limit = 0]
LostSetup == [Healthy EXCEPT !.calls = {"single", "finish", "human"}, !.lost = 1,
                             !.crashes = 1, !.limit = 1, !.turns = 1]

LoopSetups ==
  {BatchSetup, ConsultCrash, AskAndFinish, DeafSetup, PeerSetup, TimerSetup, StepSetup,
   FinishSetup, BlockedSetup, LostSetup}

\* The human interrupts a delivery that has begun.
LateSetups == {[Healthy EXCEPT !.calls = {"single", "finish", "human"}, !.late = TRUE, !.commits = 2]}
=============================================================================
