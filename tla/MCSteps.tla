------------------------------ MODULE MCSteps ------------------------------
(***************************************************************************)
(* Small instances of Steps: two steps are enough for a first, a last and  *)
(* an appended one; three commits for a head that moves under an approval. *)
(***************************************************************************)
EXTENDS Steps

Healthy ==
  [plans |-> 1, queue |-> 2, commits |-> 2, crashes |-> 0, lost |-> 0, rounds |-> 0,
   policies |-> {"FAST"}, dirty |-> FALSE, merge |-> FALSE, block |-> FALSE]

\* FAST steps: a crash, a failed write between two steps and before a crash, an
\* unfit repository.
FastSetup == [Healthy EXCEPT !.crashes = 1]
LostSetup == [Healthy EXCEPT !.lost = 1]
LostCrash == [LostSetup EXCEPT !.crashes = 1, !.queue = 1]
BlockedSetup == [Healthy EXCEPT !.crashes = 1, !.queue = 1, !.block = TRUE]
\* GOAL and mixed queues.
GoalSetup == [Healthy EXCEPT !.policies = {"GOAL"}, !.crashes = 1, !.queue = 1, !.commits = 3]
MergeSetup == [Healthy EXCEPT !.policies = {"GOAL"}, !.merge = TRUE, !.dirty = TRUE, !.queue = 1]
MixedSetup == [Healthy EXCEPT !.policies = Policies]
RoundsSetup == [Healthy EXCEPT !.rounds = 1, !.queue = 1, !.plans = 2, !.crashes = 1]

StepSetups ==
  {FastSetup, LostSetup, LostCrash, BlockedSetup, GoalSetup, MergeSetup, MixedSetup, RoundsSetup}

\* A last step that waits for its signatures when Duo stops.
WaitingSetups == {[Healthy EXCEPT !.crashes = 1, !.queue = 1]}

\* A first step that lands while Duo stops.
BehindSetups == {FastSetup}
=============================================================================
