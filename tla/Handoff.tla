------------------------------ MODULE Handoff ------------------------------
(***************************************************************************)
(* What Duo promises the user about the branch it was started on, without  *)
(* the machinery that keeps the promise: only artifacts the agents have    *)
(* approved enter the branch, the branch only moves forward, and a round   *)
(* is never called done before the branch holds an approved artifact.      *)
(***************************************************************************)
EXTENDS Naturals

VARIABLES
  approved,    \* the commits the agents have approved so far
  branch,      \* the commit the user's branch is at; 0 is where Duo started
  done         \* is the current round finished?

handoffVars == <<approved, branch, done>>

HandoffInit == approved = {} /\ branch = 0 /\ done = FALSE

Approve ==
  /\ approved \subseteq approved'
  /\ UNCHANGED <<branch, done>>

Land ==
  /\ branch' \in approved /\ branch' > branch
  /\ UNCHANGED <<approved, done>>

Finish ==
  /\ ~done /\ branch \in approved
  /\ done' = TRUE
  /\ UNCHANGED <<approved, branch>>

NewRound ==
  /\ done /\ done' = FALSE
  /\ UNCHANGED <<approved, branch>>

HandoffNext == Approve \/ Land \/ Finish \/ NewRound

HandoffSpec == HandoffInit /\ [][HandoffNext]_handoffVars
=============================================================================
