---------------------------- MODULE StepHandoff ----------------------------
(***************************************************************************)
(* What a STEP session promises the user, as its session file tells it:    *)
(* the steps of the queue reach the branch one after the other, each as an *)
(* artifact that was approved for this very step and that no earlier step  *)
(* landed; what has landed stays on record; and the session is finished    *)
(* only when every step of the queue has landed.                           *)
(***************************************************************************)
EXTENDS Naturals, Sequences, SequencesExt

VARIABLES
  approved,    \* the pairs <<step, commit>> the agents have approved so far
  queue,       \* the number of steps in the queue
  landed,      \* the commits of the steps that have landed, in order
  branch,      \* the commit the user's branch is at; 0 is where Duo started
  done         \* is the session finished?

stepVars == <<approved, queue, landed, branch, done>>

StepInit ==
  approved = {} /\ queue = 0 /\ landed = <<>> /\ branch = 0 /\ done = FALSE

Approve == approved \subseteq approved' /\ UNCHANGED branch

\* The next step to land moves the branch forward, to an approved commit.
Land ==
  /\ branch' > branch /\ <<Len(landed) + 1, branch'>> \in approved
  /\ UNCHANGED <<approved, queue, landed, done>>

\* The queue grows (until a step has landed it may be replaced) and steps are
\* ticked; more than one change may reach the file at once.
Record ==
  /\ ~done
  /\ landed # <<>> => queue' >= queue
  /\ IsPrefix(landed, landed') /\ Len(landed') <= queue'
  /\ \A i \in DOMAIN landed' :
       /\ landed'[i] <= branch /\ <<i, landed'[i]>> \in approved'
       /\ \A j \in DOMAIN landed' : landed'[i] = landed'[j] => i = j
  /\ done' => queue' > 0 /\ Len(landed') = queue'

Finished == done \/ (queue > 0 /\ Len(landed) = queue)

NewRound ==
  /\ Finished /\ ~done' /\ landed' = <<>> /\ queue' = 0 /\ approved' = {}
  /\ UNCHANGED branch

StepNext ==
  \/ Approve /\ (Record \/ UNCHANGED <<queue, landed, done>>)
  \/ Land
  \/ NewRound

StepHandoffSpec == StepInit /\ [][StepNext]_stepVars
=============================================================================
