----------------------------- MODULE MCSessions -----------------------------
(***************************************************************************)
(* Small instances of Sessions: one process after the other with crashes,  *)
(* failed launches, recalls and tools, and two processes that overlap.     *)
(***************************************************************************)
EXTENDS Sessions, TLC

Quiet == [b \in Bounds |-> 0] @@ [overlap |-> FALSE, deaf |-> FALSE]

\* A session that is closed, crashes, fails to launch and is resumed twice,
\* with a call in flight while it is closed.
Resumed == [Quiet EXCEPT !.fresh = 1, !.resumes = 2, !.failures = 1, !.tasks = 1, !.calls = 1,
                         !.crashes = 1, !.requests = 1]

\* A round that is delivered while the human leaves, recalls or starts another session.
Landing == [Quiet EXCEPT !.fresh = 1, !.resumes = 1, !.tasks = 2, !.calls = 2, !.requests = 1,
                         !.crashes = 1, !.applies = 1, !.cleans = 1, !.lists = 1]

\* Two processes at once: a session that is closing or fails to launch, and one
\* that takes it over.
Crossed == [Quiet EXCEPT !.fresh = 1, !.resumes = 1, !.failures = 1, !.tasks = 1, !.calls = 1,
                         !.crashes = 1, !.overlap = TRUE]

\* The other commands beside a session.
Tooled == [Quiet EXCEPT !.fresh = 1, !.tasks = 1, !.calls = 1, !.requests = 1, !.applies = 1,
                        !.cleans = 1, !.lists = 1, !.overlap = TRUE]

\* A restart an agent asks for.
Restarted == [Quiet EXCEPT !.fresh = 1, !.tasks = 1, !.restarts = 1, !.requests = 1, !.calls = 1]

SessionSetups == {Resumed, Landing, Crossed, Tooled, Restarted}

\* A bridge that cannot listen, so that Start closes the session.
Deaf == [Quiet EXCEPT !.fresh = 1, !.failures = 1, !.deaf = TRUE]

\* The sessions in which RestartStops, LandedIsNotRecalled, AcceptedSurvives and
\* CloseEnds fail.
RestartSetups == {Restarted}
RecallSetups == {Landing}
CrossedSetups == {Crossed}
DeafSetups == {Deaf}
=============================================================================
