---------------------------- MODULE MCJobStream ----------------------------
(* Instances of JobStream for TLC. *)
EXTENDS JobStream

CONSTANTS r1, r2

\* What workers/tasks/ingest.py emits, from the start of a run to its end.
Reading == <<"processing", "extracting", "extracting", "validating", "categorizing">>
FullScripts == {Append(Reading, "completed"), Append(Reading, "review_required"),
                <<"processing", "failed">>}

\* One progress event before the end: enough to publish out of the order of
\* stamps, and to have an event replayed and the next one received.  A run
\* that fails is one whose last retry was rolled back (Fail).
ShortScripts == {<<"processing", "review_required">>}
=============================================================================
