--------------------------- MODULE MCProcessorJobs ---------------------------
(* ProcessorJobs for TLC: a result with claims, a failure, and one that    *)
(* the checks refuse.                                                      *)
EXTENDS ProcessorJobs

CONSTANTS caption, failure, ungranted

Outcomes == [r \in Result |-> IF r = failure THEN "failed" ELSE "succeeded"]
Good     == Result \ {ungranted}
=============================================================================
