---------------------------- MODULE MCImportJob ----------------------------
(***************************************************************************)
(* Instances of ImportJob for TLC, and what the repository says of imports *)
(* that are left to the background task.                                   *)
(***************************************************************************)
EXTENDS ImportJob

\* "it must not depend on request JWT state that does not exist after restart": a job that
\* was queued for the background task ends.
BackgroundJobEnds == task.st = "pending" ~> job.st \in Done
=============================================================================
