-------------------------- MODULE MCBackgroundCheck --------------------------
(* BackgroundCheck with two worker threads. *)
EXTENDS BackgroundCheck
MCJobs == BgcJobs
=============================================================================
