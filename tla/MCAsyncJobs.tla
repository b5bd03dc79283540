---------------------------- MODULE MCAsyncJobs ----------------------------
(* Two jobs that may share one id or use two. *)
EXTENDS AsyncJobs
=============================================================================
