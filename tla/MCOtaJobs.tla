----------------------------- MODULE MCOtaJobs -----------------------------
(* TLC instance of OtaJobs: two targets, so that one waits for the other,  *)
(* and two requests, so that both may ask before either queues its job.    *)
EXTENDS OtaJobs
=============================================================================
