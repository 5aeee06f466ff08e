--------------------------- MODULE MCThreadJobQueue ---------------------------
(***************************************************************************)
(* Two threads, two jobs, at most two jobs queued: a push meets a pop that *)
(* swaps, and two pops meet on the last job.  ThreadJobQueueProofs has the *)
(* same safety properties for any number of threads.                       *)
(***************************************************************************)
EXTENDS ThreadJobQueue
===============================================================================
