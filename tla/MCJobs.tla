------------------------------ MODULE MCJobs ------------------------------
(* Instances of JobScheduler for TLC; the constants are in the cfg files.  *)
EXTENDS JobScheduler
===========================================================================
