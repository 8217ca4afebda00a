------------------------------- MODULE MCCli -------------------------------
(* Instance of CliInvocation for TLC; the constants are in the cfg file.   *)
EXTENDS CliInvocation
===========================================================================
