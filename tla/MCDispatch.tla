---------------------------- MODULE MCDispatch ----------------------------
(* Instances of Dispatch for TLC; the constants are in the cfg files.      *)
EXTENDS Dispatch
===========================================================================
