----------------------------- MODULE MCStatus -----------------------------
(* Instances of ClientStatus for TLC; the constants are in the cfg files.  *)
EXTENDS ClientStatus
===========================================================================
