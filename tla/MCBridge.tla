----------------------------- MODULE MCBridge -----------------------------
(* Instances of BlenderBridge for TLC; the constants are in the cfg files. *)
EXTENDS BlenderBridge
===========================================================================
