--------------------------- MODULE MCGeneration ---------------------------
(* Instances of Generation for TLC; the constants are in the cfg files.    *)
EXTENDS Generation
===========================================================================
