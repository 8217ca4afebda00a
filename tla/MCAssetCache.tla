--------------------------- MODULE MCAssetCache ---------------------------
(* Instances of AssetCache for TLC; the constants are in the cfg files.    *)
EXTENDS AssetCache
===========================================================================
