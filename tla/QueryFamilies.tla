--------------------------- MODULE QueryFamilies ---------------------------
(* The key shared by the journal and the learn tables: the normalised query *)
(* family of a recall or a teach.                                           *)
CONSTANTS
  Families,     \* query families
  NoFamily      \* the empty family

ASSUME NoFamilyAssumption == NoFamily \notin Families
=============================================================================
