--------------------------- MODULE MCBiostarLink ---------------------------
(* Instances of BiostarLink for TLC. *)
EXTENDS BiostarLink

CONSTANTS poll, scan, preview
=============================================================================
