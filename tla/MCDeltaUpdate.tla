--------------------------- MODULE MCDeltaUpdate ---------------------------
(* Three releases and one run of setup.exe by hand, for TLC. *)
EXTENDS DeltaUpdate
=============================================================================
