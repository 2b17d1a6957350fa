------------------------- MODULE MCRenameAtStartup -------------------------
(* An object that takes up to three increments, and two kills, for TLC. *)
EXTENDS RenameAtStartup
=============================================================================
