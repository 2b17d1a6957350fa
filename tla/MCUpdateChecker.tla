-------------------------- MODULE MCUpdateChecker --------------------------
(* Two Brave and two Google components, every list of them in every order.  *)
EXTENDS UpdateChecker

CONSTANTS b1, b2, g1, g2

MCId == {b1, b2, g1, g2}
MCBraveId == {b1, b2}
=============================================================================
