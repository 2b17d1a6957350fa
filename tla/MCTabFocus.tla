----------------------------- MODULE MCTabFocus -----------------------------
(* Four tabs in two windows, for TLC. *)
EXTENDS TabFocusPage

CONSTANTS t1, t2, t3, t4, cooking, blank

MCTab == {t1, t2, t3, t4}
MCTopic == {cooking, blank}
MCFirstStrips == <<<<t1, t2, t3>>, <<t4>>>>
=============================================================================
