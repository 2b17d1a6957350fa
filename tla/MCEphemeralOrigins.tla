------------------------- MODULE MCEphemeralOrigins -------------------------
(* Two sites and two threads: both may ask for the same pair, or one while  *)
(* the other's domain is taken.                                             *)
EXTENDS EphemeralOrigins, TLC

CONSTANTS a, b, t1, t2

MCSite == {a, b}
MCThread == {t1, t2}
MCNoDomain == {}
MCEntityList == {}
MCTrustedScheme == {}
MCFeatures == {<<TRUE, TRUE>>}
MCSiteRules == {"none", "SESSION_ONLY"}
MCTopRules == {"none"}
MCDefaultRules == {"ALLOW"}
Symmetry == Permutations(MCSite) \cup Permutations(MCThread)
=============================================================================
