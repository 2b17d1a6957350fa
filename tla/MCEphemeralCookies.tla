------------------------- MODULE MCEphemeralCookies -------------------------
(* Two sites, each the top frame of the other, cookies allowed by default   *)
(* and each site's rule none or session-only.                                *)
EXTENDS EphemeralCookies, TLC

CONSTANTS a, b

MCSite == {a, b}
MCNoDomain == {}
MCEntityList == {}
MCTrustedScheme == {}
MCFeatures == {<<TRUE, TRUE>>, <<FALSE, TRUE>>}
MCSiteRules == {"none", "SESSION_ONLY"}
MCTopRules == {"none"}
Symmetry == Permutations(MCSite)
MCDefaultRules == {"ALLOW"}
=============================================================================
