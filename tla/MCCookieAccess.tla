--------------------------- MODULE MCCookieAccess ---------------------------
(* The two sites of the entity list and two hosts without a registrable     *)
(* domain, a device of the local network and a page of a trusted scheme;    *)
(* every rule for each of them, every choice of the features.               *)
EXTENDS CookieAccess, TLC

CONSTANTS wp, wordpress, router, webui

MCSite == {wp, wordpress, router, webui}
MCNoDomain == {router, webui}
Symmetry == Permutations({wp, wordpress})
MCEntityList == {<<wp, wordpress>>, <<wordpress, wp>>}
MCTrustedScheme == {webui}
MCFeatures == BOOLEAN \X BOOLEAN
MCSiteRules == {"none", "ALLOW", "BLOCK", "SESSION_ONLY"}
MCTopRules == {"none", "ALLOW", "BLOCK"}
MCDefaultRules == {"ALLOW", "BLOCK", "SESSION_ONLY"}
=============================================================================
