---------------------------- MODULE CookieAccess ----------------------------
(***************************************************************************)
(* The cookie decisions of                                                 *)
(* components/content_settings/core/common/cookie_settings_base.cc: may a  *)
(* request use persistent storage (IsFullCookieAccessAllowed), must it use *)
(* ephemeral storage (ShouldUseEphemeralStorage), and how the two answers  *)
(* move when the user edits the cookie rules.                              *)
(*                                                                         *)
(* A url and an origin are represented by their registrable domain, or by  *)
(* their host where it has none: an IP address, localhost, a chrome:// page.*)
(* The rule map and the decision the overrides wrap                        *)
(* (HostContentSettingsMap, CookieSettingsBase) are upstream code.         *)
(***************************************************************************)
EXTENDS Naturals

CONSTANTS
    Site,          \* registrable domains, and hosts without one
    NoDomain,      \* the hosts without a registrable domain
    NoSite,        \* an absent origin, a null SiteForCookies, an invalid url
    EntityList,    \* the pairs <<url, first party>> of kWp and kWordpress
    TrustedScheme, \* sites whose scheme passes IsThirdPartyCookiesAllowedScheme
    Features,      \* pairs <<kBraveEphemeralStorage, kBraveFirstParty...>>
    SiteRules,     \* what a rule for one site may say, "none" among them
    TopRules,      \* what a rule for everything below one top site may say
    DefaultRules   \* what the default rule may say

ASSUME NoSiteAssumption == NoSite \notin Site
ASSUME DomainAssumption == NoDomain \subseteq Site
ASSUME EntityAssumption == EntityList \subseteq Site \X Site
ASSUME RulesAssumption ==
    /\ SiteRules \subseteq {"none", "ALLOW", "BLOCK", "SESSION_ONLY"}
    /\ TopRules \subseteq {"none", "ALLOW", "BLOCK"}
    /\ DefaultRules \subseteq {"ALLOW", "BLOCK", "SESSION_ONLY"}
    /\ "none" \in SiteRules \cap TopRules /\ "ALLOW" \in DefaultRules

VARIABLES
    features,         \* the two features, fixed when the browser starts
    block_third_party,\* the preference behind ShouldBlockThirdPartyCookies
    site_rule,        \* rules with this site as primary pattern, * as secondary
    top_rule,         \* rules with * as primary pattern, this site as secondary
    default_rule      \* the rule with * for both

settings == <<features, block_third_party, site_rule, top_rule, default_rule>>

EphemeralStorageEnabled == features[1]
FirstPartyEphemeralEnabled == features[2]

\* The requests the decisions are asked about.  site_for_cookies is the top
\* frame's site, or null below a frame of another site.
Requests ==
    [url : Site, site_for_cookies : {NoSite}, top_frame_origin : Site \cup {NoSite}]
    \cup {[url |-> u, site_for_cookies |-> s, top_frame_origin |-> t] :
             u \in Site, s \in Site, t \in {NoSite}}
    \cup {[url |-> u, site_for_cookies |-> s, top_frame_origin |-> s] :
             u \in Site, s \in Site}

-----------------------------------------------------------------------------
(* The rules and the upstream decision.                                    *)

\* The rule that applies, the more specific primary pattern first.
Rule(url, first_party) ==
    IF url \in Site /\ site_rule[url] # "none"
    THEN [setting |-> site_rule[url], primary |-> url, secondary |-> "*"]
    ELSE IF first_party \in Site /\ top_rule[first_party] # "none"
    THEN [setting |-> top_rule[first_party], primary |-> "*", secondary |-> first_party]
    ELSE [setting |-> default_rule, primary |-> "*", secondary |-> "*"]

IsExplicit(rule) == rule.primary # "*" \/ rule.secondary # "*"

IsAllowed(setting) == setting \in {"ALLOW", "SESSION_ONLY"}

IsThirdPartyRequest(url, site_for_cookies) ==
    site_for_cookies = NoSite \/ site_for_cookies # url

\* Mutant: an explicit session-only rule is trusted as upstream would.
MutTrustExplicit(rule, first_party) == FALSE

\* ShouldBlockThirdPartyIfSettingIsExplicit
ShouldBlockThirdPartyIfSettingIsExplicit(rule, first_party) ==
    /\ block_third_party
    /\ rule.setting = "SESSION_ONLY"
    /\ IsExplicit(rule)
    /\ first_party \notin TrustedScheme

\* BRAVE_COOKIE_SETTINGS_BASE_DECIDE_ACCESS: is a third-party request refused?
BlockThird(rule, first_party) ==
    \/ /\ IsAllowed(rule.setting)
       /\ ~IsExplicit(rule)
       /\ block_third_party
       /\ first_party \notin TrustedScheme
    \/ ShouldBlockThirdPartyIfSettingIsExplicit(rule, first_party)

\* GetCookieSettingInternal
CookieSetting(url, first_party, third_party) ==
    LET rule == Rule(url, first_party)
    IN  IF third_party /\ BlockThird(rule, first_party) THEN "BLOCK" ELSE rule.setting

\* GetFirstPartyURL
FirstParty(r) ==
    IF r.top_frame_origin # NoSite THEN r.top_frame_origin ELSE r.site_for_cookies

\* IsFullCookieAccessAllowed_ChromiumImpl
ChromiumAllows(r) ==
    IsAllowed(CookieSetting(r.url, FirstParty(r),
                            IsThirdPartyRequest(r.url, r.site_for_cookies)))

\* IsCookieSessionOnly
IsCookieSessionOnly(url) == CookieSetting(url, url, FALSE) = "SESSION_ONLY"

-----------------------------------------------------------------------------
(* The decisions.                                                          *)

\* GetDomainAndRegistry: empty for a host without a registrable domain, and
\* for an url that is not valid.
GetDomainAndRegistry(url) == IF url \in Site \ NoDomain THEN url ELSE NoSite

\* Mutant: the url is not compared with the pair's.
MutAnyEntity(url, first_party) ==
    \/ GetDomainAndRegistry(url) = GetDomainAndRegistry(first_party)
    \/ \E e \in EntityList : e[2] = first_party

BraveIsAllowedThirdParty(url, first_party) ==
    \/ GetDomainAndRegistry(url) = GetDomainAndRegistry(first_party)
    \/ <<url, first_party>> \in EntityList

IsFirstPartyAccessAllowed(first_party) ==
    IsAllowed(CookieSetting(first_party, first_party, first_party = NoSite))

\* The first-party setting is session-only by a rule of its own.
IsSessionOnlyExplicit(setting, first_party) ==
    setting = "SESSION_ONLY" /\ IsExplicit(Rule(first_party, first_party))

\* The patterns of a rule that puts Shields down for one top site.
IsShieldsDown(setting, rule) ==
    setting = "ALLOW" /\ rule.primary = "*" /\ rule.secondary # "*"

\* Mutant: without the lookup of the main frame.
MutDefaultMode(r) == "kDefault"

MainFrameMode(r) ==
    LET fp == FirstParty(r)
        setting == CookieSetting(fp, fp, IsThirdPartyRequest(fp, r.site_for_cookies))
    IN  IF ~FirstPartyEphemeralEnabled THEN "kDefault"
        ELSE IF IsSessionOnlyExplicit(setting, fp) THEN "kEphemeral"
        ELSE IF IsShieldsDown(setting, Rule(fp, fp)) THEN "kShieldsDown"
        ELSE "kDefault"

IsFullCookieAccessAllowed(r) ==
    \/ ChromiumAllows(r) /\ MainFrameMode(r) # "kEphemeral"
    \/ /\ ~ChromiumAllows(r)
       /\ IsFirstPartyAccessAllowed(FirstParty(r))
       /\ \/ BraveIsAllowedThirdParty(r.url, FirstParty(r))
          \/ MainFrameMode(r) = "kShieldsDown" /\ IsCookieSessionOnly(r.url)

ShouldUseEphemeralStorage(r) ==
    LET fp == FirstParty(r)
        first_party_setting == CookieSetting(fp, fp, FALSE)
    IN  /\ EphemeralStorageEnabled
        /\ fp # NoSite
        /\ \/ FirstPartyEphemeralEnabled /\ IsSessionOnlyExplicit(first_party_setting, fp)
           \/ /\ r.url # fp
              /\ ~IsFullCookieAccessAllowed(r)
              /\ IsAllowed(first_party_setting)

IsEphemeralCookieAccessAllowed(r) ==
    ShouldUseEphemeralStorage(r) \/ IsFullCookieAccessAllowed(r)

-----------------------------------------------------------------------------
(* The user's edits.                                                       *)

InitSettings ==
    /\ features \in Features
    /\ block_third_party = TRUE
    /\ site_rule = [s \in Site |-> "none"]
    /\ top_rule = [s \in Site |-> "none"]
    /\ default_rule = "ALLOW"

SetSiteRule(s, setting) ==
    /\ site_rule' = [site_rule EXCEPT ![s] = setting]
    /\ UNCHANGED <<features, block_third_party, top_rule, default_rule>>

SetTopRule(s, setting) ==
    /\ top_rule' = [top_rule EXCEPT ![s] = setting]
    /\ UNCHANGED <<features, block_third_party, site_rule, default_rule>>

SetDefaultRule(setting) ==
    /\ default_rule' = setting
    /\ UNCHANGED <<features, block_third_party, site_rule, top_rule>>

ToggleBlockThirdParty ==
    /\ block_third_party' = ~block_third_party
    /\ UNCHANGED <<features, site_rule, top_rule, default_rule>>

EditSettings ==
    \/ \E s \in Site : \E setting \in SiteRules \ {site_rule[s]} : SetSiteRule(s, setting)
    \/ \E s \in Site : \E setting \in TopRules \ {top_rule[s]} : SetTopRule(s, setting)
    \/ \E setting \in DefaultRules \ {default_rule} : SetDefaultRule(setting)
    \/ ToggleBlockThirdParty

SettingsSpec == InitSettings /\ [][EditSettings]_settings

-----------------------------------------------------------------------------
(* Properties.                                                             *)

\* Type invariant.
SettingsTypeOK ==
    /\ features \in Features
    /\ block_third_party \in BOOLEAN
    /\ site_rule \in [Site -> SiteRules]
    /\ top_rule \in [Site -> TopRules]
    /\ default_rule \in DefaultRules

\* Different hosts the code takes for one party: an entity pair, or two hosts
\* that have no registrable domain.
TakenForOneParty(url, first_party) ==
    <<url, first_party>> \in EntityList \/ {url, first_party} \subseteq NoDomain

\* A page whose own rule is session-only, with the feature that makes all of
\* it ephemeral.
SessionOnlyPage(first_party) ==
    /\ FirstPartyEphemeralEnabled
    /\ IsSessionOnlyExplicit(CookieSetting(first_party, first_party, FALSE), first_party)

\* A request that must use ephemeral storage reaches the persistent jar too in
\* two cases only: the upstream decision refuses a host the code takes for the
\* page's own party, or third parties are blocked and the request has no
\* site_for_cookies, so that the main frame itself is looked up as a third
\* party.  (ShouldUseEphemeralStorage and IsFullCookieAccessAllowed look the
\* main frame up each in its own way.)
EphemeralExcludesFull ==
    \A r \in Requests :
        LET fp == FirstParty(r)
        IN  ShouldUseEphemeralStorage(r) /\ IsFullCookieAccessAllowed(r) =>
                \/ TakenForOneParty(r.url, fp) /\ ~ChromiumAllows(r)
                \/ /\ r.site_for_cookies = NoSite
                   /\ block_third_party /\ fp \notin TrustedScheme

\* While third parties are blocked, a third party has persistent storage only
\* by a rule of its own that allows it, by Shields down for the top site,
\* below a trusted scheme, or because the code takes it for the page's own
\* party (IsFullCookieAccessAllowed and the decision macro together).
ThirdPartyNeedsReason ==
    \A r \in Requests :
        LET fp == FirstParty(r)
        IN  block_third_party /\ r.url # fp /\ IsFullCookieAccessAllowed(r) =>
                \/ site_rule[r.url] = "ALLOW"
                \/ fp \in Site /\ top_rule[fp] = "ALLOW"
                \/ fp \in TrustedScheme
                \/ TakenForOneParty(r.url, fp)

BlocksThirdPartyNow == block_third_party # block_third_party' /\ block_third_party'

\* Blocking third-party cookies gives a request persistent storage it did not
\* have only below a session-only page, and there only to a host the code
\* takes for the page's own party or to a request without a site_for_cookies:
\* a refusal of the upstream decision is what opens the second half of
\* IsFullCookieAccessAllowed, and what hides the main frame's mode.
BlockingNeverGrants ==
    [][BlocksThirdPartyNow =>
         \A r \in Requests :
            IsFullCookieAccessAllowed(r)' /\ ~IsFullCookieAccessAllowed(r) =>
                /\ SessionOnlyPage(FirstParty(r))
                /\ \/ TakenForOneParty(r.url, FirstParty(r))
                   \/ r.site_for_cookies = NoSite]_settings
=============================================================================
