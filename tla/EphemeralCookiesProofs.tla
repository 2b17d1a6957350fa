----------------------- MODULE EphemeralCookiesProofs -----------------------
(***************************************************************************)
(* The cookie decisions are consistent under every rule the user can set,  *)
(* and the jars keep the identifiers of two top frames apart, for any      *)
(* sites, entity list, features and number of cookies.                     *)
(***************************************************************************)
EXTENDS EphemeralCookies, TLAPS

-----------------------------------------------------------------------------
(* Requests and settings.                                                  *)

\* A request that says its site is in it, and has it as its first party.
LEMMA RequestTypes ==
    ASSUME NEW r \in Requests
    PROVE  /\ r.url \in Site
           /\ r.top_frame_origin \in Site \cup {NoSite}
           /\ r.site_for_cookies \in Site \cup {NoSite}
           /\ FirstParty(r) \in Site \cup {NoSite}
           /\ r.site_for_cookies # NoSite => FirstParty(r) = r.site_for_cookies
           /\ r.site_for_cookies # NoSite => FirstParty(r) # NoSite
  BY NoSiteAssumption DEF Requests, FirstParty

\* What the upstream decision adds to the rule: nothing but a refusal, and
\* only to a third party.
LEMMA CookieSettingOfFirstParty ==
    ASSUME NEW u, NEW f
    PROVE  CookieSetting(u, f, FALSE) = Rule(u, f).setting
  BY DEF CookieSetting

\* What the upstream decision allows, the rule allows.
LEMMA CookieSettingAllows ==
    ASSUME NEW u, NEW f, NEW t \in BOOLEAN, IsAllowed(CookieSetting(u, f, t))
    PROVE  /\ IsAllowed(Rule(u, f).setting)
           /\ ~(t /\ BlockThird(Rule(u, f), f))
           /\ CookieSetting(u, f, t) = Rule(u, f).setting
  BY DEF CookieSetting, IsAllowed

\* The main frame of a request that says its site is looked up as a first
\* party.
LEMMA MainFrameIsFirstParty ==
    ASSUME NEW r \in Requests, r.site_for_cookies # NoSite
    PROVE  CookieSetting(FirstParty(r), FirstParty(r),
                         IsThirdPartyRequest(FirstParty(r), r.site_for_cookies))
               = Rule(FirstParty(r), FirstParty(r)).setting
<1>1. IsThirdPartyRequest(FirstParty(r), r.site_for_cookies) = FALSE
  BY RequestTypes DEF IsThirdPartyRequest
<1> QED
  BY <1>1, CookieSettingOfFirstParty

-----------------------------------------------------------------------------
(* Both answers together.                                                  *)

\* Hosts the comparison of BraveIsAllowedThirdParty cannot tell apart are the
\* same, or are taken for one party.
LEMMA OneParty ==
    ASSUME NEW url \in Site, NEW fp \in Site, BraveIsAllowedThirdParty(url, fp)
    PROVE  url = fp \/ TakenForOneParty(url, fp)
  BY NoSiteAssumption DEF BraveIsAllowedThirdParty, GetDomainAndRegistry, TakenForOneParty

\* Only a page that is known can have a rule of its own.
LEMMA ExplicitPageIsKnown ==
    ASSUME NEW fp \in Site \cup {NoSite}, NEW setting, IsSessionOnlyExplicit(setting, fp)
    PROVE  fp \in Site /\ IsExplicit(Rule(fp, fp))
  BY NoSiteAssumption DEF IsSessionOnlyExplicit, Rule, IsExplicit

\* A request that has a site_for_cookies sees its main frame as it is.
LEMMA SessionOnlyModeIsSeen ==
    ASSUME NEW r \in Requests, SessionOnlyPage(FirstParty(r)),
           MainFrameMode(r) # "kEphemeral"
    PROVE  /\ r.site_for_cookies = NoSite
           /\ block_third_party /\ FirstParty(r) \notin TrustedScheme
<1> DEFINE fp == FirstParty(r)
           third == IsThirdPartyRequest(fp, r.site_for_cookies)
<1>1. /\ FirstPartyEphemeralEnabled
      /\ IsSessionOnlyExplicit(Rule(fp, fp).setting, fp)
  BY CookieSettingOfFirstParty DEF SessionOnlyPage
<1>2. ~IsSessionOnlyExplicit(CookieSetting(fp, fp, third), fp)
  BY <1>1 DEF MainFrameMode
<1>3. CookieSetting(fp, fp, third) # Rule(fp, fp).setting
  BY <1>1, <1>2
<1>4. third /\ BlockThird(Rule(fp, fp), fp)
  BY <1>3 DEF CookieSetting
<1>5. r.site_for_cookies = NoSite
  BY <1>4, RequestTypes DEF IsThirdPartyRequest
<1>6. IsExplicit(Rule(fp, fp))
  BY <1>1 DEF IsSessionOnlyExplicit
<1>7. block_third_party /\ fp \notin TrustedScheme
  BY <1>4, <1>6 DEF BlockThird, ShouldBlockThirdPartyIfSettingIsExplicit
<1> QED
  BY <1>5, <1>7

\* Below a session-only page the upstream decision refuses the page's own host
\* only as a third party, which is to say without a site_for_cookies.
LEMMA OwnHostRefused ==
    ASSUME NEW r \in Requests, SessionOnlyPage(FirstParty(r)),
           r.url = FirstParty(r), ~ChromiumAllows(r)
    PROVE  /\ r.site_for_cookies = NoSite
           /\ block_third_party /\ FirstParty(r) \notin TrustedScheme
<1> DEFINE fp == FirstParty(r)
           third == IsThirdPartyRequest(r.url, r.site_for_cookies)
<1>1. IsSessionOnlyExplicit(Rule(fp, fp).setting, fp)
  BY CookieSettingOfFirstParty DEF SessionOnlyPage
<1>2. Rule(fp, fp).setting = "SESSION_ONLY" /\ IsExplicit(Rule(fp, fp))
  BY <1>1 DEF IsSessionOnlyExplicit
<1>3. ~IsAllowed(CookieSetting(fp, fp, third))
  BY DEF ChromiumAllows
<1>4. third /\ BlockThird(Rule(fp, fp), fp)
  BY <1>2, <1>3 DEF CookieSetting, IsAllowed
<1>5. r.site_for_cookies = NoSite
  BY <1>4, RequestTypes DEF IsThirdPartyRequest
<1>6. block_third_party /\ fp \notin TrustedScheme
  BY <1>2, <1>4 DEF BlockThird, ShouldBlockThirdPartyIfSettingIsExplicit
<1> QED
  BY <1>5, <1>6

\* What opens the second half of the decision to a request below a
\* session-only page.
LEMMA SecondLook ==
    ASSUME NEW r \in Requests, SessionOnlyPage(FirstParty(r)), ~ChromiumAllows(r),
           IsFullCookieAccessAllowed(r)
    PROVE  \/ TakenForOneParty(r.url, FirstParty(r))
           \/ /\ r.site_for_cookies = NoSite
              /\ block_third_party /\ FirstParty(r) \notin TrustedScheme
<1> DEFINE fp == FirstParty(r)
           third == IsThirdPartyRequest(fp, r.site_for_cookies)
<1>1. fp \in Site /\ r.url \in Site
  BY RequestTypes, ExplicitPageIsKnown DEF SessionOnlyPage
<1>2. Rule(fp, fp).setting = "SESSION_ONLY"
  BY CookieSettingOfFirstParty DEF SessionOnlyPage, IsSessionOnlyExplicit
<1>3. MainFrameMode(r) # "kShieldsDown"
  <2>1. CookieSetting(fp, fp, third) # "ALLOW"
    BY <1>2 DEF CookieSetting
  <2> QED
    BY <2>1 DEF MainFrameMode, IsShieldsDown
<1>4. BraveIsAllowedThirdParty(r.url, fp)
  BY <1>3 DEF IsFullCookieAccessAllowed
<1>5. r.url = fp \/ TakenForOneParty(r.url, fp)
  BY <1>1, <1>4, OneParty
<1> QED
  BY <1>5, OwnHostRefused

\* The exceptions of EphemeralExcludesFull, for every session-only page.
SessionOnlyExcludesFull ==
    \A r \in Requests :
        SessionOnlyPage(FirstParty(r)) /\ IsFullCookieAccessAllowed(r) =>
            \/ TakenForOneParty(r.url, FirstParty(r)) /\ ~ChromiumAllows(r)
            \/ /\ r.site_for_cookies = NoSite
               /\ block_third_party /\ FirstParty(r) \notin TrustedScheme

\* The two lookups of the main frame disagree in no other case, whatever the
\* rules, the preference and the features: the statement needs no history of
\* edits.
LEMMA LookupsDisagree == SessionOnlyExcludesFull
<1> SUFFICES ASSUME NEW r \in Requests,
                    SessionOnlyPage(FirstParty(r)), IsFullCookieAccessAllowed(r)
             PROVE  \/ TakenForOneParty(r.url, FirstParty(r)) /\ ~ChromiumAllows(r)
                    \/ /\ r.site_for_cookies = NoSite
                       /\ block_third_party /\ FirstParty(r) \notin TrustedScheme
  BY DEF SessionOnlyExcludesFull
<1>1. CASE ChromiumAllows(r)
  <2>1. MainFrameMode(r) # "kEphemeral"
    BY <1>1 DEF IsFullCookieAccessAllowed
  <2> QED
    BY <2>1, SessionOnlyModeIsSeen
<1>2. CASE ~ChromiumAllows(r)
  BY <1>2, SecondLook
<1> QED
  BY <1>1, <1>2

\* A request that must use ephemeral storage and has persistent storage is one
\* below a session-only page.
LEMMA NeverBothJars == EphemeralExcludesFull
<1> SUFFICES ASSUME NEW r \in Requests,
                    ShouldUseEphemeralStorage(r), IsFullCookieAccessAllowed(r)
             PROVE  SessionOnlyPage(FirstParty(r))
  BY LookupsDisagree DEF EphemeralExcludesFull, SessionOnlyExcludesFull
<1> QED
  BY DEF ShouldUseEphemeralStorage, SessionOnlyPage

\* Whatever the rules, a third party that is let into persistent storage
\* while third parties are blocked has one of the reasons.
LEMMA AlwaysAReason == ThirdPartyNeedsReason
<1> SUFFICES ASSUME NEW r \in Requests, block_third_party, r.url # FirstParty(r),
                    IsFullCookieAccessAllowed(r)
             PROVE  \/ site_rule[r.url] = "ALLOW"
                    \/ FirstParty(r) \in Site /\ top_rule[FirstParty(r)] = "ALLOW"
                    \/ FirstParty(r) \in TrustedScheme
                    \/ TakenForOneParty(r.url, FirstParty(r))
  BY DEF ThirdPartyNeedsReason
<1> DEFINE fp == FirstParty(r)
<1>1. r.url \in Site /\ fp \in Site \cup {NoSite}
  BY RequestTypes
<1>2. CASE ChromiumAllows(r)
  <2>1. IsThirdPartyRequest(r.url, r.site_for_cookies) = TRUE
    BY RequestTypes DEF IsThirdPartyRequest
  <2>2. IsAllowed(CookieSetting(r.url, fp, TRUE))
    BY <1>2, <2>1 DEF ChromiumAllows
  <2>3. IsAllowed(Rule(r.url, fp).setting) /\ ~BlockThird(Rule(r.url, fp), fp)
    BY <2>2, CookieSettingAllows
  <2>4. \/ fp \in TrustedScheme
        \/ Rule(r.url, fp).setting = "ALLOW" /\ IsExplicit(Rule(r.url, fp))
    BY <2>3 DEF BlockThird, ShouldBlockThirdPartyIfSettingIsExplicit, IsAllowed
  <2> QED
    BY <2>4 DEF Rule, IsExplicit
<1>3. CASE ~ChromiumAllows(r)
  <2>1. /\ IsFirstPartyAccessAllowed(fp)
        /\ \/ BraveIsAllowedThirdParty(r.url, fp)
           \/ MainFrameMode(r) = "kShieldsDown"
    BY <1>3 DEF IsFullCookieAccessAllowed
  <2>2. CASE BraveIsAllowedThirdParty(r.url, fp) /\ fp \in Site
    BY <1>1, <2>2, OneParty
  <2>4. CASE fp = NoSite
    <3>1. ~IsAllowed(CookieSetting(NoSite, NoSite, TRUE)) \/ NoSite \in TrustedScheme
      BY NoSiteAssumption
         DEF CookieSetting, Rule, BlockThird, IsExplicit, IsAllowed
    <3> QED
      BY <2>1, <2>4, <3>1 DEF IsFirstPartyAccessAllowed
  <2>3. CASE MainFrameMode(r) = "kShieldsDown"
    <3> DEFINE third == IsThirdPartyRequest(fp, r.site_for_cookies)
    <3>1. IsShieldsDown(CookieSetting(fp, fp, third), Rule(fp, fp))
      BY <2>3 DEF MainFrameMode
    <3>2. third \in BOOLEAN
      BY DEF IsThirdPartyRequest
    <3>3. Rule(fp, fp).setting = "ALLOW" /\ Rule(fp, fp).primary = "*"
          /\ Rule(fp, fp).secondary # "*"
      BY <3>1, <3>2, CookieSettingAllows DEF IsShieldsDown, IsAllowed
    <3> QED
      BY <3>3 DEF Rule
  <2> QED
    BY <1>1, <2>1, <2>2, <2>3, <2>4
<1> QED
  BY <1>2, <1>3

-----------------------------------------------------------------------------
(* The user's edits.                                                       *)

\* The settings start as known ones.
LEMMA InitSettingsTypeOK == InitSettings => SettingsTypeOK
  BY RulesAssumption DEF InitSettings, SettingsTypeOK

\* Each edit sets a rule, the preference or a feature to a known value.
LEMMA EditSettingsTypeOK ==
    ASSUME SettingsTypeOK, EditSettings
    PROVE  SettingsTypeOK'
<1>1. ASSUME NEW s \in Site, NEW setting \in SiteRules, SetSiteRule(s, setting)
      PROVE  SettingsTypeOK'
  BY <1>1 DEF SetSiteRule, SettingsTypeOK
<1>2. ASSUME NEW s \in Site, NEW setting \in TopRules, SetTopRule(s, setting)
      PROVE  SettingsTypeOK'
  BY <1>2 DEF SetTopRule, SettingsTypeOK
<1>3. ASSUME NEW setting \in DefaultRules, SetDefaultRule(setting)
      PROVE  SettingsTypeOK'
  BY <1>3 DEF SetDefaultRule, SettingsTypeOK
<1>4. CASE ToggleBlockThirdParty
  BY <1>4 DEF ToggleBlockThirdParty, SettingsTypeOK
<1> QED
  BY <1>1, <1>2, <1>3, <1>4 DEF EditSettings

\* Nothing else touches the settings.
LEMMA SameSettingsTypeOK ==
    ASSUME SettingsTypeOK, UNCHANGED settings
    PROVE  SettingsTypeOK'
  BY DEF settings, SettingsTypeOK

\* The preference moves alone: when third parties become blocked, no rule
\* and no feature changes.
LEMMA BlockingMovesAlone ==
    ASSUME SettingsTypeOK, EditSettings, BlocksThirdPartyNow
    PROVE  /\ ~block_third_party
           /\ UNCHANGED <<features, site_rule, top_rule, default_rule>>
<1>1. ASSUME NEW s \in Site, NEW setting \in SiteRules, SetSiteRule(s, setting)
      PROVE  FALSE
  BY <1>1 DEF SetSiteRule, BlocksThirdPartyNow
<1>2. ASSUME NEW s \in Site, NEW setting \in TopRules, SetTopRule(s, setting)
      PROVE  FALSE
  BY <1>2 DEF SetTopRule, BlocksThirdPartyNow
<1>3. ASSUME NEW setting \in DefaultRules, SetDefaultRule(setting)
      PROVE  FALSE
  BY <1>3 DEF SetDefaultRule, BlocksThirdPartyNow
<1>4. ToggleBlockThirdParty
  BY <1>1, <1>2, <1>3 DEF EditSettings
<1> QED
  BY <1>4 DEF ToggleBlockThirdParty, BlocksThirdPartyNow, SettingsTypeOK

\* Without blocking, the upstream decision is the rule's.
LEMMA UnblockedIsRule ==
    ASSUME ~block_third_party, NEW u, NEW f, NEW t \in BOOLEAN
    PROVE  CookieSetting(u, f, t) = Rule(u, f).setting
  BY DEF CookieSetting, BlockThird, ShouldBlockThirdPartyIfSettingIsExplicit

\* What depends on the rules alone keeps its value.
LEMMA SameRules ==
    ASSUME UNCHANGED <<features, site_rule, top_rule, default_rule>>, NEW u, NEW f
    PROVE  /\ Rule(u, f)' = Rule(u, f)
           /\ CookieSetting(u, f, FALSE)' = CookieSetting(u, f, FALSE)
           /\ FirstPartyEphemeralEnabled' = FirstPartyEphemeralEnabled
  BY DEF Rule, CookieSetting, FirstPartyEphemeralEnabled

\* Where third parties were not blocked before, blocking them refuses a page
\* its first-party access, or leaves it as it was.
LEMMA SameForMainFrame ==
    ASSUME ~block_third_party,
           UNCHANGED <<features, site_rule, top_rule, default_rule>>,
           NEW r \in Requests
    PROVE  /\ MainFrameMode(r)' = "kShieldsDown" => MainFrameMode(r) = "kShieldsDown"
           /\ IsFirstPartyAccessAllowed(FirstParty(r))'
                => IsFirstPartyAccessAllowed(FirstParty(r))
           /\ IsCookieSessionOnly(r.url)' = IsCookieSessionOnly(r.url)
<1> DEFINE fp == FirstParty(r)
           third == IsThirdPartyRequest(fp, r.site_for_cookies)
<1>1. third \in BOOLEAN /\ (fp = NoSite) \in BOOLEAN
  BY DEF IsThirdPartyRequest
<1>2. /\ Rule(fp, fp)' = Rule(fp, fp)
      /\ CookieSetting(r.url, r.url, FALSE)' = CookieSetting(r.url, r.url, FALSE)
      /\ FirstPartyEphemeralEnabled' = FirstPartyEphemeralEnabled
  BY SameRules
<1>3. /\ CookieSetting(fp, fp, third) = Rule(fp, fp).setting
      /\ CookieSetting(fp, fp, fp = NoSite) = Rule(fp, fp).setting
  BY <1>1, UnblockedIsRule
<1>4. IsFirstPartyAccessAllowed(fp)' => IsFirstPartyAccessAllowed(fp)
  <2>1. SUFFICES ASSUME IsAllowed(CookieSetting(fp, fp, fp = NoSite))'
                 PROVE  IsAllowed(Rule(fp, fp).setting)
    BY <1>3 DEF IsFirstPartyAccessAllowed
  <2>2. IsAllowed(Rule(fp, fp).setting)'
    BY <2>1 DEF CookieSetting, IsAllowed
  <2> QED
    BY <1>2, <2>2 DEF IsAllowed
<1>5. IsCookieSessionOnly(r.url)' = IsCookieSessionOnly(r.url)
  BY <1>2 DEF IsCookieSessionOnly
<1>6. MainFrameMode(r)' = "kShieldsDown" => MainFrameMode(r) = "kShieldsDown"
  <2>1. SUFFICES ASSUME MainFrameMode(r)' = "kShieldsDown"
                 PROVE  MainFrameMode(r) = "kShieldsDown"
    OBVIOUS
  <2>2. /\ FirstPartyEphemeralEnabled'
        /\ CookieSetting(fp, fp, third)' = "ALLOW"
        /\ Rule(fp, fp)'.primary = "*" /\ Rule(fp, fp)'.secondary # "*"
    BY <2>1 DEF MainFrameMode, IsShieldsDown
  <2>3. Rule(fp, fp)'.setting = "ALLOW"
    BY <2>2 DEF CookieSetting
  <2>4. Rule(fp, fp).setting = "ALLOW"
    BY <1>2, <2>3
  <2> QED
    BY <1>2, <1>3, <2>2, <2>4 DEF MainFrameMode, IsShieldsDown, IsSessionOnlyExplicit
<1> QED
  BY <1>4, <1>5, <1>6

\* A request that had no access although the rules allow it is below a
\* session-only page.
LEMMA RefusedByMode ==
    ASSUME ~block_third_party, NEW r \in Requests,
           ChromiumAllows(r), ~IsFullCookieAccessAllowed(r)
    PROVE  SessionOnlyPage(FirstParty(r))
<1> DEFINE fp == FirstParty(r)
           third == IsThirdPartyRequest(fp, r.site_for_cookies)
<1>1. MainFrameMode(r) = "kEphemeral"
  BY DEF IsFullCookieAccessAllowed
<1>2. FirstPartyEphemeralEnabled /\ IsSessionOnlyExplicit(CookieSetting(fp, fp, third), fp)
  BY <1>1 DEF MainFrameMode
<1>3. third \in BOOLEAN
  BY DEF IsThirdPartyRequest
<1>4. CookieSetting(fp, fp, third) = CookieSetting(fp, fp, FALSE)
  BY <1>3, UnblockedIsRule
<1> QED
  BY <1>2, <1>4 DEF SessionOnlyPage

\* What turning the blocking on grants, it grants below a session-only page,
\* to a host taken for the page's own or to a request that hides its site.
LEMMA BlockingStep ==
    ASSUME SettingsTypeOK, EditSettings, BlocksThirdPartyNow, NEW r \in Requests,
           IsFullCookieAccessAllowed(r)', ~IsFullCookieAccessAllowed(r)
    PROVE  /\ SessionOnlyPage(FirstParty(r))
           /\ TakenForOneParty(r.url, FirstParty(r)) \/ r.site_for_cookies = NoSite
<1> DEFINE fp == FirstParty(r)
           third == IsThirdPartyRequest(r.url, r.site_for_cookies)
<1>1. ~block_third_party /\ UNCHANGED <<features, site_rule, top_rule, default_rule>>
  BY BlockingMovesAlone
<1>2. third \in BOOLEAN
  BY DEF IsThirdPartyRequest
<1>3. ChromiumAllows(r) <=> IsAllowed(Rule(r.url, fp).setting)
  BY <1>1, <1>2, UnblockedIsRule DEF ChromiumAllows
<1>4. ChromiumAllows(r)
  <2>1. SUFFICES ASSUME ~ChromiumAllows(r)
                 PROVE  FALSE
    OBVIOUS
  <2>2. ~IsAllowed(Rule(r.url, fp).setting)'
    BY <1>1, <1>3, <2>1, SameRules DEF IsAllowed
  <2>3. ~ChromiumAllows(r)'
    BY <2>2 DEF ChromiumAllows, CookieSetting, IsAllowed
  <2>4. /\ IsFirstPartyAccessAllowed(fp)'
        /\ \/ BraveIsAllowedThirdParty(r.url, fp)
           \/ MainFrameMode(r)' = "kShieldsDown" /\ IsCookieSessionOnly(r.url)'
    BY <2>3 DEF IsFullCookieAccessAllowed
  <2>5. /\ IsFirstPartyAccessAllowed(fp)
        /\ \/ BraveIsAllowedThirdParty(r.url, fp)
           \/ MainFrameMode(r) = "kShieldsDown" /\ IsCookieSessionOnly(r.url)
    BY <1>1, <2>4, SameForMainFrame
  <2> QED
    BY <2>1, <2>5 DEF IsFullCookieAccessAllowed
<1>5. SessionOnlyPage(fp)
  BY <1>1, <1>4, RefusedByMode
<1>6. SessionOnlyPage(fp)'
  BY <1>1, <1>5, SameRules DEF SessionOnlyPage, IsSessionOnlyExplicit, IsExplicit
<1>7. SessionOnlyExcludesFull'
  BY LookupsDisagree, PTL
<1> QED
  BY <1>5, <1>6, <1>7 DEF SessionOnlyExcludesFull

\* Every edit the user makes is one of the known settings, and starts from
\* them (EditSettings).
THEOREM SettingsTypeCorrect == SettingsSpec => []SettingsTypeOK
<1>1. SettingsTypeOK /\ [EditSettings]_settings => SettingsTypeOK'
  BY EditSettingsTypeOK, SameSettingsTypeOK
<1> QED
  BY <1>1, InitSettingsTypeOK, PTL DEF SettingsSpec

\* Whatever the rules, the features and the entity list, a request that must
\* use ephemeral storage is refused persistent storage, but for a host taken
\* for the page's own and for a request without a site_for_cookies while third
\* parties are blocked: the two lookups of the main frame disagree nowhere
\* else.
THEOREM OneJarForEachRequest == SettingsSpec => []EphemeralExcludesFull
  BY NeverBothJars, PTL

\* While third parties are blocked, a third party is let into persistent
\* storage only by its own rule, Shields down, a trusted scheme, or as a host
\* taken for the page's own.
THEOREM ThirdPartyHasReason == SettingsSpec => []ThirdPartyNeedsReason
  BY AlwaysAReason, PTL

\* The step of BlockingNeverGrants.
GrantsNothing ==
    BlocksThirdPartyNow =>
        \A r \in Requests :
            IsFullCookieAccessAllowed(r)' /\ ~IsFullCookieAccessAllowed(r) =>
                /\ SessionOnlyPage(FirstParty(r))
                /\ \/ TakenForOneParty(r.url, FirstParty(r))
                   \/ r.site_for_cookies = NoSite

\* Blocking third-party cookies gives persistent storage to no request that
\* lacked it, outside session-only pages; below them, only to a host taken for
\* the page's own and to a request without a site_for_cookies.
THEOREM BlockingGrantsLittle == SettingsSpec => BlockingNeverGrants
<1>1. SettingsTypeOK /\ [EditSettings]_settings => [GrantsNothing]_settings
  BY BlockingStep DEF GrantsNothing
<1>2. SettingsSpec => [][GrantsNothing]_settings
  BY <1>1, SettingsTypeCorrect, PTL DEF SettingsSpec
<1> QED
  BY <1>2 DEF GrantsNothing, BlockingNeverGrants

-----------------------------------------------------------------------------
(* The jars.                                                               *)

Reads == [request : Requests, cookies : SUBSET Cookies, changed : BOOLEAN]

StoresTypeOK ==
    /\ stores = [d \in DOMAIN stores |-> stores[d]]
    /\ DOMAIN stores \subseteq Site
    /\ \A d \in DOMAIN stores : stores[d] \subseteq Cookies

\* Type invariant of the jars and of the reads.
TypeOK ==
    /\ SettingsTypeOK
    /\ main \subseteq Cookies
    /\ StoresTypeOK
    /\ created \in 0 .. MaxCookies
    /\ pending = Nothing \/ pending \in Reads
    /\ delivered = Nothing \/ delivered \in Reads
    /\ deleted \subseteq 1 .. created

\* A cookie of a jar was set, and no other one has its id.
IdsInv ==
    /\ \A c \in AllCookies : c.id <= created
    /\ \A c, e \in AllCookies : c.id = e.id => c = e

\* The read outstanding is one of the persistent store: the cookies are of
\* the request's host, and unless the rules were edited since, the request
\* still is one for the persistent store.
PendingInv ==
    pending # Nothing =>
        /\ \A c \in pending.cookies : ~c.ephemeral /\ c.host = pending.request.url
        /\ \A r \in Requests :
             pending.request = r /\ ~pending.changed => ~ShouldUseEphemeralStorage(r)

\* PersistentNeedsFullAccess, with the request named.
DeliveredInv ==
    \A r \in Requests :
        delivered # Nothing /\ ~delivered.changed /\ delivered.request = r =>
            \A c \in delivered.cookies : ~c.ephemeral =>
                (EphemeralStorageEnabled => IsFullCookieAccessAllowed(r))

IInv ==
    /\ TypeOK
    /\ IdsInv
    /\ JarsKeptApart
    /\ DeletedEverywhere
    /\ PendingInv
    /\ NoLinkAcrossTopFrames
    /\ DeliveredInv

\* The decisions are formulas, and depend on the settings alone.
LEMMA DecisionIsBoolean ==
    ASSUME NEW r
    PROVE  ShouldUseEphemeralStorage(r) \in BOOLEAN
  BY DEF ShouldUseEphemeralStorage

\* The decisions change with the settings only.
LEMMA SameDecisions ==
    ASSUME UNCHANGED settings, NEW r
    PROVE  /\ ShouldUseEphemeralStorage(r)' = ShouldUseEphemeralStorage(r)
           /\ IsFullCookieAccessAllowed(r)' = IsFullCookieAccessAllowed(r)
<1> USE DEF settings
<1>1. \A u, f : \A t \in BOOLEAN : CookieSetting(u, f, t)' = CookieSetting(u, f, t)
  BY DEF CookieSetting, Rule, BlockThird, ShouldBlockThirdPartyIfSettingIsExplicit
<1>2. \A u, f : Rule(u, f)' = Rule(u, f)
  BY DEF Rule
<1>3. EphemeralStorageEnabled' = EphemeralStorageEnabled
      /\ FirstPartyEphemeralEnabled' = FirstPartyEphemeralEnabled
  BY DEF EphemeralStorageEnabled, FirstPartyEphemeralEnabled
<1>4. \A f, s : IsThirdPartyRequest(f, s) \in BOOLEAN
  BY DEF IsThirdPartyRequest
<1>5. MainFrameMode(r)' = MainFrameMode(r)
  BY <1>1, <1>2, <1>3, <1>4 DEF MainFrameMode, IsSessionOnlyExplicit, IsShieldsDown
<1>6. ChromiumAllows(r)' = ChromiumAllows(r)
  BY <1>1, <1>4 DEF ChromiumAllows, IsAllowed
<1>7. IsFullCookieAccessAllowed(r)' = IsFullCookieAccessAllowed(r)
  BY <1>1, <1>5, <1>6
     DEF IsFullCookieAccessAllowed, IsFirstPartyAccessAllowed, IsCookieSessionOnly, IsAllowed
<1>8. ShouldUseEphemeralStorage(r)' = ShouldUseEphemeralStorage(r)
  BY <1>1, <1>2, <1>3, <1>7 DEF ShouldUseEphemeralStorage, IsSessionOnlyExplicit, IsAllowed
<1> QED
  BY <1>7, <1>8

\* A request the upstream check lets in has full access, or is one for
\* ephemeral storage: the mode that refuses it is the mode that makes its page
\* ephemeral.
LEMMA RefusedIsEphemeral ==
    ASSUME EphemeralStorageEnabled, NEW r \in Requests, IsEphemeralCookieAccessible(r)
    PROVE  ShouldUseEphemeralStorage(r) \/ IsFullCookieAccessAllowed(r)
<1> DEFINE fp == FirstParty(r)
           third == IsThirdPartyRequest(fp, r.site_for_cookies)
<1>1. SUFFICES ASSUME ChromiumAllows(r), ~IsFullCookieAccessAllowed(r)
               PROVE  ShouldUseEphemeralStorage(r)
  BY DEF IsEphemeralCookieAccessible, IsEphemeralCookieAccessAllowed
<1>2. MainFrameMode(r) = "kEphemeral"
  BY <1>1 DEF IsFullCookieAccessAllowed
<1>3. FirstPartyEphemeralEnabled /\ IsSessionOnlyExplicit(CookieSetting(fp, fp, third), fp)
  BY <1>2 DEF MainFrameMode
<1>4. fp \in Site
  BY <1>3, RequestTypes, ExplicitPageIsKnown
<1>5. third \in BOOLEAN /\ IsAllowed(CookieSetting(fp, fp, third))
  BY <1>3 DEF IsThirdPartyRequest, IsSessionOnlyExplicit, IsAllowed
<1>6. CookieSetting(fp, fp, third) = Rule(fp, fp).setting
  BY <1>5, CookieSettingAllows
<1>7. IsSessionOnlyExplicit(CookieSetting(fp, fp, FALSE), fp)
  BY <1>3, <1>6, CookieSettingOfFirstParty
<1> QED
  BY <1>3, <1>4, <1>7, NoSiteAssumption DEF ShouldUseEphemeralStorage

\* The invariant holds of the empty jars.
THEOREM InitIInv == Init => IInv
<1> SUFFICES ASSUME Init
             PROVE  IInv
  OBVIOUS
<1>1. /\ InitSettings /\ main = {} /\ stores = [d \in {} |-> {}] /\ created = 0
      /\ pending = Nothing /\ delivered = Nothing /\ deleted = {}
  BY DEF Init
<1>2. DOMAIN stores = {} /\ AllCookies = {}
  BY <1>1 DEF AllCookies
<1>3. StoresTypeOK
  BY <1>1, <1>2 DEF StoresTypeOK
<1>4. TypeOK
  BY <1>1, <1>3, InitSettingsTypeOK, MaxCookiesAssumption DEF TypeOK
<1>5. IdsInv /\ JarsKeptApart /\ DeletedEverywhere
  BY <1>1, <1>2 DEF IdsInv, JarsKeptApart, DeletedEverywhere
<1>6. PendingInv /\ NoLinkAcrossTopFrames /\ DeliveredInv
  BY <1>1 DEF PendingInv, NoLinkAcrossTopFrames, DeliveredInv
<1> QED
  BY <1>4, <1>5, <1>6 DEF IInv

\* A step that leaves the read outstanding and the settings alone.
LEMMA SamePendingInv ==
    ASSUME PendingInv, UNCHANGED settings, pending' = pending
    PROVE  PendingInv'
  BY SameDecisions DEF PendingInv

\* A step that hands nothing over.
LEMMA NothingDelivered ==
    ASSUME delivered' = Nothing
    PROVE  NoLinkAcrossTopFrames' /\ DeliveredInv'
  BY DEF NoLinkAcrossTopFrames, DeliveredInv

\* The cookies a set adds: one, with an id no other cookie has and no
\* deletion was asked for.
LEMMA OneMoreCookie ==
    ASSUME IInv, NEW cookie, cookie.id = created + 1,
           AllCookies' \subseteq AllCookies \cup {cookie},
           created' = created + 1, deleted' = deleted
    PROVE  IdsInv' /\ DeletedEverywhere' /\ deleted' \subseteq 1 .. created'
<1>1. created \in Nat /\ deleted \subseteq 1 .. created
  BY MaxCookiesAssumption DEF IInv, TypeOK
<1>2. \A c \in AllCookies : c.id <= created /\ c.id \in Nat
  BY DEF IInv, IdsInv, TypeOK, AllCookies, StoresTypeOK, Cookies
<1>3. \A c, e \in AllCookies : c.id = e.id => c = e
  BY DEF IInv, IdsInv
<1>4. \A c \in AllCookies : c.id \notin deleted
  BY DEF IInv, DeletedEverywhere
<1> HIDE DEF AllCookies
<1>5. IdsInv'
  <2>1. \A c \in AllCookies' : c.id <= created'
    BY <1>1, <1>2
  <2>2. \A c, e \in AllCookies' : c.id = e.id => c = e
    BY <1>1, <1>2, <1>3
  <2> QED
    BY <2>1, <2>2 DEF IdsInv
<1>6. \A c \in AllCookies' : c.id \notin deleted'
  BY <1>1, <1>2, <1>4
<1>7. DeletedEverywhere'
  BY <1>6 DEF DeletedEverywhere
<1>8. deleted' \subseteq 1 .. created'
  BY <1>1
<1> QED
  BY <1>5, <1>7, <1>8

\* A cookie that enters an ephemeral store, and one that enters the
\* persistent store.
LEMMA PutInStore ==
    ASSUME StoresTypeOK, NEW d \in Site, NEW cookie \in Cookies,
           stores' = [GetOrCreate(d) EXCEPT ![d] = Put(@, cookie)],
           main' = main
    PROVE  /\ StoresTypeOK'
           /\ AllCookies' \subseteq AllCookies \cup {cookie}
           /\ DOMAIN stores' = DOMAIN stores \cup {d}
           /\ \A e \in DOMAIN stores' : e # d => stores'[e] = stores[e]
           /\ \A c \in stores'[d] : c = cookie \/ (d \in DOMAIN stores /\ c \in stores[d])
<1>1. stores' = [e \in DOMAIN stores \cup {d} |->
          IF e = d THEN Put(IF d \in DOMAIN stores THEN stores[d] ELSE {}, cookie)
                   ELSE IF e \in DOMAIN stores THEN stores[e] ELSE {}]
  BY DEF GetOrCreate
<1>2. DOMAIN stores' = DOMAIN stores \cup {d}
  BY <1>1
<1>3. \A e \in DOMAIN stores' : e # d => e \in DOMAIN stores /\ stores'[e] = stores[e]
  BY <1>1
<1>4. \A c \in stores'[d] : c = cookie \/ (d \in DOMAIN stores /\ c \in stores[d])
  BY <1>1 DEF Put
<1>5. stores' = [e \in DOMAIN stores' |-> stores'[e]]
  BY <1>1
<1>6. StoresTypeOK'
  <2>1. \A e \in DOMAIN stores' : stores'[e] \subseteq Cookies
    BY <1>2, <1>3, <1>4 DEF StoresTypeOK
  <2>2. DOMAIN stores' \subseteq Site
    BY <1>2 DEF StoresTypeOK
  <2> QED
    BY <1>5, <2>1, <2>2 DEF StoresTypeOK
<1>7. AllCookies' \subseteq AllCookies \cup {cookie}
  <2>1. \A e \in DOMAIN stores' : stores'[e] \subseteq AllCookies \cup {cookie}
    BY <1>2, <1>3, <1>4 DEF AllCookies
  <2> QED
    BY <2>1 DEF AllCookies
<1> QED
  BY <1>2, <1>3, <1>4, <1>6, <1>7

\* SetCanonicalCookie: the jar is chosen by the rules of this moment.
LEMMA SetKeepsIInv ==
    ASSUME IInv, NEW r \in Requests, NEW session \in BOOLEAN,
           SetCanonicalCookie(r, session)
    PROVE  IInv'
<1> DEFINE options == CookieOptions(r)
           domain == EphemeralStorageDomain(options)
           cookie == [id |-> created + 1, host |-> r.url, session |-> session,
                      top |-> options.top_frame_origin,
                      ephemeral |-> options.should_use_ephemeral_storage]
<1>1. TypeOK /\ StoresTypeOK /\ PendingInv
  BY DEF IInv, TypeOK
<1>2. /\ options.should_use_ephemeral_storage \in BOOLEAN
      /\ options.top_frame_origin \in Site \cup {NoSite}
      /\ domain = options.top_frame_origin
  BY RequestTypes, DecisionIsBoolean DEF CookieOptions, EphemeralStorageDomain
<1>3. created < MaxCookies /\ created' = created + 1 /\ delivered' = Nothing
      /\ UNCHANGED <<settings, pending, deleted>>
  BY DEF SetCanonicalCookie
<1>4. \/ UsesEphemeral(options) /\ domain # NoSite /\ main' = main
         /\ stores' = [GetOrCreate(domain) EXCEPT ![domain] = Put(@, cookie)]
      \/ UsesEphemeral(options) /\ domain = NoSite /\ UNCHANGED jars
      \/ ~UsesEphemeral(options) /\ main' = Put(main, cookie) /\ UNCHANGED stores
  BY DEF SetCanonicalCookie
<1> HIDE DEF options, domain
<1>5. cookie \in Cookies
  BY <1>1, <1>2, <1>3, RequestTypes, MaxCookiesAssumption DEF TypeOK, Cookies
<1>6. /\ cookie.id = created + 1
      /\ cookie.top = options.top_frame_origin
      /\ cookie.ephemeral = options.should_use_ephemeral_storage
  OBVIOUS
<1> HIDE DEF cookie
<1>7. /\ main' \subseteq Cookies /\ StoresTypeOK'
      /\ AllCookies' \subseteq AllCookies \cup {cookie}
      /\ JarsKeptApart'
  <2>0. JarsKeptApart
    BY DEF IInv
  <2>1. CASE UsesEphemeral(options) /\ domain # NoSite /\ main' = main
             /\ stores' = [GetOrCreate(domain) EXCEPT ![domain] = Put(@, cookie)]
    <3>1. domain \in Site
      BY <1>2, <2>1
    <3>2. /\ StoresTypeOK'
          /\ AllCookies' \subseteq AllCookies \cup {cookie}
          /\ DOMAIN stores' = DOMAIN stores \cup {domain}
          /\ \A e \in DOMAIN stores' : e # domain => stores'[e] = stores[e]
          /\ \A c \in stores'[domain] :
               c = cookie \/ (domain \in DOMAIN stores /\ c \in stores[domain])
      BY <1>1, <1>5, <2>1, <3>1, PutInStore
    <3>3. cookie.ephemeral /\ cookie.top = domain
      BY <1>2, <1>6, <2>1 DEF UsesEphemeral
    <3>4. JarsKeptApart'
      BY <2>0, <2>1, <3>2, <3>3 DEF JarsKeptApart
    <3> QED
      BY <1>1, <2>1, <3>2, <3>4 DEF TypeOK
  <2>2. CASE UNCHANGED jars
    BY <1>1, <2>0, <2>2 DEF jars, TypeOK, StoresTypeOK, AllCookies, JarsKeptApart
  <2>3. CASE ~UsesEphemeral(options) /\ main' = Put(main, cookie) /\ UNCHANGED stores
    <3>1. \A c \in main' : c \in main \/ c = cookie
      BY <2>3 DEF Put
    <3>2. ~cookie.ephemeral
      BY <1>6, <2>3 DEF UsesEphemeral
    <3>3. JarsKeptApart'
      BY <2>0, <2>3, <3>1, <3>2 DEF JarsKeptApart
    <3>4. main' \subseteq Cookies /\ StoresTypeOK'
      BY <1>1, <1>5, <2>3, <3>1 DEF TypeOK, StoresTypeOK
    <3>5. AllCookies' \subseteq AllCookies \cup {cookie}
      BY <2>3, <3>1 DEF AllCookies
    <3> QED
      BY <3>3, <3>4, <3>5
  <2> QED
    BY <1>4, <2>1, <2>2, <2>3
<1>8. IdsInv' /\ DeletedEverywhere' /\ deleted' \subseteq 1 .. created'
  BY <1>3, <1>6, <1>7, OneMoreCookie
<1>9. SettingsTypeOK'
  BY <1>1, <1>3, SameSettingsTypeOK DEF TypeOK
<1>10. created' \in 0 .. MaxCookies
  BY <1>1, <1>3, MaxCookiesAssumption DEF TypeOK
<1>11. TypeOK'
  BY <1>1, <1>3, <1>7, <1>8, <1>9, <1>10 DEF TypeOK, Nothing
<1>12. PendingInv' /\ NoLinkAcrossTopFrames' /\ DeliveredInv'
  BY <1>1, <1>3, SamePendingInv, NothingDelivered
<1> QED
  BY <1>7, <1>8, <1>11, <1>12 DEF IInv

\* The jars a read leaves: the same cookies, perhaps a new empty store.
LEMMA GetOrCreateKeeps ==
    ASSUME IInv, NEW d \in Site, stores' = GetOrCreate(d),
           UNCHANGED <<main, created, deleted>>
    PROVE  /\ StoresTypeOK' /\ IdsInv' /\ DeletedEverywhere' /\ JarsKeptApart'
           /\ \A c \in stores'[d] : c.ephemeral /\ c.top = d
<1>1. StoresTypeOK
  BY DEF IInv, TypeOK
<1>2. /\ DOMAIN stores' = DOMAIN stores \cup {d}
      /\ stores' = [e \in DOMAIN stores' |-> stores'[e]]
      /\ \A e \in DOMAIN stores' : \A c \in stores'[e] : e \in DOMAIN stores /\ c \in stores[e]
      /\ \A e \in DOMAIN stores : stores'[e] = stores[e]
  BY DEF GetOrCreate
<1>3. StoresTypeOK'
  <2>1. DOMAIN stores' \subseteq Site
    BY <1>1, <1>2 DEF StoresTypeOK
  <2>2. \A e \in DOMAIN stores' : stores'[e] \subseteq Cookies
    BY <1>1, <1>2 DEF StoresTypeOK
  <2> QED
    BY <1>2, <2>1, <2>2 DEF StoresTypeOK
<1>4. AllCookies' = AllCookies
  BY <1>2 DEF AllCookies
<1>5. IdsInv' /\ DeletedEverywhere'
  BY <1>4 DEF IInv, IdsInv, DeletedEverywhere
<1>6. JarsKeptApart'
  BY <1>2 DEF IInv, JarsKeptApart
<1>7. d \in DOMAIN stores'
  BY <1>2
<1> QED
  BY <1>3, <1>5, <1>6, <1>7 DEF JarsKeptApart

\* Nothing a jar holds changes.
LEMMA SameJars ==
    ASSUME IInv, UNCHANGED <<main, stores, created, deleted>>
    PROVE  /\ main' \subseteq Cookies
           /\ StoresTypeOK' /\ IdsInv' /\ DeletedEverywhere' /\ JarsKeptApart'
<1>1. AllCookies' = AllCookies
  BY DEF AllCookies
<1> QED
  BY <1>1 DEF IInv, TypeOK, StoresTypeOK, IdsInv, DeletedEverywhere, JarsKeptApart

\* GetCookieList: one store is answered at once, the other is read.
LEMMA GetKeepsIInv ==
    ASSUME IInv, NEW r \in Requests, GetCookieList(r)
    PROVE  IInv'
<1> DEFINE options == CookieOptions(r)
           domain == EphemeralStorageDomain(options)
<1>1. TypeOK /\ PendingInv /\ StoresTypeOK
  BY DEF IInv, TypeOK
<1>2. /\ UsesEphemeral(options) <=> ShouldUseEphemeralStorage(r)
      /\ UsesEphemeral(options) => domain = r.top_frame_origin
  BY DEF CookieOptions, EphemeralStorageDomain, UsesEphemeral
<1>3. UNCHANGED <<settings, main, created, deleted>>
  BY DEF GetCookieList
<1>4. SettingsTypeOK'
  BY <1>1, <1>3, SameSettingsTypeOK DEF TypeOK
<1>5. CASE UsesEphemeral(options) /\ domain # NoSite
  <2>1. /\ stores' = GetOrCreate(domain)
        /\ delivered' = Delivery(r, OfHost(stores'[domain], r), FALSE)
        /\ pending' = pending
    BY <1>5 DEF GetCookieList
  <2>2. domain = r.top_frame_origin /\ domain \in Site
    BY <1>2, <1>5, RequestTypes
  <2> HIDE DEF options, domain
  <2>3. /\ StoresTypeOK' /\ IdsInv' /\ DeletedEverywhere' /\ JarsKeptApart'
        /\ \A c \in stores'[domain] : c.ephemeral /\ c.top = domain
    BY <1>3, <2>1, <2>2, GetOrCreateKeeps
  <2>4. stores'[domain] \subseteq Cookies
    <3>1. domain \in DOMAIN stores'
      BY <2>1 DEF GetOrCreate
    <3> QED
      BY <2>3, <3>1 DEF StoresTypeOK
  <2> DEFINE cookies == Included(r, OfHost(stores'[domain], r))
  <2>5. \A c \in cookies : /\ c \in Cookies /\ c.ephemeral
                           /\ c.top = r.top_frame_origin /\ c.host = r.url
    BY <2>2, <2>3, <2>4 DEF Included, OfHost
  <2>6. delivered' = Nothing
        \/ delivered' = [request |-> r, cookies |-> cookies, changed |-> FALSE]
    BY <2>1 DEF Delivery
  <2> HIDE DEF cookies
  <2>7. delivered' = Nothing \/ delivered' \in Reads
    <3>1. cookies \subseteq Cookies
      BY <2>5
    <3>2. [request |-> r, cookies |-> cookies, changed |-> FALSE] \in Reads
      BY <3>1 DEF Reads
    <3> QED
      BY <2>6, <3>2
  <2>8. NoLinkAcrossTopFrames' /\ DeliveredInv'
    BY <2>5, <2>6 DEF NoLinkAcrossTopFrames, DeliveredInv
  <2>9. TypeOK'
    BY <1>1, <1>3, <1>4, <2>1, <2>3, <2>7 DEF TypeOK, Nothing
  <2>10. PendingInv'
    BY <1>1, <1>3, <2>1, SamePendingInv
  <2> QED
    BY <2>3, <2>8, <2>9, <2>10 DEF IInv
<1>6. CASE UsesEphemeral(options) /\ domain = NoSite
  <2>1. delivered' = Nothing /\ UNCHANGED <<stores, pending>>
    BY <1>6 DEF GetCookieList
  <2>2. PendingInv' /\ NoLinkAcrossTopFrames' /\ DeliveredInv'
    BY <1>1, <1>3, <2>1, SamePendingInv, NothingDelivered
  <2>3. StoresTypeOK' /\ IdsInv' /\ DeletedEverywhere' /\ JarsKeptApart'
    BY <1>3, <2>1, SameJars
  <2>4. TypeOK'
    BY <1>1, <1>3, <1>4, <2>1, <2>3 DEF TypeOK, Nothing
  <2> QED
    BY <2>2, <2>3, <2>4 DEF IInv
<1>7. CASE ~UsesEphemeral(options)
  <2>1. /\ pending' = [request |-> r, cookies |-> OfHost(main, r), changed |-> FALSE]
        /\ delivered' = Nothing /\ UNCHANGED stores
    BY <1>7 DEF GetCookieList
  <2>2. ~ShouldUseEphemeralStorage(r)'
    BY <1>2, <1>3, <1>7, SameDecisions
  <2>3. \A c \in OfHost(main, r) : c \in Cookies /\ ~c.ephemeral /\ c.host = r.url
    BY <1>1 DEF IInv, JarsKeptApart, TypeOK, OfHost
  <2>4. PendingInv'
    BY <2>1, <2>2, <2>3 DEF PendingInv
  <2>5. pending' \in Reads
    BY <2>1, <2>3 DEF Reads
  <2>6. StoresTypeOK' /\ IdsInv' /\ DeletedEverywhere' /\ JarsKeptApart'
    BY <1>3, <2>1, SameJars
  <2>7. TypeOK'
    BY <1>1, <1>3, <1>4, <2>1, <2>5, <2>6 DEF TypeOK, Nothing
  <2> QED
    BY <2>1, <2>4, <2>6, <2>7, NothingDelivered DEF IInv
<1> QED
  BY <1>5, <1>6, <1>7

\* The answer of the read, with the rules as they are by then.
LEMMA AvailableKeepsIInv ==
    ASSUME IInv, CookieListAvailable
    PROVE  IInv'
<1>1. /\ pending # Nothing /\ pending' = Nothing
      /\ delivered' = Delivery(pending.request, pending.cookies, pending.changed)
      /\ UNCHANGED <<settings, main, stores, created, deleted>>
  BY DEF CookieListAvailable, jars
<1>2. TypeOK /\ pending \in Reads
  BY <1>1 DEF IInv, TypeOK
<1> DEFINE q == pending.request
           cookies == Included(q, pending.cookies)
<1>3. q \in Requests /\ pending.cookies \subseteq Cookies /\ pending.changed \in BOOLEAN
  BY <1>2 DEF Reads
<1>4. /\ \A c \in pending.cookies : ~c.ephemeral /\ c.host = q.url
      /\ ~pending.changed => ~ShouldUseEphemeralStorage(q)
  BY <1>1, <1>3 DEF IInv, PendingInv
<1>5. delivered' = Nothing
      \/ /\ cookies # {}
         /\ delivered' = [request |-> q, cookies |-> cookies, changed |-> pending.changed]
  BY <1>1 DEF Delivery
<1>6. cookies \subseteq pending.cookies
      /\ (cookies # {} => IsEphemeralCookieAccessible(q))
  BY DEF Included
<1> HIDE DEF cookies
<1>7. delivered' = Nothing \/ delivered' \in Reads
  BY <1>3, <1>5, <1>6 DEF Reads
<1>8. NoLinkAcrossTopFrames'
  BY <1>4, <1>5, <1>6 DEF NoLinkAcrossTopFrames
<1>9. DeliveredInv'
  <2>1. SUFFICES ASSUME NEW r \in Requests, EphemeralStorageEnabled',
                        delivered' # Nothing,
                        ~delivered'.changed, delivered'.request = r
                 PROVE  IsFullCookieAccessAllowed(r)'
    BY DEF DeliveredInv, Nothing
  <2>2. cookies # {} /\ r = q /\ ~pending.changed
    BY <1>5, <2>1
  <2>3. EphemeralStorageEnabled
    BY <1>1, <2>1 DEF EphemeralStorageEnabled, settings
  <2>4. IsFullCookieAccessAllowed(r)
    BY <1>4, <1>6, <2>2, <2>3, RefusedIsEphemeral
  <2> QED
    BY <1>1, <2>4, SameDecisions
<1>10. /\ main' \subseteq Cookies /\ StoresTypeOK' /\ IdsInv'
       /\ DeletedEverywhere' /\ JarsKeptApart'
  BY <1>1, SameJars
<1>11. SettingsTypeOK'
  BY <1>1, <1>2, SameSettingsTypeOK DEF TypeOK
<1>12. TypeOK'
  BY <1>1, <1>2, <1>7, <1>10, <1>11 DEF TypeOK, Nothing
<1>13. PendingInv'
  BY <1>1 DEF PendingInv, Nothing
<1> QED
  BY <1>8, <1>9, <1>10, <1>12, <1>13 DEF IInv

-----------------------------------------------------------------------------
(* The deletions.                                                          *)

\* What every deletion leaves alone.
LEMMA DeletionKeepsReads ==
    ASSUME IInv, delivered' = Nothing, UNCHANGED <<settings, created, pending>>,
           main' \subseteq Cookies, StoresTypeOK', deleted' \subseteq 1 .. created
    PROVE  TypeOK' /\ PendingInv' /\ NoLinkAcrossTopFrames' /\ DeliveredInv'
<1>1. TypeOK /\ PendingInv
  BY DEF IInv
<1>2. SettingsTypeOK'
  BY <1>1, SameSettingsTypeOK DEF TypeOK
<1>3. TypeOK'
  BY <1>1, <1>2 DEF TypeOK, Nothing
<1> QED
  BY <1>1, <1>3, SamePendingInv, NothingDelivered

\* A deletion that takes exactly the cookies it was asked for out of the jars
\* leaves none with their ids.
LEMMA DeletionIsComplete ==
    ASSUME IInv, NEW doomed \in SUBSET AllCookies,
           AllCookies' \subseteq AllCookies \ doomed,
           created' = created, deleted' = deleted \cup {c.id : c \in doomed}
    PROVE  IdsInv' /\ DeletedEverywhere' /\ deleted' \subseteq 1 .. created
<1>1. created \in Nat /\ deleted \subseteq 1 .. created
  BY MaxCookiesAssumption DEF IInv, TypeOK
<1>2. \A c \in AllCookies : c.id \in 1 .. created
  <2>1. \A c \in AllCookies : c.id <= created
    BY DEF IInv, IdsInv
  <2>2. \A c \in AllCookies : c.id \in 1 .. MaxCookies
    BY DEF IInv, TypeOK, AllCookies, StoresTypeOK, Cookies
  <2> QED
    BY <1>1, <2>1, <2>2, MaxCookiesAssumption
<1>3. \A c, e \in AllCookies : c.id = e.id => c = e
  BY DEF IInv, IdsInv
<1>4. \A c \in AllCookies : c.id \notin deleted
  BY DEF IInv, DeletedEverywhere
<1> HIDE DEF AllCookies
<1>5. IdsInv'
  <2>1. \A c \in AllCookies' : c.id <= created'
    BY <1>1, <1>2
  <2>2. \A c, e \in AllCookies' : c.id = e.id => c = e
    BY <1>3
  <2> QED
    BY <2>1, <2>2 DEF IdsInv
<1>6. \A c \in AllCookies' : c.id \notin deleted'
  <2>1. \A c \in AllCookies' : c \in AllCookies /\ c \notin doomed
    OBVIOUS
  <2>2. \A c \in AllCookies' : c.id \notin {e.id : e \in doomed}
    BY <1>3, <2>1
  <2> QED
    BY <1>4, <2>1, <2>2
<1>7. DeletedEverywhere'
  BY <1>6 DEF DeletedEverywhere
<1> QED
  BY <1>1, <1>2, <1>5, <1>7

\* The deletions that go through all stores.
LEMMA DeleteKeepsIInv ==
    ASSUME IInv, NEW doomed \in SUBSET AllCookies, Delete(doomed)
    PROVE  IInv'
<1>1. /\ main' = main \ doomed
      /\ stores' = [d \in DOMAIN stores |-> stores[d] \ doomed]
      /\ deleted' = deleted \cup {c.id : c \in doomed}
      /\ delivered' = Nothing
      /\ UNCHANGED <<settings, created, pending>>
  BY DEF Delete, DeleteFromJars
<1>2. /\ DOMAIN stores' = DOMAIN stores
      /\ \A d \in DOMAIN stores : stores'[d] = stores[d] \ doomed
      /\ stores' = [d \in DOMAIN stores' |-> stores'[d]]
  BY <1>1
<1>3. AllCookies' \subseteq AllCookies \ doomed
  BY <1>1, <1>2 DEF AllCookies
<1>4. IdsInv' /\ DeletedEverywhere' /\ deleted' \subseteq 1 .. created
  BY <1>1, <1>3, DeletionIsComplete
<1>5. main' \subseteq Cookies /\ StoresTypeOK'
  BY <1>1, <1>2 DEF IInv, TypeOK, StoresTypeOK
<1>6. JarsKeptApart'
  BY <1>1, <1>2 DEF IInv, JarsKeptApart
<1>7. TypeOK' /\ PendingInv' /\ NoLinkAcrossTopFrames' /\ DeliveredInv'
  BY <1>1, <1>4, <1>5, DeletionKeepsReads
<1> QED
  BY <1>4, <1>6, <1>7 DEF IInv

\* Erasing one store is a complete deletion because the cookies of its top
\* frame are nowhere else (JarsKeptApart).
LEMMA DeleteDomainKeepsIInv ==
    ASSUME IInv, NEW domain \in Site, DeleteEphemeralDomain(domain)
    PROVE  IInv'
<1> DEFINE doomed == {c \in AllCookies : c.ephemeral /\ c.top = domain}
<1>1. /\ stores' = [d \in DOMAIN stores \ {domain} |-> stores[d]]
      /\ deleted' = deleted \cup {c.id : c \in doomed}
      /\ delivered' = Nothing
      /\ UNCHANGED <<settings, main, created, pending>>
  BY DEF DeleteEphemeralDomain, WithoutStore
<1>2. /\ DOMAIN stores' = DOMAIN stores \ {domain}
      /\ \A d \in DOMAIN stores' : stores'[d] = stores[d]
      /\ stores' = [d \in DOMAIN stores' |-> stores'[d]]
  BY <1>1
<1>3. AllCookies' \subseteq AllCookies \ doomed
  <2>1. JarsKeptApart
    BY DEF IInv
  <2>2. \A c \in main' : c \in AllCookies /\ c \notin doomed
    BY <1>1, <2>1 DEF JarsKeptApart, AllCookies
  <2>3. \A d \in DOMAIN stores' : \A c \in stores'[d] : c \in AllCookies /\ c \notin doomed
    BY <1>2, <2>1 DEF JarsKeptApart, AllCookies
  <2> QED
    BY <2>2, <2>3 DEF AllCookies
<1>4. IdsInv' /\ DeletedEverywhere' /\ deleted' \subseteq 1 .. created
  BY <1>1, <1>3, DeletionIsComplete
<1>5. main' \subseteq Cookies /\ StoresTypeOK'
  BY <1>1, <1>2 DEF IInv, TypeOK, StoresTypeOK
<1>6. JarsKeptApart'
  BY <1>1, <1>2 DEF IInv, JarsKeptApart
<1>7. TypeOK' /\ PendingInv' /\ NoLinkAcrossTopFrames' /\ DeliveredInv'
  BY <1>1, <1>4, <1>5, DeletionKeepsReads
<1> QED
  BY <1>4, <1>6, <1>7 DEF IInv

\* An edit is remembered in the read outstanding.
LEMMA EditKeepsIInv ==
    ASSUME IInv, Edit
    PROVE  IInv'
<1>1. /\ EditSettings /\ delivered' = Nothing
      /\ pending' = IF pending = Nothing THEN Nothing ELSE [pending EXCEPT !.changed = TRUE]
      /\ UNCHANGED <<main, stores, created, deleted>>
  BY DEF Edit, jars
<1>2. TypeOK /\ PendingInv
  BY DEF IInv
<1>3. SettingsTypeOK'
  BY <1>1, <1>2, EditSettingsTypeOK DEF TypeOK
<1>4. /\ main' \subseteq Cookies /\ StoresTypeOK' /\ IdsInv'
      /\ DeletedEverywhere' /\ JarsKeptApart'
  BY <1>1, SameJars
<1>5. CASE pending = Nothing
  <2>1. pending' = Nothing
    BY <1>1, <1>5
  <2>2. PendingInv'
    BY <2>1 DEF PendingInv, Nothing
  <2>3. TypeOK'
    BY <1>1, <1>2, <1>3, <1>4, <2>1 DEF TypeOK, Nothing
  <2> QED
    BY <1>1, <1>4, <2>2, <2>3, NothingDelivered DEF IInv
<1>6. CASE pending # Nothing
  <2>1. pending \in Reads /\ pending' = [pending EXCEPT !.changed = TRUE]
    BY <1>1, <1>2, <1>6 DEF TypeOK
  <2>2. /\ pending' \in Reads /\ pending'.changed
        /\ pending'.request = pending.request /\ pending'.cookies = pending.cookies
    BY <2>1 DEF Reads
  <2>3. PendingInv'
    BY <1>2, <1>6, <2>2 DEF PendingInv
  <2>4. TypeOK'
    BY <1>1, <1>2, <1>3, <1>4, <2>2 DEF TypeOK, Nothing
  <2> QED
    BY <1>1, <1>4, <2>3, <2>4, NothingDelivered DEF IInv
<1> QED
  BY <1>5, <1>6

-----------------------------------------------------------------------------
(* The theorems about the jars.                                            *)

\* A step that changes nothing keeps the invariant.
LEMMA StutterKeepsIInv ==
    ASSUME IInv, UNCHANGED vars
    PROVE  IInv'
<1>1. /\ UNCHANGED <<main, stores, created, deleted>>
      /\ UNCHANGED settings /\ pending' = pending /\ delivered' = delivered
  BY DEF vars, jars
<1>2. /\ main' \subseteq Cookies /\ StoresTypeOK' /\ IdsInv'
      /\ DeletedEverywhere' /\ JarsKeptApart'
  BY <1>1, SameJars
<1>3. PendingInv'
  BY <1>1, SamePendingInv DEF IInv
<1>4. SettingsTypeOK'
  BY <1>1, SameSettingsTypeOK DEF IInv, TypeOK
<1>5. TypeOK'
  BY <1>1, <1>2, <1>4 DEF IInv, TypeOK, Nothing
<1>6. NoLinkAcrossTopFrames'
  BY <1>1 DEF IInv, NoLinkAcrossTopFrames, Nothing
<1>7. DeliveredInv'
  <2>1. \A r \in Requests : IsFullCookieAccessAllowed(r)' = IsFullCookieAccessAllowed(r)
    BY <1>1, SameDecisions
  <2>2. EphemeralStorageEnabled' = EphemeralStorageEnabled
    BY <1>1 DEF settings, EphemeralStorageEnabled
  <2> QED
    BY <1>1, <2>1, <2>2 DEF IInv, DeliveredInv, Nothing
<1> QED
  BY <1>2, <1>3, <1>5, <1>6, <1>7 DEF IInv

\* Every operation on the jars, and every edit, keeps the invariant.
THEOREM NextIInv == IInv /\ [Next]_vars => IInv'
<1> SUFFICES ASSUME IInv, [Next]_vars
             PROVE  IInv'
  OBVIOUS
<1>1. ASSUME NEW cookie \in AllCookies, DeleteCanonicalCookie(cookie)
      PROVE  IInv'
  BY <1>1, DeleteKeepsIInv DEF DeleteCanonicalCookie
<1>2. ASSUME NEW to \in 1 .. MaxCookies, NEW from \in 1 .. to,
             DeleteAllCreatedInTimeRange(from, to)
      PROVE  IInv'
  BY <1>2, DeleteKeepsIInv DEF DeleteAllCreatedInTimeRange
<1>3. ASSUME NEW host \in Site, DeleteAllMatchingInfo(host)
      PROVE  IInv'
  BY <1>3, DeleteKeepsIInv DEF DeleteAllMatchingInfo
<1>4. CASE DeleteSessionCookies
  BY <1>4, DeleteKeepsIInv DEF DeleteSessionCookies
<1>5. CASE UNCHANGED vars
  BY <1>5, StutterKeepsIInv
<1> QED
  BY <1>1, <1>2, <1>3, <1>4, <1>5, SetKeepsIInv, GetKeepsIInv, AvailableKeepsIInv,
     DeleteDomainKeepsIInv, EditKeepsIInv DEF Next

\* The invariant holds for every history of sets, reads, deletions and edits.
THEOREM InvariantHolds == Spec => []IInv
  BY InitIInv, NextIInv, PTL DEF Spec

\* The jars, the reads and the settings keep their types.
THEOREM TypeCorrect == Spec => []TypeOK
<1>1. IInv => TypeOK
  BY DEF IInv
<1> QED
  BY <1>1, InvariantHolds, PTL

\* However the rules are edited between sets, an ephemeral cookie is only in
\* the store of its top frame and never in the persistent store.
THEOREM JarsStayApart == Spec => []JarsKeptApart
<1>1. IInv => JarsKeptApart
  BY DEF IInv
<1> QED
  BY <1>1, InvariantHolds, PTL

\* Every deletion reaches every jar: no cookie it was asked for is left, and
\* none comes back.
THEOREM DeletionsReachEveryJar == Spec => []DeletedEverywhere
<1>1. IInv => DeletedEverywhere
  BY DEF IInv
<1> QED
  BY <1>1, InvariantHolds, PTL

\* No request is handed an identifier that was set below another top frame,
\* or by another host.
THEOREM TopFramesAreNotLinked == Spec => []NoLinkAcrossTopFrames
<1>1. IInv => NoLinkAcrossTopFrames
  BY DEF IInv
<1> QED
  BY <1>1, InvariantHolds, PTL

\* With ephemeral storage enabled, a request is handed persistent cookies only
\* with full access, unless the user edited the rules while the store was
\* being read.
THEOREM PersistentOnlyWithFullAccess == Spec => []PersistentNeedsFullAccess
<1>1. IInv => PersistentNeedsFullAccess
  <2> SUFFICES ASSUME IInv, EphemeralStorageEnabled,
                      delivered # Nothing, ~delivered.changed,
                      NEW c \in delivered.cookies, ~c.ephemeral
               PROVE  IsFullCookieAccessAllowed(delivered.request)
    BY DEF PersistentNeedsFullAccess
  <2>1. delivered.request \in Requests
    BY DEF IInv, TypeOK, Reads
  <2> QED
    BY <2>1 DEF IInv, DeliveredInv
<1> QED
  BY <1>1, InvariantHolds, PTL

=============================================================================
