-------------------------- MODULE EphemeralCookies --------------------------
(***************************************************************************)
(* The cookie jars of net/cookies/cookie_monster.cc: the persistent store  *)
(* and one ephemeral store for each top-frame domain, with the requests    *)
(* that read and write them as CookieAccess decides and the deletions      *)
(* that must reach every jar.                                              *)
(*                                                                         *)
(* The stores themselves (ChromiumCookieMonster) are upstream code.  A     *)
(* read of the persistent store may be answered later, while it is loading *)
(* from disk; a read of an ephemeral store, which has no disk behind it,   *)
(* is answered at once.                                                    *)
(***************************************************************************)
EXTENDS CookieAccess, FiniteSets

CONSTANT MaxCookies  \* bound on the cookies set in a behaviour

ASSUME MaxCookiesAssumption == MaxCookies \in Nat

VARIABLES
    main,      \* the cookies of the CookieMonster itself
    stores,    \* ephemeral_cookie_stores_: cookies by top-frame domain
    created,   \* number of cookies set so far: the next cookie's id and date
    pending,   \* the read the persistent store has not answered yet
    delivered, \* what the last step handed to a request (history)
    deleted    \* ids a deletion was asked for (history)

jars == <<main, stores>>
vars == <<settings, jars, created, pending, delivered, deleted>>

Nothing == [request |-> NoSite]

\* A cookie remembers how it was set: ephemeral, and the top frame of an
\* ephemeral one, are history.
Cookies ==
    [id : 1 .. MaxCookies, host : Site, session : BOOLEAN,
     top : Site \cup {NoSite}, ephemeral : BOOLEAN]

AllCookies == main \cup UNION {stores[d] : d \in DOMAIN stores}

-----------------------------------------------------------------------------
Init ==
    /\ InitSettings
    /\ main = {}
    /\ stores = [d \in {} |-> {}]
    /\ created = 0
    /\ pending = Nothing
    /\ delivered = Nothing
    /\ deleted = {}

\* FillEphemeralStorageParams, for a store with a cookie access delegate.
CookieOptions(r) ==
    LET ephemeral == ShouldUseEphemeralStorage(r)
    IN  [should_use_ephemeral_storage |-> ephemeral,
         site_for_cookies |-> IF ephemeral THEN r.site_for_cookies ELSE NoSite,
         top_frame_origin |-> IF ephemeral THEN r.top_frame_origin ELSE NoSite]

\* Mutant: the stores are keyed by the domain of site_for_cookies.
MutDomainOfSite(options) == options.site_for_cookies

\* The key of the ephemeral store of a request, NoSite when it has no top.
EphemeralStorageDomain(options) == options.top_frame_origin

\* GetOrCreateEphemeralCookieStoreForTopFrameURL: the stores with this one.
GetOrCreate(domain) ==
    [d \in DOMAIN stores \cup {domain} |-> IF d \in DOMAIN stores THEN stores[d] ELSE {}]

\* A cookie replaces the one of its host and name.
Put(jar, cookie) == {c \in jar : c.host # cookie.host} \cup {cookie}

\* Mutant: without a top frame origin the persistent store is used.
MutFallsBackToMain(options) ==
    options.should_use_ephemeral_storage /\ options.top_frame_origin # NoSite

UsesEphemeral(options) == options.should_use_ephemeral_storage

\* IsEphemeralCookieAccessible and AnnotateAndMoveUserBlockedEphemeralCookies:
\* what has neither ephemeral nor full access is left to the upstream check,
\* which looks at the rules alone.
IsEphemeralCookieAccessible(r) == IsEphemeralCookieAccessAllowed(r) \/ ChromiumAllows(r)

\* SetCanonicalCookieAsync, called once the access check has passed.
SetCanonicalCookie(r, session) ==
    LET options == CookieOptions(r)
        domain == EphemeralStorageDomain(options)
        cookie == [id |-> created + 1, host |-> r.url, session |-> session,
                   top |-> options.top_frame_origin,
                   ephemeral |-> options.should_use_ephemeral_storage]
    IN  /\ created < MaxCookies
        /\ IsEphemeralCookieAccessible(r)
        /\ created' = created + 1
        /\ \/ /\ UsesEphemeral(options)
              /\ domain # NoSite
              /\ stores' = [GetOrCreate(domain) EXCEPT ![domain] = Put(@, cookie)]
              /\ UNCHANGED main
           \/ /\ UsesEphemeral(options)
              /\ domain = NoSite
              /\ UNCHANGED jars
           \/ /\ ~UsesEphemeral(options)
              /\ main' = Put(main, cookie)
              /\ UNCHANGED stores
        /\ delivered' = Nothing
        /\ UNCHANGED <<settings, pending, deleted>>

\* AnnotateAndMoveUserBlockedEphemeralCookies
Included(r, cookies) == IF IsEphemeralCookieAccessible(r) THEN cookies ELSE {}

OfHost(jar, r) == {c \in jar : c.host = r.url}

Delivery(r, cookies, changed) ==
    LET included == Included(r, cookies)
    IN  IF included = {} THEN Nothing
        ELSE [request |-> r, cookies |-> included, changed |-> changed]

\* GetCookieListWithOptionsAsync.  A read of the persistent store that finds
\* nothing hands nothing over: it is left out.
GetCookieList(r) ==
    LET options == CookieOptions(r)
        domain == EphemeralStorageDomain(options)
    IN  /\ \/ /\ UsesEphemeral(options)
              /\ domain # NoSite
              /\ stores' = GetOrCreate(domain)
              /\ delivered' = Delivery(r, OfHost(stores'[domain], r), FALSE)
              /\ UNCHANGED pending
           \/ /\ UsesEphemeral(options)
              /\ domain = NoSite
              /\ delivered' = Nothing
              /\ UNCHANGED <<stores, pending>>
           \/ /\ ~UsesEphemeral(options)
              /\ pending = Nothing /\ OfHost(main, r) # {}
              /\ pending' = [request |-> r, cookies |-> OfHost(main, r), changed |-> FALSE]
              /\ delivered' = Nothing
              /\ UNCHANGED stores
        /\ UNCHANGED <<settings, main, created, deleted>>

\* The persistent store answers.
CookieListAvailable ==
    /\ pending # Nothing
    /\ delivered' = Delivery(pending.request, pending.cookies, pending.changed)
    /\ pending' = Nothing
    /\ UNCHANGED <<settings, jars, created, deleted>>

\* Mutant: the ephemeral stores are left out.
MutDeleteFromMain(doomed) ==
    /\ main' = main \ doomed
    /\ UNCHANGED stores

\* The loop over ephemeral_cookie_stores_, and the base class.
DeleteFromJars(doomed) ==
    /\ main' = main \ doomed
    /\ stores' = [d \in DOMAIN stores |-> stores[d] \ doomed]

Delete(doomed) ==
    /\ DeleteFromJars(doomed)
    /\ deleted' = deleted \cup {c.id : c \in doomed}
    /\ delivered' = Nothing
    /\ UNCHANGED <<settings, created, pending>>

\* DeleteCanonicalCookieAsync
DeleteCanonicalCookie(cookie) == Delete({cookie})

\* DeleteAllCreatedInTimeRangeAsync
DeleteAllCreatedInTimeRange(from, to) == Delete({c \in AllCookies : c.id \in from .. to})

\* DeleteAllMatchingInfoAsync without an ephemeral_storage_domain.
DeleteAllMatchingInfo(host) == Delete({c \in AllCookies : c.host = host})

\* DeleteSessionCookiesAsync
DeleteSessionCookies == Delete({c \in AllCookies : c.session})

\* Mutant: the store of the domain is left behind.
MutKeepStore(domain) == stores

\* ephemeral_cookie_stores_ without the store of the domain.
WithoutStore(domain) == [d \in DOMAIN stores \ {domain} |-> stores[d]]

\* DeleteAllMatchingInfoAsync with an ephemeral_storage_domain.
DeleteEphemeralDomain(domain) ==
    /\ stores' = WithoutStore(domain)
    /\ deleted' = deleted \cup {c.id : c \in {c \in AllCookies : c.ephemeral /\ c.top = domain}}
    /\ delivered' = Nothing
    /\ UNCHANGED <<settings, main, created, pending>>

Edit ==
    /\ EditSettings
    /\ pending' = IF pending = Nothing THEN Nothing ELSE [pending EXCEPT !.changed = TRUE]
    /\ delivered' = Nothing
    /\ UNCHANGED <<jars, created, deleted>>

Next ==
    \/ \E r \in Requests, session \in BOOLEAN : SetCanonicalCookie(r, session)
    \/ \E r \in Requests : GetCookieList(r)
    \/ CookieListAvailable
    \/ \E cookie \in AllCookies : DeleteCanonicalCookie(cookie)
    \/ \E to \in 1 .. MaxCookies : \E from \in 1 .. to : DeleteAllCreatedInTimeRange(from, to)
    \/ \E host \in Site : DeleteAllMatchingInfo(host)
    \/ DeleteSessionCookies
    \/ \E domain \in Site : DeleteEphemeralDomain(domain)
    \/ Edit

Spec == Init /\ [][Next]_vars

-----------------------------------------------------------------------------
(* Properties.                                                             *)

\* However the settings are switched, a cookie set in ephemeral mode is only
\* in the store of the top frame it was set under, and a cookie of the
\* persistent store was set outside ephemeral mode (SetCanonicalCookieAsync
\* with FillEphemeralStorageParams and GetOrCreate).
JarsKeptApart ==
    /\ \A c \in main : ~c.ephemeral
    /\ \A d \in DOMAIN stores : \A c \in stores[d] : c.ephemeral /\ c.top = d

\* A cookie a deletion was asked for is in no jar, persistent or ephemeral
\* (the loops of the Delete functions).
DeletedEverywhere == {c.id : c \in AllCookies} \cap deleted = {}

\* What a request is handed was set by its own host, and if it was set in
\* ephemeral mode, below the same top frame: two top frames never see each
\* other's identifiers (GetCookieListWithOptionsAsync).
NoLinkAcrossTopFrames ==
    delivered # Nothing =>
        \A c \in delivered.cookies :
            /\ c.host = delivered.request.url
            /\ c.ephemeral => c.top = delivered.request.top_frame_origin

\* With ephemeral storage enabled, a request is handed persistent cookies only
\* with full access, unless the user edited the rules while the store was
\* being read: the missing top frame origin fails closed, the check after the
\* read uses the same rules as the choice of the store before it, and the
\* upstream check it falls through to lets no other request in.
PersistentNeedsFullAccess ==
    EphemeralStorageEnabled /\ delivered # Nothing /\ ~delivered.changed =>
        \A c \in delivered.cookies : ~c.ephemeral =>
            IsFullCookieAccessAllowed(delivered.request)
=============================================================================
