-------------------------- MODULE EphemeralOrigins --------------------------
(***************************************************************************)
(* The opaque storage origins of ephemeral storage, in                     *)
(* components/content_settings/core/browser/cookie_settings.cc: several    *)
(* threads ask for the storage origin of an (ephemeral domain, origin)     *)
(* pair, the clean-up of a closed page takes the origins of its domain.    *)
(*                                                                         *)
(* A call decides outside lock_ (CookieAccess), then looks up and inserts  *)
(* under it; each critical section is one step.                            *)
(***************************************************************************)
EXTENDS CookieAccess, FiniteSets

CONSTANTS
    Thread,
    MaxOrigins  \* bound on the opaque origins derived in a behaviour

ASSUME OriginsAssumption == MaxOrigins \in Nat

VARIABLES
    origins,   \* ephemeral_storage_origins_: domain -> (origin -> opaque)
    derived,   \* number of opaque origins derived so far
    call,      \* per thread, the request whose decision is made, or NoSite
    handed,    \* every answer given, as [domain, origin, opaque] (history)
    taken,     \* per opaque origin, how often a Take returned it (history)
    dropped    \* the opaque origins in the map at shutdown (history)

vars == <<settings, origins, derived, call, handed, taken, dropped>>

\* The requests a frame makes: a frame always has a top frame.
FrameRequests == {r \in Requests : r.top_frame_origin # NoSite}

Opaque == 1 .. MaxOrigins

\* The entries of the map.
Entries ==
    UNION {{[domain |-> d, origin |-> o, opaque |-> origins[d][o]] :
               o \in DOMAIN origins[d]} : d \in DOMAIN origins}

-----------------------------------------------------------------------------
Init ==
    /\ InitSettings
    /\ origins = [d \in {} |-> {}]
    /\ derived = 0
    /\ call = [t \in Thread |-> NoSite]
    /\ handed = {}
    /\ taken = [o \in Opaque |-> 0]
    /\ dropped = {}

\* ShouldUseEphemeralStorage up to the lock.  A call that is refused returns.
Decide(t, r) ==
    /\ call[t] = NoSite
    /\ ShouldUseEphemeralStorage(r)
    /\ call' = [call EXCEPT ![t] = r]
    /\ UNCHANGED <<settings, origins, derived, handed, taken, dropped>>

\* The origins known for a domain; find, or emplace of an empty map.
Known(domain) == IF domain \in DOMAIN origins THEN origins[domain] ELSE [o \in {} |-> 0]

\* Mutant: the origin is looked up in every domain's map.
MutFindAnyDomain(domain, origin) ==
    {e.opaque : e \in {e \in Entries : e.origin = origin}}

Find(domain, origin) ==
    IF origin \in DOMAIN Known(domain) THEN {Known(domain)[origin]} ELSE {}

\* Mutant: the derived origin goes into a copy of the domain's map.
MutInsertCopy(domain, origin, opaque) ==
    [d \in DOMAIN origins \cup {domain} |-> Known(d)]

Insert(domain, origin, opaque) ==
    [d \in DOMAIN origins \cup {domain} |->
        IF d # domain THEN origins[d]
        ELSE [o \in DOMAIN Known(d) \cup {origin} |->
                IF o = origin THEN opaque ELSE Known(d)[o]]]

Answer(r, opaque) ==
    handed' = handed \cup
        {[domain |-> r.top_frame_origin, origin |-> r.url, opaque |-> opaque]}

\* The critical section of ShouldUseEphemeralStorage.
FindOrDerive(t) ==
    LET r == call[t]
        found == Find(r.top_frame_origin, r.url)
    IN  /\ r # NoSite
        /\ \/ /\ found # {}
              /\ \E opaque \in found : Answer(r, opaque)
              /\ UNCHANGED <<origins, derived>>
           \/ /\ found = {}
              /\ derived < MaxOrigins
              /\ derived' = derived + 1
              /\ origins' = Insert(r.top_frame_origin, r.url, derived + 1)
              /\ Answer(r, derived + 1)
        /\ call' = [call EXCEPT ![t] = NoSite]
        /\ UNCHANGED <<settings, taken, dropped>>

\* Mutant: the entry of the domain stays when its origins are taken.
MutKeepDomain(domain) == origins

Without(domain) == [d \in DOMAIN origins \ {domain} |-> origins[d]]

\* TakeEphemeralStorageOpaqueOrigins
TakeEphemeralStorageOpaqueOrigins(domain) ==
    /\ domain \in DOMAIN origins
    /\ LET result == {Known(domain)[o] : o \in DOMAIN Known(domain)}
       IN  taken' = [o \in Opaque |-> IF o \in result THEN taken[o] + 1 ELSE taken[o]]
    /\ origins' = Without(domain)
    /\ UNCHANGED <<settings, derived, call, handed, dropped>>

ShutdownOnUIThread ==
    /\ dropped' = dropped \cup {e.opaque : e \in Entries}
    /\ origins' = [d \in {} |-> {}]
    /\ UNCHANGED <<settings, derived, call, handed, taken>>

Edit ==
    /\ EditSettings
    /\ UNCHANGED <<origins, derived, call, handed, taken, dropped>>

Next ==
    \/ \E t \in Thread, r \in FrameRequests : Decide(t, r)
    \/ \E t \in Thread : FindOrDerive(t)
    \/ \E domain \in Site : TakeEphemeralStorageOpaqueOrigins(domain)
    \/ ShutdownOnUIThread
    \/ Edit

Spec == Init /\ [][Next]_vars

-----------------------------------------------------------------------------
(* Properties.                                                             *)

\* Type invariant.
TypeOK ==
    /\ SettingsTypeOK
    /\ DOMAIN origins \subseteq Site
    /\ \A d \in DOMAIN origins :
          DOMAIN origins[d] \subseteq Site /\ \A o \in DOMAIN origins[d] : origins[d][o] \in Opaque
    /\ derived \in 0 .. MaxOrigins
    /\ call \in [Thread -> FrameRequests \cup {NoSite}]
    /\ handed \subseteq [domain : Site, origin : Site, opaque : Opaque]
    /\ taken \in [Opaque -> Nat]
    /\ dropped \subseteq Opaque

\* An opaque origin stands for one origin below one top frame, for ever: the
\* storage of a page never shows up in another one's
\* (ShouldUseEphemeralStorage with its find and insert).
OneUsePerOpaqueOrigin ==
    \A x, y \in handed : x.opaque = y.opaque => x = y

\* The history of the map, seen as the abstract memory: what a Take returned
\* or the shutdown dropped is spent.
Memory == INSTANCE OriginMemory
    WITH Page <- Site, Origin <- Site, Id <- Opaque,
         live <- Entries, given <- handed,
         spent <- {o \in Opaque : taken[o] > 0} \cup dropped

\* The two-level map under its lock behaves as one memory of pairs, whichever
\* threads find, derive and take: each step gives the one identifier of a pair
\* or cleans up whole pages (ShouldUseEphemeralStorage against
\* TakeEphemeralStorageOpaqueOrigins and ShutdownOnUIThread).
IsOriginMemory == Memory!Spec

\* As long as a page's origins have not been taken, every frame of one origin
\* in it is given the same opaque origin, on whichever thread it asks.
StableUntilTaken ==
    \A x, y \in handed :
        /\ x.domain = y.domain /\ x.origin = y.origin
        /\ taken[x.opaque] = 0 /\ taken[y.opaque] = 0
        /\ {x.opaque, y.opaque} \cap dropped = {}
        => x = y

\* No opaque origin that was handed out is lost: until a Take returns it, it
\* is in the map for the next Take of its domain, unless the browser shut
\* down (TakeEphemeralStorageOpaqueOrigins against a concurrent insert).
HandedIsTracked ==
    \A x \in handed :
        x \in Entries \/ taken[x.opaque] > 0 \/ x.opaque \in dropped

\* An opaque origin is returned by one Take only, so its storage is cleared
\* once, and is not handed out by the map after that.
TakenOnce ==
    /\ \A o \in Opaque : taken[o] <= 1
    /\ \A e \in Entries : taken[e.opaque] = 0
=============================================================================
