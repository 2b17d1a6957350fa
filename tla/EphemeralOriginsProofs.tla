----------------------- MODULE EphemeralOriginsProofs -----------------------
(***************************************************************************)
(* For any sites, threads and rules: the opaque origins of ephemeral       *)
(* storage are never shared, never lost and never taken twice.             *)
(*                                                                         *)
(* The argument goes over the set of entries of the two-level map.  What   *)
(* makes it inductive is that every entry was handed out and that what was *)
(* handed out, taken or dropped was derived before, so that the next       *)
(* derived origin is new.                                                  *)
(*                                                                         *)
(* From it follows, step by step, that the map implements OriginMemory.    *)
(***************************************************************************)
EXTENDS EphemeralOrigins, TLAPS

\* What was handed out, taken or dropped was derived.
Derived ==
    /\ derived \in 0 .. MaxOrigins
    /\ taken \in [Opaque -> Nat]
    /\ \A x \in handed : x.opaque \in 1 .. derived
    /\ \A o \in Opaque : taken[o] > 0 => o <= derived
    /\ dropped \subseteq 1 .. derived

\* An entry was handed out, and neither taken nor dropped.
Live ==
    /\ Entries \subseteq handed
    /\ \A e \in Entries : taken[e.opaque] = 0 /\ e.opaque \notin dropped

OInv == Derived /\ Live /\ OneUsePerOpaqueOrigin /\ HandedIsTracked /\ TakenOnce

-----------------------------------------------------------------------------
(* The map as the set of its entries.                                      *)

\* An entry is an origin of a domain with what the map has for it.
LEMMA EntryOf ==
    \A x : x \in Entries <=>
        \E d \in DOMAIN origins : \E o \in DOMAIN origins[d] :
            x = [domain |-> d, origin |-> o, opaque |-> origins[d][o]]
BY DEF Entries

\* A page has one opaque origin per origin.
LEMMA OnePerPair ==
    ASSUME NEW x \in Entries, NEW y \in Entries, x.domain = y.domain, x.origin = y.origin
    PROVE  x = y
BY EntryOf

\* The insert adds one entry and loses none.
LEMMA InsertEntries ==
    ASSUME NEW domain, NEW origin, NEW opaque, Find(domain, origin) = {},
           origins' = Insert(domain, origin, opaque)
    PROVE  Entries' = Entries \cup {[domain |-> domain, origin |-> origin, opaque |-> opaque]}
<1> DEFINE new == [domain |-> domain, origin |-> origin, opaque |-> opaque]
<1>1. origin \notin DOMAIN Known(domain) BY DEF Find
<1>2. DOMAIN origins' = DOMAIN origins \cup {domain} BY DEF Insert
<1>3. \A d \in DOMAIN origins : d # domain => origins'[d] = origins[d] BY DEF Insert
<1>4. /\ DOMAIN origins'[domain] = DOMAIN Known(domain) \cup {origin}
      /\ origins'[domain][origin] = opaque
      /\ \A o \in DOMAIN Known(domain) : origins'[domain][o] = Known(domain)[o]
  BY <1>1 DEF Insert
<1>5. domain \in DOMAIN origins => Known(domain) = origins[domain] BY DEF Known
<1>6. domain \notin DOMAIN origins => DOMAIN Known(domain) = {} BY DEF Known
<1>7. \A x : x \in Entries' <=>
        \E d \in DOMAIN origins' : \E o \in DOMAIN origins'[d] :
            x = [domain |-> d, origin |-> o, opaque |-> origins'[d][o]]
  BY DEF Entries
<1>8. new \in Entries' BY <1>2, <1>4, <1>7
<1>9. ASSUME NEW x \in Entries PROVE x \in Entries'
  <2>0. PICK d \in DOMAIN origins : \E o \in DOMAIN origins[d] :
          x = [domain |-> d, origin |-> o, opaque |-> origins[d][o]]
    BY <1>9, EntryOf
  <2>1. PICK o \in DOMAIN origins[d] :
          x = [domain |-> d, origin |-> o, opaque |-> origins[d][o]]
    BY <2>0
  <2>2. CASE d = domain BY <2>1, <2>2, <1>2, <1>4, <1>5, <1>7
  <2>3. CASE d # domain BY <2>1, <2>3, <1>2, <1>3, <1>7
  <2> QED BY <2>2, <2>3
<1>10. ASSUME NEW x \in Entries' PROVE x \in Entries \/ x = new
  <2>0. PICK d \in DOMAIN origins' : \E o \in DOMAIN origins'[d] :
          x = [domain |-> d, origin |-> o, opaque |-> origins'[d][o]]
    BY <1>10, <1>7
  <2>1. PICK o \in DOMAIN origins'[d] :
          x = [domain |-> d, origin |-> o, opaque |-> origins'[d][o]]
    BY <2>0
  <2>2. CASE d # domain BY <2>1, <2>2, <1>2, <1>3, EntryOf
  <2>3. CASE d = domain /\ o = origin BY <2>1, <2>3, <1>4
  <2>4. CASE d = domain /\ o # origin
    BY <2>1, <2>4, <1>4, <1>5, <1>6, EntryOf
  <2> QED BY <2>2, <2>3, <2>4
<1> HIDE DEF new
<1>11. Entries' = Entries \cup {new} BY <1>8, <1>9, <1>10
<1> QED BY <1>11 DEF new

\* A Take removes the entries of its domain and no other.
LEMMA WithoutEntries ==
    ASSUME NEW domain, domain \in DOMAIN origins, origins' = Without(domain)
    PROVE  Entries' = {e \in Entries : e.domain # domain}
<1>1. DOMAIN origins' = DOMAIN origins \ {domain} BY DEF Without
<1>2. \A d \in DOMAIN origins' : origins'[d] = origins[d] BY DEF Without
<1>3. \A x : x \in Entries' <=>
        \E d \in DOMAIN origins' : \E o \in DOMAIN origins'[d] :
            x = [domain |-> d, origin |-> o, opaque |-> origins'[d][o]]
  BY DEF Entries
<1> QED BY <1>1, <1>2, <1>3, EntryOf

\* What a Take hands over is what the entries of the domain hold.
LEMMA Taken ==
    ASSUME NEW domain, domain \in DOMAIN origins
    PROVE  {Known(domain)[o] : o \in DOMAIN Known(domain)} =
           {e.opaque : e \in {e \in Entries : e.domain = domain}}
<1>1. Known(domain) = origins[domain] BY DEF Known
<1>2. ASSUME NEW o \in DOMAIN origins[domain]
      PROVE  \E e \in Entries : e.domain = domain /\ e.opaque = origins[domain][o]
  <2> DEFINE e == [domain |-> domain, origin |-> o, opaque |-> origins[domain][o]]
  <2>1. e \in Entries BY EntryOf
  <2> QED BY <2>1
<1>3. ASSUME NEW e \in Entries, e.domain = domain
      PROVE  \E o \in DOMAIN origins[domain] : e.opaque = origins[domain][o]
  BY <1>3, EntryOf
<1> QED BY <1>1, <1>2, <1>3

-----------------------------------------------------------------------------
(* The invariant.                                                          *)

\* The invariant holds of the empty map.
LEMMA InitInv == Init => OInv
<1> SUFFICES ASSUME Init PROVE OInv OBVIOUS
<1>1. Entries = {} BY DEF Entries, Init
<1> QED BY <1>1, OriginsAssumption
      DEF Init, OInv, Derived, Live, OneUsePerOpaqueOrigin, HandedIsTracked, TakenOnce, Opaque

\* A call that finds its pair hands out the entry that is there.
LEMMA FoundInv ==
    ASSUME OInv, NEW r, NEW opaque \in Find(r.top_frame_origin, r.url), Answer(r, opaque),
           UNCHANGED <<origins, derived, taken, dropped>>
    PROVE  OInv'
<1> DEFINE x == [domain |-> r.top_frame_origin, origin |-> r.url, opaque |-> opaque]
<1>1. x \in Entries
  BY EntryOf DEF Find, Known
<1>2. handed' = handed
  BY <1>1 DEF Answer, OInv, Live
<1>3. Entries' = Entries BY DEF Entries
<1> QED BY <1>2, <1>3
      DEF OInv, Derived, Live, OneUsePerOpaqueOrigin, HandedIsTracked, TakenOnce

\* A call that derives an origin derives a new one.
LEMMA DerivedInv ==
    ASSUME OInv, NEW r, Find(r.top_frame_origin, r.url) = {}, derived < MaxOrigins,
           derived' = derived + 1,
           origins' = Insert(r.top_frame_origin, r.url, derived + 1),
           Answer(r, derived + 1), UNCHANGED <<taken, dropped>>
    PROVE  OInv'
<1> DEFINE x == [domain |-> r.top_frame_origin, origin |-> r.url, opaque |-> derived + 1]
<1>1. Entries' = Entries \cup {x} BY InsertEntries
<1>2. handed' = handed \cup {x} BY DEF Answer
<1>3. x.opaque = derived + 1 OBVIOUS
<1> HIDE DEF x
<1> USE OriginsAssumption
<1>4. derived + 1 \in Opaque /\ derived + 1 \notin 1 .. derived /\ derived \in Nat
  BY DEF OInv, Derived, Opaque
<1>5. taken[derived + 1] = 0 /\ derived + 1 \notin dropped
  BY <1>4 DEF OInv, Derived
<1>6. Derived'
  BY <1>2, <1>3, <1>4 DEF OInv, Derived, Opaque
<1>7. Live' BY <1>1, <1>2, <1>3, <1>5 DEF OInv, Live
<1>8. OneUsePerOpaqueOrigin'
  BY <1>2, <1>3, <1>4 DEF OInv, Derived, OneUsePerOpaqueOrigin
<1>9. HandedIsTracked' BY <1>1, <1>2 DEF OInv, HandedIsTracked
<1>10. TakenOnce' BY <1>1, <1>3, <1>5 DEF OInv, TakenOnce
<1> QED BY <1>6, <1>7, <1>8, <1>9, <1>10 DEF OInv

\* A Take returns the entries it removes, which no Take returned before.
LEMMA TakeInv ==
    ASSUME OInv, NEW domain, TakeEphemeralStorageOpaqueOrigins(domain)
    PROVE  OInv'
<1> DEFINE gone == {e \in Entries : e.domain = domain}
           result == {e.opaque : e \in gone}
<1> USE DEF TakeEphemeralStorageOpaqueOrigins
<1>1. Entries' = {e \in Entries : e.domain # domain} BY WithoutEntries
<1>2. taken' = [o \in Opaque |-> IF o \in result THEN taken[o] + 1 ELSE taken[o]]
  BY Taken
<1> USE OriginsAssumption
<1>3. result \subseteq 1 .. derived /\ \A o \in result : taken[o] = 0
  BY DEF OInv, Derived, Live
<1>4. \A e \in Entries' : e.opaque \notin result
  BY <1>1 DEF OInv, Live, OneUsePerOpaqueOrigin
<1>5. \A e \in Entries : e.opaque \in Opaque /\ e \in handed
  BY DEF OInv, Live, Derived, Opaque
<1>6. \A e \in Entries : e \in Entries' \/ e.opaque \in result
  BY <1>1
<1> HIDE DEF gone, result
<1>7. /\ \A o \in Opaque : taken[o] \in Nat
      /\ \A o \in Opaque : taken'[o] = IF o \in result THEN taken[o] + 1 ELSE taken[o]
  BY <1>2 DEF OInv, Derived
<1>8. Derived' BY <1>2, <1>3, <1>7 DEF OInv, Derived, Opaque
<1>9. Live' BY <1>1, <1>4, <1>5, <1>7 DEF OInv, Live
<1>10. OneUsePerOpaqueOrigin' BY DEF OInv, OneUsePerOpaqueOrigin
<1>11. HandedIsTracked'
  <2> SUFFICES ASSUME NEW x \in handed
               PROVE  x \in Entries' \/ taken'[x.opaque] > 0 \/ x.opaque \in dropped
    BY DEF HandedIsTracked
  <2>1. x.opaque \in Opaque BY DEF OInv, Derived, Opaque
  <2>2. CASE x \in Entries BY <2>1, <2>2, <1>3, <1>6, <1>7
  <2>3. CASE x \notin Entries BY <2>1, <2>3, <1>7 DEF OInv, HandedIsTracked
  <2> QED BY <2>2, <2>3
<1>12. TakenOnce'
  <2>1. ASSUME NEW o \in Opaque PROVE taken'[o] <= 1
    <3>1. CASE o \in result
      <4>1. taken[o] = 0 /\ taken'[o] = taken[o] + 1 BY <3>1, <1>3, <1>7
      <4> QED BY <4>1
    <3>2. CASE o \notin result
      <4>1. taken'[o] = taken[o] BY <3>2, <1>7
      <4> QED BY <4>1 DEF OInv, TakenOnce
    <3> QED BY <3>1, <3>2
  <2>2. \A e \in Entries' : taken'[e.opaque] = 0
    BY <1>1, <1>4, <1>5, <1>7 DEF OInv, TakenOnce
  <2> QED BY <2>1, <2>2 DEF TakenOnce
<1> QED BY <1>8, <1>9, <1>10, <1>11, <1>12 DEF OInv

\* The shutdown drops every entry at once.
LEMMA ShutdownInv ==
    ASSUME OInv, ShutdownOnUIThread
    PROVE  OInv'
<1> USE DEF ShutdownOnUIThread
<1>1. Entries' = {} BY DEF Entries
<1>2. dropped' = dropped \cup {e.opaque : e \in Entries} OBVIOUS
<1>3. Derived' BY <1>2 DEF OInv, Derived, Live
<1> QED BY <1>1, <1>2, <1>3
      DEF OInv, Live, OneUsePerOpaqueOrigin, HandedIsTracked, TakenOnce

\* Every step of every thread keeps the invariant.
LEMMA StepInv == OInv /\ [Next]_vars => OInv'
<1> SUFFICES ASSUME OInv, [Next]_vars PROVE OInv' OBVIOUS
<1>1. ASSUME UNCHANGED <<origins, derived, handed, taken, dropped>> PROVE OInv'
  <2>1. Entries' = Entries BY <1>1 DEF Entries
  <2> QED BY <1>1, <2>1
        DEF OInv, Derived, Live, OneUsePerOpaqueOrigin, HandedIsTracked, TakenOnce
<1>2. ASSUME NEW t \in Thread, FindOrDerive(t) PROVE OInv'
  BY <1>2, FoundInv, DerivedInv DEF FindOrDerive
<1> QED BY <1>1, <1>2, TakeInv, ShutdownInv DEF Next, Decide, Edit, vars

\* The invariant holds for every interleaving.
LEMMA Invariance == Spec => []OInv
BY InitInv, StepInv, PTL DEF Spec

\* The storage of one page's frame is never another's: an opaque origin
\* stands for one (domain, origin) pair.
THEOREM NeverShared == Spec => []OneUsePerOpaqueOrigin
<1>1. OInv => OneUsePerOpaqueOrigin BY DEF OInv
<1> QED BY <1>1, Invariance, PTL

\* An origin that was handed out stays reachable for the next Take of its
\* domain, on whichever threads the calls run.
THEOREM NeverLost == Spec => []HandedIsTracked
<1>1. OInv => HandedIsTracked BY DEF OInv
<1> QED BY <1>1, Invariance, PTL

\* No opaque origin is taken twice, or answered from the map after a Take.
THEOREM NeverTakenTwice == Spec => []TakenOnce
<1>1. OInv => TakenOnce BY DEF OInv
<1> QED BY <1>1, Invariance, PTL

\* The frames of one origin in a page share their storage until it is taken.
THEOREM Stable == Spec => []StableUntilTaken
<1>1. OInv => StableUntilTaken
  <2> SUFFICES ASSUME OInv, NEW x \in handed, NEW y \in handed,
                      x.domain = y.domain, x.origin = y.origin,
                      taken[x.opaque] = 0, taken[y.opaque] = 0,
                      {x.opaque, y.opaque} \cap dropped = {}
               PROVE  x = y
    BY DEF StableUntilTaken
  <2>1. x \in Entries /\ y \in Entries
    BY DEF OInv, HandedIsTracked
  <2> QED BY <2>1, OnePerPair
<1> QED BY <1>1, Invariance, PTL
-----------------------------------------------------------------------------
(* Type correctness, which the abstract steps need: a pending call is a     *)
(* request of known sites.                                                  *)

\* A call in its critical section asks for sites.
LEMMA RequestOfSites ==
    ASSUME NEW r \in FrameRequests
    PROVE  r.url \in Site /\ r.top_frame_origin \in Site
BY DEF FrameRequests, Requests

\* An edit changes a rule or the preference to one of the known values.
LEMMA EditTypeOK ==
    ASSUME SettingsTypeOK, EditSettings
    PROVE  SettingsTypeOK'
<1>1. CASE \E s \in Site, v \in SiteRules : SetSiteRule(s, v)
  BY <1>1 DEF SetSiteRule, SettingsTypeOK
<1>2. CASE \E s \in Site, v \in TopRules : SetTopRule(s, v)
  BY <1>2 DEF SetTopRule, SettingsTypeOK
<1>3. CASE \E v \in DefaultRules : SetDefaultRule(v)
  BY <1>3 DEF SetDefaultRule, SettingsTypeOK
<1>4. CASE ToggleBlockThirdParty
  BY <1>4 DEF ToggleBlockThirdParty, SettingsTypeOK
<1> QED
  BY <1>1, <1>2, <1>3, <1>4 DEF EditSettings

\* The types of the map.
MapOK ==
    /\ DOMAIN origins \subseteq Site
    /\ \A d \in DOMAIN origins :
          DOMAIN origins[d] \subseteq Site /\ \A o \in DOMAIN origins[d] : origins[d][o] \in Opaque

\* An insert of a derived origin keeps them.
LEMMA InsertMapOK ==
    ASSUME MapOK, NEW domain \in Site, NEW origin \in Site, NEW opaque \in Opaque,
           origins' = Insert(domain, origin, opaque)
    PROVE  MapOK'
<1>1. DOMAIN origins' = DOMAIN origins \cup {domain} BY DEF Insert
<1>2. \A d \in DOMAIN origins : d # domain => origins'[d] = origins[d] BY DEF Insert
<1>3. DOMAIN Known(domain) \subseteq Site
      /\ \A o \in DOMAIN Known(domain) : Known(domain)[o] \in Opaque
  BY DEF MapOK, Known
<1>4. DOMAIN origins'[domain] = DOMAIN Known(domain) \cup {origin} BY DEF Insert
<1>5. \A o \in DOMAIN origins'[domain] :
        origins'[domain][o] = IF o = origin THEN opaque ELSE Known(domain)[o]
  BY DEF Insert
<1> HIDE DEF Insert, Known
<1>6. ASSUME NEW d \in DOMAIN origins'
      PROVE  /\ DOMAIN origins'[d] \subseteq Site
             /\ \A o \in DOMAIN origins'[d] : origins'[d][o] \in Opaque
  <2>1. CASE d = domain BY <2>1, <1>3, <1>4, <1>5
  <2>2. CASE d # domain BY <2>2, <1>1, <1>2 DEF MapOK
  <2> QED BY <2>1, <2>2
<1> QED BY <1>1, <1>6 DEF MapOK

\* A Take and the shutdown only remove domains.
LEMMA RemoveMapOK ==
    ASSUME MapOK, NEW domains, origins' = [d \in domains |-> origins[d]],
           domains \subseteq DOMAIN origins
    PROVE  MapOK'
BY DEF MapOK

\* Everything is of its type at first.
LEMMA InitTypeOK == Init => TypeOK
BY RulesAssumption, OriginsAssumption DEF Init, InitSettings, TypeOK, SettingsTypeOK

\* Each step keeps the types: they are inductive by themselves.
LEMMA StepTypeOK == TypeOK /\ [Next]_vars => TypeOK'
<1> SUFFICES ASSUME TypeOK, [Next]_vars PROVE TypeOK' OBVIOUS
<1>0. ASSUME UNCHANGED settings PROVE SettingsTypeOK'
  BY <1>0 DEF TypeOK, settings, SettingsTypeOK
<1>1. ASSUME NEW t \in Thread, NEW r \in FrameRequests, Decide(t, r) PROVE TypeOK'
  <2>1. call' \in [Thread -> FrameRequests \cup {NoSite}] BY <1>1 DEF Decide, TypeOK
  <2> QED BY <1>0, <1>1, <2>1 DEF Decide, TypeOK
<1>2. ASSUME NEW t \in Thread, FindOrDerive(t) PROVE TypeOK'
  <2> DEFINE r == call[t]
  <2>1. r \in FrameRequests BY <1>2 DEF FindOrDerive, TypeOK
  <2>2. r.url \in Site /\ r.top_frame_origin \in Site BY <2>1, RequestOfSites
  <2>3. call' \in [Thread -> FrameRequests \cup {NoSite}] BY <1>2 DEF FindOrDerive, TypeOK
  <2>4. SettingsTypeOK' BY <1>0, <1>2 DEF FindOrDerive
  <2>5. UNCHANGED <<taken, dropped>> BY <1>2 DEF FindOrDerive
  <2>6. ASSUME NEW opaque \in Find(r.top_frame_origin, r.url), Answer(r, opaque),
               UNCHANGED <<origins, derived>>
        PROVE  TypeOK'
    <3>1. opaque \in Opaque BY <2>6 DEF Find, Known, TypeOK
    <3>2. handed' \subseteq [domain : Site, origin : Site, opaque : Opaque]
      BY <2>2, <2>6, <3>1 DEF Answer, TypeOK
    <3> QED BY <2>3, <2>4, <2>5, <2>6, <3>2 DEF TypeOK
  <2>7. ASSUME derived < MaxOrigins, derived' = derived + 1,
               origins' = Insert(r.top_frame_origin, r.url, derived + 1),
               Answer(r, derived + 1)
        PROVE  TypeOK'
    <3>1. derived + 1 \in Opaque /\ derived' \in 0 .. MaxOrigins
      BY <2>7, OriginsAssumption DEF TypeOK, Opaque
    <3>2. handed' \subseteq [domain : Site, origin : Site, opaque : Opaque]
      BY <2>2, <2>7, <3>1 DEF Answer, TypeOK
    <3>3. MapOK BY DEF TypeOK, MapOK
    <3>4. MapOK' BY <2>2, <2>7, <3>1, <3>3, InsertMapOK
    <3> QED BY <2>3, <2>4, <2>5, <3>1, <3>2, <3>4 DEF TypeOK, MapOK
  <2> QED BY <1>2, <2>6, <2>7 DEF FindOrDerive
<1>3. ASSUME NEW domain \in Site, TakeEphemeralStorageOpaqueOrigins(domain) PROVE TypeOK'
  <2> USE <1>3 DEF TakeEphemeralStorageOpaqueOrigins
  <2>1. MapOK' BY RemoveMapOK DEF Without, TypeOK, MapOK
  <2>2. taken' \in [Opaque -> Nat] BY DEF TypeOK
  <2> QED BY <1>0, <2>1, <2>2 DEF TypeOK, MapOK
<1>4. CASE ShutdownOnUIThread
  <2> USE <1>4 DEF ShutdownOnUIThread
  <2>1. MapOK' BY DEF MapOK
  <2>2. \A e \in Entries : e.opaque \in Opaque BY EntryOf DEF TypeOK
  <2> QED BY <1>0, <2>1, <2>2 DEF TypeOK, MapOK
<1>5. CASE Edit
  BY <1>5, EditTypeOK DEF Edit, TypeOK
<1>6. CASE UNCHANGED vars
  BY <1>0, <1>6 DEF vars, settings, TypeOK
<1> QED
  BY <1>1, <1>2, <1>3, <1>4, <1>5, <1>6 DEF Next

\* The map holds derived origins below known sites, a pending call is a frame's
\* request, and the settings stay among the known ones.
THEOREM TypeCorrect == Spec => []TypeOK
BY InitTypeOK, StepTypeOK, PTL DEF Spec

-----------------------------------------------------------------------------
(* The refinement.  OInv says which identifiers are fresh and that the      *)
(* entries of the map are the ones given and not spent; TypeOK says that    *)
(* the pair is one of the memory's.                                         *)

\* What is spent, in the abstract memory.
SpentIds == {o \in Opaque : taken[o] > 0} \cup dropped

\* A call that finds its pair gives the identifier in use.
LEMMA FoundRefines ==
    ASSUME OInv, NEW r \in FrameRequests, NEW opaque \in Find(r.top_frame_origin, r.url),
           Answer(r, opaque), UNCHANGED <<origins, derived, taken, dropped>>
    PROVE  Memory!Next
<1> DEFINE x == [domain |-> r.top_frame_origin, origin |-> r.url, opaque |-> opaque]
<1>1. x \in Entries
  BY EntryOf DEF Find, Known
<1>2. handed' = handed \cup {x} BY DEF Answer
<1>3. x \in handed BY <1>1 DEF OInv, Live
<1>4. Entries' = Entries BY DEF Entries
<1>5. opaque \in Opaque
  <2>1. x.opaque \in 1 .. derived BY <1>3 DEF OInv, Derived
  <2> QED BY <2>1, OriginsAssumption DEF OInv, Derived, Opaque
<1>6. SpentIds' = SpentIds BY DEF SpentIds
<1>7. Memory!Give(x)
  <2> HIDE DEF x
  <2> QED BY <1>1, <1>2, <1>4, <1>6 DEF Memory!Give, SpentIds
<1> QED BY <1>5, <1>7, RequestOfSites DEF Memory!Next

\* A call that derives an origin gives a new identifier, to a pair without.
LEMMA DerivedRefines ==
    ASSUME OInv, NEW r \in FrameRequests, Find(r.top_frame_origin, r.url) = {},
           derived < MaxOrigins,
           origins' = Insert(r.top_frame_origin, r.url, derived + 1),
           Answer(r, derived + 1), UNCHANGED <<taken, dropped>>
    PROVE  Memory!Next
<1> DEFINE x == [domain |-> r.top_frame_origin, origin |-> r.url, opaque |-> derived + 1]
<1>1. Entries' = Entries \cup {x} BY InsertEntries
<1>2. handed' = handed \cup {x} BY DEF Answer
<1>3. derived + 1 \in Opaque /\ derived + 1 \notin 1 .. derived
  BY OriginsAssumption DEF OInv, Derived, Opaque
<1>4. \A e \in handed : e.opaque # x.opaque
  BY <1>3 DEF OInv, Derived
<1>5. \A e \in Entries : e.domain # x.domain \/ e.origin # x.origin
  <2> SUFFICES ASSUME NEW e \in Entries, e.domain = r.top_frame_origin, e.origin = r.url
               PROVE  FALSE
    OBVIOUS
  <2>1. r.top_frame_origin \in DOMAIN origins
        /\ r.url \in DOMAIN origins[r.top_frame_origin]
    BY EntryOf
  <2>2. r.url \in DOMAIN Known(r.top_frame_origin) BY <2>1 DEF Known
  <2> QED BY <2>2 DEF Find
<1>6. SpentIds' = SpentIds BY DEF SpentIds
<1>7. Memory!Give(x)
  <2> HIDE DEF x
  <2> QED BY <1>1, <1>2, <1>4, <1>5, <1>6 DEF Memory!Give, SpentIds
<1> QED BY <1>3, <1>7, RequestOfSites DEF Memory!Next

\* A Take cleans up one page.
LEMMA TakeRefines ==
    ASSUME OInv, NEW domain \in Site, TakeEphemeralStorageOpaqueOrigins(domain)
    PROVE  Memory!Next
<1> DEFINE gone == {e \in Entries : e.domain \in {domain}}
           result == {e.opaque : e \in gone}
<1> USE DEF TakeEphemeralStorageOpaqueOrigins
<1>1. Entries' = Entries \ gone BY WithoutEntries
<1>2. result = {Known(domain)[o] : o \in DOMAIN Known(domain)}
  <2>1. gone = {e \in Entries : e.domain = domain} OBVIOUS
  <2> QED BY <2>1, Taken
<1>3. \A o \in Opaque : taken'[o] = IF o \in result THEN taken[o] + 1 ELSE taken[o]
  BY <1>2
<1>4. result \subseteq Opaque
  BY OriginsAssumption DEF OInv, Derived, Live, Opaque
<1>5. SpentIds' = SpentIds \cup result
  <2> HIDE DEF result
  <2>1. \A o \in Opaque : taken[o] \in Nat BY DEF OInv, Derived
  <2>2. \A o \in Opaque : taken'[o] > 0 <=> taken[o] > 0 \/ o \in result
    BY <1>3, <2>1
  <2> QED BY <1>4, <2>2 DEF SpentIds
<1>6. Memory!CleanUp({domain})
  BY <1>1, <1>5 DEF Memory!CleanUp, SpentIds
<1> QED BY <1>6 DEF Memory!Next

\* The shutdown cleans up every page.
LEMMA ShutdownRefines ==
    ASSUME TypeOK, ShutdownOnUIThread
    PROVE  Memory!Next
<1> DEFINE gone == {e \in Entries : e.domain \in Site}
<1> USE DEF ShutdownOnUIThread
<1>1. gone = Entries BY EntryOf DEF TypeOK
<1>2. Entries' = {} BY DEF Entries
<1>3. SpentIds' = SpentIds \cup {e.opaque : e \in gone}
  BY <1>1 DEF SpentIds
<1>4. Memory!CleanUp(Site)
  BY <1>1, <1>2, <1>3 DEF Memory!CleanUp, SpentIds
<1> QED BY <1>4 DEF Memory!Next

\* Every other step leaves the memory as it is.
LEMMA StepRefines ==
    ASSUME OInv, TypeOK, [Next]_vars
    PROVE  [Memory!Next]_(Memory!memory)
<1>1. ASSUME NEW t \in Thread, FindOrDerive(t) PROVE Memory!Next
  <2>1. call[t] \in FrameRequests BY <1>1 DEF FindOrDerive, TypeOK
  <2> QED BY <1>1, <2>1, FoundRefines, DerivedRefines DEF FindOrDerive
<1>2. ASSUME UNCHANGED <<origins, handed, taken, dropped>> PROVE UNCHANGED Memory!memory
  <2>1. Entries' = Entries BY <1>2 DEF Entries
  <2> QED BY <1>2, <2>1 DEF Memory!memory
<1> QED
  BY <1>1, <1>2, TakeRefines, ShutdownRefines DEF Next, Decide, Edit, vars

\* The empty map is the empty memory.
LEMMA InitRefines == Init => Memory!Init
<1> SUFFICES ASSUME Init PROVE Memory!Init OBVIOUS
<1>1. Entries = {} BY DEF Entries, Init
<1>2. {o \in Opaque : taken[o] > 0} = {} BY DEF Init
<1> QED BY <1>1, <1>2 DEF Init, Memory!Init

\* Under any interleaving of the threads the two-level map is one memory of
\* pairs: it gives the identifier in use or a fresh one, and forgets the
\* identifiers of a page together (ShouldUseEphemeralStorage,
\* TakeEphemeralStorageOpaqueOrigins and ShutdownOnUIThread).
THEOREM ActsAsOneMemory == Spec => IsOriginMemory
BY InitRefines, StepRefines, Invariance, TypeCorrect, PTL
   DEF Spec, IsOriginMemory, Memory!Spec
=============================================================================
