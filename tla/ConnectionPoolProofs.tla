------------------------ MODULE ConnectionPoolProofs ------------------------
(***************************************************************************)
(* The places follow the connections, and no more connections than places  *)
(* are made under the restriction, for any sources, sockets and limits.    *)
(***************************************************************************)
EXTENDS ConnectionPool, FiniteSetTheorems, TLAPS

\* A source that was not created yet has not connected.
NewInv == \A s \in Source : source[s] = "new" => s \notin counted

\* A channel that connected under the restriction holds its place.
SocketInv ==
    \A c \in Socket :
        c \in sockCounted /\ socket[c] \in {"connecting", "open"} => c \in sockTracker

\* The places taken, which is what ResourcePoolLimiter counts.
PlacesInv ==
    /\ Cardinality(tracker) <= LimitSource
    /\ Cardinality(sockTracker) <= LimitSocket

CInv == TypeOK /\ NewInv /\ PlacesFollowSources /\ SocketInv /\ PlacesInv

-----------------------------------------------------------------------------
(* Places.                                                                 *)

\* One more holder, when there was room, or one less, stays within the limit.
LEMMA HoldersBound ==
    ASSUME NEW User, IsFiniteSet(User), NEW Limit \in Nat,
           NEW holders \in SUBSET User, Cardinality(holders) <= Limit, NEW u \in User
    PROVE  /\ Cardinality(holders \ {u}) <= Limit
           /\ Cardinality(holders) < Limit => Cardinality(holders \cup {u}) <= Limit
<1>1. IsFiniteSet(holders) /\ Cardinality(holders) \in Nat
  BY FS_Subset, FS_CardinalityType
<1>2. Cardinality(holders \ {u})
        = IF u \in holders THEN Cardinality(holders) - 1 ELSE Cardinality(holders)
  BY <1>1, FS_RemoveElement
<1>3. Cardinality(holders \cup {u})
        = IF u \in holders THEN Cardinality(holders) ELSE Cardinality(holders) + 1
  BY <1>1, FS_AddElement
<1> QED
  BY <1>1, <1>2, <1>3

\* What a step of a source may do to the trackers, it does within the limit.
LEMMA SourcePlaces ==
    ASSUME CInv, NEW s \in Source,
           \/ tracker' = tracker
           \/ tracker' = tracker \ {s}
           \/ Issued /\ tracker' = tracker \cup {s}
    PROVE  Cardinality(tracker') <= LimitSource
<1>1. tracker \in SUBSET Source /\ Cardinality(tracker) <= LimitSource
  BY DEF CInv, TypeOK, PlacesInv
<1> QED
  BY <1>1, HoldersBound, PoolAssumption DEF Issued

\* The same for a channel.
LEMMA SocketPlaces ==
    ASSUME CInv, NEW c \in Socket,
           \/ sockTracker' = sockTracker
           \/ sockTracker' = sockTracker \ {c}
           \/ SockIssued /\ sockTracker' = sockTracker \cup {c}
    PROVE  Cardinality(sockTracker') <= LimitSocket
<1>1. sockTracker \in SUBSET Socket /\ Cardinality(sockTracker) <= LimitSocket
  BY DEF CInv, TypeOK, PlacesInv
<1> QED
  BY <1>1, HoldersBound, PoolAssumption DEF SockIssued

-----------------------------------------------------------------------------
(* The steps.                                                              *)

\* The invariant holds before anything connects.
LEMMA InitCInv == Init => CInv
<1> SUFFICES ASSUME Init PROVE CInv
  OBVIOUS
<1>1. TypeOK
  BY DEF Init, TypeOK, SourceState, SocketState
<1>2. NewInv /\ PlacesFollowSources /\ SocketInv
  BY DEF Init, NewInv, PlacesFollowSources, SocketInv, Connected
<1>3. PlacesInv
  <2>1. tracker = {} /\ sockTracker = {} /\ Cardinality({}) = 0
    BY FS_EmptySet DEF Init
  <2> QED
    BY <2>1, PoolAssumption DEF PlacesInv
<1> QED
  BY <1>1, <1>2, <1>3 DEF CInv

\* A step of a source keeps the invariant.
LEMMA SourceStepCInv ==
    ASSUME CInv, NEW s \in Source, SourceStep(s)
    PROVE  CInv'
<1>1. /\ UNCHANGED <<restricted, socket, sockTracker, sockCounted>>
      /\ \/ tracker' = tracker
         \/ tracker' = tracker \ {s}
         \/ Issued /\ tracker' = tracker \cup {s}
  BY DEF SourceStep, Create, ConnectTimerFired, DidReceiveResponse, DidFinishLoading,
         DidFail, AfterFail, DidFailRedirectCheck, CloseSource, ContextDestroyed,
         CollectSource, socketVars
<1>2. PlacesInv'
  BY <1>1, SourcePlaces DEF CInv, PlacesInv
<1>3. SocketInv'
  BY <1>1 DEF CInv, SocketInv
<1>4. TypeOK' /\ NewInv' /\ PlacesFollowSources'
  <2> USE DEF CInv, TypeOK, SourceState, NewInv, PlacesFollowSources, Connected, Become,
              socketVars
  <2>1. CASE Create(s)
    BY <2>1 DEF Create
  <2>2. CASE ConnectTimerFired(s)
    BY <2>2 DEF ConnectTimerFired, AfterAsk
  <2>3. CASE DidReceiveResponse(s) \/ DidFinishLoading(s)
    BY <2>3 DEF DidReceiveResponse, DidFinishLoading
  <2>4. CASE DidFail(s)
    BY <2>4 DEF DidFail, AfterFail
  <2>5. CASE DidFailRedirectCheck(s)
    BY <2>5 DEF DidFailRedirectCheck
  <2>6. CASE CloseSource(s) \/ CollectSource(s)
    BY <2>6 DEF CloseSource, CollectSource
  <2>7. CASE ContextDestroyed(s)
    BY <2>7 DEF ContextDestroyed
  <2> QED
    BY <2>1, <2>2, <2>3, <2>4, <2>5, <2>6, <2>7 DEF SourceStep
<1> QED
  BY <1>2, <1>3, <1>4 DEF CInv

\* A step of a channel keeps the invariant.
LEMMA SocketStepCInv ==
    ASSUME CInv, NEW c \in Socket, SocketStep(c)
    PROVE  CInv'
<1>1. /\ UNCHANGED <<restricted, source, tracker, counted, orphans>>
      /\ \/ sockTracker' = sockTracker
         \/ sockTracker' = sockTracker \ {c}
         \/ SockIssued /\ sockTracker' = sockTracker \cup {c}
  BY DEF SocketStep, Connect, OnConnectionEstablished, TearDownFailedConnection,
         Dispose, sourceVars
<1>2. PlacesInv'
  BY <1>1, SocketPlaces DEF CInv, PlacesInv
<1>3. NewInv' /\ PlacesFollowSources'
  BY <1>1 DEF CInv, NewInv, PlacesFollowSources, Connected
<1>4. TypeOK' /\ SocketInv'
  <2> USE <1>1 DEF CInv, TypeOK, SocketState, SocketInv, SockBecome
  <2>1. CASE Connect(c)
    BY <2>1 DEF Connect
  <2>2. CASE OnConnectionEstablished(c)
    BY <2>2 DEF OnConnectionEstablished
  <2>3. CASE TearDownFailedConnection(c) \/ Dispose(c)
    BY <2>3 DEF TearDownFailedConnection, Dispose
  <2> QED
    BY <2>1, <2>2, <2>3 DEF SocketStep
<1> QED
  BY <1>2, <1>3, <1>4 DEF CInv

\* The invariant is inductive.
LEMMA NextCInv == CInv /\ [Next]_vars => CInv'
<1> SUFFICES ASSUME CInv, [Next]_vars PROVE CInv'
  OBVIOUS
<1>1. CASE UNCHANGED <<sourceVars, socketVars>> /\ restricted' \in BOOLEAN
  <2>1. UNCHANGED <<source, tracker, counted, orphans, socket, sockTracker, sockCounted>>
    BY <1>1 DEF sourceVars, socketVars
  <2> QED
    BY <1>1, <2>1 DEF CInv, TypeOK, NewInv, PlacesFollowSources, SocketInv, PlacesInv, Connected
<1>2. CASE UNCHANGED vars
  BY <1>1, <1>2 DEF vars, CInv, TypeOK
<1>3. CASE ChangeSettings
  BY <1>1, <1>3 DEF ChangeSettings
<1> QED
  BY <1>2, <1>3, SourceStepCInv, SocketStepCInv DEF Next

-----------------------------------------------------------------------------
(* The theorems.                                                           *)

\* The state of the sources and of the channels is well formed.
THEOREM TypeCorrect == Spec => []TypeOK
<1>1. CInv => TypeOK
  BY DEF CInv
<1> QED
  BY <1>1, InitCInv, NextCInv, PTL DEF Spec

\* A restricted source holds a place exactly as long as it streams or means to
\* reconnect (MaybeResetEventSourceInUseTracker on the paths that end closed).
THEOREM PlacesFollow == Spec => []PlacesFollowSources
<1>1. CInv => PlacesFollowSources
  BY DEF CInv
<1> QED
  BY <1>1, InitCInv, NextCInv, PTL DEF Spec

\* Each connection made under the restriction holds a place, so there are no
\* more of them than places.
LEMMA PlacesBoundConnections == CInv => ConnectionsAreBounded
<1> SUFFICES ASSUME CInv PROVE ConnectionsAreBounded
  OBVIOUS
<1> DEFINE connected == {s \in counted : source[s] \in Connected}
           sockets == {c \in sockCounted : socket[c] \in {"connecting", "open"}}
<1>1. /\ tracker \subseteq Source /\ counted \subseteq Source
      /\ sockTracker \subseteq Socket /\ sockCounted \subseteq Socket
  BY DEF CInv, TypeOK
<1>2. connected \subseteq tracker
  BY <1>1 DEF CInv, PlacesFollowSources
<1>3. sockets \subseteq sockTracker
  BY <1>1 DEF CInv, SocketInv
<1>4. IsFiniteSet(tracker) /\ IsFiniteSet(sockTracker)
  BY <1>1, FS_Subset, PoolAssumption
<1>5. /\ IsFiniteSet(connected) /\ Cardinality(connected) <= Cardinality(tracker)
      /\ IsFiniteSet(sockets) /\ Cardinality(sockets) <= Cardinality(sockTracker)
  BY <1>2, <1>3, <1>4, FS_Subset
<1>6. /\ Cardinality(connected) \in Nat /\ Cardinality(tracker) \in Nat
      /\ Cardinality(sockets) \in Nat /\ Cardinality(sockTracker) \in Nat
  BY <1>4, <1>5, FS_CardinalityType
<1>7. Cardinality(connected) <= LimitSource /\ Cardinality(sockets) <= LimitSocket
  BY <1>5, <1>6, PoolAssumption DEF CInv, PlacesInv
<1> QED
  BY <1>7 DEF ConnectionsAreBounded

\* Whatever is reconnected, refused, closed or collected in which order, no
\* more event sources, and no more web sockets, than their limit are connected
\* under the restriction.
THEOREM NeverAboveLimit == Spec => []ConnectionsAreBounded
  BY PlacesBoundConnections, InitCInv, NextCInv, PTL DEF Spec
=============================================================================
