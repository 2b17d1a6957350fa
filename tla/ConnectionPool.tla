--------------------------- MODULE ConnectionPool ---------------------------
(***************************************************************************)
(* Event sources and web sockets that have to hold a place in a pool to    *)
(* connect, in third_party/blink/renderer/modules/eventsource/             *)
(* event_source.cc and modules/websockets/websocket_channel_impl.cc.       *)
(*                                                                         *)
(* ResourcePoolLimiter (outside this repository) has one pool for each of  *)
(* the two kinds; it issues a tracker unless LimitSource, or LimitSocket,  *)
(* of them exist.  The connection itself is upstream code: the steps that  *)
(* call into the overrides modelled here are kept.                         *)
(***************************************************************************)
EXTENDS Integers, FiniteSets

CONSTANTS
    Source,       \* event sources
    Socket,       \* web socket channels
    LimitSource,  \* places for event sources
    LimitSocket   \* places for web sockets

ASSUME PoolAssumption ==
    /\ IsFiniteSet(Source) /\ IsFiniteSet(Socket)
    /\ LimitSource \in Nat /\ LimitSocket \in Nat

VARIABLES
    restricted,  \* the farbling level of the page restricts the pools
    source,      \* per event source, its state
    tracker,     \* the sources whose event_source_in_use_tracker_ is set
    counted,     \* the sources whose last connect was restricted (history)
    orphans,     \* the sources whose execution context is destroyed
    socket,      \* per web socket channel, its state
    sockTracker, \* the channels whose websocket_in_use_tracker_ is set
    sockCounted  \* the channels whose connect was restricted (history)

sourceVars == <<source, tracker, counted, orphans>>
socketVars == <<socket, sockTracker, sockCounted>>
vars == <<restricted, sourceVars, socketVars>>

\* "waiting": the connect timer runs; "loading": connecting; "gone": collected.
SourceState == {"new", "waiting", "loading", "open", "closed", "gone"}
SocketState == {"new", "connecting", "open", "refused", "closed"}

Connected == {"loading", "open"}

Init ==
    /\ restricted \in BOOLEAN
    /\ source = [s \in Source |-> "new"]
    /\ tracker = {} /\ counted = {} /\ orphans = {}
    /\ socket = [c \in Socket |-> "new"]
    /\ sockTracker = {} /\ sockCounted = {}

\* The user changes the settings of the page.
ChangeSettings ==
    /\ restricted' = ~restricted
    /\ UNCHANGED <<sourceVars, socketVars>>

-----------------------------------------------------------------------------
(* Event sources.                                                          *)

Become(s, state) == source' = [source EXCEPT ![s] = state]

Create(s) ==
    /\ source[s] = "new"
    /\ Become(s, "waiting")
    /\ UNCHANGED <<tracker, counted, orphans, restricted, socketVars>>

\* IssueResourceInUseTracker; the tracker the source still holds is counted.
Issued == Cardinality(tracker) < LimitSource

\* Mutant: without the early return, a refused source connects all the same.
MutAfterAsk == "loading"

\* Connect, or AbortConnectionAttempt without a place.
AfterAsk == IF restricted /\ ~Issued THEN "closed" ELSE "loading"

\* BraveConnect.  Assigning the new tracker, or none, releases the old one.
ConnectTimerFired(s) ==
    /\ source[s] = "waiting"
    /\ Become(s, AfterAsk)
    /\ \/ /\ ~restricted
          /\ counted' = counted \ {s}
          /\ UNCHANGED tracker
       \/ /\ restricted
          /\ counted' = counted \cup {s}
          /\ tracker' = IF Issued THEN tracker \cup {s} ELSE tracker \ {s}
    /\ UNCHANGED <<orphans, restricted, socketVars>>

DidReceiveResponse(s) ==
    /\ source[s] = "loading"
    /\ Become(s, "open")
    /\ UNCHANGED <<tracker, counted, orphans, restricted, socketVars>>

DidFinishLoading(s) ==
    /\ source[s] \in Connected
    /\ Become(s, "waiting")
    /\ UNCHANGED <<tracker, counted, orphans, restricted, socketVars>>

\* Mutant: the tracker is given back on any failure.
MutAfterFail(s, state) == tracker \ {s}

AfterFail(s, state) == IF state = "closed" THEN tracker \ {s} ELSE tracker

\* A failure closes the source, or has it reconnect.
DidFail(s) ==
    /\ source[s] \in Connected
    /\ \E state \in {"closed", "waiting"} :
          /\ Become(s, state)
          /\ tracker' = AfterFail(s, state)
    /\ UNCHANGED <<counted, orphans, restricted, socketVars>>

DidFailRedirectCheck(s) ==
    /\ source[s] = "loading"
    /\ Become(s, "closed")
    /\ tracker' = tracker \ {s}
    /\ UNCHANGED <<counted, orphans, restricted, socketVars>>

\* close(), called by a script of the page, or of another one that still
\* refers to the source.
CloseSource(s) ==
    /\ source[s] \notin {"new", "gone"}
    /\ Become(s, "closed")
    /\ tracker' = tracker \ {s}
    /\ UNCHANGED <<counted, orphans, restricted, socketVars>>

\* ContextDestroyed calls upstream's close, which knows no tracker.
ContextDestroyed(s) ==
    /\ source[s] \notin {"new", "gone"} /\ s \notin orphans
    /\ orphans' = orphans \cup {s}
    /\ Become(s, "closed")
    /\ UNCHANGED <<tracker, counted, restricted, socketVars>>

\* The source is collected, and its tracker destroyed with it.
CollectSource(s) ==
    /\ source[s] = "closed"
    /\ Become(s, "gone")
    /\ tracker' = tracker \ {s}
    /\ UNCHANGED <<counted, orphans, restricted, socketVars>>

-----------------------------------------------------------------------------
(* Web sockets.                                                            *)

SockBecome(c, state) == socket' = [socket EXCEPT ![c] = state]

SockIssued == Cardinality(sockTracker) < LimitSocket

\* Connect with ShouldDisallowConnection; the subresource filter of upstream
\* may refuse a channel that was given a place.
Connect(c) ==
    /\ socket[c] = "new"
    /\ sockCounted' = IF restricted THEN sockCounted \cup {c} ELSE sockCounted \ {c}
    /\ \/ /\ restricted /\ ~SockIssued
          /\ SockBecome(c, "refused")
          /\ UNCHANGED sockTracker
       \/ /\ restricted => SockIssued
          /\ sockTracker' = IF restricted THEN sockTracker \cup {c} ELSE sockTracker
          /\ \E state \in {"connecting", "refused"} : SockBecome(c, state)
    /\ UNCHANGED <<restricted, sourceVars>>

OnConnectionEstablished(c) ==
    /\ socket[c] = "connecting"
    /\ SockBecome(c, "open")
    /\ UNCHANGED <<sockTracker, sockCounted, restricted, sourceVars>>

TearDownFailedConnection(c) ==
    /\ socket[c] \in {"connecting", "open", "refused"}
    /\ SockBecome(c, "closed")
    /\ sockTracker' = sockTracker \ {c}
    /\ UNCHANGED <<sockCounted, restricted, sourceVars>>

\* Dispose: the channel closed, was disconnected by its page or is collected.
Dispose(c) ==
    /\ socket[c] # "new"
    /\ SockBecome(c, "closed")
    /\ sockTracker' = sockTracker \ {c}
    /\ UNCHANGED <<sockCounted, restricted, sourceVars>>

-----------------------------------------------------------------------------
SourceStep(s) ==
    \/ Create(s) \/ ConnectTimerFired(s) \/ DidReceiveResponse(s)
    \/ DidFinishLoading(s) \/ DidFail(s) \/ DidFailRedirectCheck(s)
    \/ CloseSource(s) \/ ContextDestroyed(s) \/ CollectSource(s)

SocketStep(c) ==
    \/ Connect(c) \/ OnConnectionEstablished(c)
    \/ TearDownFailedConnection(c) \/ Dispose(c)

Next ==
    \/ ChangeSettings
    \/ \E s \in Source : SourceStep(s)
    \/ \E c \in Socket : SocketStep(c)

Spec == Init /\ [][Next]_vars

-----------------------------------------------------------------------------
(* Properties.                                                             *)

\* Type invariant.
TypeOK ==
    /\ restricted \in BOOLEAN
    /\ source \in [Source -> SourceState]
    /\ tracker \subseteq Source /\ counted \subseteq Source /\ orphans \subseteq Source
    /\ socket \in [Socket -> SocketState]
    /\ sockTracker \subseteq Socket /\ sockCounted \subseteq Socket

\* A source that connected under the restriction is counted for as long as it
\* streams or means to reconnect, and one that its page closed or that failed
\* for good is not, so that the places follow the connections.
PlacesFollowSources ==
    \A s \in Source :
        /\ source[s] \in Connected \cup {"waiting"} /\ s \in counted => s \in tracker
        /\ source[s] \in {"closed", "gone"} /\ s \notin orphans => s \notin tracker

\* Of the sources and of the channels that asked to connect under the
\* restriction, no more than the limit are connected at a time: every way to a
\* connection passes by the pool, a refusal ends the attempt, and no place is
\* given back under a connection (BraveConnect, ShouldDisallowConnection and
\* all that resets a tracker).
ConnectionsAreBounded ==
    /\ Cardinality({s \in counted : source[s] \in Connected}) <= LimitSource
    /\ Cardinality({c \in sockCounted : socket[c] \in {"connecting", "open"}}) <= LimitSocket
=============================================================================
