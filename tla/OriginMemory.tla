---------------------------- MODULE OriginMemory ----------------------------
(***************************************************************************)
(* What the map of opaque storage origins promises: a page has one         *)
(* identifier for each origin in it, given to every frame that asks, until *)
(* all the identifiers of the page are cleaned up together.  An identifier *)
(* that was given to anyone is never chosen again.                         *)
(***************************************************************************)
CONSTANTS
    Page,    \* top frames
    Origin,
    Id

VARIABLES
    live,    \* the identifiers in use, as [domain, origin, opaque]
    given,   \* every answer so far
    spent    \* the identifiers that were cleaned up

memory == <<live, given, spent>>

Init == live = {} /\ given = {} /\ spent = {}

\* A frame is given the identifier in use, or a new one if there is none.
Give(entry) ==
    /\ \/ entry \in live
       \/ /\ \A e \in live : e.domain # entry.domain \/ e.origin # entry.origin
          /\ \A e \in given : e.opaque # entry.opaque
    /\ live' = live \cup {entry}
    /\ given' = given \cup {entry}
    /\ UNCHANGED spent

\* The identifiers of some pages are cleaned up, all of each page's.
CleanUp(pages) ==
    LET gone == {e \in live : e.domain \in pages}
    IN  /\ live' = live \ gone
        /\ spent' = spent \cup {e.opaque : e \in gone}
        /\ UNCHANGED given

Next ==
    \/ \E p \in Page, o \in Origin, i \in Id :
          Give([domain |-> p, origin |-> o, opaque |-> i])
    \/ \E pages \in SUBSET Page : CleanUp(pages)

Spec == Init /\ [][Next]_memory
=============================================================================
