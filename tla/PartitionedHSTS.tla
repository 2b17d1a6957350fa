-------------------------- MODULE PartitionedHSTS --------------------------
(***************************************************************************)
(* HSTS partitioned by top frame, in net/http/transport_security_state.cc: *)
(* every call computes a partition hash, sets it on enabled_sts_hosts_ for *)
(* its duration and runs Chromium's implementation on that partition.      *)
(*                                                                         *)
(* A hash stands for what is hashed: a partition is a registrable domain,  *)
(* NoPartition (nullopt, the feature is off) or InvalidPartition (the      *)
(* empty hash).  The map itself, the expiry of entries and the persister   *)
(* that writes a dirty map to disk are external.                           *)
(***************************************************************************)
EXTENDS Naturals, Sequences, FiniteSets, FiniteSetsExt

CONSTANTS
    Host,
    NoHost,            \* the precursor of an opaque origin without one
    Superdomains,      \* per host, itself and its superdomains, longest first
    Domain,            \* per host, its registrable domain or the host itself
    NoDomain,          \* the hosts without one: addresses, localhost
    TopFrame,          \* the top frame origins, [scheme, host]; NoTopFrame
    NoTopFrame,
    NoPartition, InvalidPartition,
    Header,            \* the headers received, [age, subdomains]; age stands
                       \* for max-age, 0 takes the host off the list
    MaxEntries         \* bound on the entries stored

ASSUME HostAssumption ==
    /\ NoHost \notin Host
    /\ Domain \in [Host -> Host]
    /\ NoDomain \subseteq Host /\ \A h \in NoDomain : Domain[h] = h
    /\ Superdomains \in [Host -> Seq(Host)]
    /\ \A h \in Host : Len(Superdomains[h]) > 0 /\ Superdomains[h][1] = h
    /\ NoPartition # InvalidPartition
    /\ {NoPartition, InvalidPartition} \cap Host = {}

Origin == [scheme : {"https", "http", "opaque"}, host : Host \cup {NoHost}]

ASSUME FrameAssumption ==
    /\ Header \subseteq [age : {0, 1}, subdomains : BOOLEAN]
    /\ NoTopFrame \notin Origin
    /\ \A o \in TopFrame :
          o # NoTopFrame => o \in Origin /\ (o.host = NoHost => o.scheme = "opaque")

VARIABLES
    feature,   \* kBravePartitionHSTS, fixed while the browser runs
    sts,       \* enabled_sts_hosts_: a set of entries, see Entry
    dirty,     \* the persister was notified of a change it has not written
    disk       \* the entries on disk

vars == <<feature, sts, dirty, disk>>

Partition == Host \cup {NoPartition, InvalidPartition}

Entry == [part : Host \cup {NoPartition}, host : Host, subdomains : BOOLEAN]

\* site_for_cookies.site() is the top frame's site, or another one (null in a
\* frame with a cross-site ancestor).
IsolationInfo == [top : TopFrame, first_party : BOOLEAN]

-----------------------------------------------------------------------------
(* The partition of a call.                                                *)

\* An opaque origin that GetPartitionDomain knows nothing of: without a
\* precursor, or with one that has no registrable domain.
Unknown(origin) == origin.host = NoHost \/ (origin.scheme = "opaque" /\ origin.host \in NoDomain)

\* Mutant: the opaque origins without a precursor share a partition.
MutShared(origin) ==
    IF Unknown(origin) THEN CHOOSE h \in Host : TRUE ELSE Domain[origin.host]

\* GetPartitionDomain: an opaque origin counts as its precursor.
GetPartitionDomain(origin) == IF Unknown(origin) THEN NoHost ELSE Domain[origin.host]

GetHSTSPartitionHash(top) ==
    IF top = NoTopFrame \/ GetPartitionDomain(top) = NoHost THEN InvalidPartition
    ELSE GetPartitionDomain(top)

IsTopFrameOriginCryptographic(iso) == iso.top # NoTopFrame /\ iso.top.scheme = "https"

GetPartitionHashForAddingHSTS(iso) ==
    CASE ~feature -> NoPartition
      [] feature /\ IsTopFrameOriginCryptographic(iso) /\ ~iso.first_party -> InvalidPartition
      [] OTHER -> GetHSTSPartitionHash(iso.top)

GetPartitionHashForHSTS(top) ==
    IF feature THEN GetHSTSPartitionHash(top) ELSE NoPartition

\* Mutant: the host itself is the partition, not its registrable domain.
MutHostItself(host) == IF feature THEN host ELSE NoPartition

GetHostBoundPartitionHashForHSTS(host) ==
    IF feature THEN GetHSTSPartitionHash([scheme |-> "https", host |-> host]) ELSE NoPartition

-----------------------------------------------------------------------------
(* The map, within one partition (external).                               *)

Found(part, host) == {e \in sts : e.part = part /\ e.host = host}

\* The positions of host's superdomains that have an entry.
Hits(part, host) ==
    {i \in DOMAIN Superdomains[host] : Found(part, Superdomains[host][i]) # {}}

\* The most specific entry decides; a superdomain's only with its subdomains.
IsUpgraded(part, host) ==
    LET hits == Hits(part, host)
    IN  /\ hits # {}
        /\ \/ Min(hits) = 1
           \/ \E e \in Found(part, Superdomains[host][Min(hits)]) : e.subdomains

\* AddHSTSInternal
Store(part, host, header) ==
    /\ sts' = (sts \ Found(part, host)) \cup
                 (IF header.age = 0 THEN {}
                  ELSE {[part |-> part, host |-> host, subdomains |-> header.subdomains]})
    /\ Cardinality(sts') <= MaxEntries
    /\ dirty' = TRUE

-----------------------------------------------------------------------------
(* The operations.                                                         *)

\* A browser starts on what an earlier one left.
Init ==
    /\ feature \in BOOLEAN
    /\ sts = {}
    /\ dirty = FALSE
    /\ disk = {}

\* HasPartitionHash() && !IsPartitionHashValid() returns false.
Accepts(part) == part # InvalidPartition

AddHSTSHeader(iso, host, header) ==
    LET part == GetPartitionHashForAddingHSTS(iso)
    IN  /\ Accepts(part)
        /\ Store(part, host, header)
        /\ UNCHANGED <<feature, disk>>

AddHSTS(host, subdomains) ==
    /\ Store(GetHostBoundPartitionHashForHSTS(host), host,
             [age |-> 1, subdomains |-> subdomains])
    /\ UNCHANGED <<feature, disk>>

\* GetDynamicSTSState: the expired entries before the first live one go.
FindDynamic(part, host) ==
    \E n \in 0 .. Len(Superdomains[host]) :
        LET expired == UNION {Found(part, Superdomains[host][i]) : i \in 1 .. n}
        IN  /\ expired # {}
            /\ sts' = sts \ expired
            /\ dirty' = TRUE
            /\ UNCHANGED <<feature, disk>>

\* GetSSLUpgradeDecision, ShouldSSLErrorsBeFatal and ShouldUpgradeToSSL of a
\* request; without an expired entry they change nothing.
Ask(top, host) == FindDynamic(GetPartitionHashForHSTS(top), host)

\* The same questions, and GetDynamicSTSState, without a request.
AskForHost(host) == FindDynamic(GetHostBoundPartitionHashForHSTS(host), host)

\* Mutant: only the unpartitioned map is searched.
MutOnePartition(host) == Found(NoPartition, host)

\* The entries that go: Chromium's, found without a partition, and those of
\* DeleteDataInAllPartitions.
Deleted(host) == Found(NoPartition, host) \cup
                 (IF feature THEN {e \in sts : e.host = host} ELSE {})

\* DirtyNotify, by either implementation.
Notifies(gone) == gone # {}

DeleteDynamicDataForHost(host) ==
    /\ sts' = sts \ Deleted(host)
    /\ dirty' = (dirty \/ Notifies(Deleted(host)))
    /\ UNCHANGED <<feature, disk>>

\* ClearDynamicData
ClearDynamicData ==
    /\ sts' = {}
    /\ dirty' = TRUE
    /\ UNCHANGED <<feature, disk>>

\* The persister writes what it was notified of, some time later.
Persist ==
    /\ dirty
    /\ disk' = sts
    /\ dirty' = FALSE
    /\ UNCHANGED <<feature, sts>>

\* A crash, or an exit, and a start that may switch the feature.
Restart ==
    /\ feature' \in BOOLEAN
    /\ sts' = disk
    /\ dirty' = FALSE
    /\ UNCHANGED disk

Next ==
    \/ \E iso \in IsolationInfo, host \in Host, header \in Header : AddHSTSHeader(iso, host, header)
    \/ \E host \in Host, subdomains \in BOOLEAN : AddHSTS(host, subdomains)
    \/ \E top \in TopFrame, host \in Host : Ask(top, host)
    \/ \E host \in Host : AskForHost(host) \/ DeleteDynamicDataForHost(host)
    \/ ClearDynamicData
    \/ Persist
    \/ Restart

Spec == Init /\ [][Next]_vars

-----------------------------------------------------------------------------
(* Properties.                                                             *)

\* Type invariant: nothing is stored in the invalid partition, and a
\* partition has one entry per host.
TypeOK ==
    /\ feature \in BOOLEAN /\ dirty \in BOOLEAN
    /\ sts \subseteq Entry /\ disk \subseteq Entry
    /\ \A e, f \in sts : e.part = f.part /\ e.host = f.host => e = f

\* The site a top frame belongs to, whatever its scheme.
SameTop(x, y) == NoTopFrame \notin {x, y} /\ NoHost \notin {x.host, y.host}
                 /\ Domain[x.host] = Domain[y.host]

\* A step that changes what is upgraded below a top frame has one of the
\* causes that may: a response or a question below a top frame of the same
\* site; a manual entry or question for a host of the site; a deletion, or a
\* restart.
IsolatedStep ==
    feature /\ feature' => \A top \in TopFrame :
        (\E host \in Host : IsUpgraded(GetPartitionHashForHSTS(top), host)'
                               # IsUpgraded(GetPartitionHashForHSTS(top), host)) =>
        \/ \E t \in TopFrame, h \in Host : SameTop(t, top) /\ Ask(t, h)
        \/ \E iso \in IsolationInfo, h \in Host, header \in Header :
              SameTop(iso.top, top) /\ AddHSTSHeader(iso, h, header)
        \/ \E h \in Host : /\ SameTop([scheme |-> "https", host |-> h], top)
                           /\ AskForHost(h) \/ \E b \in BOOLEAN : AddHSTS(h, b)
        \/ \E h \in Host : DeleteDynamicDataForHost(h)
        \/ ClearDynamicData
        \/ Restart

\* HSTS carries nothing from site to site: whether requests below a top frame
\* are upgraded changes only by what happens below a top frame of the same
\* site, or by the user's and the browser's own doing (every call sets the
\* partition hash of its own top frame).
OnlyOwnTopFrame == [][IsolatedStep]_vars

\* A header received by a page itself holds for the next navigation to the
\* page, over http, and for those that ask about the host without a request
\* (the partition has no scheme, and a host-bound one is that of the page).
PageIsUpgraded ==
    [][\A h \in Host, header \in Header :
          LET page(scheme) == [scheme |-> scheme, host |-> h]
          IN  /\ header.age > 0
              /\ AddHSTSHeader([top |-> page("https"), first_party |-> TRUE], h, header)
              => /\ IsUpgraded(GetPartitionHashForHSTS(page("http")), h)'
                 /\ IsUpgraded(GetHostBoundPartitionHashForHSTS(h), h)']_vars

\* A host that the user deletes is forgotten below every top frame, and by
\* the disk once the persister has nothing left to write.
DeletedEverywhere ==
    [][\A h \in Host : feature /\ DeleteDynamicDataForHost(h) =>
          /\ \A top \in TopFrame : ~\E e \in sts' :
                e.host = h /\ e.part = GetPartitionHashForHSTS(top)
          /\ ~dirty' => ~\E e \in disk' : e.host = h]_vars

\* Whatever changes the map reaches the disk: when the persister has no
\* notification left, both agree.
SavedWhenClean == ~dirty => disk = sts
=============================================================================
