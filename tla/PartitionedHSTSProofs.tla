----------------------- MODULE PartitionedHSTSProofs -----------------------
(***************************************************************************)
(* For any hosts, sites and top frames: nothing is ever stored in the      *)
(* invalid partition, and what a request below a top frame is told changes *)
(* only by what happened below a top frame of the same site.               *)
(***************************************************************************)
EXTENDS PartitionedHSTS, TLAPS

\* The part of TypeOK the isolation rests on.
Stored == sts \subseteq Entry /\ disk \subseteq Entry /\ feature \in BOOLEAN /\ dirty \in BOOLEAN

\* One entry per partition and host, in memory and on disk.
OneEntry ==
    /\ \A e, f \in sts : e.part = f.part /\ e.host = f.host => e = f
    /\ \A e, f \in disk : e.part = f.part /\ e.host = f.host => e = f

HInv == Stored /\ OneEntry

\* A partition is a host's domain, none or the invalid one.
LEMMA PartitionType ==
    /\ \A iso \in IsolationInfo : GetPartitionHashForAddingHSTS(iso) \in Partition
    /\ \A host \in Host : GetHostBoundPartitionHashForHSTS(host) \in Host \cup {NoPartition}
    /\ \A top \in TopFrame : GetPartitionHashForHSTS(top) \in Partition
<1>1. \A top \in TopFrame : GetHSTSPartitionHash(top) \in Host \cup {InvalidPartition}
  BY HostAssumption, FrameAssumption DEF GetHSTSPartitionHash, GetPartitionDomain, Unknown, Origin
<1>2. \A host \in Host : GetHSTSPartitionHash([scheme |-> "https", host |-> host]) \in Host
  <2> SUFFICES ASSUME NEW host \in Host
               PROVE  GetHSTSPartitionHash([scheme |-> "https", host |-> host]) \in Host
    OBVIOUS
  <2>1. [scheme |-> "https", host |-> host] # NoTopFrame
    BY FrameAssumption DEF Origin
  <2>2. Domain[host] \in Host /\ Domain[host] # NoHost /\ host # NoHost
    BY HostAssumption
  <2> QED BY <2>1, <2>2 DEF GetHSTSPartitionHash, GetPartitionDomain, Unknown
<1> QED
  BY <1>1, <1>2 DEF GetPartitionHashForAddingHSTS, GetPartitionHashForHSTS,
       GetHostBoundPartitionHashForHSTS, IsolationInfo, Partition

\* Storing a header in a partition keeps one entry per host of it.
LEMMA StoreInv ==
    ASSUME HInv, NEW part \in Host \cup {NoPartition}, NEW host \in Host,
           NEW header \in [age : {0, 1}, subdomains : BOOLEAN],
           Store(part, host, header), UNCHANGED <<feature, disk>>
    PROVE  HInv'
<1> DEFINE new == [part |-> part, host |-> host, subdomains |-> header.subdomains]
<1>1. new \in Entry BY DEF Entry
<1>2. sts' \subseteq (sts \ Found(part, host)) \cup {new} /\ dirty' = TRUE BY DEF Store
<1>3. Stored' BY <1>1, <1>2 DEF HInv, Stored
<1>4. \A e \in sts' : e = new \/ (e \in sts /\ ~(e.part = part /\ e.host = host))
  BY <1>2 DEF Found
<1>5. new.part = part /\ new.host = host OBVIOUS
<1> HIDE DEF new
<1>6. OneEntry' BY <1>4, <1>5 DEF HInv, OneEntry
<1> QED BY <1>3, <1>6 DEF HInv

\* Removing entries keeps the invariant.
LEMMA RemoveInv ==
    ASSUME HInv, sts' \subseteq sts, dirty' \in BOOLEAN, UNCHANGED <<feature, disk>>
    PROVE  HInv'
BY DEF HInv, Stored, OneEntry

\* Every step of the browser, the persister and a restart keeps the invariant.
LEMMA StepInv == HInv /\ [Next]_vars => HInv'
<1> SUFFICES ASSUME HInv, [Next]_vars PROVE HInv' OBVIOUS
<1> USE DEF HInv
<1>1. ASSUME NEW iso \in IsolationInfo, NEW host \in Host, NEW header \in Header,
             AddHSTSHeader(iso, host, header)
      PROVE  HInv'
  <2>1. GetPartitionHashForAddingHSTS(iso) \in Host \cup {NoPartition}
    BY <1>1, PartitionType DEF AddHSTSHeader, Accepts, Partition
  <2>2. header \in [age : {0, 1}, subdomains : BOOLEAN] BY FrameAssumption
  <2> QED BY <1>1, <2>1, <2>2, StoreInv DEF AddHSTSHeader
<1>2. ASSUME NEW host \in Host, NEW subdomains \in BOOLEAN, AddHSTS(host, subdomains)
      PROVE  HInv'
  <2>1. GetHostBoundPartitionHashForHSTS(host) \in Host \cup {NoPartition}
    BY PartitionType
  <2>2. [age |-> 1, subdomains |-> subdomains] \in [age : {0, 1}, subdomains : BOOLEAN]
    OBVIOUS
  <2> QED BY <1>2, <2>1, <2>2, StoreInv DEF AddHSTS
<1>3. ASSUME NEW part, NEW host \in Host, FindDynamic(part, host)
      PROVE  HInv'
  BY <1>3, RemoveInv DEF FindDynamic
<1>4. ASSUME NEW host \in Host, DeleteDynamicDataForHost(host)
      PROVE  HInv'
  BY <1>4, RemoveInv DEF DeleteDynamicDataForHost, Notifies, Stored
<1>5. CASE ClearDynamicData BY <1>5, RemoveInv DEF ClearDynamicData
<1>6. CASE Persist BY <1>6 DEF Persist, Stored, OneEntry
<1>7. CASE Restart BY <1>7 DEF Restart, Stored, OneEntry
<1>8. CASE UNCHANGED vars BY <1>8 DEF vars, Stored, OneEntry
<1> QED
  BY <1>1, <1>2, <1>3, <1>4, <1>5, <1>6, <1>7, <1>8 DEF Next, Ask, AskForHost

\* The type invariant: no entry is stored in the invalid partition, and a
\* host has one entry per partition.
THEOREM TypeCorrect == Spec => []TypeOK
<1>1. Init => HInv BY DEF Init, HInv, Stored, OneEntry
<1>2. HInv => TypeOK BY DEF HInv, Stored, OneEntry, TypeOK
<1> QED BY <1>1, <1>2, StepInv, PTL DEF Spec
-----------------------------------------------------------------------------
(* Isolation.                                                              *)

\* The entries of a partition.
InPart(part) == {e \in sts : e.part = part}

\* Only the entries of a partition decide what is upgraded in it.
LEMMA SameEntries ==
    ASSUME NEW part, NEW host, InPart(part)' = InPart(part)
    PROVE  IsUpgraded(part, host)' = IsUpgraded(part, host)
<1>1. \A h : Found(part, h)' = Found(part, h)
  BY DEF InPart, Found
<1>2. Hits(part, host)' = Hits(part, host)
  BY <1>1 DEF Hits
<1> QED BY <1>1, <1>2 DEF IsUpgraded

\* Two top frames with the same valid partition are of the same site.
LEMMA SamePartition ==
    ASSUME NEW x, NEW y, GetHSTSPartitionHash(x) = GetHSTSPartitionHash(y),
           GetHSTSPartitionHash(x) # InvalidPartition
    PROVE  SameTop(x, y)
  BY DEF GetHSTSPartitionHash, GetPartitionDomain, Unknown, SameTop

\* While the feature is on, a step leaves the partition of a top frame alone
\* unless it is about the site of the top frame.
LEMMA Isolation ==
    ASSUME HInv, Next, feature, feature', NEW top \in TopFrame,
           InPart(GetHSTSPartitionHash(top))' # InPart(GetHSTSPartitionHash(top))
    PROVE  \/ \E t \in TopFrame, h \in Host : SameTop(t, top) /\ Ask(t, h)
           \/ \E iso \in IsolationInfo, h \in Host, header \in Header :
                 /\ SameTop(iso.top, top)
                 /\ AddHSTSHeader(iso, h, header)
           \/ \E h \in Host : /\ SameTop([scheme |-> "https", host |-> h], top)
                              /\ AskForHost(h) \/ \E b \in BOOLEAN : AddHSTS(h, b)
           \/ \E h \in Host : DeleteDynamicDataForHost(h)
           \/ ClearDynamicData
           \/ Restart
<1> DEFINE Q == GetHSTSPartitionHash(top)
<1>1. Q # InvalidPartition
  <2>1. \A e \in sts : e.part \in Host \cup {NoPartition}
    BY DEF HInv, Stored, Entry
  <2>2. HInv' BY StepInv
  <2>3. \A e \in sts' : e.part \in Host \cup {NoPartition}
    BY <2>2 DEF HInv, Stored, Entry
  <2>4. InvalidPartition \notin Host \cup {NoPartition}
    BY HostAssumption
  <2> QED BY <2>1, <2>3, <2>4 DEF InPart
<1>2. ASSUME NEW part, NEW host, NEW header, Store(part, host, header)
      PROVE  part = Q
  BY <1>2 DEF Store, InPart, Found
<1>3. ASSUME NEW part, NEW host, FindDynamic(part, host)
      PROVE  part = Q
  BY <1>3 DEF FindDynamic, InPart, Found
<1> HIDE DEF Q
<1>4. ASSUME NEW iso \in IsolationInfo, NEW host \in Host, NEW header \in Header,
             AddHSTSHeader(iso, host, header)
      PROVE  SameTop(iso.top, top)
  <2>1. GetPartitionHashForAddingHSTS(iso) = Q
    BY <1>2, <1>4 DEF AddHSTSHeader
  <2>2. GetHSTSPartitionHash(iso.top) = Q
    BY <1>1, <2>1 DEF GetPartitionHashForAddingHSTS, IsTopFrameOriginCryptographic
  <2> QED BY <1>1, <2>2, SamePartition DEF Q
<1>5. ASSUME NEW t \in TopFrame, NEW host \in Host, Ask(t, host)
      PROVE  SameTop(t, top)
  BY <1>1, <1>3, <1>5, SamePartition DEF Ask, GetPartitionHashForHSTS, Q
<1>6. ASSUME NEW host \in Host, GetHostBoundPartitionHashForHSTS(host) = Q
      PROVE  SameTop([scheme |-> "https", host |-> host], top)
  BY <1>1, <1>6, SamePartition DEF GetHostBoundPartitionHashForHSTS, Q
<1>7. ASSUME NEW host \in Host,
             AskForHost(host) \/ \E b \in BOOLEAN : AddHSTS(host, b)
      PROVE  SameTop([scheme |-> "https", host |-> host], top)
  BY <1>2, <1>3, <1>6, <1>7 DEF AskForHost, AddHSTS
<1>8. ~Persist
  BY DEF Persist, InPart
<1> QED BY <1>4, <1>5, <1>7, <1>8 DEF Next

\* HSTS carries nothing from site to site: a request below a top frame is
\* told something new only after a response to, or a question of, a frame
\* below a top frame of the same site, or after the user's own doing.
THEOREM TopFramesIsolated == Spec => OnlyOwnTopFrame
<1>1. Init => HInv BY DEF Init, HInv, Stored, OneEntry
<1>2. ASSUME HInv, Next, feature, feature', NEW top \in TopFrame, NEW host \in Host,
             IsUpgraded(GetPartitionHashForHSTS(top), host)'
                 # IsUpgraded(GetPartitionHashForHSTS(top), host)
      PROVE  InPart(GetHSTSPartitionHash(top))' # InPart(GetHSTSPartitionHash(top))
  <2> DEFINE Q == GetHSTSPartitionHash(top)
  <2>1. GetPartitionHashForHSTS(top) = Q /\ GetPartitionHashForHSTS(top)' = Q
    BY <1>2 DEF GetPartitionHashForHSTS
  <2>2. IsUpgraded(GetPartitionHashForHSTS(top), host) = IsUpgraded(Q, host)
    BY <2>1
  <2>3. IsUpgraded(GetPartitionHashForHSTS(top), host)' = IsUpgraded(Q, host)'
    BY <2>1 DEF IsUpgraded, Hits, Found
  <2> HIDE DEF Q
  <2>4. IsUpgraded(Q, host)' # IsUpgraded(Q, host)
    BY <1>2, <2>2, <2>3
  <2>5. InPart(Q)' # InPart(Q)
    BY <2>4, SameEntries
  <2> QED BY <2>5 DEF Q
<1>3. HInv /\ [Next]_vars => [IsolatedStep]_vars
  <2> SUFFICES ASSUME HInv, Next, feature, feature', NEW top \in TopFrame, NEW host \in Host,
                      IsUpgraded(GetPartitionHashForHSTS(top), host)'
                          # IsUpgraded(GetPartitionHashForHSTS(top), host)
               PROVE  InPart(GetHSTSPartitionHash(top))' # InPart(GetHSTSPartitionHash(top))
    BY Isolation DEF IsolatedStep
  <2> QED BY <1>2
<1> QED BY <1>1, <1>3, StepInv, PTL DEF Spec, OnlyOwnTopFrame

-----------------------------------------------------------------------------
(* Persistence.                                                            *)

\* When the persister has nothing left to write, the disk holds what the
\* memory holds: no operation changes the map without notifying it.
THEOREM NothingUnsaved == Spec => []SavedWhenClean
<1>1. Init => SavedWhenClean BY DEF Init, SavedWhenClean
<1>2. SavedWhenClean /\ [Next]_vars => SavedWhenClean'
  <2> SUFFICES ASSUME SavedWhenClean, [Next]_vars PROVE SavedWhenClean' OBVIOUS
  <2>1. ASSUME NEW part, NEW host, NEW header, Store(part, host, header)
        PROVE  SavedWhenClean'
    BY <2>1 DEF Store, SavedWhenClean
  <2>2. ASSUME NEW part, NEW host, FindDynamic(part, host)
        PROVE  SavedWhenClean'
    BY <2>2 DEF FindDynamic, SavedWhenClean
  <2>3. ASSUME NEW host, DeleteDynamicDataForHost(host)
        PROVE  SavedWhenClean'
    BY <2>3 DEF DeleteDynamicDataForHost, Notifies, SavedWhenClean
  <2>4. CASE ClearDynamicData \/ Persist \/ Restart \/ UNCHANGED vars
    BY <2>4 DEF ClearDynamicData, Persist, Restart, vars, SavedWhenClean
  <2> QED
    BY <2>1, <2>2, <2>3, <2>4 DEF Next, AddHSTSHeader, AddHSTS, Ask, AskForHost
<1> QED BY <1>1, <1>2, PTL DEF Spec

-----------------------------------------------------------------------------
(* What one step achieves.                                                 *)

\* An entry of the host itself decides, whatever its superdomains say: after
\* a step that leaves one, the host is upgraded.
LEMMA OwnEntryDecides ==
    ASSUME NEW part, NEW host \in Host, Found(part, host)' # {}
    PROVE  IsUpgraded(part, host)'
<1> DEFINE hits == Hits(part, host)'
<1>1. 1 \in DOMAIN Superdomains[host] /\ Superdomains[host][1] = host
      /\ DOMAIN Superdomains[host] \subseteq Nat \ {0}
  BY HostAssumption
<1>2. 1 \in hits /\ \A y \in hits : y \in Nat /\ 1 <= y
  BY <1>1 DEF Hits
<1> HIDE DEF hits
<1>3. Min(hits) = 1
  BY <1>2 DEF Min
<1> QED
  BY <1>2, <1>3 DEF IsUpgraded, hits

\* A page and its host ask about the same partition, with or without TLS.
LEMMA PagePartition ==
    ASSUME NEW h \in Host, NEW scheme \in {"https", "http"}
    PROVE  /\ GetHSTSPartitionHash([scheme |-> scheme, host |-> h]) = Domain[h]
           /\ Domain[h] # InvalidPartition
<1>1. [scheme |-> scheme, host |-> h] # NoTopFrame
  BY FrameAssumption DEF Origin
<1>2. h # NoHost /\ Domain[h] # NoHost /\ Domain[h] # InvalidPartition
  BY HostAssumption
<1> QED
  BY <1>1, <1>2 DEF GetHSTSPartitionHash, GetPartitionDomain, Unknown

\* The step of PageIsUpgraded, and of DeletedEverywhere.
UpgradeStep ==
    \A h \in Host, header \in Header :
        LET page(scheme) == [scheme |-> scheme, host |-> h]
        IN  /\ header.age > 0
            /\ AddHSTSHeader([top |-> page("https"), first_party |-> TRUE], h, header)
            => /\ IsUpgraded(GetPartitionHashForHSTS(page("http")), h)'
               /\ IsUpgraded(GetHostBoundPartitionHashForHSTS(h), h)'

DeletionStep ==
    \A h \in Host : feature /\ DeleteDynamicDataForHost(h) =>
        /\ \A top \in TopFrame : ~\E e \in sts' :
              e.host = h /\ e.part = GetPartitionHashForHSTS(top)
        /\ ~dirty' => ~\E e \in disk' : e.host = h

\* What a page is told about itself holds for its next visit over http and
\* for the questions about its host without a request, with the feature and
\* without it.
THEOREM PageTeachesItself == Spec => PageIsUpgraded
<1>1. ASSUME NEW h \in Host, NEW header \in Header, header.age > 0,
             AddHSTSHeader([top |-> [scheme |-> "https", host |-> h],
                            first_party |-> TRUE], h, header)
      PROVE  /\ IsUpgraded(GetPartitionHashForHSTS([scheme |-> "http", host |-> h]), h)'
             /\ IsUpgraded(GetHostBoundPartitionHashForHSTS(h), h)'
  <2> DEFINE iso == [top |-> [scheme |-> "https", host |-> h], first_party |-> TRUE]
  <2>1. PICK p : p = IF feature THEN Domain[h] ELSE NoPartition
    OBVIOUS
  <2>2. GetPartitionHashForAddingHSTS(iso) = p
    BY <2>1, PagePartition DEF GetPartitionHashForAddingHSTS
  <2>3. Store(GetPartitionHashForAddingHSTS(iso), h, header)
        /\ feature' = feature
    BY <1>1 DEF AddHSTSHeader
  <2>4. header.age # 0
    BY <1>1, FrameAssumption
  <2> HIDE DEF iso
  <2> DEFINE new == [part |-> p, host |-> h, subdomains |-> header.subdomains]
  <2>5. Store(p, h, header)
    BY <2>2, <2>3
  <2>6. new \in sts' /\ new.part = p /\ new.host = h
    BY <2>4, <2>5 DEF Store
  <2> HIDE DEF new
  <2>7. Found(p, h)' # {}
    BY <2>6 DEF Found
  <2>8. IsUpgraded(p, h)'
    BY <2>7, OwnEntryDecides
  <2>9. GetPartitionHashForHSTS([scheme |-> "http", host |-> h])' = p
        /\ GetHostBoundPartitionHashForHSTS(h)' = p
    BY <2>1, <2>3, PagePartition DEF GetPartitionHashForHSTS, GetHostBoundPartitionHashForHSTS
  <2>10. PICK page : page = [scheme |-> "http", host |-> h]
    OBVIOUS
  <2>11. IsUpgraded(GetPartitionHashForHSTS(page), h)' = IsUpgraded(p, h)'
    BY <2>9, <2>10 DEF IsUpgraded, Hits, Found
  <2>12. IsUpgraded(GetHostBoundPartitionHashForHSTS(h), h)' = IsUpgraded(p, h)'
    BY <2>9 DEF IsUpgraded, Hits, Found
  <2> QED
    BY <2>8, <2>10, <2>11, <2>12
<1>2. UpgradeStep
  BY <1>1 DEF UpgradeStep
<1>3. Spec => [][UpgradeStep]_vars
  BY <1>2, PTL DEF Spec
<1> QED
  BY <1>3 DEF UpgradeStep, PageIsUpgraded

\* A host the user deletes is forgotten below every top frame, and is not on
\* the disk either unless the persister has yet to write: the notification of
\* the deletion is what the second part rests on.
THEOREM DeletionReachesDisk == Spec => DeletedEverywhere
<1>1. SavedWhenClean => DeletionStep
  <2> SUFFICES ASSUME SavedWhenClean, NEW h \in Host, feature,
                      DeleteDynamicDataForHost(h)
               PROVE  /\ ~\E e \in sts' : e.host = h
                      /\ ~dirty' => ~\E e \in disk' : e.host = h
    BY DEF DeletionStep
  <2>1. sts' = sts \ Deleted(h) /\ dirty' = (dirty \/ Notifies(Deleted(h))) /\ disk' = disk
    BY DEF DeleteDynamicDataForHost
  <2>2. \A e \in sts : e.host = h => e \in Deleted(h)
    BY DEF Deleted
  <2>3. ~dirty' => ~\E e \in disk' : e.host = h
    BY <2>1, <2>2 DEF SavedWhenClean, Notifies
  <2> QED
    BY <2>1, <2>2, <2>3
<1>2. Spec => [][DeletionStep]_vars
  BY <1>1, NothingUnsaved, PTL DEF Spec
<1> QED
  BY <1>2 DEF DeletionStep, DeletedEverywhere
=============================================================================
