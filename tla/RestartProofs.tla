---------------------------- MODULE RestartProofs ----------------------------
(***************************************************************************)
(* Three components whose state outlives the process, so that what holds   *)
(* of it must hold whenever the process ends: the installer, whose suffix  *)
(* and archive the next run finds (DeltaUpdate), the start of the browser, *)
(* whose time-out the next start finds (RenameAtStartup), and the device   *)
(* list, which its store keeps (DeviceInfoBridge).  They share no state.   *)
(***************************************************************************)
EXTENDS DeltaUpdate, RenameAtStartup, DeviceInfoBridge, TLAPS

-----------------------------------------------------------------------------
(* The installer: NextPackageFits for every number of releases and of runs *)
(* by hand.                                                                *)

\* A package is of a release; a differential one leads to a later version, is
\* given to setup.exe as a compressed archive and never counts as a full one.
PackageInv ==
    /\ package.to <= newest
    /\ package.packed = "patch" =>
          /\ package.from < package.to
          /\ package.args = {"install-archive"}
          /\ type # "full"

\* A run that will report success has kept the archive of what it installed.
ArchiveInv == phase = "decided" /\ result = "ok" => archive = installed

Running == {"flagged", "setup", "unpacked", "decided"}

\* While a differential package is installed over the version it is for, the
\* suffix is there: whoever stops the run now leaves it behind.
FlagInv ==
    /\ phase \in Running /\ ~lost
    /\ package.packed = "patch" /\ package.from = installed
    => full

DInv == TypeOK /\ PackageInv /\ ArchiveInv /\ FlagInv /\ NextPackageFits

-----------------------------------------------------------------------------
\* What the server sends is a package.
LEMMA SentIsPackage ==
    ASSUME NEW from \in 0 .. LastVersion, NEW to \in Version,
           NEW setup \in {"exe", "patch", "none"}
    PROVE  Full(to) \in Package /\ Delta(from, to, setup) \in Package
<1>1. 0 \in 0 .. LastVersion
  BY VersionAssumption
<1>2. Full(to) \in Package
  BY <1>1 DEF Full, Package
<1>3. Delta(from, to, setup) \in Package
  BY DEF Delta, Package
<1> QED
  BY <1>2, <1>3

\* The invariant holds before the first update.
LEMMA InitDInv == Init => DInv
<1> SUFFICES ASSUME Init PROVE DInv
  OBVIOUS
<1>1. LastVersion \in Nat /\ LastVersion >= 1 /\ 1 \in Version
  BY VersionAssumption DEF Version
<1>2. package \in Package
  BY <1>1, SentIsPackage DEF Init
<1>3. archive \in 0 .. LastVersion /\ byHand \in 0 .. MaxByHand /\ installed \in 1 .. newest
  BY <1>1, VersionAssumption DEF Init
<1>4. TypeOK
  BY <1>1, <1>2, <1>3 DEF Init, TypeOK
<1> QED
  BY <1>4 DEF Init, DInv, PackageInv, ArchiveInv, FlagInv, NextPackageFits, Full, Running

\* What begins a run of a proper package keeps the invariant.
LEMMA BeginDInv ==
    ASSUME DInv, NEW p \in Package, NEW where \in {"offered", "setup"},
           Begin(p, where), byHand' \in 0 .. MaxByHand, p.to <= newest,
           p.packed = "patch" =>
              where = "offered" /\ p.from < p.to /\ p.args = {"install-archive"}
    PROVE  DInv'
<1>1. TypeOK'
  BY DEF DInv, TypeOK, Begin
<1>2. PackageInv' /\ ArchiveInv' /\ NextPackageFits'
  BY DEF DInv, PackageInv, ArchiveInv, NextPackageFits, Begin
<1>3. FlagInv'
  BY DEF FlagInv, Begin, Running
<1> QED
  BY <1>1, <1>2, <1>3 DEF DInv

\* A release makes no package and no archive.
LEMMA ReleaseDInv == DInv /\ Release => DInv'
<1> SUFFICES ASSUME DInv, Release PROVE DInv'
  OBVIOUS
<1> USE DEF Release, run, history
<1>0. newest \in Nat /\ LastVersion \in Nat
  BY VersionAssumption DEF DInv, TypeOK, Version
<1>1. TypeOK'
  BY <1>0 DEF DInv, TypeOK, Version
<1>2. PackageInv'
  BY <1>0, package.to \in Version, VersionAssumption
     DEF DInv, TypeOK, Package, PackageInv, Version
<1>3. ArchiveInv' /\ FlagInv' /\ NextPackageFits'
  BY DEF DInv, ArchiveInv, FlagInv, NextPackageFits
<1> QED
  BY <1>1, <1>2, <1>3 DEF DInv

\* The updater sends what the suffix and the installed version ask for.
LEMMA OfferDInv == DInv /\ Offer => DInv'
<1> SUFFICES ASSUME DInv, Offer PROVE DInv'
  OBVIOUS
<1>1. newest \in Version /\ installed \in 0 .. LastVersion /\ installed < newest
      /\ newest <= newest /\ byHand' \in 0 .. MaxByHand
  BY VersionAssumption DEF DInv, TypeOK, Offer, Version
<1>2. CASE Begin(Full(newest), "offered")
  <2>1. Full(newest) \in Package /\ Full(newest).packed # "patch" /\ Full(newest).to = newest
    BY <1>1, SentIsPackage DEF Full
  <2> QED
    BY <1>1, <1>2, <2>1, BeginDInv
<1>3. ASSUME NEW setup \in {"exe", "patch", "none"},
             Begin(Delta(installed, newest, setup), "offered")
      PROVE  DInv'
  <2> DEFINE p == Delta(installed, newest, setup)
  <2>1. p \in Package
    BY <1>1, SentIsPackage
  <2>2. p.to = newest /\ p.from = installed /\ p.args = {"install-archive"}
    BY DEF Delta
  <2> HIDE DEF p
  <2>3. Begin(p, "offered")
    BY <1>3 DEF p
  <2> QED
    BY <1>1, <2>1, <2>2, <2>3, BeginDInv
<1> QED
  BY <1>2, <1>3 DEF Offer

\* A run by hand is never of a differential package.
LEMMA RunByHandDInv == DInv /\ RunByHand => DInv'
<1> SUFFICES ASSUME DInv, RunByHand PROVE DInv'
  OBVIOUS
<1>1. PICK p \in Package : /\ p.packed # "patch" /\ p.to \in installed .. newest
                           /\ Begin(p, "setup")
  BY DEF RunByHand
<1>2. byHand' \in 0 .. MaxByHand /\ p.to <= newest
  BY <1>1, VersionAssumption DEF RunByHand, DInv, TypeOK, Version
<1> QED
  BY <1>1, <1>2, BeginDInv

\* Another installer that overtakes leaves the later version.
LEMMA OvertakenByDInv == DInv /\ OvertakenBy => DInv'
<1> SUFFICES ASSUME DInv, OvertakenBy PROVE DInv'
  OBVIOUS
<1> USE DEF OvertakenBy, run, history
<1>1. /\ newest \in Nat /\ newest >= 1 /\ newest <= LastVersion /\ LastVersion \in Nat
      /\ package.from \in Int /\ package.to \in Int
  BY VersionAssumption DEF DInv, TypeOK, Version, Package
<1>2. TypeOK'
  <2>1. installed' \in 1 .. newest' /\ archive' \in 0 .. LastVersion
    BY <1>1
  <2> QED
    BY <2>1 DEF DInv, TypeOK
<1>3. PackageInv' /\ ArchiveInv'
  BY DEF DInv, PackageInv, ArchiveInv
<1>4. package.packed = "patch" => package.from # newest
  BY <1>1 DEF DInv, PackageInv
<1>5. FlagInv' /\ NextPackageFits'
  BY <1>4 DEF FlagInv, NextPackageFits
<1> QED
  BY <1>2, <1>3, <1>5 DEF DInv

\* The mini installer sets the suffix before it starts setup.exe.
LEMMA MiniInstallerDInv == DInv /\ MiniInstaller => DInv'
<1> SUFFICES ASSUME DInv, MiniInstaller PROVE DInv'
  OBVIOUS
<1> USE DEF DInv, run, history
<1>1. CASE SetInstallerFlags
  <2> USE <1>1 DEF SetInstallerFlags
  <2>1. TypeOK'
    BY DEF TypeOK, Suffixed
  <2>2. PackageInv' /\ ArchiveInv' /\ NextPackageFits'
    BY DEF PackageInv, ArchiveInv, NextPackageFits
  <2>3. full' \/ lost'
    BY DEF Suffixed
  <2>4. FlagInv'
    BY <2>3 DEF FlagInv
  <2> QED
    BY <2>1, <2>2, <2>4
<1>2. CASE RunSetup
  <2> USE <1>2 DEF RunSetup
  <2>1. TypeOK'
    BY DEF TypeOK
  <2>2. PackageInv' /\ ArchiveInv' /\ FlagInv' /\ NextPackageFits'
    BY DEF PackageInv, ArchiveInv, FlagInv, NextPackageFits, Running
  <2> QED
    BY <2>1, <2>2
<1>3. CASE MiniInstallerFails
  <2> USE <1>3 DEF MiniInstallerFails, End
  <2>1. TypeOK'
    BY DEF TypeOK
  <2>2. PackageInv' /\ ArchiveInv' /\ FlagInv'
    BY DEF PackageInv, ArchiveInv, FlagInv, Running
  <2>3. NextPackageFits'
    BY DEF FlagInv, NextPackageFits, Running
  <2> QED
    BY <2>1, <2>2, <2>3
<1> QED
  BY <1>1, <1>2, <1>3 DEF MiniInstaller

\* However the unpacking ends: a differential package does not get type full.
LEMMA UnpackedDInv ==
    ASSUME DInv, NEW archive_type \in {"unknown", "full", "incremental"},
           NEW code \in {"ok", "failed"}, Unpacked(archive_type, code),
           package.packed = "patch" => archive_type # "full"
    PROVE  DInv'
<1> USE DEF DInv, Unpacked, history
<1>1. TypeOK'
  BY DEF TypeOK
<1>2. PackageInv'
  BY DEF PackageInv
<1>3. ArchiveInv' /\ FlagInv' /\ NextPackageFits'
  BY DEF ArchiveInv, FlagInv, NextPackageFits, Running
<1> QED
  BY <1>1, <1>2, <1>3

\* The work items keep the archive of what they install.
LEMMA InstallDInv == DInv /\ Install => DInv'
<1> SUFFICES ASSUME DInv, Install PROVE DInv'
  OBVIOUS
<1> USE DEF DInv, Install, history
<1>1. /\ package.to \in Version /\ package.from \in Int /\ package.to \in Int
      /\ package.to <= newest /\ LastVersion \in Nat /\ newest \in Int
  BY VersionAssumption DEF TypeOK, Package, Version, PackageInv
<1>2. archive' \in {package.to, archive, 0}
  BY DEF KeepArchive, LeftOfArchive
<1>3. archive' \in 0 .. LastVersion
  BY <1>1, <1>2 DEF TypeOK, Version
<1>4. installed' \in 1 .. newest /\ result' \in {"ok", "failed"}
  BY <1>1 DEF TypeOK, Version
<1>5. TypeOK'
  BY <1>3, <1>4 DEF TypeOK
<1>6. PackageInv'
  BY DEF PackageInv
<1>7. ArchiveInv' /\ NextPackageFits'
  BY DEF ArchiveInv, NextPackageFits, KeepArchive
<1>8. package.packed = "patch" /\ package.from = installed' => package.from = installed
  BY <1>1 DEF PackageInv
<1>9. FlagInv'
  BY <1>8 DEF FlagInv, Running
<1> QED
  BY <1>5, <1>6, <1>7, <1>9

\* Success clears the suffix; a failure of a differential package keeps or sets
\* it, whether or not its type is known.
LEMMA UpdateInstallStatusDInv == DInv /\ UpdateInstallStatus => DInv'
<1> SUFFICES ASSUME DInv, UpdateInstallStatus PROVE DInv'
  OBVIOUS
<1> USE DEF DInv, UpdateInstallStatus, End, run
<1>1. UpdateGoogleUpdateApKey \in BOOLEAN /\ full' \in BOOLEAN /\ lost' \in BOOLEAN
  BY DEF TypeOK, UpdateGoogleUpdateApKey
<1>2. TypeOK'
  BY <1>1 DEF TypeOK
<1>3. PackageInv' /\ ArchiveInv' /\ FlagInv'
  BY DEF PackageInv, ArchiveInv, FlagInv, Running
<1>4. ~lost' => (full' <=> UpdateGoogleUpdateApKey) /\ ~lost
  BY <1>1 DEF TypeOK
<1>5. result = "ok" => ~UpdateGoogleUpdateApKey /\ archive = installed
  BY DEF UpdateGoogleUpdateApKey, ArchiveInv
<1>6. /\ result # "ok" /\ package.packed = "patch" /\ package.from = installed /\ ~lost
      => UpdateGoogleUpdateApKey
  BY DEF UpdateGoogleUpdateApKey, PackageInv, FlagInv, Running
<1>7. NextPackageFits'
  BY <1>4, <1>5, <1>6 DEF NextPackageFits
<1> QED
  BY <1>2, <1>3, <1>7

\* Each step of setup.exe keeps the invariant.
LEMMA SetupDInv == DInv /\ Setup => DInv'
<1> SUFFICES ASSUME DInv, Setup PROVE DInv'
  OBVIOUS
<1>1. CASE UncompressAndPatchChromeArchive
  BY <1>1, UnpackedDInv DEF UncompressAndPatchChromeArchive
<1>2. CASE UnpackUncompressed
  <2>1. package.packed # "patch"
    BY <1>2 DEF UnpackUncompressed, Compressed, DInv, PackageInv
  <2> QED
    BY <1>2, <2>1, UnpackedDInv DEF UnpackUncompressed
<1>3. CASE RefuseArguments
  BY <1>3, UnpackedDInv DEF RefuseArguments
<1> QED
  BY <1>1, <1>2, <1>3, InstallDInv, UpdateInstallStatusDInv DEF Setup

\* A kill may cost the archive that is being replaced; the suffix stays.
LEMMA KillDInv == DInv /\ Kill => DInv'
<1> SUFFICES ASSUME DInv, Kill PROVE DInv'
  OBVIOUS
<1> USE DEF DInv, Kill, End, run
<1>1. phase \in Running
  BY DEF TypeOK, Running
<1>2. archive' \in 0 .. LastVersion
  BY VersionAssumption DEF TypeOK, LeftOfArchive
<1>3. TypeOK'
  BY <1>2 DEF TypeOK
<1>4. PackageInv' /\ ArchiveInv' /\ FlagInv'
  BY DEF PackageInv, ArchiveInv, FlagInv, Running
<1>5. NextPackageFits'
  BY <1>1 DEF NextPackageFits, FlagInv
<1> QED
  BY <1>3, <1>4, <1>5

\* Every step of an update keeps the invariant.
LEMMA NextDInv == DInv /\ [Next]_vars => DInv'
<1> SUFFICES ASSUME DInv, [Next]_vars PROVE DInv'
  OBVIOUS
<1>1. CASE Next
  BY <1>1, ReleaseDInv, OfferDInv, RunByHandDInv, OvertakenByDInv, MiniInstallerDInv,
     SetupDInv, KillDInv DEF Next
<1>2. CASE UNCHANGED vars
  BY <1>2 DEF vars, run, history, DInv, TypeOK, PackageInv, ArchiveInv, FlagInv,
     NextPackageFits
<1> QED
  BY <1>1, <1>2

-----------------------------------------------------------------------------
\* Every variable keeps its type; in particular nothing newer than the newest
\* release is ever installed.
THEOREM TypeCorrect == Spec => []TypeOK
<1>1. DInv => TypeOK
  BY DEF DInv
<1> QED
  BY <1>1, InitDInv, NextDInv, PTL DEF Spec

\* For any number of releases and runs by hand, the next package fits what the
\* last run left (SetInstallerFlags, UpdateGoogleUpdateApKey, the kept archive).
THEOREM PackageFits == Spec => []NextPackageFits
<1>1. DInv => NextPackageFits
  BY DEF DInv
<1> QED
  BY <1>1, InitDInv, NextDInv, PTL DEF Spec

-----------------------------------------------------------------------------
(* The start of the browser: however long the COM object takes, few waits  *)
(* for it are in vain.                                                     *)

\* The increments the time-out in the registry has grown by.
Grown == IF saved = 0 THEN 0 ELSE saved - 1

\* The wait that has just timed out and is not in the registry yet.
Unsaved == IF pc = "saving" THEN 1 ELSE 0

\* Each wait in vain has grown the time-out that is kept, but for the one
\* being saved and those whose saving was cut off by a kill; and a time-out
\* that is about to grow was not above the delay.
TimeoutInv ==
    /\ timeouts <= Grown + Unsaved + kills
    /\ pc \in {"waiting", "saving"} => timeout = (IF saved = 0 THEN 1 ELSE saved)
    /\ pc = "saving" => timeout <= MaxDelay

RInv == StartupTypeOK /\ TimeoutInv

\* The invariant holds before the first start.
LEMMA InitRInv ==
    ASSUME InitStartup
    PROVE  RInv
<1> USE DelayAssumption
<1>1. orphan \in BOOLEAN /\ renamed \in BOOLEAN
  BY Zenon DEF InitStartup
<1>2. StartupTypeOK
  BY <1>1 DEF InitStartup, StartupTypeOK
<1>3. TimeoutInv
  BY DEF InitStartup, TimeoutInv, Grown, Unsaved
<1> QED
  BY <1>2, <1>3 DEF RInv

\* The type invariant and the bookkeeping of the time-outs are inductive.
LEMMA NextRInv ==
    ASSUME RInv, [NextStartup]_startupVars
    PROVE  RInv'
<1> USE DelayAssumption
<1>1. CASE UNCHANGED startupVars
  BY <1>1 DEF startupVars, RInv, StartupTypeOK, TimeoutInv, Grown, Unsaved
<1>2. CASE Start
  BY <1>2 DEF Start, RInv, StartupTypeOK, TimeoutInv, Grown, Unsaved
<1>3. CASE PostTask
  BY <1>3 DEF PostTask, RInv, StartupTypeOK, TimeoutInv, Grown, Unsaved
<1>4. CASE CreateWithoutTimeout
  BY <1>4 DEF CreateWithoutTimeout, Return, RInv, StartupTypeOK,
     TimeoutInv, Grown, Unsaved
<1>5. CASE Created \/ NotCreated
  BY <1>5 DEF Created, NotCreated, InTime, Return,
     RInv, StartupTypeOK, TimeoutInv, Grown, Unsaved
<1>6. CASE TimedOut
  BY <1>6 DEF TimedOut, RInv, StartupTypeOK, TimeoutInv, Grown, Unsaved
<1>7. CASE SaveTimeout
  BY <1>7 DEF SaveTimeout, NextTimeout, Return, RInv,
     StartupTypeOK, TimeoutInv, Grown, Unsaved
<1>8. CASE LaunchCmdElevated \/ NotLaunched
  BY <1>8 DEF LaunchCmdElevated, NotLaunched, Return, RInv,
     StartupTypeOK, TimeoutInv, Grown, Unsaved
<1>9. CASE WaitForExit
  BY <1>9 DEF WaitForExit, Result, Return, RInv,
     StartupTypeOK, TimeoutInv, Grown, Unsaved
<1>10. CASE Rename \/ RenameFails \/ OrphanEnds
  BY <1>10 DEF Rename, RenameFails, OrphanEnds, RInv,
     StartupTypeOK, TimeoutInv, Grown, Unsaved
<1>11. CASE Exit
  BY <1>11 DEF Exit, Stop, RInv, StartupTypeOK, TimeoutInv, Grown,
     Unsaved
<1>12. CASE KillBrowser
  BY <1>12 DEF KillBrowser, Stop, RInv, StartupTypeOK, TimeoutInv, Grown,
     Unsaved
<1> QED
  BY <1>1, <1>2, <1>3, <1>4, <1>5, <1>6, <1>7, <1>8, <1>9, <1>10, <1>11, <1>12
  DEF NextStartup, MainThread

\* The bookkeeping bounds the waits in vain.
LEMMA FewTimeoutsOfRInv ==
    ASSUME RInv
    PROVE  FewTimeouts
  BY DelayAssumption DEF RInv, StartupTypeOK, TimeoutInv, Grown, Unsaved,
         FewTimeouts

\* The time-out in the registry stays within one increment above the longest
\* delay of the COM object (CreateProcessLauncher).
THEOREM TimeoutTypeCorrect == StartupSpec => []StartupTypeOK
<1>1. InitStartup => RInv
  BY InitRInv
<1>2. RInv /\ [NextStartup]_startupVars => RInv'
  BY NextRInv
<1>3. RInv => StartupTypeOK
  BY DEF RInv
<1> QED
  BY <1>1, <1>2, <1>3, PTL DEF StartupSpec

\* For every longest delay, every number of starts and every kill: no more
\* waits in vain than the delay has increments, and one for each kill
\* (CreateProcessLauncher).
THEOREM WaitsEnd == StartupSpec => []FewTimeouts
<1>1. InitStartup => RInv
  BY InitRInv
<1>2. RInv /\ [NextStartup]_startupVars => RInv'
  BY NextRInv
<1>3. RInv => FewTimeouts
  BY FewTimeoutsOfRInv
<1> QED
  BY <1>1, <1>2, <1>3, PTL DEF StartupSpec

-----------------------------------------------------------------------------
(* The device list: a client that was deleted stays out, for any devices,  *)
(* number of attempts, deletions and restarts.                             *)

\* What is deleted here is not listed, and what this client uploads is.
PendingInv ==
    /\ unsynced \cap all_data = {}
    /\ uploading => Local \in all_data

\* A client that knows it was deleted has nothing left to send or to receive
\* that would put it back.
GoneInv == gone => Local \notin all_data \cup unsynced \cup server

GInv == PendingInv /\ GoneInv

\* Nothing is pending in the chain the client starts with.
LEMMA InitGInv == InitDevices => GInv
  BY DEF InitDevices, GInv, PendingInv, GoneInv

\* This client's own operations: a refresh needs the client in its list, and a
\* deletion stops the upload.
LEMMA ClientGInv ==
    ASSUME GInv,
           \/ \E client \in Device : DeleteDeviceInfo(client)
           \/ RefreshLocalDeviceInfoIfNeeded
    PROVE  GInv'
<1> USE DEF GInv, PendingInv, GoneInv, sync
<1>1. ASSUME NEW client \in Device, DeleteDeviceInfo(client)
      PROVE  GInv'
  BY <1>1 DEF DeleteDeviceInfo
<1>2. CASE RefreshLocalDeviceInfoIfNeeded
  BY <1>2 DEF RefreshLocalDeviceInfoIfNeeded, MayRefresh
<1> QED
  BY <1>1, <1>2

\* The commits: only what is pending is sent, and a client that is gone has
\* nothing pending.
LEMMA CommitGInv ==
    ASSUME GInv,
           \/ \E client \in Device :
                 CommitDeletion(client) \/ CommitDeletionUnacknowledged(client)
           \/ CommitUpload
           \/ CommitUploadUnacknowledged
    PROVE  GInv'
<1> USE DEF GInv, PendingInv, GoneInv, pending
<1>1. ASSUME NEW client \in Device, CommitDeletion(client)
      PROVE  GInv'
  BY <1>1 DEF CommitDeletion
<1>2. ASSUME NEW client \in Device, CommitDeletionUnacknowledged(client)
      PROVE  GInv'
  BY <1>2 DEF CommitDeletionUnacknowledged
<1>3. CASE CommitUpload
  BY <1>3 DEF CommitUpload
<1>4. CASE CommitUploadUnacknowledged
  BY <1>4 DEF CommitUploadUnacknowledged
<1> QED
  BY <1>1, <1>2, <1>3, <1>4

\* What the server and the other clients do: its own record comes back to no
\* client that is gone, and the tombstone of this client is applied only when
\* it uploads nothing.
LEMMA ServerGInv ==
    ASSUME GInv, NEW client \in Device,
           \/ RemoteUpload(client) \/ RemoteDelete(client)
           \/ ApplyUpdate(client) \/ ApplyTombstone(client)
    PROVE  GInv'
<1> USE DEF GInv, PendingInv, GoneInv, pending, sync
<1>1. CASE RemoteUpload(client) \/ RemoteDelete(client)
  BY <1>1 DEF RemoteUpload, RemoteDelete
<1>2. CASE ApplyUpdate(client)
  <2>1. gone => client # Local
    BY <1>2 DEF ApplyUpdate
  <2>2. CASE UNCHANGED <<all_data, pending>>
    BY <1>2, <2>2 DEF ApplyUpdate
  <2>3. CASE /\ all_data' = all_data \cup {client}
             /\ unsynced' = unsynced \ {client}
             /\ uploading' = (uploading /\ client # Local)
    <3>1. UNCHANGED <<server, gone>>
      BY <1>2 DEF ApplyUpdate
    <3>2. PendingInv'
      BY <2>3 DEF PendingInv
    <3>3. GoneInv'
      BY <2>1, <2>3, <3>1 DEF GoneInv
    <3> QED
      BY <3>2, <3>3
  <2> QED
    BY <1>2, <2>2, <2>3 DEF ApplyUpdate
<1>3. CASE ApplyTombstone(client)
  BY <1>3 DEF ApplyTombstone
<1> QED
  BY <1>1, <1>2, <1>3

\* A restart keeps the list or begins anew, with nothing to delete.
LEMMA RestartGInv == GInv /\ Restart => GInv'
<1> SUFFICES ASSUME GInv, Restart PROVE GInv'
  OBVIOUS
<1> USE DEF GInv, PendingInv, GoneInv, Restart
<1>1. CASE LoadDevices
  BY <1>1 DEF LoadDevices
<1>2. CASE StartClean
  BY <1>2 DEF StartClean
<1> QED
  BY <1>1, <1>2

\* No step breaks it.
LEMMA NextGInv == GInv /\ [NextDevices]_deviceVars => GInv'
<1> SUFFICES ASSUME GInv, [NextDevices]_deviceVars PROVE GInv'
  OBVIOUS
<1>1. ASSUME \/ UNCHANGED deviceVars
             \/ \E i \in DOMAIN calls : OnDeviceInfoDeleted(i)
             \/ LocalDeviceInfoChanges
             \/ CommitPrefs
      PROVE  GInv'
  BY <1>1 DEF deviceVars, OnDeviceInfoDeleted, LocalDeviceInfoChanges, CommitPrefs,
     pending, sync, GInv, PendingInv, GoneInv
<1> QED
  BY <1>1, ClientGInv, CommitGInv, ServerGInv, RestartGInv DEF NextDevices

\* A client that knows it was deleted is not put back, here or on the server,
\* by retries, refreshes, uploads, records or lost acknowledgements
\* (RefreshLocalDeviceInfoIfNeeded, ApplyIncrementalSyncChanges).
THEOREM ClientStaysOut == DevicesSpec => []GoneForGood
<1>1. GInv => GoneForGood
  BY DEF GInv, GoneInv, GoneForGood
<1> QED
  BY <1>1, InitGInv, NextGInv, PTL DEF DevicesSpec

\* A deletion in its states, with one of the attempts it is given.
Deletion ==
    [client : Device, attempt : 1 .. kFailedAttemtpsToAckDeviceDelete,
     state : {"posted", "ran", "lost"}]

\* DeleteDeviceInfo starts with the first attempt; OnDeviceInfoDeleted goes
\* on only below the last one.
LEMMA NextAttempts ==
    ASSUME calls \in Seq(Deletion), [NextDevices]_deviceVars
    PROVE  calls' \in Seq(Deletion)
<1> USE AttemptsAssumption
<1>1. CASE UNCHANGED calls
  BY <1>1
<1>2. ASSUME NEW client \in Device, DeleteDeviceInfo(client)
      PROVE  calls' \in Seq(Deletion)
  <2>1. [client |-> client, attempt |-> 1, state |-> "posted"] \in Deletion
    BY DEF Deletion
  <2> QED
    BY <1>2, <2>1 DEF DeleteDeviceInfo
<1>3. ASSUME NEW i \in DOMAIN calls, OnDeviceInfoDeleted(i)
      PROVE  calls' \in Seq(Deletion)
  <2>1. calls[i] \in Deletion
    OBVIOUS
  <2>2. ASSUME TriesAgain(calls[i])
        PROVE  Repost(calls[i]) \in Deletion
    <3> DEFINE n == calls[i].attempt + 1
    <3>1. n \in 1 .. kFailedAttemtpsToAckDeviceDelete
      BY <2>1, <2>2 DEF TriesAgain, Deletion
    <3>2. Repost(calls[i]) = [calls[i] EXCEPT !.attempt = n]
      BY DEF Repost
    <3> HIDE DEF n
    <3> QED
      BY <2>1, <3>1, <3>2 DEF Deletion
  <2>3. [calls[i] EXCEPT !.state = "ran"] \in Deletion
    BY <2>1 DEF Deletion
  <2>4. PICK d \in Deletion : calls' = [calls EXCEPT ![i] = d]
    BY <1>3, <2>2, <2>3 DEF OnDeviceInfoDeleted
  <2> QED
    BY <2>4
<1>4. CASE Restart
  <2>1. ASSUME NEW i \in DOMAIN calls
        PROVE  [calls[i] EXCEPT !.state = "lost"] \in Deletion
    <3>1. calls[i] \in Deletion
      OBVIOUS
    <3> QED
      BY <3>1 DEF Deletion
  <2>2. /\ DOMAIN calls' = DOMAIN calls
        /\ calls' = [i \in DOMAIN calls |-> calls'[i]]
        /\ \A i \in DOMAIN calls : calls'[i] \in Deletion
    BY <1>4, <2>1 DEF Restart
  <2> QED
    BY <2>2
<1>5. ASSUME NEW client \in Device,
             CommitDeletion(client) \/ CommitDeletionUnacknowledged(client)
             \/ RemoteUpload(client) \/ RemoteDelete(client)
             \/ ApplyUpdate(client) \/ ApplyTombstone(client)
      PROVE  UNCHANGED calls
  BY <1>5 DEF CommitDeletion, CommitDeletionUnacknowledged,
     RemoteUpload, RemoteDelete, ApplyUpdate, ApplyTombstone, browser
<1>6. RefreshLocalDeviceInfoIfNeeded \/ LocalDeviceInfoChanges
      \/ CommitUpload \/ CommitUploadUnacknowledged
      \/ CommitPrefs \/ UNCHANGED deviceVars => UNCHANGED calls
  BY DEF RefreshLocalDeviceInfoIfNeeded, LocalDeviceInfoChanges,
     CommitUpload, CommitUploadUnacknowledged, CommitPrefs, browser, deviceVars
<1> QED
  BY <1>1, <1>2, <1>3, <1>4, <1>5, <1>6 DEF NextDevices

\* However long the server does not acknowledge it, a deletion is looked at no
\* more often than the limit says, and its call ends, is posted or is lost in
\* a restart (OnDeviceInfoDeleted).
THEOREM AttemptsAreBounded == DevicesSpec => [](calls \in Seq(Deletion))
<1>1. InitDevices => calls \in Seq(Deletion)
  BY DEF InitDevices
<1>2. calls \in Seq(Deletion) /\ [NextDevices]_deviceVars => (calls \in Seq(Deletion))'
  BY NextAttempts
<1> QED
  BY <1>1, <1>2, PTL DEF DevicesSpec
=============================================================================
