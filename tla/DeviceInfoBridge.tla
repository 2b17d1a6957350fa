-------------------------- MODULE DeviceInfoBridge --------------------------
(***************************************************************************)
(* The devices of a sync chain as one client sees them:                    *)
(* components/sync_device_info/device_info_sync_bridge.cc and              *)
(* device_info_prefs.cc.  A device is deleted with retries until the       *)
(* server has acknowledged it, the list survives restarts, and the         *)
(* progress token is reset once to fetch devices that were expired.        *)
(*                                                                         *)
(* The change processor, the sync server and the other clients are         *)
(* upstream code: a local deletion or upload is unsynced until it is       *)
(* acknowledged; a record that arrives meanwhile wins over the deletion,   *)
(* unless it is one the processor knows already, and an upload that is     *)
(* pending wins over a tombstone.                                          *)
(***************************************************************************)
EXTENDS Integers, Sequences

CONSTANTS
    Device,      \* client ids
    Local,       \* this client's cache guid
    kFailedAttemtpsToAckDeviceDelete,
    MaxDeletes,  \* bound on the calls of DeleteDeviceInfo
    MaxRestarts  \* bound on the restarts of the browser

ASSUME LocalAssumption == Local \in Device
ASSUME AttemptsAssumption == kFailedAttemtpsToAckDeviceDelete \in Nat \ {0}

VARIABLES
    all_data,      \* all_data_, and the store it is committed to
    unsynced,      \* clients whose deletion is not acknowledged
    uploading,     \* this client's own record is not acknowledged
    server,        \* clients the server has a record of
    fetched,       \* what the progress token says was fetched
    disk_fetched,  \* the same of the token on disk
    reset_on_disk, \* the pref kResetDevicesProgressTokenTime, on disk
    local_stale,   \* the local device info differs from the stored record
    calls,         \* every call of DeleteDeviceInfo: client, attempt, state
    gone,          \* this client knows that its record was deleted on the server
    restarts

deviceVars == <<all_data, unsynced, uploading, server, fetched, disk_fetched,
                reset_on_disk, local_stale, calls, gone, restarts>>

pending == <<unsynced, uploading>>
sync == <<server, fetched, disk_fetched>>
browser == <<reset_on_disk, local_stale, calls, restarts>>

-----------------------------------------------------------------------------
\* Mutant: the token is never reset.
MutNoReset(done) == disk_fetched

\* BRAVE_ON_READ_ALL_METADATA_CLEAR_PROGRESS_TOKEN: what the token of the
\* loaded metadata stands for.
TokenAtLoad(done) == IF done THEN disk_fetched ELSE {}

\* The bridge has loaded its store.  An older version may have expired some
\* devices: fetched, but not listed.  The first start of this one resets the
\* token.
InitDevices ==
    /\ disk_fetched = Device
    /\ reset_on_disk \in BOOLEAN
    /\ all_data \in {s \in SUBSET Device : Local \in s}
    /\ reset_on_disk => all_data = Device
    /\ fetched = TokenAtLoad(reset_on_disk)
    /\ server = Device
    /\ unsynced = {} /\ uploading = FALSE
    /\ local_stale = FALSE
    /\ calls = <<>>
    /\ gone = FALSE
    /\ restarts = 0

\* DeleteDeviceInfo; OnDeviceInfoDeleted is posted with attempt 1.  The
\* processor takes the deletion of what it tracks.
DeleteDeviceInfo(client) ==
    /\ Len(calls) < MaxDeletes
    /\ all_data' = all_data \ {client}
    /\ unsynced' = unsynced \cup ({client} \cap all_data)
    /\ uploading' = (uploading /\ client # Local)
    /\ calls' = Append(calls, [client |-> client, attempt |-> 1, state |-> "posted"])
    /\ UNCHANGED <<sync, reset_on_disk, local_stale, gone, restarts>>

IsEntityUnsynced(client) == client \in unsynced \/ (client = Local /\ uploading)

TriesAgain(c) == IsEntityUnsynced(c.client) /\ c.attempt < kFailedAttemtpsToAckDeviceDelete

\* Mutant: the attempt is passed on unchanged.
MutRepost(c) == c

Repost(c) == [c EXCEPT !.attempt = @ + 1]

\* OnDeviceInfoDeleted for the call i.
OnDeviceInfoDeleted(i) ==
    /\ calls[i].state = "posted"
    /\ calls' = [calls EXCEPT ![i] =
                    IF TriesAgain(@) THEN Repost(@) ELSE [@ EXCEPT !.state = "ran"]]
    /\ UNCHANGED <<all_data, pending, sync, reset_on_disk, local_stale, gone, restarts>>

\* Mutant: the list is not looked at.
MutMayRefresh == TRUE

MayRefresh == Local \in all_data

\* RefreshLocalDeviceInfoIfNeeded: the local record is stored and put, an
\* upload that replaces whatever was pending for it.
RefreshLocalDeviceInfoIfNeeded ==
    /\ local_stale
    /\ MayRefresh
    /\ all_data' = all_data \cup {Local}
    /\ unsynced' = unsynced \ {Local}
    /\ uploading' = TRUE
    /\ local_stale' = FALSE
    /\ UNCHANGED <<sync, reset_on_disk, calls, gone, restarts>>

LocalDeviceInfoChanges ==
    /\ local_stale' = TRUE
    /\ UNCHANGED <<all_data, pending, sync, reset_on_disk, calls, gone, restarts>>

-----------------------------------------------------------------------------
(* The change processor, the server and the other clients.                 *)

\* The server takes the deletion and its acknowledgement arrives.
CommitDeletion(client) ==
    /\ client \in unsynced
    /\ unsynced' = unsynced \ {client}
    /\ server' = server \ {client}
    /\ gone' = (gone \/ client = Local)
    /\ UNCHANGED <<all_data, uploading, fetched, disk_fetched, browser>>

\* The server takes the deletion and the acknowledgement is lost.
CommitDeletionUnacknowledged(client) ==
    /\ client \in unsynced
    /\ server' = server \ {client}
    /\ UNCHANGED <<all_data, pending, fetched, disk_fetched, gone, browser>>

\* The server takes this client's record and the acknowledgement arrives.
CommitUpload ==
    /\ uploading
    /\ uploading' = FALSE
    /\ server' = server \cup {Local}
    /\ fetched' = fetched \cup {Local}
    /\ disk_fetched' = disk_fetched \cup {Local}
    /\ UNCHANGED <<all_data, unsynced, gone, browser>>

\* The server takes it and the acknowledgement is lost: it is news to the client.
CommitUploadUnacknowledged ==
    /\ uploading
    /\ server' = server \cup {Local}
    /\ fetched' = fetched \ {Local}
    /\ disk_fetched' = disk_fetched \ {Local}
    /\ UNCHANGED <<all_data, pending, gone, browser>>

\* A remote device uploads its record.
RemoteUpload(client) ==
    /\ client # Local
    /\ server' = server \cup {client}
    /\ fetched' = fetched \ {client}
    /\ disk_fetched' = disk_fetched \ {client}
    /\ UNCHANGED <<all_data, pending, gone, browser>>

\* Another client deletes a device of the chain.
RemoteDelete(client) ==
    /\ server' = server \ {client}
    /\ UNCHANGED <<all_data, pending, fetched, disk_fetched, gone, browser>>

\* ApplyIncrementalSyncChanges for a record.  One that the processor knows
\* already is ignored, so that what is pending for the client stays; another
\* one wins over it.
ApplyUpdate(client) ==
    /\ client \in server \ fetched
    /\ \/ IsEntityUnsynced(client) /\ UNCHANGED <<all_data, pending>>
       \/ /\ all_data' = all_data \cup {client}
          /\ unsynced' = unsynced \ {client}
          /\ uploading' = (uploading /\ client # Local)
    /\ fetched' = fetched \cup {client}
    /\ disk_fetched' = fetched'
    /\ UNCHANGED <<server, gone, browser>>

\* Mutant: a tombstone of the local device is skipped, as upstream does.
MutAppliesTombstone(client) == client # Local

\* BRAVE_DEVICE_INFO_SYNC_BRIDGE_APPLY_SYNC_CHANGES_SKIP_NEXT_IF: nothing is
\* skipped, the local device's tombstone included.
AppliesTombstone(client) == TRUE

\* ApplyIncrementalSyncChanges for a tombstone, of a device in the list or of
\* one whose deletion here is unsynced.
ApplyTombstone(client) ==
    /\ client \in (all_data \cup unsynced) \ server
    /\ ~(client = Local /\ uploading)
    /\ AppliesTombstone(client)
    /\ all_data' = all_data \ {client}
    /\ unsynced' = unsynced \ {client}
    /\ gone' = (gone \/ client = Local)
    /\ UNCHANGED <<uploading, sync, browser>>

-----------------------------------------------------------------------------
(* The browser.                                                            *)

CommitPrefs ==
    /\ ~reset_on_disk
    /\ reset_on_disk' = TRUE
    /\ UNCHANGED <<all_data, pending, sync, local_stale, calls, gone, restarts>>

\* What the store holds is loaded.
LoadDevices ==
    /\ Local \in all_data
    /\ fetched' = TokenAtLoad(reset_on_disk)
    /\ UNCHANGED <<all_data, uploading, disk_fetched, gone>>

\* A store without this client's own record is taken for corrupt: the client
\* starts clean and joins the chain again.
StartClean ==
    /\ Local \notin all_data
    /\ all_data' = {Local}
    /\ uploading' = TRUE
    /\ fetched' = {} /\ disk_fetched' = {}
    /\ gone' = FALSE

\* The browser stops, at any moment, and starts again: posted tasks are gone,
\* and so are the deletions not acknowledged yet, whose metadata
\* DeleteDeviceInfo cleared.
Restart ==
    /\ restarts < MaxRestarts
    /\ restarts' = restarts + 1
    /\ calls' = [i \in DOMAIN calls |->
                    IF calls[i].state = "posted" THEN [calls[i] EXCEPT !.state = "lost"]
                    ELSE calls[i]]
    /\ unsynced' = {}
    /\ LoadDevices \/ StartClean
    /\ local_stale' \in BOOLEAN
    /\ UNCHANGED <<server, reset_on_disk>>

NextDevices ==
    \/ \E client \in Device :
          \/ DeleteDeviceInfo(client)
          \/ CommitDeletion(client)
          \/ CommitDeletionUnacknowledged(client)
          \/ RemoteUpload(client)
          \/ RemoteDelete(client)
          \/ ApplyUpdate(client)
          \/ ApplyTombstone(client)
    \/ \E i \in DOMAIN calls : OnDeviceInfoDeleted(i)
    \/ RefreshLocalDeviceInfoIfNeeded
    \/ LocalDeviceInfoChanges
    \/ CommitUpload
    \/ CommitUploadUnacknowledged
    \/ CommitPrefs
    \/ Restart

DevicesSpec == InitDevices /\ [][NextDevices]_deviceVars

\* The task runner runs what is posted to it, and the client that is online
\* receives what the server has for it.
Fairness ==
    /\ \A i \in 1 .. MaxDeletes : WF_deviceVars(i \in DOMAIN calls /\ OnDeviceInfoDeleted(i))
    /\ \A client \in Device :
          WF_deviceVars(ApplyUpdate(client)) /\ WF_deviceVars(ApplyTombstone(client))

FairDevicesSpec == DevicesSpec /\ Fairness

-----------------------------------------------------------------------------
(* Properties.                                                             *)

\* Every deletion's callback runs, however long the client is offline, unless
\* the browser stops first.
CallbackEventuallyRuns ==
    \A i \in 1 .. MaxDeletes :
        (i \in DOMAIN calls) ~> (i \in DOMAIN calls /\ calls[i].state # "posted")

\* A client that knows it was deleted from the chain, by itself or by another
\* client, stays out of its own list and of the server's until it is restarted:
\* neither a refresh of its device info, whose upload would add it again
\* (RefreshLocalDeviceInfoIfNeeded), nor an upload or a record of its own that
\* was under way when it was deleted puts it back.
GoneForGood == gone => Local \notin all_data \cup server

\* "breaks the ability to remove other device in sync chain": once nobody
\* changes the chain any more and the server has acknowledged what this client
\* did, the list is what the server has, however deletions here and there,
\* refreshes and uploads overtook each other.  After a restart it need not be:
\* an unsynced deletion is forgotten.
ListSettles ==
    /\ <>[](restarts = 0 /\ unsynced = {} /\ ~uploading)
    /\ <>[][\A client \in Device : ~RemoteUpload(client) /\ ~RemoteDelete(client)]_deviceVars
    => <>[](all_data = server)

Hidden(client) == client \in server /\ client \notin all_data

\* "we need to re-fetch the devices which were expired and are hidden on the
\* client but still present on the server": a device that stays on the server
\* and is not deleted here is listed some day, if the browser is not restarted
\* meanwhile.
HiddenDevicesReturnInOneRun ==
    \A client \in Device :
        (Hidden(client) /\ calls = <<>> /\ restarts = 0)
            ~> (~Hidden(client) \/ calls # <<>> \/ restarts # 0)
=============================================================================
