---------------------------- MODULE DeltaUpdate ----------------------------
(***************************************************************************)
(* Differential updates on Windows: chrome/installer/mini_installer/,      *)
(* setup/unpack_archive.cc, setup/install_worker.cc and                    *)
(* util/google_update_settings.cc, in an official build.                   *)
(*                                                                         *)
(* The updater (outside this repository) sends a differential package or,  *)
(* when the registry value "ap" ends with "-full", a full one.  The mini   *)
(* installer unpacks it, patches the previous setup.exe where it has to,   *)
(* and runs the new one, which unpacks or patches chrome.7z and installs.  *)
(* Any step may fail or be killed.                                         *)
(***************************************************************************)
EXTENDS Integers

CONSTANTS
    LastVersion,  \* the last release there is
    MaxByHand     \* bound on the runs of setup.exe by hand

ASSUME VersionAssumption == LastVersion \in Nat \ {0} /\ MaxByHand \in Nat

VARIABLES
    newest,     \* the newest release
    installed,  \* the version that is installed
    archive,    \* the version whose chrome.7z is kept, 0 for none
    full,       \* "ap" ends with kFullInstallerSuffix
    phase,      \* what runs
    package,    \* the package of the run
    type,       \* installer_state.archive_type
    result,     \* the install status of the run, as a return code
    last,       \* how the last run ended (history)
    lost,       \* the run failed to write "ap" (history)
    byHand      \* runs by hand (bounded)

run == <<package, type, result>>
history == <<last, lost, byHand>>
vars == <<newest, installed, archive, full, phase, run, history>>

Version == 1 .. LastVersion

\* from: previous_version; packed: what chrome.packed.7z holds; plain: the
\* chrome.7z that is given or lies beside setup.exe, which may be the one kept.
Package == [from : 0 .. LastVersion, to : Version, setup : {"exe", "patch", "none"},
            args : SUBSET {"install-archive", "uncompressed-archive"},
            packed : {"none", "full", "patch"}, plain : {"none", "kept", "other"}]

Full(version) ==
    [from |-> 0, to |-> version, setup |-> "exe", args |-> {"install-archive"},
     packed |-> "full", plain |-> "none"]

Delta(from, to, setup) ==
    [from |-> from, to |-> to, setup |-> setup, args |-> {"install-archive"},
     packed |-> "patch", plain |-> "none"]

Init ==
    /\ newest = 1 /\ installed = 1
    /\ archive \in {0, 1}
    /\ full \in BOOLEAN
    /\ phase = "idle"
    /\ package = Full(1) /\ type = "unknown" /\ result = "ok"
    /\ last = "none" /\ lost = FALSE /\ byHand = 0

Release ==
    /\ newest < LastVersion
    /\ newest' = newest + 1
    /\ UNCHANGED <<installed, archive, full, phase, run, history>>

-----------------------------------------------------------------------------
(* The update check, and other installers.                                 *)

Begin(p, where) ==
    /\ phase = "idle"
    /\ phase' = where
    /\ package' = p /\ type' = "unknown" /\ result' = "ok"
    /\ lost' = FALSE
    /\ UNCHANGED <<newest, installed, archive, full, last>>

\* The server sends no differential package to a client that has the suffix.
Offer ==
    /\ installed < newest
    /\ \/ Begin(Full(newest), "offered")
       \/ /\ ~full
          /\ \E setup \in {"exe", "patch", "none"} :
                Begin(Delta(installed, newest, setup), "offered")
    /\ UNCHANGED byHand

\* Someone runs a setup.exe with switches and archives of their choice.
RunByHand ==
    /\ byHand < MaxByHand
    /\ byHand' = byHand + 1
    /\ \E p \in Package :
          /\ p.from = 0 /\ p.setup = "exe" /\ p.packed # "patch"
          /\ p.to \in installed .. newest
          /\ p.plain = "kept" => archive # 0 /\ p.to = archive /\ p.packed = "none"
          /\ Begin(p, "setup")

\* A full installer of the newest release comes first.
OvertakenBy ==
    /\ phase \in {"offered", "flagged"}
    /\ installed < newest
    /\ installed' = newest /\ archive' = newest
    /\ full' = FALSE
    /\ UNCHANGED <<newest, phase, run, history>>

End(how) ==
    /\ phase' = "idle"
    /\ last' = how

-----------------------------------------------------------------------------
(* The mini installer.                                                     *)

\* Mutant: the flag is left to setup.exe.
MutSuffixed == full

\* The value with the suffix, once.
Suffixed == TRUE

\* Errors of the registry are ignored.
SetInstallerFlags ==
    /\ phase = "offered"
    /\ phase' = "flagged"
    /\ \/ full' = Suffixed /\ UNCHANGED lost
       \/ UNCHANGED full /\ lost' = TRUE
    /\ UNCHANGED <<newest, installed, archive, run, last, byHand>>

\* GetPreviousSetupExePath: the uninstall string has the previous version.
PreviousSetupExe == package.from = installed

\* The resources are unpacked, a patch of setup.exe is applied to the previous
\* one, and the new setup.exe, or else the previous one, is launched.
RunSetup ==
    /\ phase = "flagged"
    /\ package.setup = "exe" \/ PreviousSetupExe
    /\ phase' = "setup"
    /\ UNCHANGED <<newest, installed, archive, full, run, history>>

\* Unpacking, patching or launching fails; setup.exe reports nothing.
MiniInstallerFails ==
    /\ phase = "flagged"
    /\ End("failed")
    /\ UNCHANGED <<newest, installed, archive, full, run, lost, byHand>>

-----------------------------------------------------------------------------
(* setup.exe: UnpackChromeArchive and the work items.                      *)

Unpacked(archive_type, code) ==
    /\ phase = "setup"
    /\ type' = archive_type /\ result' = code
    /\ phase' = IF code = "ok" THEN "unpacked" ELSE "decided"
    /\ UNCHANGED <<newest, installed, archive, full, package, history>>

Unsupported == package.args = {"install-archive", "uncompressed-archive"}

\* A compressed archive is looked for, and there.
Compressed ==
    /\ "install-archive" \in package.args \/ "uncompressed-archive" \notin package.args
    /\ package.packed # "none"

\* FindArchiveToPatch: the chrome.7z of the previous version is still there.
PatchSource == package.from # 0 /\ archive = package.from

\* The type is not set until the patch has been applied.
UncompressAndPatchChromeArchive ==
    /\ ~Unsupported /\ Compressed
    /\ \/ Unpacked("unknown", "failed")
       \/ package.packed = "full" /\ \E code \in {"ok", "failed"} : Unpacked("full", code)
       \/ /\ package.packed = "patch" /\ PatchSource
          /\ \E code \in {"ok", "failed"} : Unpacked("incremental", code)

\* An uncompressed archive that is given, or lies beside setup.exe.
UnpackUncompressed ==
    /\ ~Unsupported /\ ~Compressed
    /\ IF package.plain = "none"
          THEN Unpacked("unknown", "failed")
          ELSE \E code \in {"ok", "failed"} : Unpacked("full", code)

RefuseArguments == Unsupported /\ Unpacked("unknown", "failed")

\* The new chrome.7z is moved or copied to the installer directory.
KeepArchive == package.to

\* The work items; the old archive is deleted, for good even if they fail,
\* unless it is what is being installed.
LeftOfArchive == IF package.plain = "kept" THEN {archive} ELSE {archive, 0}

Install ==
    /\ phase = "unpacked"
    /\ phase' = "decided"
    /\ \/ /\ package.to >= installed
          /\ installed' = package.to
          /\ archive' = KeepArchive
          /\ UNCHANGED result
       \/ /\ result' = "failed"
          /\ archive' \in LeftOfArchive
          /\ UNCHANGED installed
    /\ UNCHANGED <<newest, full, package, type, history>>

\* Mutant: a run of unknown type counts as a full one.
MutUpdateGoogleUpdateApKey == type = "incremental" /\ result # "ok"

UpdateGoogleUpdateApKey ==
    IF type = "full" \/ result = "ok" THEN FALSE
    ELSE IF type = "incremental" THEN TRUE
    ELSE full

\* The end of InstallProducts, whatever came before it.
UpdateInstallStatus ==
    /\ phase = "decided"
    /\ End(IF result = "ok" THEN "succeeded" ELSE "failed")
    /\ \/ full' = UpdateGoogleUpdateApKey /\ UNCHANGED lost
       \/ UNCHANGED full /\ lost' = (lost \/ full # UpdateGoogleUpdateApKey)
    /\ UNCHANGED <<newest, installed, archive, run, byHand>>

\* The installer is killed, or the machine goes down.
Kill ==
    /\ phase \notin {"idle", "offered"}
    /\ End("failed")
    /\ archive' \in IF phase = "unpacked" THEN LeftOfArchive ELSE {archive}
    /\ UNCHANGED <<newest, installed, full, run, lost, byHand>>

-----------------------------------------------------------------------------
MiniInstaller == SetInstallerFlags \/ RunSetup \/ MiniInstallerFails

Setup ==
    \/ UncompressAndPatchChromeArchive \/ UnpackUncompressed \/ RefuseArguments
    \/ Install \/ UpdateInstallStatus

Next ==
    \/ Release \/ Offer \/ RunByHand \/ OvertakenBy
    \/ MiniInstaller \/ Setup \/ Kill

Spec == Init /\ [][Next]_vars

\* Releases and checks go on, an installer goes on, the registry can be
\* written now and then, and a full package can be installed now and then.  A
\* differential one may fail for ever.
FairSpec ==
    /\ Spec
    /\ WF_vars(Release) /\ SF_vars(Offer)
    /\ WF_vars(MiniInstaller \/ Setup)
    /\ SF_vars(SetInstallerFlags /\ full' = Suffixed)
    /\ SF_vars(package.packed = "full" /\ RunSetup)
    /\ SF_vars(UncompressAndPatchChromeArchive /\ type' = "full" /\ result' = "ok")
    /\ SF_vars(package.packed = "full" /\ Install /\ result' = "ok")

-----------------------------------------------------------------------------
(* Properties.                                                             *)

\* Type invariant.
TypeOK ==
    /\ newest \in Version /\ installed \in 1 .. newest
    /\ archive \in 0 .. LastVersion
    /\ full \in BOOLEAN /\ lost \in BOOLEAN
    /\ phase \in {"idle", "offered", "flagged", "setup", "unpacked", "decided"}
    /\ package \in Package
    /\ type \in {"unknown", "full", "incremental"}
    /\ result \in {"ok", "failed"}
    /\ last \in {"none", "succeeded", "failed"}
    /\ byHand \in 0 .. MaxByHand

\* The next package fits what the last run left, however that ended and unless
\* the registry refused a write: after a differential package that failed or
\* was killed the installed version is sent a full one, and after a success it
\* can be sent a differential one, whose source is kept.
NextPackageFits ==
    phase = "idle" /\ ~lost =>
        /\ last = "failed" /\ package.packed = "patch" /\ package.from = installed => full
        /\ last = "succeeded" => ~full /\ archive = installed

\* The browser is brought up to date even if no patch can ever be applied: the
\* flag that a failed patch leaves is not taken away before a full package had
\* its turn ("resulting in the full installer being returned from the next
\* update check").
EventuallyUpdated == <>(installed = LastVersion)
=============================================================================
