-------------------------- MODULE RenameAtStartup --------------------------
(***************************************************************************)
(* chrome/browser/first_run/upgrade_util_win.cc: at startup the browser    *)
(* puts a new executable in place through the updater's COM object.  A     *)
(* pool thread creates the object while the main thread waits for it, with *)
(* a time-out that is kept in the registry and grows with every failed     *)
(* wait.  The process may be killed at any step; the elevated rename       *)
(* process it launched goes on.                                            *)
(*                                                                         *)
(* Times are counted in kDefaultTimeoutIncrementSeconds (15 s).            *)
(***************************************************************************)
EXTENDS Integers

CONSTANTS
    MaxDelay,  \* the longest the COM object takes
    MaxKill    \* bound on the kills of a behaviour

ASSUME DelayAssumption == MaxDelay \in Nat \ {0} /\ MaxKill \in Nat

VARIABLES
    pc,        \* where the main thread is; "off": no browser runs
    saved,     \* ProcessLauncherCreationTimeout, 0 when there is none
    timeout,   \* the time-out of the wait
    delay,     \* when completion_event will be signalled
    mine,      \* the rename process this browser launched
    orphan,    \* a rename process nobody waits for runs
    renamed,   \* the new executable is in place
    outcome,   \* what InvokeGoogleUpdateForRename returned
    timeouts,  \* number of waits that timed out (history; stops at its bound)
    kills      \* number of kills (bounded)

startupVars == <<pc, saved, timeout, delay, mine, orphan, renamed, outcome, timeouts, kills>>

InitStartup ==
    /\ pc = "off"
    /\ saved = 0 /\ timeout = 0 /\ delay = 0
    /\ mine = "none"
    /\ orphan = FALSE
    /\ renamed = FALSE
    /\ outcome = "none"
    /\ timeouts = 0 /\ kills = 0

\* A browser starts and finds a new executable to put in place.
Start ==
    /\ pc = "off" /\ ~renamed
    /\ pc' = "creating"
    /\ mine' = "none"
    /\ outcome' = "none"
    /\ UNCHANGED <<saved, timeout, delay, orphan, renamed, timeouts, kills>>

Return(result) ==
    /\ outcome' = result
    /\ pc' = "running"

\* PostTask succeeds; the time-out is read back, or is the first one.
PostTask ==
    /\ pc = "creating"
    /\ pc' = "waiting"
    /\ timeout' = IF saved = 0 THEN 1 ELSE saved
    /\ delay' \in 1 .. MaxDelay
    /\ UNCHANGED <<saved, mine, orphan, renamed, outcome, timeouts, kills>>

\* PostTask fails: the object is created on this thread, without a time-out.
CreateWithoutTimeout ==
    /\ pc = "creating"
    /\ \/ pc' = "launching" /\ UNCHANGED outcome
       \/ Return("false")
    /\ UNCHANGED <<saved, timeout, delay, mine, orphan, renamed, timeouts, kills>>

\* TimedWait sees the event: signalled in time, or at the very end of it.
InTime == pc = "waiting" /\ delay <= timeout

Created ==
    /\ InTime
    /\ pc' = "launching"
    /\ UNCHANGED <<saved, timeout, delay, mine, orphan, renamed, outcome, timeouts, kills>>

\* CoCreateInstance, the marshalling or the unmarshalling failed.
NotCreated ==
    /\ InTime
    /\ Return("false")
    /\ UNCHANGED <<saved, timeout, delay, mine, orphan, renamed, timeouts, kills>>

\* Mutant: the time-out kept is always the default plus the increment.
MutNextTimeout == 2

NextTimeout == timeout + 1

TimedOut ==
    /\ pc = "waiting" /\ delay >= timeout
    /\ timeouts' = IF timeouts > MaxDelay + MaxKill THEN timeouts ELSE timeouts + 1
    /\ pc' = "saving"
    /\ UNCHANGED <<saved, timeout, delay, mine, orphan, renamed, outcome, kills>>

\* The registry write, which a kill may come before.
SaveTimeout ==
    /\ pc = "saving"
    /\ saved' = NextTimeout
    /\ Return("false")
    /\ UNCHANGED <<timeout, delay, mine, orphan, renamed, timeouts, kills>>

LaunchCmdElevated ==
    /\ pc = "launching"
    /\ pc' = "renaming"
    /\ mine' = "runs"
    /\ UNCHANGED <<saved, timeout, delay, orphan, renamed, outcome, timeouts, kills>>

\* QueryInterface or LaunchCmdElevated fails.
NotLaunched ==
    /\ pc = "launching"
    /\ Return("false")
    /\ UNCHANGED <<saved, timeout, delay, mine, orphan, renamed, timeouts, kills>>

Result == IF mine = "renamed" THEN "true" ELSE "false"

\* WaitForExit returns with the exit code, or fails.
WaitForExit ==
    /\ pc = "renaming"
    /\ \/ /\ mine \in {"renamed", "failed"}
          /\ Return(Result)
          /\ UNCHANGED <<mine, orphan>>
       \/ /\ Return("false")
          /\ orphan' = (orphan \/ mine = "runs")
          /\ mine' = IF mine = "runs" THEN "none" ELSE mine
    /\ UNCHANGED <<saved, timeout, delay, renamed, timeouts, kills>>

\* The rename process of this browser, or one nobody waits for, ends.
Rename ==
    /\ mine = "runs"
    /\ mine' = "renamed"
    /\ renamed' = TRUE
    /\ UNCHANGED <<pc, saved, timeout, delay, orphan, outcome, timeouts, kills>>

RenameFails ==
    /\ mine = "runs"
    /\ mine' = "failed"
    /\ UNCHANGED <<pc, saved, timeout, delay, orphan, renamed, outcome, timeouts, kills>>

OrphanEnds ==
    /\ orphan
    /\ orphan' = FALSE
    /\ renamed' \in {renamed, TRUE}
    /\ UNCHANGED <<pc, saved, timeout, delay, mine, outcome, timeouts, kills>>

Stop ==
    /\ pc' = "off"
    /\ orphan' = (orphan \/ mine = "runs")
    /\ mine' = "none"
    /\ UNCHANGED <<saved, timeout, delay, renamed, outcome, timeouts>>

Exit == pc = "running" /\ Stop /\ UNCHANGED kills

KillBrowser == pc # "off" /\ kills < MaxKill /\ kills' = kills + 1 /\ Stop

MainThread ==
    \/ PostTask \/ CreateWithoutTimeout \/ Created \/ NotCreated \/ TimedOut
    \/ SaveTimeout \/ LaunchCmdElevated \/ NotLaunched \/ WaitForExit

NextStartup ==
    \/ Start \/ MainThread
    \/ Rename \/ RenameFails \/ OrphanEnds
    \/ Exit \/ KillBrowser

StartupSpec == InitStartup /\ [][NextStartup]_startupVars

\* The user keeps starting and leaving the browser, its main thread runs, and
\* what can succeed again and again succeeds at last.
FairStartupSpec ==
    /\ StartupSpec
    /\ WF_startupVars(Start) /\ WF_startupVars(Exit) /\ WF_startupVars(MainThread)
    /\ SF_startupVars(PostTask) /\ SF_startupVars(Created)
    /\ SF_startupVars(LaunchCmdElevated) /\ SF_startupVars(Rename)

-----------------------------------------------------------------------------
(* Properties.                                                             *)

\* Type invariant.
StartupTypeOK ==
    /\ pc \in {"off", "creating", "waiting", "saving", "launching", "renaming", "running"}
    /\ saved \in 0 .. MaxDelay + 1 /\ timeout \in 0 .. MaxDelay + 1 /\ delay \in 0 .. MaxDelay
    /\ mine \in {"none", "runs", "renamed", "failed"}
    /\ orphan \in BOOLEAN /\ renamed \in BOOLEAN
    /\ outcome \in {"none", "true", "false"}
    /\ timeouts \in 0 .. MaxDelay + MaxKill + 1 /\ kills \in 0 .. MaxKill

\* However often the browser is started, the waits that end in vain are no
\* more than the object's longest delay has increments in it, and one for each
\* kill, which may lose the new time-out: the time-out kept outgrows the delay
\* ("the timeout is increased by 15 seconds at each failed attempt and
\* persisted for the next attempt").
FewTimeouts == timeouts <= MaxDelay + kills

\* The new executable gets into place, however slow the object is.
EventuallyRenamed == <>renamed
=============================================================================
