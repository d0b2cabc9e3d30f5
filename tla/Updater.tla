------------------------------- MODULE Updater -------------------------------
(***************************************************************************)
(* The updater (updater.rs): a daily loop that checks, downloads and       *)
(* stages without a word, the clicks of the update dialog, one guard that  *)
(* serialises the checks of both, one staged update that is installed on a *)
(* click or on the way out, and the last phase announced, from which the   *)
(* dialog restores itself when it opens.                                   *)
(*                                                                         *)
(* A version is a number.  Download progress, the text of phases and the   *)
(* link to the release page are left out.                                  *)
(***************************************************************************)
EXTENDS Integers

CONSTANTS
    MaxVersion,   \* bound: the last version that is ever released
    MaxClicks,    \* bound: clicks on the buttons of the dialog
    MaxQuits      \* bound: ends of the process that no install asked for

ASSUME UpdaterAssumption ==
    /\ MaxVersion \in Nat \ {0}
    /\ MaxClicks \in Nat
    /\ MaxQuits \in Nat

VARIABLES
    released,     \* GitHub: the latest version in the manifest
    installed,    \* disk: the version the process runs
    inProgress,   \* CHECK_IN_PROGRESS
    at,           \* where the loop and the dialog's command are in run
    trigger,      \* what started each of the two
    found,        \* the version each of them found or installs
    staged,       \* the version whose installer is staged, 0 for none
    status,       \* last_status: the phase announced last
    clicks, quits \* how many there were

process == <<inProgress, at, trigger, found, staged, status>>
vars == <<released, installed, process, clicks, quits>>

Version == 1..MaxVersion
Runner  == {"loop", "dialog"}
Trigger == {"Background", "Check", "Download"}
At      == {"idle", "reannounce", "start", "asking", "downloading", "closing",
            "installing"}
Pending == {"checking", "downloading"}
Phase   == Pending \cup {"none", "upToDate", "available", "ready", "error"}

user_initiated(t) == t # "Background"
stages(t)         == t # "Check"

Init ==
    /\ released \in Version
    /\ installed = 1
    /\ inProgress = FALSE
    /\ at = [r \in Runner |-> "idle"]
    /\ trigger = [r \in Runner |-> "Background"]
    /\ found = [r \in Runner |-> 0]
    /\ staged = 0
    /\ status = "none"
    /\ clicks = 0
    /\ quits = 0

Release ==
    /\ released < MaxVersion
    /\ released' = released + 1
    /\ UNCHANGED <<installed, process, clicks, quits>>

----------------------------------------------------------------------------
(* run and try_run *)

Goto(r, where) == at' = [at EXCEPT ![r] = where]

\* A bug StagedNeverOlder must catch: nothing serialises the checks.
BugNoGuard(r, t) ==
    /\ at[r] = "idle"
    /\ trigger' = [trigger EXCEPT ![r] = t]
    /\ inProgress' = TRUE
    /\ Goto(r, "start")
    /\ UNCHANGED <<found, staged, status>>

\* run: whoever finds the guard taken only announces, and only for a click.
Begin(r, t) ==
    /\ at[r] = "idle"
    /\ trigger' = [trigger EXCEPT ![r] = t]
    /\ inProgress' = TRUE
    /\ Goto(r, IF ~inProgress THEN "start"
               ELSE IF user_initiated(t) THEN "reannounce" ELSE "idle")
    /\ UNCHANGED <<found, staged, status>>

Reannounce(r) ==
    /\ at[r] = "reannounce"
    /\ status' = "checking"
    /\ Goto(r, "idle")
    /\ UNCHANGED <<released, installed, inProgress, trigger, found, staged, clicks, quits>>

Announce(r) ==
    /\ at[r] = "start"
    /\ status' = "checking"
    /\ Goto(r, "asking")
    /\ UNCHANGED <<released, installed, inProgress, trigger, found, staged, clicks, quits>>

\* The run has announced how it ended; its guard is still up.
EndsWith(r, phase) ==
    /\ status' = phase
    /\ Goto(r, "closing")

UpToDate(r) ==
    /\ at[r] = "asking"
    /\ released = installed
    /\ EndsWith(r, "upToDate")
    /\ UNCHANGED <<released, installed, inProgress, trigger, found, staged, clicks, quits>>

\* An update: it may be staged already, or not asked for yet.
Found(r) ==
    /\ at[r] = "asking"
    /\ released > installed
    /\ found' = [found EXCEPT ![r] = released]
    /\ \/ staged = released /\ EndsWith(r, "ready")
       \/ staged # released /\ ~stages(trigger[r]) /\ EndsWith(r, "available")
       \/ /\ staged # released /\ stages(trigger[r])
          /\ status' = "downloading"
          /\ Goto(r, "downloading")
    /\ UNCHANGED <<released, installed, inProgress, trigger, staged, clicks, quits>>

Downloaded(r) ==
    /\ at[r] = "downloading"
    /\ staged' = found[r]
    /\ EndsWith(r, "ready")
    /\ UNCHANGED <<released, installed, inProgress, trigger, found, clicks, quits>>

\* Two bugs of a failure.  PanelResolves must catch the first: a run nobody asked
\* for fails without a phase.  UpdateLands must catch the second: a failure
\* returns past the end of the guard.
BugSilentFailure(r) ==
    /\ at[r] \in {"asking", "downloading"}
    /\ status' = IF user_initiated(trigger[r]) THEN "error" ELSE status
    /\ Goto(r, "closing")
    /\ UNCHANGED <<released, installed, inProgress, trigger, found, staged, clicks, quits>>

BugGuardLeaks(r) ==
    /\ at[r] \in {"asking", "downloading"}
    /\ status' = "error"
    /\ Goto(r, "idle")
    /\ UNCHANGED <<released, installed, inProgress, trigger, found, staged, clicks, quits>>

\* Any failure is announced, whoever asked; both calls have a time limit.
Fails(r) ==
    /\ at[r] \in {"asking", "downloading"}
    /\ EndsWith(r, "error")
    /\ UNCHANGED <<released, installed, inProgress, trigger, found, staged, clicks, quits>>

\* CheckGuard is dropped.
Drop(r) ==
    /\ at[r] = "closing"
    /\ inProgress' = FALSE
    /\ Goto(r, "idle")
    /\ UNCHANGED <<released, installed, trigger, found, staged, status, clicks, quits>>

----------------------------------------------------------------------------
(* What starts a run *)

\* spawn_periodic_check
DailyCheck ==
    /\ Begin("loop", "Background")
    /\ UNCHANGED <<released, installed, clicks, quits>>

Click ==
    /\ clicks < MaxClicks
    /\ clicks' = clicks + 1
    /\ UNCHANGED <<released, installed, quits>>

\* updater_check, updater_download
Ask(t) == Click /\ Begin("dialog", t)

\* updater_restart: with nothing staged it fetches the update instead.
RestartEmpty == staged = 0 /\ Click /\ Begin("dialog", "Download")

RestartStaged ==
    /\ staged # 0
    /\ at["dialog"] = "idle"
    /\ Click
    /\ found' = [found EXCEPT !["dialog"] = staged]
    /\ staged' = 0
    /\ Goto("dialog", "installing")
    /\ UNCHANGED <<inProgress, trigger, status>>

InstallFails ==
    /\ at["dialog"] = "installing"
    /\ status' = "error"
    /\ Goto("dialog", "idle")
    /\ UNCHANGED <<released, installed, inProgress, trigger, found, staged, clicks, quits>>

----------------------------------------------------------------------------
(* The end of the process *)

\* All but the disk is gone; the next process starts its loop anew.
NextProcess(version) ==
    /\ installed' = version
    /\ inProgress' = FALSE
    /\ at' = [r \in Runner |-> "idle"]
    /\ trigger' = [r \in Runner |-> "Background"]
    /\ found' = [r \in Runner |-> 0]
    /\ staged' = 0
    /\ status' = "none"
    /\ UNCHANGED <<released, clicks>>

Installed ==
    /\ at["dialog"] = "installing"
    /\ NextProcess(found["dialog"])
    /\ UNCHANGED quits

\* install_staged_on_exit, where the install may fail; a crash installs nothing.
Quit ==
    /\ quits < MaxQuits
    /\ quits' = quits + 1
    /\ \E version \in {installed} \cup ({staged} \ {0}) : NextProcess(version)

----------------------------------------------------------------------------

Next ==
    \/ Release \/ DailyCheck \/ RestartEmpty \/ RestartStaged
    \/ InstallFails \/ Installed \/ Quit
    \/ \E t \in {"Check", "Download"} : Ask(t)
    \/ \E r \in Runner :
         Reannounce(r) \/ Announce(r) \/ UpToDate(r) \/ Found(r) \/ Downloaded(r)
           \/ Fails(r) \/ Drop(r)

Spec == Init /\ [][Next]_vars

(***************************************************************************)
(* A run goes on and ends, both calls being limited in time, and the loop  *)
(* comes round again.  GitHub may fail any number of times, not for ever:  *)
(* an update asked for again and again is found and downloaded.            *)
(***************************************************************************)
Fairness ==
    /\ WF_vars(DailyCheck)
    /\ \A r \in Runner :
         /\ WF_vars(Reannounce(r) \/ Announce(r))
         /\ WF_vars(UpToDate(r) \/ Found(r) \/ Downloaded(r) \/ Fails(r))
         /\ WF_vars(Drop(r))
    /\ SF_vars(Found("loop"))
    /\ SF_vars(Downloaded("loop"))
    /\ WF_vars(Installed \/ InstallFails)

FairSpec == Spec /\ Fairness

----------------------------------------------------------------------------
(* What the updater promises *)

\* The process is in a state its types allow.
TypeOK ==
    /\ released \in Version /\ installed \in Version
    /\ inProgress \in BOOLEAN
    /\ at \in [Runner -> At]
    /\ trigger \in [Runner -> Trigger]
    /\ found \in [Runner -> 0..MaxVersion]
    /\ staged \in 0..MaxVersion
    /\ status \in Phase
    /\ clicks \in 0..MaxClicks /\ quits \in 0..MaxQuits

\* A staged update is never replaced by an older one, though the loop and a click
\* may each have found what was the latest when it asked (CHECK_IN_PROGRESS).
StagedNeverOlder == [][staged' # 0 => staged' >= staged]_vars

\* A dialog that shows a check or a download comes to show how it ended, also when
\* a click lands in a run nobody asked for, and however often runs fail
\* (run: "a dialog opened afterwards restores a stale Checking").
PanelResolves == status \in Pending ~> status \notin Pending

\* The last version comes to be staged or installed without anybody asking,
\* whatever failed on the way, installs included.
UpdateLands ==
    released = MaxVersion ~> (staged = MaxVersion \/ installed = MaxVersion)

\* The announcement of a click that lands after a run has announced its end and
\* before its guard drops is followed by nothing: this fails, and the dialog shows
\* Checking until the loop comes round.
AnnouncedIsRunning == status \in Pending => \E r \in Runner : at[r] # "idle"

=============================================================================
