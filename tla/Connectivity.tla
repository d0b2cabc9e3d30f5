---------------------------- MODULE Connectivity ----------------------------
(***************************************************************************)
(* Whether GroupMe can be reached (ConnectivityMonitor in connectivity.rs) *)
(* and which page the window shows for it (spawn_connectivity_watch in     *)
(* lib.rs).                                                                *)
(*                                                                         *)
(* Probes run without the monitor's lock and several at once, started by   *)
(* the monitor's own loop and by the page's online and offline events:     *)
(* their answers are applied in any order and may be old by then.  The     *)
(* tray's override is a flag no lock protects.  A watch channel carries    *)
(* the state to a task that moves the window, while the page and the user  *)
(* move it too.                                                            *)
(***************************************************************************)
EXTENDS Integers

CONSTANTS
    FailuresToOffline, SuccessesToOnline,   \* MonitorConfig
    MaxTasks   \* bound: polls and override events under way at once

ASSUME MonitorAssumption ==
    /\ FailuresToOffline \in Nat \ {0}
    /\ SuccessesToOnline \in Nat \ {0}
    /\ MaxTasks \in Nat \ {0}

VARIABLES
    network,     \* GroupMe answers a probe
    forced,      \* FORCED_OFFLINE
    probing,     \* polls whose probe is under way
    good, bad,   \* polls whose probe has answered, on their way to the lock
    overrides,   \* refresh_override tasks that have not read the flag
    forcing,     \* those that read it set, on their way to the lock
    failures,    \* consecutive_failures, counted up to FailuresToOffline
    successes,   \* consecutive_successes, counted up to SuccessesToOnline
    state,       \* the value of the watch channel
    unseen,      \* the watching task has not seen that value
    returning,   \* that task reads preferred_ui before it navigates
    page,        \* what the main window shows, "none" while it is rebuilt
    placed,      \* the watching task was the last to have a say on the page
    rebuilt      \* RECOVERY_ATTEMPTED

pollVars     == <<probing, good, bad>>
overrideVars == <<forced, overrides, forcing>>
monitorVars  == <<failures, successes, state>>
pageVars     == <<page, placed, rebuilt>>
vars == <<network, pollVars, overrideVars, monitorVars, unseen, returning,
          pageVars>>

States == {"online", "degraded", "offline"}

Tasks == probing + good + bad + overrides + forcing

----------------------------------------------------------------------------
(* The monitor *)

\* publish: the channel tells its receiver of a change only.
Publish(new) ==
    /\ state' = new
    /\ unseen' = (unseen \/ state # new)

\* poll_now, from the loop of run() or from an event of the page.
StartPoll ==
    /\ Tasks < MaxTasks
    /\ probing' = probing + 1
    /\ UNCHANGED <<network, good, bad, overrideVars, monitorVars, unseen,
                   returning, pageVars>>

ProbeAnswers ==
    /\ probing > 0
    /\ probing' = probing - 1
    /\ IF network THEN good' = good + 1 /\ bad' = bad
                  ELSE bad' = bad + 1 /\ good' = good
    /\ UNCHANGED <<network, overrideVars, monitorVars, unseen, returning,
                   pageVars>>

\* force_offline: Offline, and the counters forgotten.
ForceOffline ==
    /\ failures' = 0
    /\ successes' = 0
    /\ Publish("offline")

\* A bug OverrideHolds must catch: a probe that succeeds is believed.
BugProbeWins ==
    /\ good > 0
    /\ good' = good - 1
    /\ failures' = 0
    /\ successes' = IF successes < SuccessesToOnline THEN successes + 1
                                                     ELSE successes
    /\ Publish(IF state = "offline" /\ successes' < SuccessesToOnline
               THEN "offline" ELSE "online")
    /\ UNCHANGED <<network, probing, bad, overrideVars, returning, pageVars>>

\* A bug FollowsTheNetwork must catch: only Offline is left by a success.
BugDegradedSticks ==
    /\ good > 0
    /\ good' = good - 1
    /\ IF forced
       THEN ForceOffline
       ELSE /\ failures' = 0
            /\ successes' = IF successes < SuccessesToOnline THEN successes + 1
                                                             ELSE successes
            /\ Publish(IF state = "offline" /\ successes' >= SuccessesToOnline
                       THEN "online" ELSE state)
    /\ UNCHANGED <<network, probing, bad, overrideVars, returning, pageVars>>

\* apply_result(true), under the lock.
Success ==
    /\ good > 0
    /\ good' = good - 1
    /\ IF forced
       THEN ForceOffline
       ELSE /\ failures' = 0
            /\ successes' = IF successes < SuccessesToOnline THEN successes + 1
                                                             ELSE successes
            /\ Publish(IF state = "offline" /\ successes' < SuccessesToOnline
                       THEN "offline" ELSE "online")
    /\ UNCHANGED <<network, probing, bad, overrideVars, returning, pageVars>>

\* A bug FollowsTheNetwork must catch: Degraded counts from the start again.
BugDegradedResets ==
    /\ bad > 0
    /\ bad' = bad - 1
    /\ IF forced
       THEN ForceOffline
       ELSE /\ successes' = 0
            /\ failures' = IF state = "online" THEN 1 ELSE failures
            /\ Publish(IF failures' >= FailuresToOffline THEN "offline"
                                                         ELSE "degraded")
    /\ UNCHANGED <<network, probing, good, overrideVars, returning, pageVars>>

\* apply_result(false), under the lock.
Failure ==
    /\ bad > 0
    /\ bad' = bad - 1
    /\ IF forced
       THEN ForceOffline
       ELSE /\ successes' = 0
            /\ failures' = IF failures < FailuresToOffline THEN failures + 1
                                                           ELSE failures
            /\ Publish(IF failures' >= FailuresToOffline THEN "offline"
                                                         ELSE "degraded")
    /\ UNCHANGED <<network, probing, good, overrideVars, returning, pageVars>>

----------------------------------------------------------------------------
(* The override *)

\* set_forced_offline: a flag of the process, outside the lock.
SetForcedOffline(on) == forced' = on

\* toggle_simulate_offline: the flag first, then the event.
Toggle ==
    /\ Tasks < MaxTasks
    /\ SetForcedOffline(~forced)
    /\ overrides' = overrides + 1
    /\ UNCHANGED <<network, pollVars, forcing, monitorVars, unseen, returning,
                   pageVars>>

\* refresh_override reads the flag before it takes the lock.
RefreshReads ==
    /\ overrides > 0
    /\ overrides' = overrides - 1
    /\ IF forced
       THEN forcing' = forcing + 1 /\ probing' = probing
       ELSE forcing' = forcing /\ probing' = probing + 1
    /\ UNCHANGED <<network, forced, good, bad, monitorVars, unseen, returning,
                   pageVars>>

\* force_offline_now, whatever the flag says by now.
RefreshForces ==
    /\ forcing > 0
    /\ forcing' = forcing - 1
    /\ ForceOffline
    /\ UNCHANGED <<network, pollVars, forced, overrides, returning, pageVars>>

----------------------------------------------------------------------------
(* The task that moves the window *)

\* preferred_ui, the surface last used: either, for no property tells them
\* apart.
Surfaces == {"web", "client"}

OnLocalPage  == page \in {"reader", "router"}
OnClientPage == page = "client"

\* rx.changed(), and what the state asks for at once.
WatchChange ==
    /\ unseen
    /\ ~returning
    /\ unseen' = FALSE
    /\ placed' = TRUE
    /\ returning' = (state = "online" /\ OnLocalPage)
    /\ IF state = "offline" /\ ~OnClientPage /\ page # "none"
       THEN page' = "reader" ELSE page' = page
    /\ UNCHANGED <<network, pollVars, overrideVars, monitorVars, rebuilt>>

\* A bug SettledMeansPlaced must catch: the change is marked as seen only once
\* the window has been moved.
BugSeenAfterTheMove ==
    /\ returning
    /\ returning' = FALSE
    /\ placed' = TRUE
    /\ unseen' = FALSE
    /\ IF page = "none" THEN page' = page ELSE page' \in Surfaces
    /\ UNCHANGED <<network, pollVars, overrideVars, monitorVars, rebuilt>>

\* preferred_ui has answered; the state is not looked at again.
Return ==
    /\ returning
    /\ returning' = FALSE
    /\ placed' = TRUE
    /\ IF page = "none" THEN page' = page ELSE page' \in Surfaces
    /\ UNCHANGED <<network, pollVars, overrideVars, monitorVars, unseen,
                   rebuilt>>

----------------------------------------------------------------------------
(* What else moves it *)

ElsewhereMoves ==
    /\ placed' = FALSE
    /\ UNCHANGED <<network, pollVars, overrideVars, monitorVars, unseen,
                   returning>>

\* The toggles of the two live surfaces: the event groupme://switch-ui, and
\* the client's own.
SwitchUi ==
    /\ page \in Surfaces
    /\ page' \in Surfaces
    /\ rebuilt' = rebuilt
    /\ ElsewhereMoves

\* index.html probes by itself and goes on.
RouterRoutes ==
    /\ page = "router"
    /\ network
    /\ page' \in Surfaces
    /\ rebuilt' = rebuilt
    /\ ElsewhereMoves

\* When its probe fails it shows a button that opens the reader.
ReadOffline ==
    /\ page = "router"
    /\ ~network
    /\ page' = "reader"
    /\ rebuilt' = rebuilt
    /\ ElsewhereMoves

\* offline.html goes to the router when the browser says online.
ReaderRetries ==
    /\ page = "reader"
    /\ page' = "router"
    /\ rebuilt' = rebuilt
    /\ ElsewhereMoves

\* The webview watchdog destroys a blank window and builds another, once.
WindowLost ==
    /\ ~rebuilt
    /\ rebuilt' = TRUE
    /\ page' = "none"
    /\ ElsewhereMoves

WindowRebuilt ==
    /\ page = "none"
    /\ page' = "router"
    /\ rebuilt' = rebuilt
    /\ ElsewhereMoves

NetworkChanges ==
    /\ network' = ~network
    /\ UNCHANGED <<pollVars, overrideVars, monitorVars, unseen, returning,
                   pageVars>>

----------------------------------------------------------------------------
Init ==
    /\ network \in BOOLEAN
    /\ forced = FALSE
    /\ probing = 0 /\ good = 0 /\ bad = 0
    /\ overrides = 0 /\ forcing = 0
    /\ failures = 0 /\ successes = 0
    /\ state = "online"
    /\ unseen = FALSE
    /\ returning = FALSE
    /\ page = "router"
    /\ placed = FALSE
    /\ rebuilt = FALSE

Window ==
    \/ SwitchUi \/ RouterRoutes \/ ReadOffline \/ ReaderRetries
    \/ WindowLost \/ WindowRebuilt

Next ==
    \/ StartPoll \/ ProbeAnswers \/ Success \/ Failure
    \/ Toggle \/ RefreshReads \/ RefreshForces
    \/ WatchChange \/ Return
    \/ Window \/ NetworkChanges

Spec == Init /\ [][Next]_vars

(***************************************************************************)
(* run() polls for ever, a probe answers within its timeout, the lock is   *)
(* held for no await, and spawned tasks run.  Nothing is assumed of the    *)
(* network, the user or the page.                                          *)
(***************************************************************************)
Fairness ==
    /\ WF_vars(StartPoll) /\ WF_vars(ProbeAnswers)
    /\ WF_vars(Success) /\ WF_vars(Failure)
    /\ WF_vars(RefreshReads) /\ WF_vars(RefreshForces)
    /\ WF_vars(WatchChange) /\ WF_vars(Return)

FairSpec == Spec /\ Fairness

----------------------------------------------------------------------------
TypeOK ==
    /\ network \in BOOLEAN /\ forced \in BOOLEAN
    /\ probing \in Nat /\ good \in Nat /\ bad \in Nat
    /\ overrides \in Nat /\ forcing \in Nat
    /\ failures \in 0 .. FailuresToOffline
    /\ successes \in 0 .. SuccessesToOnline
    /\ state \in States
    /\ unseen \in BOOLEAN /\ returning \in BOOLEAN
    /\ page \in {"router", "reader", "client", "web", "none"}
    /\ placed \in BOOLEAN
    /\ rebuilt \in BOOLEAN

(***************************************************************************)
(* The counters and the published state agree, whatever polls and          *)
(* overrides were applied in whatever order: no failure is on the clock    *)
(* while the state is Online, Degraded is told apart from Offline by the   *)
(* threshold, and Offline without failures lasts for fewer successes than  *)
(* recovery asks for.                                                      *)
(***************************************************************************)
CountersAgree ==
    /\ failures = FailuresToOffline => state = "offline"
    /\ failures \in 1 .. FailuresToOffline - 1 <=> state = "degraded"
    /\ state = "offline" => successes < SuccessesToOnline

(***************************************************************************)
(* While the override is on and every event of it has been dealt with, the *)
(* state is Offline, though probes started before it succeed after it and  *)
(* the flag is read outside the lock.                                      *)
(***************************************************************************)
OverrideHolds == forced /\ overrides = 0 /\ forcing = 0 => state = "offline"

(***************************************************************************)
(* When the watching task has nothing more to do and nobody else has moved *)
(* the window since, the page suits the state as it is now: never a live   *)
(* page the network cannot serve, never the offline reader while online.   *)
(***************************************************************************)
SettledMeansPlaced ==
    placed /\ ~unseen /\ ~returning =>
        /\ state = "offline" => page \in {"reader", "client", "none"}
        /\ state = "online" => page \notin {"reader", "router"}

(***************************************************************************)
(* The state comes to be what the network is, once the override stays off: *)
(* a network that stays makes it Online for good, and no failure of old    *)
(* probes or of a simulation holds it back; an outage that stays is        *)
(* declared, however polls are interleaved and whatever a simulation that  *)
(* has ended forgot of it.                                                 *)
(***************************************************************************)
FollowsTheNetwork ==
    /\ <>[](network /\ ~forced) => <>[](state = "online")
    /\ <>[](~network /\ ~forced) => <>[](state = "offline")
=============================================================================
