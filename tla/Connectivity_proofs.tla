------------------------ MODULE Connectivity_proofs ------------------------
(***************************************************************************)
(* What TLAPS proves of Connectivity, for any thresholds and any number of *)
(* polls and override events under way.                                    *)
(***************************************************************************)
EXTENDS Connectivity, TLAPS

----------------------------------------------------------------------------
(* The inductive invariant *)

\* Once the events of an override that is on are read, one of them is forcing
\* Offline or has done so; while it stays on nothing publishes anything else.
OverrideOnItsWay == forced /\ overrides = 0 => state = "offline" \/ forcing > 0

\* The window is being brought back from one of the two local pages, or was
\* when that began; the state has been Online since, or the change is unseen.
ReturnIsCurrent == returning => state = "online" \/ unseen

MonitorInv == TypeOK /\ CountersAgree /\ OverrideOnItsWay

ConnectivityInv == MonitorInv /\ ReturnIsCurrent /\ SettledMeansPlaced

LEMMA InitConnectivityInv == Init => ConnectivityInv
<1> SUFFICES ASSUME Init
             PROVE  ConnectivityInv
  OBVIOUS
<1> USE DEF Init
<1>1. TypeOK
  <2>1. /\ probing \in Nat /\ good \in Nat /\ bad \in Nat
        /\ overrides \in Nat /\ forcing \in Nat
        /\ failures \in 0 .. FailuresToOffline
        /\ successes \in 0 .. SuccessesToOnline
    BY MonitorAssumption
  <2> QED
    BY <2>1, Zenon DEF TypeOK, States
<1>2. CountersAgree
  BY MonitorAssumption DEF CountersAgree
<1>3. OverrideOnItsWay /\ ReturnIsCurrent /\ SettledMeansPlaced
  BY DEF OverrideOnItsWay, ReturnIsCurrent, SettledMeansPlaced
<1> QED
  BY <1>1, <1>2, <1>3 DEF ConnectivityInv, MonitorInv

----------------------------------------------------------------------------
(* The monitor *)

LEMMA ForceKeeps ==
    ASSUME MonitorInv, ForceOffline
    PROVE  /\ CountersAgree'
           /\ state' = "offline" /\ unseen' \in BOOLEAN
           /\ failures' \in 0 .. FailuresToOffline
           /\ successes' \in 0 .. SuccessesToOnline
BY MonitorAssumption DEF ForceOffline, Publish, MonitorInv, TypeOK, States, CountersAgree

LEMMA SuccessKeeps ==
    ASSUME MonitorInv, Success
    PROVE  MonitorInv'
<1> USE DEF MonitorInv
<1>1. CASE forced
  <2>1. ForceOffline
    BY <1>1 DEF Success
  <2> QED
    BY <2>1, ForceKeeps DEF Success, TypeOK, States, OverrideOnItsWay, pageVars,
       overrideVars
<1>2. CASE ~forced
  <2>1. TypeOK'
    BY <1>2, MonitorAssumption
       DEF Success, Publish, TypeOK, States, pageVars, overrideVars
  <2>2. CountersAgree'
    BY <1>2, MonitorAssumption DEF Success, Publish, TypeOK, States, CountersAgree
  <2>3. OverrideOnItsWay'
    BY <1>2 DEF Success, OverrideOnItsWay, overrideVars
  <2> QED
    BY <2>1, <2>2, <2>3
<1> QED
  BY <1>1, <1>2

LEMMA FailureKeeps ==
    ASSUME MonitorInv, Failure
    PROVE  MonitorInv'
<1> USE DEF MonitorInv
<1>1. CASE forced
  <2>1. ForceOffline
    BY <1>1 DEF Failure
  <2> QED
    BY <2>1, ForceKeeps DEF Failure, TypeOK, States, OverrideOnItsWay, pageVars,
       overrideVars
<1>2. CASE ~forced
  <2>1. TypeOK'
    BY <1>2, MonitorAssumption
       DEF Failure, Publish, TypeOK, States, pageVars, overrideVars
  <2>2. CountersAgree'
    BY <1>2, MonitorAssumption DEF Failure, Publish, TypeOK, States, CountersAgree
  <2>3. OverrideOnItsWay'
    BY <1>2 DEF Failure, OverrideOnItsWay, overrideVars
  <2> QED
    BY <2>1, <2>2, <2>3
<1> QED
  BY <1>1, <1>2

LEMMA RefreshForcesKeeps ==
    ASSUME MonitorInv, RefreshForces
    PROVE  MonitorInv'
BY ForceKeeps
   DEF MonitorInv, RefreshForces, TypeOK, States, OverrideOnItsWay, pageVars, pollVars

\* The steps that touch neither the counters nor the state.
LEMMA QuietKeeps ==
    ASSUME MonitorInv,
           \/ StartPoll \/ ProbeAnswers \/ Toggle \/ RefreshReads
           \/ WatchChange \/ Return \/ NetworkChanges \/ Window
           \/ UNCHANGED vars
    PROVE  MonitorInv'
<1> USE DEF MonitorInv, pollVars, overrideVars, monitorVars, pageVars
<1>1. CASE StartPoll \/ ProbeAnswers
  BY <1>1 DEF StartPoll, ProbeAnswers, TypeOK, States, CountersAgree, OverrideOnItsWay
<1>2. CASE Toggle
  BY <1>2 DEF Toggle, SetForcedOffline, TypeOK, States, CountersAgree, OverrideOnItsWay
<1>3. CASE RefreshReads
  BY <1>3 DEF RefreshReads, TypeOK, States, CountersAgree, OverrideOnItsWay
<1>4. CASE WatchChange \/ Return \/ NetworkChanges \/ UNCHANGED vars
  <2>1. UNCHANGED <<overrideVars, monitorVars, pollVars>>
    BY <1>4 DEF WatchChange, OnLocalPage, OnClientPage, Return, NetworkChanges, vars
  <2>2. /\ network' \in BOOLEAN /\ rebuilt' \in BOOLEAN
        /\ page' \in {"router", "reader", "client", "web", "none"}
    BY <1>4
       DEF WatchChange, OnLocalPage, OnClientPage, Return, NetworkChanges, Surfaces,
          vars, TypeOK, States
  <2>3. unseen' \in BOOLEAN /\ returning' \in BOOLEAN /\ placed' \in BOOLEAN
    BY <1>4, Zenon
       DEF WatchChange, OnLocalPage, OnClientPage, Return, NetworkChanges, vars,
          TypeOK, States
  <2> QED
    BY <2>1, <2>2, <2>3 DEF TypeOK, States, CountersAgree, OverrideOnItsWay
<1>5. CASE Window
  <2>1. UNCHANGED <<network, overrideVars, monitorVars, pollVars, unseen, returning>>
    BY <1>5
       DEF Window, SwitchUi, RouterRoutes, ReadOffline, ReaderRetries, WindowLost,
           WindowRebuilt, ElsewhereMoves
  <2>2. /\ page' \in {"router", "reader", "client", "web", "none"}
        /\ rebuilt' \in BOOLEAN /\ placed' \in BOOLEAN
    BY <1>5
       DEF Window, SwitchUi, RouterRoutes, ReadOffline, ReaderRetries, WindowLost,
           WindowRebuilt, ElsewhereMoves, Surfaces, TypeOK, States
  <2> QED
    BY <2>1, <2>2 DEF TypeOK, States, CountersAgree, OverrideOnItsWay
<1> QED
  BY <1>1, <1>2, <1>3, <1>4, <1>5

----------------------------------------------------------------------------
(* The window *)

\* A change of the state leaves the task a change to see.
LEMMA PublishTells ==
    ASSUME MonitorInv, Success \/ Failure \/ RefreshForces
    PROVE  /\ state' = state \/ unseen'
           /\ unseen => unseen'
           /\ UNCHANGED <<returning, pageVars>>
BY DEF MonitorInv, TypeOK, States, Success, Failure, RefreshForces, ForceOffline, Publish

LEMMA WindowKept ==
    ASSUME ConnectivityInv, [Next]_vars
    PROVE  ReturnIsCurrent' /\ SettledMeansPlaced'
<1> USE DEF ConnectivityInv, ReturnIsCurrent, SettledMeansPlaced
<1>1. CASE Success \/ Failure \/ RefreshForces
  BY <1>1, PublishTells DEF pageVars
<1>2. CASE \/ StartPoll \/ ProbeAnswers \/ Toggle \/ RefreshReads
           \/ NetworkChanges \/ UNCHANGED vars
  BY <1>2
     DEF StartPoll, ProbeAnswers, Toggle, SetForcedOffline, RefreshReads,
        NetworkChanges, vars,
         pollVars, overrideVars, monitorVars, pageVars
<1>3. CASE WatchChange
  BY <1>3 DEF WatchChange, OnLocalPage, OnClientPage, MonitorInv, TypeOK, States,
     monitorVars
<1>4. CASE Return
  BY <1>4 DEF Return, MonitorInv, TypeOK, States, monitorVars, Surfaces
<1>5. CASE Window
  BY <1>5
     DEF Window, SwitchUi, RouterRoutes, ReadOffline, ReaderRetries, WindowLost,
         WindowRebuilt, ElsewhereMoves, monitorVars
<1> QED
  BY <1>1, <1>2, <1>3, <1>4, <1>5 DEF Next

----------------------------------------------------------------------------
(* The theorems *)

\* The inductive invariant holds in every state of every behaviour.
THEOREM ConnectivityInvariant == Spec => []ConnectivityInv
<1>1. ConnectivityInv /\ [Next]_vars => ConnectivityInv'
  <2> SUFFICES ASSUME ConnectivityInv, [Next]_vars
               PROVE  ConnectivityInv'
    OBVIOUS
  <2>1. MonitorInv'
    BY SuccessKeeps, FailureKeeps, RefreshForcesKeeps, QuietKeeps
       DEF ConnectivityInv, Next
  <2> QED
    BY <2>1, WindowKept DEF ConnectivityInv
<1> QED
  BY <1>1, InitConnectivityInv, PTL DEF Spec

\* Every variable of the monitor and the window keeps its type.
THEOREM ConnectivityTypeCorrect == Spec => []TypeOK
<1>1. ConnectivityInv => TypeOK
  BY DEF ConnectivityInv, MonitorInv
<1> QED
  BY <1>1, ConnectivityInvariant, PTL

\* Whatever order polls and overrides are applied in, the counters and the
\* published state agree.
THEOREM StateFollowsTheCounters == Spec => []CountersAgree
<1>1. ConnectivityInv => CountersAgree
  BY DEF ConnectivityInv, MonitorInv
<1> QED
  BY <1>1, ConnectivityInvariant, PTL

\* An override whose events have been dealt with holds.
THEOREM OverrideIsKept == Spec => []OverrideHolds
<1>1. ConnectivityInv => OverrideHolds
  BY DEF ConnectivityInv, MonitorInv, OverrideOnItsWay, OverrideHolds, TypeOK, States
<1> QED
  BY <1>1, ConnectivityInvariant, PTL

\* The window the task has settled suits the state.
THEOREM WindowSuitsTheState == Spec => []SettledMeansPlaced
<1>1. ConnectivityInv => SettledMeansPlaced
  BY DEF ConnectivityInv
<1> QED
  BY <1>1, ConnectivityInvariant, PTL
=============================================================================
