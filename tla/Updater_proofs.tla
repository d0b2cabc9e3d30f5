--------------------------- MODULE Updater_proofs ---------------------------
(***************************************************************************)
(* What TLAPS proves of Updater, for any number of versions, clicks and    *)
(* ends of the process.                                                    *)
(***************************************************************************)
EXTENDS Updater, TLAPS

----------------------------------------------------------------------------
(* The inductive invariant *)

\* Between taking the guard and dropping it.
Running(r) == at[r] \in {"start", "asking", "downloading", "closing"}

\* Who runs holds the guard, so that nobody else runs.
OneRun ==
    \A r \in Runner :
        Running(r) => inProgress /\ \A s \in Runner \ {r} : ~Running(s)

\* Nothing is staged that was not released, and what is being downloaded was
\* the latest when it was found: nothing newer was staged since.
StagedWasReleased == staged <= released

DownloadIsNotOlder ==
    \A r \in Runner :
        at[r] = "downloading" => staged <= found[r] /\ found[r] <= released

\* What is being installed is a version.
InstallsSomething == at["dialog"] = "installing" => found["dialog"] # 0

UpdaterInv ==
    /\ TypeOK
    /\ InstallsSomething
    /\ OneRun
    /\ StagedWasReleased
    /\ DownloadIsNotOlder

USE UpdaterAssumption DEF UpdaterAssumption

----------------------------------------------------------------------------
(* Each step keeps it *)

LEMMA InitUpdaterInv == Init => UpdaterInv
<1> SUFFICES ASSUME Init PROVE UpdaterInv
  OBVIOUS
<1>1. TypeOK
  <2>1. at \in [Runner -> At] /\ trigger \in [Runner -> Trigger]
    BY Zenon DEF Init, Trigger, At
  <2>2. status \in Phase
    BY DEF Init, Phase
  <2>3. found \in [Runner -> 0..MaxVersion]
    BY DEF Init
  <2>4. inProgress \in BOOLEAN
    BY Zenon DEF Init
  <2>5. /\ released \in Version /\ installed \in Version
        /\ staged \in 0..MaxVersion /\ clicks \in 0..MaxClicks /\ quits \in 0..MaxQuits
    BY DEF Init, Version
  <2> QED BY <2>1, <2>2, <2>3, <2>4, <2>5, Zenon DEF TypeOK
<1>2. OneRun /\ DownloadIsNotOlder /\ InstallsSomething
  BY DEF Init, OneRun, Running, DownloadIsNotOlder, InstallsSomething, Runner
<1>3. StagedWasReleased
  BY DEF Init, Version, StagedWasReleased
<1> QED BY <1>1, <1>2, <1>3 DEF UpdaterInv

\* Whoever begins runs only if the guard was down, when nobody else did.
LEMMA BeginKeeps ==
    ASSUME UpdaterInv, NEW r \in Runner, NEW t \in Trigger, Begin(r, t),
           UNCHANGED <<released, installed, quits>>, clicks' \in 0..MaxClicks
    PROVE  UpdaterInv'
<1>1. /\ at[r] = "idle"
      /\ UNCHANGED <<found, staged, status>>
      /\ inProgress' = TRUE
      /\ trigger' = [trigger EXCEPT ![r] = t]
  BY DEF Begin
<1>2. PICK w \in {"idle", "reannounce", "start"} :
           /\ at' = [at EXCEPT ![r] = w]
           /\ w = "start" => ~inProgress
  BY DEF Begin, Goto
<1>3. TypeOK'
  BY <1>1, <1>2 DEF UpdaterInv, TypeOK, At
<1>4. OneRun'
  BY <1>1, <1>2 DEF UpdaterInv, TypeOK, OneRun, Running
<1>5. StagedWasReleased' /\ DownloadIsNotOlder' /\ InstallsSomething'
  BY <1>1, <1>2 DEF UpdaterInv, TypeOK, Runner, StagedWasReleased,
                    DownloadIsNotOlder, InstallsSomething
<1> QED BY <1>3, <1>4, <1>5 DEF UpdaterInv

\* A step of a run that has begun leaves the guard and the other as they are.
LEMMA RunKeeps ==
    ASSUME UpdaterInv, NEW r \in Runner,
           \/ Reannounce(r) \/ Announce(r) \/ UpToDate(r) \/ Found(r)
           \/ Downloaded(r) \/ Fails(r)
    PROVE  UpdaterInv'
<1>1. /\ UNCHANGED <<released, installed, inProgress, trigger, clicks, quits>>
      /\ \E w \in At \ {"start", "installing"} :
            /\ at' = [at EXCEPT ![r] = w]
            /\ ~Running(r) => w = "idle"
  BY DEF Reannounce, Announce, UpToDate, Found, Downloaded, Fails, EndsWith,
         Goto, At, Running
<1>2. OneRun'
  BY <1>1 DEF UpdaterInv, TypeOK, OneRun, Running, At
<1>3. TypeOK'
  <2>1. at' \in [Runner -> At]
    BY <1>1 DEF UpdaterInv, TypeOK
  <2>2. status' \in Phase
    BY DEF UpdaterInv, TypeOK, Phase, Pending, Reannounce, Announce, UpToDate,
           Found, Downloaded, Fails, EndsWith
  <2>3. found' \in [Runner -> 0..MaxVersion] /\ staged' \in 0..MaxVersion
    BY DEF UpdaterInv, TypeOK, Version, Reannounce, Announce, UpToDate,
           Found, Downloaded, Fails
  <2> QED BY <1>1, <2>1, <2>2, <2>3 DEF UpdaterInv, TypeOK
<1>4. StagedWasReleased' /\ DownloadIsNotOlder'
  <2>1. CASE Found(r)
    <3>1. found' = [found EXCEPT ![r] = released] /\ UNCHANGED <<staged, released>>
      BY <2>1 DEF Found
    <3>2. \A s \in Runner : at'[s] = "downloading" => s = r \/ at[s] = "downloading"
      BY <1>1 DEF UpdaterInv, TypeOK
    <3> QED BY <3>1, <3>2 DEF UpdaterInv, TypeOK, Version, StagedWasReleased,
                              DownloadIsNotOlder
  <2>2. CASE Downloaded(r)
    <3>1. /\ at[r] = "downloading" /\ at' = [at EXCEPT ![r] = "closing"]
          /\ staged' = found[r] /\ UNCHANGED <<found, released>>
      BY <2>2 DEF Downloaded, EndsWith, Goto
    <3>2. \A s \in Runner : at'[s] # "downloading"
      BY <3>1 DEF UpdaterInv, TypeOK, OneRun, Running
    <3> QED BY <3>1, <3>2 DEF UpdaterInv, StagedWasReleased, DownloadIsNotOlder
  <2>3. CASE Reannounce(r) \/ Announce(r) \/ UpToDate(r) \/ Fails(r)
    <3>1. /\ UNCHANGED <<found, staged, released>>
          /\ \A s \in Runner : at'[s] = "downloading" => at[s] = "downloading"
      BY <2>3 DEF Reannounce, Announce, UpToDate, Fails, EndsWith, Goto,
                  UpdaterInv, TypeOK
    <3> QED BY <3>1 DEF UpdaterInv, StagedWasReleased, DownloadIsNotOlder
  <2> QED BY <2>1, <2>2, <2>3
<1>5. InstallsSomething'
  BY <1>1 DEF UpdaterInv, TypeOK, Version, Runner, InstallsSomething, At, Running,
              Reannounce, Announce, UpToDate, Found, Downloaded, Fails
<1> QED BY <1>2, <1>3, <1>4, <1>5 DEF UpdaterInv

\* The guard comes down with the run that held it.
LEMMA DropKeeps ==
    ASSUME UpdaterInv, NEW r \in Runner, Drop(r)
    PROVE  UpdaterInv'
<1>1. /\ at[r] = "closing" /\ at' = [at EXCEPT ![r] = "idle"]
      /\ inProgress' = FALSE
      /\ UNCHANGED <<released, installed, trigger, found, staged, status, clicks,
                     quits>>
  BY DEF Drop, Goto
<1>2. OneRun'
  BY <1>1 DEF UpdaterInv, TypeOK, OneRun, Running
<1>3. TypeOK' /\ StagedWasReleased' /\ DownloadIsNotOlder' /\ InstallsSomething'
  BY <1>1 DEF UpdaterInv, TypeOK, At, Runner, StagedWasReleased,
              DownloadIsNotOlder, InstallsSomething
<1> QED BY <1>2, <1>3 DEF UpdaterInv

\* A new process has nothing staged and runs nothing.
LEMMA NextProcessKeeps ==
    ASSUME UpdaterInv, NEW version \in Version, NextProcess(version),
           quits' \in 0..MaxQuits
    PROVE  UpdaterInv'
<1>1. TypeOK'
  <2>1. at' \in [Runner -> At] /\ trigger' \in [Runner -> Trigger]
    BY Zenon DEF NextProcess, Trigger, At
  <2>2. status' \in Phase
    BY DEF NextProcess, Phase
  <2>3. found' \in [Runner -> 0..MaxVersion]
    BY DEF NextProcess
  <2>4. inProgress' \in BOOLEAN
    BY Zenon DEF NextProcess
  <2>5. /\ released' \in Version /\ installed' \in Version
        /\ staged' \in 0..MaxVersion /\ clicks' \in 0..MaxClicks
    BY DEF NextProcess, UpdaterInv, TypeOK, Version
  <2> QED BY <2>1, <2>2, <2>3, <2>4, <2>5, Zenon DEF TypeOK, Version
<1>2. OneRun' /\ DownloadIsNotOlder' /\ InstallsSomething'
  BY DEF NextProcess, OneRun, Running, DownloadIsNotOlder, InstallsSomething, Runner
<1>3. StagedWasReleased'
  BY DEF NextProcess, UpdaterInv, TypeOK, Version, StagedWasReleased
<1> QED BY <1>1, <1>2, <1>3 DEF UpdaterInv

LEMMA NextUpdaterInv == UpdaterInv /\ [Next]_vars => UpdaterInv'
<1> SUFFICES ASSUME UpdaterInv, [Next]_vars
             PROVE  UpdaterInv'
  OBVIOUS
<1>1. CASE Release
  BY <1>1 DEF Release, process, UpdaterInv, TypeOK, Version, OneRun, Running,
              StagedWasReleased, DownloadIsNotOlder, InstallsSomething
<1>2. CASE \/ DailyCheck \/ RestartEmpty
           \/ \E t \in {"Check", "Download"} : Ask(t)
  <2>1. PICK r \in Runner, t \in Trigger : Begin(r, t)
    BY <1>2 DEF DailyCheck, RestartEmpty, Ask, Runner, Trigger
  <2>2. UNCHANGED <<released, installed, quits>> /\ clicks' \in 0..MaxClicks
    BY <1>2 DEF DailyCheck, RestartEmpty, Ask, Click, UpdaterInv, TypeOK
  <2> QED BY <2>1, <2>2, BeginKeeps
<1>3. CASE RestartStaged
  <2>1. TypeOK'
    BY <1>3 DEF RestartStaged, Click, Goto, UpdaterInv, TypeOK, At, Runner
  <2>2. OneRun'
    BY <1>3 DEF RestartStaged, Goto, UpdaterInv, TypeOK, OneRun, Running
  <2>3. StagedWasReleased' /\ DownloadIsNotOlder'
    BY <1>3 DEF RestartStaged, Click, Goto, UpdaterInv, TypeOK, Version,
                StagedWasReleased, DownloadIsNotOlder
  <2>4. InstallsSomething'
    BY <1>3 DEF RestartStaged, UpdaterInv, TypeOK, Runner, InstallsSomething
  <2> QED BY <2>1, <2>2, <2>3, <2>4 DEF UpdaterInv
<1>4. CASE InstallFails
  BY <1>4 DEF InstallFails, Goto, UpdaterInv, TypeOK, At, Phase, OneRun,
              Running, Runner, StagedWasReleased, DownloadIsNotOlder,
              InstallsSomething
<1>5. CASE Installed
  <2>1. found["dialog"] \in Version
    BY <1>5 DEF Installed, UpdaterInv, InstallsSomething, TypeOK, Version, Runner
  <2>2. NextProcess(found["dialog"]) /\ quits' \in 0..MaxQuits
    BY <1>5 DEF Installed, UpdaterInv, TypeOK
  <2> QED BY <2>1, <2>2, NextProcessKeeps
<1>6. CASE Quit
  <2>1. PICK version \in {installed} \cup ({staged} \ {0}) : NextProcess(version)
    BY <1>6 DEF Quit
  <2>2. version \in Version /\ quits' \in 0..MaxQuits
    BY <1>6 DEF Quit, UpdaterInv, TypeOK, Version
  <2> QED BY <2>1, <2>2, NextProcessKeeps
<1>7. CASE UNCHANGED vars
  BY <1>7 DEF vars, process, UpdaterInv, TypeOK, OneRun, Running,
              StagedWasReleased, DownloadIsNotOlder, InstallsSomething
<1> QED
  BY <1>1, <1>2, <1>3, <1>4, <1>5, <1>6, <1>7, RunKeeps, DropKeeps DEF Next

THEOREM UpdaterIsInvariant == Spec => []UpdaterInv
BY InitUpdaterInv, NextUpdaterInv, PTL DEF Spec

----------------------------------------------------------------------------
(* What follows *)

\* The types of the updater.
THEOREM UpdaterTypeCorrect == Spec => []TypeOK
BY UpdaterIsInvariant, PTL DEF UpdaterInv

\* At most one of the loop and the dialog is between taking the guard and
\* dropping it (CHECK_IN_PROGRESS: "download the same installer twice").
THEOREM ChecksAreSerialised == Spec => []OneRun
BY UpdaterIsInvariant, PTL DEF UpdaterInv

\* A staged update is never replaced by an older one: the guard keeps a second
\* run away from the download of the first, and GitHub only moves forward
\* (run, try_run).
THEOREM StagedMovesForward == Spec => StagedNeverOlder
<1>1. UpdaterInv /\ [Next]_vars => [staged' # 0 => staged' >= staged]_vars
  <2> SUFFICES ASSUME UpdaterInv, Next, staged' # staged, staged' # 0
               PROVE  staged' >= staged
    BY DEF UpdaterInv, TypeOK, vars, process
  <2>1. PICK r \in Runner : Downloaded(r)
    BY DEF Next, Release, process, DailyCheck, RestartEmpty, RestartStaged,
           InstallFails, Installed, Quit, NextProcess, Ask, Begin, Reannounce,
           Announce, UpToDate, Found, Fails, Drop
  <2> QED
    BY <2>1 DEF Downloaded, UpdaterInv, TypeOK, DownloadIsNotOlder
<1> QED BY <1>1, UpdaterIsInvariant, PTL DEF Spec, StagedNeverOlder

=============================================================================
