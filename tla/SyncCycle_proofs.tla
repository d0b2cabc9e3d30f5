-------------------------- MODULE SyncCycle_proofs --------------------------
(***************************************************************************)
(* What TLAPS proves of SyncCycle, for any set of conversations, any page  *)
(* limit, budgets and queue.                                               *)
(***************************************************************************)
EXTENDS SyncCycle, TLAPS

\* The cursors' own theorems, about the visits of this loop.
P == INSTANCE SyncCursor_proofs WITH BackfillPages <- CatchupPages

----------------------------------------------------------------------------
(* Cursor and P are two instances of one module *)

LEMMA SameModule ==
    /\ Cursor!Init <=> P!Init
    /\ [Cursor!Next]_(Cursor!vars) <=> [P!Next]_(P!vars)
    /\ Cursor!CursorInv <=> P!CursorInv
<1> USE DEF
         Cursor!None, P!None, Cursor!Id, P!Id, Cursor!SyncState, P!SyncState,
         Cursor!NoState, P!NoState, Cursor!Page, P!Page,
         Cursor!NoPage, P!NoPage, Cursor!Ids, P!Ids, Cursor!Empty, P!Empty,
         Cursor!Length, P!Length, Cursor!Least, P!Least,
         Cursor!Greatest, P!Greatest, Cursor!Latest, P!Latest,
         Cursor!Before, P!Before, Cursor!After, P!After,
         Cursor!Seeding, P!Seeding, Cursor!Response, P!Response,
         Cursor!AdvanceCursors, P!AdvanceCursors, Cursor!EndVisit, P!EndVisit,
         Cursor!Proceed, P!Proceed, Cursor!LeaveTail, P!LeaveTail,
         Cursor!serverVars, P!serverVars, Cursor!storeVars, P!storeVars,
         Cursor!engineVars, P!engineVars, Cursor!vars, P!vars
<1>1. Cursor!Init <=> P!Init
  BY DEF Cursor!Init, P!Init
<1>2. \A c : Cursor!Send(c) <=> P!Send(c)
  BY DEF Cursor!Send, P!Send
<1>3. \A c, m : Cursor!RealtimeMessage(c, m) <=> P!RealtimeMessage(c, m)
  BY DEF Cursor!RealtimeMessage, P!RealtimeMessage
<1>4. \A c, tail, pages : Cursor!Visit(c, tail, pages) <=> P!Visit(c, tail, pages)
  BY DEF Cursor!Visit, P!Visit
<1>5. Cursor!Fetch <=> P!Fetch
  BY DEF Cursor!Fetch, P!Fetch
<1>6. Cursor!InsertRows <=> P!InsertRows
  BY DEF Cursor!InsertRows, P!InsertRows
<1>7. Cursor!PutCursors <=> P!PutCursors
  BY DEF Cursor!PutCursors, Cursor!PutSyncState, P!PutCursors, P!PutSyncState
<1>8. Cursor!EmptyPage <=> P!EmptyPage
  BY DEF Cursor!EmptyPage, Cursor!PutSyncState, P!EmptyPage, P!PutSyncState
<1>9. Cursor!VisitFails <=> P!VisitFails
  BY DEF Cursor!VisitFails, P!VisitFails
<1>10. Cursor!Next <=> P!Next
  BY <1>2, <1>3, <1>4, <1>5, <1>6, <1>7, <1>8, <1>9
  DEF Cursor!Next, P!Next, Cursor!EngineStep, P!EngineStep
<1>11. Cursor!CursorInv <=> P!CursorInv
  BY DEF Cursor!CursorInv, P!CursorInv, Cursor!TypeOK, P!TypeOK,
         Cursor!CopyIsCurrent, P!CopyIsCurrent, Cursor!WindowOK, P!WindowOK,
         Cursor!NoHole, P!NoHole, Cursor!PageTouches, P!PageTouches,
         Cursor!RowsBeforeCursors, P!RowsBeforeCursors,
         Cursor!BudgetLeft, P!BudgetLeft
<1> QED
  BY <1>1, <1>10, <1>11

LEMMA SameSpec == Cursor!Spec => P!Spec
  BY SameModule, PTL DEF Cursor!Spec, P!Spec

LEMMA LiftedInvariant == Cursor!Spec => []Cursor!CursorInv
<1>1. P!CursorAssumption
  BY VisitAssumption DEF Cursor!CursorAssumption, P!CursorAssumption
<1>2. P!Spec => []P!CursorInv
  BY <1>1, P!CursorInvariant
<1>3. P!CursorInv => Cursor!CursorInv
  BY SameModule
<1> QED
  BY <1>2, <1>3, SameSpec, PTL

----------------------------------------------------------------------------
(* The loop makes only the visits SyncCursor describes *)

(***************************************************************************)
(* A visit is under way only where the loop awaits one: for the first of   *)
(* the drained requests, or for a conversation its pass has still to do.   *)
(***************************************************************************)
AwaitInv ==
    /\ queue \in Seq(Conv)
    /\ drained \in Seq(Conv)
    /\ pc # "idle" => \/ loop = "priority" /\ drained # <<>>
                      \/ loop \in {"recent", "deep"} /\ conv \in todo

LEMMA VisitControl ==
    /\ Cursor!EngineStep => pc # "idle" /\ conv' = conv
    /\ Cursor!VisitFails => pc # "idle" /\ pc' = "idle" /\ conv' = conv
    /\ \A c, tail, pages :
        Cursor!Visit(c, tail, pages) => pc = "idle" /\ pc' # "idle" /\ conv' = c
  BY DEF Cursor!EngineStep, Cursor!Fetch, Cursor!InsertRows, Cursor!PutCursors,
     Cursor!PutSyncState,
         Cursor!EmptyPage, Cursor!LeaveTail, Cursor!Proceed, Cursor!EndVisit,
         Cursor!VisitFails, Cursor!Visit

\* What a step of a visit leaves to its caller.
LEMMA VisitStepOutcome ==
    ASSUME VisitStep
    PROVE  /\ Cursor!EngineStep
           /\ refused' = "none" /\ UNCHANGED <<queueVars, loop, listed, moreWork>>
           /\ \/ /\ pc' # "idle"
                 /\ UNCHANGED <<drained, todo, swept>>
              \/ /\ pc' = "idle"
                 /\ loop = "priority"
                 /\ drained' = Tail(drained)
                 /\ UNCHANGED <<todo, swept>>
              \/ /\ pc' = "idle"
                 /\ loop \in {"recent", "deep"}
                 /\ todo' = todo \ {conv}
                 /\ swept' = IF loop = "recent" THEN [swept EXCEPT ![conv] = "ok"]
                                               ELSE swept
                 /\ UNCHANGED drained
  BY DEF VisitStep, VisitOk

LEMMA InitAwaitInv == Init => AwaitInv
  BY DEF Init, AwaitInv, Cursor!Init

LEMMA NextAwaitInv == AwaitInv /\ [Next]_vars => AwaitInv'
<1> SUFFICES ASSUME AwaitInv, [Next]_vars PROVE AwaitInv'
  OBVIOUS
<1> USE DEF AwaitInv, queueVars, cursorVars, cycleVars
<1>1. ASSUME NEW c \in Conv, Push(c) PROVE AwaitInv'
  BY <1>1 DEF Push
<1>2. CASE Notify \/ Start \/ StartCycle \/ ListGroups \/ ListChats \/ AskAside
           \/ AsideRefused \/ (\E unread : ReadCursors(unread))
           \/ (\E c \in Conv : DeepSkip(c))
  BY <1>2 DEF Notify, Start, StartCycle, ListGroups, ListChats, AskAside, AsideRefused,
              ReadCursors, Readable, DeepSkip
<1>3. CASE Drain
  BY <1>3 DEF Drain
<1>4. CASE PriorityVisit
  <2>1. Head(drained) \in Conv
    BY <1>4 DEF PriorityVisit
  <2> QED
    BY <1>4, <2>1, VisitControl DEF PriorityVisit, Visit
<1>5. ASSUME NEW c \in Conv, RecentVisit(c) \/ DeepVisit(c) PROVE AwaitInv'
  BY <1>5 DEF RecentVisit, DeepVisit, Visit, Cursor!Visit
<1>6. CASE VisitStep
  <2>1. /\ pc # "idle" /\ conv' = conv /\ UNCHANGED <<queue, loop>>
        /\ \/ pc' # "idle" /\ UNCHANGED <<drained, todo>>
           \/ pc' = "idle" /\ loop = "priority" /\ drained' = Tail(drained)
           \/ pc' = "idle" /\ loop \in {"recent", "deep"} /\ UNCHANGED drained
    BY <1>6, VisitControl, VisitStepOutcome
  <2>2. drained # <<>> => Tail(drained) \in Seq(Conv)
    OBVIOUS
  <2>3. queue' \in Seq(Conv) /\ drained' \in Seq(Conv)
    BY <2>1, <2>2
  <2> QED
    BY <2>1, <2>3
<1>7. CASE VisitFails
  BY <1>7, VisitControl DEF VisitFails
<1>8. CASE VisitRefused
  BY <1>8, VisitControl DEF VisitRefused
<1>9. CASE RecentDone \/ MediaPass \/ MediaRefused \/ ListRefused \/ ListUnreadable
  BY <1>9 DEF RecentDone, MediaPass, MediaRefused, EndPass, ListRefused, ListUnreadable
<1>10. CASE Notified \/ DelayPasses \/ TokenChanges
  BY <1>10 DEF Notified, DelayPasses, TokenChanges, Wake
<1>11. CASE Crash
  BY <1>11, VisitControl DEF Crash
<1>12. CASE Elsewhere
  BY <1>12 DEF Elsewhere, Cursor!Send, Cursor!RealtimeMessage, Cursor!engineVars
<1>13. CASE UNCHANGED vars
  BY <1>13 DEF vars
<1> QED
  BY <1>1, <1>2, <1>3, <1>4, <1>5, <1>6, <1>7, <1>8, <1>9, <1>10, <1>11, <1>12,
     <1>13
  DEF Next, LoopStep

LEMMA StepIsAVisitStep ==
    ASSUME AwaitInv, [Next]_vars
    PROVE  [Cursor!Next]_(Cursor!vars)
<1> USE DEF cursorVars, Cursor!vars
<1>1. CASE Elsewhere
  BY <1>1 DEF Elsewhere, Cursor!Next
<1>2. ASSUME NEW c \in Conv, NEW tail \in BOOLEAN, NEW pages \in 0 .. CatchupPages,
             Visit(c, tail, pages)
      PROVE  Cursor!Next
  BY <1>2 DEF Visit, Cursor!Next
<1>3. CASE PriorityVisit
  <2>1. Head(drained) \in Conv
    BY <1>3 DEF PriorityVisit, AwaitInv
  <2>2. GentlePages \in 0 .. CatchupPages
    BY CycleAssumption, VisitAssumption DEF Cursor!CursorAssumption
  <2> QED
    BY <1>2, <1>3, <2>1, <2>2 DEF PriorityVisit
<1>4. ASSUME NEW c \in Conv, RecentVisit(c) PROVE Cursor!Next
  <2>1. 0 \in 0 .. CatchupPages
    BY VisitAssumption DEF Cursor!CursorAssumption
  <2> QED
    BY <1>2, <1>4, <2>1 DEF RecentVisit
<1>5. ASSUME NEW c \in Conv, DeepVisit(c) PROVE Cursor!Next
  <2>1. Pages \in 0 .. CatchupPages
    BY CycleAssumption, VisitAssumption DEF Cursor!CursorAssumption, Pages
  <2>2. (swept[c] = "no") \in BOOLEAN
    OBVIOUS
  <2> QED
    BY <1>2, <1>5, <2>1, <2>2 DEF DeepVisit
<1>6. CASE VisitStep
  BY <1>6 DEF VisitStep, Cursor!Next
<1>7. CASE VisitFails \/ VisitRefused
  BY <1>7 DEF VisitFails, VisitRefused, Cursor!Next
<1>8. CASE Crash
  BY <1>8 DEF Crash, Cursor!Next
<1>9. CASE (\E c \in Conv : Push(c)) \/ Notify \/ Start \/ Drain \/ StartCycle
           \/ ListGroups \/ ListChats \/ AskAside \/ AsideRefused
           \/ (\E unread : ReadCursors(unread)) \/ (\E c \in Conv : DeepSkip(c))
  BY <1>9 DEF Push, Notify, Start, Drain, StartCycle, ListGroups, ListChats, AskAside,
              AsideRefused, ReadCursors, Readable, DeepSkip
<1>10. CASE RecentDone \/ MediaPass \/ MediaRefused \/ Notified \/ DelayPasses
            \/ ListRefused \/ ListUnreadable \/ TokenChanges
  BY <1>10 DEF RecentDone, MediaPass, MediaRefused, EndPass, Notified, DelayPasses,
               ListRefused, ListUnreadable, TokenChanges, Wake
<1>11. CASE UNCHANGED vars
  BY <1>11 DEF vars
<1> QED
  BY <1>1, <1>3, <1>4, <1>5, <1>6, <1>7, <1>8, <1>9, <1>10, <1>11
  DEF Next, LoopStep

(***************************************************************************)
(* The loop implements SyncCursor: every step of the loop, its passes, its *)
(* queue and its crashes is a step of one sequential visit, or none.       *)
(***************************************************************************)
THEOREM LoopVisitsAsDescribed == Spec => VisitsAsDescribed
<1>1. Init => Cursor!Init
  BY DEF Init
<1> QED
  BY <1>1, InitAwaitInv, NextAwaitInv, StepIsAVisitStep, PTL
  DEF Spec, VisitsAsDescribed, Cursor!Spec

(***************************************************************************)
(* So the loop leaves no hole between the cursors of any conversation.     *)
(***************************************************************************)
THEOREM LoopLeavesNoHole == Spec => []Cursor!NoHole
<1>1. Cursor!CursorInv => Cursor!NoHole
  BY DEF Cursor!CursorInv
<1> QED
  BY <1>1, LoopVisitsAsDescribed, LiftedInvariant, PTL DEF VisitsAsDescribed

----------------------------------------------------------------------------
(* The wake-up of the loop *)

(***************************************************************************)
(* From the drain to the rest a request in the queue was pushed after the  *)
(* drain, so its notification is still a permit or still to come.          *)
(***************************************************************************)
WakeInv ==
    /\ notifying \in Nat
    /\ loop \notin {"starting", "drain"} /\ queue # <<>> => permit \/ notifying > 0

LEMMA InitWakeInv == Init => WakeInv
  BY DEF Init, WakeInv

LEMMA NextWakeInv == AwaitInv /\ WakeInv /\ [Next]_vars => WakeInv'
<1> SUFFICES ASSUME AwaitInv, WakeInv, [Next]_vars PROVE WakeInv'
  OBVIOUS
<1> USE DEF WakeInv, queueVars
<1>1. ASSUME NEW c \in Conv, Push(c) PROVE WakeInv'
  BY <1>1 DEF Push
<1>2. CASE Notify
  BY <1>2 DEF Notify
<1>3. CASE Start \/ Drain
  BY <1>3 DEF Start, Drain
<1>4. CASE StartCycle \/ ListGroups \/ ListChats \/ AskAside \/ AsideRefused
           \/ (\E unread : ReadCursors(unread))
  BY <1>4 DEF StartCycle, ListGroups, ListChats, AskAside, AsideRefused, ReadCursors,
              Readable
<1>5. CASE Elsewhere \/ PriorityVisit
           \/ \E c \in Conv : RecentVisit(c) \/ DeepVisit(c) \/ DeepSkip(c)
  BY <1>5 DEF Elsewhere, PriorityVisit, RecentVisit, DeepVisit, DeepSkip, Visit
<1>6. CASE RecentDone \/ MediaPass \/ MediaRefused \/ ListRefused \/ ListUnreadable
  BY <1>6 DEF RecentDone, MediaPass, MediaRefused, EndPass, ListRefused,
              ListUnreadable, Finish, GiveUp, EndCycle
<1>7. CASE VisitStep \/ VisitFails \/ VisitRefused
  BY <1>7 DEF VisitStep, VisitFails, VisitRefused, GiveUp, EndCycle
<1>8. CASE Notified \/ DelayPasses
  BY <1>8 DEF Notified, DelayPasses, Wake
<1>9. CASE TokenChanges \/ Crash
  BY <1>9 DEF TokenChanges, Wake, Crash
<1>10. CASE UNCHANGED vars
  BY <1>10 DEF vars
<1> QED
  BY <1>1, <1>2, <1>3, <1>4, <1>5, <1>6, <1>7, <1>8, <1>9, <1>10
  DEF Next, LoopStep

(***************************************************************************)
(* client_sync_now is never left to the delay: a loop that rests while a   *)
(* request waits has a permit to find, or a caller about to leave one.     *)
(***************************************************************************)
THEOREM NoWakeupIsLost == Spec => []NoLostWakeup
<1>1. WakeInv => NoLostWakeup
  BY DEF WakeInv, NoLostWakeup
<1> QED
  BY <1>1, InitAwaitInv, NextAwaitInv, InitWakeInv, NextWakeInv, PTL DEF Spec

----------------------------------------------------------------------------
(* Standing down *)

LEMMA InitStandsDown == Init => StandsDown
  BY DEF Init, StandsDown

LEMMA NextStandsDown == AwaitInv /\ StandsDown /\ [Next]_vars => StandsDown'
<1> SUFFICES ASSUME AwaitInv, StandsDown, [Next]_vars PROVE StandsDown'
  OBVIOUS
<1> USE DEF StandsDown, cursorVars, cycleVars
<1>1. CASE \/ (\E c \in Conv : Push(c)) \/ Notify \/ Start \/ Drain \/ StartCycle
           \/ ListGroups \/ ListChats \/ AskAside \/ AsideRefused
           \/ (\E unread : ReadCursors(unread))
           \/ (\E c \in Conv : DeepSkip(c)) \/ RecentDone
  BY <1>1 DEF Push, Notify, Start, Drain, StartCycle, ListGroups, ListChats, AskAside,
              AsideRefused, ReadCursors, Readable, DeepSkip, RecentDone
<1>2. CASE PriorityVisit \/ (\E c \in Conv : RecentVisit(c) \/ DeepVisit(c))
  BY <1>2 DEF PriorityVisit, RecentVisit, DeepVisit, Visit
<1>3. CASE VisitStep
  BY <1>3, VisitStepOutcome, VisitControl
<1>4. CASE VisitFails
  BY <1>4, VisitControl DEF VisitFails
<1>5. CASE VisitRefused
  BY <1>5, VisitControl DEF VisitRefused, GiveUp, EndCycle
<1>6. CASE MediaPass \/ MediaRefused
  BY <1>6 DEF MediaPass, MediaRefused, EndPass
<1>7. CASE ListRefused \/ ListUnreadable
  BY <1>7 DEF ListRefused, ListUnreadable, GiveUp, EndCycle, AwaitInv
<1>8. CASE Notified \/ DelayPasses \/ TokenChanges
  BY <1>8 DEF Notified, DelayPasses, TokenChanges, Wake
<1>9. CASE Crash
  BY <1>9 DEF Crash
<1>10. CASE Elsewhere
  BY <1>10 DEF Elsewhere, Cursor!Send, Cursor!RealtimeMessage, Cursor!engineVars
<1>11. CASE UNCHANGED vars
  BY <1>11 DEF vars
<1> QED
  BY <1>1, <1>2, <1>3, <1>4, <1>5, <1>6, <1>7, <1>8, <1>9, <1>10, <1>11
  DEF Next, LoopStep

(***************************************************************************)
(* A cycle refused, with 401 or 429, where it asks stand_down is over: no  *)
(* visit is left under way, none begins before the rest ends, and the rest *)
(* is a full one, whatever refusals were only logged on the way there.     *)
(***************************************************************************)
THEOREM RefusedCycleStandsDown == Spec => []StandsDown
  BY InitAwaitInv, NextAwaitInv, InitStandsDown, NextStandsDown, PTL DEF Spec

----------------------------------------------------------------------------
(* Recent everywhere before complete anywhere *)

(***************************************************************************)
(* Why RecentFirst holds: what the first pass has still to do, or failed   *)
(* at, is all that was never tailed, since being tailed is never undone;   *)
(* and a visit of that pass has no budget to walk back with.               *)
(***************************************************************************)
PassInv ==
    /\ loop = "recent" =>
        \A c \in listed : NeverTailed(c) => c \in todo \/ swept[c] = "failed"
    /\ loop = "deep" =>
        \A c \in listed : NeverTailed(c) => swept[c] = "failed"
    /\ loop = "recent" /\ pc # "idle" => phase = "tail" /\ budget = 0
    /\ listed \subseteq Conv
    /\ known \subseteq Conv
    /\ swept \in [Conv -> {"no", "ok", "failed"}]

\* A visit tails its conversation for good, and it touches no other's cursors.
LEMMA TailedForGood ==
    ASSUME Cursor!CursorInv, Cursor!EngineStep
    PROVE  /\ \A c \in Conv : NeverTailed(c)' => NeverTailed(c)
           /\ pc' = "idle" => ~NeverTailed(conv)'
<1> USE DEF NeverTailed, Cursor!CursorInv, Cursor!None, Cursor!Id,
           Cursor!SyncState, Cursor!Page
<1>1. /\ conv \in Conv /\ state = syncState[conv]
      /\ conv' = conv
      /\ syncState \in [Conv -> Cursor!SyncState] /\ page \in Cursor!Page
  BY VisitControl DEF Cursor!TypeOK, Cursor!CopyIsCurrent
<1>2. CASE Cursor!Fetch \/ Cursor!InsertRows
  BY <1>2 DEF Cursor!Fetch, Cursor!InsertRows, Cursor!storeVars
<1>3. CASE Cursor!PutCursors
  <2>1. page.lo >= 1 /\ page.hi >= page.lo
    BY <1>1, <1>3 DEF Cursor!PutCursors, Cursor!PutSyncState, Cursor!PageTouches,
       Cursor!RowsBeforeCursors,
                      Cursor!Empty
  <2>2. Cursor!AdvanceCursors(state, page).newest > 0
    BY <1>1, <2>1 DEF Cursor!AdvanceCursors, Cursor!Greatest
  <2>3. syncState' = [syncState EXCEPT ![conv] = Cursor!AdvanceCursors(state, page)]
    BY <1>3 DEF Cursor!PutCursors, Cursor!PutSyncState
  <2>4. syncState'[conv].newest # 0 /\ \A c \in Conv \ {conv} : syncState'[c] = syncState[c]
    BY <1>1, <2>2, <2>3
  <2> QED
    BY <1>1, <2>4
<1>4. CASE Cursor!EmptyPage
  <2>1. CASE phase = "backfill" \/ Cursor!Seeding
    <3>1. syncState' = [syncState EXCEPT ![conv] = [state EXCEPT !.complete = TRUE]]
      BY <1>4, <2>1 DEF Cursor!EmptyPage, Cursor!PutSyncState
    <3>2. syncState'[conv].complete /\ \A c \in Conv \ {conv} : syncState'[c] = syncState[c]
      BY <1>1, <3>1
    <3> QED
      BY <1>1, <3>2
  <2>2. CASE ~(phase = "backfill" \/ Cursor!Seeding)
    <3>1. syncState' = syncState
      BY <1>4, <2>2 DEF Cursor!EmptyPage, Cursor!PutSyncState
    <3>2. state.newest # 0
      BY <2>2 DEF Cursor!Seeding, Cursor!TypeOK
    <3> QED
      BY <1>1, <3>1, <3>2
  <2> QED
    BY <2>1, <2>2
<1> QED
  BY <1>2, <1>3, <1>4 DEF Cursor!EngineStep

LEMMA TailStaysTail ==
    ASSUME Cursor!EngineStep, phase = "tail", budget = 0, pc' # "idle"
    PROVE  phase' = "tail" /\ budget' = 0
  BY DEF Cursor!EngineStep, Cursor!Fetch, Cursor!InsertRows, Cursor!PutCursors,
     Cursor!PutSyncState,
         Cursor!EmptyPage, Cursor!LeaveTail, Cursor!EndVisit, Cursor!Proceed

LEMMA InitPassInv == Init => PassInv
  BY DEF Init, PassInv

LEMMA NextPassInv ==
    Cursor!CursorInv /\ AwaitInv /\ PassInv /\ [Next]_vars => PassInv'
<1> SUFFICES ASSUME Cursor!CursorInv, AwaitInv, PassInv, [Next]_vars
             PROVE  PassInv'
  OBVIOUS
<1> USE DEF PassInv, cursorVars, cycleVars
<1>0. Groups \subseteq Conv
  BY CycleAssumption
<1>1. CASE (\E c \in Conv : Push(c)) \/ Notify \/ Start \/ Drain \/ StartCycle
  BY <1>1 DEF Push, Notify, Start, Drain, StartCycle, NeverTailed
<1>2. CASE ListGroups \/ ListChats \/ AskAside \/ AsideRefused
  BY <1>0, <1>2 DEF ListGroups, ListChats, AskAside, AsideRefused, NeverTailed
<1>3. CASE \E unread : ReadCursors(unread)
  BY <1>3 DEF ReadCursors, Readable, NeverTailed, AwaitInv
<1>4. CASE PriorityVisit \/ \E c \in Conv : DeepVisit(c)
  BY <1>4 DEF PriorityVisit, DeepVisit, Visit, Cursor!Visit, Cursor!storeVars, NeverTailed
<1>5. ASSUME NEW c \in Conv, RecentVisit(c) PROVE PassInv'
  BY <1>5 DEF RecentVisit, Visit, Cursor!Visit, Cursor!storeVars, NeverTailed
<1>6. ASSUME NEW c \in Conv, DeepSkip(c) PROVE PassInv'
  BY <1>6 DEF DeepSkip, NeverTailed
<1>7. CASE RecentDone
  BY <1>7 DEF RecentDone, NeverTailed, AwaitInv
<1>8. CASE VisitStep
  <2>1. /\ Cursor!EngineStep /\ pc # "idle" /\ conv' = conv
        /\ loop' = loop /\ listed' = listed /\ known' = known
    BY <1>8, VisitControl, VisitStepOutcome DEF VisitStep
  <2>2. conv \in Conv
    BY DEF Cursor!CursorInv, Cursor!TypeOK
  <2>3. /\ \A c \in Conv : NeverTailed(c)' => NeverTailed(c)
        /\ pc' = "idle" => ~NeverTailed(conv)'
    BY <2>1, TailedForGood
  <2>4. swept' \in [Conv -> {"no", "ok", "failed"}]
    BY <1>8, VisitStepOutcome
  <2>5. ASSUME loop = "recent"
        PROVE  \A c \in listed : NeverTailed(c)' => c \in todo' \/ swept'[c] = "failed"
    <3>1. CASE pc' # "idle"
      BY <1>8, <2>3, <2>5, <3>1, VisitStepOutcome
    <3>2. CASE pc' = "idle"
      <4>1. /\ todo' = todo \ {conv}
            /\ swept' = [swept EXCEPT ![conv] = "ok"]
        BY <1>8, <2>5, <3>2, VisitStepOutcome
      <4> QED
        BY <2>1, <2>2, <2>3, <2>5, <3>2, <4>1
    <3> QED
      BY <3>1, <3>2
  <2>6. ASSUME loop = "deep"
        PROVE  \A c \in listed : NeverTailed(c)' => swept'[c] = "failed"
    <3>1. swept' = swept
      BY <1>8, <2>6, VisitStepOutcome
    <3> QED
      BY <2>3, <2>6, <3>1
  <2>7. loop = "recent" /\ pc' # "idle" => phase' = "tail" /\ budget' = 0
    BY <2>1, TailStaysTail
  <2> QED
    BY <2>1, <2>4, <2>5, <2>6, <2>7
<1>9. CASE VisitFails
  <2>1. UNCHANGED <<syncState, loop, listed, known>> /\ pc' = "idle"
    BY <1>9, VisitControl DEF VisitFails, Cursor!VisitFails, Cursor!storeVars
  <2>2. \/ loop \in {"priority", "deep"} /\ swept' = swept
        \/ loop = "recent" /\ todo' = todo \ {conv}
                           /\ swept' = [swept EXCEPT ![conv] = "failed"]
    BY <1>9 DEF VisitFails
  <2> QED
    BY <2>1, <2>2 DEF NeverTailed
<1>10. CASE VisitRefused
  <2>1. CASE loop = "priority"
    BY <1>10, <2>1, VisitControl DEF VisitRefused
  <2>2. CASE loop \in {"recent", "deep"}
    BY <1>10, <2>2, VisitControl DEF VisitRefused, GiveUp, EndCycle, DropLocals
  <2> QED
    BY <1>10, <2>1, <2>2 DEF VisitRefused
<1>11. CASE MediaPass \/ MediaRefused \/ ListRefused \/ ListUnreadable
  BY <1>11 DEF MediaPass, MediaRefused, EndPass, ListRefused, ListUnreadable, Finish,
               GiveUp, EndCycle, DropLocals
<1>12. CASE Notified \/ DelayPasses \/ TokenChanges
  BY <1>12 DEF Notified, DelayPasses, TokenChanges, Wake
<1>13. CASE Crash
  BY <1>13 DEF Crash, DropLocals
<1>14. CASE Elsewhere
  BY <1>14 DEF Elsewhere, Cursor!Send, Cursor!RealtimeMessage, Cursor!storeVars,
               Cursor!engineVars, NeverTailed
<1>15. CASE UNCHANGED vars
  BY <1>15 DEF vars, NeverTailed
<1> QED
  BY <1>1, <1>2, <1>3, <1>4, <1>5, <1>6, <1>7, <1>8, <1>9, <1>10, <1>11, <1>12,
     <1>13, <1>14, <1>15
  DEF Next, LoopStep

(***************************************************************************)
(* While a cycle walks one conversation back, every other it works on was  *)
(* tailed, now or in an earlier cycle, unless its tail has just failed.    *)
(***************************************************************************)
THEOREM RecentBeforeDeep == Spec => []RecentFirst
<1>1. PassInv => RecentFirst
  BY DEF PassInv, RecentFirst
<1> QED
  BY <1>1, LoopVisitsAsDescribed, LiftedInvariant, InitAwaitInv, NextAwaitInv,
     InitPassInv, NextPassInv, PTL
  DEF Spec, VisitsAsDescribed

----------------------------------------------------------------------------
(* Types *)

LoopOK ==
    /\ permit \in BOOLEAN
    /\ loop \in {"starting", "drain", "priority", "groups", "chats", "aside", "list",
                "recent", "deep", "rest"}
    /\ todo \subseteq Conv
    /\ catchingUp \in BOOLEAN
    /\ gained \in BOOLEAN
    /\ progressed \in BOOLEAN
    /\ refused \in {"none", "logged", "pass", "cycle"}
    /\ moreWork \in BOOLEAN
    /\ media \in Nat

LEMMA InitLoopOK == Init => LoopOK
  BY CycleAssumption DEF Init, LoopOK

LEMMA NextLoopOK == LoopOK /\ PassInv /\ [Next]_vars => LoopOK'
<1> SUFFICES ASSUME LoopOK, PassInv, [Next]_vars PROVE LoopOK'
  OBVIOUS
<1> USE DEF LoopOK, queueVars, cycleVars
<1>0. listed \subseteq Conv /\ known \subseteq Conv
  BY DEF PassInv
<1>1. CASE (\E c \in Conv : Push(c)) \/ Notify \/ Start \/ Drain \/ StartCycle
           \/ ListGroups \/ ListChats \/ AskAside \/ AsideRefused
  BY <1>1 DEF Push, Notify, Start, Drain, StartCycle, ListGroups, ListChats, AskAside,
              AsideRefused
<1>2. ASSUME NEW unread, ReadCursors(unread) PROVE LoopOK'
  <2>1. catchingUp' \in BOOLEAN
    BY <1>2 DEF ReadCursors, Readable
  <2> QED
    BY <1>0, <1>2, <2>1 DEF ReadCursors, Readable
<1>3. CASE PriorityVisit \/ (\E c \in Conv : RecentVisit(c) \/ DeepVisit(c))
  BY <1>3 DEF PriorityVisit, RecentVisit, DeepVisit, Visit
<1>4. CASE (\E c \in Conv : DeepSkip(c)) \/ RecentDone
  BY <1>0, <1>4 DEF DeepSkip, RecentDone
<1>5. CASE VisitStep
  <2>1. gained' \in BOOLEAN /\ progressed' \in BOOLEAN
    BY <1>5 DEF VisitStep, VisitOk, Seals
  <2>2. /\ UNCHANGED <<permit, loop, catchingUp, moreWork, media>>
        /\ refused' = "none"
        /\ todo' \subseteq todo
    BY <1>5 DEF VisitStep, VisitOk
  <2> QED
    BY <2>1, <2>2
<1>6. CASE VisitFails
  BY <1>6 DEF VisitFails
<1>7. CASE VisitRefused
  BY <1>7 DEF VisitRefused, GiveUp, EndCycle, DropLocals
<1>8. CASE MediaPass \/ MediaRefused
  <2>1. PICK left \in 0 .. media, readable \in SUBSET listed :
            media' = left /\ Finish(left, readable)
    BY <1>8 DEF MediaPass, MediaRefused, EndPass
  <2>2. moreWork' \in BOOLEAN
    BY <2>1 DEF Finish, EndCycle
  <2>3. loop' = "rest" /\ DropLocals /\ UNCHANGED <<permit, gained>>
    BY <1>8, <2>1 DEF MediaPass, MediaRefused, EndPass, Finish, EndCycle
  <2>6. refused' \in {"none", "logged", "pass", "cycle"}
    BY <1>8 DEF MediaPass, MediaRefused
  <2>4. todo' \subseteq Conv /\ catchingUp' \in BOOLEAN /\ progressed' \in BOOLEAN
    BY <2>3 DEF DropLocals
  <2>5. media' \in Nat
    BY <2>1
  <2> QED
    BY <2>2, <2>3, <2>4, <2>5, <2>6
<1>9. CASE ListRefused \/ ListUnreadable
  BY <1>9 DEF ListRefused, ListUnreadable, GiveUp, EndCycle, DropLocals
<1>10. CASE Notified \/ DelayPasses \/ TokenChanges
  BY <1>10 DEF Notified, DelayPasses, TokenChanges, Wake
<1>11. CASE Crash
  BY <1>11 DEF Crash, DropLocals
<1>12. CASE Elsewhere
  BY <1>12 DEF Elsewhere
<1>13. CASE UNCHANGED vars
  BY <1>13 DEF vars
<1> QED
  BY <1>1, <1>2, <1>3, <1>4, <1>5, <1>6, <1>7, <1>8, <1>9, <1>10, <1>11, <1>12,
     <1>13
  DEF Next, LoopStep

(***************************************************************************)
(* Every variable keeps its type.                                          *)
(***************************************************************************)
THEOREM LoopTypeCorrect == Spec => []TypeOK
<1>1. Cursor!CursorInv /\ AwaitInv /\ WakeInv /\ PassInv /\ LoopOK => TypeOK
  BY DEF Cursor!CursorInv, AwaitInv, WakeInv, PassInv, LoopOK, TypeOK
<1> QED
  BY <1>1, LoopVisitsAsDescribed, LiftedInvariant, InitAwaitInv, NextAwaitInv,
     InitWakeInv, NextWakeInv, InitPassInv, NextPassInv, InitLoopOK, NextLoopOK, PTL
  DEF Spec, VisitsAsDescribed

=============================================================================
