-------------------------- MODULE SyncCursor_proofs --------------------------
(***************************************************************************)
(* Proofs about SyncCursor, for any set of conversations, page limit,      *)
(* backfill budget and initial history.                                    *)
(***************************************************************************)
EXTENDS SyncCursor, TLAPS

USE CursorAssumption DEF None, Id

----------------------------------------------------------------------------
(* Lemmas about pages and cursors *)

(***************************************************************************)
(* Whatever GroupMe answers is a page that touches the cursor it was asked *)
(* with and lies within what exists (Cursor and the page fetches, api.rs). *)
(***************************************************************************)
LEMMA ResponseTouches ==
    ASSUME TypeOK, WindowOK, state = syncState[conv], NEW p \in Response
    PROVE  /\ p \in Page
           /\ 1 <= p.lo
           /\ p.hi <= sent[conv]
           /\ phase = "tail" /\ state.newest # None =>
                state.newest <= p.lo /\ p.lo <= state.newest + 1
           /\ phase = "backfill" /\ state.oldest # None =>
                p.hi = state.oldest - 1 /\ p.lo <= Greatest(1, p.hi)
<1> DEFINE n == sent[conv]
<1>1. n \in Nat /\ state \in SyncState /\ state.newest <= n /\ state.oldest <= state.newest
  BY DEF TypeOK, WindowOK
<1>2. CASE phase = "tail" /\ state.newest # None
  <2>1. PICK h \in Least(state.newest + 1, n) ..
                   Least((IF AfterInclusive THEN state.newest ELSE state.newest + 1)
                            + PageLimit - 1, n) :
            p = [lo |-> IF AfterInclusive THEN state.newest ELSE state.newest + 1, hi |-> h]
    BY <1>2 DEF Response, After
  <2>2. QED
    BY <1>1, <1>2, <2>1 DEF Page, Least, SyncState
<1>3. CASE phase # "tail" /\ state.oldest # None
  <2>1. PICK l \in Greatest(1, state.oldest - PageLimit) .. Greatest(1, state.oldest - 1) :
            p = [lo |-> l, hi |-> state.oldest - 1]
    BY <1>3 DEF Response, Before
  <2>2. QED
    BY <1>1, <1>3, <2>1 DEF Page, Greatest, SyncState
<1>4. CASE \/ phase = "tail" /\ state.newest = None
           \/ phase # "tail" /\ state.oldest = None
  <2>1. PICK l \in Greatest(1, n - PageLimit + 1) .. Greatest(1, n) : p = [lo |-> l, hi |-> n]
    BY <1>4 DEF Response, Latest
  <2>2. QED
    BY <1>1, <1>4, <2>1 DEF Page, Greatest, SyncState
<1> QED
  BY <1>2, <1>3, <1>4

(***************************************************************************)
(* advance_cursors on a page that touches the window: the window grows to  *)
(* cover the page and nothing else (sync.rs, advance_cursors).             *)
(***************************************************************************)
LEMMA AdvanceCovers ==
    ASSUME NEW s \in SyncState, NEW p \in Page, NEW n \in Nat,
           ~Empty(p), 1 <= p.lo, p.hi <= n,
           s.oldest = None <=> s.newest = None,
           s.oldest <= s.newest, s.newest <= n,
           s.newest # None =>
             \/ s.newest <= p.lo /\ p.lo <= s.newest + 1
             \/ p.hi = s.oldest - 1
    PROVE  LET t == AdvanceCursors(s, p)
           IN  /\ t \in SyncState
               /\ t.complete = s.complete
               /\ t.oldest # None /\ t.newest # None
               /\ t.oldest <= t.newest /\ t.newest <= n
               /\ s.newest <= t.newest
               /\ s.oldest # None => t.oldest <= s.oldest
               /\ s.newest # None /\ s.newest <= p.lo => t.oldest = s.oldest
               /\ \A x \in t.oldest .. t.newest :
                    \/ x \in Ids(p)
                    \/ s.newest # None /\ x \in s.oldest .. s.newest
<1>1. /\ AdvanceCursors(s, p).oldest = IF s.oldest = None THEN p.lo ELSE Least(s.oldest, p.lo)
      /\ AdvanceCursors(s, p).newest = Greatest(s.newest, p.hi)
      /\ AdvanceCursors(s, p).complete = s.complete
  BY DEF AdvanceCursors
<1>2. s.oldest \in Nat /\ s.newest \in Nat /\ s.complete \in BOOLEAN
      /\ p.lo \in Nat /\ p.hi \in Nat /\ p.lo <= p.hi
  BY DEF SyncState, Page, Empty
<1>3. AdvanceCursors(s, p) \in SyncState
  BY <1>2 DEF AdvanceCursors, SyncState, Least, Greatest
<1> QED
  BY <1>1, <1>2, <1>3 DEF Least, Greatest, Ids

----------------------------------------------------------------------------
(* The inductive invariant *)

LEMMA InitCursorInv == Init => CursorInv
<1> SUFFICES ASSUME Init PROVE CursorInv
  OBVIOUS
<1>1. TypeOK
  BY DEF Init, TypeOK, SyncState, NoState, Page, NoPage
<1>2. \A c \in Conv : sent[c] \in Nat /\ syncState[c].oldest = 0 /\ syncState[c].newest = 0
  BY DEF Init, NoState
<1>3. WindowOK
  <2> SUFFICES ASSUME NEW c \in Conv
               PROVE  /\ syncState[c].oldest = None <=> syncState[c].newest = None
                      /\ syncState[c].oldest <= syncState[c].newest
                      /\ syncState[c].newest <= sent[c]
    BY DEF WindowOK
  <2>1. sent[c] \in Nat /\ syncState[c].oldest = 0 /\ syncState[c].newest = 0
    BY <1>2
  <2> QED
    BY <2>1
<1> QED
  BY <1>1, <1>2, <1>3 DEF Init, CursorInv, CopyIsCurrent, NoHole, NoState, PageTouches,
                          RowsBeforeCursors, BudgetLeft

\* Every step of the engine that ends a visit, goes on with it or writes the
\* cursors leaves the engine's own variables well typed.
LEMMA ControlTypes ==
    ASSUME TypeOK, NEW s \in SyncState, NEW ph \in {"tail", "backfill"}, NEW b \in Nat,
           \/ EndVisit
           \/ Proceed(ph, b, s)
           \/ LeaveTail(s)
    PROVE  /\ pc' \in {"idle", "request"}
           /\ conv' = conv /\ conv' \in Conv
           /\ phase' \in {"tail", "backfill"}
           /\ budget' \in Nat
           /\ state' \in SyncState
           /\ page' \in Page
           /\ pc' = "request" => state' = s
<1>1. NoState \in SyncState /\ NoPage \in Page
  BY DEF NoState, SyncState, NoPage, Page
<1> QED
  BY <1>1 DEF TypeOK, EndVisit, Proceed, LeaveTail

LEMMA SendStep ==
    ASSUME CursorInv, NEW c \in Conv, Send(c)
    PROVE  CursorInv'
<1> USE DEF CursorInv, Send, storeVars, engineVars
<1>1. /\ sent' \in [Conv -> Nat]
      /\ \A d \in Conv : sent[d] <= sent'[d]
  BY DEF TypeOK
<1>2. TypeOK'
  BY <1>1 DEF TypeOK
<1>3. WindowOK'
  BY <1>1 DEF WindowOK, TypeOK, SyncState
<1>4. CopyIsCurrent' /\ NoHole' /\ RowsBeforeCursors' /\ BudgetLeft'
  BY DEF CopyIsCurrent, NoHole, RowsBeforeCursors, Empty, Ids, BudgetLeft
<1>5. PageTouches'
  BY <1>1 DEF PageTouches, TypeOK, Page
<1> QED
  BY <1>2, <1>3, <1>4, <1>5

LEMMA RealtimeStep ==
    ASSUME CursorInv, NEW c \in Conv, NEW m \in 1 .. sent[c], RealtimeMessage(c, m)
    PROVE  CursorInv'
<1> USE DEF CursorInv, RealtimeMessage, serverVars, engineVars
<1>1. /\ archive' \in [Conv -> SUBSET Nat]
      /\ \A d \in Conv : archive[d] \subseteq archive'[d]
  BY DEF TypeOK
<1>2. TypeOK'
  BY <1>1 DEF TypeOK
<1>3. NoHole'
  BY <1>1 DEF NoHole
<1>4. CopyIsCurrent' /\ WindowOK' /\ PageTouches' /\ BudgetLeft'
  BY DEF CopyIsCurrent, WindowOK, PageTouches, BudgetLeft
<1>5. RowsBeforeCursors'
  BY DEF RowsBeforeCursors
<1> QED
  BY <1>2, <1>3, <1>4, <1>5

LEMMA VisitStep ==
    ASSUME CursorInv, NEW c \in Conv, NEW tail \in BOOLEAN,
           NEW pages \in 0 .. BackfillPages, Visit(c, tail, pages)
    PROVE  CursorInv'
<1> USE DEF CursorInv, Visit, serverVars, storeVars
<1>1. TypeOK'
  BY DEF TypeOK, NoPage, Page
<1>2. CopyIsCurrent' /\ WindowOK' /\ NoHole'
  BY DEF CopyIsCurrent, WindowOK, NoHole
<1>3. PageTouches' /\ RowsBeforeCursors' /\ BudgetLeft'
  BY DEF PageTouches, RowsBeforeCursors, BudgetLeft
<1> QED
  BY <1>1, <1>2, <1>3

LEMMA FetchStep ==
    ASSUME CursorInv, Fetch
    PROVE  CursorInv'
<1> USE DEF CursorInv, Fetch, serverVars, storeVars
<1>1. /\ page' \in Page /\ 1 <= page'.lo /\ page'.hi <= sent[conv]
      /\ phase = "tail" /\ state.newest # None =>
            state.newest <= page'.lo /\ page'.lo <= state.newest + 1
      /\ phase = "backfill" /\ state.oldest # None =>
            page'.hi = state.oldest - 1 /\ page'.lo <= Greatest(1, page'.hi)
  BY ResponseTouches DEF CopyIsCurrent
<1>2. TypeOK'
  BY <1>1 DEF TypeOK
<1>3. CopyIsCurrent' /\ WindowOK' /\ NoHole' /\ BudgetLeft'
  BY DEF CopyIsCurrent, WindowOK, NoHole, BudgetLeft
<1>4. PageTouches'
  BY <1>1 DEF PageTouches, Greatest
<1>5. RowsBeforeCursors'
  BY DEF RowsBeforeCursors
<1> QED
  BY <1>2, <1>3, <1>4, <1>5

LEMMA InsertRowsStep ==
    ASSUME CursorInv, InsertRows
    PROVE  CursorInv'
<1> USE DEF CursorInv, InsertRows, serverVars
<1>0. Ids(page) \subseteq Nat
  BY DEF Ids, TypeOK, Page
<1>1. /\ archive' \in [Conv -> SUBSET Nat]
      /\ \A d \in Conv : archive[d] \subseteq archive'[d]
      /\ Ids(page) \subseteq archive'[conv]
  BY <1>0 DEF TypeOK
<1>2. TypeOK'
  BY <1>1 DEF TypeOK
<1>3. NoHole'
  BY <1>1 DEF NoHole
<1>4. CopyIsCurrent' /\ WindowOK' /\ PageTouches' /\ BudgetLeft'
  BY DEF CopyIsCurrent, WindowOK, PageTouches, Greatest, BudgetLeft
<1>5. RowsBeforeCursors'
  BY <1>1 DEF RowsBeforeCursors, Empty, Ids
<1> QED
  BY <1>2, <1>3, <1>4, <1>5

LEMMA PutCursorsStep ==
    ASSUME CursorInv, PutCursors
    PROVE  CursorInv'
<1> DEFINE next == AdvanceCursors(state, page)
<1> USE DEF CursorInv
<1>1. /\ pc = "inserted" /\ conv \in Conv /\ state = syncState[conv]
      /\ state \in SyncState /\ page \in Page /\ budget \in Nat
      /\ UNCHANGED <<sent, archive>>
      /\ syncState' = [syncState EXCEPT ![conv] = next]
  BY DEF PutCursors, PutSyncState, TypeOK, CopyIsCurrent, serverVars
<1>2. /\ sent[conv] \in Nat /\ ~Empty(page) /\ Ids(page) \subseteq archive[conv]
      /\ 1 <= page.lo /\ page.hi <= sent[conv]
      /\ state.oldest = None <=> state.newest = None
      /\ state.oldest <= state.newest /\ state.newest <= sent[conv]
      /\ state.newest # None =>
            \/ state.newest <= page.lo /\ page.lo <= state.newest + 1
            \/ page.hi = state.oldest - 1
      /\ state.newest # None => state.oldest .. state.newest \subseteq archive[conv]
  BY <1>1 DEF TypeOK, PageTouches, RowsBeforeCursors, WindowOK, NoHole
<1>3. /\ next \in SyncState
      /\ next.oldest # None /\ next.newest # None
      /\ next.oldest <= next.newest /\ next.newest <= sent[conv]
      /\ \A x \in next.oldest .. next.newest :
            x \in Ids(page) \/ (state.newest # None /\ x \in state.oldest .. state.newest)
  BY <1>1, <1>2, AdvanceCovers
<1>4. next.oldest .. next.newest \subseteq archive[conv]
  BY <1>2, <1>3
<1>5. /\ pc' \in {"idle", "request"} /\ conv' = conv
      /\ phase' \in {"tail", "backfill"} /\ budget' \in Nat
      /\ state' \in SyncState /\ page' \in Page
      /\ pc' = "request" => state' = next
      /\ BudgetLeft'
  <2>1. CASE phase = "tail" /\ LeaveTail(next)
    BY <1>1, <1>3, <2>1, ControlTypes DEF BudgetLeft, LeaveTail, EndVisit, Proceed
  <2>2. CASE phase = "tail" /\ Proceed("tail", budget, next)
    BY <1>1, <1>3, <2>2, ControlTypes DEF BudgetLeft, Proceed
  <2>3. CASE phase = "backfill" /\ EndVisit
    BY <1>1, <1>3, <2>3, ControlTypes DEF BudgetLeft, EndVisit
  <2>4. CASE phase = "backfill" /\ budget # 1 /\ Proceed("backfill", budget - 1, next)
    <3>1. budget - 1 \in Nat /\ budget - 1 > 0
      BY <1>1, <2>4 DEF BudgetLeft
    <3> QED
      BY <1>1, <1>3, <2>4, <3>1, ControlTypes DEF BudgetLeft, Proceed
  <2> QED
    BY <2>1, <2>2, <2>3, <2>4 DEF PutCursors, PutSyncState
<1>6. TypeOK'
  BY <1>1, <1>3, <1>5 DEF TypeOK
<1>7. CopyIsCurrent'
  BY <1>1, <1>5 DEF CopyIsCurrent, TypeOK
<1>8. WindowOK'
  BY <1>1, <1>3 DEF WindowOK, TypeOK
<1>9. NoHole'
  BY <1>1, <1>4 DEF NoHole, TypeOK
<1>10. PageTouches' /\ RowsBeforeCursors'
  BY <1>5 DEF PageTouches, RowsBeforeCursors
<1> QED
  BY <1>5, <1>6, <1>7, <1>8, <1>9, <1>10

LEMMA EmptyPageStep ==
    ASSUME CursorInv, EmptyPage
    PROVE  CursorInv'
<1> DEFINE sealed == [state EXCEPT !.complete = TRUE]
<1> USE DEF CursorInv
<1>1. /\ conv \in Conv /\ state = syncState[conv] /\ state \in SyncState
      /\ UNCHANGED <<sent, archive>> /\ budget \in Nat
  BY DEF EmptyPage, PutSyncState, TypeOK, CopyIsCurrent, serverVars
<1>2. /\ sealed \in SyncState /\ sealed.oldest = state.oldest /\ sealed.newest = state.newest
  BY <1>1 DEF SyncState
<1>3. /\ pc' \in {"idle", "request"} /\ conv' = conv
      /\ phase' \in {"tail", "backfill"} /\ budget' \in Nat
      /\ state' \in SyncState /\ page' \in Page
      /\ BudgetLeft'
      /\ \/ pc' = "idle"
         \/ state' = state /\ syncState' = syncState
  <2>1. CASE EndVisit
    BY <1>1, <2>1, ControlTypes DEF BudgetLeft, EndVisit
  <2>2. CASE LeaveTail(state) /\ UNCHANGED syncState
    BY <1>1, <2>2, ControlTypes DEF BudgetLeft, LeaveTail, EndVisit, Proceed
  <2> QED
    BY <2>1, <2>2 DEF EmptyPage, PutSyncState
<1>4. \/ syncState' = [syncState EXCEPT ![conv] = sealed]
      \/ syncState' = syncState
  BY DEF EmptyPage, PutSyncState
<1>5. /\ syncState' \in [Conv -> SyncState]
      /\ \A c \in Conv : /\ syncState'[c].oldest = syncState[c].oldest
                         /\ syncState'[c].newest = syncState[c].newest
  BY <1>1, <1>2, <1>4 DEF TypeOK
<1>6. TypeOK'
  BY <1>1, <1>3, <1>5 DEF TypeOK
<1>7. CopyIsCurrent'
  BY <1>1, <1>3 DEF CopyIsCurrent
<1>8. WindowOK' /\ NoHole'
  BY <1>1, <1>5 DEF WindowOK, NoHole
<1>9. PageTouches' /\ RowsBeforeCursors'
  BY <1>3 DEF PageTouches, RowsBeforeCursors
<1> QED
  BY <1>3, <1>6, <1>7, <1>8, <1>9

LEMMA VisitFailsStep ==
    ASSUME CursorInv, VisitFails
    PROVE  CursorInv'
<1> USE DEF CursorInv, VisitFails, serverVars, storeVars
<1>1. /\ pc' = "idle" /\ conv' \in Conv /\ phase' \in {"tail", "backfill"}
      /\ budget' \in Nat /\ state' \in SyncState /\ page' \in Page
  BY ControlTypes DEF EndVisit, TypeOK, NoState, SyncState
<1>2. TypeOK'
  BY <1>1 DEF TypeOK
<1>3. WindowOK' /\ NoHole'
  BY DEF WindowOK, NoHole
<1>4. CopyIsCurrent' /\ PageTouches' /\ RowsBeforeCursors' /\ BudgetLeft'
  BY <1>1 DEF CopyIsCurrent, PageTouches, RowsBeforeCursors, BudgetLeft
<1> QED
  BY <1>2, <1>3, <1>4

LEMMA NextCursorInv == CursorInv /\ [Next]_vars => CursorInv'
<1> SUFFICES ASSUME CursorInv, [Next]_vars PROVE CursorInv'
  OBVIOUS
<1>1. ASSUME NEW c \in Conv, Send(c) PROVE CursorInv'
  BY <1>1, SendStep
<1>2. ASSUME NEW c \in Conv, NEW m \in 1 .. sent[c], RealtimeMessage(c, m) PROVE CursorInv'
  BY <1>2, RealtimeStep
<1>3. ASSUME NEW c \in Conv, NEW tail \in BOOLEAN, NEW pages \in 0 .. BackfillPages,
             Visit(c, tail, pages)
      PROVE  CursorInv'
  BY <1>3, VisitStep
<1>4. CASE Fetch
  BY <1>4, FetchStep
<1>5. CASE InsertRows
  BY <1>5, InsertRowsStep
<1>6. CASE PutCursors
  BY <1>6, PutCursorsStep
<1>7. CASE EmptyPage
  BY <1>7, EmptyPageStep
<1>8. CASE VisitFails
  BY <1>8, VisitFailsStep
<1>9. CASE UNCHANGED vars
  BY <1>9 DEF vars, CursorInv, TypeOK, CopyIsCurrent, WindowOK, NoHole, PageTouches,
              RowsBeforeCursors, BudgetLeft
<1> QED
  BY <1>1, <1>2, <1>3, <1>4, <1>5, <1>6, <1>7, <1>8, <1>9 DEF Next, EngineStep

(***************************************************************************)
(* The inductive invariant holds in every reachable state.                 *)
(***************************************************************************)
THEOREM CursorInvariant == Spec => []CursorInv
  BY InitCursorInv, NextCursorInv, PTL DEF Spec

(***************************************************************************)
(* Every variable keeps its type.                                          *)
(***************************************************************************)
THEOREM TypeCorrect == Spec => []TypeOK
<1>1. CursorInv => TypeOK
  BY DEF CursorInv
<1> QED
  BY <1>1, CursorInvariant, PTL

(***************************************************************************)
(* The archive has no hole between the two cursors of a conversation,      *)
(* whatever the socket writes and wherever a visit fails (sync.rs,         *)
(* write_page and advance_cursors).                                        *)
(***************************************************************************)
THEOREM NoHoleBetweenCursors == Spec => []NoHole
<1>1. CursorInv => NoHole
  BY DEF CursorInv
<1> QED
  BY <1>1, CursorInvariant, PTL

(***************************************************************************)
(* The copy of the cursors a visit works on is the stored row, across      *)
(* every await (sync.rs, sync_conversation_detail).                        *)
(***************************************************************************)
THEOREM WorkingCopyIsCurrent == Spec => []CopyIsCurrent
<1>1. CursorInv => CopyIsCurrent
  BY DEF CursorInv
<1> QED
  BY <1>1, CursorInvariant, PTL

----------------------------------------------------------------------------
(* backfill_complete, where no conversation starts empty *)

NobodyStartsEmpty == \A c \in Conv : InitialSent[c] > 0

LEMMA InitSealed ==
    ASSUME NobodyStartsEmpty, Init
    PROVE  SealedAtTheStart
  BY DEF NobodyStartsEmpty, Init, SealedAtTheStart, NoState

LEMMA NextSealed ==
    ASSUME CursorInv, SealedAtTheStart, [Next]_vars
    PROVE  SealedAtTheStart'
<1> USE DEF SealedAtTheStart
<1>1. ASSUME NEW c \in Conv, Send(c) PROVE SealedAtTheStart'
  <2>1. \A d \in Conv : sent'[d] > 0
    BY <1>1 DEF Send, CursorInv, TypeOK
  <2> QED
    BY <1>1, <2>1 DEF Send, storeVars, engineVars, Empty
<1>2. ASSUME NEW c \in Conv, NEW m \in 1 .. sent[c], RealtimeMessage(c, m)
      PROVE  SealedAtTheStart'
  BY <1>2 DEF RealtimeMessage, serverVars, engineVars, Empty
<1>3. ASSUME NEW c \in Conv, NEW tail \in BOOLEAN, NEW pages \in 0 .. BackfillPages,
             Visit(c, tail, pages)
      PROVE  SealedAtTheStart'
  BY <1>3 DEF Visit, serverVars, storeVars
<1>4. CASE Fetch
  <2>1. ASSUME state.oldest = None PROVE ~Empty(page')
    <3>1. /\ conv \in Conv /\ state = syncState[conv] /\ sent[conv] \in Nat
          /\ state.newest = None
      BY <1>4, <2>1 DEF Fetch, CursorInv, TypeOK, CopyIsCurrent, WindowOK
    <3>2. page' \in Latest(conv)
      BY <1>4, <2>1, <3>1 DEF Fetch, Response
    <3>3. PICK l \in Greatest(1, sent[conv] - PageLimit + 1) .. Greatest(1, sent[conv]) :
                page' = [lo |-> l, hi |-> sent[conv]]
      BY <3>2 DEF Latest
    <3> QED
      BY <3>1, <3>3 DEF Empty, Greatest
  <2> QED
    BY <1>4, <2>1 DEF Fetch, serverVars, storeVars
<1>5. CASE InsertRows
  BY <1>5 DEF InsertRows, serverVars, Empty
<1>6. CASE PutCursors
  <2> DEFINE next == AdvanceCursors(state, page)
  <2>1. /\ conv \in Conv /\ state = syncState[conv] /\ state \in SyncState
        /\ page \in Page /\ 1 <= page.lo
        /\ syncState' = [syncState EXCEPT ![conv] = next]
        /\ sent' = sent /\ syncState \in [Conv -> SyncState]
    BY <1>6 DEF PutCursors, PutSyncState, CursorInv, TypeOK, CopyIsCurrent,
       PageTouches, serverVars
  <2>2. next.complete => next.oldest = 1
    BY <2>1 DEF AdvanceCursors, Least, SyncState, Page
  <2>3. pc' \in {"idle", "request"}
    BY <1>6 DEF PutCursors, PutSyncState, LeaveTail, EndVisit, Proceed
  <2> QED
    BY <2>1, <2>2, <2>3
<1>7. CASE EmptyPage
  <2>1. /\ conv \in Conv /\ state = syncState[conv] /\ state \in SyncState
        /\ page \in Page /\ syncState \in [Conv -> SyncState] /\ pc = "received"
        /\ sent' = sent /\ Empty(page)
    BY <1>7 DEF EmptyPage, PutSyncState, CursorInv, TypeOK, CopyIsCurrent, serverVars
  <2>2. state.oldest # None /\ state.newest # None
    BY <2>1 DEF CursorInv, WindowOK
  <2>3. pc' \in {"idle", "request"}
    BY <1>7 DEF EmptyPage, PutSyncState, LeaveTail, EndVisit, Proceed
  <2>4. CASE phase = "backfill"
    <3>1. page.hi = state.oldest - 1 /\ page.lo <= Greatest(1, page.hi)
      BY <2>1, <2>2, <2>4 DEF CursorInv, PageTouches
    <3>2. state.oldest = 1
      BY <2>1, <2>2, <3>1 DEF Greatest, Empty, SyncState, Page
    <3>3. syncState' = [syncState EXCEPT ![conv] = [state EXCEPT !.complete = TRUE]]
      BY <1>7, <2>4 DEF EmptyPage, PutSyncState
    <3>4. \A c \in Conv : syncState'[c].oldest = syncState[c].oldest
      BY <2>1, <3>3 DEF SyncState
    <3>5. \A c \in Conv : c # conv => syncState'[c] = syncState[c]
      BY <2>1, <3>3
    <3> QED
      BY <2>1, <2>3, <3>2, <3>4, <3>5
  <2>5. CASE phase # "backfill"
    <3>1. UNCHANGED syncState
      BY <1>7, <2>2, <2>5 DEF EmptyPage, PutSyncState, Seeding
    <3> QED
      BY <2>1, <2>3, <3>1
  <2> QED
    BY <2>4, <2>5
<1>8. CASE VisitFails
  BY <1>8 DEF VisitFails, EndVisit, serverVars, storeVars
<1>9. CASE UNCHANGED vars
  BY <1>9 DEF vars, Empty
<1> QED
  BY <1>1, <1>2, <1>3, <1>4, <1>5, <1>6, <1>7, <1>8, <1>9 DEF Next, EngineStep

(***************************************************************************)
(* Where no conversation is empty when the archive is made, a set          *)
(* backfill_complete means the whole past is held (docs/schema.md, the     *)
(* sync_state table).                                                      *)
(***************************************************************************)
THEOREM CompleteMeansComplete ==
    ASSUME NobodyStartsEmpty
    PROVE  Spec => []CompleteIsComplete
<1>1. Init => SealedAtTheStart
  BY InitSealed
<1>2. CursorInv /\ SealedAtTheStart /\ [Next]_vars => SealedAtTheStart'
  BY NextSealed
<1>3. CursorInv /\ SealedAtTheStart => CompleteIsComplete
  <2> SUFFICES ASSUME CursorInv, SealedAtTheStart, NEW c \in Conv,
                      syncState[c].complete
               PROVE  1 .. syncState[c].newest \subseteq archive[c]
    BY DEF CompleteIsComplete
  <2>1. syncState[c].oldest = 1 /\ syncState[c].newest # None
    BY DEF SealedAtTheStart, CursorInv, WindowOK
  <2> QED
    BY <2>1 DEF CursorInv, NoHole
<1> QED
  BY <1>1, <1>2, <1>3, CursorInvariant, PTL DEF Spec

----------------------------------------------------------------------------
(* What no step may do *)

LEMMA StepForgetsNothing ==
    ASSUME CursorInv, Next, NEW c \in Conv
    PROVE  archive[c] \subseteq archive'[c] /\ ~Forgets(syncState[c], syncState'[c])
<1>1. /\ \A d \in Conv : syncState[d] \in SyncState
      /\ ~Forgets(syncState[c], syncState[c])
  BY DEF CursorInv, TypeOK, SyncState, Forgets
<1>2. CASE UNCHANGED <<archive, syncState>>
  BY <1>1, <1>2
<1>3. ASSUME NEW d \in Conv, NEW m \in 1 .. sent[d], RealtimeMessage(d, m)
      PROVE  archive[c] \subseteq archive'[c] /\ ~Forgets(syncState[c], syncState'[c])
  BY <1>1, <1>3 DEF RealtimeMessage, CursorInv, TypeOK
<1>4. CASE InsertRows
  BY <1>1, <1>4 DEF InsertRows, CursorInv, TypeOK
<1>5. CASE PutCursors
  <2> DEFINE next == AdvanceCursors(state, page)
  <2>1. /\ conv \in Conv /\ state = syncState[conv] /\ state \in SyncState
        /\ page \in Page /\ archive' = archive
        /\ syncState' = [syncState EXCEPT ![conv] = next]
        /\ syncState \in [Conv -> SyncState]
    BY <1>5 DEF PutCursors, PutSyncState, CursorInv, TypeOK, CopyIsCurrent
  <2>2. 1 <= page.lo
    BY <1>5 DEF PutCursors, PutSyncState, CursorInv, PageTouches
  <2>3. ~Forgets(state, next)
    BY <2>1, <2>2 DEF Forgets, AdvanceCursors, SyncState, Page, Least, Greatest
  <2> QED
    BY <1>1, <2>1, <2>3
<1>6. CASE EmptyPage
  <2>1. /\ conv \in Conv /\ state = syncState[conv] /\ state \in SyncState
        /\ archive' = archive /\ syncState \in [Conv -> SyncState]
    BY <1>6 DEF EmptyPage, PutSyncState, CursorInv, TypeOK, CopyIsCurrent
  <2>2. ~Forgets(state, [state EXCEPT !.complete = TRUE])
    BY <2>1 DEF Forgets, SyncState
  <2> QED
    BY <1>1, <1>6, <2>1, <2>2 DEF EmptyPage, PutSyncState
<1> QED
  BY <1>2, <1>3, <1>4, <1>5, <1>6
     DEF Next, EngineStep, Send, Visit, Fetch, VisitFails, storeVars

(***************************************************************************)
(* No step drops a row, moves a cursor inwards or resets backfill_complete *)
(* ("Never reset to 0", docs/schema.md).                                   *)
(***************************************************************************)
THEOREM ForgetsNothing == Spec => NothingForgotten
<1>1. CursorInv /\ [Next]_vars =>
        [\A c \in Conv : /\ archive[c] \subseteq archive'[c]
                         /\ ~Forgets(syncState[c], syncState'[c])]_vars
  BY StepForgetsNothing
<1> QED
  BY <1>1, CursorInvariant, PTL DEF Spec, NothingForgotten

----------------------------------------------------------------------------
(* The refinement of Archive *)

LEMMA StepKeepsThePromise ==
    ASSUME CursorInv, SealedAtTheStart, [Next]_vars
    PROVE  [Claim!Next]_(Claim!vars)
<1> DEFINE window(s) == [c \in Conv |-> [lo |-> s[c].oldest, hi |-> s[c].newest]]
           sealed(s) == [c \in Conv |-> s[c].complete]
<1>1. CASE UNCHANGED <<sent, archive, syncState>>
  BY <1>1 DEF Claim!vars
<1>2. ASSUME NEW c \in Conv, Send(c) PROVE Claim!Next
  BY <1>2 DEF Send, storeVars, Claim!Next, Claim!Send
<1>3. ASSUME NEW c \in Conv, NEW m \in 1 .. sent[c], RealtimeMessage(c, m)
      PROVE  Claim!Next
  <2>1. Claim!Hold(c)
    BY <1>3 DEF RealtimeMessage, serverVars, Claim!Hold
  <2> QED
    BY <2>1 DEF Claim!Next
<1>4. CASE InsertRows
  <2>1. conv \in Conv /\ Ids(page) \in SUBSET (1 .. sent[conv])
    BY <1>4 DEF InsertRows, CursorInv, TypeOK, PageTouches, Ids, Page
  <2>2. Claim!Hold(conv)
    BY <1>4, <2>1 DEF InsertRows, serverVars, Claim!Hold
  <2> QED
    BY <2>1, <2>2 DEF Claim!Next
<1>5. CASE PutCursors
  <2> DEFINE next == AdvanceCursors(state, page)
  <2>1. /\ conv \in Conv /\ state = syncState[conv] /\ state \in SyncState
        /\ page \in Page /\ ~Empty(page) /\ pc = "inserted"
        /\ UNCHANGED <<sent, archive>> /\ sent[conv] \in Nat
        /\ syncState' = [syncState EXCEPT ![conv] = next]
        /\ syncState \in [Conv -> SyncState]
        /\ Ids(page) \subseteq archive[conv]
    BY <1>5 DEF PutCursors, PutSyncState, CursorInv, TypeOK, CopyIsCurrent,
       RowsBeforeCursors, serverVars
  <2>2. /\ 1 <= page.lo /\ page.hi <= sent[conv]
        /\ state.oldest = None <=> state.newest = None
        /\ state.oldest <= state.newest /\ state.newest <= sent[conv]
        /\ state.newest # None =>
              \/ state.newest <= page.lo /\ page.lo <= state.newest + 1
              \/ page.hi = state.oldest - 1
        /\ state.newest # None => state.oldest .. state.newest \subseteq archive[conv]
    BY <2>1 DEF CursorInv, PageTouches, WindowOK, NoHole, TypeOK
  <2>3. /\ next \in SyncState /\ next.complete = state.complete
        /\ next.oldest # None /\ next.newest # None
        /\ next.oldest <= next.newest /\ next.newest <= sent[conv]
        /\ state.newest <= next.newest
        /\ state.oldest # None => next.oldest <= state.oldest
        /\ \A x \in next.oldest .. next.newest :
              x \in Ids(page) \/ (state.newest # None /\ x \in state.oldest .. state.newest)
    BY <2>1, <2>2, AdvanceCovers
  <2>4. /\ next.oldest \in 1 .. sent[conv] /\ next.newest \in 1 .. sent[conv]
        /\ next.oldest .. next.newest \subseteq archive[conv]
        /\ next.oldest <= next.newest
    BY <2>1, <2>2, <2>3 DEF SyncState
  <2>5. /\ window(syncState)[conv] = Claim!NoWindow => ~sealed(syncState)[conv]
        /\ window(syncState)[conv] # Claim!NoWindow =>
                /\ next.oldest <= window(syncState)[conv].lo
                /\ window(syncState)[conv].hi <= next.newest
    <3>1. /\ window(syncState)[conv] = [lo |-> state.oldest, hi |-> state.newest]
          /\ sealed(syncState)[conv] = state.complete
      BY <2>1
    <3>2. state.complete => state.oldest = 1
      BY <2>1 DEF SealedAtTheStart
    <3>3. window(syncState)[conv] = Claim!NoWindow <=> state.oldest = None
      BY <2>1, <2>2, <3>1 DEF Claim!NoWindow, SyncState
    <3> QED
      BY <2>3, <3>1, <3>2, <3>3
  <2>6. /\ window(syncState') = [window(syncState) EXCEPT
                ![conv] = [lo |-> next.oldest, hi |-> next.newest]]
        /\ sealed(syncState') = sealed(syncState)
    BY <2>1, <2>3
  <2>7. Claim!Widen(conv)
    BY <2>1, <2>4, <2>5, <2>6 DEF Claim!Widen
  <2>8. conv \in Conv
    BY <2>1
  <2>9. \E c \in Conv : Claim!Widen(c)
    BY <2>7, <2>8 DEF Claim!Widen
  <2> QED
    BY <2>9 DEF Claim!Next
<1>6. CASE EmptyPage
  <2> DEFINE new == [state EXCEPT !.complete = TRUE]
  <2>1. CASE UNCHANGED syncState
    BY <1>1, <1>6, <2>1 DEF EmptyPage, PutSyncState, serverVars
  <2>2. CASE syncState' = [syncState EXCEPT ![conv] = new]
    <3>1. /\ conv \in Conv /\ state = syncState[conv] /\ state \in SyncState
          /\ UNCHANGED <<sent, archive>> /\ syncState \in [Conv -> SyncState]
      BY <1>6 DEF EmptyPage, PutSyncState, CursorInv, TypeOK, CopyIsCurrent, serverVars
    <3>2. /\ new \in SyncState /\ new.complete = TRUE
          /\ new.oldest = state.oldest /\ new.newest = state.newest
      BY <3>1 DEF SyncState
    <3>3. SealedAtTheStart'
      BY NextSealed
    <3>4. window(syncState)[conv].lo = 1
      <4>1. syncState'[conv] = new
        BY <2>2, <3>1
      <4> QED
        BY <3>1, <3>2, <3>3, <4>1 DEF SealedAtTheStart
    <3>5. /\ window(syncState') = window(syncState)
          /\ sealed(syncState') = [sealed(syncState) EXCEPT ![conv] = TRUE]
      BY <2>2, <3>1, <3>2
    <3>6. Claim!Seal(conv)
      BY <3>1, <3>4, <3>5 DEF Claim!Seal
    <3>7. conv \in Conv
      BY <3>1
    <3>8. \E c \in Conv : Claim!Seal(c)
      BY <3>6, <3>7 DEF Claim!Seal
    <3> QED
      BY <3>8 DEF Claim!Next
  <2>3. UNCHANGED syncState \/ syncState' = [syncState EXCEPT ![conv] = new]
    BY <1>6 DEF EmptyPage, PutSyncState
  <2> QED
    BY <2>1, <2>2, <2>3
<1>7. CASE Fetch
  BY <1>1, <1>7 DEF Fetch, serverVars, storeVars
<1>8. CASE VisitFails
  BY <1>1, <1>8 DEF VisitFails, serverVars, storeVars
<1>9. ASSUME NEW c \in Conv, NEW tail \in BOOLEAN, NEW pages \in 0 .. BackfillPages,
             Visit(c, tail, pages)
      PROVE  [Claim!Next]_(Claim!vars)
  BY <1>1, <1>9 DEF Visit, serverVars, storeVars
<1>10. CASE UNCHANGED vars
  BY <1>1, <1>10 DEF vars
<1> HIDE DEF window, sealed
<1>11. CASE Next
  BY <1>2, <1>3, <1>4, <1>5, <1>6, <1>7, <1>8, <1>9, <1>11 DEF Next, EngineStep
<1> QED
  BY <1>10, <1>11

(***************************************************************************)
(* The engine's rows and cursors implement the archive's promise: what is  *)
(* claimed is held, and claims only grow (sync.rs against docs/schema.md). *)
(***************************************************************************)
THEOREM EngineKeepsThePromise ==
    ASSUME NobodyStartsEmpty
    PROVE  Spec => KeepsThePromise
<1>1. Init => Claim!Init
  BY DEF Init, Claim!Init, NoState, Claim!NoWindow
<1>2. Init => SealedAtTheStart
  BY InitSealed
<1>3. CursorInv /\ SealedAtTheStart /\ [Next]_vars => SealedAtTheStart'
  BY NextSealed
<1>4. CursorInv /\ SealedAtTheStart /\ [Next]_vars => [Claim!Next]_(Claim!vars)
  BY StepKeepsThePromise
<1> QED
  BY <1>1, <1>2, <1>3, <1>4, CursorInvariant, PTL DEF Spec, KeepsThePromise, Claim!Spec
=============================================================================
