----------------------- MODULE MessageContent_proofs -----------------------
(***************************************************************************)
(* What TLAPS proves of MessageContent, for any page limit, budget, first  *)
(* posts and division into days, and with copies of any age.               *)
(***************************************************************************)
EXTENDS MessageContent, WellFoundedInduction, TLAPS

\* The cursors' own theorems, about the visits to Thread.
P == INSTANCE SyncCursor_proofs WITH
    Conv <- {Thread}, InitialSent <- [c \in {Thread} |-> Len(InitialLog)]

----------------------------------------------------------------------------
(* The cursors are those of SyncCursor *)

LEMMA SameModule ==
    /\ Cursor!Init <=> P!Init
    /\ [Cursor!Next]_(Cursor!vars) <=> [P!Next]_(P!vars)
    /\ Cursor!CursorInv <=> P!CursorInv
<1> USE DEF
         Cursor!None, P!None, Cursor!Id, P!Id, Cursor!SyncState, P!SyncState,
         Cursor!NoState, P!NoState, Cursor!Page, P!Page,
         Cursor!NoPage, P!NoPage, Cursor!Ids, P!Ids, Cursor!Empty, P!Empty,
         Cursor!Length, P!Length, Cursor!Least, P!Least,
         Cursor!Greatest, P!Greatest, Cursor!Latest, P!Latest,
         Cursor!Before, P!Before, Cursor!After, P!After,
         Cursor!Seeding, P!Seeding, Cursor!Response, P!Response,
         Cursor!AdvanceCursors, P!AdvanceCursors, Cursor!EndVisit, P!EndVisit,
         Cursor!Proceed, P!Proceed, Cursor!LeaveTail, P!LeaveTail,
         Cursor!serverVars, P!serverVars, Cursor!storeVars, P!storeVars,
         Cursor!engineVars, P!engineVars, Cursor!vars, P!vars
<1>1. Cursor!Init <=> P!Init
  BY DEF Cursor!Init, P!Init
<1>2. \A c : Cursor!Send(c) <=> P!Send(c)
  BY DEF Cursor!Send, P!Send
<1>3. \A c, m : Cursor!RealtimeMessage(c, m) <=> P!RealtimeMessage(c, m)
  BY DEF Cursor!RealtimeMessage, P!RealtimeMessage
<1>4. \A c, tail, pages : Cursor!Visit(c, tail, pages) <=> P!Visit(c, tail, pages)
  BY DEF Cursor!Visit, P!Visit
<1>5. Cursor!EngineStep <=> P!EngineStep
  <2>1. Cursor!Fetch <=> P!Fetch
    BY DEF Cursor!Fetch, P!Fetch
  <2>2. Cursor!InsertRows <=> P!InsertRows
    BY DEF Cursor!InsertRows, P!InsertRows
  <2>3. Cursor!PutCursors <=> P!PutCursors
    BY DEF Cursor!PutCursors, Cursor!PutSyncState, P!PutCursors, P!PutSyncState
  <2>4. Cursor!EmptyPage <=> P!EmptyPage
    BY DEF Cursor!EmptyPage, Cursor!PutSyncState, P!EmptyPage, P!PutSyncState
  <2> QED
    BY <2>1, <2>2, <2>3, <2>4 DEF Cursor!EngineStep, P!EngineStep
<1>6. Cursor!VisitFails <=> P!VisitFails
  BY DEF Cursor!VisitFails, P!VisitFails
<1>7. Cursor!Next <=> P!Next
  BY <1>2, <1>3, <1>4, <1>5, <1>6 DEF Cursor!Next, P!Next
<1>8. Cursor!CursorInv <=> P!CursorInv
  BY DEF Cursor!CursorInv, P!CursorInv, Cursor!TypeOK, P!TypeOK,
         Cursor!CopyIsCurrent, P!CopyIsCurrent, Cursor!WindowOK, P!WindowOK,
         Cursor!NoHole, P!NoHole, Cursor!PageTouches, P!PageTouches,
         Cursor!RowsBeforeCursors, P!RowsBeforeCursors,
         Cursor!BudgetLeft, P!BudgetLeft
<1> QED
  BY <1>1, <1>7, <1>8

LEMMA StepIsACursorStep ==
    Target \in 1 .. sent[Thread] /\ [Next]_vars => [Cursor!Next]_(Cursor!vars)
<1> SUFFICES ASSUME Target \in 1 .. sent[Thread], [Next]_vars
             PROVE  [Cursor!Next]_(Cursor!vars)
  OBVIOUS
<1> USE DEF Cursor!Next, Cursor!EngineStep
<1>1. ASSUME NEW kind \in Kind, Post(kind) PROVE Cursor!Next
  BY <1>1 DEF Post
<1>2. ASSUME NEW m \in 1 .. sent[Thread], Frame(m) PROVE Cursor!Next
  BY <1>2 DEF Frame
<1>3. ASSUME NEW tail \in BOOLEAN, NEW pages \in 0 .. BackfillPages, Visit(tail, pages)
      PROVE  Cursor!Next
  BY <1>3 DEF Visit
<1>4. CASE Fetch \/ InsertRows \/ PutCursors \/ EmptyPage \/ VisitFails
  BY <1>4 DEF Fetch, InsertRows, PutCursors, EmptyPage, VisitFails
<1>5. CASE ApplyEvents \/ MirrorDelete \/ UNCHANGED vars
  BY <1>5 DEF ApplyEvents, MirrorDelete, vars, cursorVars, Cursor!vars
<1>6. ASSUME NEW n \in 1 .. Len(log), WholeCopy(n) PROVE Cursor!Next
  BY <1>6 DEF WholeCopy
<1> QED
  BY <1>1, <1>2, <1>3, <1>4, <1>5, <1>6 DEF Next

\* Nobody takes a post back, so Target stays posted.
TargetPosted ==
    /\ sent \in [{Thread} -> Nat]
    /\ Target \in 1 .. sent[Thread]

LEMMA TargetIsPosted == Spec => []TargetPosted
<1>1. Init => TargetPosted
  BY ContentAssumption DEF Init, Cursor!Init, TargetPosted
<1>2. TargetPosted /\ [Next]_vars => TargetPosted'
  <2> SUFFICES ASSUME TargetPosted, [Next]_vars PROVE TargetPosted'
    OBVIOUS
  <2>1. [Cursor!Next]_(Cursor!vars)
    BY StepIsACursorStep DEF TargetPosted
  <2>2. sent' = sent \/ \E c \in {Thread} : sent' = [sent EXCEPT ![c] = @ + 1]
    BY <2>1
    DEF Cursor!Next, Cursor!EngineStep, Cursor!Send, Cursor!RealtimeMessage,
        Cursor!Visit, Cursor!Fetch, Cursor!InsertRows, Cursor!PutCursors,
        Cursor!PutSyncState, Cursor!EmptyPage, Cursor!VisitFails, Cursor!serverVars,
        Cursor!vars
  <2> QED
    BY <2>2 DEF TargetPosted
<1> QED
  BY <1>1, <1>2, PTL DEF Spec

LEMMA CursorsAsDescribed == Spec => []Cursor!CursorInv
<1>1. P!CursorAssumption
  BY VisitAssumption DEF Cursor!CursorAssumption, P!CursorAssumption
<1>2. P!Spec => []P!CursorInv
  BY <1>1, P!CursorInvariant
<1>3. Init => P!Init
  BY SameModule DEF Init
<1>4. TargetPosted /\ [Next]_vars => [P!Next]_(P!vars)
  BY SameModule, StepIsACursorStep DEF TargetPosted
<1>5. P!CursorInv => Cursor!CursorInv
  BY SameModule
<1> QED
  BY <1>2, <1>3, <1>4, <1>5, TargetIsPosted, PTL DEF Spec, P!Spec

----------------------------------------------------------------------------
(* Data *)

\* LatestOf finds the last of some positions of the log.
LEMMA LatestIsThere ==
    ASSUME NEW n \in Nat, NEW S \in SUBSET (1 .. n), S # {}
    PROVE  LatestOf(S) \in S /\ LatestOf(S) \in Nat
<1> DEFINE T == {n - s : s \in S}
<1>1. T \subseteq Nat /\ T # {}
  <2>1. \A s \in S : s \in Int /\ n - s \in Nat
    OBVIOUS
  <2>2. T # {}
    OBVIOUS
  <2> QED
    BY <2>1, <2>2
<1>2. PICK x \in T : \A y \in T : <<y, x>> \notin OpToRel(<, Nat)
  <2> HIDE DEF T
  <2> QED
    BY <1>1, NatLessThanWellFounded, WFMin
<1>3. PICK p \in S : x = n - p
  BY <1>2
<1>4. \A q \in S : q <= p
  <2> SUFFICES ASSUME NEW q \in S, ~(q <= p) PROVE FALSE
    OBVIOUS
  <2>1. n - q \in T /\ n - q \in Nat /\ x \in Nat /\ n - q < x
    BY <1>3
  <2>2. <<n - q, x>> \in OpToRel(<, Nat)
    BY <2>1 DEF OpToRel
  <2> QED
    BY <1>2, <2>1, <2>2
<1>5. LatestOf(S) \in S
  BY <1>4 DEF LatestOf
<1>6. \A s \in S : s \in Nat
  OBVIOUS
<1> QED
  BY <1>5, <1>6, Zenon

LEMMA LatestOfOne == \A p \in Nat : LatestOf({p}) = p
  BY DEF LatestOf

\* What a post does to the log: one more event, at a position nobody knew.
LEMMA PostEvents ==
    ASSUME log \in Seq(Kind), NEW kind \in Kind, Post(kind)
    PROVE  /\ log' \in Seq(Kind)
           /\ Len(log') = Len(log) + 1
           /\ \A k \in Kind : Events(k)' =
                IF k = kind THEN Events(k) \cup {Len(log) + 1} ELSE Events(k)
           /\ IsDeleted => kind = "post"
  BY DEF Post, Events, Kind

LEMMA EventsAreThere ==
    ASSUME log \in Seq(Kind)
    PROVE  \A k : Events(k) \in SUBSET (1 .. Len(log))
  BY DEF Events

\* What any answer says of the target, by what happened to it.
LEMMA ContentSays ==
    ASSUME log \in Seq(Kind)
    PROVE  /\ \A n : ContentAt(n) \in ContentOf
           /\ Content.deleted = IsDeleted
           /\ \A p \in Events("edit") :
                Events("edit") = {p} /\ ~IsDeleted => Content.text = p
<1> DEFINE changes == Events("edit") \cup Events("delete")
<1>1. changes \in SUBSET (1 .. Len(log)) /\ Len(log) \in Nat
  BY EventsAreThere
<1>2. ASSUME NEW n PROVE ContentAt(n) \in ContentOf
  <2> DEFINE seen == {p \in changes : p <= n}
  <2>1. \A k \in Nat : \A S \in SUBSET (1 .. k) : S # {} => LatestOf(S) \in Nat
    BY LatestIsThere
  <2>2. (IF seen = {} THEN 0 ELSE LatestOf(seen)) \in Nat
    <3>1. seen \in SUBSET (1 .. Len(log))
      BY <1>1
    <3> HIDE DEF seen
    <3> QED
      BY <1>1, <2>1, <3>1
  <2>3. ContentAt(n) = [text |-> IF seen = {} THEN 0 ELSE LatestOf(seen),
                        deleted |-> \E p \in Events("delete") : p <= n]
    BY DEF ContentAt
  <2> HIDE DEF seen
  <2> QED
    BY <2>2, <2>3 DEF ContentOf
<1>3. /\ \A p \in changes : p <= Len(log)
      /\ \A p \in Events("delete") : p <= Len(log)
  BY <1>1
<1>4. ASSUME NEW p \in Events("edit"), Events("edit") = {p}, ~IsDeleted
      PROVE  changes = {p} /\ p \in Nat
  BY <1>1, <1>4 DEF IsDeleted
<1>5. Content = [text |-> IF changes = {} THEN 0 ELSE LatestOf(changes),
                 deleted |-> IsDeleted]
  <2>1. {p \in changes : p <= Len(log)} = changes
    BY <1>3
  <2>2. (\E p \in Events("delete") : p <= Len(log)) <=> IsDeleted
    BY <1>3 DEF IsDeleted
  <2> QED
    BY <2>1, <2>2 DEF Content, ContentAt, IsDeleted
<1>6. Content.deleted = IsDeleted
  BY <1>5
<1>8. ASSUME NEW p \in Events("edit"), Events("edit") = {p}, ~IsDeleted
      PROVE  Content.text = p
  <2>1. changes = {p} /\ p \in Nat
    BY <1>4, <1>8
  <2> HIDE DEF changes
  <2> QED
    BY <1>5, <2>1, LatestOfOne
<1> QED
  BY <1>2, <1>6, <1>8

----------------------------------------------------------------------------
(* The invariant *)

(***************************************************************************)
(* What a page in hand has seen: as the cursors do not move while it is in *)
(* hand, whatever they enclose was there when the answer was made.  So the *)
(* content it shows of the target is not older than any change enclosed.   *)
(***************************************************************************)
SnapshotKnows ==
    pc \in {"received", "inserted"} /\ Target \in Cursor!Ids(page) =>
        /\ \A p \in Events("delete") : InWindow(p) => snapshot.deleted
        /\ \A p \in Events("edit") :
            InWindow(p) /\ Events("edit") = {p} /\ ~IsDeleted => snapshot.text = p

\* What a page whose events are applied left in the row, before its cursors
\* are written: the cursors may then enclose those events too.
AppliedKnows ==
    applied =>
        /\ pc = "inserted"
        /\ \A p \in Events("delete") \cap Cursor!Ids(page) :
            Held => row.deleted /\ row.column
        /\ \A p \in Events("edit") \cap Cursor!Ids(page) :
            Held /\ Events("edit") = {p} /\ ~IsDeleted => row.text = p

\* Between its rows and its cursors, a page that holds Target has left in the
\* column every deletion the cursors enclose.
ColumnKnows ==
    pc = "inserted" /\ Target \in Cursor!Ids(page) =>
        /\ Held
        /\ \A p \in Events("delete") : InWindow(p) => row.column

\* The socket and the pages bring only what was posted, and what is counted
\* was brought.
RowsWerePosted ==
    /\ archive[Thread] \subseteq 1 .. sent[Thread]
    /\ counted \subseteq archive[Thread]

ContentInv ==
    /\ TypeOK
    /\ SnapshotKnows
    /\ AppliedKnows
    /\ ColumnKnows
    /\ RowsWerePosted
    /\ WindowKnowsDeletion
    /\ OneEditIsKept
    /\ SameDayIsCounted

LEMMA ThreadState ==
    ASSUME Cursor!CursorInv
    PROVE  /\ conv = Thread
           /\ sent[Thread] \in Nat
           /\ archive[Thread] \in SUBSET Nat
           /\ syncState[Thread].oldest \in Nat
           /\ syncState[Thread].newest \in Nat
           /\ syncState[Thread].oldest <= syncState[Thread].newest
           /\ syncState[Thread].newest <= sent[Thread]
           /\ Cursor!TypeOK
  BY DEF Cursor!CursorInv, Cursor!TypeOK, Cursor!WindowOK, Cursor!SyncState, Cursor!Id

\* The cursors enclose no message that has no row.
LEMMA TargetInWindowIsHeld ==
    ASSUME Cursor!CursorInv, InWindow(Target)
    PROVE  Held
<1>1. syncState[Thread].newest # 0 /\ Target \in Nat
  BY ThreadState, ContentAssumption DEF InWindow
<1> QED
  BY <1>1, ThreadState DEF InWindow, Held, Cursor!CursorInv, Cursor!NoHole, Cursor!None

LEMMA InitContentInv == Init => ContentInv
<1> SUFFICES ASSUME Init PROVE ContentInv
  OBVIOUS
<1>1. /\ sent = [c \in {Thread} |-> Len(InitialLog)]
      /\ archive = [c \in {Thread} |-> {}]
      /\ pc = "idle"
      /\ log = InitialLog /\ snapshot = Unknown /\ applied = FALSE
      /\ row = NoRow /\ stale = FALSE /\ counted = {}
  BY DEF Init, Cursor!Init
<1>2. Cursor!TypeOK
  BY SameModule, P!InitCursorInv, ContentAssumption, VisitAssumption
  DEF Init, Cursor!CursorInv, P!CursorAssumption, Cursor!CursorAssumption
<1>3. TypeOK
  BY <1>1, <1>2, ContentAssumption DEF TypeOK, Unknown, NoRow, ContentOf
<1>4. Events("delete") = {} /\ Events("edit") = {} /\ ~Held
  BY <1>1, ContentAssumption DEF Events, Held
<1>5. SnapshotKnows /\ AppliedKnows /\ ColumnKnows
  BY <1>1 DEF SnapshotKnows, AppliedKnows, ColumnKnows
<1>6. RowsWerePosted
  BY <1>1 DEF RowsWerePosted
<1>7. WindowKnowsDeletion /\ OneEditIsKept /\ SameDayIsCounted
  BY <1>4 DEF WindowKnowsDeletion, OneEditIsKept, SameDayIsCounted
<1> QED
  BY <1>3, <1>5, <1>6, <1>7 DEF ContentInv

LEMMA PostStep ==
    ASSUME ContentInv, Cursor!CursorInv, Cursor!CursorInv',
           NEW kind \in Kind, Post(kind)
    PROVE  ContentInv'
<1>1. /\ log \in Seq(Kind) /\ Len(log) = sent[Thread] /\ Len(log) \in Nat
      /\ log' \in Seq(Kind) /\ Len(log') = Len(log) + 1
      /\ IsDeleted => kind = "post"
      /\ \A k \in Kind : Events(k) \in SUBSET (1 .. Len(log))
      /\ \A k \in Kind : Events(k)' =
            IF k = kind THEN Events(k) \cup {Len(log) + 1} ELSE Events(k)
  BY PostEvents, EventsAreThere DEF ContentInv, TypeOK
<1>2. /\ sent' = [sent EXCEPT ![Thread] = @ + 1]
      /\ UNCHANGED <<archive, syncState, pc, conv, phase, budget, state, page,
                     snapshot, applied, row, stale, counted>>
  BY DEF Post, Cursor!Send, Cursor!storeVars, Cursor!engineVars
<1>3. sent'[Thread] = sent[Thread] + 1
  BY <1>2 DEF ContentInv, TypeOK, Cursor!TypeOK
<1>4. /\ {"edit", "delete"} \subseteq Kind
      /\ IsDeleted => IsDeleted'
  BY <1>1 DEF Kind, IsDeleted
<1> DEFINE new == Len(log) + 1
<1>5. ~InWindow(new) /\ new \notin archive[Thread] /\ new \notin counted
  BY <1>1, ThreadState DEF InWindow, ContentInv, RowsWerePosted
<1>6. pc \in {"received", "inserted"} => new \notin Cursor!Ids(page)
  BY <1>1, ThreadState
  DEF Cursor!CursorInv, Cursor!PageTouches, Cursor!TypeOK, Cursor!Page, Cursor!Ids
<1>7. /\ \A p : InWindow(p)' = InWindow(p)
      /\ Held' = Held
  BY <1>2 DEF InWindow, Held
<1>8. \A p \in Events("delete")' : p \in Events("delete") \/ p = new
  BY <1>1, <1>4
<1>9. \A p \in Events("edit")' : p \in Events("edit") \/ p = new
  BY <1>1, <1>4
<1>10. \A p : p # new /\ Events("edit")' = {p} => Events("edit") = {p}
  BY <1>1, <1>4
<1>11. TypeOK'
  BY <1>1, <1>2, <1>3, ThreadState DEF ContentInv, TypeOK, Cursor!CursorInv
<1>12. SnapshotKnows'
  BY <1>2, <1>4, <1>5, <1>7, <1>8, <1>9, <1>10
  DEF ContentInv, SnapshotKnows
<1>13. AppliedKnows'
  BY <1>2, <1>4, <1>6, <1>7, <1>8, <1>9, <1>10 DEF ContentInv, AppliedKnows
<1>17. ColumnKnows'
  BY <1>2, <1>5, <1>7, <1>8 DEF ContentInv, ColumnKnows
<1>14. RowsWerePosted'
  BY <1>1, <1>2, <1>3 DEF ContentInv, RowsWerePosted
<1>15. WindowKnowsDeletion' /\ OneEditIsKept'
  BY <1>2, <1>4, <1>5, <1>7, <1>8, <1>9, <1>10
  DEF ContentInv, WindowKnowsDeletion, OneEditIsKept
<1>16. SameDayIsCounted'
  BY <1>2, <1>5, <1>7, <1>8 DEF ContentInv, SameDayIsCounted
<1> QED
  BY <1>11, <1>12, <1>13, <1>14, <1>15, <1>16, <1>17 DEF ContentInv

RowOf == [text: Nat, deleted: BOOLEAN, column: BOOLEAN]

\* insert_messages shows what it is given; the column keeps a deletion.
LEMMA InsertSays ==
    ASSUME NEW r \in RowOf, NEW held \in BOOLEAN, NEW c \in ContentOf
    PROVE  /\ Insert(r, held, c) \in RowOf
           /\ Insert(r, held, c).text = c.text
           /\ Insert(r, held, c).deleted = c.deleted
           /\ c.deleted => Insert(r, held, c).column
           /\ held /\ r.column => Insert(r, held, c).column
  BY DEF Insert, RowOf, ContentOf

\* apply_event never takes a deletion back, and sets the text of the one edit.
LEMMA ApplySays ==
    ASSUME log \in Seq(Kind), NEW r \in RowOf, NEW S
    PROVE  /\ Apply(r, S) \in RowOf
           /\ r.deleted => Apply(r, S).deleted
           /\ r.column => Apply(r, S).column
           /\ S \cap Events("delete") # {} => Apply(r, S).deleted /\ Apply(r, S).column
           /\ \A p \in Events("edit") : Events("edit") = {p} /\ ~IsDeleted =>
                Apply(r, S).text = IF p \in S THEN p ELSE r.text
<1> DEFINE edits     == S \cap Events("edit")
           deletions == S \cap Events("delete")
           edited    == IF edits = {} THEN r ELSE [r EXCEPT !.text = LatestOf(edits)]
<1>1. Events("edit") \in SUBSET (1 .. Len(log)) /\ Len(log) \in Nat
  BY EventsAreThere
<1>2. edits # {} => LatestOf(edits) \in Nat
  <2>1. \A n \in Nat : \A T \in SUBSET (1 .. n) : T # {} => LatestOf(T) \in Nat
    BY LatestIsThere
  <2> QED
    BY <1>1, <2>1
<1>3. /\ edited \in RowOf
      /\ edited.deleted = r.deleted /\ edited.column = r.column
      /\ edited.text = IF edits = {} THEN r.text ELSE LatestOf(edits)
  <2> HIDE DEF edits
  <2> QED
    BY <1>2 DEF RowOf
<1>4. Apply(r, S) = IF deletions = {} THEN edited
                    ELSE [edited EXCEPT !.deleted = TRUE, !.column = TRUE]
  BY DEF Apply
<1>5. ASSUME NEW p \in Events("edit"), Events("edit") = {p}, ~IsDeleted
      PROVE  /\ deletions = {}
             /\ p \in S => edits = {p}
             /\ p \notin S => edits = {}
             /\ p \in Nat
  BY <1>1, <1>5 DEF IsDeleted
<1>6. ASSUME NEW p \in Events("edit"), Events("edit") = {p}, ~IsDeleted
      PROVE  Apply(r, S).text = IF p \in S THEN p ELSE r.text
  <2>1. /\ deletions = {} /\ p \in Nat
        /\ p \in S => edits = {p}
        /\ p \notin S => edits = {}
    BY <1>5, <1>6
  <2> HIDE DEF edits, deletions, edited
  <2> QED
    BY <1>3, <1>4, <2>1, LatestOfOne
<1>7. /\ Apply(r, S) \in RowOf
      /\ r.deleted => Apply(r, S).deleted
      /\ r.column => Apply(r, S).column
      /\ deletions # {} => Apply(r, S).deleted /\ Apply(r, S).column
  <2> HIDE DEF edits, deletions, edited
  <2> QED
    BY <1>3, <1>4 DEF RowOf
<1> QED
  BY <1>6, <1>7

\* A recount of the days of S is right for every deletion of its target's day.
LEMMA RecountStep ==
    ASSUME SameDayIsCounted, RowsWerePosted, counted \in SUBSET Nat,
           log \in Seq(Kind), NEW S,
           archive'[Thread] = archive[Thread] \cup S,
           counted' = Recount(S, archive[Thread] \cup S),
           log' = log
    PROVE  /\ SameDayIsCounted' /\ counted' \in SUBSET Nat
           /\ counted' \subseteq archive'[Thread]
<1> DEFINE rows == archive[Thread] \cup S
           days == {Day[p] : p \in S}
<1>1. counted' = {p \in counted : Day[p] \notin days}
                 \cup {p \in rows \cap Events("delete") :
                            IsGroup /\ Day[p] \in days /\ Target \in rows}
  BY DEF Recount
<1>2. Events("delete")' = Events("delete") /\ Events("delete") \in SUBSET Nat
  BY EventsAreThere DEF Events
<1>3. ASSUME IsGroup, NEW p \in Events("delete")', Day[p] = Day[Target]
      PROVE  p \in counted' <=> Held' /\ p \in archive'[Thread]
  <2>1. /\ p \in Events("delete")
        /\ Held' <=> Target \in rows
        /\ p \in archive'[Thread] <=> p \in rows
    BY <1>2, <1>3 DEF Held
  <2>2. CASE Day[p] \in days
    BY <1>1, <1>3, <2>1, <2>2
  <2>3. CASE Day[p] \notin days
    <3>1. p \notin S /\ Target \notin S
      BY <1>3, <2>3
    <3>2. p \in counted <=> Held /\ p \in archive[Thread]
      BY <1>3, <2>1 DEF SameDayIsCounted
    <3>3. p \in counted' <=> p \in counted
      BY <1>1, <2>3
    <3> QED
      BY <2>1, <3>1, <3>2, <3>3 DEF Held
  <2> QED
    BY <2>2, <2>3
<1>4. SameDayIsCounted'
  BY <1>3 DEF SameDayIsCounted
<1>5. counted' \subseteq archive'[Thread]
  BY <1>1 DEF RowsWerePosted
<1>6. counted' \in SUBSET Nat
  BY <1>1, <1>2
<1> QED
  BY <1>4, <1>5, <1>6

----------------------------------------------------------------------------
(* The steps *)

\* A step that leaves content and cursors alone and drops what it had in hand.
LEMMA QuietStep ==
    ASSUME ContentInv, Cursor!CursorInv', pc' # "inserted",
           UNCHANGED <<sent, archive, log, row, stale, counted>>,
           applied' = FALSE,
           snapshot' \in ContentOf,
           \A p : InWindow(p)' = InWindow(p),
           SnapshotKnows'
    PROVE  ContentInv'
<1>1. /\ \A k : Events(k)' = Events(k)
      /\ IsDeleted' = IsDeleted /\ Held' = Held
  BY DEF Events, IsDeleted, Held, ContentInv
<1>2. TypeOK'
  BY DEF ContentInv, TypeOK, Cursor!CursorInv
<1>3. AppliedKnows' /\ ColumnKnows' /\ RowsWerePosted' /\ SameDayIsCounted'
  BY <1>1 DEF ContentInv, AppliedKnows, ColumnKnows, RowsWerePosted, SameDayIsCounted
<1>4. WindowKnowsDeletion' /\ OneEditIsKept'
  BY <1>1 DEF ContentInv, WindowKnowsDeletion, OneEditIsKept
<1> QED
  BY <1>2, <1>3, <1>4 DEF ContentInv

\* A row that comes outside the poller: what holds of any such write.
LEMMA SocketWrite ==
    ASSUME ContentInv, Cursor!CursorInv, Cursor!CursorInv',
           NEW m \in 1 .. sent[Thread], Cursor!RealtimeMessage(Thread, m),
           counted' = Recount({m}, archive[Thread] \cup {m}),
           UNCHANGED <<log, snapshot, applied>>,
           row' \in RowOf, stale' \in BOOLEAN,
           Held /\ row.column => row'.column,
           \A p \in Events("delete") :
                InWindow(p) /\ Held' /\ ~stale' => row'.column /\ row'.deleted,
           OneEditIsKept'
    PROVE  ContentInv'
<1>1. /\ pc # "inserted" /\ ~applied
      /\ archive' = [archive EXCEPT ![Thread] = @ \cup {m}]
      /\ UNCHANGED <<sent, syncState, pc, conv, phase, budget, state, page>>
  BY DEF Cursor!RealtimeMessage, Cursor!serverVars, Cursor!engineVars,
         ContentInv, AppliedKnows
<1>2. archive'[Thread] = archive[Thread] \cup {m}
  BY <1>1, ThreadState DEF Cursor!TypeOK
<1>3. /\ \A k : Events(k)' = Events(k)
      /\ IsDeleted' = IsDeleted
      /\ \A p : InWindow(p)' = InWindow(p)
  BY <1>1 DEF Events, IsDeleted, InWindow
<1>4. log \in Seq(Kind) /\ counted \in SUBSET Nat
  BY DEF ContentInv, TypeOK
<1>5. /\ SameDayIsCounted' /\ counted' \in SUBSET Nat
      /\ counted' \subseteq archive'[Thread]
  BY <1>2, <1>4, RecountStep DEF ContentInv
<1>6. WindowKnowsDeletion'
  <2>1. InWindow(Target) => Held
    BY TargetInWindowIsHeld
  <2>2. \A p \in Events("delete") : InWindow(p) /\ InWindow(Target) => row'.column
    BY <2>1 DEF ContentInv, WindowKnowsDeletion
  <2> QED
    BY <1>3, <2>2 DEF WindowKnowsDeletion
<1>7. TypeOK'
  BY <1>1, <1>5 DEF ContentInv, TypeOK, RowOf, Cursor!CursorInv
<1>8. RowsWerePosted'
  BY <1>1, <1>2, <1>5 DEF ContentInv, RowsWerePosted
<1>9. SnapshotKnows' /\ AppliedKnows' /\ ColumnKnows'
  BY <1>1, <1>3 DEF ContentInv, SnapshotKnows, AppliedKnows, ColumnKnows
<1> QED
  BY <1>5, <1>6, <1>7, <1>8, <1>9 DEF ContentInv

LEMMA FrameStep ==
    ASSUME ContentInv, Cursor!CursorInv, Cursor!CursorInv',
           NEW m \in 1 .. sent[Thread], Frame(m)
    PROVE  ContentInv'
<1>1. /\ m # Target
      /\ Cursor!RealtimeMessage(Thread, m)
      /\ row' = IF Held THEN Apply(row, {m}) ELSE row
      /\ counted' = Recount({m}, archive[Thread] \cup {m})
      /\ UNCHANGED <<log, snapshot, applied, stale>>
  BY DEF Frame
<1>2. /\ archive' = [archive EXCEPT ![Thread] = @ \cup {m}]
      /\ syncState' = syncState
  BY <1>1 DEF Cursor!RealtimeMessage
<1>3. /\ \A k : Events(k)' = Events(k)
      /\ IsDeleted' = IsDeleted
      /\ \A p : InWindow(p)' = InWindow(p)
      /\ Held' = Held
  BY <1>1, <1>2, ThreadState DEF Events, IsDeleted, InWindow, Held, Cursor!TypeOK
<1>4. log \in Seq(Kind) /\ row \in RowOf /\ stale \in BOOLEAN
  BY DEF ContentInv, TypeOK, RowOf
<1>5. /\ row' \in RowOf
      /\ row.deleted => row'.deleted
      /\ row.column => row'.column
      /\ \A p \in Events("edit") : Held /\ Events("edit") = {p} /\ ~IsDeleted =>
              row'.text = IF p \in {m} THEN p ELSE row.text
  <2>1. CASE Held
    BY <1>1, <1>4, <2>1, ApplySays
  <2>2. CASE ~Held
    BY <1>1, <1>4, <2>2
  <2> QED
    BY <2>1, <2>2
<1>6. \A p \in Events("delete") :
            InWindow(p) /\ Held' /\ ~stale' => row'.column /\ row'.deleted
  BY <1>1, <1>3, <1>5 DEF ContentInv, WindowKnowsDeletion
<1>7. OneEditIsKept'
  BY <1>1, <1>3, <1>5 DEF ContentInv, OneEditIsKept
<1> QED
  BY <1>1, <1>4, <1>5, <1>6, <1>7, SocketWrite

(***************************************************************************)
(* The step the guarantees turn on: a copy that is not stale shows Target  *)
(* as it is, and one that is leaves the column alone.                      *)
(***************************************************************************)
LEMMA WholeCopyStep ==
    ASSUME ContentInv, Cursor!CursorInv, Cursor!CursorInv',
           NEW n \in 1 .. Len(log), WholeCopy(n)
    PROVE  ContentInv'
<1>1. /\ Target \in 1 .. sent[Thread]
      /\ Cursor!RealtimeMessage(Thread, Target)
      /\ row' = Insert(row, Held, ContentAt(n))
      /\ stale' = (ContentAt(n) # Content)
      /\ counted' = Recount({Target}, archive[Thread] \cup {Target})
      /\ UNCHANGED <<log, snapshot, applied>>
  BY ContentAssumption DEF WholeCopy, ContentInv, TypeOK
<1>2. /\ \A k : Events(k)' = Events(k)
      /\ IsDeleted' = IsDeleted
      /\ \A p : InWindow(p)' = InWindow(p)
  BY <1>1 DEF Events, IsDeleted, InWindow, Cursor!RealtimeMessage
<1>3. /\ log \in Seq(Kind) /\ row \in RowOf /\ Held \in BOOLEAN
      /\ ContentAt(n) \in ContentOf
  BY ContentSays DEF ContentInv, TypeOK, RowOf, Held
<1>4. /\ row' \in RowOf
      /\ row'.text = ContentAt(n).text
      /\ row'.deleted = ContentAt(n).deleted
      /\ ContentAt(n).deleted => row'.column
      /\ Held /\ row.column => row'.column
  BY <1>1, <1>3, InsertSays
<1>5. ~stale' => ContentAt(n) = Content
  BY <1>1
<1>6. \A p \in Events("delete") :
            InWindow(p) /\ Held' /\ ~stale' => row'.column /\ row'.deleted
  BY <1>3, <1>4, <1>5, ContentSays DEF IsDeleted
<1>7. OneEditIsKept'
  BY <1>2, <1>3, <1>4, <1>5, ContentSays DEF OneEditIsKept
<1> QED
  BY <1>1, <1>4, <1>6, <1>7, SocketWrite

LEMMA MirrorDeleteStep ==
    ASSUME ContentInv, Cursor!CursorInv', MirrorDelete
    PROVE  ContentInv'
<1>1. /\ IsDeleted /\ pc # "inserted" /\ ~applied
      /\ row' = IF Held THEN Apply(row, Events("delete")) ELSE row
      /\ UNCHANGED <<sent, archive, syncState, pc, conv, phase, budget, state, page,
                     log, snapshot, applied, stale, counted>>
  BY DEF MirrorDelete, cursorVars, ContentInv, AppliedKnows
<1>2. /\ \A k : Events(k)' = Events(k)
      /\ IsDeleted' = IsDeleted /\ Held' = Held
      /\ \A p : InWindow(p)' = InWindow(p)
      /\ Cursor!Ids(page)' = Cursor!Ids(page)
  BY <1>1 DEF Events, IsDeleted, InWindow, Held, Cursor!Ids
<1>3. log \in Seq(Kind) /\ row \in RowOf
  BY DEF ContentInv, TypeOK, RowOf
<1>4. /\ row' \in RowOf
      /\ row.deleted => row'.deleted
      /\ row.column => row'.column
  BY <1>1, <1>3, ApplySays
<1>5. WindowKnowsDeletion' /\ OneEditIsKept'
  BY <1>1, <1>2, <1>4 DEF ContentInv, WindowKnowsDeletion, OneEditIsKept
<1>6. SnapshotKnows' /\ AppliedKnows' /\ ColumnKnows'
  BY <1>1, <1>2 DEF ContentInv, SnapshotKnows, AppliedKnows, ColumnKnows
<1>7. RowsWerePosted' /\ SameDayIsCounted'
  BY <1>1, <1>2 DEF ContentInv, RowsWerePosted, SameDayIsCounted
<1>8. TypeOK'
  BY <1>1, <1>4 DEF ContentInv, TypeOK, RowOf, Cursor!CursorInv
<1> QED
  BY <1>5, <1>6, <1>7, <1>8 DEF ContentInv

\* What a page in hand is known to be.
LEMMA PageState ==
    ASSUME Cursor!CursorInv, pc \in {"received", "inserted"}
    PROVE  Cursor!Ids(page) \subseteq 1 .. sent[Thread]
  BY ThreadState
  DEF Cursor!CursorInv, Cursor!TypeOK, Cursor!PageTouches, Cursor!Page, Cursor!Ids

LEMMA FetchStep ==
    ASSUME ContentInv, Cursor!CursorInv, Cursor!CursorInv', Fetch
    PROVE  ContentInv'
<1>1. /\ pc = "request" /\ ~applied
      /\ pc' # "inserted"
      /\ UNCHANGED <<sent, archive, syncState, log, applied, row, stale, counted>>
      /\ snapshot' = IF Target \in Cursor!Ids(page') THEN Content ELSE Unknown
  BY DEF Fetch, Cursor!Fetch, Cursor!serverVars, Cursor!storeVars, ContentInv, AppliedKnows
<1>2. log \in Seq(Kind) /\ Unknown \in ContentOf
  BY DEF ContentInv, TypeOK, Unknown, ContentOf
<1>3. /\ \A k : Events(k)' = Events(k)
      /\ IsDeleted' = IsDeleted
      /\ \A p : InWindow(p)' = InWindow(p)
  BY <1>1 DEF Events, IsDeleted, InWindow
<1>4. applied' = FALSE
  BY <1>1 DEF ContentInv, TypeOK
<1>5. snapshot' \in ContentOf
  BY <1>1, <1>2, ContentSays DEF Content
<1>6. SnapshotKnows'
  <2>1. SUFFICES ASSUME Target \in Cursor!Ids(page)'
                 PROVE  /\ \A p \in Events("delete") : snapshot'.deleted
                        /\ \A p \in Events("edit") :
                            Events("edit") = {p} /\ ~IsDeleted => snapshot'.text = p
    BY <1>3 DEF SnapshotKnows
  <2>2. snapshot' = Content
    BY <1>1, <2>1 DEF Cursor!Ids
  <2> QED
    BY <1>2, <2>2, ContentSays DEF IsDeleted
<1> QED
  BY <1>1, <1>3, <1>4, <1>5, <1>6, QuietStep

LEMMA InsertRowsStep ==
    ASSUME ContentInv, Cursor!CursorInv, Cursor!CursorInv', InsertRows
    PROVE  ContentInv'
<1> DEFINE S == Cursor!Ids(page)
<1>1. /\ pc = "received" /\ pc' = "inserted"
      /\ archive' = [archive EXCEPT ![conv] = @ \cup S]
      /\ UNCHANGED <<sent, syncState, conv, phase, budget, state, page, log, snapshot>>
      /\ row' = IF Target \in S THEN Insert(row, Held, snapshot) ELSE row
      /\ stale' = IF Target \in S THEN FALSE ELSE stale
      /\ counted' = Recount(S, archive[Thread] \cup S)
      /\ applied' = FALSE
  BY DEF InsertRows, Cursor!InsertRows, Cursor!serverVars
<1>2. archive'[Thread] = archive[Thread] \cup S
  BY <1>1, ThreadState DEF Cursor!TypeOK
<1>3. /\ \A k : Events(k)' = Events(k)
      /\ IsDeleted' = IsDeleted
      /\ \A p : InWindow(p)' = InWindow(p)
      /\ Target \notin S => Held' = Held
      /\ Cursor!Ids(page)' = S
  BY <1>1, <1>2 DEF Events, IsDeleted, InWindow, Held, Cursor!Ids
<1>4. /\ log \in Seq(Kind) /\ row \in RowOf /\ counted \in SUBSET Nat
      /\ Held \in BOOLEAN /\ snapshot \in ContentOf
  BY DEF ContentInv, TypeOK, RowOf, Held
<1>5. /\ SameDayIsCounted' /\ counted' \in SUBSET Nat
      /\ counted' \subseteq archive'[Thread]
  BY <1>1, <1>2, <1>4, RecountStep DEF ContentInv
<1>6. row' \in RowOf /\ WindowKnowsDeletion' /\ OneEditIsKept' /\ ColumnKnows'
  <2>1. CASE Target \in S
    <3>1. row' = Insert(row, Held, snapshot)
      BY <1>1, <2>1
    <3>2. /\ row' \in RowOf /\ row'.text = snapshot.text
          /\ row'.deleted = snapshot.deleted /\ (snapshot.deleted => row'.column)
      BY <1>4, <3>1, InsertSays
    <3>3. /\ \A p \in Events("delete") : InWindow(p) => snapshot.deleted
          /\ \A p \in Events("edit") :
                InWindow(p) /\ Events("edit") = {p} /\ ~IsDeleted => snapshot.text = p
      BY <1>1, <2>1 DEF ContentInv, SnapshotKnows
    <3>4. ColumnKnows' /\ WindowKnowsDeletion'
      BY <1>2, <1>3, <2>1, <3>2, <3>3 DEF ColumnKnows, WindowKnowsDeletion, Held
    <3> QED
      BY <1>3, <3>2, <3>3, <3>4 DEF OneEditIsKept
  <2>2. CASE Target \notin S
    BY <1>1, <1>3, <1>4, <2>2
    DEF ContentInv, WindowKnowsDeletion, OneEditIsKept, ColumnKnows
  <2> QED
    BY <2>1, <2>2
<1>7. TypeOK'
  BY <1>1, <1>5, <1>6 DEF ContentInv, TypeOK, RowOf, Cursor!CursorInv
<1>8. RowsWerePosted'
  BY <1>1, <1>2, <1>5, PageState DEF ContentInv, RowsWerePosted
<1>9. SnapshotKnows' /\ AppliedKnows'
  BY <1>1, <1>3 DEF ContentInv, SnapshotKnows, AppliedKnows
<1> QED
  BY <1>5, <1>6, <1>7, <1>8, <1>9 DEF ContentInv

LEMMA ApplyEventsStep ==
    ASSUME ContentInv, Cursor!CursorInv', ApplyEvents
    PROVE  ContentInv'
<1> DEFINE S == Cursor!Ids(page)
<1>1. /\ pc = "inserted" /\ applied' = TRUE
      /\ row' = IF Held THEN Apply(row, S) ELSE row
      /\ UNCHANGED <<sent, archive, syncState, pc, conv, phase, budget, state, page,
                     log, snapshot, stale, counted>>
  BY DEF ApplyEvents, cursorVars
<1>2. /\ \A k : Events(k)' = Events(k)
      /\ IsDeleted' = IsDeleted /\ Held' = Held
      /\ \A p : InWindow(p)' = InWindow(p)
      /\ Cursor!Ids(page)' = S
  BY <1>1 DEF Events, IsDeleted, InWindow, Held, Cursor!Ids
<1>3. log \in Seq(Kind) /\ row \in RowOf
  BY DEF ContentInv, TypeOK, RowOf
<1>4. ASSUME Held
      PROVE  /\ row' \in RowOf
             /\ row.deleted => row'.deleted
             /\ row.column => row'.column
             /\ S \cap Events("delete") # {} => row'.deleted /\ row'.column
             /\ \A p \in Events("edit") : Events("edit") = {p} /\ ~IsDeleted =>
                    row'.text = IF p \in S THEN p ELSE row.text
  <2>1. row' = Apply(row, S)
    BY <1>1, <1>4
  <2> HIDE DEF S
  <2> QED
    BY <1>3, <2>1, ApplySays
<1>5. row' \in RowOf
  BY <1>1, <1>3, <1>4
<1>6. WindowKnowsDeletion' /\ OneEditIsKept'
  <2>1. CASE Held
    BY <1>1, <1>2, <1>4, <2>1 DEF ContentInv, WindowKnowsDeletion, OneEditIsKept, AppliedKnows
  <2>2. CASE ~Held
    <3>1. row' = row
      BY <1>1, <2>2
    <3> QED
      BY <1>1, <1>2, <2>2, <3>1 DEF ContentInv, WindowKnowsDeletion, OneEditIsKept
  <2> QED
    BY <2>1, <2>2
<1>7. AppliedKnows'
  BY <1>1, <1>2, <1>4 DEF AppliedKnows
<1>8. SnapshotKnows' /\ RowsWerePosted' /\ SameDayIsCounted'
  BY <1>1, <1>2 DEF ContentInv, SnapshotKnows, RowsWerePosted, SameDayIsCounted
<1>9. TypeOK'
  BY <1>1, <1>5 DEF ContentInv, TypeOK, RowOf, Cursor!CursorInv
<1>10. ColumnKnows'
  BY <1>1, <1>2, <1>4 DEF ContentInv, ColumnKnows
<1> QED
  BY <1>6, <1>7, <1>8, <1>9, <1>10 DEF ContentInv

\* The cursors come to enclose no more than they did and the page just written.
LEMMA WindowGrowsByThePage ==
    ASSUME Cursor!CursorInv, Cursor!PutCursors, NEW p \in Nat \ {0}, InWindow(p)'
    PROVE  InWindow(p) \/ p \in Cursor!Ids(page)
<1> DEFINE s    == syncState[Thread]
           next == Cursor!AdvanceCursors(s, page)
<1>1. /\ pc = "inserted" /\ state = s /\ page \in Cursor!Page
      /\ phase \in {"tail", "backfill"}
      /\ s.oldest \in Nat /\ s.newest \in Nat /\ s.oldest <= s.newest
      /\ (s.oldest = 0) <=> (s.newest = 0)
      /\ page.lo <= page.hi
      /\ phase = "tail" /\ s.newest # 0 => s.newest <= page.lo /\ page.lo <= s.newest + 1
      /\ phase = "backfill" /\ s.oldest # 0 => page.hi = s.oldest - 1
  BY ThreadState
  DEF Cursor!PutCursors, Cursor!PutSyncState, Cursor!CursorInv, Cursor!TypeOK,
     Cursor!CopyIsCurrent,
      Cursor!WindowOK, Cursor!PageTouches, Cursor!RowsBeforeCursors, Cursor!Empty,
      Cursor!Page, Cursor!None
<1>2. syncState'[Thread] = next
  <2>1. syncState' = [syncState EXCEPT ![conv] = Cursor!AdvanceCursors(state, page)]
    BY DEF Cursor!PutCursors, Cursor!PutSyncState
  <2> QED
    BY <1>1, <2>1, ThreadState DEF Cursor!TypeOK
<1>3. /\ next.oldest = IF s.oldest = 0 THEN page.lo
                       ELSE IF s.oldest < page.lo THEN s.oldest ELSE page.lo
      /\ next.newest = IF s.newest > page.hi THEN s.newest ELSE page.hi
  BY DEF Cursor!AdvanceCursors, Cursor!Least, Cursor!Greatest, Cursor!None
<1>4. next.oldest <= p /\ p <= next.newest
  BY <1>2 DEF InWindow
<1>5. page.lo \in Nat /\ page.hi \in Nat
  BY <1>1 DEF Cursor!Page
<1> HIDE DEF next, s
<1>6. (s.oldest <= p /\ p <= s.newest) \/ (page.lo <= p /\ p <= page.hi)
  BY <1>1, <1>3, <1>4, <1>5
<1> QED
  BY <1>5, <1>6 DEF s, InWindow, Cursor!Ids

LEMMA PutCursorsStep ==
    ASSUME ContentInv, Cursor!CursorInv, Cursor!CursorInv', PutCursors
    PROVE  ContentInv'
<1>1. /\ applied /\ applied' = FALSE /\ snapshot' = Unknown
      /\ Cursor!PutCursors
      /\ UNCHANGED <<sent, archive, log, row, stale, counted>>
  BY DEF PutCursors, Cursor!PutCursors, Cursor!PutSyncState, Cursor!serverVars
<1>2. pc' \in {"idle", "request"}
  BY <1>1 DEF Cursor!PutCursors, Cursor!PutSyncState, Cursor!LeaveTail,
     Cursor!EndVisit, Cursor!Proceed
<1>3. /\ \A k : Events(k)' = Events(k)
      /\ IsDeleted' = IsDeleted /\ Held' = Held
  BY <1>1 DEF Events, IsDeleted, Held
<1>4. \A k : Events(k) \subseteq Nat \ {0}
  BY EventsAreThere DEF ContentInv, TypeOK
<1>5. \A p \in Nat \ {0} : InWindow(p)' => InWindow(p) \/ p \in Cursor!Ids(page)
  BY <1>1, WindowGrowsByThePage
<1>6. WindowKnowsDeletion'
  <2>1. InWindow(Target)' => Held
    <3>1. InWindow(Target)' => InWindow(Target) \/ Target \in Cursor!Ids(page)
      BY <1>5, ContentAssumption
    <3>2. pc = "inserted"
      BY <1>1 DEF ContentInv, AppliedKnows
    <3> QED
      BY <3>1, <3>2, TargetInWindowIsHeld DEF ContentInv, ColumnKnows
  <2>2. ASSUME NEW p \in Events("delete"), InWindow(p)', InWindow(Target)'
        PROVE  row.column
    <3>1. CASE p \in Cursor!Ids(page)
      BY <1>1, <2>1, <2>2, <3>1 DEF ContentInv, AppliedKnows
    <3>2. CASE InWindow(p) /\ InWindow(Target)
      BY <3>2 DEF ContentInv, WindowKnowsDeletion
    <3>3. CASE InWindow(p) /\ Target \in Cursor!Ids(page)
      BY <1>1, <3>3 DEF ContentInv, AppliedKnows, ColumnKnows
    <3>4. /\ InWindow(p) \/ p \in Cursor!Ids(page)
          /\ InWindow(Target) \/ Target \in Cursor!Ids(page)
      BY <1>4, <1>5, <2>2, ContentAssumption
    <3> QED
      BY <3>1, <3>2, <3>3, <3>4
  <2>3. ASSUME NEW p \in Events("delete"), InWindow(p)', Held, ~stale
        PROVE  row.column /\ row.deleted
    BY <1>1, <1>4, <1>5, <2>3 DEF ContentInv, AppliedKnows, WindowKnowsDeletion
  <2> QED
    BY <1>1, <1>3, <2>2, <2>3 DEF WindowKnowsDeletion
<1>9. OneEditIsKept'
  BY <1>1, <1>3, <1>4, <1>5 DEF ContentInv, AppliedKnows, OneEditIsKept
<1>7. TypeOK'
  BY <1>1 DEF ContentInv, TypeOK, Unknown, ContentOf, Cursor!CursorInv
<1>8. /\ SnapshotKnows' /\ AppliedKnows' /\ ColumnKnows'
      /\ RowsWerePosted' /\ SameDayIsCounted'
  BY <1>1, <1>2, <1>3
  DEF ContentInv, SnapshotKnows, AppliedKnows, ColumnKnows, RowsWerePosted,
      SameDayIsCounted
<1> QED
  BY <1>6, <1>7, <1>8, <1>9 DEF ContentInv

\* The steps that move neither rows nor cursors.
LEMMA OtherStep ==
    ASSUME ContentInv, Cursor!CursorInv, Cursor!CursorInv',
           \/ \E tail \in BOOLEAN, pages \in 0 .. BackfillPages : Visit(tail, pages)
           \/ EmptyPage
           \/ VisitFails
    PROVE  ContentInv'
<1>1. /\ pc' \in {"idle", "request"}
      /\ UNCHANGED <<sent, archive, log, row, stale, counted>>
      /\ snapshot' \in {snapshot, Unknown}
      /\ applied' = FALSE
  <2>1. CASE \E tail \in BOOLEAN, pages \in 0 .. BackfillPages : Visit(tail, pages)
    BY <2>1 DEF Visit, Cursor!Visit, Cursor!serverVars, Cursor!storeVars,
                ContentInv, TypeOK, AppliedKnows
  <2>2. CASE EmptyPage
    BY <2>2 DEF EmptyPage, Cursor!EmptyPage, Cursor!PutSyncState, Cursor!LeaveTail,
       Cursor!EndVisit,
                Cursor!Proceed, Cursor!serverVars, ContentInv, TypeOK, AppliedKnows
  <2>3. CASE VisitFails
    BY <2>3 DEF VisitFails, Cursor!VisitFails, Cursor!EndVisit, Cursor!serverVars,
                Cursor!storeVars
  <2> QED
    BY <2>1, <2>2, <2>3
<1>2. /\ syncState'[Thread].oldest = syncState[Thread].oldest
      /\ syncState'[Thread].newest = syncState[Thread].newest
  <2>1. CASE \/ \E tail \in BOOLEAN, pages \in 0 .. BackfillPages : Visit(tail, pages)
             \/ VisitFails
    BY <2>1 DEF Visit, Cursor!Visit, VisitFails, Cursor!VisitFails, Cursor!storeVars
  <2>2. CASE EmptyPage
    <3>1. /\ conv = Thread /\ state = syncState[Thread]
          /\ syncState \in [{Thread} -> Cursor!SyncState]
          /\ state \in Cursor!SyncState
      BY <2>2, ThreadState DEF EmptyPage, Cursor!EmptyPage, Cursor!PutSyncState,
         Cursor!CursorInv, Cursor!TypeOK,
                               Cursor!CopyIsCurrent
    <3>2. syncState' \in {syncState,
                          [syncState EXCEPT ![conv] = [state EXCEPT !.complete = TRUE]]}
      BY <2>2 DEF EmptyPage, Cursor!EmptyPage, Cursor!PutSyncState
    <3> QED
      BY <3>1, <3>2 DEF Cursor!SyncState
  <2> QED
    BY <2>1, <2>2
<1>3. \A p : InWindow(p)' = InWindow(p)
  BY <1>2 DEF InWindow
<1>4. snapshot' \in ContentOf
  <2>1. Unknown \in ContentOf /\ snapshot \in ContentOf
    BY DEF ContentInv, TypeOK, Unknown, ContentOf
  <2> QED
    BY <1>1, <2>1
<1>5. SnapshotKnows'
  BY <1>1 DEF SnapshotKnows
<1> QED
  BY <1>1, <1>3, <1>4, <1>5, QuietStep

LEMMA NextContentInv ==
    ContentInv /\ Cursor!CursorInv /\ Cursor!CursorInv' /\ [Next]_vars => ContentInv'
<1> SUFFICES ASSUME ContentInv, Cursor!CursorInv, Cursor!CursorInv', [Next]_vars
             PROVE  ContentInv'
  OBVIOUS
<1>1. ASSUME NEW kind \in Kind, Post(kind) PROVE ContentInv'
  BY <1>1, PostStep
<1>2. ASSUME NEW m \in 1 .. sent[Thread], Frame(m) PROVE ContentInv'
  BY <1>2, FrameStep
<1>9. ASSUME NEW n \in 1 .. Len(log), WholeCopy(n) PROVE ContentInv'
  BY <1>9, WholeCopyStep
<1>10. CASE MirrorDelete
  BY <1>10, MirrorDeleteStep
<1>3. CASE \/ \E tail \in BOOLEAN, pages \in 0 .. BackfillPages : Visit(tail, pages)
           \/ EmptyPage
           \/ VisitFails
  BY <1>3, OtherStep
<1>4. CASE Fetch
  BY <1>4, FetchStep
<1>5. CASE InsertRows
  BY <1>5, InsertRowsStep
<1>6. CASE ApplyEvents
  BY <1>6, ApplyEventsStep
<1>7. CASE PutCursors
  BY <1>7, PutCursorsStep
<1>8. CASE UNCHANGED vars
  BY <1>8
  DEF vars, cursorVars, ContentInv, TypeOK, SnapshotKnows, AppliedKnows, ColumnKnows,
      RowsWerePosted,
      WindowKnowsDeletion, OneEditIsKept, SameDayIsCounted, InWindow, Held, Events,
      IsDeleted, Cursor!Ids, Cursor!CursorInv
<1> QED
  BY <1>1, <1>2, <1>3, <1>4, <1>5, <1>6, <1>7, <1>8, <1>9, <1>10 DEF Next

----------------------------------------------------------------------------
(* The theorems *)

(***************************************************************************)
(* ContentInv holds: what the cursors enclose, the row and the page in     *)
(* hand know.                                                              *)
(***************************************************************************)
THEOREM ContentInvariant == Spec => []ContentInv
  BY CursorsAsDescribed, InitContentInv, NextContentInv, PTL DEF Spec

(***************************************************************************)
(* TypeOK: what GroupMe, the engine and the archive hold of the message    *)
(* keeps its type.                                                         *)
(***************************************************************************)
THEOREM ContentTypeCorrect == Spec => []TypeOK
<1>1. ContentInv => TypeOK
  BY DEF ContentInv
<1> QED
  BY <1>1, ContentInvariant, PTL

(***************************************************************************)
(* WindowKnowsDeletion: write_page applies the events of a page before it  *)
(* writes the cursors, and a page fetched inside the window is not older   *)
(* than the window; so a deletion the cursors enclose stays known, by the  *)
(* column for good, by the content until a stale copy comes another way.   *)
(***************************************************************************)
THEOREM EnclosedDeletionIsKnown == Spec => []WindowKnowsDeletion
<1>1. ContentInv => WindowKnowsDeletion
  BY DEF ContentInv
<1> QED
  BY <1>1, ContentInvariant, PTL

(***************************************************************************)
(* OneEditIsKept: the same for the text of a message changed once, which   *)
(* no column keeps from a stale copy of the socket or a mirror.            *)
(***************************************************************************)
THEOREM EnclosedEditIsKept == Spec => []OneEditIsKept
<1>1. ContentInv => OneEditIsKept
  BY DEF ContentInv
<1> QED
  BY <1>1, ContentInvariant, PTL

(***************************************************************************)
(* SameDayIsCounted: insert_messages recounts the days of what it writes,  *)
(* so in a group a deletion and a target of one day are counted, whichever *)
(* came first; without the system flag a deletion is never counted.        *)
(***************************************************************************)
THEOREM DeletionOfTheDayIsCounted == Spec => []SameDayIsCounted
<1>1. ContentInv => SameDayIsCounted
  BY DEF ContentInv
<1> QED
  BY <1>1, ContentInvariant, PTL
=============================================================================
