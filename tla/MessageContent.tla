--------------------------- MODULE MessageContent ---------------------------
(***************************************************************************)
(* What the archive says of one message that is edited and deleted, while  *)
(* the poller pages through its conversation and the socket delivers       *)
(* frames.  GroupMe does both things to a mutation: it rewrites the        *)
(* message in place and appends an event to the conversation.  So the      *)
(* archive meets every mutation twice, in an order nobody controls:        *)
(* insert_messages and apply_event (store.rs), driven by write_page        *)
(* (sync.rs) and persist_message (realtime.rs).                            *)
(*                                                                         *)
(* The visits and cursors are SyncCursor's, for the one conversation       *)
(* Thread; a message is again its position.  The text of the message is    *)
(* the position of the event that gave it, 0 as posted.                    *)
(***************************************************************************)
EXTENDS Integers, Sequences

CONSTANTS
    Thread,          \* the conversation
    PageLimit, BackfillPages, MaxSent, AfterInclusive,   \* as in SyncCursor
    InitialLog,      \* what was posted before the first sync
    Target,          \* the position of the message that is mutated
    Day,             \* Day[p]: the UTC day of the message at p
    IsGroup          \* Thread is a group: its notices carry the system flag

Kind == {"post", "edit", "delete"}

ASSUME ContentAssumption ==
    /\ InitialLog \in Seq(Kind)
    /\ Target \in 1 .. Len(InitialLog)
    /\ \A p \in 1 .. Len(InitialLog) : InitialLog[p] = "post"
    /\ Day \in [1 .. MaxSent -> Nat]
    /\ Len(InitialLog) <= MaxSent
    /\ IsGroup \in BOOLEAN

VARIABLES
    sent, archive, syncState, pc, conv, phase, budget, state, page,  \* SyncCursor
    log,       \* GroupMe: the conversation, log[p] what kind of message p is
    snapshot,  \* the engine: the content of Target in the page it holds
    applied,   \* the engine: the events of the page it wrote are applied
    row,       \* archive.db: the content of Target, if it has a row
    stale,     \* history: the last whole copy of Target written came by the
               \* socket or a mirror, and Target had changed since it was made
    counted    \* archive.db: the deletions stats_events_daily counts

cursorVars == <<sent, archive, syncState, pc, conv, phase, budget, state, page>>
vars == <<cursorVars, log, snapshot, applied, row, stale, counted>>

Cursor == INSTANCE SyncCursor WITH
    Conv <- {Thread}, InitialSent <- [c \in {Thread} |-> Len(InitialLog)]

ASSUME VisitAssumption == Cursor!CursorAssumption

----------------------------------------------------------------------------
(* GroupMe *)

Events(kind)  == {p \in 1 .. Len(log) : log[p] = kind}
IsDeleted     == Events("delete") # {}
LatestOf(S)   == CHOOSE p \in S : \A q \in S : q <= p

\* The message itself, as an answer or a frame showed it when the conversation
\* had come to n.
ContentAt(n) ==
    LET changes == {p \in Events("edit") \cup Events("delete") : p <= n}
    IN  [text |-> IF changes = {} THEN 0 ELSE LatestOf(changes),
         deleted |-> \E p \in Events("delete") : p <= n]

Content == ContentAt(Len(log))

Unknown == [text |-> 0, deleted |-> FALSE]
NoRow   == [text |-> 0, deleted |-> FALSE, column |-> FALSE]

----------------------------------------------------------------------------
(* archive.db *)

Held == Target \in archive[Thread]

\* A bug WindowKnowsDeletion must catch: deleted_at = excluded.deleted_at.
BugNoCoalesce(r, held, c) ==
    [text    |-> c.text,
     deleted |-> c.deleted,
     column  |-> c.deleted]

\* insert_messages on Target: raw_json is replaced, the deleted_at column keeps
\* what it had.  An identical row is not touched, which comes to the same.
Insert(r, held, c) ==
    [text    |-> c.text,
     deleted |-> c.deleted,
     column  |-> c.deleted \/ (held /\ r.column)]

\* A bug OneEditIsKept must catch: gated on the system flag, which direct
\* messages do not carry, no event of theirs is applied.
BugSystemFlagGate(r, S) == r

\* apply_event for the events of S in ascending order, on a row that is there.
Apply(r, S) ==
    LET edits     == S \cap Events("edit")
        deletions == S \cap Events("delete")
        edited    == IF edits = {} THEN r ELSE [r EXCEPT !.text = LatestOf(edits)]
    IN  IF deletions = {} THEN edited
        ELSE [edited EXCEPT !.deleted = TRUE, !.column = TRUE]

\* A bug SameDayIsCounted must catch: only days that had no row are recomputed.
BugOnlyNewDays(S, rows) ==
    LET days == {Day[p] : p \in S} \ {Day[p] : p \in archive[Thread]}
    IN  {p \in counted : Day[p] \notin days}
          \cup {p \in rows \cap Events("delete") :
                    IsGroup /\ Day[p] \in days /\ Target \in rows}

\* recompute_rollup_bucket for the days of the messages S just written: the
\* deletions of those days that are system messages and whose target has a row.
Recount(S, rows) ==
    LET days == {Day[p] : p \in S}
    IN  {p \in counted : Day[p] \notin days}
          \cup {p \in rows \cap Events("delete") :
                    IsGroup /\ Day[p] \in days /\ Target \in rows}

----------------------------------------------------------------------------
(* Somebody posts, edits Target or deletes it; nothing edits it afterwards *)

Post(kind) ==
    /\ Cursor!Send(Thread)
    /\ kind \in {"edit", "delete"} => ~IsDeleted
    /\ log' = Append(log, kind)
    /\ UNCHANGED <<snapshot, applied, row, stale, counted>>

(***************************************************************************)
(* persist_message of a message other than Target, at any time after it    *)
(* was posted, more than once or never; an event is applied.               *)
(***************************************************************************)
Frame(m) ==
    /\ m # Target
    /\ Cursor!RealtimeMessage(Thread, m)
    /\ row' = IF Held THEN Apply(row, {m}) ELSE row
    /\ counted' = Recount({m}, archive[Thread] \cup {m})
    /\ UNCHANGED <<log, snapshot, applied, stale>>

(***************************************************************************)
(* A whole copy of Target, made when the conversation had come to n: the   *)
(* frame of its post or of a reaction to it (persist_message), or what     *)
(* GroupMe answered to this user's edit (mirror).  The copy is written     *)
(* whatever happened to Target since.                                      *)
(***************************************************************************)
WholeCopy(n) ==
    /\ n \in Target .. Len(log)
    /\ Cursor!RealtimeMessage(Thread, Target)
    /\ row' = Insert(row, Held, ContentAt(n))
    /\ stale' = (ContentAt(n) # Content)
    /\ counted' = Recount({Target}, archive[Thread] \cup {Target})
    /\ UNCHANGED <<log, snapshot, applied>>

\* client_delete_message: this user's deletion is answered, and applied before
\* its event comes by any way.
MirrorDelete ==
    /\ IsDeleted
    /\ pc # "inserted"
    /\ row' = IF Held THEN Apply(row, Events("delete")) ELSE row
    /\ UNCHANGED <<cursorVars, log, snapshot, applied, stale, counted>>

----------------------------------------------------------------------------
(* One visit *)

Visit(tail, pages) ==
    /\ Cursor!Visit(Thread, tail, pages)
    /\ UNCHANGED <<log, snapshot, applied, row, stale, counted>>

\* The page shows Target as it is when the answer is made.
Fetch ==
    /\ Cursor!Fetch
    /\ snapshot' = IF Target \in Cursor!Ids(page') THEN Content ELSE Unknown
    /\ UNCHANGED <<log, applied, row, stale, counted>>

InsertRows ==
    /\ Cursor!InsertRows
    /\ IF Target \in Cursor!Ids(page)
       THEN row' = Insert(row, Held, snapshot) /\ stale' = FALSE
       ELSE UNCHANGED <<row, stale>>
    /\ counted' = Recount(Cursor!Ids(page), archive[Thread] \cup Cursor!Ids(page))
    /\ applied' = FALSE
    /\ UNCHANGED <<log, snapshot>>

\* The events of the page, oldest first: group_messages sorts what it returns.
ApplyEvents ==
    /\ pc = "inserted"
    /\ ~applied
    /\ applied' = TRUE
    /\ row' = IF Held THEN Apply(row, Cursor!Ids(page)) ELSE row
    /\ UNCHANGED <<cursorVars, log, snapshot, stale, counted>>

PutCursors ==
    /\ applied
    /\ Cursor!PutCursors
    /\ applied' = FALSE
    /\ snapshot' = Unknown
    /\ UNCHANGED <<log, row, stale, counted>>

EmptyPage ==
    /\ Cursor!EmptyPage
    /\ UNCHANGED <<log, snapshot, applied, row, stale, counted>>

VisitFails ==
    /\ Cursor!VisitFails
    /\ applied' = FALSE
    /\ snapshot' = Unknown
    /\ UNCHANGED <<log, row, stale, counted>>

----------------------------------------------------------------------------
Init ==
    /\ Cursor!Init
    /\ log = InitialLog
    /\ snapshot = Unknown
    /\ applied = FALSE
    /\ row = NoRow
    /\ stale = FALSE
    /\ counted = {}

Next ==
    \/ \E kind \in Kind : Post(kind)
    \/ \E m \in 1 .. sent[Thread] : Frame(m)
    \/ \E n \in 1 .. Len(log) : WholeCopy(n)
    \/ MirrorDelete
    \/ \E tail \in BOOLEAN, pages \in 0 .. BackfillPages : Visit(tail, pages)
    \/ Fetch \/ InsertRows \/ ApplyEvents \/ PutCursors \/ EmptyPage \/ VisitFails

Spec == Init /\ [][Next]_vars

----------------------------------------------------------------------------
ContentOf == [text: Nat, deleted: BOOLEAN]

TypeOK ==
    /\ Cursor!TypeOK
    /\ log \in Seq(Kind)
    /\ Len(log) = sent[Thread]
    /\ snapshot \in ContentOf
    /\ applied \in BOOLEAN
    /\ row \in [text: Nat, deleted: BOOLEAN, column: BOOLEAN]
    /\ stale \in BOOLEAN
    /\ counted \in SUBSET Nat

\* The cursors enclose the message at p: it will not be asked for again.
InWindow(p) == syncState[Thread].oldest <= p /\ p <= syncState[Thread].newest

(***************************************************************************)
(* Once the cursors enclose a message and its deletion, deleted_at says so *)
(* for good, in whatever order the message, its event and copies of any    *)
(* age are written.  What readers are shown, rebuilt from raw_json, says   *)
(* so as soon as the cursors enclose the deletion, whichever answers were  *)
(* in flight, unless a stale copy came by the socket or a mirror since:    *)
(* those are the one way back.                                             *)
(***************************************************************************)
WindowKnowsDeletion ==
    \A p \in Events("delete") : InWindow(p) =>
        /\ InWindow(Target) => row.column
        /\ Held /\ ~stale => row.column /\ row.deleted

(***************************************************************************)
(* Once the cursors enclose the only change a message saw, its text is the *)
(* changed one, even where the answer in hand was made before the change,  *)
(* unless a stale copy came by the socket or a mirror since.               *)
(***************************************************************************)
OneEditIsKept ==
    \A p \in Events("edit") :
        InWindow(p) /\ Held /\ ~stale /\ Events("edit") = {p} /\ ~IsDeleted =>
            row.text = p

(***************************************************************************)
(* In a group, a deletion on the day of its target is in the day's count   *)
(* exactly when both have rows, whichever arrived first.                   *)
(***************************************************************************)
SameDayIsCounted ==
    IsGroup =>
        \A p \in Events("delete") : Day[p] = Day[Target] =>
            (p \in counted <=> Held /\ p \in archive[Thread])

(***************************************************************************)
(* The next three state what the code's comments say; TLC refutes each.    *)
(*                                                                         *)
(* insert_messages: a re-fetch of an older page must not resurrect a       *)
(* message we know is gone.  Readers rebuild it from raw_json, whenever the *)
(* engine does not hold the store.                                         *)
(***************************************************************************)
KnownGoneReadsGone == pc # "inserted" /\ row.column => row.deleted

(***************************************************************************)
(* apply_event: the archive does not keep serving stale text for ever.     *)
(* With nothing left to fetch, and no stale copy by another way, it shows  *)
(* the text GroupMe shows.  But of two edits the poller may apply the      *)
(* older one last, for it walks back page by page.                         *)
(***************************************************************************)
Settled ==
    /\ pc = "idle"
    /\ syncState[Thread].complete
    /\ syncState[Thread].newest = Len(log)

SettledTextIsCurrent ==
    Settled /\ ~stale /\ ~IsDeleted => row.text = Content.text

(***************************************************************************)
(* insert_messages: rollups can never drift from the messages table.  But  *)
(* a target that is archived after its deletion is counted only if a page  *)
(* of the day of the deletion is written again.                            *)
(***************************************************************************)
RollupsNeverDrift ==
    IsGroup /\ Held => counted = archive[Thread] \cap Events("delete")
=============================================================================
