----------------------------- MODULE SyncCursor -----------------------------
(***************************************************************************)
(* The cursors of the sync engine (sync.rs): how one visit to one          *)
(* conversation tails it forwards and walks its history backwards, while   *)
(* GroupMe keeps sending, the realtime socket keeps writing rows, requests *)
(* and database writes fail, and the process may stop at any point.        *)
(*                                                                         *)
(* A message is its position in its conversation: GroupMe ids grow, and    *)
(* only their order matters here.  0 stands for "no id", as in the code,   *)
(* where id_sort_key maps an unparseable id to a key that is never kept.   *)
(* Which conversation is visited when is left open; SyncCycle closes it.   *)
(***************************************************************************)
EXTENDS Integers

CONSTANTS
    Conv,            \* the conversations the account can see
    PageLimit,       \* messages in a full page: 100 in the code
    BackfillPages,   \* the largest backfill budget of one visit
    InitialSent,     \* messages each conversation holds before the first sync
    MaxSent,         \* bound: messages a conversation ever holds
    AfterInclusive   \* does after_id hand back the cursor's own message?

ASSUME CursorAssumption ==
    /\ PageLimit \in Nat \ {0}
    /\ BackfillPages \in Nat
    /\ MaxSent \in Nat
    /\ InitialSent \in [Conv -> Nat]
    /\ AfterInclusive \in BOOLEAN
    /\ AfterInclusive => PageLimit > 1

VARIABLES
    sent,       \* GroupMe: sent[c] messages exist in c, numbered 1..sent[c]
    archive,    \* archive.db: the messages of c that have a row
    syncState,  \* archive.db: the sync_state row of each conversation
    pc,         \* the engine: what the current visit waits for
    conv,       \* the engine: the conversation it visits
    phase,      \* the engine: tailing or walking back
    budget,     \* the engine: backfill pages this visit may still ask for
    state,      \* the engine: its copy of the sync_state row
    page        \* the engine: the page it holds

serverVars == sent
storeVars  == <<archive, syncState>>
engineVars == <<pc, conv, phase, budget, state, page>>
vars       == <<sent, archive, syncState, pc, conv, phase, budget, state, page>>

----------------------------------------------------------------------------
(* Data *)

None == 0
Id == Nat

SyncState == [oldest: Id, newest: Id, complete: BOOLEAN]
NoState   == [oldest |-> None, newest |-> None, complete |-> FALSE]

\* A page is a contiguous run of messages, oldest first.
Page      == [lo: Nat, hi: Nat]
NoPage    == [lo |-> 1, hi |-> 0]
Ids(p)    == p.lo .. p.hi
Empty(p)  == p.hi < p.lo
Length(p) == IF Empty(p) THEN 0 ELSE p.hi - p.lo + 1

Least(a, b)    == IF a < b THEN a ELSE b
Greatest(a, b) == IF a > b THEN a ELSE b

(***************************************************************************)
(* What GroupMe may answer.  Every page is contiguous and touches the      *)
(* cursor; it may be shorter than the limit, but is empty only where       *)
(* nothing is left.                                                        *)
(***************************************************************************)
Latest(c) ==
    {[lo |-> l, hi |-> sent[c]] :
        l \in Greatest(1, sent[c] - PageLimit + 1) .. Greatest(1, sent[c])}

Before(c, id) ==
    {[lo |-> l, hi |-> id - 1] :
        l \in Greatest(1, id - PageLimit) .. Greatest(1, id - 1)}

After(c, id) ==
    LET first == IF AfterInclusive THEN id ELSE id + 1
    IN  {[lo |-> first, hi |-> h] :
            h \in Least(id + 1, sent[c]) .. Least(first + PageLimit - 1, sent[c])}

Seeding == phase = "tail" /\ state.newest = None

Response ==
    IF phase = "tail"
    THEN IF state.newest = None THEN Latest(conv) ELSE After(conv, state.newest)
    ELSE IF state.oldest = None THEN Latest(conv) ELSE Before(conv, state.oldest)

\* A bug NothingForgotten must catch: the page's own ends become the cursors.
BugPageEndsAreCursors(s, p) ==
    [oldest |-> p.lo, newest |-> p.hi, complete |-> s.complete]

\* advance_cursors: the least and the greatest id of the page move the ends.
AdvanceCursors(s, p) ==
    [oldest   |-> IF s.oldest = None THEN p.lo ELSE Least(s.oldest, p.lo),
     newest   |-> Greatest(s.newest, p.hi),
     complete |-> s.complete]

----------------------------------------------------------------------------
(* Control shared by the steps of a visit *)

EndVisit ==
    /\ pc' = "idle"
    /\ phase' = "tail"
    /\ budget' = 0
    /\ state' = NoState
    /\ page' = NoPage
    /\ UNCHANGED conv

Proceed(ph, pages, s) ==
    /\ pc' = "request"
    /\ phase' = ph
    /\ budget' = pages
    /\ state' = s
    /\ page' = NoPage
    /\ UNCHANGED conv

\* The tail loop is over: walk back unless the walk is done or out of budget.
LeaveTail(s) ==
    IF s.complete \/ budget = 0 THEN EndVisit ELSE Proceed("backfill", budget, s)

----------------------------------------------------------------------------
(* GroupMe and the realtime worker *)

\* Somebody posts to c.  Edits, deletions and joins are messages too.
Send(c) ==
    /\ sent[c] < MaxSent
    /\ sent' = [sent EXCEPT ![c] = @ + 1]
    /\ UNCHANGED <<storeVars, engineVars>>

\* A bug NoHole must catch: the frame moves the tail cursor as well.
BugFrameMovesCursor(c, m) ==
    /\ pc # "inserted"
    /\ m \in 1 .. sent[c]
    /\ archive' = [archive EXCEPT ![c] = @ \cup {m}]
    /\ syncState' = [syncState EXCEPT ![c].newest = Greatest(@, m)]
    /\ UNCHANGED <<serverVars, engineVars>>

\* A frame writes its message's row.  The cursors are not touched.  A new
\* message, an old one that was liked: m is any message of c.  Store access is
\* serialised, so no frame lands inside the engine's own page write.
RealtimeMessage(c, m) ==
    /\ pc # "inserted"
    /\ m \in 1 .. sent[c]
    /\ archive' = [archive EXCEPT ![c] = @ \cup {m}]
    /\ UNCHANGED <<serverVars, syncState, engineVars>>

----------------------------------------------------------------------------
(* One visit: sync_conversation_detail *)

\* Reads the cursors once and works on that copy until the visit ends.  A visit
\* with nothing to ask for returns at once and is no step.
Visit(c, tail, pages) ==
    /\ pc = "idle"
    /\ tail \/ (~syncState[c].complete /\ pages > 0)
    /\ pc' = "request"
    /\ conv' = c
    /\ phase' = IF tail THEN "tail" ELSE "backfill"
    /\ budget' = pages
    /\ state' = syncState[c]
    /\ page' = NoPage
    /\ UNCHANGED <<serverVars, storeVars>>

\* fetch_page: the answer is a snapshot, written in a later step.
Fetch ==
    /\ pc = "request"
    /\ page' \in Response
    /\ pc' = "received"
    /\ UNCHANGED <<serverVars, storeVars, conv, phase, budget, state>>

\* A bug KeepsThePromise must catch: a failed row write is logged, not returned.
BugWriteErrorSwallowed ==
    /\ pc = "received"
    /\ ~Empty(page)
    /\ archive' \in {archive, [archive EXCEPT ![conv] = @ \cup Ids(page)]}
    /\ pc' = "inserted"
    /\ UNCHANGED <<serverVars, syncState, conv, phase, budget, state, page>>

\* write_page, first transaction: the rows.  The store stays locked.
InsertRows ==
    /\ pc = "received"
    /\ ~Empty(page)
    /\ archive' = [archive EXCEPT ![conv] = @ \cup Ids(page)]
    /\ pc' = "inserted"
    /\ UNCHANGED <<serverVars, syncState, conv, phase, budget, state, page>>

\* Two bugs of the second transaction.  EverythingArchived must catch the first:
\* a walk keeps its cursors in the copy only and starts over each time.
\* CompleteIsComplete the second: a short page ends the walk for good.
BugWalkNotWritten ==
    LET next == AdvanceCursors(state, page)
    IN  /\ pc = "inserted"
        /\ syncState' = IF phase = "tail" THEN [syncState EXCEPT ![conv] = next]
                                          ELSE syncState
        /\ \/ phase = "tail" /\ LeaveTail(next)
           \/ phase = "backfill" /\ budget = 1 /\ EndVisit
           \/ phase = "backfill" /\ budget > 1 /\ Proceed("backfill", budget - 1, next)
        /\ UNCHANGED <<serverVars, archive>>

BugShortPageSeals ==
    LET next == [AdvanceCursors(state, page) EXCEPT
                    !.complete = @ \/ (phase = "backfill" /\ Length(page) < PageLimit)]
    IN  /\ pc = "inserted"
        /\ syncState' = [syncState EXCEPT ![conv] = next]
        /\ IF phase = "tail" THEN LeaveTail(next) ELSE EndVisit
        /\ UNCHANGED <<serverVars, archive>>

\* put_sync_state: the whole row at once.
PutSyncState(s) == syncState' = [syncState EXCEPT ![conv] = s]

\* write_page, second transaction: the cursors; then the loop's own tests.
PutCursors ==
    LET next     == AdvanceCursors(state, page)
        caughtUp == \/ Seeding
                    \/ Length(page) < PageLimit
                    \/ next.newest = state.newest
        walked   == next.oldest = state.oldest \/ budget = 1
    IN  /\ pc = "inserted"
        /\ PutSyncState(next)
        /\ \/ phase = "tail" /\ caughtUp /\ LeaveTail(next)
           \/ phase = "tail" /\ ~caughtUp /\ Proceed("tail", budget, next)
           \/ phase = "backfill" /\ walked /\ EndVisit
           \/ phase = "backfill" /\ ~walked /\ Proceed("backfill", budget - 1, next)
        /\ UNCHANGED <<serverVars, archive>>

\* An empty page seals the history when it answers a walk back or a seed; when
\* it answers a tail it only says that nothing is newer.
EmptyPage ==
    /\ pc = "received"
    /\ Empty(page)
    /\ IF phase = "backfill" \/ Seeding
       THEN /\ PutSyncState([state EXCEPT !.complete = TRUE])
            /\ EndVisit
       ELSE /\ LeaveTail(state)
            /\ UNCHANGED syncState
    /\ UNCHANGED <<serverVars, archive>>

\* The request or the write under way fails, or the process stops and starts
\* again: what was committed stays, the engine's copy of the row is gone.
VisitFails ==
    /\ pc # "idle"
    /\ EndVisit
    /\ UNCHANGED <<serverVars, storeVars>>

----------------------------------------------------------------------------
Init ==
    /\ sent = InitialSent
    /\ archive = [c \in Conv |-> {}]
    /\ syncState = [c \in Conv |-> NoState]
    /\ pc = "idle"
    /\ conv \in Conv
    /\ phase = "tail"
    /\ budget = 0
    /\ state = NoState
    /\ page = NoPage

EngineStep == Fetch \/ InsertRows \/ PutCursors \/ EmptyPage

Next ==
    \/ \E c \in Conv : Send(c)
    \/ \E c \in Conv : \E m \in 1 .. sent[c] : RealtimeMessage(c, m)
    \/ \E c \in Conv, tail \in BOOLEAN, pages \in 0 .. BackfillPages :
            Visit(c, tail, pages)
    \/ EngineStep
    \/ VisitFails

Spec == Init /\ [][Next]_vars

(***************************************************************************)
(* The engine comes back to every conversation, and neither the tail nor   *)
(* the walk of a full visit fails every single time.  Nothing is assumed *)
(* of GroupMe, of the socket or of the failures themselves.                *)
(***************************************************************************)
InFullVisit(c, ph) == conv = c /\ phase = ph /\ budget = BackfillPages

Fairness ==
    /\ WF_vars(EngineStep)
    /\ \A c \in Conv :
        /\ SF_vars(Visit(c, TRUE, BackfillPages))
        /\ \A ph \in {"tail", "backfill"} :
            /\ SF_vars(InFullVisit(c, ph) /\ Fetch)
            /\ SF_vars(InFullVisit(c, ph) /\ InsertRows)
            /\ SF_vars(InFullVisit(c, ph) /\ PutCursors)
            /\ SF_vars(InFullVisit(c, ph) /\ EmptyPage)

FairSpec == Spec /\ Fairness

----------------------------------------------------------------------------
TypeOK ==
    /\ sent \in [Conv -> Nat]
    /\ archive \in [Conv -> SUBSET Nat]
    /\ syncState \in [Conv -> SyncState]
    /\ pc \in {"idle", "request", "received", "inserted"}
    /\ conv \in Conv
    /\ phase \in {"tail", "backfill"}
    /\ budget \in Nat
    /\ state \in SyncState
    /\ page \in Page

(***************************************************************************)
(* Between its two cursors a conversation has no hole.  newest_id and      *)
(* oldest_id are the only memory of what was fetched: whatever they enclose*)
(* is never asked for again, so a hole there would be permanent.           *)
(***************************************************************************)
NoHole ==
    \A c \in Conv :
        syncState[c].newest # None =>
            syncState[c].oldest .. syncState[c].newest \subseteq archive[c]

(***************************************************************************)
(* backfill_complete means what docs/schema.md says of it: the whole       *)
(* history up to the tail cursor is held.  The engine never walks back     *)
(* again once it is set.                                                   *)
(***************************************************************************)
CompleteIsComplete ==
    \A c \in Conv :
        syncState[c].complete => 1 .. syncState[c].newest \subseteq archive[c]

(***************************************************************************)
(* A visit works on a copy of the row it read at its start, across every   *)
(* request it awaits: when it writes, that copy is still the row.          *)
(***************************************************************************)
CopyIsCurrent == pc # "idle" => state = syncState[conv]

(***************************************************************************)
(* Why NoHole holds: the inductive invariant.  A page in flight still      *)
(* touches the end it was asked for when it is written, because the copy   *)
(* is current and only the engine moves the cursors; its rows are          *)
(* committed before the cursors move.                                      *)
(***************************************************************************)
WindowOK ==
    \A c \in Conv :
        /\ syncState[c].oldest = None <=> syncState[c].newest = None
        /\ syncState[c].oldest <= syncState[c].newest
        /\ syncState[c].newest <= sent[c]

PageTouches ==
    pc \in {"received", "inserted"} =>
        /\ 1 <= page.lo
        /\ page.hi <= sent[conv]
        /\ phase = "tail" /\ state.newest # None =>
                state.newest <= page.lo /\ page.lo <= state.newest + 1
        /\ phase = "backfill" /\ state.oldest # None =>
                page.hi = state.oldest - 1 /\ page.lo <= Greatest(1, page.hi)

RowsBeforeCursors ==
    pc = "inserted" => ~Empty(page) /\ Ids(page) \subseteq archive[conv]

BudgetLeft == pc # "idle" /\ phase = "backfill" => budget > 0

CursorInv == TypeOK /\ CopyIsCurrent /\ WindowOK /\ NoHole
                    /\ PageTouches /\ RowsBeforeCursors /\ BudgetLeft

(***************************************************************************)
(* Why CompleteIsComplete holds where no conversation was empty when the   *)
(* archive was made: the newest page then has messages, so only the page   *)
(* before the first message is empty.                                      *)
(***************************************************************************)
SealedAtTheStart ==
    /\ \A c \in Conv : sent[c] > 0
    /\ pc \in {"received", "inserted"} /\ state.oldest = None => ~Empty(page)
    /\ \A c \in Conv : syncState[c].complete => syncState[c].oldest = 1

(***************************************************************************)
(* No step forgets: rows stay, oldest_id only goes back, newest_id only    *)
(* goes forward, and backfill_complete is never reset.                     *)
(***************************************************************************)
Forgets(s, t) ==
    \/ s.complete /\ ~t.complete
    \/ t.newest < s.newest
    \/ s.oldest # None /\ (t.oldest = None \/ t.oldest > s.oldest)

NothingForgotten ==
    [][\A c \in Conv : /\ archive[c] \subseteq archive'[c]
                       /\ ~Forgets(syncState[c], syncState'[c])]_vars

(***************************************************************************)
(* The engine keeps the archive's promise: the cursors are the claim, and  *)
(* they are moved only over rows that are already committed.               *)
(***************************************************************************)
Claim == INSTANCE Archive WITH
    held   <- archive,
    window <- [c \in Conv |-> [lo |-> syncState[c].oldest,
                                hi |-> syncState[c].newest]],
    sealed <- [c \in Conv |-> syncState[c].complete]

KeepsThePromise == Claim!Spec

(***************************************************************************)
(* However often visits fail, every message is archived in the end: the    *)
(* walk resumes from the persisted cursors and is not lost or repeated     *)
(* for ever.                                                               *)
(***************************************************************************)
EverythingArchived ==
    \A c \in Conv : []<>(archive[c] = 1 .. sent[c])
=============================================================================
