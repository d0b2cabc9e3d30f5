----------------------------- MODULE SyncCycle -----------------------------
(***************************************************************************)
(* The one sync loop of the process (run_sync_loop in lib.rs) and the      *)
(* cycle it repeats (run_cycle in sync.rs), around the visits SyncCursor   *)
(* describes: the priority queue of client_sync_now and its wake-up, the   *)
(* two list calls, the recent-first pass over conversations never tailed,  *)
(* the deep pass, the media pass, standing down, and the rest in between.  *)
(*                                                                         *)
(* Conversations are visited in any order within a pass; the code takes    *)
(* them as list_conversations sorts them.  Reading state, rosters and      *)
(* former flags are refreshed on the way: what they write is Library's, but *)
(* that GroupMe may refuse them counts here.                               *)
(***************************************************************************)
EXTENDS Integers, Sequences

CONSTANTS
    Conv, PageLimit, InitialSent, MaxSent, AfterInclusive,   \* as in SyncCursor
    Groups,         \* the conversations the group list names; the chat list
                    \* names the others
    GentlePages,    \* backfill pages of one visit once the archive is complete
    CatchupPages,   \* backfill pages of one visit while it is filling
    MaxQueue,       \* bound: priority requests waiting at once, and callers
                    \* between their push and their notify
    InitialMedia    \* media queued when the process starts

ASSUME CycleAssumption ==
    /\ Groups \subseteq Conv
    /\ GentlePages \in Nat \ {0}
    /\ CatchupPages \in Nat
    /\ GentlePages <= CatchupPages
    /\ MaxQueue \in Nat
    /\ InitialMedia \in Nat

VARIABLES
    sent, archive, syncState, pc, conv, phase, budget, state, page,  \* SyncCursor
    queue,       \* SyncNow.queue: priority requests not yet drained
    notifying,   \* callers that pushed and have not notified yet
    permit,      \* SyncNow.notify holds a permit
    loop,        \* where the sync loop stands
    drained,     \* the priority requests it took, in order
    known,       \* conversations that have a row in archive.db
    listed,      \* the conversations this cycle works on
    todo,        \* those the current pass has still to visit
    swept,       \* what the recent-first pass made of each
    catchingUp,  \* some listed conversation was incomplete at the start
    gained,      \* the current visit wrote a row or was told of a beginning
    progressed,  \* a visit of this cycle that succeeded gained something
    refused,     \* if the last request since the rest was answered 401 or 429:
                 \* it ended the cycle or the media pass, or was only logged
    moreWork,    \* SyncReport.more_work: rest two seconds, not sixty
    media        \* attachments and avatars still to download

cursorVars == <<sent, archive, syncState, pc, conv, phase, budget, state, page>>
queueVars  == <<queue, notifying, permit>>
cycleVars  == <<known, listed, todo, swept, catchingUp, progressed, refused,
                moreWork, media>>
vars == <<cursorVars, queueVars, loop, drained, gained, cycleVars>>

Cursor == INSTANCE SyncCursor WITH BackfillPages <- CatchupPages

ASSUME VisitAssumption == Cursor!CursorAssumption

NeverTailed(c) == syncState[c].newest = Cursor!None /\ ~syncState[c].complete

Pages == IF catchingUp THEN CatchupPages ELSE GentlePages

----------------------------------------------------------------------------
(* client_sync_now: SyncNow::enqueue pushes under the mutex, then notifies *)

Push(c) ==
    /\ Len(queue) < MaxQueue
    /\ notifying < MaxQueue
    /\ queue' = Append(queue, c)
    /\ notifying' = notifying + 1
    /\ UNCHANGED <<cursorVars, permit, loop, drained, gained, cycleVars>>

\* A bug NoLostWakeup must catch: notify_waiters, which leaves no permit.
BugNotifyWaiters ==
    /\ notifying > 0
    /\ notifying' = notifying - 1
    /\ permit' = (permit \/ loop = "rest")
    /\ UNCHANGED <<cursorVars, queue, loop, drained, gained, cycleVars>>

\* notify_one: a loop that is not waiting finds the permit when it next waits.
Notify ==
    /\ notifying > 0
    /\ notifying' = notifying - 1
    /\ permit' = TRUE
    /\ UNCHANGED <<cursorVars, queue, loop, drained, gained, cycleVars>>

----------------------------------------------------------------------------
(* run_sync_loop *)

\* start_sync has verified the account and enters the loop.
Start ==
    /\ loop = "starting"
    /\ loop' = "drain"
    /\ UNCHANGED <<cursorVars, queueVars, drained, gained, cycleVars>>

Drain ==
    /\ loop = "drain"
    /\ drained' = queue
    /\ queue' = <<>>
    /\ loop' = "priority"
    /\ UNCHANGED <<cursorVars, notifying, permit, gained, cycleVars>>

\* A bug VisitsAsDescribed must catch: a visit is started, not awaited.
BugVisitNotAwaited(c, tail, pages) ==
    /\ pc' = "request"
    /\ conv' = c
    /\ phase' = IF tail THEN "tail" ELSE "backfill"
    /\ budget' = pages
    /\ state' = syncState[c]
    /\ page' = Cursor!NoPage
    /\ gained' = FALSE
    /\ UNCHANGED <<sent, archive, syncState, queueVars, loop, drained, cycleVars>>

\* sync_conversation_detail is called and awaited.
Visit(c, tail, pages) ==
    /\ Cursor!Visit(c, tail, pages)
    /\ gained' = FALSE
    /\ UNCHANGED <<queueVars, loop, drained, cycleVars>>

PriorityVisit ==
    /\ loop = "priority"
    /\ drained # <<>>
    /\ Visit(Head(drained), TRUE, GentlePages)

\* sync_once starts a fresh report.
StartCycle ==
    /\ loop = "priority"
    /\ drained = <<>>
    /\ loop' = "groups"
    /\ UNCHANGED <<cursorVars, queueVars, drained, gained, cycleVars>>

----------------------------------------------------------------------------
(* run_cycle *)

\* The locals of sync_once and run_cycle go with the cycle.
DropLocals ==
    /\ listed' = {}
    /\ todo' = {}
    /\ swept' = [c \in Conv |-> "no"]
    /\ catchingUp' = TRUE
    /\ progressed' = FALSE

EndCycle(more) ==
    /\ loop' = "rest"
    /\ moreWork' = more
    /\ DropLocals

\* The cycle went through: finish decides how long to rest, by the cursors it
\* could read.
Finish(left, readable) ==
    LET cached      == left < media
        backfilling == \E c \in readable : ~syncState[c].complete
    IN  EndCycle((progressed \/ cached) /\ (backfilling \/ cached))

\* stand_down, and every other early return of run_cycle.
GiveUp == EndCycle(FALSE)

\* The list call may fail, and any of its rows may fail to be written; either
\* way the cycle goes on with what the archive holds.
ListGroups ==
    /\ loop = "groups"
    /\ \E G \in SUBSET Groups : known' = known \cup G
    /\ loop' = "chats"
    /\ refused' = "none"
    /\ UNCHANGED <<cursorVars, queueVars, drained, gained, listed, todo, swept,
                   catchingUp, progressed, moreWork, media>>

ListChats ==
    /\ loop = "chats"
    /\ \E G \in SUBSET (Conv \ Groups) : known' = known \cup G
    /\ loop' = "aside"
    /\ refused' = "none"
    /\ UNCHANGED <<cursorVars, queueVars, drained, gained, listed, todo, swept,
                   catchingUp, progressed, moreWork, media>>

ListRefused ==
    /\ loop \in {"groups", "chats"}
    /\ GiveUp
    /\ refused' = "cycle"
    /\ UNCHANGED <<cursorVars, queueVars, drained, gained, known, media>>

\* refresh_read_state, then group_detail for up to forty groups; the last of
\* them is answered, or fails.  What the answers write is not modelled here.
AskAside ==
    /\ loop = "aside"
    /\ loop' = "list"
    /\ refused' = "none"
    /\ UNCHANGED <<cursorVars, queueVars, drained, gained, known, listed, todo,
                   swept, catchingUp, progressed, moreWork, media>>

\* One of these requests is refused, which is logged like any failure; the next
\* is made, or it was the last.
AsideRefused ==
    /\ loop = "aside"
    /\ loop' \in {"aside", "list"}
    /\ refused' = "logged"
    /\ UNCHANGED <<cursorVars, queueVars, drained, gained, known, listed, todo,
                   swept, catchingUp, progressed, moreWork, media>>

\* sync_states: the conversations whose cursor could be read.
Readable(unread) == known \ unread

\* A bug RecentFirst must catch: only the unread cursors count as never tailed.
BugSkipsTheColdOnes(unread) ==
    /\ loop = "list"
    /\ listed' = known
    /\ todo' = unread
    /\ swept' = [c \in Conv |-> "no"]
    /\ catchingUp' = \E c \in known : c \in unread \/ ~syncState[c].complete
    /\ loop' = "recent"
    /\ UNCHANGED <<cursorVars, queueVars, drained, gained, known, progressed,
                   refused, moreWork, media>>

\* list_conversations and never_tailed.  A cursor that cannot be read counts as
\* one that does not exist.
ReadCursors(unread) ==
    /\ loop = "list"
    /\ listed' = known
    /\ todo' = {c \in known : c \in Readable(unread) => NeverTailed(c)}
    /\ swept' = [c \in Conv |-> "no"]
    /\ catchingUp' = \E c \in known : c \in Readable(unread) => ~syncState[c].complete
    /\ loop' = "recent"
    /\ UNCHANGED <<cursorVars, queueVars, drained, gained, known, progressed,
                   refused, moreWork, media>>

ListUnreadable ==
    /\ loop = "list"
    /\ GiveUp
    /\ UNCHANGED <<cursorVars, queueVars, drained, gained, known, refused, media>>

\* Pass 1: the newest page only, everywhere it was never asked for.
RecentVisit(c) ==
    /\ loop = "recent"
    /\ c \in todo
    /\ Visit(c, TRUE, 0)

RecentDone ==
    /\ loop = "recent"
    /\ todo = {}
    /\ loop' = "deep"
    /\ todo' = listed
    /\ UNCHANGED <<cursorVars, queueVars, drained, gained, known, listed, swept,
                   catchingUp, progressed, refused, moreWork, media>>

\* A bug CatchesUp must catch: what pass 1 did not touch is only tailed.
BugDeepPassTailsOnly(c) ==
    /\ loop = "deep"
    /\ c \in todo
    /\ swept[c] = "no"
    /\ Visit(c, TRUE, 0)

\* Pass 2: walk back, and tail what pass 1 did not.
DeepVisit(c) ==
    /\ loop = "deep"
    /\ c \in todo
    /\ swept[c] # "failed"
    /\ Visit(c, swept[c] = "no", Pages)

\* Failed in pass 1, or swept there and complete: no request is made.
DeepSkip(c) ==
    /\ loop = "deep"
    /\ pc = "idle"
    /\ c \in todo
    /\ swept[c] = "failed" \/ (swept[c] = "ok" /\ syncState[c].complete)
    /\ todo' = todo \ {c}
    /\ UNCHANGED <<cursorVars, queueVars, loop, drained, gained, known, listed,
                   swept, catchingUp, progressed, refused, moreWork, media>>

----------------------------------------------------------------------------
(* The visit under way *)

\* The caller's bookkeeping for a visit that returned Ok.
VisitOk(gain) ==
    \/ /\ loop = "priority"
       /\ drained' = Tail(drained)
       /\ UNCHANGED <<todo, swept, progressed>>
    \/ /\ loop = "recent"
       /\ todo' = todo \ {conv}
       /\ swept' = [swept EXCEPT ![conv] = "ok"]
       /\ progressed' = (progressed \/ gain)
       /\ UNCHANGED drained
    \/ /\ loop = "deep"
       /\ todo' = todo \ {conv}
       /\ progressed' = (progressed \/ gain)
       /\ UNCHANGED <<drained, swept>>

\* An empty page that sets backfill_complete, be it set already or not.
Seals == pc = "received" /\ Cursor!Empty(page) /\ (phase = "backfill" \/ Cursor!Seeding)

\* Row writes that change nothing do not count; one that finds a held message
\* changed does.  What a visit that fails half-way had gained is not reported.
VisitStep ==
    /\ Cursor!EngineStep
    /\ \E rewritten \in {FALSE, pc' = "inserted"} :
       LET gain == gained \/ archive' # archive \/ rewritten \/ Seals
       IN  \/ /\ pc' = "idle"
              /\ gained' = FALSE
              /\ VisitOk(gain)
           \/ /\ pc' # "idle"
              /\ gained' = gain
              /\ UNCHANGED <<drained, todo, swept, progressed>>
    /\ refused' = "none"
    /\ UNCHANGED <<queueVars, loop, known, listed, catchingUp, moreWork, media>>

\* A failure that is about this conversation, or transient: the cycle goes on.
VisitFails ==
    /\ Cursor!VisitFails
    /\ \/ /\ loop = "priority"
          /\ drained' = Tail(drained)
          /\ UNCHANGED <<todo, swept>>
       \/ /\ loop = "recent"
          /\ todo' = todo \ {conv}
          /\ swept' = [swept EXCEPT ![conv] = "failed"]
          /\ UNCHANGED drained
       \/ /\ loop = "deep"
          /\ todo' = todo \ {conv}
          /\ UNCHANGED <<drained, swept>>
    /\ gained' = FALSE
    /\ refused' = "none"
    /\ UNCHANGED <<queueVars, loop, known, listed, catchingUp, progressed, moreWork,
                   media>>

\* A bug StandsDown must catch: the answer of stand_down is not looked at.
BugStandDownIgnored ==
    /\ pc = "request"
    /\ Cursor!VisitFails
    /\ IF loop = "priority"
       THEN drained' = Tail(drained) /\ refused' = "logged" /\ UNCHANGED todo
       ELSE todo' = todo \ {conv} /\ refused' = "cycle" /\ UNCHANGED drained
    /\ gained' = FALSE
    /\ UNCHANGED <<queueVars, loop, known, listed, swept, catchingUp, progressed,
                   moreWork, media>>

\* 401, or a 429 the client's own retries could not ride out.  A cycle gives up;
\* a priority visit only logs it.
VisitRefused ==
    /\ pc = "request"
    /\ Cursor!VisitFails
    /\ \/ /\ loop = "priority"
          /\ drained' = Tail(drained)
          /\ refused' = "logged"
          /\ UNCHANGED <<loop, moreWork, listed, todo, swept, catchingUp, progressed>>
       \/ /\ loop \in {"recent", "deep"}
          /\ GiveUp
          /\ refused' = "cycle"
          /\ UNCHANGED drained
    /\ gained' = FALSE
    /\ UNCHANGED <<queueVars, known, media>>

----------------------------------------------------------------------------
(* The end of a cycle *)

\* A bug GoesIdle must catch: incomplete history alone brings the loop back.
BugMoreWorkUngated ==
    /\ loop = "deep"
    /\ todo = {}
    /\ EndCycle(\E c \in listed : ~syncState[c].complete)
    /\ UNCHANGED <<cursorVars, queueVars, drained, gained, known, refused, media>>

\* The media pass leaves some of what is queued, then the cycle reports.
EndPass(left) ==
    /\ loop = "deep"
    /\ todo = {}
    /\ media' = left
    /\ \E readable \in SUBSET listed : Finish(left, readable)
    /\ UNCHANGED <<cursorVars, queueVars, drained, gained, known>>

MediaPass == UNCHANGED refused /\ \E left \in 0 .. media : EndPass(left)

\* 429 from the media server: the pass waits the backoff and ends, with one at
\* least not downloaded, but the cycle reports as ever and may rest short.
MediaRefused ==
    /\ \E left \in 1 .. media : EndPass(left)
    /\ refused' = "pass"

\* tokio::select! on the delay, the notify and the token.
Wake(next) ==
    /\ loop = "rest"
    /\ loop' = next
    /\ refused' = "none"
    /\ moreWork' = FALSE
    /\ UNCHANGED <<cursorVars, queue, notifying, drained, gained, known, listed,
                   todo, swept, catchingUp, progressed, media>>

DelayPasses == Wake("drain") /\ UNCHANGED permit

Notified == permit /\ permit' = FALSE /\ Wake("drain")

TokenChanges == Wake("starting") /\ UNCHANGED permit

\* The process stops; what the store committed is all that is left.
Crash ==
    /\ IF pc = "idle" THEN UNCHANGED cursorVars ELSE Cursor!VisitFails
    /\ loop' = "starting"
    /\ queue' = <<>>
    /\ notifying' = 0
    /\ permit' = FALSE
    /\ drained' = <<>>
    /\ gained' = FALSE
    /\ DropLocals
    /\ refused' = "none"
    /\ moreWork' = FALSE
    /\ UNCHANGED <<known, media>>

----------------------------------------------------------------------------
Elsewhere ==
    /\ \/ \E c \in Conv : Cursor!Send(c)
       \/ \E c \in Conv : \E m \in 1 .. sent[c] : Cursor!RealtimeMessage(c, m)
    /\ UNCHANGED <<queueVars, loop, drained, gained, cycleVars>>

Init ==
    /\ Cursor!Init
    /\ queue = <<>>
    /\ notifying = 0
    /\ permit = FALSE
    /\ loop = "starting"
    /\ drained = <<>>
    /\ known = {}
    /\ listed = {}
    /\ todo = {}
    /\ swept = [c \in Conv |-> "no"]
    /\ catchingUp = TRUE
    /\ progressed = FALSE
    /\ gained = FALSE
    /\ refused = "none"
    /\ moreWork = FALSE
    /\ media = InitialMedia

\* What the loop does by itself, failures apart.
LoopStep ==
    \/ Start \/ Drain \/ PriorityVisit \/ StartCycle
    \/ ListGroups \/ ListChats \/ AskAside \/ ReadCursors({})
    \/ \E c \in Conv : RecentVisit(c) \/ DeepVisit(c) \/ DeepSkip(c)
    \/ RecentDone \/ VisitStep \/ MediaPass \/ Notified \/ DelayPasses

Next ==
    \/ Elsewhere
    \/ \E c \in Conv : Push(c)
    \/ Notify
    \/ LoopStep
    \/ ListRefused \/ AsideRefused \/ ListUnreadable
    \/ \E unread \in SUBSET known : ReadCursors(unread)
    \/ VisitFails \/ VisitRefused \/ MediaRefused
    \/ TokenChanges \/ Crash

Spec == Init /\ [][Next]_vars

(***************************************************************************)
(* The loop is one task: whatever it can do next it does, its delay ends,  *)
(* and a caller that pushed also notifies.  Nothing is assumed of GroupMe, *)
(* of the other writers, or of failures.                                   *)
(***************************************************************************)
Fairness == WF_vars(LoopStep) /\ WF_vars(Notify)

FairSpec == Spec /\ Fairness

----------------------------------------------------------------------------
TypeOK ==
    /\ Cursor!TypeOK
    /\ queue \in Seq(Conv)
    /\ notifying \in Nat
    /\ permit \in BOOLEAN
    /\ loop \in {"starting", "drain", "priority", "groups", "chats", "aside", "list",
                "recent", "deep", "rest"}
    /\ drained \in Seq(Conv)
    /\ known \subseteq Conv
    /\ listed \subseteq Conv
    /\ todo \subseteq Conv
    /\ swept \in [Conv -> {"no", "ok", "failed"}]
    /\ catchingUp \in BOOLEAN
    /\ gained \in BOOLEAN
    /\ progressed \in BOOLEAN
    /\ refused \in {"none", "logged", "pass", "cycle"}
    /\ moreWork \in BOOLEAN
    /\ media \in Nat

(***************************************************************************)
(* Recent everywhere before complete anywhere: while a cycle walks one     *)
(* conversation back, every other it works on has been tailed, in this     *)
(* cycle or an earlier one, unless asking for its newest page just failed. *)
(***************************************************************************)
RecentFirst ==
    pc # "idle" /\ phase = "backfill" /\ loop \in {"recent", "deep"} =>
        \A c \in listed : NeverTailed(c) => swept[c] = "failed"

(***************************************************************************)
(* A loop that rests while a priority request waits has been told, or is   *)
(* about to be: the request is never left to the sixty seconds.            *)
(***************************************************************************)
NoLostWakeup ==
    loop = "rest" /\ queue # <<>> => permit \/ notifying > 0

(***************************************************************************)
(* Where stand_down is asked, the cycle stands down: told 401 or 429 when  *)
(* it lists groups or chats or asks for a page, in either pass, it makes   *)
(* no further request before it has rested, and does not rest short, even  *)
(* if it made progress before or was refused elsewhere on its way.         *)
(***************************************************************************)
StandsDown == refused = "cycle" => loop = "rest" /\ pc = "idle" /\ ~moreWork

(***************************************************************************)
(* stand_down: pressing on is how an account gets flagged, and the pause   *)
(* applies wherever the error surfaced.  So no page is asked for between a *)
(* refusal and the rest that ends it.  TLC refutes it: a refusal met by a  *)
(* priority visit, or asking for receipts or a roster, is only logged, and *)
(* the next request follows.                                               *)
(***************************************************************************)
PausesWhereverRefused == refused # "none" => pc = "idle"

\* The process is not restarted for ever, and messages held cease to change.
StaysUp == <>[][~Crash]_vars
Rewritten == VisitStep /\ gained' /\ ~gained /\ archive' = archive
CalmsDown == <>[][~Rewritten]_vars

(***************************************************************************)
(* The loop does not spin: a process that stays up always comes to a full  *)
(* rest again, even when one conversation fails for good and its history   *)
(* stays incomplete.  It takes that no conversation is empty: every visit  *)
(* to an empty one counts as progress.                                     *)
(***************************************************************************)
GoesIdle == StaysUp /\ CalmsDown => []<>(loop = "rest" /\ ~moreWork)

(***************************************************************************)
(* Once nothing fails any more, the passes archive every message, whatever *)
(* failed before: neither the split of tail and walk over two passes, nor  *)
(* the snapshot of the cursors, nor the order of visits leaves one out.    *)
(***************************************************************************)
Failure ==
    \/ VisitFails \/ VisitRefused \/ ListRefused \/ AsideRefused \/ MediaRefused
    \/ ListUnreadable \/ Crash
    \/ ListGroups /\ ~(Groups \subseteq known')
    \/ ListChats /\ ~(Conv \ Groups \subseteq known')

CatchesUp ==
    <>[][~Failure]_vars => \A c \in Conv : <>[](archive[c] = 1 .. sent[c])

(***************************************************************************)
(* The loop only ever makes the visits SyncCursor describes: what holds of *)
(* the cursors there holds of the whole engine.                            *)
(***************************************************************************)
VisitsAsDescribed == Cursor!Spec
=============================================================================
