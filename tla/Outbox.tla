------------------------------- MODULE Outbox -------------------------------
(***************************************************************************)
(* A message on its way out and back: the reader's composer (doSend in     *)
(* client.html), client_send_message and client_delete_message, the        *)
(* request loop of the API client (send_with_policy), and the three ways   *)
(* by which a message GroupMe holds reaches the archive and the window:    *)
(* the mirror of the answer, the frame of the socket, and the poll.        *)
(*                                                                         *)
(* A direct message has two keys: the other person's id, under which the   *)
(* reader opens it, the poll fetches it and the mirror files it, and the   *)
(* thread key its frames carry (DmKeys).  A group has one.                 *)
(*                                                                         *)
(* Messages are numbered in the order GroupMe accepts them.                *)
(***************************************************************************)
EXTENDS DmKeys, SequencesExt

CONSTANTS
    Me,            \* the account
    Threads,       \* conversations: groups, and the other person of a chat
    Dms,           \* those that are direct messages
    Nobody,        \* no conversation
    MaxRetries,    \* MAX_RETRIES
    MaxMessages,   \* bound: messages GroupMe comes to hold
    MaxCalls       \* bound: presses of send and of delete

ASSUME OutboxAssumption ==
    /\ Me \in Int
    /\ Threads \subseteq Int
    /\ Dms \subseteq Threads
    /\ Nobody \notin Threads
    /\ MaxRetries \in Nat
    /\ MaxMessages \in Nat \ {0}
    /\ MaxCalls \in Nat

VARIABLES
    posted,     \* GroupMe: the messages, oldest first
    gone,       \* GroupMe: those deleted
    request,    \* the send and the delete under way; call is the source_guid
    calls,      \* how often send and delete were pressed
    active,     \* the thread the window shows
    draft,      \* the thread the text put back into the composer was written
                \* for, Nobody for none
    shown,      \* the rows of the window, oldest first
    rows,       \* the archive: under which key each message is filed
    frames,     \* frames on their way, or lost: nothing says one arrives
    stored,     \* the frame the worker has stored and is about to emit
    refused     \* whether the store refused a write (a history)

server  == <<posted, gone>>
window  == <<active, draft, shown>>
carrier == <<frames, stored>>
vars == <<server, request, calls, window, rows, carrier, refused>>

Message == 1..MaxMessages
Ids     == 1..Len(posted)
Local   == 0          \* the optimistic row, whose id is not one of GroupMe's
Ops     == {"send", "delete"}
Frame   == [of : Message, what : {"posted", "gone"}]
NoFrame == [of |-> 0, what |-> "none"]

NoRequest == [pc |-> "idle", to |-> Nobody, from |-> Nobody, call |-> 0,
              msg |-> 0, attempt |-> 0]
NoRow     == [key |-> None, gone |-> FALSE]

\* A bug SettlesReadable must catch: every frame is filed as a direct message.
BugFrameKey(t) == ThreadKey(Me, t)

\* The key on a frame.
FrameKey(t) == IF t \in Dms THEN ThreadKey(Me, t) ELSE Stored(t)

\* What a page of the reader reads: messages_page under the key of the thread.
Readable(t) == {m \in Ids : posted[m].to = t /\ rows[m].key = Stored(t)}

\* A set of numbers in ascending order.
Ascending(S) ==
    [i \in 1..Cardinality(S) |->
        CHOOSE m \in S : Cardinality({k \in S : k <= m}) = i]

\* insert_messages: a row once filed stays under its key.
Insert(row, key, deleted) ==
    [key |-> IF row.key = None THEN key ELSE row.key,
     gone |-> row.gone \/ deleted]

\* apply_event of a deletion: nothing happens to a message not held.
Tombstone(row) == IF row.key = None THEN row ELSE [row EXCEPT !.gone = TRUE]

----------------------------------------------------------------------------
(* The window *)

Idle(op) == request[op].pc = "idle"

\* openConversation: the composer is emptied and the archive read.
Open(t) ==
    /\ t # active
    /\ active' = t
    /\ draft' = Nobody
    /\ shown' = Ascending(Readable(t))
    /\ UNCHANGED <<server, request, calls, rows, carrier, refused>>

\* doSend and client_send_message up to the request: one send at a time, of
\* what the reader types or of the text put back into the composer.
Send ==
    /\ Idle("send")
    /\ active # Nobody
    /\ calls < MaxCalls
    /\ calls' = calls + 1
    /\ request' = [request EXCEPT !["send"] =
                     [NoRequest EXCEPT !.pc = "waiting", !.to = active,
                                       !.from = IF draft = Nobody THEN active ELSE draft,
                                       !.call = calls + 1]]
    /\ draft' = Nobody
    /\ shown' = Append(shown, Local)
    /\ UNCHANGED <<server, active, rows, carrier, refused>>

\* doDelete and client_delete_message up to the request.
Delete(m) ==
    /\ Idle("delete")
    /\ m \in ToSet(shown)
    /\ calls < MaxCalls
    /\ calls' = calls + 1
    /\ request' = [request EXCEPT !["delete"] =
                     [NoRequest EXCEPT !.pc = "waiting", !.to = active,
                                       !.msg = m]]
    /\ UNCHANGED <<server, window, rows, carrier, refused>>

\* appendLive: a message shown is replaced, one older than the newest row is
\* left to the next open.
AppendLive(list, m) ==
    IF \/ m \in ToSet(list)
       \/ list # << >> /\ Last(list) > m
    THEN list ELSE Append(list, m)

\* replaceMessage(sent, localId).
ReplaceLocal(list, m) == [i \in DOMAIN list |-> IF list[i] = Local THEN m ELSE list[i]]

\* removeMessage(localId).
RemoveLocal(list) ==
    LET kept == Ascending({i \in DOMAIN list : list[i] # Local})
    IN  [i \in DOMAIN kept |-> list[kept[i]]]

----------------------------------------------------------------------------
(* GroupMe, as the requests meet it *)

Accept(t, from, call) ==
    /\ Len(posted) < MaxMessages
    /\ posted' = Append(posted, [to |-> t, from |-> from, call |-> call])
    /\ frames' = frames \cup {[of |-> Len(posted) + 1, what |-> "posted"]}
    /\ UNCHANGED gone

\* Someone else writes.
OtherPosts(t) ==
    /\ Accept(t, t, 0)
    /\ UNCHANGED <<request, calls, window, rows, stored, refused>>

\* A send is performed; the answer is on its way.
SendPerformed ==
    /\ request["send"].pc = "waiting"
    /\ LET to == request["send"].to IN
       Accept(IF to \in Dms THEN Recipient(Stored(to), Me)[1] ELSE to,
              request["send"].from, request["send"].call)
    /\ request' = [request EXCEPT !["send"].pc = "performed",
                                  !["send"].msg = Len(posted')]
    /\ UNCHANGED <<calls, window, rows, stored, refused>>

\* A deletion is performed.  The command gives the key of the reader, which
\* GroupMe does not know for a direct message.
DeletePerformed ==
    LET m == request["delete"].msg IN
    /\ request["delete"].pc = "waiting"
    /\ Stored(request["delete"].to) = FrameKey(request["delete"].to)
    /\ gone' = gone \cup {m}
    /\ frames' = frames \cup (IF m \in gone THEN {} ELSE {[of |-> m, what |-> "gone"]})
    /\ request' = [request EXCEPT !["delete"].pc = "performed"]
    /\ UNCHANGED <<posted, calls, window, rows, stored, refused>>

----------------------------------------------------------------------------
(* send_with_policy *)

\* A bug OnePostPerCall must catch: everything is replayed.
BugPolicy(op) == "Full"

\* Retry: a send may not be replayed after an answer that leaves open whether
\* it was performed.
Policy(op) == IF op = "send" THEN "RateLimitOnly" ELSE "Full"

Replay(op) ==
    /\ request[op].attempt < MaxRetries
    /\ request' = [request EXCEPT ![op].pc = "waiting", ![op].attempt = @ + 1]
    /\ UNCHANGED <<draft, shown>>

\* The command fails.  The page takes the optimistic row away if its thread is
\* still open, and puts the text back into the composer, open or not.
Fail(op) ==
    /\ request' = [request EXCEPT ![op] = NoRequest]
    /\ IF op = "send"
       THEN /\ draft' = request[op].from
            /\ shown' = IF active = request[op].to
                        THEN RemoveLocal(shown) ELSE shown
       ELSE UNCHANGED <<draft, shown>>

Unchanged == UNCHANGED <<server, calls, active, rows, carrier, refused>>

\* 429: refused before it was looked at.
RateLimited(op) ==
    /\ request[op].pc = "waiting"
    /\ \/ Replay(op)
       \/ request[op].attempt >= MaxRetries /\ Fail(op)
    /\ Unchanged

\* 5xx: performed or not.
ServerError(op) ==
    /\ request[op].pc \in {"waiting", "performed"}
    /\ \/ Policy(op) = "Full" /\ Replay(op)
       \/ /\ Policy(op) # "Full" \/ request[op].attempt >= MaxRetries
          /\ Fail(op)
    /\ Unchanged

\* Nobody signed in, no network, 401, 404 or another status; once performed,
\* a connection lost, or an answer of another shape.
Refused(op) ==
    /\ request[op].pc \in {"waiting", "performed"}
    /\ Fail(op)
    /\ Unchanged

----------------------------------------------------------------------------
(* The rest of the commands *)

\* What the command records of its answer.
Recorded(op, row) == IF op = "send" THEN Insert(row, Stored(request[op].to), FALSE)
                                   ELSE Tombstone(row)

\* The answer arrives and is mirrored: a refusal of the store is logged and
\* no more.
Mirror(op) ==
    LET m == request[op].msg IN
    /\ request[op].pc = "performed"
    /\ request' = [request EXCEPT ![op].pc = "mirrored"]
    /\ \/ /\ rows' = [rows EXCEPT ![m] = Recorded(op, @)]
          /\ UNCHANGED refused
       \/ rows' = rows /\ refused' = TRUE
    /\ UNCHANGED <<server, calls, window, carrier>>

\* The command returns to the page.
Return(op) ==
    /\ request[op].pc = "mirrored"
    /\ request' = [request EXCEPT ![op] = NoRequest]
    /\ shown' = IF op = "send" /\ active = request[op].to
                THEN ReplaceLocal(shown, request[op].msg) ELSE shown
    /\ UNCHANGED <<server, calls, active, draft, rows, carrier, refused>>

----------------------------------------------------------------------------
(* The socket and the poll *)

\* A bug ShownIsArchived must catch: emitted while it is being stored.
BugEmitFirst(f) ==
    /\ f \in frames
    /\ stored = NoFrame
    /\ frames' = frames \ {f}
    /\ stored' = f
    /\ shown' = IF posted[f.of].to = active THEN AppendLive(shown, f.of) ELSE shown
    /\ UNCHANGED <<server, request, calls, active, draft, rows, refused>>

\* handle_data, persist: the frame is filed under the key it carries.
StoreFrame(f) ==
    /\ f \in frames
    /\ stored = NoFrame
    /\ frames' = frames \ {f}
    /\ stored' = f
    /\ \/ /\ rows' = [rows EXCEPT ![f.of] =
                        IF f.what = "posted"
                        THEN Insert(@, FrameKey(posted[f.of].to), FALSE)
                        ELSE Tombstone(@)]
          /\ UNCHANGED refused
       \/ rows' = rows /\ refused' = TRUE
    /\ UNCHANGED <<server, request, calls, window>>

\* handle_data, emit: the page looks for the key of the thread it has open.
EmitFrame ==
    /\ stored # NoFrame
    /\ stored' = NoFrame
    /\ shown' = IF /\ stored.what = "posted"
                   /\ FrameKey(posted[stored.of].to) = Stored(active)
                THEN AppendLive(shown, stored.of) ELSE shown
    /\ UNCHANGED <<server, request, calls, active, draft, rows, frames, refused>>

\* A visit of the poll, whose pages are the subject of SyncCursor: everything
\* new comes in under the reader's key, deletions with it.
Poll(t) ==
    /\ rows' = [m \in Message |->
                  IF m \in Ids /\ posted[m].to = t
                  THEN Insert(rows[m], Stored(t), m \in gone) ELSE rows[m]]
    /\ UNCHANGED <<server, request, calls, window, carrier, refused>>

----------------------------------------------------------------------------
Init ==
    /\ posted = << >>
    /\ gone = {}
    /\ request = [op \in Ops |-> NoRequest]
    /\ calls = 0
    /\ active = Nobody
    /\ draft = Nobody
    /\ shown = << >>
    /\ rows = [m \in Message |-> NoRow]
    /\ frames = {}
    /\ stored = NoFrame
    /\ refused = FALSE

Outcome(op) ==
    \/ op = "send" /\ SendPerformed
    \/ op = "delete" /\ DeletePerformed
    \/ RateLimited(op) \/ ServerError(op) \/ Refused(op)

Next ==
    \/ \E t \in Threads : Open(t) \/ OtherPosts(t) \/ Poll(t)
    \/ Send
    \/ \E m \in Message : Delete(m)
    \/ \E op \in Ops : Outcome(op) \/ Mirror(op) \/ Return(op)
    \/ \E f \in frames : StoreFrame(f)
    \/ EmitFrame

Spec == Init /\ [][Next]_vars

\* A request ends some time, in whichever way; the engine keeps visiting.
FairSpec ==
    /\ Spec
    /\ \A op \in Ops : WF_vars(Outcome(op)) /\ WF_vars(Mirror(op))
                       /\ WF_vars(Return(op))
    /\ WF_vars(EmitFrame)
    /\ \A t \in Threads : WF_vars(Poll(t))

----------------------------------------------------------------------------
(* Properties *)

TypeOK ==
    /\ posted \in Seq([to : Threads, from : Threads, call : 0..MaxCalls])
    /\ gone \subseteq Ids
    /\ request \in [Ops -> [pc : {"idle", "waiting", "performed", "mirrored"},
                            to : Threads \cup {Nobody},
                            from : Threads \cup {Nobody},
                            call : 0..MaxCalls, msg : 0..MaxMessages, attempt : 0..MaxRetries]]
    /\ calls \in 0..MaxCalls
    /\ active \in Threads \cup {Nobody}
    /\ draft \in Threads \cup {Nobody}
    /\ shown \in Seq(Ids \cup {Local})
    /\ rows \in [Message -> [key : {None} \cup {Stored(t) : t \in Threads}
                                     \cup {FrameKey(t) : t \in Threads},
                              gone : BOOLEAN]]
    /\ frames \subseteq Frame
    /\ stored \in Frame \cup {NoFrame}
    /\ refused \in BOOLEAN

\* One press of send makes at most one message, however often it is replayed
\* and whatever becomes of the answers (the comment on Retry in api.rs).
OnePostPerCall ==
    \A m, n \in Ids :
        posted[m].call = posted[n].call /\ posted[m].call # 0 => m = n

\* The window shows no message the archive does not have, unless the store
\* refused one (the comments on persist in realtime.rs and on the mirror of a
\* send): whichever of echo, answer and poll comes first.
ShownIsArchived ==
    refused \/ \A m \in ToSet(shown) \ {Local} : rows[m].key # None

\* Every send and every deletion ends: send_with_policy replays so often.
SendingEnds == []<>(\A op \in Ops : Idle(op))

\* Whatever frames are lost and writes refused, each message of a group comes
\* to be read where the reader looks, and reads deleted if it is.
SettlesReadable ==
    <>[](\A m \in Ids :
            posted[m].to \notin Dms
              => m \in Readable(posted[m].to) /\ rows[m].gone = (m \in gone))

\* What realtime.rs says of its frames: written to the archive before they are
\* emitted, so that the window and the archive never disagree and a frame is
\* not lost.  A message whose frame was stored would be read in its thread.
FramesAreReadable ==
    \A m \in Ids : rows[m].key # None => m \in Readable(posted[m].to)

\* What the comment on new_source_guid says: the optimistic row is matched to
\* the server's copy instead of rendering twice, though the frame may come
\* before the answer.
ShownOnce == \A i, j \in DOMAIN shown : shown[i] = shown[j] => i = j

\* What the comments in doSend and on dm_recipient say: a failed text comes
\* back to be tried again, and a message goes to whom it was written for.
SentWhereWritten == \A m \in Ids : posted[m].from = posted[m].to
=============================================================================
