------------------------------ MODULE Library ------------------------------
(***************************************************************************)
(* The conversations table (upsert_group_meta, upsert_group, upsert_chat,  *)
(* mark_former_groups, apply_read_receipts, groups_needing_members in      *)
(* store.rs) and the head of a sync cycle that keeps it (run_cycle and     *)
(* refresh_read_state in sync.rs): the list of groups, the list of chats,  *)
(* the read receipts and the rosters, each a request and a write with the  *)
(* world moving in between.                                                *)
(*                                                                         *)
(* A conversation is one identity here: receipts name a direct message by  *)
(* its thread key and apply_read_receipts resolves it.  What the rows are  *)
(* then used for is the subject of SyncCycle.                              *)
(***************************************************************************)
EXTENDS Integers, FiniteSets

CONSTANTS
    Group,        \* groups that exist
    Chat,         \* direct messages that exist
    RosterLimit,   \* groups_needing_members: rosters asked for per cycle
    MaxMoves       \* bound: what happens on the server while we watch

ASSUME LibraryAssumption ==
    /\ Group \cap Chat = {}
    /\ RosterLimit \in Nat \ {0}
    /\ MaxMoves \in Nat

Conversation == Group \cup Chat

VARIABLES
    member,    \* the groups the account is in
    sent,      \* messages of each conversation, numbered from 1
    read,      \* the last one its owner has read, 0 for none
    moves,     \* what has happened on the server
    rows,      \* the conversations table
    step,        \* where the cycle stands
    answer,    \* the answer about to be stored
    need,      \* groups whose roster this cycle will still ask for
    evidence   \* whether the last answer stored about a group listed it
               \* (a history)

serverVars == <<member, sent, read, moves>>
tableVars  == <<rows, evidence>>
libraryVars == <<serverVars, tableVars, step, answer, need>>

\* list_conversations: what a reader is shown.
Listed == {c \in Conversation : rows[c].known}

\* No row, and no answer.
NoRow == [known |-> FALSE, former |-> FALSE, roster |-> FALSE, latest |-> 0,
          lastRead |-> 0, unread |-> "unknown"]

\* What the server says now, and whether it names the read state.
World(present, told) ==
    [present |-> present, latest |-> sent, read |-> read, told |-> told]

NoAnswer == [present |-> {}, latest |-> [c \in Conversation |-> 0],
             read |-> [c \in Conversation |-> 0], told |-> FALSE]

----------------------------------------------------------------------------
(* The server *)

Move ==
    /\ moves < MaxMoves
    /\ moves' = moves + 1
    /\ UNCHANGED <<tableVars, step, answer, need>>

\* client_leave_group, a removal, or the same on another device.
Leave(g) ==
    /\ Move
    /\ g \in member
    /\ member' = member \ {g}
    /\ UNCHANGED <<sent, read>>

Join(g) ==
    /\ Move
    /\ g \notin member
    /\ member' = member \cup {g}
    /\ UNCHANGED <<sent, read>>

NewMessage(c) ==
    /\ Move
    /\ c \in member \cup Chat
    /\ sent' = [sent EXCEPT ![c] = @ + 1]
    /\ UNCHANGED <<member, read>>

\* client_mark_read, or the reader of another device.
MarkRead(c) ==
    /\ Move
    /\ c \in member \cup Chat
    /\ read[c] # sent[c]
    /\ read' = [read EXCEPT ![c] = sent[c]]
    /\ UNCHANGED <<member, sent>>

----------------------------------------------------------------------------
(* The table *)

\* A bug NothingGoesBack must catch: no COALESCE.
BugNullsOverwrite(row, a, c) ==
    [row EXCEPT !.unread = IF ~a.told THEN "unknown"
                           ELSE IF a.read[c] = a.latest[c] THEN "zero" ELSE "some",
                !.lastRead = IF a.told THEN a.read[c] ELSE 0]

\* What an answer's read state makes of a row: COALESCE, so that one that
\* names none leaves the row's.
ReadState(row, a, c) ==
    IF a.told
    THEN [row EXCEPT !.unread = IF a.read[c] = a.latest[c] THEN "zero" ELSE "some",
                     !.lastRead = IF a.read[c] = 0 THEN @ ELSE a.read[c]]
    ELSE row

Upsert(row, a, c) ==
    ReadState([row EXCEPT !.known = TRUE, !.latest = a.latest[c]], a, c)

\* upsert_group_meta: a group of the lean list.  The roster is not touched.
UpsertGroupMeta(row, a, g) == [Upsert(row, a, g) EXCEPT !.former = FALSE]

\* upsert_chat.
UpsertChat(row, a, c) == Upsert(row, a, c)

\* A bug FormerFollowsEvidence must catch: a group whose detail is fetched
\* stays former.
BugFormerKept(row, a, g) == [Upsert(row, a, g) EXCEPT !.roster = TRUE]

\* upsert_group: a group's detail, with its members.
UpsertGroup(row, a, g) ==
    [Upsert(row, a, g) EXCEPT !.former = FALSE, !.roster = TRUE]

\* mark_former_groups: all of them, then the listed ones not.
MarkFormer(table, present) ==
    [c \in Conversation |-> IF c \in Group /\ table[c].known
                            THEN [table[c] EXCEPT !.former = c \notin present]
                            ELSE table[c]]

\* A bug TableSettles must catch: whatever was read last, all of it was.
BugReceiptMeansRead(row, lastRead) ==
    IF ~row.known THEN row
    ELSE [row EXCEPT !.lastRead = lastRead,
                     !.unread = IF lastRead # 0 THEN "zero" ELSE "unknown"]

\* apply_read_receipts: nothing is unread exactly when the last message read
\* is the latest the row names; otherwise the count is not known.
Receipt(row, lastRead) ==
    IF ~row.known THEN row
    ELSE [row EXCEPT !.lastRead = lastRead,
                     !.unread = IF lastRead # 0 /\ lastRead = row.latest
                                THEN "zero" ELSE "unknown"]

\* groups_needing_members: the most recent first, former groups included.
LacksRoster == {g \in Group : rows[g].known /\ ~rows[g].roster}

\* A bug RostersFill must catch: the limit is applied to all groups, and the
\* missing rosters looked for among those.
BugLimitFirst ==
    LET Known == {g \in Group : rows[g].known}
        Batch == {S \in SUBSET Known :
                    /\ Cardinality(S) = RosterLimit \/ S = Known
                    /\ Cardinality(S) <= RosterLimit}
    IN  {S \cap LacksRoster : S \in Batch}

NeedingMembers ==
    {S \in SUBSET LacksRoster :
        /\ Cardinality(S) = RosterLimit \/ S = LacksRoster
        /\ Cardinality(S) <= RosterLimit
        /\ \A g \in S, h \in LacksRoster \ S : rows[g].latest >= rows[h].latest}

----------------------------------------------------------------------------
(* The cycle *)

StartCycle ==
    /\ step = "idle"
    /\ step' = "groups"
    /\ UNCHANGED <<serverVars, tableVars, answer, need>>

GroupsAnswered ==
    /\ step = "groups"
    /\ \E told \in BOOLEAN : answer' = World(member, told)
    /\ step' = "storeGroups"
    /\ UNCHANGED <<serverVars, tableVars, need>>

\* The list is taken page by page, and comes back short: a page refused
\* through the window decodes as empty and ends it, and a group that moves up
\* between two pages is on neither.
GroupsCutShort ==
    /\ step = "groups"
    /\ \E listed \in SUBSET member :
          /\ listed # member
          /\ answer' = World(listed, FALSE)
    /\ step' = "storeGroups"
    /\ UNCHANGED <<serverVars, tableVars, need>>

\* A bug TableSettles must catch: only the groups listed are looked at.
BugNobodyFormer ==
    /\ step = "storeGroups"
    /\ rows' = [c \in Conversation |-> IF c \in answer.present
                                       THEN UpsertGroupMeta(rows[c], answer, c)
                                       ELSE rows[c]]
    /\ evidence' = [g \in Group |-> g \in answer.present]
    /\ answer' = NoAnswer
    /\ step' = "chats"
    /\ UNCHANGED <<serverVars, need>>

StoreGroups ==
    /\ step = "storeGroups"
    /\ rows' = MarkFormer([c \in Conversation |-> IF c \in answer.present
                                                  THEN UpsertGroupMeta(rows[c], answer, c)
                                                  ELSE rows[c]],
                          answer.present)
    /\ evidence' = [g \in Group |-> g \in answer.present]
    /\ answer' = NoAnswer
    /\ step' = "chats"
    /\ UNCHANGED <<serverVars, need>>

ChatsAnswered ==
    /\ step = "chats"
    /\ \E told \in BOOLEAN : answer' = World({c \in Chat : sent[c] > 0}, told)
    /\ step' = "storeChats"
    /\ UNCHANGED <<serverVars, tableVars, need>>

StoreChats ==
    /\ step = "storeChats"
    /\ rows' = [c \in Conversation |-> IF c \in answer.present
                                       THEN UpsertChat(rows[c], answer, c) ELSE rows[c]]
    /\ answer' = NoAnswer
    /\ step' = "receipts"
    /\ UNCHANGED <<serverVars, evidence, need>>

\* A list call failed: the cycle goes on to the next, or stands down.
ListFails ==
    /\ \/ step = "groups" /\ step' \in {"chats", "idle"}
       \/ step = "chats" /\ step' \in {"receipts", "idle"}
    /\ UNCHANGED <<serverVars, tableVars, answer, need>>

ReceiptsAnswered ==
    /\ step = "receipts"
    /\ answer' = World(Conversation, TRUE)
    /\ step' = "storeReceipts"
    /\ UNCHANGED <<serverVars, tableVars, need>>

StoreReceipts ==
    /\ step = "storeReceipts"
    /\ rows' = [c \in Conversation |-> Receipt(rows[c], answer.read[c])]
    /\ answer' = NoAnswer
    /\ step' = "rosters"
    /\ UNCHANGED <<serverVars, evidence, need>>

\* refresh_read_state failed, or the account is not known yet.
ReceiptsFail ==
    /\ step = "receipts"
    /\ step' = "rosters"
    /\ UNCHANGED <<serverVars, tableVars, answer, need>>

ListRosters ==
    /\ step = "rosters"
    /\ need' \in NeedingMembers
    /\ step' = "details"
    /\ UNCHANGED <<serverVars, tableVars, answer>>

\* group_detail answers for a group the account is in.
DetailAnswered(g) ==
    /\ step = "details"
    /\ g \in need \cap member
    /\ need' = need \ {g}
    /\ \E told \in BOOLEAN : answer' = World({g}, told)
    /\ step' = "storeDetail"
    /\ UNCHANGED <<serverVars, tableVars>>

StoreDetail ==
    /\ step = "storeDetail"
    /\ \E g \in answer.present :
          /\ rows' = [rows EXCEPT ![g] = UpsertGroup(@, answer, g)]
          /\ evidence' = [evidence EXCEPT ![g] = TRUE]
    /\ answer' = NoAnswer
    /\ step' = "details"
    /\ UNCHANGED <<serverVars, need>>

\* It fails: the roster stays for the next cycle.
DetailFails(g) ==
    /\ step = "details"
    /\ g \in need
    /\ need' = need \ {g}
    /\ UNCHANGED <<serverVars, tableVars, step, answer>>

EndCycle ==
    /\ step = "details"
    /\ need = {}
    /\ step' = "idle"
    /\ UNCHANGED <<serverVars, tableVars, answer, need>>

----------------------------------------------------------------------------
LibraryInit ==
    /\ member \in SUBSET Group
    /\ sent = [c \in Conversation |-> 1]
    /\ \E seen \in {0, 1} : read = [c \in Conversation |-> seen]
    /\ moves = 0
    /\ rows = [c \in Conversation |-> NoRow]
    /\ step = "idle"
    /\ answer = NoAnswer
    /\ need = {}
    /\ evidence = [g \in Group |-> TRUE]

LibraryNext ==
    \/ \E g \in Group : Leave(g) \/ Join(g)
    \/ \E c \in Conversation : NewMessage(c) \/ MarkRead(c)
    \/ StartCycle \/ GroupsAnswered \/ GroupsCutShort \/ StoreGroups
    \/ ChatsAnswered \/ StoreChats \/ ListFails
    \/ ReceiptsAnswered \/ StoreReceipts \/ ReceiptsFail
    \/ ListRosters \/ StoreDetail \/ EndCycle
    \/ \E g \in Group : DetailAnswered(g) \/ DetailFails(g)

LibrarySpec == LibraryInit /\ [][LibraryNext]_libraryVars

Cycle == StartCycle \/ StoreGroups \/ StoreChats \/ StoreReceipts
         \/ ListRosters \/ StoreDetail \/ EndCycle
         \/ ListFails \/ ReceiptsFail \/ \E g \in Group : DetailFails(g)

\* The loop runs cycle after cycle, and a call made over and over is answered
\* some time.
FairLibrarySpec ==
    /\ LibrarySpec
    /\ WF_libraryVars(Cycle)
    /\ SF_libraryVars(GroupsAnswered) /\ SF_libraryVars(ChatsAnswered)
    /\ SF_libraryVars(ReceiptsAnswered)
    /\ \A g \in Group : SF_libraryVars(DetailAnswered(g))

----------------------------------------------------------------------------
(* Properties *)

LibraryTypeOK ==
    /\ member \in SUBSET Group
    /\ sent \in [Conversation -> Nat]
    /\ read \in [Conversation -> Nat]
    /\ moves \in 0..MaxMoves
    /\ rows \in [Conversation -> [known : BOOLEAN, former : BOOLEAN, roster : BOOLEAN,
                                  latest : Nat, lastRead : Nat,
                                  unread : {"unknown", "zero", "some"}]]
    /\ step \in {"idle", "groups", "storeGroups", "chats", "storeChats",
               "receipts", "storeReceipts", "rosters", "details",
               "storeDetail"}
    /\ answer \in [present : SUBSET Conversation, latest : [Conversation -> Nat],
                   read : [Conversation -> Nat], told : BOOLEAN]
    /\ need \in SUBSET Group
    /\ evidence \in [Group -> BOOLEAN]

\* A group reads former exactly when the last answer that spoke of it did not
\* list it, whichever of the list and the detail came last and however often
\* calls failed in between (mark_former_groups, upsert_group).
FormerFollowsEvidence ==
    \A g \in Group : rows[g].known => (rows[g].former <=> ~evidence[g])

\* What the table has learnt of a conversation is not unlearnt: the row stays,
\* and neither its latest message nor the last one read goes back, though lists
\* come short, name no read state or fail, and the rows of one answer are
\* written over those of another (the COALESCE of upsert_group_meta).
NothingGoesBack ==
    [][\A c \in Listed : /\ rows'[c].known
                         /\ rows'[c].latest >= rows[c].latest
                         /\ rows'[c].lastRead >= rows[c].lastRead]_libraryVars

\* What the comment in run_cycle says: a filtered cycle must never mark every
\* group former because the list came back with nothing.  An empty answer that
\* counts as one does: this fails.
EmptyListMarksNobody ==
    [][step = "storeGroups" /\ answer.present = {} /\ member = Group
        => \A g \in Group : rows'[g].former => rows[g].former]_libraryVars

\* Once the server is quiet the row of every conversation the account is in
\* comes to name its latest message, and reads as read exactly when it is; a
\* group the account has left comes to read former, and one it is in does not
\* stay so.
TableSettles ==
    /\ \A c \in Conversation :
          <>[](c \in member \cup Chat =>
                  /\ c \in Listed
                  /\ rows[c].latest = sent[c]
                  /\ rows[c].unread = "zero" <=> read[c] = sent[c])
    /\ \A g \in Group :
          /\ <>[](g \notin member /\ g \in Listed => rows[g].former)
          /\ []<>(g \in member => ~rows[g].former)

\* Every group the account is in gets its roster, unless groups it has left
\* fill the batch of every cycle.
RostersFill ==
    \A g \in Group :
        <>[](g \in member /\ Cardinality(LacksRoster \ member) < RosterLimit
                => rows[g].roster)
=============================================================================
