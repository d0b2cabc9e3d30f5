---------------------------- MODULE Store_proofs ----------------------------
(***************************************************************************)
(* What TLAPS proves of the three modules about the store, for any values  *)
(* of their constants: Library, Media and Statistics, which share nothing  *)
(* with each other.                                                        *)
(***************************************************************************)
EXTENDS Statistics, Library, Media, FiniteSetTheorems, TLAPS

----------------------------------------------------------------------------
(* The conversations table *)

Row    == [known : BOOLEAN, former : BOOLEAN, roster : BOOLEAN, latest : Nat,
           lastRead : Nat, unread : {"unknown", "zero", "some"}]
Answer == [present : SUBSET Conversation, latest : [Conversation -> Nat],
           read : [Conversation -> Nat], told : BOOLEAN]

Storing == step \in {"storeGroups", "storeChats", "storeReceipts", "storeDetail"}

\* An answer about to be stored names conversations of the kind that was asked
\* for: one that named a chat as a group, or the reverse, would set a flag no
\* evidence goes with.
AnswerOfItsKind ==
    /\ step = "storeChats" => answer.present \subseteq Chat
    /\ step \in {"storeGroups", "storeDetail"} => answer.present \subseteq Group

\* The table is behind the answer in hand, and that behind the server.
AnswerBetween ==
    \A c \in Conversation :
        /\ rows[c].latest <= sent[c]
        /\ rows[c].lastRead <= read[c]
        /\ read[c] <= sent[c]
        /\ Storing => /\ rows[c].latest <= answer.latest[c]
                      /\ answer.latest[c] <= sent[c]
                      /\ rows[c].lastRead <= answer.read[c]
                      /\ answer.read[c] <= read[c]

TableInv ==
    /\ LibraryTypeOK
    /\ AnswerOfItsKind
    /\ AnswerBetween
    /\ FormerFollowsEvidence

LEMMA InitTableInv ==
    ASSUME LibraryInit
    PROVE  TableInv
  BY LibraryAssumption DEF LibraryInit, TableInv, LibraryTypeOK, FormerFollowsEvidence,
         AnswerOfItsKind, AnswerBetween, Storing, Conversation, NoRow,
         NoAnswer

\* What writing an answer does to the row of a conversation it names.
LEMMA UpsertSays ==
    ASSUME NEW row \in Row, NEW a \in Answer, NEW c \in Conversation
    PROVE  LET new == Upsert(row, a, c) IN
           /\ new \in Row
           /\ new.known /\ new.former = row.former /\ new.roster = row.roster
           /\ new.latest = a.latest[c]
           /\ new.lastRead \in {row.lastRead, a.read[c]}
  <1> DEFINE named == [row EXCEPT !.known = TRUE, !.latest = a.latest[c]]
  <1>1. /\ named \in Row /\ named.known /\ named.former = row.former
        /\ named.roster = row.roster /\ named.latest = a.latest[c]
        /\ named.lastRead = row.lastRead
        /\ a.read[c] \in Nat
    BY DEF Row, Answer
  <1>2. Upsert(row, a, c) = ReadState(named, a, c)
    BY DEF Upsert
  <1> HIDE DEF named
  <1> QED  BY <1>1, <1>2 DEF ReadState, Row

LEMMA GroupWritten ==
    ASSUME NEW row \in Row, NEW a \in Answer, NEW c \in Conversation,
           NEW new \in {UpsertGroupMeta(row, a, c), UpsertGroup(row, a, c)}
    PROVE  /\ new \in Row
           /\ new.known /\ ~new.former
           /\ new.latest = a.latest[c]
           /\ new.lastRead \in {row.lastRead, a.read[c]}
  <1> DEFINE up == Upsert(row, a, c)
  <1>1. /\ up \in Row
        /\ up.known /\ up.latest = a.latest[c]
        /\ up.lastRead \in {row.lastRead, a.read[c]}
    BY UpsertSays
  <1>2. \/ new = [up EXCEPT !.former = FALSE]
        \/ new = [up EXCEPT !.former = FALSE, !.roster = TRUE]
    BY DEF UpsertGroupMeta, UpsertGroup
  <1> HIDE DEF up
  <1> QED  BY <1>1, <1>2 DEF Row

LEMMA ReceiptWritten ==
    ASSUME NEW row \in Row, NEW n \in Nat
    PROVE  LET new == Receipt(row, n) IN
           /\ new \in Row
           /\ new.known = row.known /\ new.former = row.former
           /\ new.latest = row.latest
           /\ new.lastRead = IF row.known THEN n ELSE row.lastRead
  BY DEF Receipt, Row

\* A step that moves nothing but the server.
LEMMA ServerStep ==
    ASSUME TableInv, Move,
           \/ \E g \in Group : Leave(g) \/ Join(g)
           \/ \E c \in Conversation : NewMessage(c) \/ MarkRead(c)
    PROVE  TableInv'
  <1> USE DEF TableInv, LibraryTypeOK, Move, tableVars
  <1>1. /\ member' \in SUBSET Group
        /\ sent' \in [Conversation -> Nat] /\ read' \in [Conversation -> Nat]
        /\ \A c \in Conversation : /\ sent[c] <= sent'[c] /\ read[c] <= read'[c]
                                   /\ read'[c] <= sent'[c]
    <2>1. CASE \E g \in Group : Leave(g) \/ Join(g)
      BY <2>1 DEF Leave, Join, AnswerBetween
    <2>2. CASE \E c \in Conversation : NewMessage(c)
      BY <2>2 DEF NewMessage, AnswerBetween
    <2>3. CASE \E c \in Conversation : MarkRead(c)
      BY <2>3 DEF MarkRead, AnswerBetween
    <2> QED  BY <2>1, <2>2, <2>3
  <1>2. moves' \in 0..MaxMoves
    BY LibraryAssumption
  <1>3. LibraryTypeOK'
    BY <1>1, <1>2
  <1>4. AnswerBetween'
    BY <1>1, <1>3 DEF AnswerBetween, Storing
  <1> QED  BY <1>3, <1>4 DEF AnswerOfItsKind, FormerFollowsEvidence

\* What keeps the invariant of a step of the cycle that writes no row.
LEMMA AnswerStep ==
    ASSUME TableInv, UNCHANGED <<serverVars, tableVars>>,
           step' \in {"idle", "groups", "storeGroups", "chats", "storeChats",
                     "receipts", "storeReceipts", "rosters", "details",
                     "storeDetail"},
           need' \in SUBSET Group,
           \/ ~Storing' /\ answer' = answer
           \/ \E S \in SUBSET Conversation, told \in BOOLEAN :
                 /\ answer' = World(S, told)
                 /\ step' = "storeChats" => S \subseteq Chat
                 /\ step' \in {"storeGroups", "storeDetail"} => S \subseteq Group
    PROVE  TableInv'
  <1> USE DEF TableInv, serverVars, tableVars
  <1>1. CASE ~Storing' /\ answer' = answer
    BY <1>1 DEF LibraryTypeOK, AnswerOfItsKind, AnswerBetween, Storing,
                FormerFollowsEvidence
  <1>2. ASSUME NEW S \in SUBSET Conversation, NEW told \in BOOLEAN,
               answer' = World(S, told),
               step' = "storeChats" => S \subseteq Chat,
               step' \in {"storeGroups", "storeDetail"} => S \subseteq Group
        PROVE  TableInv'
    <2>1. /\ answer' \in Answer /\ answer'.present = S
          /\ answer'.latest = sent /\ answer'.read = read
      BY <1>2 DEF World, Answer, LibraryTypeOK
    <2>2. LibraryTypeOK'
      BY <2>1 DEF LibraryTypeOK, Answer
    <2>3. AnswerOfItsKind' /\ FormerFollowsEvidence'
      BY <1>2, <2>1 DEF AnswerOfItsKind, FormerFollowsEvidence
    <2>4. AnswerBetween'
      BY <2>1 DEF AnswerBetween, Storing, LibraryTypeOK
    <2> QED  BY <2>2, <2>3, <2>4
  <1> QED  BY <1>1, <1>2

\* What keeps it of a step that writes rows from the answer in hand.
LEMMA WriteStep ==
    ASSUME TableInv, Storing, UNCHANGED <<serverVars, need>>,
           step' \in {"chats", "receipts", "rosters", "details"},
           answer' = NoAnswer,
           rows' \in [Conversation -> Row],
           evidence' \in [Group -> BOOLEAN],
           \A c \in Conversation :
              /\ rows'[c].latest \in {rows[c].latest, answer.latest[c]}
              /\ rows'[c].lastRead \in {rows[c].lastRead, answer.read[c]},
           FormerFollowsEvidence'
    PROVE  TableInv'
  <1>1. NoAnswer \in Answer
    BY DEF NoAnswer, Answer
  <1>2. LibraryTypeOK'
    BY <1>1 DEF TableInv, LibraryTypeOK, serverVars, Answer, Row
  <1>3. AnswerBetween' /\ AnswerOfItsKind'
    BY DEF TableInv, AnswerBetween, AnswerOfItsKind, Storing, serverVars
  <1> QED  BY <1>2, <1>3 DEF TableInv


\* The rows a step may write: what a conversation had is kept or gets newer.
Newer(row, new, a, c) ==
    /\ new \in Row
    /\ row.known => new.known
    /\ new.latest \in {row.latest, a.latest[c]}
    /\ new.lastRead \in {row.lastRead, a.read[c]}

LEMMA StoreGroupsStep ==
    ASSUME TableInv, StoreGroups
    PROVE  TableInv' /\ \A c \in Conversation : Newer(rows[c], rows'[c], answer, c)
  <1> DEFINE table == [c \in Conversation |->
                         IF c \in answer.present
                         THEN UpsertGroupMeta(rows[c], answer, c) ELSE rows[c]]
  <1>1. /\ rows \in [Conversation -> Row] /\ answer \in Answer
        /\ answer.present \subseteq Group /\ Group \subseteq Conversation
    BY DEF TableInv, LibraryTypeOK, AnswerOfItsKind, Row, Answer, StoreGroups,
           Conversation
  <1>2. ASSUME NEW c \in Conversation
        PROVE  /\ Newer(rows[c], table[c], answer, c)
               /\ c \in answer.present => table[c].known
               /\ c \notin answer.present => table[c] = rows[c]
    <2>1. rows[c] \in Row
      BY <1>1
    <2>2. CASE c \in answer.present
      BY <1>1, <2>1, <2>2, GroupWritten DEF Newer
    <2> QED  BY <2>1, <2>2 DEF Newer
  <1>3. /\ rows' = MarkFormer(table, answer.present)
        /\ evidence' = [g \in Group |-> g \in answer.present]
    BY DEF StoreGroups
  <1>4. ASSUME NEW c \in Conversation
        PROVE  /\ Newer(rows[c], rows'[c], answer, c)
               /\ c \in Group /\ rows'[c].known
                    => rows'[c].former = (c \notin answer.present)
    <2>1. table[c] \in Row /\ Newer(rows[c], table[c], answer, c)
      BY <1>2 DEF Newer
    <2>2. rows'[c] = IF c \in Group /\ table[c].known
                     THEN [table[c] EXCEPT !.former = c \notin answer.present]
                     ELSE table[c]
      BY <1>3 DEF MarkFormer
    <2> HIDE DEF table
    <2> QED  BY <2>1, <2>2 DEF Row, Newer
  <1>5. rows' \in [Conversation -> Row]
    BY <1>3, <1>4 DEF MarkFormer, Newer
  <1>6. evidence' \in [Group -> BOOLEAN] /\ FormerFollowsEvidence'
    <2>1. evidence' \in [Group -> BOOLEAN]
      BY <1>3
    <2>2. ASSUME NEW g \in Group, rows'[g].known
          PROVE  rows'[g].former <=> ~evidence'[g]
      <3>1. evidence'[g] = (g \in answer.present)
        BY <1>3
      <3>2. rows'[g].former = (g \notin answer.present)
        BY <1>1, <1>4, <2>2
      <3> QED  BY <3>1, <3>2, Zenon
    <2> QED  BY <2>1, <2>2 DEF FormerFollowsEvidence
  <1>7. TableInv'
    BY <1>4, <1>5, <1>6, WriteStep DEF StoreGroups, Storing, Newer
  <1> QED  BY <1>4, <1>7

LEMMA StoreChatsStep ==
    ASSUME TableInv, StoreChats
    PROVE  TableInv' /\ \A c \in Conversation : Newer(rows[c], rows'[c], answer, c)
  <1>1. /\ rows \in [Conversation -> Row] /\ answer \in Answer
        /\ answer.present \subseteq Chat /\ Group \subseteq Conversation
        /\ Group \cap Chat = {}
    BY LibraryAssumption DEF TableInv, LibraryTypeOK, AnswerOfItsKind, Row, Answer, StoreChats,
           Conversation
  <1>2. ASSUME NEW c \in Conversation
        PROVE  /\ Newer(rows[c], rows'[c], answer, c)
               /\ c \in Group => rows'[c] = rows[c]
    <2>1. rows[c] \in Row
      BY <1>1
    <2>2. rows'[c] = IF c \in answer.present
                     THEN Upsert(rows[c], answer, c) ELSE rows[c]
      BY DEF StoreChats, UpsertChat
    <2> QED  BY <1>1, <2>1, <2>2, UpsertSays DEF Newer
  <1>3. rows' \in [Conversation -> Row] /\ evidence' = evidence
    BY <1>2 DEF StoreChats, Newer
  <1>4. evidence' \in [Group -> BOOLEAN] /\ FormerFollowsEvidence'
    BY <1>1, <1>2, <1>3 DEF TableInv, LibraryTypeOK, FormerFollowsEvidence
  <1>5. TableInv'
    BY <1>2, <1>3, <1>4, WriteStep DEF StoreChats, Storing, Newer
  <1> QED  BY <1>2, <1>5

LEMMA StoreReceiptsStep ==
    ASSUME TableInv, StoreReceipts
    PROVE  TableInv' /\ \A c \in Conversation : Newer(rows[c], rows'[c], answer, c)
  <1>1. /\ rows \in [Conversation -> Row] /\ answer \in Answer
        /\ Group \subseteq Conversation
    BY DEF TableInv, LibraryTypeOK, Row, Answer, Conversation
  <1>2. ASSUME NEW c \in Conversation
        PROVE  /\ Newer(rows[c], rows'[c], answer, c)
               /\ rows'[c].former = rows[c].former
               /\ rows'[c].known = rows[c].known
    <2>1. rows[c] \in Row /\ answer.read[c] \in Nat
      BY <1>1 DEF Answer
    <2>2. rows'[c] = Receipt(rows[c], answer.read[c])
      BY DEF StoreReceipts
    <2> QED  BY <2>1, <2>2, ReceiptWritten DEF Newer
  <1>3. rows' \in [Conversation -> Row] /\ evidence' = evidence
    BY <1>2 DEF StoreReceipts, Newer
  <1>4. evidence' \in [Group -> BOOLEAN] /\ FormerFollowsEvidence'
    BY <1>1, <1>2, <1>3 DEF TableInv, LibraryTypeOK, FormerFollowsEvidence
  <1>5. TableInv'
    BY <1>2, <1>3, <1>4, WriteStep DEF StoreReceipts, Storing, Newer
  <1> QED  BY <1>2, <1>5

LEMMA StoreDetailStep ==
    ASSUME TableInv, StoreDetail
    PROVE  TableInv' /\ \A c \in Conversation : Newer(rows[c], rows'[c], answer, c)
  <1>1. /\ rows \in [Conversation -> Row] /\ answer \in Answer
        /\ answer.present \subseteq Group /\ Group \subseteq Conversation
    BY DEF TableInv, LibraryTypeOK, AnswerOfItsKind, Row, Answer, StoreDetail,
           Conversation
  <1>2. PICK g \in answer.present :
           /\ rows' = [rows EXCEPT ![g] = UpsertGroup(@, answer, g)]
           /\ evidence' = [evidence EXCEPT ![g] = TRUE]
    BY DEF StoreDetail
  <1>3. /\ Newer(rows[g], rows'[g], answer, g)
        /\ ~rows'[g].former
    <2>1. rows'[g] = UpsertGroup(rows[g], answer, g) /\ rows[g] \in Row
          /\ g \in Conversation
      BY <1>1, <1>2
    <2> QED  BY <1>1, <2>1, GroupWritten DEF Newer
  <1>4. \A c \in Conversation : /\ Newer(rows[c], rows'[c], answer, c)
                                /\ c # g => rows'[c] = rows[c]
    BY <1>1, <1>2, <1>3 DEF Newer
  <1>5. rows' \in [Conversation -> Row]
    <2>1. UpsertGroup(rows[g], answer, g) \in Row
      BY <1>1, <1>2, <1>3 DEF Newer
    <2> QED  BY <1>1, <1>2, <2>1
  <1>6. evidence' \in [Group -> BOOLEAN] /\ FormerFollowsEvidence'
    <2>1. \A k \in Group : evidence'[k] = IF k = g THEN TRUE ELSE evidence[k]
      BY <1>2 DEF TableInv, LibraryTypeOK
    <2> QED
      BY <1>1, <1>2, <1>3, <1>4, <2>1 DEF TableInv, LibraryTypeOK, FormerFollowsEvidence
  <1>7. TableInv'
    <2>1. /\ Storing /\ UNCHANGED <<serverVars, need>>
          /\ step' \in {"chats", "receipts", "rosters", "details"} /\ answer' = NoAnswer
      BY DEF StoreDetail, Storing
    <2>2. \A c \in Conversation :
             /\ rows'[c].latest \in {rows[c].latest, answer.latest[c]}
             /\ rows'[c].lastRead \in {rows[c].lastRead, answer.read[c]}
      BY <1>4 DEF Newer
    <2> QED  BY <1>5, <1>6, <2>1, <2>2, WriteStep
  <1> QED
    <2>1. \A c \in Conversation : Newer(rows[c], rows'[c], answer, c)
      BY <1>4
    <2> QED  BY <1>7, <2>1

\* The steps of the cycle between the writes.
LEMMA CycleStep ==
    ASSUME TableInv,
           \/ StartCycle \/ GroupsAnswered \/ GroupsCutShort
           \/ ChatsAnswered \/ ListFails
           \/ ReceiptsAnswered \/ ReceiptsFail
           \/ ListRosters \/ EndCycle
           \/ \E g \in Group : DetailAnswered(g) \/ DetailFails(g)
    PROVE  TableInv'
  <1>0. /\ member \subseteq Group /\ need \subseteq Group
        /\ Group \subseteq Conversation /\ Chat \subseteq Conversation
    BY DEF TableInv, LibraryTypeOK, Conversation
  <1>1. CASE StartCycle \/ ListFails \/ ReceiptsFail \/ EndCycle
    BY <1>0, <1>1, AnswerStep
       DEF StartCycle, ListFails, ReceiptsFail, EndCycle, Storing
  <1>2. CASE GroupsAnswered \/ GroupsCutShort
    <2>1. PICK S \in SUBSET Group, told \in BOOLEAN : answer' = World(S, told)
      BY <1>0, <1>2 DEF GroupsAnswered, GroupsCutShort
    <2>2. /\ step' = "storeGroups" /\ need' = need
          /\ UNCHANGED <<serverVars, tableVars>>
      BY <1>2 DEF GroupsAnswered, GroupsCutShort
    <2> QED  BY <1>0, <2>1, <2>2, AnswerStep
  <1>3. CASE ChatsAnswered
    <2>1. PICK told \in BOOLEAN :
             answer' = World({c \in Chat : sent[c] > 0}, told)
      BY <1>3 DEF ChatsAnswered
    <2>2. {c \in Chat : sent[c] > 0} \in SUBSET Conversation
      BY <1>0
    <2>3. /\ step' = "storeChats" /\ need' = need
          /\ UNCHANGED <<serverVars, tableVars>>
      BY <1>3 DEF ChatsAnswered
    <2> QED  BY <1>0, <2>1, <2>2, <2>3, AnswerStep
  <1>4. CASE ReceiptsAnswered
    <2>1. /\ step' = "storeReceipts" /\ need' = need
          /\ answer' = World(Conversation, TRUE)
          /\ UNCHANGED <<serverVars, tableVars>>
      BY <1>4 DEF ReceiptsAnswered
    <2> QED  BY <1>0, <2>1, AnswerStep
  <1>5. CASE ListRosters
    <2>1. need' \subseteq Group
      BY <1>5 DEF ListRosters, NeedingMembers, LacksRoster
    <2> QED  BY <1>5, <2>1, AnswerStep DEF ListRosters, Storing
  <1>6. ASSUME NEW g \in Group, DetailAnswered(g)
        PROVE  TableInv'
    <2>1. PICK told \in BOOLEAN : answer' = World({g}, told)
      BY <1>6 DEF DetailAnswered
    <2>2. /\ step' = "storeDetail" /\ need' \subseteq Group
          /\ UNCHANGED <<serverVars, tableVars>>
      BY <1>0, <1>6 DEF DetailAnswered
    <2>3. {g} \in SUBSET Conversation /\ {g} \subseteq Group
      BY <1>0
    <2> QED  BY <2>1, <2>2, <2>3, AnswerStep
  <1>7. ASSUME NEW g \in Group, DetailFails(g)
        PROVE  TableInv'
    BY <1>0, <1>7, AnswerStep DEF DetailFails, Storing
  <1> QED  BY <1>1, <1>2, <1>3, <1>4, <1>5, <1>6, <1>7

LEMMA NextTableInv ==
    ASSUME TableInv, [LibraryNext]_libraryVars
    PROVE  TableInv'
  <1>1. CASE \/ \E g \in Group : Leave(g) \/ Join(g)
             \/ \E c \in Conversation : NewMessage(c) \/ MarkRead(c)
    <2>1. Move
      BY <1>1 DEF Leave, Join, NewMessage, MarkRead
    <2> QED  BY <1>1, <2>1, ServerStep
  <1>2. CASE UNCHANGED libraryVars
    BY <1>2 DEF libraryVars, serverVars, tableVars, TableInv,
                LibraryTypeOK, AnswerOfItsKind, AnswerBetween, Storing,
                FormerFollowsEvidence
  <1> QED
    BY <1>1, <1>2, CycleStep, StoreGroupsStep, StoreChatsStep, StoreReceiptsStep,
       StoreDetailStep DEF LibraryNext

LEMMA TableIsInvariant ==
    LibrarySpec => []TableInv
  <1>1. LibraryInit => TableInv
    BY InitTableInv
  <1>2. TableInv /\ [LibraryNext]_libraryVars => TableInv'
    BY NextTableInv
  <1> QED  BY <1>1, <1>2, PTL DEF LibrarySpec

LEMMA RowsStep ==
    ASSUME TableInv, [LibraryNext]_libraryVars,
           NEW c \in Listed
    PROVE  /\ rows'[c].known
           /\ rows'[c].latest >= rows[c].latest
           /\ rows'[c].lastRead >= rows[c].lastRead
  <1>1. /\ c \in Conversation /\ rows[c].known /\ rows[c] \in Row /\ answer \in Answer
        /\ Storing => /\ rows[c].latest <= answer.latest[c]
                      /\ rows[c].lastRead <= answer.read[c]
    BY DEF Listed, TableInv, AnswerBetween, LibraryTypeOK, Row, Answer
  <1>2. CASE /\ Storing
             /\ \A d \in Conversation : Newer(rows[d], rows'[d], answer, d)
    BY <1>1, <1>2 DEF Newer, Row, Answer
  <1>3. CASE rows' = rows
    BY <1>1, <1>3 DEF Row
  <1>4. CASE StoreGroups \/ StoreChats \/ StoreReceipts \/ StoreDetail
    <2>1. Storing
      BY <1>4 DEF Storing, StoreGroups, StoreChats, StoreReceipts,
                  StoreDetail
    <2> QED
      BY <1>2, <1>4, <2>1, StoreGroupsStep, StoreChatsStep, StoreReceiptsStep,
         StoreDetailStep
  <1>5. \/ rows' = rows
        \/ StoreGroups \/ StoreChats \/ StoreReceipts \/ StoreDetail
    BY DEF LibraryNext, libraryVars, tableVars, Leave, Join,
           NewMessage, MarkRead, Move, StartCycle,
           GroupsAnswered, GroupsCutShort, ChatsAnswered,
           ListFails, ReceiptsAnswered, ReceiptsFail,
           ListRosters, EndCycle, DetailAnswered, DetailFails
  <1> QED  BY <1>3, <1>4, <1>5

\* A group reads former exactly when the last answer that spoke of it did not
\* list it: lists cut short, calls that fail, receipts and rosters that come in
\* between never mark a group or bring one back (mark_former_groups,
\* upsert_group_meta, upsert_group).
THEOREM FormerGroupsAreTold ==
    LibrarySpec => []FormerFollowsEvidence
  <1>1. TableInv => FormerFollowsEvidence
    BY DEF TableInv
  <1> QED  BY <1>1, TableIsInvariant, PTL

\* The types of the table, its answers and the server it asks.
THEOREM LibraryTypeCorrect ==
    LibrarySpec => []LibraryTypeOK
  <1>1. TableInv => LibraryTypeOK
    BY DEF TableInv
  <1> QED  BY <1>1, TableIsInvariant, PTL

\* No answer, however late, short or silent about read state, takes a row back:
\* neither the conversation, nor its latest message, nor the last one read
\* (upsert_group_meta, upsert_chat, apply_read_receipts).
THEOREM TableForgetsNothing ==
    LibrarySpec => NothingGoesBack
  <1>1. TableInv /\ [LibraryNext]_libraryVars
          => [\A c \in Listed : /\ rows'[c].known
                                /\ rows'[c].latest >= rows[c].latest
                                /\ rows'[c].lastRead >= rows[c].lastRead]_libraryVars
    <2> SUFFICES ASSUME TableInv, LibraryNext \/ UNCHANGED libraryVars, NEW c \in Listed
                 PROVE  /\ rows'[c].known
                        /\ rows'[c].latest >= rows[c].latest
                        /\ rows'[c].lastRead >= rows[c].lastRead
      OBVIOUS
    <2> QED  BY RowsStep
  <1> QED  BY <1>1, TableIsInvariant, PTL DEF LibrarySpec, NothingGoesBack

----------------------------------------------------------------------------
(* Finite sets of numbers *)

\* A finite set of numbers that is not empty has a largest.
LEMMA MaxOfFinite ==
    ASSUME NEW S \in SUBSET Nat, IsFiniteSet(S), S # {}
    PROVE  Max(S) \in S /\ \A x \in S : x <= Max(S)
  <1> DEFINE n == Cardinality(S)
             below(x) == {y \in S : y <= x}
             rank == [x \in S |-> Cardinality(below(x))]
  <1>1. n \in Nat /\ n # 0
    BY FS_CardinalityType, FS_EmptySet
  <1>2. ASSUME NEW x \in S
        PROVE  /\ IsFiniteSet(below(x)) /\ Cardinality(below(x)) \in 1..n
               /\ Cardinality(below(x)) = n => below(x) = S
    <2>1. /\ IsFiniteSet(below(x)) /\ Cardinality(below(x)) <= n
          /\ Cardinality(below(x)) = n => below(x) = S
      BY FS_Subset
    <2>2. Cardinality(below(x)) \in Nat /\ Cardinality(below(x)) # 0
      BY <2>1, FS_CardinalityType, FS_EmptySet, x \in below(x)
    <2> QED  BY <2>1, <2>2, <1>1
  <1>3. ASSUME NEW x \in S, NEW y \in S, x < y
        PROVE  rank[x] # rank[y]
    <2>1. \A z \in S : z <= x => z <= y /\ z # y
      BY <1>3, \A z \in S : z \in Nat
    <2>2. below(x) \in SUBSET below(y) /\ below(x) # below(y)
      BY <2>1, y \in below(y)
    <2> HIDE DEF below
    <2> QED  BY <1>2, <2>2, FS_Subset
  <1>4. rank \in [S -> 1..n]
    BY <1>2
  <1>5. ASSUME NEW x \in S, NEW y \in S, rank[x] = rank[y]
        PROVE  x = y
    <2> HIDE DEF rank
    <2> QED  BY <1>3, <1>5, \A z \in S : z \in Nat
  <1>6. PICK x \in S : rank[x] = n
    <2> HIDE DEF rank
    <2>1. rank \in Injection(S, 1..n)
      BY <1>4, <1>5 DEF Injection, IsInjective
    <2>2. IsFiniteSet(1..n) /\ Cardinality(1..n) = n
      BY <1>1, FS_Interval
    <2>3. rank \in Surjection(S, 1..n)
      BY <2>1, <2>2, FS_Injection
    <2> QED  BY <2>3, <1>1 DEF Surjection
  <1>7. \A y \in S : y <= x
    BY <1>2, <1>6
  <1> QED  BY <1>7, \A z \in S : z \in Nat DEF Max

\* And a smallest.
LEMMA LeastOfFinite ==
    ASSUME NEW S \in SUBSET Nat, IsFiniteSet(S), S # {}
    PROVE  \E least \in S : \A x \in S : least <= x
  <1> DEFINE top  == Max(S)
             gaps == {top - x : x \in S}
             widest == Max(gaps)
  <1>1. top \in S /\ \A x \in S : x <= top
    BY MaxOfFinite
  <1> HIDE DEF top
  <1>2. gaps \in SUBSET Nat /\ \A g \in gaps : g <= top
    <2>1. ASSUME NEW x \in S
          PROVE  top - x \in Nat /\ top - x <= top
      <3>1. x \in Nat /\ top \in Nat /\ x <= top
        BY <1>1
      <3> QED  BY <3>1
    <2> QED  BY <2>1
  <1>3. IsFiniteSet(gaps) /\ gaps # {}
    BY <1>1, <1>2, FS_BoundedSetOfNaturals
  <1>4. widest \in gaps /\ \A g \in gaps : g <= widest
    BY <1>2, <1>3, MaxOfFinite
  <1>5. PICK least \in S : widest = top - least
    BY <1>4
  <1>6. ASSUME NEW x \in S
        PROVE  least <= x
    <2>1. top - x <= widest
      BY <1>4
    <2>2. x \in Nat /\ least \in Nat /\ top \in Nat
      BY <1>1
    <2> HIDE DEF widest
    <2> QED  BY <2>1, <2>2, <1>5
  <1> QED  BY <1>6

----------------------------------------------------------------------------
(* The media cache *)

Job == [pc : {"idle", "asking", "got", "written", "refused"},
        url : Url \cup {Nothing}]

\* The table of attachments and the two fetches are what their types say, and
\* an address is being fetched wherever there is a fetch.
MediaTypes ==
    /\ cache \subseteq Url
    /\ flag \in [Attachments -> Flag]
    /\ job \in [Fetchers -> Job]

\* Between the file and its row there is only the transaction that writes the
\* row: whoever has come so far has written the file.
WrittenHasFile == \A f \in Fetchers : job[f].pc = "written" => job[f].url \in files

\* What is fetched is an address.
FetchOfAddress == \A f \in Fetchers : job[f].pc # "idle" => job[f].url \in Url

MediaInv ==
    /\ MediaTypes
    /\ WrittenHasFile
    /\ FetchOfAddress
    /\ RowHasFile
    /\ FlagAgrees

----------------------------------------------------------------------------
(* Each step keeps it *)

LEMMA InitMediaInv == MediaInit => MediaInv
BY DEF MediaInit, MediaInv, MediaTypes, Job, Flag, Resting, WrittenHasFile,
       FetchOfAddress, RowHasFile, FlagAgrees, Url

\* A step that leaves files and store alone and starts, gives up or answers
\* a fetch.
LEMMA FetchingKeeps ==
    ASSUME MediaInv, UNCHANGED <<storeVars, files>>, NEW f \in Fetchers,
           NEW j \in Job,
           job' = [job EXCEPT ![f] = j],
           j.pc # "written",
           j.pc # "idle" => j.url \in Url
    PROVE  MediaInv'
BY DEF MediaInv, MediaTypes, WrittenHasFile, FetchOfAddress, RowHasFile,
       FlagAgrees, storeVars, Pending

LEMMA RestingIsJob == Resting \in Job /\ Resting.pc = "idle"
BY DEF Resting, Job

\* put_media: the row and the flag in one transaction.
LEMMA RecordKeeps ==
    ASSUME MediaInv, NEW f \in Fetchers, Record(f)
    PROVE  MediaInv'
<1>1. job[f].url \in Url /\ job[f].url \in files
  BY DEF Record, MediaInv, WrittenHasFile, FetchOfAddress
<1>2. job' = [job EXCEPT ![f] = Resting] /\ files' = files
  BY DEF Record
<1>3. cache' = cache \cup {job[f].url} /\ RowHasFile'
  BY <1>1, <1>2 DEF Record, PutMedia, MediaInv, RowHasFile
<1>4. MediaTypes'
  BY <1>1, <1>2, <1>3, RestingIsJob DEF Record, PutMedia, MediaInv, MediaTypes, Flag
<1>5. WrittenHasFile' /\ FetchOfAddress'
  BY <1>2, RestingIsJob DEF MediaInv, MediaTypes, WrittenHasFile, FetchOfAddress
<1>6. FlagAgrees'
  BY <1>1, <1>3 DEF Record, PutMedia, MediaInv, MediaTypes, FlagAgrees
<1> QED BY <1>3, <1>4, <1>5, <1>6 DEF MediaInv

\* mark_media_unavailable: only what is pending, so never what has a row.
LEMMA MarkKeeps ==
    ASSUME MediaInv, NEW f \in Fetchers, Mark(f)
    PROVE  MediaInv'
<1>1. /\ job' = [job EXCEPT ![f] = Resting]
      /\ UNCHANGED <<files, cache>>
      /\ flag' = MarkUnavailable(job[f].url)
  BY DEF Mark
<1>2. MediaTypes' /\ FlagAgrees'
  BY <1>1, RestingIsJob
     DEF MarkUnavailable, MediaInv, MediaTypes, FlagAgrees, Flag
<1>3. WrittenHasFile' /\ FetchOfAddress' /\ RowHasFile'
  BY <1>1, RestingIsJob
     DEF MediaInv, MediaTypes, WrittenHasFile, FetchOfAddress, RowHasFile
<1> QED BY <1>2, <1>3 DEF MediaInv

\* A changed message: its attachments are inserted with the flag the cache
\* gives them.
LEMMA ChangeKeeps ==
    ASSUME MediaInv, NEW u \in Url, Change(u)
    PROVE  MediaInv'
BY DEF Change, CachedAtInsert, MediaInv, MediaTypes, Flag, WrittenHasFile,
       FetchOfAddress, RowHasFile, FlagAgrees

LEMMA WriteFileKeeps ==
    ASSUME MediaInv, NEW f \in Fetchers, WriteFile(f)
    PROVE  MediaInv'
<1>1. /\ job' = [job EXCEPT ![f].pc = "written"]
      /\ files' = files \cup {job[f].url}
      /\ UNCHANGED <<flag, cache>>
      /\ job[f].pc = "got"
  BY DEF WriteFile, storeVars
<1>2. MediaTypes'
  BY <1>1 DEF MediaInv, MediaTypes, Job
<1>3. WrittenHasFile' /\ FetchOfAddress' /\ RowHasFile' /\ FlagAgrees'
  BY <1>1 DEF MediaInv, MediaTypes, Job, WrittenHasFile, FetchOfAddress,
              RowHasFile, FlagAgrees
<1> QED BY <1>2, <1>3 DEF MediaInv

LEMMA NextMediaInv == MediaInv /\ [MediaNext]_mediaVars => MediaInv'
<1> SUFFICES ASSUME MediaInv, [MediaNext]_mediaVars
             PROVE  MediaInv'
  OBVIOUS
<1>1. ASSUME NEW u \in Url, Take(u) \/ Ask(u)
      PROVE  MediaInv'
  <2>1. CASE Take(u) /\ u \in blocked
    BY <2>1 DEF Take, storeVars, MediaInv, MediaTypes, WrittenHasFile,
                FetchOfAddress, RowHasFile, FlagAgrees
  <2>2. CASE \/ Take(u) /\ u \notin blocked
             \/ Ask(u)
    <3> DEFINE asking == [pc |-> "asking", url |-> u]
    <3>1. asking \in Job /\ asking.pc = "asking" /\ asking.url \in Url
      BY DEF Job
    <3>2. /\ UNCHANGED <<storeVars, files>>
          /\ \E f \in Fetchers : job' = [job EXCEPT ![f] = asking]
      BY <2>2 DEF Take, Ask, Fetchers
    <3> HIDE DEF asking
    <3> QED BY <3>1, <3>2, FetchingKeeps
  <2> QED BY <1>1, <2>1, <2>2
<1>2. ASSUME NEW f \in Fetchers, Fetched(f) \/ Gone(f)
      PROVE  MediaInv'
  <2> DEFINE answered == [job[f] EXCEPT !.pc = IF Fetched(f) THEN "got" ELSE "refused"]
  <2>1. job[f] \in Job /\ job[f].url \in Url
    BY <1>2 DEF Fetched, Gone, MediaInv, MediaTypes, FetchOfAddress
  <2>2. answered \in Job /\ answered.pc # "written" /\ answered.url \in Url
    BY <2>1 DEF Job
  <2>3. UNCHANGED <<storeVars, files>> /\ job' = [job EXCEPT ![f] = answered]
    BY <1>2 DEF Fetched, Gone
  <2> HIDE DEF answered
  <2> QED BY <2>2, <2>3, FetchingKeeps
<1>3. ASSUME NEW f \in Fetchers, FetchFails(f) \/ StepFails(f)
      PROVE  MediaInv'
  BY <1>3, RestingIsJob, FetchingKeeps DEF FetchFails, StepFails
<1>4. CASE Throttled
  BY <1>4, RestingIsJob, FetchingKeeps DEF Throttled, Fetchers
<1>5. CASE StartPass \/ (\E u \in Url : Expire(u)) \/ UNCHANGED mediaVars
  BY <1>5 DEF StartPass, Expire, mediaVars, storeVars, MediaInv, MediaTypes,
              WrittenHasFile, FetchOfAddress, RowHasFile, FlagAgrees
<1>6. CASE Restart
  BY <1>6, RestingIsJob
     DEF Restart, storeVars, MediaInv, MediaTypes, WrittenHasFile,
         FetchOfAddress, RowHasFile, FlagAgrees
<1> QED
  BY <1>1, <1>2, <1>3, <1>4, <1>5, <1>6, RecordKeeps, MarkKeeps, ChangeKeeps,
     WriteFileKeeps DEF MediaNext

THEOREM MediaIsInvariant == MediaSpec => []MediaInv
BY InitMediaInv, NextMediaInv, PTL DEF MediaSpec

----------------------------------------------------------------------------
(* The pass keeps to its budget *)

\* Of the attachments with fewer than n newer ones there are at most n,
\* for all but the oldest of them are newer than it.
LEMMA NewestAreFew ==
    ASSUME NEW n \in Nat
    PROVE  IsFiniteSet(Newest(n)) /\ Cardinality(Newest(n)) <= n
  <1>1. /\ Pending \in SUBSET Nat /\ IsFiniteSet(Pending)
        /\ Newest(n) \in SUBSET Pending
    BY MediaAssumption, FS_Subset DEF Pending, Newest
  <1>2. IsFiniteSet(Newest(n))
    BY <1>1, FS_Subset
  <1>3. ASSUME Newest(n) # {}
        PROVE  Cardinality(Newest(n)) <= n
    <2>1. PICK oldest \in Newest(n) : \A u \in Newest(n) : oldest <= u
      BY <1>1, <1>2, <1>3, LeastOfFinite
    <2> DEFINE newer == {v \in Pending : v > oldest}
    <2>2. IsFiniteSet(newer) /\ Cardinality(newer) < n
      BY <1>1, FS_Subset DEF Newest
    <2>3. Newest(n) \ {oldest} \in SUBSET newer
      <3>1. ASSUME NEW u \in Newest(n), u # oldest
            PROVE  u \in Pending /\ u > oldest
        <4>1. u \in Nat /\ oldest \in Nat /\ oldest <= u /\ u \in Pending
          BY <1>1, <2>1
        <4> QED  BY <4>1, <3>1
      <3> QED  BY <3>1
    <2>4. Cardinality(Newest(n) \ {oldest}) = Cardinality(Newest(n)) - 1
      BY <1>2, FS_RemoveElement
    <2>5. Cardinality(Newest(n) \ {oldest}) <= Cardinality(newer)
      BY <2>2, <2>3, FS_Subset
    <2>6. Cardinality(Newest(n)) \in Nat /\ Cardinality(newer) \in Nat
      BY <1>2, <2>2, FS_CardinalityType
    <2> HIDE DEF newer
    <2> QED  BY <2>2, <2>4, <2>5, <2>6
  <1> QED  BY <1>2, <1>3, FS_EmptySet

\* What a pass takes on: the share of the avatars is no more than the budget,
\* and the attachments have what is left of it.
LEMMA PassIsWithinBudget ==
    ASSUME StartPass
    PROVE  todo' \subseteq Url /\ Cardinality(todo') <= MediaPerCycle
  <1>1. PICK batch \in AvatarBatches :
            todo' = batch \cup Newest(MediaPerCycle - Cardinality(batch))
    BY DEF StartPass
  <1> DEFINE rest == MediaPerCycle - Cardinality(batch)
  <1>2. batch \in SUBSET UncachedAvatars
        /\ Cardinality(batch) = Least(AvatarCap, Cardinality(UncachedAvatars))
    BY <1>1 DEF AvatarBatches, kSubset
  <1>3. IsFiniteSet(UncachedAvatars) /\ UncachedAvatars \subseteq Avatars
    BY MediaAssumption, FS_Subset DEF UncachedAvatars
  <1>4. IsFiniteSet(batch) /\ Cardinality(batch) \in Nat
        /\ Cardinality(UncachedAvatars) \in Nat
    BY <1>2, <1>3, FS_Subset, FS_CardinalityType
  <1>5. AvatarCap \in Nat /\ AvatarCap <= MediaPerCycle
    BY MediaAssumption DEF AvatarCap
  <1>6. rest \in Nat
    BY <1>2, <1>4, <1>5, MediaAssumption DEF Least
  <1>7. IsFiniteSet(Newest(rest)) /\ Cardinality(Newest(rest)) <= rest
    BY <1>6, NewestAreFew
  <1>8. /\ Cardinality(todo') = Cardinality(batch) + Cardinality(Newest(rest))
                                - Cardinality(batch \cap Newest(rest))
        /\ Cardinality(batch \cap Newest(rest)) \in Nat
        /\ Cardinality(Newest(rest)) \in Nat
    BY <1>1, <1>4, <1>7, FS_Union, FS_Intersection, FS_CardinalityType
  <1>9. Cardinality(todo') <= MediaPerCycle
    <2>1. rest = MediaPerCycle - Cardinality(batch)
      OBVIOUS
    <2> HIDE DEF rest
    <2> QED  BY <1>4, <1>6, <1>7, <1>8, <2>1, MediaAssumption
  <1>10. todo' \subseteq Url
    BY <1>1, <1>2, <1>3 DEF Newest, Pending, Url
  <1> QED  BY <1>9, <1>10

\* A step within the types stays within them: an address refused, fetched or
\* recorded is one that was taken up.
LEMMA MediaTypesKept ==
    ASSUME MediaTypeOK, MediaInv, [MediaNext]_mediaVars
    PROVE  MediaTypeOK'
  <1> USE DEF Fetchers, Resting
  <1>1. ASSUME NEW f \in Fetchers, job[f].pc # "idle"
        PROVE  job[f].url \in Url
    BY <1>1 DEF MediaInv, FetchOfAddress
  <1>2. flag' \in [Attachments -> Flag] /\ job' \in [Fetchers -> Job] /\ cache' \subseteq Url
    BY NextMediaInv DEF MediaInv, MediaTypes
  <1>3. dead' \subseteq Url
    BY DEF MediaTypeOK, MediaNext, mediaVars, Change, Take, Ask, Expire, StartPass,
           Throttled, Restart, Fetched, Gone, FetchFails, Mark, WriteFile, Record, StepFails
  <1>4. files' \subseteq Url
    BY <1>1 DEF MediaTypeOK, MediaNext, mediaVars, Change, Take, Ask, Expire, StartPass,
           Throttled, Restart, Fetched, Gone, FetchFails, Mark, WriteFile, Record, StepFails
  <1>5. blocked' \subseteq Url
    BY <1>1 DEF MediaTypeOK, MediaNext, mediaVars, engineVars, Change, Take, Ask, Expire,
           StartPass, Throttled, Restart, Fetched, Gone, FetchFails, Mark, WriteFile,
           Record, StepFails
  <1>6. unmarked' \subseteq Attachments
    BY DEF MediaTypeOK, MediaNext, mediaVars, Change, Take, Ask, Expire, StartPass, Pending,
           Throttled, Restart, Fetched, Gone, FetchFails, Mark, WriteFile, Record, StepFails
  <1>7. revisions' \in 0..MaxChanges
    BY MediaAssumption
       DEF MediaTypeOK, MediaNext, mediaVars, Change, Take, Ask, Expire, StartPass,
           Throttled, Restart, Fetched, Gone, FetchFails, Mark, WriteFile, Record, StepFails
  <1>8. restarts' \in 0..MaxRestarts
    BY MediaAssumption
       DEF MediaTypeOK, MediaNext, mediaVars, Change, Take, Ask, Expire, StartPass,
           Throttled, Restart, Fetched, Gone, FetchFails, Mark, WriteFile, Record, StepFails
  <1>9. todo' \subseteq Url /\ Cardinality(todo') <= MediaPerCycle
    <2>1. CASE StartPass
      BY <2>1, PassIsWithinBudget
    <2>2. CASE \E u \in Url : Take(u)
      <3>1. IsFiniteSet(Url)
        BY MediaAssumption, FS_Union DEF Url
      <3>2. PICK u \in Url : todo' = todo \ {u}
        BY <2>2 DEF Take
      <3>3. IsFiniteSet(todo) /\ todo' \in SUBSET todo
        BY <3>1, <3>2, FS_Subset DEF MediaTypeOK
      <3>4. /\ Cardinality(todo') <= Cardinality(todo)
            /\ Cardinality(todo') \in Nat /\ Cardinality(todo) \in Nat
        BY <3>3, FS_Subset, FS_CardinalityType
      <3> QED  BY <3>3, <3>4, MediaAssumption DEF MediaTypeOK
    <2>3. CASE Throttled \/ Restart
      <3>1. todo' = {}
        BY <2>3 DEF Throttled, Restart
      <3>2. Cardinality(todo') = 0
        BY <3>1, FS_EmptySet
      <3> QED  BY <3>1, <3>2, MediaAssumption
    <2>4. CASE todo' = todo
      BY <2>4 DEF MediaTypeOK
    <2>5. \/ StartPass \/ (\E u \in Url : Take(u)) \/ Throttled \/ Restart
          \/ todo' = todo
      <3>1. ASSUME NEW u \in Url, Change(u) \/ Ask(u) \/ Expire(u)
            PROVE  todo' = todo
        BY <3>1 DEF Change, Ask, Expire, engineVars
      <3>2. ASSUME NEW f \in Fetchers,
                   \/ Fetched(f) \/ Gone(f) \/ FetchFails(f) \/ Mark(f)
                   \/ WriteFile(f) \/ Record(f) \/ StepFails(f)
            PROVE  todo' = todo
        BY <3>2 DEF Fetched, Gone, FetchFails, Mark, WriteFile, Record, StepFails,
                    engineVars
      <3>3. UNCHANGED mediaVars => todo' = todo
        BY DEF mediaVars, engineVars
      <3> QED  BY <3>1, <3>2, <3>3 DEF MediaNext
    <2> QED  BY <2>1, <2>2, <2>3, <2>4, <2>5
  <1> QED
    BY <1>2, <1>3, <1>4, <1>5, <1>6, <1>7, <1>8, <1>9 DEF MediaTypeOK, Job

----------------------------------------------------------------------------
(* What follows *)

\* Wherever the process stops, and whichever of the two fetchers it was, no
\* row of the cache points at a file that was not written
\* (cache_media_up_to, client_sync_media).
THEOREM NoRowWithoutFile == MediaSpec => []RowHasFile
BY MediaIsInvariant, PTL DEF MediaInv

\* The flag of an attachment says cached exactly when there is a row: a
\* download that races a change of the message or the other fetcher leaves
\* neither a held asset in the queue nor one marked as not to be had
\* (put_media, mark_media_unavailable, insert_messages).
THEOREM FlagsFollowRows == MediaSpec => []FlagAgrees
BY MediaIsInvariant, PTL DEF MediaInv

\* The types of the cache, and with them its budget: a pass never has more
\* addresses before it than media_per_cycle, however many avatars and newest
\* attachments wait and whatever the share of the avatars rounds to
\* (cache_media_up_to).
THEOREM PassKeepsToItsBudget == MediaSpec => []MediaTypeOK
<1>1. MediaInit => MediaTypeOK
  BY FS_EmptySet, MediaAssumption DEF MediaInit, MediaTypeOK, Flag, Resting
<1>2. MediaTypeOK /\ MediaInv /\ [MediaNext]_mediaVars => MediaTypeOK'
  BY MediaTypesKept
<1> QED
  BY <1>1, <1>2, MediaIsInvariant, PTL DEF MediaSpec

----------------------------------------------------------------------------
(* The daily tables: sums are numbers of things to count *)

\* What the sets of a family hold together.
Joined(P) == UNION {P[i] : i \in DOMAIN P}

\* The sum of numbers that are at most the sizes of disjoint sets is at most the
\* size of their union, and is that size where each is the size of its set.
LEMMA SumOfParts ==
    ASSUME NEW I, IsFiniteSet(I), NEW n \in [I -> Nat], NEW S, NEW P \in [I -> SUBSET S],
           \A i \in I : IsFiniteSet(P[i]) /\ n[i] <= Cardinality(P[i]),
           \A i \in I, j \in I : i # j => P[i] \cap P[j] = {}
    PROVE  /\ IsFiniteSet(Joined(P))
           /\ SumOver(n) \in Nat
           /\ SumOver(n) <= Cardinality(Joined(P))
           /\ (\A i \in I : n[i] = Cardinality(P[i])) => SumOver(n) = Cardinality(Joined(P))
  <1> DEFINE U == UNION {P[i] : i \in I}
             sizes == UNION {{i} \X (1..n[i]) : i \in I}
             nth(i) == CHOOSE g : g \in Bijection(1..Cardinality(P[i]), P[i])
             G == [p \in sizes |-> nth(p[1])[p[2]]]
  <1>1. IsFiniteSet(U)
    <2>1. UNION {{P[i]} : i \in I} = {P[i] : i \in I}
      OBVIOUS
    <2>2. [i \in I |-> P[i]] \in Surjection(I, {P[i] : i \in I})
      BY DEF Surjection
    <2>3. IsFiniteSet({P[i] : i \in I})
      BY <2>2, FS_Surjection
    <2> QED  BY <2>3, FS_UNION
  <1>2. ASSUME NEW i \in I
        PROVE  /\ Cardinality(P[i]) \in Nat
               /\ nth(i) \in Bijection(1..Cardinality(P[i]), P[i])
    BY FS_CardinalityType DEF ExistsBijection
  <1>3. \A p \in sizes : p[1] \in I /\ p[2] \in 1..n[p[1]] /\ p = <<p[1], p[2]>>
    OBVIOUS
  <1> HIDE DEF nth, sizes
  <1>4. ASSUME NEW p \in sizes
        PROVE  G[p] \in P[p[1]]
    <2>1. p[2] \in 1..Cardinality(P[p[1]])
      BY <1>2, <1>3
    <2> QED  BY <2>1, <1>2, <1>3 DEF Bijection, Injection
  <1>5. G \in [sizes -> U]
    BY <1>3, <1>4
  <1>6. ASSUME NEW p \in sizes, NEW q \in sizes, G[p] = G[q]
        PROVE  p = q
    <2>1. p[1] = q[1]
      BY <1>3, <1>4, <1>6
    <2>2. /\ p[2] \in 1..Cardinality(P[p[1]]) /\ q[2] \in 1..Cardinality(P[p[1]])
          /\ nth(p[1])[p[2]] = nth(p[1])[q[2]]
      BY <2>1, <1>2, <1>3, <1>6
    <2>3. p[2] = q[2]
      BY <2>2, <1>2, <1>3 DEF Bijection, Injection, IsInjective
    <2> QED  BY <2>1, <2>3, <1>3
  <1>7. SumOver(n) = Cardinality(sizes)
    BY DEF SumOver, sizes
  <1> HIDE DEF G, U
  <1>8. G \in Injection(sizes, U)
    BY <1>5, <1>6 DEF Injection, IsInjective
  <1>9. /\ IsFiniteSet(sizes) /\ Cardinality(sizes) <= Cardinality(U)
        /\ Cardinality(sizes) = Cardinality(U) <=> G \in Surjection(sizes, U)
    BY <1>1, <1>8, FS_Injection
  <1>10. ASSUME \A i \in I : n[i] = Cardinality(P[i])
         PROVE  G \in Surjection(sizes, U)
    <2>1. ASSUME NEW x \in U
          PROVE  \E p \in sizes : G[p] = x
      <3>1. PICK i \in I : x \in P[i]
        BY DEF U
      <3>2. PICK j \in 1..Cardinality(P[i]) : nth(i)[j] = x
        BY <1>2, <3>1 DEF Bijection, Surjection
      <3>3. <<i, j>> \in sizes
        BY <3>2, <1>10 DEF sizes
      <3> QED  BY <3>2, <3>3 DEF G
    <2> QED  BY <2>1, <1>5 DEF Surjection
  <1> QED  BY <1>1, <1>7, <1>9, <1>10, FS_CardinalityType DEF U, Joined

LEMMA SumOfSizes ==
    ASSUME NEW I, IsFiniteSet(I), NEW n \in [I -> Nat], NEW S, NEW P \in [I -> SUBSET S],
           \A i \in I : IsFiniteSet(P[i]) /\ n[i] = Cardinality(P[i]),
           \A i \in I, j \in I : i # j => P[i] \cap P[j] = {}
    PROVE  IsFiniteSet(Joined(P)) /\ SumOver(n) = Cardinality(Joined(P))
  <1>1. \A i \in I : n[i] \in Nat /\ n[i] = Cardinality(P[i])
    OBVIOUS
  <1>2. \A i \in I : IsFiniteSet(P[i]) /\ n[i] <= Cardinality(P[i])
    BY <1>1
  <1>3. /\ IsFiniteSet(Joined(P))
        /\ (\A i \in I : n[i] = Cardinality(P[i])) => SumOver(n) = Cardinality(Joined(P))
    BY <1>2, SumOfParts
  <1> QED  BY <1>1, <1>3

\* The message that what a column counts is of.
MessageOf(k, x) == IF k = "received" THEN x[1] ELSE x

Countable == Message \cup (Message \X User)

LEMMA CountableIsFinite ==
    IsFiniteSet(Countable)
  BY StatisticsAssumption, FS_Product, FS_Union DEF Countable

\* What is counted on some days of some conversations is what is counted of all
\* that is of a message of these.
LEMMA CountedOf ==
    ASSUME NEW f \in File, NEW C \in SUBSET Conv, NEW D \in SUBSET Day,
           NEW k \in Columns, NEW u \in User
    PROVE  /\ Counted(f, C, D, k, u) \in SUBSET Countable
           /\ \A x \in Counted(f, C, D, k, u) : MessageOf(k, x) \in f.rows
           /\ \A x : x \in Counted(f, C, D, k, u) <=>
                      /\ x \in Counted(f, Conv, Day, k, u)
                      /\ ConvOf[MessageOf(k, x)] \in C
                      /\ DayOf[MessageOf(k, x)] \in D
  <1>0. /\ f.rows \in SUBSET Message
        /\ \A m \in Message : ConvOf[m] \in Conv /\ DayOf[m] \in Day
    BY StatisticsAssumption DEF File
  <1>1. In(f, C, D) = {m \in In(f, Conv, Day) : ConvOf[m] \in C /\ DayOf[m] \in D}
    BY <1>0 DEF In
  <1>2. In(f, C, D) \in SUBSET f.rows
    BY DEF In
  <1>3. SentBy(f, C, D, u) = {m \in SentBy(f, Conv, Day, u) : ConvOf[m] \in C /\ DayOf[m] \in D}
    BY <1>1 DEF SentBy
  <1>4. CASE k = "messages"
    <2>1. \A A, B : Counted(f, A, B, k, u) = SentBy(f, A, B, u)
      BY <1>4 DEF Counted
    <2>2. SentBy(f, C, D, u) \in SUBSET f.rows
      BY <1>2 DEF SentBy
    <2> QED  BY <1>0, <1>3, <1>4, <2>1, <2>2 DEF MessageOf, Countable
  <1>5. CASE k = "received"
    <2>1. \A A, B : Counted(f, A, B, k, u) = LikesReceived(f, A, B, u)
      BY <1>5 DEF Counted
    <2>2. SentBy(f, C, D, u) \in SUBSET f.rows
      BY <1>2 DEF SentBy
    <2>3. \A x : x \in LikesReceived(f, C, D, u) <=>
                 x \in LikesReceived(f, Conv, Day, u) /\ x[1] \in SentBy(f, C, D, u)
      BY <1>3 DEF LikesReceived
    <2>4. \A x \in LikesReceived(f, Conv, Day, u) : x[1] \in SentBy(f, Conv, Day, u)
      BY DEF LikesReceived
    <2>5. \A x : x \in LikesReceived(f, C, D, u) <=>
                 /\ x \in LikesReceived(f, Conv, Day, u)
                 /\ ConvOf[x[1]] \in C /\ DayOf[x[1]] \in D
      BY <2>3, <2>4, <1>3
    <2>6. LikesReceived(f, C, D, u) \in SUBSET (Message \X User)
      BY <1>0, <2>2 DEF LikesReceived
    <2> QED  BY <1>5, <2>1, <2>2, <2>3, <2>5, <2>6 DEF MessageOf, Countable
  <1>6. CASE k = "given"
    <2>1. \A A, B : Counted(f, A, B, k, u) = LikesGiven(f, A, B, u)
      BY <1>6 DEF Counted
    <2> QED  BY <1>0, <1>1, <1>2, <1>6, <2>1 DEF LikesGiven, MessageOf, Countable
  <1>7. CASE k \in {"kick", "leave", "deleted"}
    <2>1. \A A, B : Counted(f, A, B, k, u) = Events(f, A, B, k, u)
      BY <1>7 DEF Counted
    <2> QED  BY <1>0, <1>1, <1>2, <1>7, <2>1 DEF Events, MessageOf, Countable
  <1> QED  BY <1>4, <1>5, <1>6, <1>7 DEF Columns

LEMMA CountedIsFinite ==
    ASSUME NEW f \in File, NEW C \in SUBSET Conv, NEW D \in SUBSET Day,
           NEW k \in Columns, NEW u \in User
    PROVE  /\ IsFiniteSet(Counted(f, C, D, k, u))
           /\ Cardinality(Counted(f, C, D, k, u)) \in Nat
  BY CountedOf, CountableIsFinite, FS_Subset, FS_CardinalityType

\* Nothing but the messages held and their likes is counted.
LEMMA CountedSame ==
    ASSUME NEW f, NEW g, f.rows = g.rows, f.liked = g.liked, NEW C, NEW D, NEW k, NEW u
    PROVE  Counted(f, C, D, k, u) = Counted(g, C, D, k, u)
  BY DEF Counted, SentBy, LikesReceived, LikesGiven, Events, In
----------------------------------------------------------------------------
(* The daily tables: the invariant *)

\* The buckets of an archive have in some columns what its messages say.
Counts(f, columns) ==
    \A c \in Conv, d \in Day, k \in columns, u \in User :
        LET said == Cardinality(Counted(f, {c}, {d}, k, u))
        IN  IF k = "deleted" THEN f.daily[c][d][k][u] <= said
                             ELSE f.daily[c][d][k][u] = said

\* The columns the backfill has done with.
Done == CASE pc = "likes"  -> {"messages", "received"}
          [] pc = "events" -> {"messages", "received", "given"}
          [] pc = "commit" -> Columns
          [] OTHER         -> {}

\* An archive of an older schema has the tables of that schema only, and one that
\* is new has no messages.
FileIsOfItsVersion ==
    /\ SchemaIsWhole
    /\ file.version < SCHEMA_VERSION => file.daily = Empty
    /\ file.version = 0 => file.rows = {}
    /\ file.version = SCHEMA_VERSION => Counts(file, Columns) /\ pc \in {"closed", "open"}

\* What the transaction has made of it, where migrate is.
WorkIsUnderWay ==
    /\ pc # "arms" => arm = 2
    /\ pc = "open" => file.version = SCHEMA_VERSION
    /\ pc = "new" => work = file /\ file.version = 0
    /\ pc = "arms" => /\ work = [file EXCEPT !.schema = work.schema]
                      /\ work.schema = SchemaOf(file.version) \cup 2..(arm - 1)
    /\ pc \in Statements \cup {"commit"} => work.schema = Arms
    /\ Counts(work, Done)

\* What every step keeps.
CountsInv == TypeOK /\ FileIsOfItsVersion /\ WorkIsUnderWay

LEMMA DailyIsOfNumbers ==
    ASSUME NEW f \in File, NEW c \in Conv, NEW d \in Day, NEW k \in Columns, NEW u \in User
    PROVE  f.daily[c][d][k][u] \in Nat
  BY DEF File, Tally

\* The sum of the buckets is what is counted of their conversations and days.
LEMMA SumOfBuckets ==
    ASSUME NEW f \in File, Counts(f, Columns), NEW C \in SUBSET Conv, NEW D \in SUBSET Day,
           NEW k \in Columns, NEW u \in User
    PROVE  LET sum  == SumOver([b \in C \X D |-> f.daily[b[1]][b[2]][k][u]])
               said == Cardinality(Counted(f, C, D, k, u))
           IN  /\ sum \in Nat
               /\ IF k = "deleted" THEN sum <= said ELSE sum = said
  <1> DEFINE B == C \X D
             n == [b \in B |-> f.daily[b[1]][b[2]][k][u]]
             P == [b \in B |-> Counted(f, {b[1]}, {b[2]}, k, u)]
  <1>1. IsFiniteSet(B)
    BY StatisticsAssumption, FS_Product, FS_Subset
  <1>2. \A b \in B : b[1] \in Conv /\ b[2] \in Day /\ b[1] \in C /\ b[2] \in D /\ b = <<b[1], b[2]>>
    OBVIOUS
  <1>3. n \in [B -> Nat]
    BY <1>2, DailyIsOfNumbers
  <1>4. ASSUME NEW b \in B
        PROVE  /\ P[b] \in SUBSET Countable /\ IsFiniteSet(P[b]) /\ Cardinality(P[b]) \in Nat
               /\ n[b] <= Cardinality(P[b])
               /\ k # "deleted" => n[b] = Cardinality(P[b])
    <2>1. {b[1]} \in SUBSET Conv /\ {b[2]} \in SUBSET Day
      BY <1>2
    <2>2. P[b] \in SUBSET Countable /\ IsFiniteSet(P[b]) /\ Cardinality(P[b]) \in Nat
      BY <2>1, CountedOf, CountedIsFinite
    <2>3. IF k = "deleted" THEN n[b] <= Cardinality(P[b]) ELSE n[b] = Cardinality(P[b])
      BY <1>2 DEF Counts
    <2>4. n[b] \in Nat
      BY <1>3
    <2> HIDE DEF n, P, B
    <2> QED  BY <2>2, <2>3, <2>4
  <1>5. \A b \in B : \A x : x \in P[b] <=> /\ x \in Counted(f, Conv, Day, k, u)
                                           /\ ConvOf[MessageOf(k, x)] = b[1]
                                           /\ DayOf[MessageOf(k, x)] = b[2]
    <2> TAKE b \in B
    <2>1. {b[1]} \in SUBSET Conv /\ {b[2]} \in SUBSET Day
      BY <1>2
    <2> QED  BY <2>1, CountedOf
  <1>6. ASSUME NEW b \in B, NEW e \in B, b # e
        PROVE  P[b] \cap P[e] = {}
    <2> HIDE DEF P, B
    <2> QED  BY <1>2, <1>5, <1>6
  <1>7. P \in [B -> SUBSET Countable]
    BY <1>4
  <1>8. Joined(P) = Counted(f, C, D, k, u)
    <2>1. \A x : x \in Counted(f, C, D, k, u) <=> /\ x \in Counted(f, Conv, Day, k, u)
                                                  /\ ConvOf[MessageOf(k, x)] \in C
                                                  /\ DayOf[MessageOf(k, x)] \in D
      BY CountedOf
    <2>2. \A c \in C, d \in D : <<c, d>> \in B /\ <<c, d>>[1] = c /\ <<c, d>>[2] = d
      OBVIOUS
    <2> HIDE DEF P, B
    <2>3. ASSUME NEW x \in Counted(f, C, D, k, u)
          PROVE  \E b \in B : x \in P[b]
      <3> DEFINE b == <<ConvOf[MessageOf(k, x)], DayOf[MessageOf(k, x)]>>
      <3>1. /\ x \in Counted(f, Conv, Day, k, u) /\ b \in B
            /\ b[1] = ConvOf[MessageOf(k, x)] /\ b[2] = DayOf[MessageOf(k, x)]
        BY <2>1, <2>2
      <3> HIDE DEF b
      <3> QED  BY <3>1, <1>5
    <2>4. ASSUME NEW b \in B, NEW x \in P[b]
          PROVE  x \in Counted(f, C, D, k, u)
      BY <2>1, <1>2, <1>5
    <2> QED  BY <2>3, <2>4, <1>7 DEF Joined
  <1> HIDE DEF n, P, B
  <1>0. /\ \A b \in B : IsFiniteSet(P[b]) /\ n[b] <= Cardinality(P[b])
        /\ \A b \in B, e \in B : b # e => P[b] \cap P[e] = {}
    BY <1>4, <1>6
  <1>9. /\ SumOver(n) \in Nat
        /\ SumOver(n) <= Cardinality(Joined(P))
        /\ (\A b \in B : n[b] = Cardinality(P[b])) => SumOver(n) = Cardinality(Joined(P))
    BY <1>0, <1>1, <1>3, <1>7, SumOfParts
  <1> QED  BY <1>4, <1>8, <1>9 DEF n, B

LEMMA BoardOfTheRows ==
    CountsInv => BoardIsOfTheRows
  <1> SUFFICES ASSUME CountsInv, pc = "open",
                      NEW of \in Conv \cup {"all"}, NEW since \in Day,
                      NEW k \in Columns, NEW u \in User
               PROVE  LET said == Cardinality(Counted(file, BoardConvs(of), Since(since), k, u))
                      IN  IF k = "deleted" THEN Board(of, since)[k][u] <= said
                                           ELSE Board(of, since)[k][u] = said
    BY DEF BoardIsOfTheRows
  <1>1. BoardConvs(of) \in SUBSET Conv /\ Since(since) \in SUBSET Day
    BY StatisticsAssumption DEF BoardConvs, Since
  <1>2. file \in File /\ Counts(file, Columns)
    BY DEF CountsInv, TypeOK, FileIsOfItsVersion, WorkIsUnderWay
  <1>3. Board(of, since)[k][u] =
          SumOver([b \in BoardConvs(of) \X Since(since) |-> file.daily[b[1]][b[2]][k][u]])
    BY DEF Board
  <1> QED  BY <1>1, <1>2, <1>3, SumOfBuckets

LEMMA CountsSame ==
    ASSUME NEW f, NEW g, f.rows = g.rows, f.liked = g.liked, f.daily = g.daily, NEW columns
    PROVE  Counts(f, columns) = Counts(g, columns)
  BY CountedSame DEF Counts

LEMMA NoFileIsFile ==
    /\ NoFile \in File
    /\ Empty \in [Conv -> [Day -> Tally]]
  <1>1. NoTally \in Tally
    BY DEF NoTally, NoOne, Tally
  <1>2. Empty \in [Conv -> [Day -> Tally]]
    BY <1>1 DEF Empty
  <1> QED  BY <1>2 DEF NoFile, File, SCHEMA_VERSION

LEMMA NamesAreNames ==
    ASSUME NEW S \in SUBSET Message, NEW users \in [User -> Name \cup {Nameless}]
    PROVE  NamesIn(S, users) \in [User -> Name \cup {Nameless}]
  <1> SUFFICES ASSUME NEW u \in User, By(u, S) # {}
               PROVE  NameOf[Max(By(u, S))] \in Name
    BY DEF NamesIn
  <1>1. By(u, S) \in SUBSET Message /\ Message \in SUBSET Nat
    BY StatisticsAssumption DEF By
  <1>2. By(u, S) \in SUBSET Nat /\ IsFiniteSet(By(u, S))
    BY <1>1, StatisticsAssumption, FS_Subset
  <1>3. Max(By(u, S)) \in Message
    BY <1>1, <1>2, MaxOfFinite
  <1> QED  BY <1>3, StatisticsAssumption

LEMMA InitCountsInv ==
    ASSUME Init
    PROVE  CountsInv
  <1>1. PICK v \in InitialVersions, S \in SUBSET Message :
          /\ v = 0 => S = {}
          /\ file = [NoFile EXCEPT
               !.version = v, !.schema = SchemaOf(v), !.rows = S,
               !.liked = [m \in Message |-> IF m \in S THEN likes[m] ELSE {}],
               !.users = NamesIn(S, NoFile.users)]
    BY DEF Init
  <1>2. likes \in [Message -> SUBSET User]
    BY StatisticsAssumption DEF Init
  <1>3. v \in 0..6 /\ SchemaOf(v) \in SUBSET Arms
    BY StatisticsAssumption DEF SCHEMA_VERSION, SchemaOf
  <1>4. /\ NoFile.users \in [User -> Name \cup {Nameless}]
        /\ NoFile.roster \in [Conv -> SUBSET User]
        /\ NoFile.daily = Empty
    BY DEF NoFile
  <1>5. NamesIn(S, NoFile.users) \in [User -> Name \cup {Nameless}]
    BY <1>4, NamesAreNames
  <1>6. /\ file.version = v /\ file.schema = SchemaOf(v) /\ file.rows = S
        /\ file.liked = [m \in Message |-> IF m \in S THEN likes[m] ELSE {}]
        /\ file.daily = Empty
        /\ file = [version |-> file.version, schema |-> file.schema, rows |-> file.rows,
                   liked |-> file.liked, daily |-> file.daily, users |-> file.users,
                   roster |-> file.roster]
        /\ file.users = NamesIn(S, NoFile.users) /\ file.roster = NoFile.roster
    BY <1>1 DEF NoFile
  <1>7. file.liked \in [Message -> SUBSET User]
    BY <1>2, <1>6
  <1>8. file \in File
    BY <1>3, <1>4, <1>5, <1>6, <1>7, NoFileIsFile DEF File, SCHEMA_VERSION
  <1>9. TypeOK
    BY <1>2, <1>8, NoFileIsFile, StatisticsAssumption
       DEF Init, TypeOK, Pcs, Arms, SCHEMA_VERSION
  <1>10. FileIsOfItsVersion
    BY <1>1, <1>3, <1>6 DEF FileIsOfItsVersion, SchemaIsWhole, SCHEMA_VERSION
  <1>11. WorkIsUnderWay
    BY DEF Init, WorkIsUnderWay, Done, Counts, Statements
  <1> QED  BY <1>9, <1>10, <1>11 DEF CountsInv

\* A like given or withdrawn is of GroupMe alone.
LEMMA LikeKeeps ==
    ASSUME CountsInv, NEW u \in User, NEW m \in Message, Like(u, m)
    PROVE  CountsInv'
  <1>1. likes' \in [Message -> SUBSET User]
    BY DEF Like, CountsInv, TypeOK
  <1>2. UNCHANGED <<pc, arm, file, work, crashes>>
    BY DEF Like
  <1>3. changes' \in 0..MaxLikes
    BY StatisticsAssumption DEF Like, CountsInv, TypeOK
  <1>4. TypeOK'
    BY <1>1, <1>2, <1>3 DEF CountsInv, TypeOK
  <1>5. FileIsOfItsVersion'
    BY <1>2 DEF CountsInv, FileIsOfItsVersion, SchemaIsWhole, Counts
  <1>6. WorkIsUnderWay'
    BY <1>2 DEF CountsInv, WorkIsUnderWay, Done, Counts
  <1> QED  BY <1>4, <1>5, <1>6 DEF CountsInv

\* A step that leaves the file alone keeps what is said of the file.
LEMMA FileKept ==
    ASSUME CountsInv, file' = file,
           file.version = SCHEMA_VERSION => pc' \in {"closed", "open"}
    PROVE  FileIsOfItsVersion'
  BY DEF CountsInv, FileIsOfItsVersion, SchemaIsWhole, Counts

LEMMA OpenKeeps ==
    ASSUME CountsInv, Open
    PROVE  CountsInv'
  <1>1. UNCHANGED <<likes, arm, file, changes, crashes>> /\ pc = "closed" /\ arm = 2
    BY DEF Open, CountsInv, WorkIsUnderWay
  <1>2. file \in File /\ file.version \in 0..7
    BY DEF CountsInv, TypeOK, File, SCHEMA_VERSION
  <1>3. \/ file.version = 7 /\ pc' = "open" /\ work' = work
        \/ file.version = 0 /\ pc' = "new" /\ work' = file
        \/ file.version \in 1..6 /\ pc' = "arms" /\ work' = file
    BY <1>2 DEF Open, SCHEMA_VERSION
  <1>4. TypeOK'
    BY <1>1, <1>2, <1>3 DEF CountsInv, TypeOK, Pcs
  <1>5. FileIsOfItsVersion'
    BY <1>1, <1>3, FileKept DEF SCHEMA_VERSION
  <1>6. pc' = "arms" => /\ work' = [file EXCEPT !.schema = work'.schema]
                        /\ work'.schema = SchemaOf(file.version) \cup 2..(arm - 1)
    BY <1>1, <1>2, <1>3 DEF CountsInv, FileIsOfItsVersion, SchemaIsWhole, File
  <1>7. WorkIsUnderWay'
    BY <1>1, <1>3, <1>6 DEF WorkIsUnderWay, Done, Counts, Statements, SCHEMA_VERSION
  <1> QED  BY <1>4, <1>5, <1>7 DEF CountsInv

LEMMA CrashKeeps ==
    ASSUME CountsInv, Crash
    PROVE  CountsInv'
  <1>1. TypeOK'
    BY NoFileIsFile, StatisticsAssumption DEF Crash, CountsInv, TypeOK, Pcs, Arms, SCHEMA_VERSION
  <1>2. FileIsOfItsVersion'
    BY FileKept DEF Crash
  <1>3. WorkIsUnderWay'
    BY DEF Crash, WorkIsUnderWay, Done, Counts, Statements
  <1> QED  BY <1>1, <1>2, <1>3 DEF CountsInv

\* An archive with no messages has nothing to count.
LEMMA EmptyCountsNothing ==
    ASSUME NEW f, f.rows = {}, f.daily = Empty
    PROVE  Counts(f, Columns)
  <1>1. ASSUME NEW c \in Conv, NEW d \in Day, NEW k \in Columns, NEW u \in User
        PROVE  Cardinality(Counted(f, {c}, {d}, k, u)) = 0 /\ f.daily[c][d][k][u] = 0
    <2>1. In(f, {c}, {d}) = {}
      BY DEF In
    <2>2. SentBy(f, {c}, {d}, u) = {} /\ LikesGiven(f, {c}, {d}, u) = {}
      BY <2>1 DEF SentBy, LikesGiven
    <2>3. Events(f, {c}, {d}, k, u) = {}
      BY <2>1 DEF Events
    <2>4. LikesReceived(f, {c}, {d}, u) = {}
      BY <2>2 DEF LikesReceived
    <2>5. Counted(f, {c}, {d}, k, u) = {}
      BY <2>2, <2>3, <2>4 DEF Counted
    <2>6. f.daily[c][d][k][u] = 0
      BY DEF Empty, NoTally, NoOne
    <2> QED  BY <2>5, <2>6, FS_EmptySet
  <1>2. ASSUME NEW c \in Conv, NEW d \in Day, NEW k \in Columns, NEW u \in User
        PROVE  LET said == Cardinality(Counted(f, {c}, {d}, k, u))
               IN  IF k = "deleted" THEN f.daily[c][d][k][u] <= said
                                    ELSE f.daily[c][d][k][u] = said
    <2>1. Cardinality(Counted(f, {c}, {d}, k, u)) = 0 /\ f.daily[c][d][k][u] = 0
      BY <1>1
    <2> QED  BY <2>1
  <1> QED  BY <1>2 DEF Counts

\* A new archive has all of the schema at once, and no messages.
LEMMA CreateKeeps ==
    ASSUME CountsInv, Create
    PROVE  CountsInv'
  <1>1. /\ UNCHANGED <<likes, arm, file, changes, crashes>> /\ pc = "new" /\ pc' = "commit"
        /\ work' = [work EXCEPT !.schema = Arms] /\ arm = 2
    BY DEF Create, CountsInv, WorkIsUnderWay
  <1>2. work = file /\ file.version = 0 /\ file \in File
    BY <1>1 DEF CountsInv, WorkIsUnderWay, TypeOK
  <1>3. file.rows = {} /\ file.daily = Empty
    BY <1>2 DEF CountsInv, FileIsOfItsVersion, SCHEMA_VERSION
  <1>4. /\ work' \in File /\ work'.schema = Arms
        /\ work'.rows = {} /\ work'.daily = Empty
    BY <1>1, <1>2, <1>3 DEF File
  <1>5. Counts(work', Columns)
    BY <1>4, EmptyCountsNothing
  <1>6. TypeOK'
    BY <1>1, <1>4 DEF CountsInv, TypeOK, Pcs
  <1>7. FileIsOfItsVersion'
    BY <1>1, <1>2, FileKept DEF SCHEMA_VERSION
  <1>8. WorkIsUnderWay'
    <2>1. Counts(work, Done)'
      BY <1>1, <1>5 DEF Done, Counts
    <2> QED  BY <1>1, <1>4, <2>1 DEF WorkIsUnderWay
  <1> QED  BY <1>6, <1>7, <1>8 DEF CountsInv

\* The arm that is the last leaves the backfill out only where nothing is held.
LEMMA ArmKeeps ==
    ASSUME CountsInv, Arm
    PROVE  CountsInv'
  <1>1. /\ UNCHANGED <<likes, file, changes, crashes>> /\ pc = "arms"
        /\ work' = [work EXCEPT !.schema = work.schema \cup {arm}]
        /\ work = [file EXCEPT !.schema = work.schema]
        /\ work.schema = SchemaOf(file.version) \cup 2..(arm - 1)
    BY DEF Arm, CountsInv, WorkIsUnderWay
  <1>2. /\ file \in File /\ work \in File /\ arm \in 2..7
        /\ file.version \in 0..7 /\ file.version # 7
    BY <1>1 DEF CountsInv, TypeOK, FileIsOfItsVersion, Arms, SCHEMA_VERSION, File
  <1>3. file.daily = Empty
    BY <1>2 DEF CountsInv, FileIsOfItsVersion, SCHEMA_VERSION
  <1>4. /\ work' \in File /\ work'.schema = work.schema \cup {arm}
        /\ work'.rows = work.rows /\ work'.daily = work.daily
        /\ work.daily = Empty
    <2>1. work.daily = file.daily
      BY <1>1, <1>2 DEF File
    <2> QED  BY <1>1, <1>2, <1>3, <2>1 DEF File, Arms, SCHEMA_VERSION
  <1>5. work' = [file' EXCEPT !.schema = work'.schema]
    BY <1>1, <1>2, <1>4 DEF File
  <1>6. work'.schema = SchemaOf(file.version) \cup 2..arm
    BY <1>1, <1>2, <1>4
  <1>7. TypeOK'
    BY <1>1, <1>2, <1>4 DEF CountsInv, TypeOK, Pcs, Arms, Arm, Statements, SCHEMA_VERSION
  <1>8. FileIsOfItsVersion'
    BY <1>1, <1>2, FileKept DEF SCHEMA_VERSION
  <1>9. CASE arm < 7
    <2>1. pc' = "arms" /\ arm' = arm + 1 /\ arm' - 1 = arm
      BY <1>2, <1>9 DEF Arm, SCHEMA_VERSION
    <2>2. Counts(work, Done)'
      BY <2>1 DEF Done, Counts
    <2>3. WorkIsUnderWay'
      BY <1>1, <1>5, <1>6, <2>1, <2>2 DEF WorkIsUnderWay, Statements
    <2> QED  BY <1>7, <1>8, <2>3 DEF CountsInv
  <1>10. CASE arm = 7
    <2>1. arm' = 2 /\ pc' \in {"messages", "commit"}
      BY <1>10 DEF Arm, SCHEMA_VERSION
    <2>2. work'.schema = Arms
      BY <1>2, <1>6, <1>10 DEF Arms, SchemaOf, SCHEMA_VERSION
    <2>3. ASSUME pc' = "commit" PROVE work'.rows = {}
      <3>1. \A c \in Conv, d \in Day : work.daily[c][d]["messages"] = NoOne
        BY <1>4 DEF Empty, NoTally, Columns
      <3> QED  BY <1>4, <1>10, <2>3, <3>1 DEF Arm, SCHEMA_VERSION
    <2>4. ASSUME pc' = "commit" PROVE Counts(work', Columns)
      BY <1>4, <2>3, <2>4, EmptyCountsNothing
    <2>5. Counts(work, Done)'
      BY <2>1, <2>4 DEF Done, Counts
    <2>6. WorkIsUnderWay'
      BY <2>1, <2>2, <2>5 DEF WorkIsUnderWay
    <2> QED  BY <1>7, <1>8, <2>6 DEF CountsInv
  <1> QED  BY <1>2, <1>9, <1>10

LEMMA BucketIsTally ==
    ASSUME NEW f \in File, NEW c \in Conv, NEW d \in Day
    PROVE  Bucket(f, c, d) \in Tally
  <1>1. {c} \in SUBSET Conv /\ {d} \in SUBSET Day
    OBVIOUS
  <1> QED  BY <1>1, CountedIsFinite DEF Bucket, Tally

\* A statement of the backfill counts its columns and leaves the others alone.
LEMMA FillCounts ==
    ASSUME NEW columns \in SUBSET Columns, NEW done \in SUBSET Columns,
           work \in File, Counts(work, done), Fill(Backfilled(columns))
    PROVE  /\ work' \in File /\ work'.schema = work.schema
           /\ Counts(work', done \cup columns)
  <1>1. ASSUME NEW c \in Conv, NEW d \in Day
        PROVE  Bucket(work, c, d) \in Tally
    BY BucketIsTally
  <1>2. Backfilled(columns) \in [Conv -> [Day -> Tally]]
    <2>1. ASSUME NEW c \in Conv, NEW d \in Day
          PROVE  [k \in Columns |-> IF k \in columns THEN Bucket(work, c, d)[k]
                                                      ELSE work.daily[c][d][k]] \in Tally
      <3>1. work.daily[c][d] \in Tally
        BY DEF File
      <3> QED  BY <1>1, <3>1 DEF Tally
    <2> QED  BY <2>1 DEF Backfilled
  <1>3. /\ work' \in File /\ work'.schema = work.schema
        /\ work'.rows = work.rows /\ work'.liked = work.liked
        /\ work'.daily = Backfilled(columns)
    BY <1>2 DEF Fill, File
  <1>4. ASSUME NEW c \in Conv, NEW d \in Day, NEW k \in done \cup columns, NEW u \in User
        PROVE  LET said == Cardinality(Counted(work', {c}, {d}, k, u))
               IN  IF k = "deleted" THEN work'.daily[c][d][k][u] <= said
                                    ELSE work'.daily[c][d][k][u] = said
    <2>1. Counted(work', {c}, {d}, k, u) = Counted(work, {c}, {d}, k, u)
      BY <1>3, CountedSame
    <2>2. CASE k \in columns
      <3>1. work'.daily[c][d][k][u] = Cardinality(Counted(work, {c}, {d}, k, u))
        BY <1>3, <2>2 DEF Backfilled, Bucket
      <3>2. Cardinality(Counted(work, {c}, {d}, k, u)) \in Nat
        <4>1. {c} \in SUBSET Conv /\ {d} \in SUBSET Day
          OBVIOUS
        <4> QED  BY <4>1, <2>2, CountedIsFinite
      <3> QED  BY <2>1, <3>1, <3>2
    <2>3. CASE k \notin columns
      <3>1. work'.daily[c][d][k][u] = work.daily[c][d][k][u]
        BY <1>3, <2>3 DEF Backfilled
      <3> QED  BY <2>1, <2>3, <3>1 DEF Counts
    <2> QED  BY <2>2, <2>3
  <1> QED  BY <1>3, <1>4 DEF Counts

LEMMA BackfillKeeps ==
    ASSUME CountsInv, BackfillMessages \/ BackfillLikes \/ BackfillEvents
    PROVE  CountsInv'
  <1>1. PICK columns \in SUBSET Columns :
          /\ Fill(Backfilled(columns))
          /\ pc \in Statements /\ pc' \in Statements \cup {"commit"}
          /\ Done \in SUBSET Columns /\ Done' = Done \cup columns
    BY DEF BackfillMessages, BackfillLikes, BackfillEvents, Done, Columns, Statements
  <1>2. UNCHANGED <<likes, arm, file, changes, crashes>>
    BY <1>1 DEF Fill
  <1>3. /\ work \in File /\ Counts(work, Done) /\ work.schema = Arms /\ arm = 2
        /\ file.version # SCHEMA_VERSION
    BY <1>1 DEF CountsInv, TypeOK, WorkIsUnderWay, FileIsOfItsVersion, Statements
  <1>4. work' \in File /\ work'.schema = Arms /\ Counts(work', Done')
    BY <1>1, <1>3, FillCounts
  <1>5. TypeOK'
    BY <1>1, <1>2, <1>4 DEF CountsInv, TypeOK, Pcs
  <1>6. FileIsOfItsVersion'
    BY <1>2, <1>3, FileKept
  <1>7. WorkIsUnderWay'
    <2>1. Counts(work, Done)'
      BY <1>4 DEF Counts
    <2> QED  BY <1>1, <1>2, <1>3, <1>4, <2>1 DEF WorkIsUnderWay, Statements
  <1> QED  BY <1>5, <1>6, <1>7 DEF CountsInv

LEMMA CommitKeeps ==
    ASSUME CountsInv, Commit
    PROVE  CountsInv'
  <1>1. /\ UNCHANGED <<likes, arm, changes, crashes>> /\ pc = "commit" /\ pc' = "open"
        /\ work' = NoFile /\ arm = 2 /\ work \in File
        /\ file' = [work EXCEPT !.version = 7]
        /\ work.schema = Arms /\ Counts(work, Columns)
    BY DEF Commit, CountsInv, TypeOK, WorkIsUnderWay, Done, SCHEMA_VERSION
  <1>2. /\ file' \in File /\ file'.version = 7 /\ file'.schema = Arms
        /\ file'.rows = work.rows /\ file'.liked = work.liked /\ file'.daily = work.daily
    BY <1>1 DEF File, SCHEMA_VERSION
  <1>3. TypeOK'
    BY <1>1, <1>2, NoFileIsFile DEF CountsInv, TypeOK, Pcs
  <1>4. FileIsOfItsVersion'
    <2>1. Counts(file', Columns)
      BY <1>1, <1>2, CountsSame
    <2>2. Counts(file, Columns)'
      BY <2>1 DEF Counts
    <2>3. SchemaIsWhole'
      BY <1>2 DEF SchemaIsWhole, SchemaOf, Arms, SCHEMA_VERSION
    <2> QED  BY <1>1, <1>2, <2>2, <2>3 DEF FileIsOfItsVersion, SCHEMA_VERSION
  <1>5. WorkIsUnderWay'
    BY <1>1, <1>2 DEF WorkIsUnderWay, Done, Counts, Statements, SCHEMA_VERSION
  <1> QED  BY <1>3, <1>4, <1>5 DEF CountsInv

\* They hold the same on some days of some conversations.
Agree(f, g, C, D) ==
    In(g, C, D) = In(f, C, D) /\ \A m \in In(f, C, D) : f.liked[m] = g.liked[m]

\* Then the same is counted of them, but for deletions: the message of one may
\* be held by the other only.
LEMMA EventsCounted ==
    ASSUME NEW f \in File, NEW g \in File, NEW C, NEW D, Agree(f, g, C, D),
           f.rows \in SUBSET g.rows, NEW u \in User
    PROVE  Counted(f, C, D, "deleted", u) \in SUBSET Counted(g, C, D, "deleted", u)
  BY DEF Counted, Events, Agree

LEMMA SameCounted ==
    ASSUME NEW f \in File, NEW g \in File, NEW C, NEW D, Agree(f, g, C, D),
           NEW k \in Columns, k # "deleted", NEW u \in User
    PROVE  Counted(g, C, D, k, u) = Counted(f, C, D, k, u)
  <1>1. SentBy(g, C, D, u) = SentBy(f, C, D, u)
    BY DEF SentBy, Agree
  <1>2. SentBy(f, C, D, u) \subseteq In(f, C, D)
    BY DEF SentBy
  <1>3. LikesReceived(g, C, D, u) = LikesReceived(f, C, D, u)
    BY <1>1, <1>2 DEF LikesReceived, Agree
  <1>4. LikesGiven(g, C, D, u) = LikesGiven(f, C, D, u)
    BY DEF LikesGiven, Agree
  <1>5. Events(g, C, D, k, u) = Events(f, C, D, k, u)
    BY DEF Events, Agree
  <1> QED  BY <1>1, <1>3, <1>4, <1>5 DEF Counted, Columns

\* A page makes the buckets of its days anew; no message of it is of another.
LEMMA InsertKeeps ==
    ASSUME CountsInv, NEW c \in Conv, NEW S \in Pages(c), InsertMessages(c, S)
    PROVE  CountsInv'
  <1> DEFINE with == [file EXCEPT
                        !.rows = file.rows \cup S,
                        !.liked = [m \in Message |-> IF m \in S THEN likes[m] ELSE file.liked[m]],
                        !.users = NamesIn(S, file.users)]
             days == [d \in Day |-> IF d \in DaysOf(S) THEN Bucket(with, c, d)
                                                       ELSE file.daily[c][d]]
  <1>1. /\ UNCHANGED <<likes, pc, arm, work, changes, crashes>> /\ pc = "open"
        /\ file' = [with EXCEPT !.daily[c] = days]
        /\ S \in SUBSET Message /\ \A m \in S : ConvOf[m] = c
    BY DEF InsertMessages, Pages, File, CountsInv, TypeOK
  <1>2. /\ file \in File /\ file.version = 7 /\ Counts(file, Columns) /\ work \in File
        /\ likes \in [Message -> SUBSET User]
    BY <1>1 DEF CountsInv, TypeOK, FileIsOfItsVersion, WorkIsUnderWay, SCHEMA_VERSION
  <1>3. /\ with \in File /\ with.version = file.version /\ with.schema = file.schema
        /\ with.rows = file.rows \cup S /\ with.daily = file.daily
        /\ \A m \in Message : with.liked[m] = IF m \in S THEN likes[m] ELSE file.liked[m]
    <2>1. NamesIn(S, file.users) \in [User -> Name \cup {Nameless}]
      BY <1>1, <1>2, NamesAreNames DEF File
    <2>2. [m \in Message |-> IF m \in S THEN likes[m] ELSE file.liked[m]]
            \in [Message -> SUBSET User]
      BY <1>2 DEF File
    <2> QED  BY <1>1, <1>2, <2>1, <2>2 DEF File
  <1> HIDE DEF with
  <1>4. days \in [Day -> Tally]
    <2>1. \A d \in Day : Bucket(with, c, d) \in Tally
      BY <1>3, BucketIsTally
    <2> QED  BY <1>2, <2>1 DEF File
  <1> HIDE DEF days
  <1>5. /\ file' \in File /\ file'.version = 7 /\ file'.schema = file.schema
        /\ file'.rows = with.rows /\ file'.liked = with.liked
        /\ file'.daily = [file.daily EXCEPT ![c] = days]
    <2>1. file' = [with EXCEPT !.daily = [file.daily EXCEPT ![c] = days]]
      BY <1>1, <1>3 DEF File
    <2>2. [file.daily EXCEPT ![c] = days] \in [Conv -> [Day -> Tally]]
      BY <1>2, <1>4 DEF File
    <2> QED  BY <1>2, <1>3, <2>1, <2>2 DEF File
  <1>6. ASSUME NEW b \in Conv, NEW d \in Day, NEW k \in Columns, NEW u \in User
        PROVE  LET said == Cardinality(Counted(file', {b}, {d}, k, u))
               IN  IF k = "deleted" THEN file'.daily[b][d][k][u] <= said
                                    ELSE file'.daily[b][d][k][u] = said
    <2>1. Counted(file', {b}, {d}, k, u) = Counted(with, {b}, {d}, k, u)
      BY <1>5, CountedSame
    <2>2. {b} \in SUBSET Conv /\ {d} \in SUBSET Day
      OBVIOUS
    <2>3. /\ IsFiniteSet(Counted(with, {b}, {d}, k, u))
          /\ Cardinality(Counted(with, {b}, {d}, k, u)) \in Nat
      BY <2>2, <1>3, CountedIsFinite
    <2>4. CASE b = c /\ d \in DaysOf(S)
      <3>1. file'.daily[b][d][k][u] = Cardinality(Counted(with, {b}, {d}, k, u))
        BY <1>2, <1>5, <2>4 DEF days, File, Bucket
      <3> QED  BY <2>1, <2>3, <3>1
    <2>5. CASE ~(b = c /\ d \in DaysOf(S))
      <3>1. file'.daily[b][d][k][u] = file.daily[b][d][k][u]
        BY <1>2, <1>5, <2>5 DEF days, File
      <3>2. In(with, {b}, {d}) = In(file, {b}, {d}) /\ \A m \in In(file, {b}, {d}) : m \notin S
        BY <1>1, <1>3, <2>5 DEF In, DaysOf
      <3>3. Agree(file, with, {b}, {d}) /\ file.rows \in SUBSET with.rows
        <4>1. \A m \in In(file, {b}, {d}) : file.liked[m] = with.liked[m]
          BY <1>2, <1>3, <3>2 DEF In, File
        <4> QED  BY <1>3, <3>2, <4>1 DEF Agree
      <3>4. file \in File /\ with \in File
        BY <1>2, <1>3
      <3>5. /\ Cardinality(Counted(file, {b}, {d}, k, u)) \in Nat
            /\ file.daily[b][d][k][u] \in Nat
        BY <1>2, <2>2, CountedIsFinite, DailyIsOfNumbers
      <3>6. IF k = "deleted"
            THEN file.daily[b][d][k][u] <= Cardinality(Counted(file, {b}, {d}, k, u))
            ELSE file.daily[b][d][k][u] = Cardinality(Counted(file, {b}, {d}, k, u))
        BY <1>2 DEF Counts
      <3>7. CASE k = "deleted"
        <4>1. Counted(file, {b}, {d}, k, u) \in SUBSET Counted(with, {b}, {d}, k, u)
          BY <3>3, <3>4, <3>7, EventsCounted
        <4>2. Cardinality(Counted(file, {b}, {d}, k, u))
                <= Cardinality(Counted(with, {b}, {d}, k, u))
          BY <4>1, <2>3, FS_Subset
        <4> QED  BY <2>1, <2>3, <3>1, <3>5, <3>6, <3>7, <4>2
      <3>8. CASE k # "deleted"
        <4>1. Counted(with, {b}, {d}, k, u) = Counted(file, {b}, {d}, k, u)
          BY <3>3, <3>4, <3>8, SameCounted
        <4> QED  BY <2>1, <3>1, <3>6, <3>8, <4>1
      <3> QED  BY <3>7, <3>8
    <2> QED  BY <2>4, <2>5
  <1>7. TypeOK'
    BY <1>1, <1>5 DEF CountsInv, TypeOK
  <1>8. FileIsOfItsVersion'
    <2>1. Counts(file, Columns)'
      BY <1>6 DEF Counts
    <2>2. SchemaIsWhole'
      BY <1>2, <1>5 DEF CountsInv, FileIsOfItsVersion, SchemaIsWhole
    <2> QED  BY <1>1, <1>5, <2>1, <2>2 DEF FileIsOfItsVersion, SCHEMA_VERSION
  <1>9. WorkIsUnderWay'
    BY <1>1, <1>5 DEF CountsInv, WorkIsUnderWay, Done, Counts, Statements, SCHEMA_VERSION
  <1> QED  BY <1>7, <1>8, <1>9 DEF CountsInv

LEMMA StoreRosterKeeps ==
    ASSUME CountsInv, NEW c \in Groups, NEW R \in Rosters, StoreRoster(c, R)
    PROVE  CountsInv'
  <1>1. /\ UNCHANGED <<likes, pc, arm, work, changes, crashes>> /\ pc = "open"
        /\ file' = [file EXCEPT !.roster = [file.roster EXCEPT ![c] = R]]
    BY DEF StoreRoster, CountsInv, TypeOK, File
  <1>2. file \in File /\ file.version = 7 /\ Counts(file, Columns)
    BY <1>1 DEF CountsInv, TypeOK, FileIsOfItsVersion, WorkIsUnderWay, SCHEMA_VERSION
  <1>3. [file.roster EXCEPT ![c] = R] \in [Conv -> SUBSET User]
    BY <1>2, StatisticsAssumption DEF File
  <1>4. /\ file' \in File /\ file'.version = 7 /\ file'.schema = file.schema
        /\ file'.rows = file.rows /\ file'.liked = file.liked /\ file'.daily = file.daily
    BY <1>1, <1>2, <1>3 DEF File
  <1>5. Counts(file', Columns)
    BY <1>2, <1>4, CountsSame
  <1>6. TypeOK'
    BY <1>1, <1>4 DEF CountsInv, TypeOK
  <1>7. FileIsOfItsVersion'
    <2>1. Counts(file, Columns)'
      BY <1>5 DEF Counts
    <2>2. SchemaIsWhole'
      BY <1>2, <1>4 DEF CountsInv, FileIsOfItsVersion, SchemaIsWhole
    <2> QED  BY <1>1, <1>4, <2>1, <2>2 DEF FileIsOfItsVersion, SCHEMA_VERSION
  <1>8. WorkIsUnderWay'
    BY <1>1, <1>4 DEF CountsInv, WorkIsUnderWay, Done, Counts, Statements, SCHEMA_VERSION
  <1> QED  BY <1>6, <1>7, <1>8 DEF CountsInv

LEMMA NextCountsInv ==
    ASSUME CountsInv, [Next]_vars
    PROVE  CountsInv'
  <1>1. CASE UNCHANGED vars
    BY <1>1 DEF vars, CountsInv, TypeOK, FileIsOfItsVersion, SchemaIsWhole, WorkIsUnderWay,
                Done, Counts
  <1> QED  BY <1>1, OpenKeeps, CreateKeeps, ArmKeeps, BackfillKeeps, CommitKeeps, CrashKeeps,
              LikeKeeps, InsertKeeps, StoreRosterKeeps DEF Next

LEMMA CountsAreInvariant == Spec => []CountsInv
  <1> QED  BY InitCountsInv, NextCountsInv, PTL DEF Spec

\* The types of the archive and of the connection's transaction.
THEOREM CountsTypeCorrect == Spec => []TypeOK
  <1>1. CountsInv => TypeOK
    BY DEF CountsInv
  <1> QED  BY <1>1, CountsAreInvariant, PTL

\* SchemaIsWhole, for any archive found and any interruption: that the version is
\* raised only by the commit is not enough, for the arms passed so far and the
\* version of the file decide between them what the transaction holds
\* (Store::migrate).
THEOREM MigrationIsWhole == Spec => []SchemaIsWhole
  <1>1. CountsInv => SchemaIsWhole
    BY DEF CountsInv, FileIsOfItsVersion
  <1> QED  BY <1>1, CountsAreInvariant, PTL

\* BoardIsOfTheRows, for any messages, pages and likes: every bucket is what the rows
\* of its conversation and day say, a page changes only the buckets of its days,
\* and the buckets of the conversations and days asked for share no message
\* (Store::insert_messages, recompute_rollup_bucket, leaderboard_on).
THEOREM BoardCountsRows == Spec => []BoardIsOfTheRows
  BY CountsAreInvariant, BoardOfTheRows, PTL

----------------------------------------------------------------------------
(* The panels *)

\* Numbers that are at most the same sum to at most that for each.
LEMMA SumIsBounded ==
    ASSUME NEW I, IsFiniteSet(I), NEW n \in [I -> Nat], NEW most \in Nat,
           \A i \in I : n[i] <= most
    PROVE  SumOver(n) <= most * Cardinality(I)
  <1> DEFINE sizes == UNION {{i} \X (1..n[i]) : i \in I}
  <1>1. SumOver(n) = Cardinality(sizes)
    BY DEF SumOver
  <1>2. \A i \in I : n[i] \in Nat /\ n[i] <= most
    OBVIOUS
  <1>3. sizes \in SUBSET (I \X (1..most))
    BY <1>2
  <1>4. IsFiniteSet(1..most) /\ Cardinality(1..most) = most
    BY FS_Interval
  <1>5. /\ IsFiniteSet(I \X (1..most))
        /\ Cardinality(I \X (1..most)) = Cardinality(I) * most
    BY <1>4, FS_Product
  <1>6. Cardinality(I) \in Nat /\ Cardinality(sizes) <= Cardinality(I) * most
    BY <1>3, <1>5, FS_Subset, FS_CardinalityType
  <1> QED  BY <1>1, <1>6

LEMMA RowsAreFinite ==
    ASSUME file \in File, NEW S \in SUBSET file.rows
    PROVE  S \in SUBSET Message /\ IsFiniteSet(S) /\ Cardinality(S) \in Nat
  <1>1. S \in SUBSET Message
    BY DEF File
  <1> QED  BY <1>1, StatisticsAssumption, FS_Subset, FS_CardinalityType

\* The leaderboard, and what it leaves out, have what the rows have.
LEMMA SaidIsSent ==
    ASSUME file \in File, Counts(file, Columns), NEW c \in Conv, NEW u \in User
    PROVE  /\ SaidOf(c, u) = Cardinality(From(u, Held(c)))
           /\ SaidOf(c, u) \in Nat
           /\ SaidOf(c, u) > 0 <=> From(u, Held(c)) # {}
  <1>1. BoardConvs(c) = {c} /\ {c} \in SUBSET Conv /\ Since(0) = Day
    <2>1. BoardConvs(c) = {c}
      BY StatisticsAssumption DEF BoardConvs
    <2>2. \A d \in Day : d \in Nat /\ d >= 0
      BY StatisticsAssumption
    <2> QED  BY <2>1, <2>2 DEF Since
  <1>2. Board(c, 0)["messages"][u] =
          SumOver([b \in BoardConvs(c) \X Since(0) |-> file.daily[b[1]][b[2]]["messages"][u]])
    BY DEF Board, Columns
  <1>3. Board(c, 0)["messages"][u] = Cardinality(Counted(file, {c}, Day, "messages", u))
    <2>1. BoardConvs(c) \in SUBSET Conv /\ Since(0) \in SUBSET Day /\ "messages" \in Columns
      BY <1>1 DEF Columns
    <2>2. Board(c, 0)["messages"][u]
            = Cardinality(Counted(file, BoardConvs(c), Since(0), "messages", u))
      BY <1>2, <2>1, SumOfBuckets
    <2> QED  BY <1>1, <2>2
  <1>4. Counted(file, {c}, Day, "messages", u) = SentBy(file, {c}, Day, u)
    BY DEF Counted
  <1>5. /\ SentBy(file, {c}, Day, u) \in SUBSET file.rows
        /\ OffBoard(c, u) \in SUBSET file.rows /\ From(u, Held(c)) \in SUBSET file.rows
    BY DEF SentBy, In, OffBoard, Held, From, By
  <1>6. /\ SentBy(file, {c}, Day, u) \cup OffBoard(c, u) = From(u, Held(c))
        /\ SentBy(file, {c}, Day, u) \cap OffBoard(c, u) = {}
    <2>1. \A m \in file.rows : DayOf[m] \in Day
      BY StatisticsAssumption DEF File
    <2>2. ASSUME NEW m PROVE KindOf[m] = "post" => UserOf(m) = About[m] /\ ~IsSystem(m)
      BY DEF UserOf, IsSystem, Notice
    <2>3. ASSUME NEW m
          PROVE  m \in SentBy(file, {c}, Day, u)
                   <=> /\ m \in file.rows /\ ConvOf[m] = c /\ DayOf[m] \in Day
                       /\ KindOf[m] = "post" /\ About[m] = u
      BY DEF SentBy, In
    <2>4. ASSUME NEW m
          PROVE  m \in From(u, Held(c))
                   <=> m \in file.rows /\ ConvOf[m] = c /\ UserOf(m) = u /\ ~IsSystem(m)
      BY DEF Held, From, By
    <2>5. ASSUME NEW m
          PROVE  m \in OffBoard(c, u) <=> m \in From(u, Held(c)) /\ KindOf[m] # "post"
      BY DEF OffBoard
    <2>6. ASSUME NEW m
          PROVE  m \in SentBy(file, {c}, Day, u)
                   <=> m \in From(u, Held(c)) /\ KindOf[m] = "post"
      BY <2>1, <2>2, <2>3, <2>4
    <2> QED  BY <2>5, <2>6
  <1>7. /\ IsFiniteSet(SentBy(file, {c}, Day, u)) /\ IsFiniteSet(OffBoard(c, u))
        /\ IsFiniteSet(From(u, Held(c)))
        /\ Cardinality(SentBy(file, {c}, Day, u)) \in Nat
        /\ Cardinality(OffBoard(c, u)) \in Nat /\ Cardinality(From(u, Held(c))) \in Nat
    BY <1>5, RowsAreFinite
  <1>8. Cardinality(From(u, Held(c)))
          = Cardinality(SentBy(file, {c}, Day, u)) + Cardinality(OffBoard(c, u)) - Cardinality({})
    BY <1>6, <1>7, FS_Union
  <1>9. SaidOf(c, u) = Cardinality(From(u, Held(c)))
    BY <1>3, <1>4, <1>7, <1>8, FS_EmptySet DEF SaidOf
  <1> QED  BY <1>7, <1>9, FS_EmptySet

\* Nobody is active without being so on some day, which takes a message.
LEMMA ActiveOnDays ==
    ASSUME file \in File, NEW c \in Conv, NEW recent \in SUBSET Held(c)
    PROVE  LET daily == SumOver([d \in Day |->
                          Cardinality(Senders({m \in Held(c) : DayOf[m] = d} \cap recent))])
           IN  /\ Cardinality(Senders(recent)) <= daily
               /\ daily <= Cardinality(recent)
  <1> DEFINE on(d) == {m \in Held(c) : DayOf[m] = d} \cap recent
             n == [d \in Day |-> Cardinality(Senders(on(d)))]
             P == [d \in Day |-> {d} \X Senders(on(d))]
             first(u) == CHOOSE m \in recent : m \in From(u, recent)
             seen == [u \in Senders(recent) |-> <<DayOf[first(u)], u>>]
             wrote(w) == CHOOSE m \in recent : m \in From(w[2], on(w[1]))
             mark == [w \in Joined(P) |-> wrote(w)]
  <1>1. /\ recent \in SUBSET file.rows /\ recent \in SUBSET Message /\ IsFiniteSet(recent)
        /\ \A m \in recent : DayOf[m] \in Day /\ UserOf(m) \in User
    <2>1. recent \in SUBSET file.rows
      BY DEF Held
    <2>2. recent \in SUBSET Message /\ IsFiniteSet(recent)
      BY <2>1, RowsAreFinite
    <2>3. \A m \in recent : UserOf(m) \in User
      BY <2>2, StatisticsAssumption DEF UserOf
    <2> QED  BY <2>1, <2>2, <2>3, StatisticsAssumption
  <1>2. \A S : Senders(S) \in SUBSET User /\ IsFiniteSet(Senders(S))
    BY StatisticsAssumption, FS_Subset DEF Senders
  <1>3. ASSUME NEW d \in Day
        PROVE  /\ n[d] \in Nat /\ IsFiniteSet(P[d]) /\ Cardinality(P[d]) = n[d]
               /\ P[d] \in SUBSET (Day \X User)
    <2> DEFINE T == Senders(on(d))
    <2>1. T \in SUBSET User /\ IsFiniteSet(T) /\ Cardinality(T) \in Nat
      BY <1>2, FS_CardinalityType
    <2>2. n[d] = Cardinality(T) /\ P[d] = {d} \X T
      OBVIOUS
    <2> HIDE DEF T, n, P
    <2>3. IsFiniteSet({d}) /\ Cardinality({d}) = 1
      BY FS_Singleton
    <2>4. IsFiniteSet({d} \X T) /\ Cardinality({d} \X T) = 1 * Cardinality(T)
      BY <2>1, <2>3, FS_Product
    <2>5. {d} \X T \in SUBSET (Day \X User)
      BY <2>1
    <2> QED  BY <2>1, <2>2, <2>4, <2>5
  <1>4. n \in [Day -> Nat] /\ P \in [Day -> SUBSET (Day \X User)]
    BY <1>3
  <1>5. \A d \in Day, e \in Day : d # e => P[d] \cap P[e] = {}
    OBVIOUS
  <1>6. \A w : w \in Joined(P) <=> /\ w = <<w[1], w[2]>> /\ w[1] \in Day
                                   /\ w[2] \in Senders(on(w[1]))
    <2>1. \A w : w \in Joined(P) <=> \E d \in Day : w \in {d} \X Senders(on(d))
      BY DEF Joined
    <2> HIDE DEF on
    <2> QED  BY <2>1
  <1>7. \A m \in recent : m \in on(DayOf[m])
    OBVIOUS
  <1>8. \A d : on(d) \in SUBSET recent /\ \A m \in on(d) : DayOf[m] = d
    OBVIOUS
  <1> HIDE DEF n, P, on
  <1>9. /\ IsFiniteSet(Joined(P)) /\ SumOver(n) = Cardinality(Joined(P))
    <2>1. \A d \in Day : IsFiniteSet(P[d]) /\ n[d] = Cardinality(P[d])
      BY <1>3
    <2>2. IsFiniteSet(Day)
      BY StatisticsAssumption
    <2> DEFINE pairs == Day \X User
    <2>3. n \in [Day -> Nat] /\ P \in [Day -> SUBSET pairs]
      BY <1>4
    <2> HIDE DEF pairs
    <2>4. IsFiniteSet(Joined(P))
      <3>1. Joined(P) \in SUBSET pairs
        BY <2>3 DEF Joined
      <3>2. IsFiniteSet(pairs)
        BY StatisticsAssumption, FS_Product DEF pairs
      <3> QED  BY <3>1, <3>2, FS_Subset
    <2>5. SumOver(n) = Cardinality(Joined(P))
      BY <2>1, <2>2, <2>3, <1>5, SumOfSizes
    <2> QED  BY <2>4, <2>5
  <1>10. seen \in Injection(Senders(recent), Joined(P))
    <2>1. ASSUME NEW u \in Senders(recent)
          PROVE  seen[u] \in Joined(P) /\ seen[u][2] = u
      <3>1. first(u) \in recent /\ first(u) \in From(u, recent)
        BY DEF Senders, From, By
      <3>2. first(u) \in From(u, on(DayOf[first(u)]))
        BY <3>1, <1>7 DEF From, By
      <3>3. u \in User /\ u \in Senders(on(DayOf[first(u)]))
        BY <3>2, <1>2 DEF Senders
      <3>4. seen[u] = <<DayOf[first(u)], u>>
        OBVIOUS
      <3> HIDE DEF seen, first
      <3> QED  BY <3>1, <3>3, <3>4, <1>1, <1>6
    <2>2. seen \in [Senders(recent) -> Joined(P)]
      BY <2>1
    <2> HIDE DEF seen
    <2> QED  BY <2>1, <2>2 DEF Injection, IsInjective
  <1>11. mark \in Injection(Joined(P), recent)
    <2>1. ASSUME NEW w \in Joined(P)
          PROVE  /\ mark[w] \in recent /\ w = <<DayOf[mark[w]], UserOf(mark[w])>>
      <3>1. /\ w = <<w[1], w[2]>> /\ w[2] \in Senders(on(w[1]))
        BY <1>6
      <3>2. \E m \in recent : m \in From(w[2], on(w[1]))
        BY <3>1, <1>8 DEF Senders, From, By
      <3>3. wrote(w) \in recent /\ wrote(w) \in From(w[2], on(w[1]))
        BY <3>2
      <3>4. DayOf[wrote(w)] = w[1] /\ UserOf(wrote(w)) = w[2]
        BY <3>3, <1>8 DEF From, By
      <3> HIDE DEF wrote
      <3> QED  BY <3>1, <3>3, <3>4
    <2>2. mark \in [Joined(P) -> recent]
      BY <2>1
    <2> HIDE DEF mark
    <2>3. ASSUME NEW w \in Joined(P), NEW x \in Joined(P), mark[w] = mark[x]
          PROVE  w = x
      BY <2>1, <2>3
    <2> QED  BY <2>2, <2>3 DEF Injection, IsInjective
  <1> HIDE DEF seen, mark
  <1>12. /\ Cardinality(Senders(recent)) <= Cardinality(Joined(P))
         /\ Cardinality(Joined(P)) <= Cardinality(recent)
    BY <1>1, <1>9, <1>10, <1>11, FS_Injection
  <1> QED  BY <1>9, <1>12 DEF n, on

\* No day is busier than the busiest.
LEMMA BusiestDay ==
    ASSUME file \in File, NEW c \in Conv
    PROVE  Cardinality(Held(c))
             <= Largest({Cardinality({m \in Held(c) : DayOf[m] = d}) : d \in Day})
                * Cardinality(Day)
  <1> DEFINE n == [d \in Day |-> Cardinality({m \in Held(c) : DayOf[m] = d})]
             P == [d \in Day |-> {m \in Held(c) : DayOf[m] = d}]
             sizes == {Cardinality({m \in Held(c) : DayOf[m] = d}) : d \in Day} \cup {0}
             stored == file.rows
  <1>1. /\ Held(c) \in SUBSET stored /\ \A m \in Held(c) : DayOf[m] \in Day
        /\ IsFiniteSet(Day)
    <2>1. Held(c) \in SUBSET file.rows
      BY DEF Held
    <2>2. Held(c) \in SUBSET Message
      BY <2>1, RowsAreFinite
    <2> QED  BY <2>1, <2>2, StatisticsAssumption
  <1>2. P \in [Day -> SUBSET stored]
    BY <1>1
  <1>3. ASSUME NEW d \in Day
        PROVE  n[d] \in Nat /\ IsFiniteSet(P[d]) /\ n[d] = Cardinality(P[d])
    BY <1>2, RowsAreFinite
  <1>4. n \in [Day -> Nat]
    BY <1>3
  <1>5. \A d \in Day, e \in Day : d # e => P[d] \cap P[e] = {}
    OBVIOUS
  <1>6. Joined(P) = Held(c)
    BY <1>1 DEF Joined
  <1>7. sizes \in SUBSET Nat /\ IsFiniteSet(sizes) /\ sizes # {}
        /\ \A d \in Day : n[d] \in sizes
    <2>1. \A d \in Day : n[d] \in sizes
      OBVIOUS
    <2>2. {Cardinality({m \in Held(c) : DayOf[m] = d}) : d \in Day} = {n[d] : d \in Day}
      OBVIOUS
    <2>3. IsFiniteSet({n[d] : d \in Day})
      <3> HIDE DEF n
      <3>1. n \in Surjection(Day, {n[d] : d \in Day})
        BY <1>4 DEF Surjection
      <3> QED  BY <3>1, <1>1, FS_Surjection
    <2>4. {n[d] : d \in Day} \in SUBSET Nat
      BY <1>3
    <2>5. sizes = {n[d] : d \in Day} \cup {0}
      BY <2>2
    <2> HIDE DEF n, sizes
    <2> QED  BY <2>1, <2>3, <2>4, <2>5, FS_AddElement
  <1> DEFINE most == Max(sizes)
  <1>8. most = Largest({Cardinality({m \in Held(c) : DayOf[m] = d}) : d \in Day})
    BY DEF Largest
  <1> HIDE DEF n, P, sizes, stored
  <1>9. most \in Nat /\ \A d \in Day : n[d] <= most
    <2>1. most \in sizes /\ \A x \in sizes : x <= most
      BY <1>7, MaxOfFinite
    <2> QED  BY <2>1, <1>7
  <1> HIDE DEF most
  <1>10. SumOver(n) <= most * Cardinality(Day)
    BY <1>1, <1>4, <1>9, SumIsBounded
  <1>11. SumOver(n) = Cardinality(Joined(P))
    BY <1>1, <1>2, <1>3, <1>4, <1>5, SumOfSizes
  <1> QED  BY <1>6, <1>8, <1>10, <1>11

LEMMA StatsOfTheRows ==
    ASSUME file \in File, Counts(file, Columns), NEW c \in Conv, NEW cutoff \in Day
    PROVE  StatsAgree(c, cutoff)
  <1> DEFINE recent == {m \in Held(c) : DayOf[m] >= cutoff}
             stats == GroupStats(c, cutoff)
  <1>1. Senders(Held(c)) = {u \in User : SaidOf(c, u) > 0}
    BY SaidIsSent DEF Senders
  <1>2. {Cardinality(From(u, Held(c))) : u \in User} = {SaidOf(c, u) : u \in User}
    BY SaidIsSent
  <1>3. /\ stats.distinct_senders = Cardinality(Senders(Held(c)))
        /\ stats.top_sender_count = Largest({Cardinality(From(u, Held(c))) : u \in User})
        /\ stats.active_last_30d = Cardinality(Senders(recent))
        /\ stats.messages_last_30d = Cardinality(recent)
        /\ stats.daily_distinct = SumOver([d \in Day |->
             Cardinality(Senders({m \in Held(c) : DayOf[m] = d} \cap recent))])
        /\ stats.message_count = Cardinality(Held(c))
        /\ stats.busiest_day_count
             = Largest({Cardinality({m \in Held(c) : DayOf[m] = d}) : d \in Day})
    BY DEF GroupStats
  <1>4. /\ stats.active_last_30d <= stats.daily_distinct
        /\ stats.daily_distinct <= stats.messages_last_30d
    <2>1. recent \in SUBSET Held(c)
      OBVIOUS
    <2> HIDE DEF recent, stats
    <2> QED  BY <2>1, <1>3, ActiveOnDays
  <1>5. stats.message_count <= stats.busiest_day_count * Cardinality(Day)
    <2> HIDE DEF stats
    <2> QED  BY <1>3, BusiestDay
  <1>6. /\ stats.distinct_senders = Cardinality({u \in User : SaidOf(c, u) > 0})
        /\ stats.top_sender_count = Largest({SaidOf(c, u) : u \in User})
    <2> HIDE DEF stats
    <2> QED  BY <1>1, <1>2, <1>3
  <1> QED  BY <1>4, <1>5, <1>6 DEF StatsAgree

LEMMA MembersOfTheRows ==
    ASSUME file \in File, Counts(file, Columns), NEW c \in Groups, NEW u \in User
    PROVE  MembersAgree(c, u)
  <1>1. c \in Conv
    BY StatisticsAssumption
  <1>2. /\ SaidOf(c, u) = Cardinality(From(u, Held(c)))
        /\ SaidOf(c, u) > 0 <=> u \in Senders(Held(c))
    BY <1>1, SaidIsSent DEF Senders
  <1>3. Wrote(u, Held(c)) = From(u, Held(c))
    BY DEF Wrote, From, By, Held, IsSystem
  <1> QED  BY <1>2, <1>3, FS_EmptySet DEF MembersAgree, UserProfile, PastMembers, Senders

LEMMA ProfileOfTheRows ==
    ASSUME file \in File, Counts(file, Columns), NEW u \in User \ {System}
    PROVE  ProfileAgrees(u)
  <1> DEFINE n == [c \in Conv |-> SaidOf(c, u)]
             P == [c \in Conv |-> From(u, Held(c))]
             theirs == By(u, file.rows)
             stored == file.rows
  <1>0. u \in User /\ \A S : From(u, S) = By(u, S)
    BY DEF From, By, UserOf, IsSystem
  <1>1. theirs \in SUBSET stored /\ theirs \in SUBSET Message /\ IsFiniteSet(theirs)
    <2>1. theirs \in SUBSET file.rows
      BY DEF By
    <2> QED  BY <2>1, RowsAreFinite
  <1>2. SumOver(n) = Cardinality(theirs)
    <2>1. ASSUME NEW c \in Conv
          PROVE  /\ P[c] \in SUBSET stored /\ IsFiniteSet(P[c])
                 /\ n[c] = Cardinality(P[c]) /\ n[c] \in Nat
      <3>1. From(u, Held(c)) \in SUBSET file.rows
        BY DEF From, By, Held
      <3> QED  BY <3>1, <1>0, RowsAreFinite, SaidIsSent
    <2>2. n \in [Conv -> Nat] /\ P \in [Conv -> SUBSET stored]
      BY <2>1
    <2>3. \A c \in Conv, d \in Conv : c # d => P[c] \cap P[d] = {}
      BY DEF From, By, Held
    <2>4. Joined(P) = theirs
      <3>1. \A m \in file.rows : ConvOf[m] \in Conv
        BY StatisticsAssumption DEF File
      <3>2. \A m : m \in Joined(P) <=> \E c \in Conv : m \in By(u, Held(c))
        BY <1>0 DEF Joined
      <3> QED  BY <3>1, <3>2 DEF By, Held
    <2>5. IsFiniteSet(Conv)
      BY StatisticsAssumption
    <2> HIDE DEF n, P, stored
    <2>6. SumOver(n) = Cardinality(Joined(P))
      BY <2>1, <2>2, <2>3, <2>5, SumOfSizes
    <2> QED  BY <2>4, <2>6
  <1>3. ASSUME Cardinality(theirs) > 0
        PROVE  UserProfile(u).name \in Name
    <2>1. theirs # {}
      BY <1>3, FS_EmptySet
    <2>2. theirs \in SUBSET Nat
      BY <1>1, StatisticsAssumption
    <2>3. Max(theirs) \in Message
      <3> HIDE DEF theirs
      <3> QED  BY <1>1, <2>1, <2>2, MaxOfFinite
    <2>4. NameOf[Max(theirs)] \in Name /\ file.users[u] \in Name \cup {Nameless}
      BY <2>3, StatisticsAssumption DEF File
    <2> QED  BY <2>1, <2>4 DEF UserProfile
  <1>4. UserProfile(u).message_count = Cardinality(theirs)
    BY DEF UserProfile
  <1> QED  BY <1>2, <1>3, <1>4 DEF ProfileAgrees

LEMMA KindsOfTheRows ==
    ASSUME file \in File, Counts(file, Columns)
    PROVE  CountsByKind.group_messages >= SumOver(Board("all", 0)["messages"])
  <1> DEFINE n == Board("all", 0)["messages"]
             P == [u \in User |-> SentBy(file, Groups, Day, u)]
             stored == file.rows
             held == {m \in file.rows : ConvOf[m] \in Groups}
  <1>1. BoardConvs("all") = Groups /\ Groups \in SUBSET Conv /\ Since(0) = Day
    <2>1. BoardConvs("all") = Groups
      BY DEF BoardConvs
    <2>2. Groups \in SUBSET Conv
      BY StatisticsAssumption
    <2>3. Since(0) = Day
      <3>1. \A d \in Day : d \in Nat /\ d >= 0
        BY StatisticsAssumption
      <3> QED  BY <3>1 DEF Since
    <2> QED  BY <2>1, <2>2, <2>3
  <1>2. ASSUME NEW u \in User
        PROVE  /\ P[u] \in SUBSET stored /\ IsFiniteSet(P[u])
               /\ n[u] = Cardinality(P[u]) /\ n[u] \in Nat
    <2>1. /\ BoardConvs("all") \in SUBSET Conv /\ Since(0) \in SUBSET Day
          /\ "messages" \in Columns
      BY <1>1 DEF Columns
    <2>2. n[u] = SumOver([b \in BoardConvs("all") \X Since(0) |->
                            file.daily[b[1]][b[2]]["messages"][u]])
      BY <2>1 DEF Board
    <2>3. n[u] = Cardinality(Counted(file, BoardConvs("all"), Since(0), "messages", u))
      <3> HIDE DEF n
      <3> QED  BY <2>1, <2>2, SumOfBuckets
    <2>4. Counted(file, BoardConvs("all"), Since(0), "messages", u) = P[u]
      BY <1>1 DEF Counted
    <2>5. SentBy(file, Groups, Day, u) \in SUBSET file.rows
      BY DEF SentBy, In
    <2> HIDE DEF n
    <2> QED  BY <2>3, <2>4, <2>5, RowsAreFinite
  <1>3. n \in [User -> Nat] /\ P \in [User -> SUBSET stored]
    <2>1. n = [u \in User |-> n[u]]
      BY DEF Board, Columns
    <2> HIDE DEF n
    <2> QED  BY <1>2, <2>1
  <1>4. \A u \in User, v \in User : u # v => P[u] \cap P[v] = {}
    BY DEF SentBy
  <1>5. Joined(P) \in SUBSET held
    BY DEF Joined, SentBy, In
  <1>6. held \in SUBSET stored /\ IsFiniteSet(held)
    BY RowsAreFinite
  <1>7. IsFiniteSet(User)
    BY StatisticsAssumption
  <1>8. CountsByKind.group_messages = Cardinality(held)
    BY DEF CountsByKind
  <1> HIDE DEF n, P, stored, held
  <1>9. SumOver(n) = Cardinality(Joined(P))
    BY <1>2, <1>3, <1>4, <1>7, SumOfSizes
  <1>10. Cardinality(Joined(P)) <= Cardinality(held) /\ Cardinality(held) \in Nat
         /\ Cardinality(Joined(P)) \in Nat
    BY <1>5, <1>6, FS_Subset, FS_CardinalityType
  <1> QED  BY <1>8, <1>9, <1>10 DEF n

\* PanelsAgree, for any messages and rosters: the queries that read the messages and
\* the leaderboard, which does not, count the same (Store::group_stats_on,
\* user_profile_on, past_members_on, counts_by_kind).
THEOREM PanelsSayTheSame == Spec => []PanelsAgree
  <1>1. ASSUME CountsInv, pc = "open"
        PROVE  file \in File /\ Counts(file, Columns)
    BY <1>1 DEF CountsInv, TypeOK, FileIsOfItsVersion, WorkIsUnderWay
  <1>2. CountsInv => PanelsAgree
    BY <1>1, StatsOfTheRows, MembersOfTheRows, ProfileOfTheRows, KindsOfTheRows DEF PanelsAgree
  <1> QED  BY <1>2, CountsAreInvariant, PTL
=============================================================================
