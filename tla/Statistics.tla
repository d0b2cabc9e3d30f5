----------------------------- MODULE Statistics -----------------------------
(***************************************************************************)
(* The counts of the archive (store.rs): the daily tables that             *)
(* insert_messages keeps up bucket by bucket, the migration that gives     *)
(* them to an archive of an older schema in one transaction, and the       *)
(* queries of the panels, of which the leaderboard reads the daily tables  *)
(* and the others the messages themselves.                                 *)
(*                                                                         *)
(* What a message says never changes but for who likes it.  A page written *)
(* late is one written in time, the likes of which are withdrawn and given *)
(* again: pages are written as GroupMe has them.                           *)
(***************************************************************************)
EXTENDS Integers, FiniteSets, FiniteSetsExt

CONSTANTS
    User,
    System,           \* the user GroupMe gives for the sender of its notices
    Conv, Groups,     \* conversations, and those that are groups
    Message,          \* the messages of the conversations on GroupMe
    ConvOf, DayOf,    \* the conversation of each, and its day (UTC)
    KindOf,           \* a Kind for each
    About,            \* who sent it, or who is removed by it
    TargetOf,         \* the message a deletion is of
    Name, NameOf,     \* the name its sender bore
    Nameless,         \* no name
    Rosters,          \* what rosters of a group may be answered
    Day,
    Fans,             \* who likes every message at first
    InitialVersions,  \* the schema of the archive that is found
    PageSize,         \* bound: messages of a page
    MaxLikes,         \* bound: likes given and withdrawn
    MaxCrashes        \* bound: ends of the process

\* A message of a person, of a bot; somebody removed by another, or leaving;
\* the deletion of a message.  The last three are notices of GroupMe.
Kind   == {"post", "bot", "kick", "leave", "deleted"}
Notice == {"kick", "leave", "deleted"}

SCHEMA_VERSION == 7

ASSUME StatisticsAssumption ==
    /\ IsFiniteSet(User)
    /\ IsFiniteSet(Conv)
    /\ IsFiniteSet(Message)
    /\ IsFiniteSet(Day)
    /\ System \in User
    /\ Groups \subseteq Conv
    /\ "all" \notin Conv
    /\ ConvOf \in [Message -> Conv]
    /\ Day \subseteq Nat
    /\ DayOf \in [Message -> Day]
    /\ KindOf \in [Message -> Kind]
    /\ About \in [Message -> User]
    /\ TargetOf \in [Message -> Message]
    /\ Message \subseteq Nat
    /\ NameOf \in [Message -> Name]
    /\ Nameless \notin Name
    /\ Rosters \subseteq SUBSET User
    /\ Fans \subseteq User
    /\ InitialVersions \subseteq 0..(SCHEMA_VERSION - 1)
    /\ PageSize \in Nat \ {0}
    /\ MaxLikes \in Nat
    /\ MaxCrashes \in Nat

VARIABLES
    likes,     \* GroupMe: who likes each message
    pc,        \* the process: "closed", where migrate is, "open"
    arm,       \* the arm of migrate that comes next
    file,      \* archive.db: its schema, messages and daily tables
    work,      \* what the transaction of migrate has made of it
    changes, crashes   \* how many there were

vars == <<likes, pc, arm, file, work, changes, crashes>>

\* What the daily tables have of a user, their messages and likes, and one kind
\* of event each.
Columns  == {"messages", "received", "given", "kick", "leave", "deleted"}
Tally    == [Columns -> [User -> Nat]]
Arms       == 2..SCHEMA_VERSION
Statements == {"messages", "likes", "events"}
Pcs        == {"closed", "new", "arms", "commit", "open"} \cup Statements

\* What an arm adds: columns for 2 to 4, indexes for 5 and 6, tables for 7.
SchemaOf(v) == {a \in Arms : a <= v}

NoOne   == [u \in User |-> 0]
NoTally == [k \in Columns |-> NoOne]
Empty   == [c \in Conv |-> [d \in Day |-> NoTally]]
NoFile  == [version |-> 0, schema |-> {}, rows |-> {},
            liked |-> [m \in Message |-> {}], daily |-> Empty,
            users |-> [u \in User |-> Nameless],
            roster |-> [c \in Conv |-> {}]]

File == [version : 0..SCHEMA_VERSION, schema : SUBSET Arms, rows : SUBSET Message,
         liked : [Message -> SUBSET User], daily : [Conv -> [Day -> Tally]],
         users : [User -> Name \cup {Nameless}], roster : [Conv -> SUBSET User]]

\* The sum of a function to the naturals: as many as it has things to count.
SumOver(n) == Cardinality(UNION {{x} \X (1..n[x]) : x \in DOMAIN n})

----------------------------------------------------------------------------
(* The daily tables *)

\* user_id
UserOf(m) == IF KindOf[m] \in Notice THEN System ELSE About[m]

\* The column system: direct messages omit the field, those of GroupMe too.
IsSystem(m) == KindOf[m] \in Notice /\ ConvOf[m] \in Groups

\* The messages of a set that are somebody's; those that the flag leaves them;
\* and those that somebody wrote, by their sender_type.
By(u, S)    == {m \in S : UserOf(m) = u}
From(u, S)  == {m \in By(u, S) : ~IsSystem(m)}
Wrote(u, S) == {m \in From(u, S) : KindOf[m] \notin Notice}

\* user_stmt: the last of a page, which is ascending, gives the name.
NamesIn(S, users) ==
    [u \in User |-> IF By(u, S) = {} THEN users[u] ELSE NameOf[Max(By(u, S))]]

\* The held messages of a conversation on some days.
In(f, C, D) == {m \in f.rows : ConvOf[m] \in C /\ DayOf[m] \in D}

\* A bug PanelsAgree must catch: what bots send is counted for their owner.
BugCountsBots(f, C, D, u) == Wrote(u, In(f, C, D))

\* What each has sent.
SentBy(f, C, D, u) == {m \in In(f, C, D) : KindOf[m] = "post" /\ About[m] = u}

\* Who liked it.
LikesReceived(f, C, D, u) ==
    {l \in SentBy(f, C, D, u) \X User : l[2] \in f.liked[l[1]]}

\* What each liked, a message of a bot too.
LikesGiven(f, C, D, u) == {m \in In(f, C, D) : ~IsSystem(m) /\ u \in f.liked[m]}

\* Of the notices with the flag: kicks and leaves by who is gone; deletions by
\* the author of the message, which has to be held, under the day of the deletion.
Events(f, C, D, k, u) ==
    {m \in In(f, C, D) :
       /\ IsSystem(m)
       /\ KindOf[m] = k
       /\ IF k = "deleted"
          THEN /\ TargetOf[m] \in f.rows
               /\ ConvOf[TargetOf[m]] = ConvOf[m]
               /\ UserOf(TargetOf[m]) = u
          ELSE About[m] = u}

\* What a column counts of a user.
Counted(f, C, D, k, u) ==
    CASE k = "messages" -> SentBy(f, C, D, u)
      [] k = "received" -> LikesReceived(f, C, D, u)
      [] k = "given"    -> LikesGiven(f, C, D, u)
      [] OTHER          -> Events(f, C, D, k, u)

\* recompute_rollup_bucket: the rows of a bucket are deleted and aggregated anew.
Bucket(f, c, d) ==
    [k \in Columns |-> [u \in User |-> Cardinality(Counted(f, {c}, {d}, k, u))]]

----------------------------------------------------------------------------

(***************************************************************************)
(* An archive of an older version, or none: version 0.  Its statements     *)
(* fail only on what is already there: any other error of an arm before    *)
(* the last would be ignored, and the version raised without the column.   *)
(***************************************************************************)
Init ==
    /\ likes = [m \in Message |-> IF KindOf[m] \in Notice THEN {} ELSE Fans]
    /\ pc = "closed"
    /\ arm = 2
    /\ \E v \in InitialVersions : \E S \in SUBSET Message :
         /\ v = 0 => S = {}
         /\ file = [NoFile EXCEPT
                !.version = v, !.schema = SchemaOf(v), !.rows = S,
                !.liked = [m \in Message |-> IF m \in S THEN likes[m] ELSE {}],
                !.users = NamesIn(S, NoFile.users)]
    /\ work = NoFile
    /\ changes = 0
    /\ crashes = 0

(* GroupMe *)

Like(u, m) ==
    /\ changes < MaxLikes
    /\ KindOf[m] \notin Notice
    /\ changes' = changes + 1
    /\ likes' = [likes EXCEPT ![m] = IF u \in @ THEN @ \ {u} ELSE @ \cup {u}]
    /\ UNCHANGED <<pc, arm, file, work, crashes>>

----------------------------------------------------------------------------
(* Opening the archive: from_conn and migrate *)

Open ==
    /\ pc = "closed"
    /\ IF file.version >= SCHEMA_VERSION
       THEN pc' = "open" /\ UNCHANGED work
       ELSE pc' = (IF file.version < 1 THEN "new" ELSE "arms") /\ work' = file
    /\ UNCHANGED <<likes, arm, file, changes, crashes>>

\* SCHEMA_V1 declares all there is, and there is nothing to count.
Create ==
    /\ pc = "new"
    /\ work' = [work EXCEPT !.schema = Arms]
    /\ pc' = "commit"
    /\ UNCHANGED <<likes, arm, file, changes, crashes>>

\* A bug SchemaIsWhole must catch: the version is raised outside the transaction.
BugVersionFirst ==
    /\ pc = "arms"
    /\ work' = [work EXCEPT !.schema = @ \cup {arm}]
    /\ file' = [file EXCEPT !.version = SCHEMA_VERSION]
    /\ arm' = IF arm < SCHEMA_VERSION THEN arm + 1 ELSE 2
    /\ pc' = IF arm < SCHEMA_VERSION THEN "arms" ELSE "commit"
    /\ UNCHANGED <<likes, changes, crashes>>

\* An arm of an archive that exists; the last one backfills if there is anything
\* to count and nothing is counted yet.
Arm ==
    /\ pc = "arms"
    /\ work' = [work EXCEPT !.schema = @ \cup {arm}]
    /\ arm' = IF arm < SCHEMA_VERSION THEN arm + 1 ELSE 2
    /\ pc' = IF arm < SCHEMA_VERSION THEN "arms"
             ELSE IF work.rows # {} /\ \A c \in Conv, d \in Day :
                                         work.daily[c][d]["messages"] = NoOne
             THEN "messages" ELSE "commit"
    /\ UNCHANGED <<likes, file, changes, crashes>>

\* A bug BoardIsOfTheRows must catch: the statements are not one transaction.
BugAutocommit(daily) ==
    /\ work' = [work EXCEPT !.daily = daily]
    /\ file' = [file EXCEPT !.daily = daily]
    /\ UNCHANGED <<likes, arm, changes, crashes>>

\* Backfill statements: like the buckets, for all of them at once.
Fill(daily) ==
    /\ work' = [work EXCEPT !.daily = daily]
    /\ UNCHANGED <<likes, arm, file, changes, crashes>>

\* The daily tables with some of their columns counted.
Backfilled(columns) ==
    [c \in Conv |-> [d \in Day |-> [k \in Columns |->
       IF k \in columns THEN Bucket(work, c, d)[k] ELSE work.daily[c][d][k]]]]

BackfillMessages ==
    /\ pc = "messages"
    /\ pc' = "likes"
    /\ Fill(Backfilled({"messages", "received"}))

BackfillLikes ==
    /\ pc = "likes"
    /\ pc' = "events"
    /\ Fill(Backfilled({"given"}))

BackfillEvents ==
    /\ pc = "events"
    /\ pc' = "commit"
    /\ Fill(Backfilled({"kick", "leave", "deleted"}))

Commit ==
    /\ pc = "commit"
    /\ file' = [work EXCEPT !.version = SCHEMA_VERSION]
    /\ work' = NoFile
    /\ pc' = "open"
    /\ UNCHANGED <<likes, arm, changes, crashes>>

\* The process ends, or a statement of the backfill fails: nothing is committed.
Crash ==
    /\ pc # "closed"
    /\ crashes < MaxCrashes
    /\ crashes' = crashes + 1
    /\ pc' = "closed"
    /\ arm' = 2
    /\ work' = NoFile
    /\ UNCHANGED <<likes, file, changes>>

----------------------------------------------------------------------------
(* Writing a page *)

\* A bug BoardIsOfTheRows must catch: only the day of the newest message counts.
BugNewestDay(S) == {Max({DayOf[m] : m \in S})}

\* The buckets a page touches.
DaysOf(S) == {DayOf[m] : m \in S}

\* insert_messages: the rows, then the buckets of the days of the page, in one
\* transaction.
InsertMessages(c, S) ==
    LET with == [file EXCEPT
                   !.rows = @ \cup S,
                   !.liked = [m \in Message |-> IF m \in S THEN likes[m] ELSE @[m]],
                   !.users = NamesIn(S, @)]
    IN  /\ pc = "open"
        /\ file' = [with EXCEPT !.daily[c] = [d \in Day |->
                      IF d \in DaysOf(S) THEN Bucket(with, c, d) ELSE @[d]]]
        /\ UNCHANGED <<likes, pc, arm, work, changes, crashes>>

\* upsert_group, where the answer has the members.
StoreRoster(c, R) ==
    /\ pc = "open"
    /\ file' = [file EXCEPT !.roster[c] = R]
    /\ UNCHANGED <<likes, pc, arm, work, changes, crashes>>

Pages(c) ==
    {S \in SUBSET {m \in Message : ConvOf[m] = c} : Cardinality(S) \in 1..PageSize}

----------------------------------------------------------------------------
(* The panels *)

\* leaderboard: of one conversation or, with none given, of all groups, from the
\* day of the cutoff on.
BoardConvs(of) == IF of = "all" THEN Groups ELSE {of}

Since(day) == {d \in Day : d >= day}

Board(of, since) ==
    [k \in Columns |-> [u \in User |->
       SumOver([b \in BoardConvs(of) \X Since(since) |-> file.daily[b[1]][b[2]][k][u]])]]

Held(c)       == {m \in file.rows : ConvOf[m] = c}
Senders(S)    == {u \in User : From(u, S) # {}}
Largest(S)    == Max(S \cup {0})

\* group_stats, with the day the last thirty begin; bots are senders too, and so
\* is GroupMe in a chat of two.
GroupStats(c, cutoff) ==
    LET recent == {m \in Held(c) : DayOf[m] >= cutoff}
        on(d)  == {m \in Held(c) : DayOf[m] = d}
    IN  [message_count     |-> Cardinality(Held(c)),
         first_message     |-> IF Held(c) = {} THEN 0 ELSE Min(Held(c)),
         last_message      |-> Largest(Held(c)),
         distinct_senders  |-> Cardinality(Senders(Held(c))),
         active_last_30d   |-> Cardinality(Senders(recent)),
         messages_last_30d |-> Cardinality(recent),
         daily_distinct    |-> SumOver(
             [d \in Day |-> Cardinality(Senders(on(d) \cap recent))]),
         busiest_day_count |-> Largest({Cardinality(on(d)) : d \in Day}),
         top_sender_count  |-> Largest({Cardinality(From(u, Held(c))) : u \in User})]

\* user_profile.  The name is that of the newest message where users has none.
UserProfile(u) ==
    LET sent == By(u, file.rows)
    IN  [name |-> IF file.users[u] # Nameless THEN file.users[u]
                  ELSE IF sent = {} THEN Nameless ELSE NameOf[Max(sent)],
         shared_groups |-> {c \in Groups : u \in file.roster[c]},
         message_count |-> Cardinality(sent)]

\* past_members, with what each has sent.
PastMembers(c) ==
    {<<u, Cardinality(Wrote(u, Held(c)))>> :
        u \in {v \in User \ file.roster[c] : Wrote(v, Held(c)) # {}}}

\* counts_by_kind
CountsByKind ==
    [group_messages |-> Cardinality({m \in file.rows : ConvOf[m] \in Groups}),
     dm_messages    |-> Cardinality({m \in file.rows : ConvOf[m] \notin Groups})]

----------------------------------------------------------------------------

Next ==
    \/ Open \/ Create \/ BackfillMessages \/ BackfillLikes \/ BackfillEvents
    \/ Commit \/ Crash
    \/ Arm
    \/ \E u \in User, m \in Message : Like(u, m)
    \/ \E c \in Conv : \E S \in Pages(c) : InsertMessages(c, S)
    \/ \E c \in Groups, R \in Rosters : StoreRoster(c, R)

Spec == Init /\ [][Next]_vars

----------------------------------------------------------------------------
(* What the counts promise *)

\* The process, the file and the transaction are of the shape they should be.
TypeOK ==
    /\ likes \in [Message -> SUBSET User]
    /\ pc \in Pcs /\ arm \in Arms
    /\ file \in File /\ work \in File
    /\ changes \in 0..MaxLikes
    /\ crashes \in 0..MaxCrashes

\* Wherever the process stops, an archive that says it has the newest version has
\* every column, index and table of it, and one of an older version has been left
\* as it was (migrate: one transaction, the version with it).
SchemaIsWhole == file.schema = SchemaOf(file.version)

\* The leaderboard, read from the daily tables, counts what the messages that are
\* held say, for every conversation, for all groups and from any day on, however
\* the tables came about: by pages in any order, by pages written again after
\* likes changed, or by a migration interrupted anywhere.  Deletions it may miss,
\* if the message comes after its deletion, but never counts too many of.
BoardIsOfTheRows ==
    pc = "open" =>
      \A of \in Conv \cup {"all"}, since \in Day, k \in Columns, u \in User :
        LET said == Cardinality(Counted(file, BoardConvs(of), Since(since), k, u))
        IN  IF k = "deleted" THEN Board(of, since)[k][u] <= said
                             ELSE Board(of, since)[k][u] = said

\* What the leaderboard leaves out of what is somebody's: messages of bots, and
\* in a chat of two the notices of GroupMe.  It goes by sender_type.
OffBoard(c, u) == {m \in From(u, Held(c)) : KindOf[m] # "post"}

\* What the leaderboard and the messages it leaves out make them have sent.
SaidOf(c, u) == Board(c, 0)["messages"][u] + Cardinality(OffBoard(c, u))

\* The panel of a conversation has as many senders, and as busy a one; nobody is
\* active who was not on some day, nor without a message; no day is busier.
StatsAgree(c, cutoff) ==
    LET stats == GroupStats(c, cutoff) IN
    /\ stats.distinct_senders = Cardinality({u \in User : SaidOf(c, u) > 0})
    /\ stats.top_sender_count = Largest({SaidOf(c, u) : u \in User})
    /\ stats.active_last_30d <= stats.daily_distinct
    /\ stats.daily_distinct <= stats.messages_last_30d
    /\ stats.message_count <= stats.busiest_day_count * Cardinality(Day)

MembersAgree(c, u) ==
    SaidOf(c, u) > 0 => \/ c \in UserProfile(u).shared_groups
                        \/ <<u, SaidOf(c, u)>> \in PastMembers(c)

ProfileAgrees(u) ==
    LET profile == UserProfile(u) IN
    /\ profile.message_count = SumOver([c \in Conv |-> SaidOf(c, u)])
    /\ profile.message_count > 0 => profile.name \in Name

\* The panels do not contradict each other, though one reads the daily tables,
\* which a page touches in part, and the others read the messages, and each leaves
\* out others: whoever has sent more than the leaderboard says is a bot, or is
\* GroupMe in a chat of two; the profile of a person is the sum of the
\* conversations, nobody has sent more than the busiest sender, and whoever wrote
\* in a group shares it or is a past member of it.
PanelsAgree ==
    pc = "open" =>
      /\ \A c \in Conv, cutoff \in Day : StatsAgree(c, cutoff)
      /\ \A c \in Groups, u \in User : MembersAgree(c, u)
      /\ \A u \in User \ {System} : ProfileAgrees(u)
      /\ CountsByKind.group_messages >= SumOver(Board("all", 0)["messages"])

\* The name somebody bears in the newest message held.  A page of older messages
\* gives them back the name they bore then: this fails.
NamesAreCurrent ==
    \A u \in User : By(u, file.rows) # {} =>
      UserProfile(u).name = NameOf[Max(By(u, file.rows))]

=============================================================================
