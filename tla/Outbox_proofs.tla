---------------------------- MODULE Outbox_proofs ----------------------------
(***************************************************************************)
(* What TLAPS proves of a message on its way out and back: the two keys of *)
(* a direct message (DmKeys), the outbox (Outbox), and the realtime worker *)
(* whose frames it reads (Realtime).                                       *)
(***************************************************************************)
EXTENDS Outbox, Realtime, FiniteSetTheorems, SequenceTheorems, TLAPS

----------------------------------------------------------------------------
(* The two forms of a direct message's key *)

\* A thread has one key, whoever of the two writes it (dm_thread_key,
\* dm_conversation_id).
THEOREM OneKeyPerThread ==
    ASSUME NEW a \in Int, NEW b \in Int
    PROVE  ThreadKey(a, b) = ThreadKey(b, a)
  BY DEF ThreadKey

\* Both forms of a key reach the same person, oneself included (dm_recipient).
THEOREM BothFormsReachOne ==
    ASSUME NEW me \in Int, NEW other \in Int
    PROVE  /\ Recipient(Stored(other), me) = Stored(other)
           /\ Recipient(ThreadKey(me, other), me) = Stored(other)
  <1>1. Recipient(Stored(other), me) = Stored(other)
    BY DEF Recipient, Stored, IsThreadKey
  <1>2. CASE me <= other
    <2>1. ThreadKey(me, other) = <<me, other>>
      BY <1>2 DEF ThreadKey
    <2> QED  BY <1>1, <2>1 DEF Recipient, IsThreadKey, Stored
  <1>3. CASE ~(me <= other)
    <2>1. ThreadKey(me, other) = <<other, me>> /\ other # me
      BY <1>3 DEF ThreadKey
    <2> QED  BY <1>1, <2>1 DEF Recipient, IsThreadKey, Stored
  <1> QED  BY <1>2, <1>3

\* Nothing is sent through a thread the account is not in (dm_recipient).
THEOREM NeverAStranger ==
    ASSUME NEW me \in Int, NEW a \in Int, NEW b \in Int, me # a, me # b
    PROVE  Recipient(ThreadKey(a, b), me) = None
  <1>1. ThreadKey(a, b) = <<a, b>> \/ ThreadKey(a, b) = <<b, a>>
    BY DEF ThreadKey
  <1> QED  BY <1>1 DEF Recipient, IsThreadKey

\* Whichever form it is asked with, a direct message is reacted to and
\* subscribed under one key, its thread's (resolve_reaction_conversation,
\* conversation_channel).
THEOREM OneAddress ==
    ASSUME NEW me \in Int, NEW other \in Int
    PROVE  /\ ReactionKey(Stored(other), "dm", me) = ThreadKey(me, other)
           /\ ReactionKey(ThreadKey(me, other), "dm", me) = ThreadKey(me, other)
           /\ Channel(Stored(other), "dm", me)
                = Channel(ThreadKey(me, other), "dm", me)
  <1>1. IsThreadKey(ThreadKey(me, other)) /\ ~IsThreadKey(Stored(other))
    BY DEF ThreadKey, IsThreadKey, Stored
  <1>2. Stored(other)[1] = other
    BY DEF Stored
  <1> QED  BY <1>1, <1>2 DEF ReactionKey, Channel

\* A channel leads back to the key of a group it was made of, but never to
\* the stored key of a direct message: what is looked up by it in the watch
\* set, or filed by it in the archive, is another key (conversation_of_channel).
THEOREM ChannelsForgetStoredKeys ==
    ASSUME NEW me \in Int, NEW other \in Int
    PROVE  /\ OfChannel(Channel(Stored(other), "group", me)) = Stored(other)
           /\ OfChannel(Channel(Stored(other), "dm", me)) # Stored(other)
  <1>1. ThreadKey(me, other) # Stored(other)
    BY DEF ThreadKey, Stored
  <1>2. ~IsThreadKey(Stored(other)) /\ Stored(other)[1] = other
    BY DEF IsThreadKey, Stored
  <1>3. OfChannel(Channel(Stored(other), "group", me)) = Stored(other)
    BY DEF OfChannel, Channel
  <1>4. OfChannel(Channel(Stored(other), "dm", me)) = ThreadKey(me, other)
    BY <1>2 DEF OfChannel, Channel
  <1> QED  BY <1>1, <1>3, <1>4

----------------------------------------------------------------------------
(* The lists of the window *)

\* A set of numbers in order has its elements and no others.
LEMMA AscendingOfSet ==
    ASSUME NEW S \in SUBSET Nat, IsFiniteSet(S)
    PROVE  /\ Ascending(S) \in [1..Cardinality(S) -> S]
           /\ ToSet(Ascending(S)) = S
  <1> DEFINE below(m) == {k \in S : k <= m}
             n == Cardinality(S)
             chosen(i) == CHOOSE m \in S : Cardinality(below(m)) = i
             rank == [m \in S |-> Cardinality(below(m))]
  <1>1. n \in Nat
    BY FS_CardinalityType
  <1>2. ASSUME NEW m \in S
        PROVE  IsFiniteSet(below(m)) /\ Cardinality(below(m)) \in 1..n
    <2>1. IsFiniteSet(below(m)) /\ Cardinality(below(m)) <= n
      BY FS_Subset
    <2>2. Cardinality(below(m)) \in Nat /\ Cardinality(below(m)) # 0
      BY <2>1, FS_CardinalityType, FS_EmptySet, m \in below(m)
    <2> QED  BY <2>1, <2>2, <1>1
  <1>3. ASSUME NEW l \in S, NEW m \in S, l < m
        PROVE  Cardinality(below(l)) < Cardinality(below(m))
    <2>1. IsFiniteSet(below(m) \ {m})
            /\ Cardinality(below(m) \ {m}) = Cardinality(below(m)) - 1
      BY <1>2, FS_RemoveElement, m \in below(m)
    <2>2. below(l) \in SUBSET (below(m) \ {m})
      <3>1. l \in Nat /\ m \in Nat /\ \A k \in S : k \in Nat
        OBVIOUS
      <3>2. \A k \in S : k <= l => k <= m /\ k # m
        BY <3>1, <1>3
      <3> QED  BY <3>2
    <2>3. Cardinality(below(l)) <= Cardinality(below(m)) - 1
      BY <2>1, <2>2, FS_Subset
    <2> HIDE DEF below
    <2> QED  BY <2>3, <1>2
  <1>4. rank \in Injection(S, 1..n)
    <2> HIDE DEF below, n
    <2>1. rank \in [S -> 1..n]
      BY <1>2
    <2>2. ASSUME NEW l \in S, NEW m \in S, rank[l] = rank[m]
          PROVE  l = m
      <3>1. ~(l < m) /\ ~(m < l)
        BY <2>2, <1>2, <1>3
      <3> QED  BY <3>1
    <2> HIDE DEF rank
    <2> QED  BY <2>1, <2>2 DEF Injection, IsInjective
  <1>5. rank \in Surjection(S, 1..n)
    <2>1. IsFiniteSet(1..n) /\ Cardinality(1..n) = n
      BY <1>1, FS_Interval
    <2> HIDE DEF rank
    <2> QED  BY <1>4, <2>1, FS_Injection
  <1>6. ASSUME NEW i \in 1..n
        PROVE  /\ Ascending(S)[i] \in S
               /\ Cardinality(below(Ascending(S)[i])) = i
    <2>1. \E m \in S : Cardinality(below(m)) = i
      <3>1. PICK m \in S : rank[m] = i
        BY <1>5 DEF Surjection
      <3> QED  BY <3>1
    <2> QED  BY <2>1 DEF Ascending
  <1>7. ASSUME NEW m \in S
        PROVE  \E i \in 1..n : Ascending(S)[i] = m
    <2>1. Cardinality(below(m)) \in 1..n
      BY <1>2
    <2>2. rank[Ascending(S)[Cardinality(below(m))]] = rank[m]
      BY <1>6, <2>1
    <2>3. Ascending(S)[Cardinality(below(m))] = m
      BY <2>2, <1>4, <1>6, <2>1 DEF Injection, IsInjective
    <2> QED  BY <2>1, <2>3
  <1>8. DOMAIN Ascending(S) = 1..n
    BY DEF Ascending
  <1>9. Ascending(S) = [i \in 1..n |-> chosen(i)]
    BY DEF Ascending
  <1> HIDE DEF below, rank, chosen
  <1> QED  BY <1>6, <1>7, <1>8, <1>9 DEF ToSet

\* Taking the optimistic row away leaves the others, and putting the message in
\* its place adds no other (removeMessage, replaceMessage, appendLive).
LEMMA WithoutLocal ==
    ASSUME NEW S, NEW list \in Seq(S)
    PROVE  RemoveLocal(list) \in Seq(S) /\ ToSet(RemoveLocal(list)) \subseteq ToSet(list) \ {Local}
  <1> DEFINE I == {i \in DOMAIN list : list[i] # Local}
             kept == Ascending(I)
  <1>1. Len(list) \in Nat /\ DOMAIN list = 1..Len(list)
    OBVIOUS
  <1>2. I \in SUBSET Nat /\ IsFiniteSet(I) /\ Cardinality(I) \in Nat
    <2>1. I \in SUBSET (1..Len(list)) /\ IsFiniteSet(1..Len(list))
      BY <1>1, FS_Interval
    <2> QED  BY <2>1, FS_Subset, FS_CardinalityType
  <1>3. kept \in [1..Cardinality(I) -> I]
    BY <1>2, AscendingOfSet
  <1>4. RemoveLocal(list) = [i \in 1..Cardinality(I) |-> list[kept[i]]]
    BY <1>3 DEF RemoveLocal
  <1>5. \A i \in 1..Cardinality(I) : kept[i] \in DOMAIN list /\ list[kept[i]] # Local
    BY <1>3
  <1>6. \A i \in DOMAIN list : list[i] \in S
    BY <1>1
  <1> HIDE DEF kept, I
  <1>7. RemoveLocal(list) \in [1..Cardinality(I) -> S]
    BY <1>4, <1>5, <1>6
  <1>8. ToSet(RemoveLocal(list)) \subseteq ToSet(list) \ {Local}
    BY <1>4, <1>5 DEF ToSet
  <1> QED  BY <1>2, <1>7, <1>8, IsASeq

LEMMA WithMessage ==
    ASSUME NEW S, NEW list \in Seq(S), NEW m \in S
    PROVE  /\ ReplaceLocal(list, m) \in Seq(S)
           /\ ToSet(ReplaceLocal(list, m)) \subseteq ToSet(list) \cup {m}
           /\ AppendLive(list, m) \in Seq(S)
           /\ ToSet(AppendLive(list, m)) \subseteq ToSet(list) \cup {m}
  <1>1. DOMAIN list = 1..Len(list) /\ Len(list) \in Nat /\ \A i \in DOMAIN list : list[i] \in S
    OBVIOUS
  <1>2. ReplaceLocal(list, m) \in [1..Len(list) -> S]
    BY <1>1 DEF ReplaceLocal
  <1>3. ToSet(ReplaceLocal(list, m)) \subseteq ToSet(list) \cup {m}
    BY <1>1 DEF ReplaceLocal, ToSet
  <1>4. ToSet(Append(list, m)) \subseteq ToSet(list) \cup {m}
    BY <1>1, AppendProperties DEF ToSet
  <1> QED  BY <1>1, <1>2, <1>3, <1>4, IsASeq, AppendProperties DEF AppendLive

----------------------------------------------------------------------------
(* The inductive invariant *)

Post    == [to : Threads, from : Threads, call : 0..MaxCalls]
Request == [pc : {"idle", "waiting", "performed", "mirrored"},
            to : Threads \cup {Nobody}, from : Threads \cup {Nobody},
            call : 0..MaxCalls, msg : 0..MaxMessages, attempt : 0..MaxRetries]
Key     == {None} \cup {Stored(t) : t \in Threads} \cup {FrameKey(t) : t \in Threads}

\* What is under way is about messages GroupMe holds: the answer of a send, the
\* message a deletion is of, every frame.
OfMessagesHeld ==
    /\ Len(posted) <= MaxMessages
    /\ request["send"].pc # "idle" => /\ request["send"].to \in Threads
                                      /\ request["send"].from \in Threads
    /\ request["send"].pc \in {"performed", "mirrored"} => request["send"].msg \in Ids
    /\ request["delete"].pc # "idle" => request["delete"].msg \in Ids
    /\ \A f \in frames : f.of \in Ids
    /\ stored # NoFrame => stored \in Frame /\ stored.of \in Ids

\* A send that may still be performed has not been: its source_guid is on no
\* message, and the next press will have a new one.
NotYetPosted ==
    /\ \A m \in Ids : posted[m].call <= calls
    /\ request["send"].pc = "waiting" =>
         /\ request["send"].call \in 1..calls
         /\ \A m \in Ids : posted[m].call # request["send"].call

\* What is about to be shown has a row: the frame that was stored, the message
\* whose answer was mirrored.
ArchivedBeforeShown ==
    refused \/
    /\ stored.what = "posted" => rows[stored.of].key # None
    /\ request["send"].pc = "mirrored" => rows[request["send"].msg].key # None

OutboxInv ==
    /\ TypeOK
    /\ OfMessagesHeld
    /\ NotYetPosted
    /\ OnePostPerCall
    /\ ArchivedBeforeShown
    /\ ShownIsArchived

LEMMA IdsAreNumbers ==
    ASSUME TypeOK, Len(posted) <= MaxMessages
    PROVE  /\ Len(posted) \in Nat
           /\ Ids \subseteq Message /\ Ids \subseteq Nat /\ IsFiniteSet(Ids)
           /\ Local \notin Ids
           /\ \A m \in Ids : posted[m] \in Post
  <1>1. Len(posted) \in Nat /\ posted \in Seq(Post)
    BY DEF TypeOK, Post
  <1>2. IsFiniteSet(1..Len(posted))
    BY <1>1, FS_Interval
  <1> QED  BY <1>1, <1>2, OutboxAssumption DEF Ids, Message, Local

LEMMA KeysAreSome ==
    /\ \A t : Stored(t) # None /\ FrameKey(t) # None
    /\ \A t \in Threads : Stored(t) \in Key /\ FrameKey(t) \in Key
  BY DEF Stored, FrameKey, ThreadKey, None, Key

\* Whatever is written, a row that is filed stays filed, and one inserted is.
LEMMA RowsStayFiled ==
    ASSUME NEW row \in [key : Key, gone : BOOLEAN], NEW key \in Key, NEW b \in BOOLEAN
    PROVE  /\ Insert(row, key, b) \in [key : Key, gone : BOOLEAN]
           /\ key # None => Insert(row, key, b).key # None
           /\ row.key # None => Insert(row, key, b).key # None
           /\ Tombstone(row) \in [key : Key, gone : BOOLEAN]
           /\ row.key # None => Tombstone(row).key # None
  BY DEF Insert, Tombstone

LEMMA InitOutboxInv == Init => OutboxInv
  <1> SUFFICES ASSUME Init PROVE OutboxInv
    OBVIOUS
  <1>1. Len(posted) = 0 /\ Ids = {} /\ ToSet(shown) = {}
    BY DEF Init, Ids, ToSet
  <1>2. TypeOK
    <2>1. request \in [Ops -> Request]
      BY OutboxAssumption DEF Init, NoRequest, Request
    <2>2. rows \in [Message -> [key : Key, gone : BOOLEAN]]
      BY DEF Init, NoRow, Key
    <2>3. posted \in Seq(Post) /\ shown \in Seq(Ids \cup {Local})
      BY EmptySeq DEF Init
    <2>4. stored = NoFrame /\ frames = {} /\ gone = {} /\ calls \in 0..MaxCalls
      BY OutboxAssumption DEF Init
    <2> QED  BY <2>1, <2>2, <2>3, <2>4 DEF Init, TypeOK, Request, Post, Key
  <1>3. OfMessagesHeld /\ NotYetPosted /\ ArchivedBeforeShown
    BY <1>1, OutboxAssumption
       DEF Init, OfMessagesHeld, NotYetPosted, ArchivedBeforeShown, NoRequest, NoFrame, Ops
  <1> QED  BY <1>1, <1>2, <1>3 DEF Init, OutboxInv, OnePostPerCall, ShownIsArchived

----------------------------------------------------------------------------
(* Each step keeps it *)

Archived(m) == refused \/ rows[m].key # None

\* The steps of the window and of the requests, which leave GroupMe, the archive
\* and the frames alone.
LEMMA WindowKeeps ==
    ASSUME OutboxInv, UNCHANGED <<server, rows, carrier, refused>>,
           request' \in [Ops -> Request],
           calls' \in 0..MaxCalls, calls <= calls',
           active' \in Threads \cup {Nobody}, draft' \in Threads \cup {Nobody},
           shown' \in Seq(Ids \cup {Local}),
           \A m \in ToSet(shown') \ {Local} : Archived(m),
           request'["send"].pc # "idle" => /\ request'["send"].to \in Threads
                                           /\ request'["send"].from \in Threads,
           request'["send"].pc \in {"performed", "mirrored"}
              => request'["send"].msg \in Ids,
           request'["delete"].pc # "idle" => request'["delete"].msg \in Ids,
           request'["send"].pc = "waiting" =>
              /\ request'["send"].call \in 1..calls'
              /\ \A m \in Ids : posted[m].call # request'["send"].call,
           request'["send"].pc = "mirrored" => Archived(request'["send"].msg)
    PROVE  OutboxInv'
  <1> USE DEF server, carrier
  <1>1. Ids' = Ids
    BY DEF Ids
  <1>2. TypeOK'
    <2>1. request' \in [Ops -> Request]
      OBVIOUS
    <2>2. \A t : FrameKey(t)' = FrameKey(t)
      BY DEF FrameKey
    <2>3. UNCHANGED <<posted, gone, rows, frames, stored, refused>>
      OBVIOUS
    <2> QED  BY <1>1, <2>1, <2>2, <2>3 DEF OutboxInv, TypeOK, Request
  <1>3. OfMessagesHeld'
    BY <1>1 DEF OutboxInv, OfMessagesHeld
  <1>4. NotYetPosted'
    <2>1. \A m \in Ids : posted[m].call <= calls'
      <3>1. \A m \in Ids : posted[m].call \in 0..MaxCalls
        BY IdsAreNumbers DEF OutboxInv, OfMessagesHeld, Post
      <3>2. calls \in Int /\ calls' \in Int /\ MaxCalls \in Int
        BY OutboxAssumption DEF OutboxInv, TypeOK
      <3>3. \A m \in Ids : posted[m].call <= calls
        BY DEF OutboxInv, NotYetPosted
      <3> QED  BY <3>1, <3>2, <3>3
    <2> QED  BY <1>1, <2>1 DEF NotYetPosted
  <1>5. OnePostPerCall'
    BY <1>1 DEF OutboxInv, OnePostPerCall
  <1>6. ArchivedBeforeShown' /\ ShownIsArchived'
    BY DEF OutboxInv, ArchivedBeforeShown, ShownIsArchived, Archived
  <1> QED  BY <1>2, <1>3, <1>4, <1>5, <1>6 DEF OutboxInv

LEMMA OpenKeeps ==
    ASSUME OutboxInv, NEW t \in Threads, Open(t)
    PROVE  OutboxInv'
  <1>1. /\ Readable(t) \in SUBSET Nat /\ IsFiniteSet(Readable(t))
        /\ Readable(t) \subseteq Ids
        /\ \A m \in Readable(t) : rows[m].key # None
    <2>1. Readable(t) \subseteq Ids /\ Ids \subseteq Nat /\ IsFiniteSet(Ids)
      BY IdsAreNumbers DEF OutboxInv, OfMessagesHeld, Readable
    <2> QED  BY <2>1, FS_Subset, KeysAreSome DEF Readable
  <1>2. shown' \in Seq(Ids \cup {Local}) /\ ToSet(shown') = Readable(t)
    <2>1. Ascending(Readable(t)) \in [1..Cardinality(Readable(t)) -> Ids \cup {Local}]
      BY <1>1, AscendingOfSet
    <2> QED  BY <1>1, <2>1, AscendingOfSet, FS_CardinalityType, IsASeq DEF Open
  <1>3. \A m \in ToSet(shown') \ {Local} : Archived(m)
    BY <1>1, <1>2 DEF Archived
  <1>4. request \in [Ops -> Request] /\ calls \in 0..MaxCalls
    BY DEF OutboxInv, TypeOK, Request
  <1>5. UNCHANGED <<server, request, calls, rows, carrier, refused>>
        /\ active' \in Threads \cup {Nobody} /\ draft' \in Threads \cup {Nobody}
    BY DEF Open
  <1> QED
    BY <1>2, <1>3, <1>4, <1>5, WindowKeeps, OutboxAssumption
       DEF OutboxInv, OfMessagesHeld, NotYetPosted, ArchivedBeforeShown, Archived

LEMMA SendKeeps ==
    ASSUME OutboxInv, Send
    PROVE  OutboxInv'
  <1> DEFINE new == [NoRequest EXCEPT !.pc = "waiting", !.to = active,
                                      !.from = IF draft = Nobody THEN active ELSE draft,
                                      !.call = calls + 1]
  <1>1. /\ new \in Request /\ new.pc = "waiting" /\ new.to \in Threads
        /\ new.from \in Threads /\ new.call = calls + 1
    <2>1. active \in Threads /\ (IF draft = Nobody THEN active ELSE draft) \in Threads
      BY DEF Send, OutboxInv, TypeOK
    <2>2. calls + 1 \in 0..MaxCalls
      BY OutboxAssumption DEF Send, OutboxInv, TypeOK
    <2>3. 0 \in 0..MaxMessages /\ 0 \in 0..MaxRetries
      BY OutboxAssumption
    <2> QED  BY <2>1, <2>2, <2>3 DEF NoRequest, Request
  <1>2. request' = [request EXCEPT !["send"] = new]
    BY DEF Send
  <1> HIDE DEF new
  <1>3. request \in [Ops -> Request]
    BY DEF OutboxInv, TypeOK, Request
  <1>4. /\ request' \in [Ops -> Request]
        /\ request'["send"] = new /\ request'["delete"] = request["delete"]
    BY <1>1, <1>2, <1>3 DEF Ops
  <1>5. \A m \in Ids : posted[m].call # calls + 1
    <2>1. \A m \in Ids : posted[m].call \in 0..MaxCalls
      BY IdsAreNumbers DEF OutboxInv, OfMessagesHeld, Post
    <2> QED  BY <2>1, OutboxAssumption DEF OutboxInv, NotYetPosted, TypeOK
  <1>6. /\ shown' \in Seq(Ids \cup {Local})
        /\ \A m \in ToSet(shown') \ {Local} : Archived(m)
    <2>1. shown \in Seq(Ids \cup {Local}) /\ shown' = Append(shown, Local)
      BY DEF OutboxInv, TypeOK, Send
    <2>2. ToSet(shown') \subseteq ToSet(shown) \cup {Local}
      BY <2>1, AppendProperties DEF ToSet
    <2> QED  BY <2>1, <2>2, AppendProperties DEF OutboxInv, ShownIsArchived, Archived
  <1>7. /\ calls' = calls + 1 /\ calls \in 0..MaxCalls /\ calls' \in 0..MaxCalls
        /\ UNCHANGED <<server, active, rows, carrier, refused>> /\ draft' = Nobody
        /\ active \in Threads \cup {Nobody}
    BY OutboxAssumption DEF Send, OutboxInv, TypeOK
  <1> QED
    BY <1>1, <1>4, <1>5, <1>6, <1>7, WindowKeeps, OutboxAssumption
       DEF OutboxInv, OfMessagesHeld

LEMMA DeleteKeeps ==
    ASSUME OutboxInv, NEW m \in Message, Delete(m)
    PROVE  OutboxInv'
  <1> DEFINE new == [NoRequest EXCEPT !.pc = "waiting", !.to = active, !.msg = m]
  <1>1. m \in Ids
    <2>1. shown \in Seq(Ids \cup {Local}) /\ m # Local
      BY DEF OutboxInv, TypeOK, Message, Local
    <2> QED  BY <2>1 DEF Delete, ToSet
  <1>2. new \in Request /\ new.msg = m
    <2>1. active \in Threads \cup {Nobody} /\ m \in 0..MaxMessages
            /\ 0 \in 0..MaxCalls /\ 0 \in 0..MaxRetries
      BY OutboxAssumption DEF OutboxInv, TypeOK, Message
    <2> QED  BY <2>1 DEF NoRequest, Request
  <1>3. request' = [request EXCEPT !["delete"] = new]
    BY DEF Delete
  <1> HIDE DEF new
  <1>4. request \in [Ops -> Request]
    BY DEF OutboxInv, TypeOK, Request
  <1>5. /\ request' \in [Ops -> Request]
        /\ request'["delete"] = new /\ request'["send"] = request["send"]
    BY <1>2, <1>3, <1>4 DEF Ops
  <1>6. /\ calls' = calls + 1 /\ calls \in 0..MaxCalls /\ calls' \in 0..MaxCalls
        /\ UNCHANGED <<server, window, rows, carrier, refused>>
        /\ active \in Threads \cup {Nobody} /\ draft \in Threads \cup {Nobody}
        /\ shown \in Seq(Ids \cup {Local})
    BY OutboxAssumption DEF Delete, OutboxInv, TypeOK
  <1> QED
    BY <1>1, <1>2, <1>5, <1>6, WindowKeeps, OutboxAssumption
       DEF OutboxInv, OfMessagesHeld, NotYetPosted, ArchivedBeforeShown, Archived,
           ShownIsArchived, window

\* A replay follows a refusal, never an answer that leaves it open whether a
\* send was performed.
LEMMA ReplayKeeps ==
    ASSUME OutboxInv, NEW op \in Ops, Replay(op), Unchanged,
           request[op].pc # "idle",
           op = "send" => request[op].pc = "waiting"
    PROVE  OutboxInv'
  <1> DEFINE new == [request[op] EXCEPT !.pc = "waiting", !.attempt = @ + 1]
  <1>1. request \in [Ops -> Request]
    BY DEF OutboxInv, TypeOK, Request
  <1>2. request[op] \in Request /\ request[op].attempt + 1 \in 0..MaxRetries
    BY <1>1, OutboxAssumption DEF Replay, Request
  <1>3. /\ new \in Request /\ new.pc = "waiting" /\ new.to = request[op].to
        /\ new.from = request[op].from /\ new.call = request[op].call
        /\ new.msg = request[op].msg
    BY <1>2 DEF Request
  <1>4. request' = [request EXCEPT ![op] = new]
    BY <1>1 DEF Replay
  <1> HIDE DEF new
  <1>5. /\ request' \in [Ops -> Request] /\ request'[op] = new
        /\ \A p \in Ops \ {op} : request'[p] = request[p]
    BY <1>1, <1>3, <1>4
  <1>6. /\ UNCHANGED <<server, calls, rows, carrier, refused>>
        /\ calls' \in 0..MaxCalls /\ calls <= calls'
        /\ active' \in Threads \cup {Nobody} /\ draft' \in Threads \cup {Nobody}
        /\ shown' \in Seq(Ids \cup {Local})
        /\ \A m \in ToSet(shown') \ {Local} : Archived(m)
    BY OutboxAssumption
       DEF Replay, Unchanged, OutboxInv, TypeOK, ShownIsArchived, Archived
  <1>7. /\ request["send"].pc # "idle" => /\ request["send"].to \in Threads
                                          /\ request["send"].from \in Threads
        /\ request["send"].pc \in {"performed", "mirrored"} => request["send"].msg \in Ids
        /\ request["delete"].pc # "idle" => request["delete"].msg \in Ids
        /\ request["send"].pc = "waiting" =>
             /\ request["send"].call \in 1..calls
             /\ \A m \in Ids : posted[m].call # request["send"].call
        /\ request["send"].pc = "mirrored" => Archived(request["send"].msg)
    BY DEF OutboxInv, OfMessagesHeld, NotYetPosted, ArchivedBeforeShown, Archived
  <1>8. CASE op = "send"
    <2>1. request'["send"] = new /\ request'["delete"] = request["delete"]
            /\ request["send"].pc = "waiting"
      BY <1>5, <1>8 DEF Ops
    <2> QED  BY <2>1, <1>3, <1>5, <1>6, <1>7, <1>8, WindowKeeps
  <1>9. CASE op = "delete"
    <2>1. request'["delete"] = new /\ request'["send"] = request["send"]
      BY <1>5, <1>9 DEF Ops
    <2> QED  BY <2>1, <1>3, <1>5, <1>6, <1>7, <1>9, WindowKeeps
  <1> QED  BY <1>8, <1>9 DEF Ops

\* A request that is over, whatever the window makes of it.
LEMMA EndOfRequestKeeps ==
    ASSUME OutboxInv, NEW op \in Ops, request' = [request EXCEPT ![op] = NoRequest],
           UNCHANGED <<server, calls, active, rows, carrier, refused>>,
           draft' \in Threads \cup {Nobody},
           shown' \in Seq(Ids \cup {Local}),
           \A m \in ToSet(shown') \ {Local} : Archived(m)
    PROVE  OutboxInv'
  <1>1. request \in [Ops -> Request] /\ NoRequest \in Request /\ NoRequest.pc = "idle"
    BY OutboxAssumption DEF OutboxInv, TypeOK, Request, NoRequest
  <1> HIDE DEF NoRequest
  <1>2. /\ request' \in [Ops -> Request] /\ request'[op] = NoRequest
        /\ \A p \in Ops \ {op} : request'[p] = request[p]
    BY <1>1
  <1>3. /\ calls' \in 0..MaxCalls /\ calls <= calls' /\ calls' = calls
        /\ active' \in Threads \cup {Nobody}
    BY OutboxAssumption DEF OutboxInv, TypeOK
  <1>4. \A p \in Ops : request'[p].pc # "idle" => request'[p] = request[p]
    BY <1>1, <1>2
  <1>5. "send" \in Ops /\ "delete" \in Ops
    BY DEF Ops
  <1> QED
    BY <1>2, <1>3, <1>4, <1>5, WindowKeeps
       DEF OutboxInv, OfMessagesHeld, NotYetPosted, ArchivedBeforeShown, Archived

LEMMA FailKeeps ==
    ASSUME OutboxInv, NEW op \in Ops, Fail(op), Unchanged, request[op].pc # "idle"
    PROVE  OutboxInv'
  <1>1. shown \in Seq(Ids \cup {Local}) /\ draft \in Threads \cup {Nobody}
          /\ \A m \in ToSet(shown) \ {Local} : Archived(m)
    BY DEF OutboxInv, TypeOK, ShownIsArchived, Archived
  <1>2. draft' \in Threads \cup {Nobody}
    BY <1>1 DEF Fail, OutboxInv, OfMessagesHeld
  <1>3. shown' = shown \/ shown' = RemoveLocal(shown)
    BY DEF Fail
  <1>4. shown' \in Seq(Ids \cup {Local}) /\ ToSet(shown') \subseteq ToSet(shown)
    BY <1>1, <1>3, WithoutLocal
  <1> QED  BY <1>1, <1>2, <1>4, EndOfRequestKeeps DEF Fail, Unchanged, Archived

LEMMA ReturnKeeps ==
    ASSUME OutboxInv, NEW op \in Ops, Return(op)
    PROVE  OutboxInv'
  <1>1. shown \in Seq(Ids \cup {Local}) /\ draft \in Threads \cup {Nobody}
          /\ \A m \in ToSet(shown) \ {Local} : Archived(m)
    BY DEF OutboxInv, TypeOK, ShownIsArchived, Archived
  <1>2. CASE shown' = shown
    BY <1>1, <1>2, EndOfRequestKeeps DEF Return, Archived
  <1>3. CASE op = "send" /\ shown' = ReplaceLocal(shown, request[op].msg)
    <2>1. request[op].msg \in Ids /\ Archived(request[op].msg)
      BY <1>3 DEF Return, OutboxInv, OfMessagesHeld, ArchivedBeforeShown, Archived
    <2>2. /\ shown' \in Seq(Ids \cup {Local})
          /\ ToSet(shown') \subseteq ToSet(shown) \cup {request[op].msg}
      BY <1>1, <1>3, <2>1, WithMessage
    <2> QED  BY <1>1, <2>1, <2>2, EndOfRequestKeeps DEF Return, Archived
  <1> QED  BY <1>2, <1>3 DEF Return

LEMMA OutcomeKeeps ==
    ASSUME OutboxInv, NEW op \in Ops, RateLimited(op) \/ ServerError(op) \/ Refused(op)
    PROVE  OutboxInv'
  <1>1. request[op].pc # "idle" /\ Unchanged
    BY DEF RateLimited, ServerError, Refused
  <1>2. \/ Fail(op)
        \/ Replay(op) /\ (op = "send" => request[op].pc = "waiting")
    BY DEF RateLimited, ServerError, Refused, Policy, Ops
  <1> QED  BY <1>1, <1>2, FailKeeps, ReplayKeeps

Row == [key : Key, gone : BOOLEAN]

\* The steps that write the archive: what is filed stays filed.
LEMMA FilingKeeps ==
    ASSUME OutboxInv, UNCHANGED <<server, calls, window>>,
           rows' \in [Message -> Row], refused' \in BOOLEAN, refused => refused',
           \A m \in Message : rows[m].key # None => rows'[m].key # None,
           request' \in [Ops -> Request],
           \A op \in Ops :
              /\ request'[op].to = request[op].to /\ request'[op].from = request[op].from
              /\ request'[op].call = request[op].call /\ request'[op].msg = request[op].msg
              /\ \/ request'[op].pc = request[op].pc
                 \/ request'[op].pc = "mirrored" /\ request[op].pc = "performed",
           frames' \subseteq frames,
           stored' \in Frame \cup {NoFrame},
           stored' # NoFrame => stored'.of \in Ids,
           refused' \/ (stored'.what = "posted" => rows'[stored'.of].key # None),
           refused' \/ (request'["send"].pc = "mirrored"
                          => rows'[request'["send"].msg].key # None)
    PROVE  OutboxInv'
  <1> USE DEF server, window
  <1>1. Ids' = Ids /\ Ids \subseteq Message /\ "send" \in Ops /\ "delete" \in Ops
    BY IdsAreNumbers DEF Ids, Ops, OutboxInv, OfMessagesHeld
  <1>2. TypeOK'
    <2>1. \A t : FrameKey(t)' = FrameKey(t)
      BY DEF FrameKey
    <2>2. UNCHANGED <<posted, gone, calls, active, draft, shown>>
      OBVIOUS
    <2> QED  BY <1>1, <2>1, <2>2 DEF OutboxInv, TypeOK, Request, Row, Key
  <1>3. OfMessagesHeld'
    <2>1. stored' # NoFrame => stored' \in Frame
      OBVIOUS
    <2> QED  BY <1>1, <2>1 DEF OutboxInv, OfMessagesHeld
  <1>4. NotYetPosted'
    BY <1>1 DEF OutboxInv, NotYetPosted
  <1>5. OnePostPerCall'
    BY <1>1 DEF OutboxInv, OnePostPerCall
  <1>6. ArchivedBeforeShown'
    BY DEF ArchivedBeforeShown
  <1>7. ShownIsArchived'
    <2>1. ToSet(shown) \ {Local} \subseteq Message
      <3>1. shown \in Seq(Ids \cup {Local})
        BY DEF OutboxInv, TypeOK
      <3> QED  BY <1>1, <3>1 DEF ToSet
    <2> QED  BY <2>1 DEF OutboxInv, ShownIsArchived
  <1> QED  BY <1>2, <1>3, <1>4, <1>5, <1>6, <1>7 DEF OutboxInv

LEMMA RowsAreTyped ==
    ASSUME OutboxInv
    PROVE  /\ rows \in [Message -> Row] /\ request \in [Ops -> Request]
           /\ "send" \in Ops /\ "delete" \in Ops
           /\ frames \subseteq Frame /\ refused \in BOOLEAN
  BY DEF OutboxInv, TypeOK, Request, Row, Key, Ops

LEMMA MirrorKeeps ==
    ASSUME OutboxInv, NEW op \in Ops, Mirror(op)
    PROVE  OutboxInv'
  <1> DEFINE new == [request[op] EXCEPT !.pc = "mirrored"]
             m == request[op].msg
  <1>1. request[op] \in Request /\ request[op].pc = "performed"
          /\ request \in [Ops -> Request] /\ rows \in [Message -> Row]
    BY RowsAreTyped DEF Mirror
  <1>2. /\ new \in Request /\ new.pc = "mirrored" /\ new.to = request[op].to
        /\ new.from = request[op].from /\ new.call = request[op].call /\ new.msg = m
    BY <1>1 DEF Request
  <1>3. request' = [request EXCEPT ![op] = new]
    BY <1>1 DEF Mirror
  <1>4. m \in Message
    BY <1>1, IdsAreNumbers DEF OutboxInv, OfMessagesHeld, Ops
  <1> HIDE DEF new
  <1>5. /\ request' \in [Ops -> Request]
        /\ \A p \in Ops : request'[p] = IF p = op THEN new ELSE request[p]
    BY <1>1, <1>2, <1>3
  <1>6. /\ Recorded(op, rows[m]) \in Row
        /\ rows[m].key # None => Recorded(op, rows[m]).key # None
        /\ op = "send" => Recorded(op, rows[m]).key # None
    <2>1. op = "send" => request[op].to \in Threads
      BY <1>1 DEF OutboxInv, OfMessagesHeld
    <2>2. rows[m] \in Row
      BY <1>1, <1>4
    <2>3. op = "send" => Stored(request[op].to) \in Key /\ Stored(request[op].to) # None
      BY <2>1, KeysAreSome
    <2> QED  BY <2>2, <2>3, RowsStayFiled DEF Recorded, Row
  <1>7. /\ rows' \in [Message -> Row] /\ refused' \in BOOLEAN /\ (refused => refused')
        /\ \A k \in Message : rows[k].key # None => rows'[k].key # None
        /\ op = "send" => refused' \/ rows'[m].key # None
    <2>1. CASE rows' = [rows EXCEPT ![m] = Recorded(op, @)] /\ UNCHANGED refused
      <3>1. refused' = refused /\ refused \in BOOLEAN
        BY <2>1, RowsAreTyped
      <3> HIDE DEF m
      <3> QED  BY <1>1, <1>4, <1>6, <2>1, <3>1
    <2>2. CASE rows' = rows /\ refused' = TRUE
      BY <1>1, <2>2
    <2> QED  BY <2>1, <2>2 DEF Mirror
  <1>8. UNCHANGED <<server, calls, window, frames, stored>>
    BY DEF Mirror, carrier
  <1>9. /\ stored' \in Frame \cup {NoFrame} /\ (stored' # NoFrame => stored'.of \in Ids)
        /\ refused' \/ (stored'.what = "posted" => rows'[stored'.of].key # None)
    <2>1. stored \in Frame \cup {NoFrame} /\ (stored # NoFrame => stored.of \in Ids)
      BY DEF OutboxInv, TypeOK, OfMessagesHeld
    <2>2. stored.what = "posted" => stored.of \in Message
      BY <2>1 DEF Frame, NoFrame
    <2>3. CASE refused
      BY <2>3, <2>1, <1>7, <1>8
    <2>4. CASE ~refused
      <3>1. stored.what = "posted" => rows[stored.of].key # None
        BY <2>4 DEF OutboxInv, ArchivedBeforeShown
      <3> QED  BY <3>1, <2>1, <2>2, <1>7, <1>8
    <2> QED  BY <2>3, <2>4
  <1>10. refused' \/ (request'["send"].pc = "mirrored"
                       => rows'[request'["send"].msg].key # None)
    <2>1. CASE op = "send"
      BY <2>1, <1>2, <1>5, <1>7
    <2>2. CASE op # "send"
      <3>1. request'["send"] = request["send"]
        BY <2>2, <1>5, RowsAreTyped
      <3>2. request["send"].pc = "mirrored" => request["send"].msg \in Message
        BY IdsAreNumbers DEF OutboxInv, OfMessagesHeld
      <3>3. CASE refused
        BY <3>3, <1>7
      <3>4. CASE ~refused
        <4>1. request["send"].pc = "mirrored" => rows[request["send"].msg].key # None
          BY <3>4 DEF OutboxInv, ArchivedBeforeShown
        <4> QED  BY <4>1, <3>1, <3>2, <1>7
      <3> QED  BY <3>3, <3>4
    <2> QED  BY <2>1, <2>2
  <1> QED
    BY <1>1, <1>2, <1>5, <1>7, <1>8, <1>9, <1>10, FilingKeeps

LEMMA StoreFrameKeeps ==
    ASSUME OutboxInv, NEW f \in frames, StoreFrame(f)
    PROVE  OutboxInv'
  <1> DEFINE filed == IF f.what = "posted"
                      THEN Insert(rows[f.of], FrameKey(posted[f.of].to), FALSE)
                      ELSE Tombstone(rows[f.of])
  <1>1. f \in Frame /\ f.of \in Ids /\ f.of \in Message /\ posted[f.of] \in Post
    BY IdsAreNumbers, RowsAreTyped DEF OutboxInv, OfMessagesHeld
  <1>2. /\ filed \in Row
        /\ rows[f.of].key # None => filed.key # None
        /\ f.what = "posted" => filed.key # None
    <2>1. FrameKey(posted[f.of].to) \in Key /\ FrameKey(posted[f.of].to) # None
      BY <1>1, KeysAreSome DEF Post
    <2>2. rows[f.of] \in Row
      BY <1>1, RowsAreTyped
    <2> QED  BY <2>1, <2>2, RowsStayFiled DEF Row
  <1>3. /\ rows' \in [Message -> Row] /\ refused' \in BOOLEAN /\ (refused => refused')
        /\ \A k \in Message : rows[k].key # None => rows'[k].key # None
        /\ f.what = "posted" => refused' \/ rows'[f.of].key # None
    <2>1. CASE rows' = [rows EXCEPT ![f.of] = filed] /\ UNCHANGED refused
      <3> HIDE DEF filed
      <3> QED  BY <1>1, <1>2, <2>1, RowsAreTyped
    <2>2. CASE rows' = rows /\ refused' = TRUE
      BY <2>2, RowsAreTyped
    <2> QED  BY <2>1, <2>2 DEF StoreFrame
  <1> HIDE DEF filed
  <1>4. /\ UNCHANGED <<server, request, calls, window>> /\ frames' \subseteq frames
        /\ stored' = f
    BY DEF StoreFrame
  <1>5. refused' \/ (request'["send"].pc = "mirrored"
                       => rows'[request'["send"].msg].key # None)
    <2>1. request["send"].pc = "mirrored" => request["send"].msg \in Message
      BY IdsAreNumbers DEF OutboxInv, OfMessagesHeld
    <2>2. CASE refused
      BY <2>2, <1>3
    <2>3. CASE ~refused
      <3>1. request["send"].pc = "mirrored" => rows[request["send"].msg].key # None
        BY <2>3 DEF OutboxInv, ArchivedBeforeShown
      <3> QED  BY <3>1, <2>1, <1>3, <1>4
    <2> QED  BY <2>2, <2>3
  <1> QED  BY <1>1, <1>3, <1>4, <1>5, RowsAreTyped, FilingKeeps

LEMMA PollKeeps ==
    ASSUME OutboxInv, NEW t \in Threads, Poll(t)
    PROVE  OutboxInv'
  <1>1. /\ rows' \in [Message -> Row]
        /\ \A k \in Message : rows[k].key # None => rows'[k].key # None
    <2>1. \A k \in Message :
             /\ Insert(rows[k], Stored(t), k \in gone) \in Row
             /\ rows[k].key # None => Insert(rows[k], Stored(t), k \in gone).key # None
      <3> SUFFICES ASSUME NEW k \in Message
                   PROVE  /\ Insert(rows[k], Stored(t), k \in gone) \in Row
                          /\ rows[k].key # None
                                => Insert(rows[k], Stored(t), k \in gone).key # None
        OBVIOUS
      <3>1. rows[k] \in Row /\ Stored(t) \in Key /\ (k \in gone) \in BOOLEAN
        BY RowsAreTyped, KeysAreSome
      <3> QED  BY <3>1, RowsStayFiled DEF Row
    <2>2. \A k \in Message : rows[k] \in Row
      BY RowsAreTyped
    <2>3. rows' = [m \in Message |->
                    IF m \in Ids /\ posted[m].to = t
                    THEN Insert(rows[m], Stored(t), m \in gone) ELSE rows[m]]
      BY DEF Poll
    <2> QED  BY <2>1, <2>2, <2>3
  <1>2. UNCHANGED <<server, request, calls, window, frames, stored, refused>>
    BY DEF Poll, carrier
  <1>3. /\ stored \in Frame \cup {NoFrame} /\ (stored # NoFrame => stored.of \in Ids)
        /\ stored.what = "posted" => stored.of \in Message
    BY DEF OutboxInv, TypeOK, OfMessagesHeld, Frame, NoFrame
  <1>4. request["send"].pc = "mirrored" => request["send"].msg \in Message
    BY IdsAreNumbers DEF OutboxInv, OfMessagesHeld
  <1>5. /\ refused' \/ (stored'.what = "posted" => rows'[stored'.of].key # None)
        /\ refused' \/ (request'["send"].pc = "mirrored"
                           => rows'[request'["send"].msg].key # None)
    BY <1>1, <1>2, <1>3, <1>4 DEF OutboxInv, ArchivedBeforeShown
  <1> QED  BY <1>1, <1>2, <1>3, <1>5, RowsAreTyped, FilingKeeps

LEMMA EmitFrameKeeps ==
    ASSUME OutboxInv, EmitFrame
    PROVE  OutboxInv'
  <1>1. /\ stored \in Frame /\ stored.of \in Ids
        /\ shown \in Seq(Ids \cup {Local})
        /\ \A m \in ToSet(shown) \ {Local} : Archived(m)
        /\ stored.what = "posted" => Archived(stored.of)
    BY DEF EmitFrame, OutboxInv, TypeOK, OfMessagesHeld, ShownIsArchived,
           ArchivedBeforeShown, Archived
  <1>2. shown' = shown \/ (shown' = AppendLive(shown, stored.of) /\ stored.what = "posted")
    BY DEF EmitFrame
  <1>3. shown' \in Seq(Ids \cup {Local}) /\ \A m \in ToSet(shown') \ {Local} : Archived(m)
    BY <1>1, <1>2, WithMessage
  <1>4. UNCHANGED <<server, request, calls, active, draft, rows, frames, refused>>
          /\ stored' = NoFrame
    BY DEF EmitFrame
  <1>5. Ids' = Ids /\ \A t : FrameKey(t)' = FrameKey(t)
    BY <1>4 DEF Ids, FrameKey, server
  <1>6. TypeOK'
    BY <1>3, <1>4, <1>5 DEF OutboxInv, TypeOK, server
  <1>7. OfMessagesHeld' /\ NotYetPosted' /\ OnePostPerCall'
    BY <1>4, <1>5 DEF OutboxInv, OfMessagesHeld, NotYetPosted, OnePostPerCall, server
  <1>8. ArchivedBeforeShown'
    BY <1>4 DEF OutboxInv, ArchivedBeforeShown, NoFrame
  <1>9. ShownIsArchived'
    BY <1>3, <1>4 DEF ShownIsArchived, Archived
  <1> QED  BY <1>6, <1>7, <1>8, <1>9 DEF OutboxInv

\* GroupMe accepts a message: the next number is its, and those before it are
\* left as they are.
LEMMA PostedGrows ==
    ASSUME OutboxInv, NEW t \in Threads, NEW from \in Threads,
           NEW call \in 0..MaxCalls, Accept(t, from, call)
    PROVE  /\ posted' \in Seq(Post) /\ Len(posted') = Len(posted) + 1
           /\ Len(posted') \in Message
           /\ Ids' = Ids \cup {Len(posted')} /\ Len(posted') \notin Ids
           /\ \A m \in Ids : posted'[m] = posted[m]
           /\ posted'[Len(posted')].call = call
           /\ gone' = gone /\ gone' \subseteq Ids'
           /\ frames' \subseteq Frame /\ \A f \in frames' : f.of \in Ids'
  <1> DEFINE new == [to |-> t, from |-> from, call |-> call]
  <1>1. new \in Post /\ new.call = call
    BY DEF Post
  <1>2. posted \in Seq(Post) /\ gone \subseteq Ids /\ frames \subseteq Frame
          /\ \A f \in frames : f.of \in Ids
    BY DEF OutboxInv, TypeOK, Post, OfMessagesHeld
  <1>3. posted' = Append(posted, new) /\ Len(posted) < MaxMessages /\ gone' = gone
    BY DEF Accept
  <1> HIDE DEF new
  <1>4. /\ posted' \in Seq(Post) /\ Len(posted') = Len(posted) + 1
        /\ \A i \in 1..Len(posted) : posted'[i] = posted[i]
        /\ posted'[Len(posted')] = new
    BY <1>1, <1>2, <1>3, AppendProperties
  <1>5. /\ Len(posted') \in Message /\ Ids' = Ids \cup {Len(posted')}
        /\ Len(posted') \notin Ids
    BY <1>2, <1>3, <1>4, OutboxAssumption DEF Ids, Message
  <1>6. frames' = frames \cup {[of |-> Len(posted'), what |-> "posted"]}
    BY <1>4 DEF Accept
  <1>7. frames' \subseteq Frame /\ \A f \in frames' : f.of \in Ids'
    BY <1>2, <1>5, <1>6 DEF Frame
  <1> QED  BY <1>1, <1>2, <1>3, <1>4, <1>5, <1>7 DEF Ids

\* The two steps by which it does so: a source_guid that is already on a message
\* is not put on another.
LEMMA AcceptKeeps ==
    ASSUME OutboxInv, NEW t \in Threads, NEW from \in Threads,
           NEW call \in 0..MaxCalls, Accept(t, from, call),
           UNCHANGED <<calls, window, rows, stored, refused>>,
           request' \in [Ops -> Request],
           call # 0 => \A m \in Ids : posted[m].call # call,
           call <= calls,
           request'["send"].pc # "idle" => /\ request'["send"].to \in Threads
                                           /\ request'["send"].from \in Threads,
           request'["delete"] = request["delete"],
           \/ request'["send"] = request["send"] /\ call = 0
           \/ request'["send"].pc = "performed" /\ request'["send"].msg = Len(posted')
    PROVE  OutboxInv'
  <1>1. /\ posted' \in Seq(Post) /\ Len(posted') = Len(posted) + 1
        /\ Len(posted') \in Message
        /\ Ids' = Ids \cup {Len(posted')} /\ Len(posted') \notin Ids
        /\ \A m \in Ids : posted'[m] = posted[m]
        /\ posted'[Len(posted')].call = call
        /\ gone' = gone /\ gone' \subseteq Ids'
        /\ frames' \subseteq Frame /\ \A f \in frames' : f.of \in Ids'
    BY PostedGrows
  <1>2. TypeOK'
    <2>1. shown' \in Seq(Ids' \cup {Local})
      <3>1. shown \in Seq(Ids \cup {Local}) /\ shown' = shown
        BY DEF OutboxInv, TypeOK, window
      <3> QED  BY <1>1, <3>1, SeqMonotonic
    <2>2. \A k : FrameKey(k)' = FrameKey(k)
      BY DEF FrameKey
    <2>3. UNCHANGED <<calls, active, draft, rows, stored, refused>>
      BY DEF window
    <2> QED  BY <1>1, <2>1, <2>2, <2>3 DEF OutboxInv, TypeOK, Request, Post
  <1>3. OfMessagesHeld'
    <2>1. Len(posted') <= MaxMessages
      BY <1>1 DEF Message
    <2> QED  BY <1>1, <2>1 DEF OutboxInv, OfMessagesHeld
  <1>4. NotYetPosted'
    <2>1. \A m \in Ids' : posted'[m].call <= calls'
      BY <1>1 DEF OutboxInv, NotYetPosted
    <2>2. request'["send"].pc = "waiting" =>
             /\ request'["send"].call \in 1..calls'
             /\ \A m \in Ids' : posted'[m].call # request'["send"].call
      <3> SUFFICES ASSUME request'["send"] = request["send"], call = 0,
                          request["send"].pc = "waiting"
                   PROVE  /\ request["send"].call \in 1..calls
                          /\ \A m \in Ids' : posted'[m].call # request["send"].call
        OBVIOUS
      <3>1. request["send"].call \in 1..calls /\ request["send"].call # 0
              /\ \A m \in Ids : posted[m].call # request["send"].call
        <4>1. calls \in Nat
          BY DEF OutboxInv, TypeOK
        <4> QED  BY <4>1 DEF OutboxInv, NotYetPosted
      <3> QED  BY <1>1, <3>1
    <2> QED  BY <2>1, <2>2 DEF NotYetPosted
  <1>5. OnePostPerCall'
    <2> SUFFICES ASSUME NEW m \in Ids', NEW n \in Ids',
                        posted'[m].call = posted'[n].call, posted'[m].call # 0
                 PROVE  m = n
      BY DEF OnePostPerCall
    <2>1. CASE m \in Ids /\ n \in Ids
      BY <1>1, <2>1 DEF OutboxInv, OnePostPerCall
    <2>2. CASE m \in Ids /\ n = Len(posted')
      BY <1>1, <2>2
    <2>3. CASE m = Len(posted') /\ n \in Ids
      BY <1>1, <2>3
    <2> QED  BY <1>1, <2>1, <2>2, <2>3
  <1>6. ArchivedBeforeShown'
    BY DEF OutboxInv, ArchivedBeforeShown
  <1>7. ShownIsArchived'
    BY DEF OutboxInv, ShownIsArchived, window
  <1> QED  BY <1>2, <1>3, <1>4, <1>5, <1>6, <1>7 DEF OutboxInv

LEMMA OtherPostsKeeps ==
    ASSUME OutboxInv, NEW t \in Threads, OtherPosts(t)
    PROVE  OutboxInv'
  <1>1. request' = request /\ 0 \in 0..MaxCalls /\ 0 <= calls
    BY OutboxAssumption DEF OtherPosts, OutboxInv, TypeOK
  <1> QED
    BY <1>1, AcceptKeeps, RowsAreTyped DEF OtherPosts, OutboxInv, OfMessagesHeld

LEMMA SendPerformedKeeps ==
    ASSUME OutboxInv, SendPerformed
    PROVE  OutboxInv'
  <1> DEFINE to == request["send"].to
             t == IF to \in Dms THEN Recipient(Stored(to), Me)[1] ELSE to
             new == [request["send"] EXCEPT !.pc = "performed", !.msg = Len(posted')]
  <1>1. /\ request["send"] \in Request /\ request["send"].pc = "waiting"
        /\ to \in Threads /\ request["send"].from \in Threads
        /\ request \in [Ops -> Request]
    BY RowsAreTyped DEF SendPerformed, OutboxInv, OfMessagesHeld
  <1>2. t \in Threads
    BY <1>1 DEF Recipient, Stored, IsThreadKey
  <1>3. /\ Accept(t, request["send"].from, request["send"].call)
        /\ UNCHANGED <<calls, window, rows, stored, refused>>
        /\ request' = [request EXCEPT !["send"].pc = "performed",
                                      !["send"].msg = Len(posted')]
    BY DEF SendPerformed
  <1>4. /\ request["send"].call \in 0..MaxCalls /\ request["send"].call <= calls
        /\ \A m \in Ids : posted[m].call # request["send"].call
    BY <1>1 DEF OutboxInv, NotYetPosted, TypeOK, Request
  <1>5. Len(posted') \in 0..MaxMessages
    <2>1. Len(posted') \in Message
      BY <1>1, <1>2, <1>3, <1>4, PostedGrows
    <2> QED  BY <2>1 DEF Message
  <1>6. /\ new \in Request /\ new.pc = "performed" /\ new.msg = Len(posted')
        /\ new.to = to /\ new.from = request["send"].from
    BY <1>1, <1>5 DEF Request
  <1>7. request' = [request EXCEPT !["send"] = new]
    BY <1>1, <1>3
  <1> HIDE DEF new, t
  <1>8. /\ request' \in [Ops -> Request] /\ request'["send"] = new
        /\ request'["delete"] = request["delete"]
    BY <1>1, <1>6, <1>7, RowsAreTyped
  <1> QED  BY <1>1, <1>2, <1>3, <1>4, <1>6, <1>8, AcceptKeeps

LEMMA DeletePerformedKeeps ==
    ASSUME OutboxInv, DeletePerformed
    PROVE  OutboxInv'
  <1> DEFINE m == request["delete"].msg
             new == [request["delete"] EXCEPT !.pc = "performed"]
  <1>1. /\ request["delete"] \in Request /\ request \in [Ops -> Request]
        /\ m \in Ids /\ m \in Message
    BY RowsAreTyped, IdsAreNumbers DEF DeletePerformed, OutboxInv, OfMessagesHeld
  <1>2. new \in Request /\ new.msg = m
    BY <1>1 DEF Request
  <1>3. request' = [request EXCEPT !["delete"] = new]
    BY <1>1 DEF DeletePerformed
  <1>4. /\ gone' = gone \cup {m}
        /\ frames' = frames \cup (IF m \in gone THEN {} ELSE {[of |-> m, what |-> "gone"]})
        /\ UNCHANGED <<posted, calls, active, draft, shown, rows, stored, refused>>
    BY DEF DeletePerformed, window
  <1> HIDE DEF new
  <1>5. /\ request' \in [Ops -> Request] /\ request'["delete"] = new
        /\ request'["send"] = request["send"]
    BY <1>1, <1>2, <1>3, RowsAreTyped
  <1>6. /\ frames' \subseteq Frame /\ \A f \in frames' : f.of \in Ids
    <2>1. frames \subseteq Frame /\ \A f \in frames : f.of \in Ids
      BY RowsAreTyped DEF OutboxInv, OfMessagesHeld
    <2> QED  BY <1>1, <1>4, <2>1 DEF Frame
  <1>7. Ids' = Ids /\ \A k : FrameKey(k)' = FrameKey(k)
    BY <1>4 DEF Ids, FrameKey
  <1>8. TypeOK'
    <2>1. gone' \subseteq Ids
      BY <1>1, <1>4 DEF OutboxInv, TypeOK
    <2> QED  BY <1>4, <1>5, <1>6, <1>7, <2>1 DEF OutboxInv, TypeOK, Request
  <1>9. OfMessagesHeld' /\ NotYetPosted' /\ OnePostPerCall'
    BY <1>1, <1>2, <1>4, <1>5, <1>6, <1>7
       DEF OutboxInv, OfMessagesHeld, NotYetPosted, OnePostPerCall
  <1>10. ArchivedBeforeShown' /\ ShownIsArchived'
    BY <1>4, <1>5 DEF OutboxInv, ArchivedBeforeShown, ShownIsArchived
  <1> QED  BY <1>8, <1>9, <1>10 DEF OutboxInv

LEMMA NextOutboxInv == OutboxInv /\ [Next]_vars => OutboxInv'
  <1> SUFFICES ASSUME OutboxInv, [Next]_vars PROVE OutboxInv'
    OBVIOUS
  <1>1. CASE \E t \in Threads : Open(t) \/ OtherPosts(t) \/ Poll(t)
    BY <1>1, OpenKeeps, OtherPostsKeeps, PollKeeps
  <1>2. CASE Send \/ EmitFrame \/ \E m \in Message : Delete(m)
    BY <1>2, SendKeeps, EmitFrameKeeps, DeleteKeeps
  <1>3. CASE \E op \in Ops : Outcome(op) \/ Mirror(op) \/ Return(op)
    BY <1>3, SendPerformedKeeps, DeletePerformedKeeps, OutcomeKeeps, MirrorKeeps,
       ReturnKeeps DEF Outcome
  <1>4. CASE \E f \in frames : StoreFrame(f)
    BY <1>4, StoreFrameKeeps
  <1>5. CASE UNCHANGED vars
    <2>1. UNCHANGED <<server, calls, window, request, rows, carrier, refused>>
      BY <1>5 DEF vars
    <2>2. \A k : FrameKey(k)' = FrameKey(k)
      BY DEF FrameKey
    <2> QED
      BY <2>1, <2>2
         DEF server, window, carrier, OutboxInv, TypeOK, OfMessagesHeld, NotYetPosted,
             OnePostPerCall, ArchivedBeforeShown, ShownIsArchived, Ids
  <1> QED  BY <1>1, <1>2, <1>3, <1>4, <1>5 DEF Next

LEMMA OutboxIsInvariant == Spec => []OutboxInv
  BY InitOutboxInv, NextOutboxInv, PTL DEF Spec

----------------------------------------------------------------------------
(* What follows *)

\* Every variable of the outbox keeps its type, for any threads and bounds.
THEOREM OutboxTypeCorrect == Spec => []TypeOK
  <1>1. OutboxInv => TypeOK
    BY DEF OutboxInv
  <1> QED  BY <1>1, OutboxIsInvariant, PTL

\* However often a send is replayed, and whether its answer is lost, late or an
\* error, no two messages bear the source_guid of one press (Retry and
\* send_with_policy): a send is replayed only where it was not performed.
THEOREM ReplaysPostOnce == Spec => []OnePostPerCall
  <1>1. OutboxInv => OnePostPerCall
    BY DEF OutboxInv
  <1> QED  BY <1>1, OutboxIsInvariant, PTL

\* Unless the store refused a write, whatever the window shows is archived: the
\* frame is stored before it is emitted and the answer mirrored before the command
\* returns, and what is read at an opening comes from the archive (handle_data,
\* mirror_to_archive, openConversation).
THEOREM WindowShowsArchived == Spec => []ShownIsArchived
  <1>1. OutboxInv => ShownIsArchived
    BY DEF OutboxInv
  <1> QED  BY <1>1, OutboxIsInvariant, PTL

----------------------------------------------------------------------------
(* The realtime worker *)

Commands == Seq(Command)

\* A token has a worker exactly when it was verified, and the window hears of no
\* other.
WorkersInOrder ==
    /\ \A w \in Worker : w > slot <=> phase[w] = "none"
    /\ notice.by <= slot

\* The server refuses what it refuses, and without a session has granted nothing.
OnlyInSession ==
    \A w \in Worker :
        /\ rejected[w] \subseteq Denied
        /\ phase[w] # "live" => subs[w] = {} /\ rejected[w] = {}

\* A conversation is watched, or will be when the queue is drained, exactly when
\* the reader asked for it: the last command about it decides, and where there is
\* none, the watch set does.
Agrees(q, W, A, c) ==
    /\ (\A i \in DOMAIN q : q[i].conv # c) => (c \in A <=> c \in W)
    /\ \A i \in DOMAIN q :
         (q[i].conv = c /\ \A j \in DOMAIN q : j > i => q[j].conv # c)
            => (c \in A <=> q[i].op = "watch")

LastWordCounts ==
    \A w \in Worker, c \in Conv \ Denied :
        phase[w] # "gone" => Agrees(commands[w], watched[w], asked[w], c)

SocketInv ==
    /\ RealtimeTypeOK
    /\ WorkersInOrder
    /\ OnlyInSession
    /\ SubscribedIsWatched
    /\ LastWordCounts
    /\ NeverFalselyConnected

----------------------------------------------------------------------------
(* Queues of commands *)

LEMMA CommandSays ==
    ASSUME NEW cmd \in Command
    PROVE  /\ cmd.op \in {"watch", "unwatch", "typing"}
           /\ cmd.op = "typing" => cmd.conv \notin Conv
           /\ cmd.op # "typing" => cmd.conv \in Conv
  BY RealtimeAssumption DEF Command

\* One command more is the last word about its conversation.
LEMMA AgreesAfterAsking ==
    ASSUME NEW q \in Commands, NEW W, NEW A, NEW B, NEW c, Agrees(q, W, A, c),
           NEW cmd \in Command,
           cmd.conv # c => (c \in B <=> c \in A),
           cmd.conv = c => (c \in B <=> cmd.op = "watch")
    PROVE  Agrees(Append(q, cmd), W, B, c)
  <1> DEFINE p == Append(q, cmd)
  <1>1. /\ Len(q) \in Nat /\ DOMAIN q = 1..Len(q) /\ DOMAIN p = 1..(Len(q) + 1)
        /\ \A i \in DOMAIN q : p[i] = q[i]
        /\ p[Len(q) + 1] = cmd
    BY AppendProperties DEF Commands
  <1> HIDE DEF p
  <1>2. CASE cmd.conv = c
    <2>1. ~ \A i \in DOMAIN p : p[i].conv # c
      BY <1>1, <1>2
    <2>2. \A i \in DOMAIN p : (\A j \in DOMAIN p : j > i => p[j].conv # c) => i = Len(q) + 1
      BY <1>1, <1>2
    <2> QED  BY <1>1, <1>2, <2>1, <2>2 DEF Agrees, p
  <1>3. CASE cmd.conv # c
    <2>1. (\A i \in DOMAIN p : p[i].conv # c) => \A i \in DOMAIN q : q[i].conv # c
      BY <1>1
    <2>2. ASSUME NEW i \in DOMAIN p, p[i].conv = c,
                 \A j \in DOMAIN p : j > i => p[j].conv # c
          PROVE  /\ i \in DOMAIN q /\ q[i].conv = c /\ p[i] = q[i]
                 /\ \A j \in DOMAIN q : j > i => q[j].conv # c
      BY <1>1, <1>3, <2>2
    <2> QED  BY <1>3, <2>1, <2>2 DEF Agrees, p
  <1> QED  BY <1>2, <1>3

\* Taking the first command does to the watch set what it was promised to.
LEMMA AgreesAfterTaking ==
    ASSUME NEW q \in Commands, q # << >>, NEW W, NEW V, NEW A, NEW c, Agrees(q, W, A, c),
           Head(q).conv # c => (c \in V <=> c \in W),
           Head(q).conv = c => (c \in V <=> Head(q).op = "watch")
    PROVE  Agrees(Tail(q), V, A, c)
  <1> DEFINE p == Tail(q)
  <1>1. /\ Len(q) \in Nat /\ Len(q) > 0 /\ DOMAIN q = 1..Len(q)
        /\ DOMAIN p = 1..(Len(q) - 1)
        /\ \A i \in DOMAIN p : p[i] = q[i + 1]
        /\ Head(q) = q[1]
    BY DEF Commands
  <1> HIDE DEF p
  <1>2. \A i \in DOMAIN p : i + 1 \in DOMAIN q /\ i + 1 > 1
    BY <1>1
  <1>3. \A i \in DOMAIN q : i = 1 \/ (i - 1 \in DOMAIN p /\ p[i - 1] = q[i])
    BY <1>1
  <1>4. (\A i \in DOMAIN p : p[i].conv # c) => (c \in A <=> c \in V)
    <2> SUFFICES ASSUME \A i \in DOMAIN p : p[i].conv # c
                 PROVE  c \in A <=> c \in V
      OBVIOUS
    <2>1. \A j \in DOMAIN q : j # 1 => q[j].conv # c
      BY <1>3
    <2>2. CASE q[1].conv = c
      <3>1. 1 \in DOMAIN q /\ \A j \in DOMAIN q : j > 1 => q[j].conv # c
        BY <1>1, <2>1
      <3> QED  BY <1>1, <2>2, <3>1 DEF Agrees
    <2>3. CASE q[1].conv # c
      <3>1. \A j \in DOMAIN q : q[j].conv # c
        BY <2>1, <2>3
      <3> QED  BY <1>1, <2>3, <3>1 DEF Agrees
    <2> QED  BY <2>2, <2>3
  <1>5. ASSUME NEW i \in DOMAIN p, p[i].conv = c,
               \A j \in DOMAIN p : j > i => p[j].conv # c
        PROVE  c \in A <=> p[i].op = "watch"
    <2>1. q[i + 1].conv = c /\ i + 1 \in DOMAIN q /\ p[i] = q[i + 1]
      BY <1>1, <1>2, <1>5
    <2>2. \A j \in DOMAIN q : j > i + 1 => q[j].conv # c
      BY <1>1, <1>3, <1>5
    <2> QED  BY <2>1, <2>2 DEF Agrees
  <1> QED  BY <1>4, <1>5 DEF Agrees, p

----------------------------------------------------------------------------
(* Each step of the worker keeps it *)

LEMMA InitSocketInv ==
    ASSUME RealtimeInit
    PROVE  SocketInv
  <1>1. RealtimeTypeOK
    <2>1. commands \in [Worker -> Commands]
      BY EmptySeq DEF RealtimeInit, Commands
    <2> QED
      BY <2>1, RealtimeAssumption DEF RealtimeInit, RealtimeTypeOK, Commands,
                  Phases, Status
  <1>2. WorkersInOrder /\ OnlyInSession /\ SubscribedIsWatched
    BY RealtimeAssumption DEF RealtimeInit, WorkersInOrder, OnlyInSession, SubscribedIsWatched,
           Worker
  <1>3. LastWordCounts /\ NeverFalselyConnected
    BY DEF RealtimeInit, LastWordCounts, Agrees, NeverFalselyConnected
  <1> QED  BY <1>1, <1>2, <1>3 DEF SocketInv

\* The steps of the handle: a command is queued, nothing else changes.
LEMMA QueueKeeps ==
    ASSUME SocketInv, slot \in Worker, phase[slot] # "gone",
           NEW cs \in Commands, Queue(slot, cs),
           NEW A \in SUBSET Conv, asked' = [asked EXCEPT ![slot] = A],
           UNCHANGED <<slot, phase, sessionVars, notice>>,
           \A c \in Conv \ Denied :
              Agrees(commands[slot] \o cs, watched[slot], A, c)
    PROVE  SocketInv'
  <1>1. /\ commands \in [Worker -> Commands] /\ asked \in [Worker -> SUBSET Conv]
        /\ commands' = [commands EXCEPT ![slot] = commands[slot] \o cs]
        /\ UNCHANGED <<slot, phase, watched, subs, rejected, notice>>
    BY DEF SocketInv, RealtimeTypeOK, Commands, Queue, sessionVars
  <1>2. commands[slot] \o cs \in Commands
    BY <1>1, ConcatProperties DEF Commands
  <1>3. RealtimeTypeOK'
    <2>1. commands' \in [Worker -> Commands] /\ asked' \in [Worker -> SUBSET Conv]
      BY <1>1, <1>2
    <2> QED  BY <1>1, <2>1 DEF SocketInv, RealtimeTypeOK, Commands
  <1>4. WorkersInOrder' /\ OnlyInSession' /\ SubscribedIsWatched'
          /\ NeverFalselyConnected'
    BY <1>1 DEF SocketInv, WorkersInOrder, OnlyInSession, SubscribedIsWatched,
                NeverFalselyConnected
  <1>5. LastWordCounts'
    <2> SUFFICES ASSUME NEW w \in Worker, NEW c \in Conv \ Denied, phase[w] # "gone"
                 PROVE  Agrees(commands'[w], watched[w], asked'[w], c)
      BY <1>1 DEF LastWordCounts
    <2>1. CASE w = slot
      <3>1. commands'[w] = commands[slot] \o cs /\ asked'[w] = A
        BY <1>1, <2>1
      <3> QED  BY <2>1, <3>1
    <2>2. CASE w # slot
      <3>1. commands'[w] = commands[w] /\ asked'[w] = asked[w]
        BY <1>1, <2>2
      <3> QED  BY <3>1 DEF SocketInv, LastWordCounts
    <2> QED  BY <2>1, <2>2
  <1> QED  BY <1>3, <1>4, <1>5 DEF SocketInv

LEMMA QueuedOneByOne ==
    ASSUME NEW q \in Commands, NEW e \in Commands, NEW cmd \in Command
    PROVE  /\ e \o <<cmd>> \in Commands
           /\ q \o (e \o <<cmd>>) = Append(q \o e, cmd)
           /\ \A last \in Command : e = <<last>> => q \o e = Append(q, last)
  <1>1. <<cmd>> \in Commands /\ q \o e \in Commands
    BY ConcatProperties DEF Commands
  <1>2. (q \o e) \o <<cmd>> = q \o (e \o <<cmd>>)
    BY <1>1, ConcatAssociative DEF Commands
  <1>3. (q \o e) \o <<cmd>> = Append(q \o e, cmd)
    BY <1>1, AppendIsConcat DEF Commands
  <1>4. e \o <<cmd>> \in Commands
    BY <1>1, ConcatProperties DEF Commands
  <1>5. \A last \in Command : e = <<last>> => q \o e = Append(q, last)
    BY AppendIsConcat DEF Commands
  <1> QED  BY <1>2, <1>3, <1>4, <1>5

LEMMA OpenThreadKeeps ==
    ASSUME SocketInv,
           NEW c \in Conv, NEW previous \in Conv \cup {NoThread},
           OpenThread(c, previous)
    PROVE  SocketInv'
  <1> DEFINE q == commands[slot]
             e == Leave(c, previous)
             w == Watch(c)
             B == IF previous \in {NoThread, c} THEN asked[slot]
                                              ELSE asked[slot] \ {previous}
             A == (asked[slot] \ {previous}) \cup {c}
  <1>1. /\ slot \in Worker /\ phase[slot] # "gone"
        /\ Queue(slot, e \o <<w>>)
        /\ asked' = [asked EXCEPT ![slot] = A]
        /\ UNCHANGED <<slot, phase, sessionVars, notice>>
    BY RealtimeAssumption DEF OpenThread, SocketInv, RealtimeTypeOK, Worker
  <1>2. /\ q \in Commands /\ A \in SUBSET Conv
        /\ w \in Command /\ w.op = "watch" /\ w.conv = c
    BY <1>1 DEF SocketInv, RealtimeTypeOK, Commands, Watch, Command
  <1>3. \A k \in Conv \ Denied : Agrees(q, watched[slot], asked[slot], k)
    BY <1>1 DEF SocketInv, LastWordCounts
  <1>4. c \in A /\ \A k \in Conv : k # c => (k \in A <=> k \in B)
    BY RealtimeAssumption
  <1> HIDE DEF q, e, w, A
  <1>5. /\ e \in Commands /\ q \o e \in Commands
        /\ \A k \in Conv \ Denied : Agrees(q \o e, watched[slot], B, k)
    <2>1. CASE previous \in {NoThread, c}
      <3>1. e = << >> /\ B = asked[slot]
        BY <2>1 DEF Leave, e
      <3>2. e \in Commands /\ q \o e = q
        BY <3>1, <1>2, ConcatEmptySeq, EmptySeq DEF Commands
      <3> HIDE DEF B
      <3> QED  BY <3>1, <3>2, <1>2, <1>3
    <2>2. CASE previous \notin {NoThread, c}
      <3> DEFINE u == Unwatch(previous)
      <3>1. e = <<u>> /\ B = asked[slot] \ {previous}
        BY <2>2 DEF Leave, e
      <3>2. u \in Command /\ u.op = "unwatch" /\ u.conv = previous
        BY <2>2 DEF Unwatch, Command
      <3>3. previous \notin B /\ \A k : k # previous => (k \in B <=> k \in asked[slot])
        BY <3>1
      <3> HIDE DEF u, B
      <3>4. e \in Commands
        BY <3>1, <3>2 DEF Commands
      <3>5. q \o e = Append(q, u) /\ Append(q, u) \in Commands
        BY <1>2, <3>1, <3>2, <3>4, QueuedOneByOne, AppendProperties DEF Commands
      <3> QED  BY <1>2, <1>3, <3>2, <3>3, <3>4, <3>5, AgreesAfterAsking
    <2> QED  BY <2>1, <2>2
  <1> HIDE DEF B
  <1>6. e \o <<w>> \in Commands /\ q \o (e \o <<w>>) = Append(q \o e, w)
    BY <1>2, <1>5, QueuedOneByOne
  <1>7. \A k \in Conv \ Denied : Agrees(q \o (e \o <<w>>), watched[slot], A, k)
    <2> SUFFICES ASSUME NEW k \in Conv \ Denied
                 PROVE  Agrees(Append(q \o e, w), watched[slot], A, k)
      BY <1>6
    <2>1. /\ w.conv # k => (k \in A <=> k \in B)
          /\ w.conv = k => (k \in A <=> w.op = "watch")
      BY <1>2, <1>4
    <2>2. q \o e \in Commands /\ Agrees(q \o e, watched[slot], B, k)
      BY <1>5
    <2> QED  BY <1>2, <2>1, <2>2, AgreesAfterAsking
  <1> HIDE DEF Queue
  <1> QED  BY <1>1, <1>2, <1>6, <1>7, QueueKeeps DEF q

LEMMA SendTypingKeeps ==
    ASSUME SocketInv, SendTyping
    PROVE  SocketInv'
  <1> DEFINE q == commands[slot]
  <1>1. /\ slot \in Worker /\ phase[slot] # "gone"
        /\ Queue(slot, <<Typing>>)
        /\ UNCHANGED <<slot, phase, sessionVars, notice, asked>>
    BY RealtimeAssumption DEF SendTyping, SocketInv, RealtimeTypeOK, Worker
  <1>2. /\ q \in Commands /\ asked[slot] \in SUBSET Conv
        /\ asked' = [asked EXCEPT ![slot] = asked[slot]]
        /\ Typing \in Command
        /\ <<Typing>> \in Commands
    BY <1>1 DEF SocketInv, RealtimeTypeOK, Commands, Typing, Command
  <1>3. \A k \in Conv \ Denied : Agrees(q, watched[slot], asked[slot], k)
    BY <1>1 DEF SocketInv, LastWordCounts
  <1> HIDE DEF q
  <1>4. q \o <<Typing>> = Append(q, Typing)
    BY <1>2 DEF Commands
  <1>5. Typing.conv \notin Conv
    BY RealtimeAssumption DEF Typing
  <1>6. \A k \in Conv \ Denied : Agrees(Append(q, Typing), watched[slot], asked[slot], k)
    BY <1>2, <1>3, <1>5, AgreesAfterAsking
  <1>7. \A k \in Conv \ Denied :
           Agrees(commands[slot] \o <<Typing>>, watched[slot], asked[slot], k)
    BY <1>4, <1>6 DEF q
  <1>8. asked' = asked
    BY <1>1
  <1> HIDE DEF Queue
  <1> QED  BY <1>1, <1>2, <1>7, QueueKeeps

Speaks(w, p) ==
    \/ notice' = notice /\ phase[w] # "live"
    \/ /\ notice' \in [by : {w}, status : Status]
       /\ notice'.status = "connected" => p = "live"

\* The steps between connecting and waiting, which leave the queue and the watch
\* set alone.
LEMMA SessionKeeps ==
    ASSUME SocketInv, NEW w \in Worker, phase[w] \notin {"none", "gone"},
           NEW p \in Phases \ {"none", "gone"},
           NEW S \in SUBSET Conv, NEW R \in SUBSET Conv,
           phase' = [phase EXCEPT ![w] = p],
           subs' = [subs EXCEPT ![w] = S], rejected' = [rejected EXCEPT ![w] = R],
           UNCHANGED <<slot, commands, watched, asked>>,
           R \subseteq Denied,
           p # "live" => S = {} /\ R = {},
           p = "live" => /\ S = watched[w] \ Denied
                         /\ watched[w] \cap Denied \cap Groups \subseteq R,
           Speaks(w, p)
    PROVE  SocketInv'
  <1>1. /\ phase \in [Worker -> Phases] /\ slot \in 0..MaxWorkers
        /\ subs \in [Worker -> SUBSET Conv]
        /\ rejected \in [Worker -> SUBSET Conv]
        /\ commands \in [Worker -> Seq(Command)]
        /\ watched \in [Worker -> SUBSET Conv]
        /\ notice \in [by : 0..MaxWorkers, status : Status]
        /\ asked \in [Worker -> SUBSET Conv]
    BY DEF SocketInv, RealtimeTypeOK
  <1>2. ASSUME NEW v \in Worker
        PROVE  /\ v # w => /\ phase'[v] = phase[v] /\ subs'[v] = subs[v]
                           /\ rejected'[v] = rejected[v]
               /\ v = w => phase'[v] = p /\ subs'[v] = S /\ rejected'[v] = R
    BY <1>1
  <1>3. w \in 1..MaxWorkers /\ w <= slot
    BY <1>1 DEF SocketInv, WorkersInOrder, Worker
  <1>4. notice' \in [by : 0..MaxWorkers, status : Status]
    BY <1>1, <1>3 DEF Speaks
  <1>5. RealtimeTypeOK'
    <2>1. /\ phase' \in [Worker -> Phases]
          /\ subs' \in [Worker -> SUBSET Conv]
          /\ rejected' \in [Worker -> SUBSET Conv]
      BY <1>1
    <2> QED  BY <1>1, <1>4, <2>1 DEF RealtimeTypeOK
  <1>6. WorkersInOrder'
    <2>1. \A v \in Worker : v > slot <=> phase'[v] = "none"
      BY <1>2 DEF SocketInv, WorkersInOrder
    <2>2. notice'.by <= slot
      BY <1>3 DEF SocketInv, WorkersInOrder, Speaks
    <2> QED  BY <2>1, <2>2 DEF WorkersInOrder
  <1>7. OnlyInSession'
    BY <1>2 DEF SocketInv, OnlyInSession
  <1>8. SubscribedIsWatched'
    BY <1>2 DEF SocketInv, SubscribedIsWatched
  <1>9. LastWordCounts'
    BY <1>2 DEF SocketInv, LastWordCounts
  <1>10. NeverFalselyConnected'
    <2>1. CASE notice' = notice /\ phase[w] # "live"
      <3>1. notice.status = "connected" => phase[notice.by] = "live" \/ notice.by # slot
        BY DEF SocketInv, NeverFalselyConnected
      <3>2. CASE notice.by \in Worker
        BY <1>2, <2>1, <3>1, <3>2 DEF NeverFalselyConnected
      <3>3. CASE notice.by \notin Worker
        <4>1. notice.by # slot
          BY <1>1, <1>3, <3>3 DEF Worker
        <4> QED  BY <2>1, <4>1 DEF NeverFalselyConnected
      <3> QED  BY <3>2, <3>3
    <2>2. CASE /\ notice' \in [by : {w}, status : Status]
               /\ notice'.status = "connected" => p = "live"
      <3>1. notice'.by = w
        BY <2>2
      <3> QED  BY <1>2, <2>2, <3>1 DEF NeverFalselyConnected
    <2> QED  BY <2>1, <2>2 DEF Speaks
  <1> QED  BY <1>5, <1>6, <1>7, <1>8, <1>9, <1>10 DEF SocketInv

LEMMA SocketTypes ==
    ASSUME SocketInv
    PROVE  /\ phase \in [Worker -> Phases] /\ slot \in 0..MaxWorkers
           /\ subs \in [Worker -> SUBSET Conv]
           /\ rejected \in [Worker -> SUBSET Conv]
           /\ commands \in [Worker -> Commands]
           /\ watched \in [Worker -> SUBSET Conv]
           /\ notice \in [by : 0..MaxWorkers, status : Status]
           /\ asked \in [Worker -> SUBSET Conv]
  BY DEF SocketInv, RealtimeTypeOK, Commands

LEMMA ConnectingKeeps ==
    ASSUME SocketInv, NEW w \in Worker,
           Begin(w) \/ Connect(w) \/ Retry(w)
    PROVE  SocketInv'
  <1> DEFINE p == CASE phase[w] = "starting"   -> "connecting"
                    [] phase[w] = "connecting" -> "handshaking"
                    [] OTHER                   -> "starting"
  <1>1. /\ phase[w] \in {"starting", "connecting", "waiting"}
        /\ phase' = [phase EXCEPT ![w] = p]
        /\ UNCHANGED <<slot, commands, watched, subs, rejected, asked>>
    BY DEF Begin, Connect, Retry, sessionVars
  <1>2. Speaks(w, p)
    BY DEF Begin, Connect, Retry, Publish, Speaks, Status
  <1>3. subs[w] = {} /\ rejected[w] = {}
    BY <1>1 DEF SocketInv, OnlyInSession
  <1>4. subs' = [subs EXCEPT ![w] = {}] /\ rejected' = [rejected EXCEPT ![w] = {}]
    BY <1>1, <1>3, SocketTypes
  <1>5. p \in Phases \ {"none", "gone", "live"}
    BY DEF Phases
  <1> HIDE DEF p
  <1> QED  BY <1>1, <1>2, <1>4, <1>5, SessionKeeps

LEMMA HandshakeKeeps ==
    ASSUME SocketInv, NEW w \in Worker, Handshake(w)
    PROVE  SocketInv'
  <1> DEFINE S == watched[w] \ Denied
             R == watched[w] \cap Denied
  <1>1. /\ phase[w] = "handshaking" /\ phase' = [phase EXCEPT ![w] = "live"]
        /\ UNCHANGED <<slot, commands, watched, asked>>
        /\ notice' = [by |-> w, status |-> "connected"]
    BY DEF Handshake, StartSession, Publish
  <1>2. subs[w] = {} /\ rejected[w] = {}
    BY <1>1 DEF SocketInv, OnlyInSession
  <1>3. subs' = [subs EXCEPT ![w] = S] /\ rejected' = [rejected EXCEPT ![w] = R]
    BY <1>2, SocketTypes DEF Handshake, StartSession, Subscribe
  <1>4. /\ S \in SUBSET Conv /\ R \in SUBSET Conv /\ R \subseteq Denied
        /\ watched[w] \cap Denied \cap Groups \subseteq R
    BY SocketTypes
  <1>5. Speaks(w, "live")
    BY <1>1 DEF Speaks, Status
  <1>6. "live" \in Phases \ {"none", "gone"} /\ phase[w] \notin {"none", "gone"}
    BY <1>1 DEF Phases
  <1>7. S = watched[w] \ Denied
    OBVIOUS
  <1> HIDE DEF S, R
  <1> QED  BY <1>1, <1>3, <1>4, <1>5, <1>6, <1>7, SessionKeeps

LEMMA LostKeeps ==
    ASSUME SocketInv, NEW w \in Worker, Lost(w)
    PROVE  SocketInv'
  <1> DEFINE S == {}
             p == "waiting"
  <1>1. /\ phase[w] \notin {"none", "gone"}
        /\ phase' = [phase EXCEPT ![w] = p]
        /\ subs' = [subs EXCEPT ![w] = S] /\ rejected' = [rejected EXCEPT ![w] = S]
        /\ UNCHANGED <<slot, commands, watched, asked>>
        /\ notice' = [by |-> w, status |-> "disconnected"]
    BY DEF Lost, EndSession, Publish
  <1>2. Speaks(w, p)
    BY <1>1 DEF Speaks, Status
  <1>3. p \in Phases \ {"none", "gone"} /\ p # "live"
    BY DEF Phases
  <1>4. S \in SUBSET Conv /\ S \subseteq Denied /\ S = {}
    OBVIOUS
  <1> HIDE DEF S, p
  <1> QED  BY <1>1, <1>2, <1>3, <1>4, SessionKeeps

LEMMA RotateKeeps ==
    ASSUME SocketInv, Rotate
    PROVE  SocketInv'
  <1>1. /\ slot < MaxWorkers /\ slot' = slot + 1
        /\ phase' = [phase EXCEPT ![slot + 1] = "starting"]
        /\ UNCHANGED <<commands, watched, subs, rejected, notice, asked>>
    BY DEF Rotate, sessionVars
  <1>2. /\ phase \in [Worker -> Phases] /\ slot \in Nat /\ MaxWorkers \in Nat
        /\ slot + 1 \in Worker
        /\ \A w \in Worker : w \in Nat
        /\ notice.by \in Nat
    BY <1>1, SocketTypes, RealtimeAssumption DEF Worker
  <1>3. \A w \in Worker : w > slot <=> phase[w] = "none"
    BY DEF SocketInv, WorkersInOrder
  <1>4. phase[slot + 1] = "none"
    BY <1>2, <1>3
  <1>5. ASSUME NEW w \in Worker
        PROVE  /\ w # slot + 1 => phase'[w] = phase[w]
               /\ w = slot + 1 => phase'[w] = "starting"
    BY <1>1, <1>2
  <1>6. RealtimeTypeOK'
    <2>1. phase' \in [Worker -> Phases] /\ slot' \in 0..MaxWorkers
      BY <1>1, <1>2 DEF Phases
    <2> QED  BY <1>1, <2>1, SocketTypes DEF RealtimeTypeOK, Commands
  <1>7. WorkersInOrder'
    <2>1. ASSUME NEW w \in Worker
          PROVE  w > slot + 1 <=> phase'[w] = "none"
      <3>1. CASE w = slot + 1
        BY <1>2, <1>5, <3>1
      <3>2. CASE w # slot + 1
        <4>1. w > slot + 1 <=> w > slot
          BY <1>2, <3>2
        <4> QED  BY <1>3, <1>5, <3>2, <4>1
      <3> QED  BY <3>1, <3>2
    <2>2. notice.by <= slot + 1
      BY <1>2 DEF SocketInv, WorkersInOrder
    <2> QED  BY <1>1, <2>1, <2>2 DEF WorkersInOrder
  <1>8. OnlyInSession' /\ SubscribedIsWatched'
    BY <1>1, <1>4, <1>5 DEF SocketInv, OnlyInSession, SubscribedIsWatched
  <1>9. LastWordCounts'
    BY <1>1, <1>4, <1>5 DEF SocketInv, LastWordCounts
  <1>10. NeverFalselyConnected'
    <2>1. notice.by <= slot
      BY DEF SocketInv, WorkersInOrder
    <2>2. notice.by # slot'
      BY <1>1, <1>2, <2>1
    <2> QED  BY <1>1, <2>2 DEF NeverFalselyConnected
  <1> QED  BY <1>6, <1>7, <1>8, <1>9, <1>10 DEF SocketInv

\* A worker that returns leaves nothing behind; what the window last heard stays,
\* unless it says that it was refused.
LEMMA StopKeeps ==
    ASSUME SocketInv, NEW w \in Worker, phase[w] # "none", Stop(w),
           \/ notice' = notice /\ slot # w
           \/ notice' = [by |-> w, status |-> "unauthorized"]
    PROVE  SocketInv'
  <1>1. /\ phase' = [phase EXCEPT ![w] = "gone"]
        /\ commands' = [commands EXCEPT ![w] = << >>]
        /\ watched' = [watched EXCEPT ![w] = {}] /\ subs' = [subs EXCEPT ![w] = {}]
        /\ rejected' = [rejected EXCEPT ![w] = {}] /\ asked' = [asked EXCEPT ![w] = {}]
        /\ slot' = slot
    BY DEF Stop
  <1>2. ASSUME NEW v \in Worker
        PROVE  /\ v # w => /\ phase'[v] = phase[v] /\ commands'[v] = commands[v]
                           /\ watched'[v] = watched[v] /\ subs'[v] = subs[v]
                           /\ rejected'[v] = rejected[v] /\ asked'[v] = asked[v]
               /\ v = w => /\ phase'[v] = "gone" /\ watched'[v] = {} /\ subs'[v] = {}
                           /\ rejected'[v] = {}
    BY <1>1, SocketTypes
  <1>3. w \in 1..MaxWorkers /\ slot \in 0..MaxWorkers /\ w <= slot
    BY SocketTypes DEF SocketInv, WorkersInOrder, Worker
  <1>4. RealtimeTypeOK'
    <2>1. << >> \in Commands
      BY EmptySeq DEF Commands
    <2>2. /\ phase' \in [Worker -> Phases]
          /\ commands' \in [Worker -> Commands]
          /\ watched' \in [Worker -> SUBSET Conv]
          /\ subs' \in [Worker -> SUBSET Conv]
          /\ rejected' \in [Worker -> SUBSET Conv]
          /\ asked' \in [Worker -> SUBSET Conv]
      BY <1>1, <2>1, SocketTypes DEF Phases
    <2>3. notice' \in [by : 0..MaxWorkers, status : Status]
      BY <1>3, SocketTypes DEF Status
    <2> QED  BY <1>1, <1>3, <2>2, <2>3 DEF RealtimeTypeOK, Commands
  <1>5. WorkersInOrder'
    <2>1. \A v \in Worker : v > slot <=> phase'[v] = "none"
      BY <1>2 DEF SocketInv, WorkersInOrder
    <2>2. notice'.by <= slot
      BY <1>3 DEF SocketInv, WorkersInOrder
    <2> QED  BY <1>1, <2>1, <2>2 DEF WorkersInOrder
  <1>6. OnlyInSession' /\ SubscribedIsWatched'
    BY <1>2 DEF SocketInv, OnlyInSession, SubscribedIsWatched
  <1>7. LastWordCounts'
    BY <1>2 DEF SocketInv, LastWordCounts
  <1>8. NeverFalselyConnected'
    <2>1. CASE notice' = notice /\ slot # w
      <3>1. notice.status = "connected" => phase[notice.by] = "live" \/ notice.by # slot
        BY DEF SocketInv, NeverFalselyConnected
      <3>2. notice.by = slot => phase'[notice.by] = phase[notice.by]
        BY <1>1, <2>1, SocketTypes
      <3> QED  BY <1>1, <2>1, <3>1, <3>2 DEF NeverFalselyConnected
    <2>2. CASE notice' = [by |-> w, status |-> "unauthorized"]
      BY <2>2 DEF NeverFalselyConnected
    <2> QED  BY <2>1, <2>2
  <1> QED  BY <1>4, <1>5, <1>6, <1>7, <1>8 DEF SocketInv

\* The steps of a worker with its queue and its watch set.
LEMMA WatchingKeeps ==
    ASSUME SocketInv, NEW w \in Worker, phase[w] # "gone",
           NEW q \in Commands,
           NEW W \in SUBSET Conv, NEW S \in SUBSET Conv, NEW R \in SUBSET Conv,
           commands' = [commands EXCEPT ![w] = q], watched' = [watched EXCEPT ![w] = W],
           subs' = [subs EXCEPT ![w] = S], rejected' = [rejected EXCEPT ![w] = R],
           UNCHANGED <<slot, phase, notice, asked>>,
           R \subseteq Denied,
           phase[w] # "live" => S = {} /\ R = {},
           phase[w] = "live" => /\ S = W \ Denied
                                /\ W \cap Denied \cap Groups \subseteq R,
           \A c \in Conv \ Denied : Agrees(q, W, asked[w], c)
    PROVE  SocketInv'
  <1>1. ASSUME NEW v \in Worker
        PROVE  /\ v # w => /\ commands'[v] = commands[v] /\ watched'[v] = watched[v]
                           /\ subs'[v] = subs[v] /\ rejected'[v] = rejected[v]
               /\ v = w => /\ commands'[v] = q /\ watched'[v] = W
                           /\ subs'[v] = S /\ rejected'[v] = R
    BY SocketTypes
  <1>2. RealtimeTypeOK'
    <2>1. /\ commands' \in [Worker -> Commands]
          /\ watched' \in [Worker -> SUBSET Conv]
          /\ subs' \in [Worker -> SUBSET Conv]
          /\ rejected' \in [Worker -> SUBSET Conv]
      BY SocketTypes
    <2> QED  BY <2>1, SocketTypes DEF RealtimeTypeOK, Commands
  <1>3. WorkersInOrder' /\ NeverFalselyConnected'
    BY DEF SocketInv, WorkersInOrder, NeverFalselyConnected
  <1>4. OnlyInSession' /\ SubscribedIsWatched'
    BY <1>1 DEF SocketInv, OnlyInSession, SubscribedIsWatched
  <1>5. LastWordCounts'
    BY <1>1 DEF SocketInv, LastWordCounts
  <1> QED  BY <1>2, <1>3, <1>4, <1>5 DEF SocketInv

LEMMA ReadRefusalKeeps ==
    ASSUME SocketInv, NEW w \in Worker, ReadRefusal(w)
    PROVE  SocketInv'
  <1>1. PICK c \in rejected[w] :
           /\ rejected' = [rejected EXCEPT ![w] = rejected[w] \ {c}]
           /\ watched' = [watched EXCEPT ![w] = watched[w] \ NamedByChannel(c)]
    BY SocketTypes DEF ReadRefusal
  <1> DEFINE W == watched[w] \ NamedByChannel(c)
             R == rejected[w] \ {c}
  <1>2. /\ phase[w] = "live"
        /\ UNCHANGED <<slot, phase, commands, subs, notice, asked>>
    BY DEF ReadRefusal
  <1>3. /\ rejected[w] \in SUBSET Conv /\ rejected[w] \subseteq Denied
        /\ watched[w] \in SUBSET Conv /\ subs[w] \in SUBSET Conv
        /\ commands[w] \in Commands
        /\ subs[w] = watched[w] \ Denied
        /\ watched[w] \cap Denied \cap Groups \subseteq rejected[w]
    BY <1>2, SocketTypes DEF SocketInv, OnlyInSession, SubscribedIsWatched
  <1>4. /\ W \in SUBSET Conv /\ R \in SUBSET Conv /\ R \subseteq Denied
        /\ subs[w] = W \ Denied /\ W \cap Denied \cap Groups \subseteq R
        /\ \A k \in Conv \ Denied : k \in W <=> k \in watched[w]
    BY <1>3 DEF NamedByChannel
  <1>5. \A k \in Conv \ Denied : Agrees(commands[w], W, asked[w], k)
    BY <1>2, <1>4 DEF SocketInv, LastWordCounts, Agrees
  <1>6. /\ commands' = [commands EXCEPT ![w] = commands[w]]
        /\ subs' = [subs EXCEPT ![w] = subs[w]]
    BY <1>2, SocketTypes
  <1>7. watched' = [watched EXCEPT ![w] = W] /\ rejected' = [rejected EXCEPT ![w] = R]
    BY <1>1
  <1> HIDE DEF W, R
  <1> QED  BY <1>2, <1>3, <1>4, <1>5, <1>6, <1>7, WatchingKeeps

\* A command is taken, with a socket or without: the watch set follows it, and
\* with a socket the server does.
LEMMA TakeCommandKeeps ==
    ASSUME SocketInv, NEW w \in Worker,
           TakeCommand(w)
    PROVE  SocketInv'
  <1> DEFINE cmd == Head(commands[w])
             q == Tail(commands[w])
             W == CASE cmd.op = "watch"   -> watched[w] \cup {cmd.conv}
                    [] cmd.op = "unwatch" -> watched[w] \ {cmd.conv}
                    [] OTHER              -> watched[w]
             S == IF phase[w] = "live" THEN W \ Denied ELSE {}
             new == IF phase[w] = "live" /\ cmd.op = "watch" /\ cmd.conv \notin watched[w]
                    THEN {cmd.conv} \cap Denied ELSE {}
             R == rejected[w] \cup new
  <1>1. /\ phase[w] \in {"live", "waiting"} /\ commands[w] # << >>
        /\ commands' = [commands EXCEPT ![w] = q]
        /\ UNCHANGED <<slot, phase, notice, asked>>
    BY SocketTypes DEF TakeCommand
  <1>2. cmd \in Command /\ q \in Commands
    BY <1>1, SocketTypes, HeadTailProperties DEF Commands
  <1>3. /\ watched[w] \in SUBSET Conv /\ subs[w] \in SUBSET Conv
        /\ rejected[w] \in SUBSET Conv /\ rejected[w] \subseteq Denied
        /\ phase[w] # "live" => subs[w] = {} /\ rejected[w] = {}
        /\ phase[w] = "live" =>
              /\ subs[w] = watched[w] \ Denied
              /\ watched[w] \cap Denied \cap Groups \subseteq rejected[w]
    BY SocketTypes DEF SocketInv, OnlyInSession, SubscribedIsWatched
  <1>4. /\ cmd.op \in {"watch", "unwatch", "typing"}
        /\ cmd.op = "typing" => cmd.conv \notin Conv
        /\ cmd.op # "typing" => cmd.conv \in Conv
    BY <1>2, CommandSays
  <1>5. IF phase[w] = "live" THEN Obey(w, cmd) ELSE Note(w, cmd)
    BY DEF TakeCommand
  <1> HIDE DEF cmd, q
  <1>6. \A k \in Conv \ Denied : Agrees(q, W, asked[w], k)
    <2> SUFFICES ASSUME NEW k \in Conv \ Denied
                 PROVE  Agrees(q, W, asked[w], k)
      OBVIOUS
    <2>1. Agrees(commands[w], watched[w], asked[w], k) /\ commands[w] \in Commands
      BY <1>1, SocketTypes DEF SocketInv, LastWordCounts
    <2>2. /\ cmd.conv # k => (k \in W <=> k \in watched[w])
          /\ cmd.conv = k => (k \in W <=> cmd.op = "watch")
      BY <1>4
    <2> HIDE DEF W
    <2> QED  BY <1>1, <2>1, <2>2, AgreesAfterTaking DEF cmd, q
  <1>7. /\ W \in SUBSET Conv /\ S \in SUBSET Conv /\ R \in SUBSET Conv /\ R \subseteq Denied
        /\ phase[w] # "live" => S = {} /\ R = {}
        /\ phase[w] = "live" => S = W \ Denied /\ W \cap Denied \cap Groups \subseteq R
    <2>1. W \in SUBSET Conv /\ new \in SUBSET Conv /\ new \subseteq Denied
      BY <1>3, <1>4
    <2>2. phase[w] # "live" => new = {}
      OBVIOUS
    <2>3. phase[w] = "live" => W \cap Denied \cap Groups \subseteq R
      BY <1>3, <1>4
    <2> HIDE DEF W, new
    <2> QED  BY <1>3, <2>1, <2>2, <2>3
  <1>8. /\ watched' = [watched EXCEPT ![w] = W]
        /\ subs' = [subs EXCEPT ![w] = S] /\ rejected' = [rejected EXCEPT ![w] = R]
    <2>1. CASE phase[w] # "live"
      <3>1. /\ watched' = [watched EXCEPT ![w] = W] /\ UNCHANGED <<subs, rejected>>
        BY <1>5, <2>1, SocketTypes DEF Note
      <3>2. S = subs[w] /\ R = rejected[w]
        BY <1>3, <2>1
      <3> HIDE DEF S, R
      <3> QED  BY <3>1, <3>2, SocketTypes
    <2>2. CASE phase[w] = "live" /\ cmd.op = "watch"
      <3>1. watched' = [watched EXCEPT ![w] = W]
        BY <1>5, <2>2, SocketTypes DEF Obey
      <3>2. CASE cmd.conv \in watched[w]
        <4>1. UNCHANGED <<subs, rejected>>
          BY <1>5, <2>2, <3>2 DEF Obey
        <4>2. S = subs[w] /\ R = rejected[w]
          BY <1>3, <2>2, <3>2
        <4> HIDE DEF S, R
        <4> QED  BY <3>1, <4>1, <4>2, SocketTypes
      <3>3. CASE cmd.conv \notin watched[w]
        <4>1. /\ subs' = [subs EXCEPT ![w] = subs[w] \cup ({cmd.conv} \ Denied)]
              /\ rejected' = [rejected EXCEPT ![w] = rejected[w] \cup ({cmd.conv} \cap Denied)]
          BY <1>5, <2>2, <3>3, SocketTypes DEF Obey, Subscribe
        <4>2. /\ S = subs[w] \cup ({cmd.conv} \ Denied)
              /\ R = rejected[w] \cup ({cmd.conv} \cap Denied)
          BY <1>3, <2>2, <3>3
        <4> HIDE DEF S, R
        <4> QED  BY <3>1, <4>1, <4>2
      <3> QED  BY <3>2, <3>3
    <2>3. CASE phase[w] = "live" /\ cmd.op = "unwatch"
      <3>1. /\ watched' = [watched EXCEPT ![w] = W]
            /\ subs' = [subs EXCEPT ![w] = IF cmd.conv \in watched[w]
                                           THEN subs[w] \ {cmd.conv} ELSE subs[w]]
            /\ rejected' = rejected
        BY <1>5, <2>3, SocketTypes DEF Obey
      <3>2. /\ S = IF cmd.conv \in watched[w] THEN subs[w] \ {cmd.conv} ELSE subs[w]
            /\ R = rejected[w]
        BY <1>3, <2>3
      <3> HIDE DEF S, R
      <3> QED  BY <3>1, <3>2, SocketTypes
    <2>4. CASE phase[w] = "live" /\ cmd.op = "typing"
      <3>1. UNCHANGED <<watched, subs, rejected>>
        BY <1>5, <2>4 DEF Obey, sessionVars
      <3>2. W = watched[w] /\ S = subs[w] /\ R = rejected[w]
        BY <1>3, <2>4
      <3> HIDE DEF W, S, R
      <3> QED  BY <3>1, <3>2, SocketTypes
    <2> QED  BY <1>1, <1>4, <2>1, <2>2, <2>3, <2>4
  <1> HIDE DEF W, S, R
  <1> QED  BY <1>1, <1>2, <1>6, <1>7, <1>8, WatchingKeeps

LEMMA NextSocketInv ==
    ASSUME SocketInv, [RealtimeNext]_realtimeVars
    PROVE  SocketInv'
  <1>1. CASE UNCHANGED realtimeVars
    <2>1. UNCHANGED <<slot, phase, commands, watched, subs, rejected, notice, asked>>
      BY <1>1 DEF realtimeVars, sessionVars
    <2>2. RealtimeTypeOK' /\ SubscribedIsWatched' /\ NeverFalselyConnected'
      BY <2>1 DEF SocketInv, RealtimeTypeOK, SubscribedIsWatched,
                  NeverFalselyConnected
    <2>3. WorkersInOrder' /\ OnlyInSession' /\ LastWordCounts'
      BY <2>1 DEF SocketInv, WorkersInOrder, OnlyInSession, LastWordCounts
    <2> QED  BY <2>2, <2>3 DEF SocketInv
  <1>2. ASSUME NEW c \in Conv, NEW previous \in Conv \cup {NoThread},
               OpenThread(c, previous)
        PROVE  SocketInv'
    BY <1>2, OpenThreadKeeps
  <1>3. CASE SendTyping
    BY <1>3, SendTypingKeeps
  <1>4. CASE Rotate
    BY <1>4, RotateKeeps
  <1>5. ASSUME NEW w \in Worker,
               \/ Begin(w) \/ Connect(w) \/ Handshake(w)
               \/ Unauthorized(w) \/ Lost(w) \/ ReadRefusal(w)
               \/ TakeCommand(w) \/ HangUp(w) \/ Retry(w)
        PROVE  SocketInv'
    <2>1. CASE Begin(w) \/ Connect(w) \/ Retry(w)
      BY <2>1, ConnectingKeeps
    <2>2. CASE Handshake(w)
      BY <2>2, HandshakeKeeps
    <2>3. CASE Unauthorized(w)
      BY <2>3, StopKeeps DEF Unauthorized, Publish
    <2>4. CASE Lost(w)
      BY <2>4, LostKeeps
    <2>5. CASE ReadRefusal(w)
      BY <2>5, ReadRefusalKeeps
    <2>6. CASE TakeCommand(w)
      BY <2>6, TakeCommandKeeps
    <2>7. CASE HangUp(w)
      BY <2>7, StopKeeps DEF HangUp
    <2> QED  BY <1>5, <2>1, <2>2, <2>3, <2>4, <2>5, <2>6, <2>7
  <1> QED  BY <1>1, <1>2, <1>3, <1>4, <1>5 DEF RealtimeNext

LEMMA SocketInvariant ==
    RealtimeSpec => []SocketInv
  <1>1. RealtimeInit => SocketInv
    BY InitSocketInv
  <1>2. SocketInv /\ [RealtimeNext]_realtimeVars => SocketInv'
    BY NextSocketInv
  <1> QED  BY <1>1, <1>2, PTL DEF RealtimeSpec

----------------------------------------------------------------------------
(* What the worker promises *)

\* The types of the slot, its workers and their commands.
THEOREM RealtimeTypeCorrect ==
    RealtimeSpec => []RealtimeTypeOK
  <1>1. SocketInv => RealtimeTypeOK
    BY DEF SocketInv
  <1> QED  BY <1>1, SocketInvariant, PTL

\* Whatever the order of commands, lost sockets and refusals, for any number of
\* workers and conversations: a session is subscribed to what its worker watches
\* less what the server refuses, and a worker that has taken every command watches
\* what its handle was last asked to, wherever it stood when the commands came
\* (session replays the watch set after every handshake, handle_text reads the
\* refusals, wait_out_backoff takes commands without a socket).
THEOREM ReaderIsServedThroughout ==
    RealtimeSpec => []ReaderIsServed
  <1>1. SocketInv => SubscribedIsWatched
    BY DEF SocketInv
  <1>2. SocketInv => AskedIsWatched
    <2> SUFFICES ASSUME SocketInv, NEW w \in Worker, phase[w] # "gone",
                        commands[w] = << >>
                 PROVE  watched[w] \ Denied = asked[w] \ Denied
      BY DEF AskedIsWatched
    <2>1. watched[w] \in SUBSET Conv /\ asked[w] \in SUBSET Conv
      BY SocketTypes
    <2>2. \A c \in Conv \ Denied : c \in asked[w] <=> c \in watched[w]
      BY DEF SocketInv, LastWordCounts, Agrees
    <2> QED  BY <2>1, <2>2
  <1>3. SocketInv => ReaderIsServed
    BY <1>1, <1>2 DEF ReaderIsServed
  <1> QED  BY <1>3, SocketInvariant, PTL

\* The window reads Connected only while the worker of the slot has a socket, or
\* heard it from a worker since replaced (publish_state before and after each
\* session).
THEOREM NeverSaidFalsely ==
    RealtimeSpec => []NeverFalselyConnected
  <1>1. SocketInv => NeverFalselyConnected
    BY DEF SocketInv
  <1> QED  BY <1>1, SocketInvariant, PTL
=============================================================================
