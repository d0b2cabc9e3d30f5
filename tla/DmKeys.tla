------------------------------- MODULE DmKeys -------------------------------
(***************************************************************************)
(* The keys of a direct message.  The archive and the reader name it by    *)
(* the other person's id; frames, reactions and channels name it by the    *)
(* thread key, both ids in numerical order (dm_conversation_id in          *)
(* realtime.rs and dm_thread_key in client_commands.rs, which agree).      *)
(* Both forms reach most operations, and a stored one cannot be told from  *)
(* the id of a group.                                                      *)
(*                                                                         *)
(* An id is a number, as id_sort_key reads it; a key is the sequence of    *)
(* the ids in it.                                                          *)
(***************************************************************************)
EXTENDS Integers, Sequences

None == << >>

Stored(id) == <<id>>

ThreadKey(a, b) == IF a <= b THEN <<a, b>> ELSE <<b, a>>

IsThreadKey(key) == Len(key) = 2

\* dm_recipient, for an account that is known: the person a message goes to,
\* or None rather than a guess.
Recipient(key, me) ==
    IF ~IsThreadKey(key) THEN Stored(key[1])
    ELSE IF key[1] = me THEN Stored(key[2])
    ELSE IF key[2] = me THEN Stored(key[1])
    ELSE None

\* resolve_reaction_conversation: the kind is the one the archive has.
ReactionKey(key, kind, me) ==
    IF IsThreadKey(key) \/ kind # "dm" THEN key ELSE ThreadKey(me, key[1])

\* conversation_channel.
Channel(key, kind, me) ==
    [kind |-> kind,
     key |-> IF kind = "group" \/ IsThreadKey(key) THEN key
             ELSE ThreadKey(me, key[1])]

\* conversation_of_channel: the inverse, as far as the channel tells.
OfChannel(channel) == channel.key
=============================================================================
