---------------------------- MODULE MCStatistics ----------------------------
(***************************************************************************)
(* A group of two people and the chat with one of them.  In the group: a   *)
(* post and a bot's on one day, then a kick, a leaving and the deletion of *)
(* the post on the next; a post in the chat and the deletion of it.        *)
(***************************************************************************)
EXTENDS Statistics

MCConvOf   == <<"g", "g", "g", "g", "g", "d", "d">>
MCDayOf    == <<1, 1, 2, 2, 2, 1, 1>>
MCKindOf   == <<"post", "bot", "kick", "leave", "deleted", "post", "deleted">>
MCAbout    == <<"a", "bot", "b", "a", "a", "a", "a">>
MCTargetOf == <<1, 1, 1, 1, 1, 6, 6>>
MCNameOf   == <<"then", "now", "now", "now", "now", "now", "now">>
MCRosters  == {{"a"}, {"a", "b"}}
=============================================================================
