----------------------------- MODULE MCRealtime -----------------------------
(* Small instances of Realtime for TLC. *)
EXTENDS Realtime

CONSTANTS d, r, nobody

\* A direct message, and a group the server refuses.
Both == {d, r}
OnlyGroups == {r}
RefusedGroup == {r}
=============================================================================
