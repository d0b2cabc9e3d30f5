---------------------------- MODULE MCSyncCycle ----------------------------
(* Small instances of SyncCycle for TLC. *)
EXTENDS SyncCycle, TLC

CONSTANTS g, d

\* A group with history and a direct message with one message.
GroupAndDm == {g, d}
OnlyGroups == {g}
TwoInitial == (g :> 2 @@ d :> 1)
=============================================================================
