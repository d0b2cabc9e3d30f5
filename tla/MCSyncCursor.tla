---------------------------- MODULE MCSyncCursor ----------------------------
(* Small instances of SyncCursor for TLC. *)
EXTENDS SyncCursor, TLC

CONSTANT c1

\* The conversation already holds messages when the archive is made.
OneConv    == {c1}
OneInitial == (c1 :> 3)

\* A conversation nobody has posted to yet.
EmptyInitial == (c1 :> 0)
=============================================================================
