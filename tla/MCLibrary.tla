----------------------------- MODULE MCLibrary -----------------------------
(* Small instances of Library for TLC. *)
EXTENDS Library

CONSTANTS g, h, d

\* Two groups and a direct message.
TwoGroups == {g, h}
OneChat   == {d}
=============================================================================
