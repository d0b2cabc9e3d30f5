------------------------------- MODULE MCMedia -------------------------------
(* Small instances of Media for TLC. *)
EXTENDS Media

CONSTANT p

\* An avatar, and the attachments of two messages.
OneAvatar      == {p}
TwoAttachments == {1, 2}
Older          == {1}
=============================================================================
