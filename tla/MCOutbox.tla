------------------------------ MODULE MCOutbox ------------------------------
(* Small instances of Outbox for TLC. *)
EXTENDS Outbox

\* A group, and a direct message with a person whose id is the lower one.
Both  == {3, 1}
OneDm == {1}
=============================================================================
