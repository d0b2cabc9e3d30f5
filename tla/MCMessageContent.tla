-------------------------- MODULE MCMessageContent --------------------------
(* Small instances of MessageContent for TLC. *)
EXTENDS MessageContent

\* The target is all there is; a new day begins with the fourth message.
OnePost == <<"post">>
TwoDays == [p \in 1 .. MaxSent |-> IF p < 4 THEN 1 ELSE 2]
=============================================================================
