------------------------------ MODULE MCUpdater ------------------------------
(* Two releases after the installed one, three clicks, two ends of the process. *)
EXTENDS Updater
=============================================================================
