------------------------------ MODULE Archive ------------------------------
(***************************************************************************)
(* What the archive promises about one account's conversations, without a  *)
(* word on how it is filled.                                               *)
(*                                                                         *)
(* Rows arrive in any order and are never dropped.  Beside them the        *)
(* archive keeps, per conversation, a claim: a window of messages it says  *)
(* it holds without a hole, and a seal that says the window reaches back   *)
(* to the first message.  A claim is only ever made about rows that are    *)
(* already there, only ever grows, and is never withdrawn.                 *)
(***************************************************************************)
EXTENDS Integers

CONSTANTS
    Conv,         \* the conversations
    InitialSent   \* messages each holds when the archive is made

VARIABLES
    sent,     \* sent[c] messages exist in c, numbered 1..sent[c]
    held,     \* held[c]: the messages of c that have a row
    window,   \* window[c]: the run of messages claimed, NoWindow if none
    sealed    \* sealed[c]: the window is claimed to be the whole past

vars == <<sent, held, window, sealed>>

NoWindow == [lo |-> 0, hi |-> 0]

Init ==
    /\ sent = InitialSent
    /\ held = [c \in Conv |-> {}]
    /\ window = [c \in Conv |-> NoWindow]
    /\ sealed = [c \in Conv |-> FALSE]

Send(c) ==
    /\ sent' = [sent EXCEPT ![c] = @ + 1]
    /\ UNCHANGED <<held, window, sealed>>

Hold(c) ==
    /\ \E M \in SUBSET (1 .. sent[c]) : held' = [held EXCEPT ![c] = @ \cup M]
    /\ UNCHANGED <<sent, window, sealed>>

\* The claim grows at either end, over rows that are held.
Widen(c) ==
    /\ \E lo, hi \in 1 .. sent[c] :
        /\ lo .. hi \subseteq held[c]
        /\ lo <= hi
        /\ window[c] = NoWindow => ~sealed[c]
        /\ window[c] # NoWindow => lo <= window[c].lo /\ window[c].hi <= hi
        /\ window' = [window EXCEPT ![c] = [lo |-> lo, hi |-> hi]]
    /\ UNCHANGED <<sent, held, sealed>>

Seal(c) ==
    /\ window[c].lo = 1
    /\ sealed' = [sealed EXCEPT ![c] = TRUE]
    /\ UNCHANGED <<sent, held, window>>

Next == \E c \in Conv : Send(c) \/ Hold(c) \/ Widen(c) \/ Seal(c)

Spec == Init /\ [][Next]_vars
=============================================================================
