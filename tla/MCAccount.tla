----------------------------- MODULE MCAccount -----------------------------
(* A small instance of Account for TLC: two tokens of one person, one of   *)
(* another, one that GroupMe refuses.                                      *)
EXTENDS Account, TLC

CONSTANTS alice, bob, a1, a2, b, forged

FourTokens == {a1, a2, b, forged}
TwoPeople == {alice, bob}
WhoseToken == (a1 :> alice @@ a2 :> alice @@ b :> bob @@ forged :> None)

\* One good token.
OneToken == {a1}
OneOwner == (a1 :> alice)
=============================================================================
