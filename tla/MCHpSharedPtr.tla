----------------------------- MODULE MCHpSharedPtr ----------------------------
(* A small instance of HpSharedPtr for TLC.                                *)
EXTENDS HpSharedPtr, TLC

CONSTANTS a, b, x1, x2

MCThreads == {a, b}
MCObjects == {x1, x2}
MCSymmetry == Permutations(MCObjects)

(* A thread that loads against one that publishes, withdraws and reuses.   *)
MCLoadCalls == (a :> {"load", "copy"}) @@ (b :> {"make", "store", "walk"})

(* Two threads that exchange.                                              *)
MCExchangeCalls == (a :> {"make", "strong"}) @@ (b :> {"load", "weak"})
MCPlans == {MCLoadCalls, MCExchangeCalls}

=============================================================================
