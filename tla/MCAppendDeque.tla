----------------------------- MODULE MCAppendDeque ----------------------------
(* A small instance of AppendDeque for TLC: two writers, or one whose      *)
(* allocations may fail and a thread that moves an iterator.               *)
EXTENDS AppendDeque, TLC

CONSTANTS w1, w2, r1

MCCasts ==
    {[writers |-> {w1, w2}, iterators |-> {}, maxFailures |-> 0]}
    \cup [writers : {{w1}, {w2}}, iterators : {{r1}}, maxFailures : {1}]
MCSymmetry == Permutations({w1, w2})

=============================================================================
