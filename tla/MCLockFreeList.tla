---------------------------- MODULE MCLockFreeList ----------------------------
(* A small instance of LockFreeList for TLC.                               *)
EXTENDS LockFreeList

CONSTANTS a, b

MCThreads == {a, b}

\* Two erasers, one of which inserts too, on a marking list; the uses that are left
\* to a list without marking: a single eraser beside an inserter, and two inserters;
\* and, with fewer nodes at a time, lists that erase and insert for ever.
MCUses ==
    {[marking |-> TRUE, inserters |-> {a}, erasers |-> {a, b}, limit |-> 3, reuse |-> FALSE],
     [marking |-> FALSE, inserters |-> {b}, erasers |-> {a}, limit |-> 3, reuse |-> FALSE],
     [marking |-> FALSE, inserters |-> {a, b}, erasers |-> {}, limit |-> 3, reuse |-> FALSE],
     [marking |-> TRUE, inserters |-> {a}, erasers |-> {a, b}, limit |-> 2, reuse |-> TRUE],
     [marking |-> FALSE, inserters |-> {b}, erasers |-> {a}, limit |-> 2, reuse |-> TRUE]}

=============================================================================
