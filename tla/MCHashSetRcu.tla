---------------------------- MODULE MCHashSetRcu ----------------------------
(***************************************************************************)
(* A small instance of HashSetRcu.  Hashes 0 and 1 share the bucket of a   *)
(* table of one and part at the first doubling; 3 parts from 1 at the      *)
(* second.                                                                 *)
(***************************************************************************)
EXTENDS HashSetRcu, TLC

CONSTANTS t1, t2, t3

MCThreads == {t1, t2, t3}
NodeSymmetry == Permutations(Nodes)

Of(i, j, k) == (t1 :> i @@ t2 :> j @@ t3 :> k)
Part == (1 :> 0 @@ 2 :> 1 @@ 3 :> 0)
Collide == (1 :> 1 @@ 2 :> 3 @@ 3 :> 0)
Deep == (1 :> 0 @@ 2 :> 3 @@ 3 :> 0)
Updates == {"insert", "erase"}

\* Two erasers and advance() in one chain; updates of two keys that part at a
\* doubling; a reader with stale sizes beside an inserter; two doublings with
\* copies that throw; an inserter, an eraser and a reader across a doubling;
\* a split whose parent is not split yet, beside an inserter.
MCPlans ==
    {[keys |-> {1, 2}, hash |-> Part, calls |-> Of(Updates, {"erase"}, {"advance"}),
      maxCalls |-> Of(3, 1, 1), maxSize |-> 1, memory |-> 3, throws |-> FALSE],
     [keys |-> {1, 2}, hash |-> Part, calls |-> Of(Updates, {"insert"}, {}),
      maxCalls |-> Of(2, 2, 0), maxSize |-> 2, memory |-> 3, throws |-> FALSE],
     [keys |-> {1, 2}, hash |-> Part, calls |-> Of({"insert"}, {"contains"}, {}),
      maxCalls |-> Of(3, 1, 0), maxSize |-> 2, memory |-> 3, throws |-> FALSE],
     [keys |-> {1, 2}, hash |-> Collide, calls |-> Of({"insert"}, {"contains"}, {}),
      maxCalls |-> Of(3, 1, 0), maxSize |-> 4, memory |-> 3, throws |-> TRUE],
     [keys |-> {1}, hash |-> Collide, calls |-> Of({"insert"}, {"erase"}, {"contains"}),
      maxCalls |-> Of(2, 1, 1), maxSize |-> 2, memory |-> 3, throws |-> FALSE],
     [keys |-> {1, 2, 3}, hash |-> Deep, calls |-> Of({"insert"}, {"contains"}, {}),
      maxCalls |-> Of(2, 1, 0), maxSize |-> 4, memory |-> 2, throws |-> FALSE]}
=============================================================================
