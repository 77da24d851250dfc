------------------------------ MODULE MCRcuList ------------------------------
(* A small instance of RcuList for TLC.                                    *)
EXTENDS RcuList, TLC

CONSTANTS t1, t2, t3

MCThreads == {t1, t2, t3}
NodeSymmetry == Permutations(Nodes)

Work(i, j, k) == (t1 :> i @@ t2 :> j @@ t3 :> k)
All == {"insert", "erase"}

\* Two threads that do everything; two inserters and two erasers, so that
\* neighbours are erased while a node is linked between them; and a pop of the
\* free list that is stalled while another thread drains and refills it.
MCPlans ==
    {[calls |-> Work(All, All, {}), limit |-> Work(3, 2, 0), memory |-> 3],
     [calls |-> Work(All, {"insert"}, {"erase"}), limit |-> Work(2, 2, 1), memory |-> 3],
     [calls |-> Work(All, {"insert"}, {}), limit |-> Work(7, 1, 0), memory |-> 2]}
=============================================================================
