------------------------- MODULE RingQueueRefinement -------------------------
(***************************************************************************)
(* The ring queue implements FifoQueue: an element is in the abstract queue *)
(* from its producer's claim (++tail_.i) to its consumer's claim            *)
(* (++head_.i), although its value is constructed after the first and moved *)
(* out after the second.                                                    *)
(***************************************************************************)
EXTENDS RingQueue

\* The value of the element of index i: still with the producer, or in the slot.
ValueAt(i) ==
  IF \E t \in Threads : pc[t] = "push_claimed" /\ idx[t] = i
  THEN arg[CHOOSE t \in Threads : pc[t] = "push_claimed" /\ idx[t] = i][2]
  ELSE val[Slot(i)]

Items ==
  IF alive
  THEN [n \in 1..(tail - head) |-> <<key[Slot(head + n - 1)], ValueAt(head + n - 1)>>]
  ELSE <<>>

\* A claimed value belongs to the consumer before it is moved out.
Taken ==
  [t \in Threads |->
    <<ret[t], IF pc[t] = "pop_claimed" THEN val[Slot(idx[t])] ELSE out[t]>>]

Fifo == INSTANCE FifoQueue WITH items <- Items, taken <- Taken

\* push() and pop() behave as a bounded first-in first-out queue of pairs: no
\* element is lost, duplicated, reordered, or delivered with another's value.
RefinesFifo == Fifo!Spec
==============================================================================
