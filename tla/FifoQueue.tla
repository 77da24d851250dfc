------------------------------ MODULE FifoQueue ------------------------------
(***************************************************************************)
(* What a bounded queue of (key, value) pairs promises its callers: pairs   *)
(* leave in the order in which they were accepted, each exactly once, with  *)
(* the value they were pushed with, and never more than Capacity are held.  *)
(* A pop may report "nothing" at any time; it then leaves the caller's      *)
(* value alone.  A rejected push is a stuttering step.                      *)
(***************************************************************************)
EXTENDS Naturals, Sequences

CONSTANTS Threads, Keys, Values, NoKey, NoValue, Capacity

VARIABLES
  items,   \* the pairs held, oldest first
  taken    \* taken[t]: the key last returned to t, and t's value variable

vars == <<items, taken>>

Init ==
  /\ items = <<>>
  /\ taken = [t \in Threads |-> <<NoKey, NoValue>>]

Push(k, v) ==
  /\ Len(items) < Capacity
  /\ items' = Append(items, <<k, v>>)
  /\ UNCHANGED taken

Pop(t) ==
  /\ items # <<>>
  /\ taken' = [taken EXCEPT ![t] = Head(items)]
  /\ items' = Tail(items)

PopNothing(t) ==
  /\ taken' = [taken EXCEPT ![t] = <<NoKey, @[2]>>]
  /\ UNCHANGED items

\* The destructor discards what is left.
Destroy ==
  /\ items' = <<>>
  /\ UNCHANGED taken

Next ==
  \/ \E k \in Keys, v \in Values : Push(k, v)
  \/ \E t \in Threads : Pop(t) \/ PopNothing(t)
  \/ Destroy

Spec == Init /\ [][Next]_vars
==============================================================================
