--------------------------- MODULE QueueParameters ---------------------------
(***************************************************************************)
(* What both specialisations of RingAtomicMapQueueMPMC                      *)
(* (ConcurrentQueue/concurrent_queue.h) share: the parameters, and the      *)
(* arithmetic that finds a slot from an index.                              *)
(***************************************************************************)
EXTENDS Integers

CONSTANTS
  Threads,        \* the threads that use the queue
  Keys, NoKey,    \* user keys; NoKey is Key{}
  Capacity,       \* capacity_
  IndexMod,       \* 2^64 in the code
  NTRY,           \* attempts to see a free slot before push() gives up
  MaxIndex,       \* bound on the number of pushes that get through
  NoThread

\* CHECK_GE(capacity_, 8) is stronger than the protocol needs; a power of two
\* divides 2^64.
ASSUME CapacityAssumption == Capacity \in Nat \ {0, 1}
ASSUME IndexModAssumption ==
  /\ IndexMod \in Nat
  /\ \E laps \in 2..IndexMod : IndexMod = laps * Capacity
ASSUME NTRYAssumption == NTRY \in Nat \ {0}
ASSUME MaxIndexAssumption == MaxIndex \in Nat
ASSUME NamesAssumption == NoKey \notin Keys /\ NoThread \notin Threads

Wrap(n) == n % IndexMod

\* queue_[i & capacity_mask_]
Slot(i) == Wrap(i) % Capacity

Slots == 0..(Capacity - 1)
=============================================================================
