------------------------------ MODULE RingQueue ------------------------------
(***************************************************************************)
(* RingAtomicMapQueueMPMC<Key, Value>, the key-value ring queue of          *)
(* ConcurrentQueue/concurrent_queue.h.                                      *)
(*                                                                         *)
(* Producers are serialized by tail_.l and consumers by head_.l; a thread   *)
(* claims a slot by advancing its index under the lock, and constructs or   *)
(* drains the value after the unlock, with only the slot's sequence number  *)
(* between it and the other side.  The steps of push() and pop() are cut at *)
(* the shared accesses (the places of RING_QUEUE_HOOK).                     *)
(*                                                                         *)
(* Indices and sequence numbers are size_t.  The variables hold the number  *)
(* of increments since construction; the machine word is Wrap of it, and    *)
(* every comparison and every slot address the code computes is computed    *)
(* here on the wrapped words.  (+ and == commute with reduction mod 2^64,   *)
(* so nothing else of the word is observable.)                              *)
(***************************************************************************)
EXTENDS QueueParameters, Sequences

CONSTANTS Values, NoValue  \* user values; NoValue is raw storage (no live object)

ASSUME ValuesAssumption == NoValue \notin Values

VARIABLES
  seq, key, val,  \* the members of slot_t, for every slot
  head, tail,     \* head_.i, tail_.i
  headLock, tailLock, \* head_.l, tail_.l: the holder, or NoThread
  pc,             \* where each thread is
  idx,            \* the local i
  seen,           \* the local seq: what the last load returned
  tries,          \* the local n of push()
  arg,            \* the pair a push() was called with
  ret, out,       \* the key last returned by pop(), the caller's value variable
  alive           \* FALSE once the destructor has run

slots == <<seq, key, val>>
shared == <<slots, head, tail, headLock, tailLock>>
local == <<pc, idx, seen, tries, arg, ret, out>>
vars == <<shared, local, alive>>

\* memset, and seq = p: slot p is free for index p.
Init ==
  /\ seq = [p \in Slots |-> p]
  /\ key = [p \in Slots |-> NoKey]
  /\ val = [p \in Slots |-> NoValue]
  /\ head = 0 /\ tail = 0
  /\ headLock = NoThread /\ tailLock = NoThread
  /\ pc = [t \in Threads |-> "idle"]
  /\ idx = [t \in Threads |-> 0]
  /\ seen = [t \in Threads |-> 0]
  /\ tries = [t \in Threads |-> 0]
  /\ arg = [t \in Threads |-> <<NoKey, NoValue>>]
  /\ ret = [t \in Threads |-> NoKey]
  /\ out = [t \in Threads |-> NoValue]
  /\ alive = TRUE

Goto(t, l) == pc' = [pc EXCEPT ![t] = l]

\* A call ends: its locals die with it.
Return(t) ==
  /\ Goto(t, "idle")
  /\ idx' = [idx EXCEPT ![t] = 0]
  /\ seen' = [seen EXCEPT ![t] = 0]
  /\ tries' = [tries EXCEPT ![t] = 0]
  /\ arg' = [arg EXCEPT ![t] = <<NoKey, NoValue>>]

\* The load of the sequence number of the slot t looks at.
\* It is the newest: an older one is one more retry or a refusal.
LoadSeq(t) == seen' = [seen EXCEPT ![t] = seq[Slot(idx[t])]]

------------------------------------------------------------------------------
(* push(key, value)                                                         *)

\* Mutant: tail_.l is not taken.
PushLockNoLock(t, k, v) ==
  /\ alive /\ tail < MaxIndex
  /\ pc[t] = "idle"
  /\ idx' = [idx EXCEPT ![t] = tail]
  /\ arg' = [arg EXCEPT ![t] = <<k, v>>]
  /\ Goto(t, "push_load")
  /\ UNCHANGED <<slots, head, tail, headLock, tailLock, seen, tries, ret, out, alive>>

\* Locks the tail and reads tail_.i.
PushLock(t, k, v) ==
  /\ alive /\ tail < MaxIndex
  /\ pc[t] = "idle"
  /\ tailLock = NoThread
  /\ tailLock' = t
  /\ idx' = [idx EXCEPT ![t] = tail]
  /\ arg' = [arg EXCEPT ![t] = <<k, v>>]
  /\ Goto(t, "push_load")
  /\ UNCHANGED <<slots, head, tail, headLock, seen, tries, ret, out, alive>>

PushLoad(t) ==
  /\ pc[t] = "push_load"
  /\ LoadSeq(t)
  /\ Goto(t, "push_loaded")
  /\ UNCHANGED <<shared, idx, tries, arg, ret, out, alive>>

SlotFree(t) == Wrap(seen[t]) = Wrap(idx[t])

\* The next iteration of the NTRY loop.
PushRetry(t) ==
  /\ pc[t] = "push_loaded"
  /\ ~ SlotFree(t)
  /\ tries[t] + 1 # NTRY
  /\ tries' = [tries EXCEPT ![t] = @ + 1]
  /\ Goto(t, "push_load")
  /\ UNCHANGED <<shared, idx, seen, arg, ret, out, alive>>

\* The loop is exhausted: push() returns false, and the lock goes with it.
PushFull(t) ==
  /\ pc[t] = "push_loaded"
  /\ ~ SlotFree(t)
  /\ tries[t] + 1 = NTRY
  /\ tailLock' = NoThread
  /\ Return(t)
  /\ UNCHANGED <<slots, head, tail, headLock, ret, out, alive>>

\* Mutant: the key of the previous lap is left in the slot.
PushClaimNoKey(t) ==
  /\ pc[t] = "push_loaded"
  /\ SlotFree(t)
  /\ tail' = tail + 1
  /\ tailLock' = NoThread
  /\ Goto(t, "push_claimed")
  /\ UNCHANGED <<slots, head, headLock, idx, seen, tries, arg, ret, out, alive>>

\* Writes the key and claims the slot, all under the tail lock; unlocks.
PushClaim(t) ==
  /\ pc[t] = "push_loaded"
  /\ SlotFree(t)
  /\ key' = [key EXCEPT ![Slot(idx[t])] = arg[t][1]]
  /\ tail' = tail + 1
  /\ tailLock' = NoThread
  /\ Goto(t, "push_claimed")
  /\ UNCHANGED <<seq, val, head, headLock, idx, seen, tries, arg, ret, out, alive>>

\* The placement new of the value, outside the lock.
PushConstruct(t) ==
  /\ pc[t] = "push_claimed"
  /\ val' = [val EXCEPT ![Slot(idx[t])] = arg[t][2]]
  /\ Goto(t, "push_committing")
  /\ UNCHANGED <<seq, key, head, tail, headLock, tailLock,
                 idx, seen, tries, arg, ret, out, alive>>

\* Mutant: the commit stores i.
PushCommitSameSeq(t) ==
  /\ pc[t] = "push_committing"
  /\ seq' = [seq EXCEPT ![Slot(idx[t])] = idx[t]]
  /\ Return(t)
  /\ UNCHANGED <<key, val, head, tail, headLock, tailLock, ret, out, alive>>

\* seq = i + 1 publishes the element; push() returns true.
PushCommit(t) ==
  /\ pc[t] = "push_committing"
  /\ seq' = [seq EXCEPT ![Slot(idx[t])] = idx[t] + 1]
  /\ Return(t)
  /\ UNCHANGED <<key, val, head, tail, headLock, tailLock, ret, out, alive>>

------------------------------------------------------------------------------
(* pop(value)                                                               *)

\* Locks the head and reads head_.i.
PopLock(t) ==
  /\ alive
  /\ pc[t] = "idle"
  /\ headLock = NoThread
  /\ headLock' = t
  /\ idx' = [idx EXCEPT ![t] = head]
  /\ Goto(t, "pop_load")
  /\ UNCHANGED <<slots, head, tail, tailLock, seen, tries, arg, ret, out, alive>>

PopLoad(t) ==
  /\ pc[t] = "pop_load"
  /\ LoadSeq(t)
  /\ Goto(t, "pop_loaded")
  /\ UNCHANGED <<shared, idx, tries, arg, ret, out, alive>>

Committed(t) == Wrap(seen[t]) = Wrap(idx[t] + 1)

\* Returns Key{}; the caller's value is not touched.
PopEmpty(t) ==
  /\ pc[t] = "pop_loaded"
  /\ ~ Committed(t)
  /\ ret' = [ret EXCEPT ![t] = NoKey]
  /\ headLock' = NoThread
  /\ Return(t)
  /\ UNCHANGED <<slots, head, tail, tailLock, out, alive>>

\* Reads and clears the key and claims the slot, under the head lock; unlocks.
PopClaim(t) ==
  /\ pc[t] = "pop_loaded"
  /\ Committed(t)
  /\ ret' = [ret EXCEPT ![t] = key[Slot(idx[t])]]
  /\ key' = [key EXCEPT ![Slot(idx[t])] = NoKey]
  /\ head' = head + 1
  /\ headLock' = NoThread
  /\ Goto(t, "pop_claimed")
  /\ UNCHANGED <<seq, val, tail, tailLock, idx, seen, tries, arg, out, alive>>

\* The value is moved out to the caller and destroyed, outside the lock.
PopDrain(t) ==
  /\ pc[t] = "pop_claimed"
  /\ out' = [out EXCEPT ![t] = val[Slot(idx[t])]]
  /\ val' = [val EXCEPT ![Slot(idx[t])] = NoValue]
  /\ Goto(t, "pop_releasing")
  /\ UNCHANGED <<seq, key, head, tail, headLock, tailLock,
                 idx, seen, tries, arg, ret, alive>>

\* Mutant: the slot is released for the wrong index.
PopReleaseOffByOne(t) ==
  /\ pc[t] = "pop_releasing"
  /\ seq' = [seq EXCEPT ![Slot(idx[t])] = idx[t] + Capacity + 1]
  /\ Return(t)
  /\ UNCHANGED <<key, val, head, tail, headLock, tailLock, ret, out, alive>>

\* seq = i + capacity hands the slot to the next lap's producer.
PopRelease(t) ==
  /\ pc[t] = "pop_releasing"
  /\ seq' = [seq EXCEPT ![Slot(idx[t])] = idx[t] + Capacity]
  /\ Return(t)
  /\ UNCHANGED <<key, val, head, tail, headLock, tailLock, ret, out, alive>>

------------------------------------------------------------------------------
(* empty(), and the destructor                                              *)

EmptyLock(t) ==
  /\ alive
  /\ pc[t] = "idle"
  /\ headLock = NoThread
  /\ headLock' = t
  /\ Goto(t, "empty_load")
  /\ UNCHANGED <<slots, head, tail, tailLock, idx, seen, tries, arg, ret, out, alive>>

\* The answer empty() computes under the head lock, and the test pop() makes.
HeadUncommitted == Wrap(seq[Slot(head)]) # Wrap(head + 1)

EmptyReturn(t) ==
  /\ pc[t] = "empty_load"
  /\ headLock' = NoThread
  /\ Return(t)
  /\ UNCHANGED <<slots, head, tail, tailLock, ret, out, alive>>

\* Runs with exclusive access: destroys the values of [head_.i, tail_.i).
Destroy ==
  /\ alive
  /\ \A t \in Threads : pc[t] = "idle"
  /\ val' = [p \in Slots |-> IF \E i \in head..(tail - 1) : Slot(i) = p
                             THEN NoValue ELSE val[p]]
  /\ alive' = FALSE
  /\ UNCHANGED <<seq, key, head, tail, headLock, tailLock, local>>

Destroyed == ~alive /\ UNCHANGED vars

------------------------------------------------------------------------------

PushStep(t) ==
  \/ PushLoad(t) \/ PushRetry(t) \/ PushFull(t)
  \/ PushClaim(t) \/ PushConstruct(t) \/ PushCommit(t)

PopStep(t) ==
  \/ PopLoad(t) \/ PopEmpty(t)
  \/ PopClaim(t) \/ PopDrain(t) \/ PopRelease(t)

\* A thread inside a call goes on with it.
Continue(t) == PushStep(t) \/ PopStep(t) \/ EmptyReturn(t)

Call(t) ==
  \/ \E k \in Keys, v \in Values : PushLock(t, k, v)
  \/ PopLock(t)
  \/ EmptyLock(t)

Next ==
  \/ \E t \in Threads : Call(t) \/ Continue(t)
  \/ Destroy
  \/ Destroyed

Spec == Init /\ [][Next]_vars

\* No thread is abandoned in the middle of a call; pops keep being called and
\* one of the callers keeps getting the head lock.
Fairness ==
  /\ \A t \in Threads : WF_vars(Continue(t))
  /\ SF_vars(\E t \in Threads : PopLock(t))
FairSpec == Spec /\ Fairness

------------------------------------------------------------------------------
(* Properties                                                               *)

Labels == {"idle", "push_load", "push_loaded", "push_claimed", "push_committing",
           "pop_load", "pop_loaded", "pop_claimed", "pop_releasing", "empty_load"}

\* The type of every variable.
TypeOK ==
  /\ seq \in [Slots -> Nat]
  /\ key \in [Slots -> Keys \union {NoKey}]
  /\ val \in [Slots -> Values \union {NoValue}]
  /\ head \in Nat /\ tail \in Nat
  /\ headLock \in Threads \union {NoThread}
  /\ tailLock \in Threads \union {NoThread}
  /\ pc \in [Threads -> Labels]
  /\ idx \in [Threads -> Nat]
  /\ seen \in [Threads -> Nat]
  /\ tries \in [Threads -> 0..(NTRY - 1)]
  /\ arg \in [Threads -> (Keys \union {NoKey}) \X (Values \union {NoValue})]
  /\ ret \in [Threads -> Keys \union {NoKey}]
  /\ out \in [Threads -> Values \union {NoValue}]
  /\ alive \in BOOLEAN

\* The threads between a claim and the store that ends it.
Producing(t) == pc[t] \in {"push_claimed", "push_committing"}
Consuming(t) == pc[t] \in {"pop_claimed", "pop_releasing"}
Owning(t) == Producing(t) \/ Consuming(t)

\* The index invariant: tail_.i - head_.i stays within [0, capacity], for all
\* interleavings of claims whose commits and releases are still outstanding.
IndexWindow == head <= tail /\ tail <= head + Capacity

\* From the claim to the final seq store a slot has one owner: two threads
\* that construct or drain values outside the locks never work on one slot.
SlotOwnership ==
  \A t, u \in Threads :
    t # u /\ Owning(t) /\ Owning(u) => Slot(idx[t]) # Slot(idx[u])

\* A value is constructed only in raw storage, and only a live value is moved
\* out and destroyed: push()'s placement new never overwrites an object that
\* a slow consumer has still to drain, pop() never reads one under construction.
ValueLifetime ==
  \A t \in Threads :
    /\ pc[t] = "push_claimed" => val[Slot(idx[t])] = NoValue
    /\ pc[t] = "pop_claimed" => val[Slot(idx[t])] # NoValue

\* What a loaded sequence number can be, however stale it is when it is
\* compared: a producer at index i sees i, i - capacity or i - capacity + 1, a
\* consumer at index i sees i + 1, i or i - capacity + 1.
ObservedSequence ==
  \A t \in Threads :
    /\ pc[t] = "push_loaded" =>
         seen[t] \in {idx[t], idx[t] - Capacity, idx[t] - Capacity + 1}
    /\ pc[t] = "pop_loaded" =>
         seen[t] \in {idx[t] + 1, idx[t], idx[t] - Capacity + 1}

\* With no call in progress the live values are exactly those of the indices
\* [head_.i, tail_.i), so the destructor destroys only constructed values, and
\* once it has run no value is left.
ValuesAtQuiescence ==
  (\A t \in Threads : pc[t] = "idle") =>
    \A p \in Slots :
      val[p] # NoValue <=> alive /\ \E i \in head..(tail - 1) : Slot(i) = p

\* What "empty" means: the queue is empty, or the oldest element is still
\* being constructed by the producer that claimed it.
EmptyAnswer ==
  alive /\ HeadUncommitted =>
    \/ head = tail
    \/ \E t \in Threads : Producing(t) /\ idx[t] = head

\* If the head slot is still being drained by the consumer of the previous lap
\* then tail_.i == head_.i: pop() answers "empty" without waiting for it.
DrainingMeansEmpty ==
  Wrap(seq[Slot(head)]) = Wrap(head + IndexMod - Capacity + 1) => head = tail

\* The test push() makes at the tail.
TailBlocked == Wrap(seq[Slot(tail)]) # Wrap(tail)

\* What "full" means: capacity elements are queued, or the consumer of index
\* tail_.i - capacity has claimed it and not yet released the slot.
FullAnswer ==
  TailBlocked =>
    \/ tail = head + Capacity
    \/ \E t \in Threads : Consuming(t) /\ idx[t] = tail - Capacity

\* An element that push() accepted is eventually popped, provided that pops
\* keep being called and no thread stops inside a call.
Delivered ==
  \A n \in 0..(MaxIndex - 1) : tail > n /\ alive ~> head > n \/ ~alive

------------------------------------------------------------------------------
(* A claim of the class comment that the code does not keep.                *)

\* push(): a tail slot that is not free means that all capacity slots are
\* taken (a slot is free when its number is that of an index to come).
FullMeansAllTaken ==
  TailBlocked => \A i \in tail..(tail + Capacity - 1) : seq[Slot(i)] # i

------------------------------------------------------------------------------
(* The inductive invariant                                                  *)

\* The locals of a thread inside a critical section are current, and a load
\* that allows a claim has not been invalidated.
LocksAndLoads ==
  \A t \in Threads :
    /\ pc[t] \in {"push_load", "push_loaded"} => tailLock = t /\ idx[t] = tail
    /\ pc[t] \in {"pop_load", "pop_loaded"} => headLock = t /\ idx[t] = head
    /\ pc[t] = "empty_load" => headLock = t
    /\ pc[t] = "push_loaded" /\ seen[t] = idx[t] => seq[Slot(tail)] = tail
    /\ pc[t] = "pop_loaded" /\ seen[t] = idx[t] + 1 =>
         seq[Slot(head)] = head + 1 /\ head < tail
    /\ pc[t] \in {"push_load", "push_loaded", "push_claimed", "push_committing"}
         => arg[t] \in Keys \X Values

\* Every claimed index lies in its half of the window of capacity indices
\* that ends at the tail, and its slot is in the matching state.
Owners ==
  /\ \A t \in Threads : Producing(t) =>
       idx[t] \in head..(tail - 1) /\ seq[Slot(idx[t])] = idx[t]
  /\ \A t \in Threads : Consuming(t) =>
       idx[t] \in (tail - Capacity)..(head - 1) /\ seq[Slot(idx[t])] = idx[t] + 1
  /\ \A t, u \in Threads :
       t # u /\ Owning(t) /\ Owning(u) => idx[t] # idx[u]

\* The state of the slot of every index of the window.
SlotStates ==
  /\ \A i \in head..(tail - 1) :
       \/ seq[Slot(i)] = i + 1
       \/ seq[Slot(i)] = i /\ \E t \in Threads : Producing(t) /\ idx[t] = i
  /\ \A i \in (tail - Capacity)..(head - 1) :
       \/ seq[Slot(i)] = i + Capacity
       \/ seq[Slot(i)] = i + 1 /\ \E t \in Threads : Consuming(t) /\ idx[t] = i

\* Which of these slots hold a live value.
SlotValues ==
  /\ alive => \A i \in head..(tail - 1) :
       val[Slot(i)] # NoValue <=>
         ~ \E t \in Threads : pc[t] = "push_claimed" /\ idx[t] = i
  /\ alive => \A i \in (tail - Capacity)..(head - 1) :
       val[Slot(i)] # NoValue <=>
         \E t \in Threads : pc[t] = "pop_claimed" /\ idx[t] = i
  /\ ~alive => \A t \in Threads : pc[t] = "idle"
  /\ ~alive => \A p \in Slots : val[p] = NoValue

\* The indices, the slots of the window [tail - capacity, tail), the threads
\* that own them and what the threads in a critical section have seen agree.
RingInv ==
  TypeOK /\ IndexWindow /\ LocksAndLoads /\ Owners /\ SlotStates
    /\ SlotValues /\ ObservedSequence

\* What push(), pop() and empty() may answer from their loads, made while the
\* other side moves on: "empty" and "full" are never wrong about the queue.
RightAnswers == EmptyAnswer /\ FullAnswer
==============================================================================
