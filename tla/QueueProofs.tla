----------------------------- MODULE QueueProofs -----------------------------
(***************************************************************************)
(* The ring queues, for every number of threads, every capacity above one   *)
(* and every index width that is a multiple of it.  RingInv is an invariant *)
(* of the queue of pairs, and the properties of RingQueue follow from it.   *)
(* The queue of keys keeps its slots in one window of indices.  Both queues *)
(* implement the bounded FIFO queue.                                        *)
(***************************************************************************)
EXTENDS RingQueueRefinement, KeyQueueRefinement, ModuloLemmas, TLAPS

\* The steps are Zenon's, except where SMT is cited.
USE Zenon

(* The slot addressed by an index, and the machine word of an index.        *)

\* capacity_ and the index range are positive, and the range has room for two
\* laps of the ring.
LEMMA Sizes ==
  /\ Capacity \in Nat \ {0, 1}
  /\ IndexMod \in Nat \ {0}
  /\ IndexMod >= 2 * Capacity
  /\ \E laps \in Nat \ {0} : IndexMod = laps * Capacity
<1>1. Capacity \in Nat \ {0, 1} /\ IndexMod \in Nat
  BY CapacityAssumption, IndexModAssumption
<1>2. PICK laps \in 2..IndexMod : IndexMod = laps * Capacity
  BY IndexModAssumption
<1>3. laps \in Nat /\ laps >= 2
  BY <1>1, <1>2, SMT
<1>4. Capacity * laps >= Capacity * 1 + Capacity
  BY <1>1, <1>3, MultipleStep, SMT
<1> QED
  BY <1>1, <1>2, <1>3, <1>4, SMT

\* Reducing an index to a machine word does not change its slot.
LEMMA SlotMod ==
  ASSUME NEW i \in Int
  PROVE  Slot(i) = i % Capacity
<1>1. PICK laps \in Nat \ {0} : IndexMod = laps * Capacity
  BY Sizes
<1>2. (i % (laps * Capacity)) % Capacity = i % Capacity
  BY <1>1, Sizes, ModOfMod
<1> QED
  BY <1>1, <1>2 DEF Slot, Wrap

\* Every index, of any lap, addresses a slot of the ring.
LEMMA SlotType ==
  \A i \in Int : Slot(i) \in Slots
<1> SUFFICES ASSUME NEW i \in Int
             PROVE  Slot(i) \in Slots
  OBVIOUS
<1>1. Capacity \in Nat \ {0}
  BY Sizes
<1>2. i % Capacity \in 0..(Capacity - 1)
  BY <1>1, DivMod
<1> QED
  BY <1>2, SlotMod DEF Slots

\* Indices less than capacity apart have different slots.
LEMMA SlotInjective ==
  \A i, j \in Int :
    Slot(i) = Slot(j) /\ i < j + Capacity /\ j < i + Capacity => i = j
BY SlotMod, ModInjective, Sizes

\* An index and the one a lap later share a slot.
LEMMA SlotLap ==
  \A i \in Int : Slot(i + Capacity) = Slot(i) /\ Slot(i - Capacity) = Slot(i)
<1> SUFFICES ASSUME NEW i \in Int
             PROVE  Slot(i + Capacity) = Slot(i) /\ Slot(i - Capacity) = Slot(i)
  OBVIOUS
<1>1. (i + Capacity) % Capacity = i % Capacity
  BY ModPeriodic, Sizes
<1> DEFINE j == i - Capacity
<1>2. j \in Int /\ j + Capacity = i /\ i + Capacity \in Int
  BY Sizes, SMT
<1> HIDE DEF j
<1>3. (j + Capacity) % Capacity = j % Capacity
  BY <1>2, ModPeriodic, Sizes
<1>4. Slot(j) = Slot(i) /\ Slot(i + Capacity) = Slot(i)
  BY <1>1, <1>2, <1>3, SlotMod
<1> QED
  BY <1>4 DEF j

\* Words compare equal only when the indices do, within the index range.
LEMMA WrapInjective ==
  \A i, j \in Int :
    Wrap(i) = Wrap(j) /\ i < j + IndexMod /\ j < i + IndexMod => i = j
BY ModInjective, Sizes DEF Wrap

------------------------------------------------------------------------------
(* Type correctness                                                         *)

\* A try that is not the last one has a successor.
LEMMA NextTry ==
  ASSUME NEW n \in Nat \ {0}, NEW x \in 0..(n - 1), x + 1 # n
  PROVE  x + 1 \in 0..(n - 1)
BY SMT

\* The empty queue has its types.
LEMMA TypeInit == Init => TypeOK
BY Sizes, NTRYAssumption, SMT DEF Init, TypeOK, Slots, Labels

\* Every step keeps every variable in its type.
LEMMA TypeStep == TypeOK /\ [Next]_vars => TypeOK'
<1> SUFFICES ASSUME TypeOK, [Next]_vars
             PROVE  TypeOK'
  OBVIOUS
<1> USE SlotType, NTRYAssumption, Sizes DEF TypeOK, Labels
<1>1. ASSUME NEW t \in Threads, NEW k \in Keys, NEW v \in Values, PushLock(t, k, v)
      PROVE  TypeOK'
  BY <1>1 DEF PushLock, Goto, slots
<1>2. ASSUME NEW t \in Threads, PushLoad(t)
      PROVE  TypeOK'
  BY <1>2, SMT DEF PushLoad, LoadSeq, Goto, slots, shared
<1>3. ASSUME NEW t \in Threads, PushRetry(t)
      PROVE  TypeOK'
  <2>1. tries[t] \in 0..(NTRY - 1) /\ tries[t] + 1 # NTRY
    BY <1>3 DEF PushRetry
  <2>2. tries[t] + 1 \in 0..(NTRY - 1)
    BY <2>1, NextTry
  <2>3. tries' \in [Threads -> 0..(NTRY - 1)]
    BY <1>3, <2>2 DEF PushRetry
  <2> QED
    BY <1>3, <2>3 DEF PushRetry, Goto, slots, shared
<1>4. ASSUME NEW t \in Threads, PushFull(t)
      PROVE  TypeOK'
  BY <1>4, SMT DEF PushFull, Return, Goto, slots
<1>5. ASSUME NEW t \in Threads, PushClaim(t)
      PROVE  TypeOK'
  BY <1>5, SMT DEF PushClaim, Goto, slots
<1>6. ASSUME NEW t \in Threads, PushConstruct(t)
      PROVE  TypeOK'
  BY <1>6 DEF PushConstruct, Goto, slots
<1>7. ASSUME NEW t \in Threads, PushCommit(t)
      PROVE  TypeOK'
  BY <1>7, SMT DEF PushCommit, Return, Goto, slots
<1>8. ASSUME NEW t \in Threads, PopLock(t)
      PROVE  TypeOK'
  BY <1>8 DEF PopLock, Goto, slots
<1>9. ASSUME NEW t \in Threads, PopLoad(t)
      PROVE  TypeOK'
  BY <1>9, SMT DEF PopLoad, LoadSeq, Goto, slots, shared
<1>10. ASSUME NEW t \in Threads, PopEmpty(t)
      PROVE  TypeOK'
  BY <1>10, SMT DEF PopEmpty, Return, Goto, slots
<1>11. ASSUME NEW t \in Threads, PopClaim(t)
      PROVE  TypeOK'
  BY <1>11, SMT DEF PopClaim, Goto, slots
<1>12. ASSUME NEW t \in Threads, PopDrain(t)
      PROVE  TypeOK'
  BY <1>12, SMT DEF PopDrain, Goto, slots
<1>13. ASSUME NEW t \in Threads, PopRelease(t)
      PROVE  TypeOK'
  BY <1>13, SMT DEF PopRelease, Return, Goto, slots
<1>14. ASSUME NEW t \in Threads, EmptyLock(t)
      PROVE  TypeOK'
  BY <1>14 DEF EmptyLock, Goto, slots
<1>15. ASSUME NEW t \in Threads, EmptyReturn(t)
      PROVE  TypeOK'
  BY <1>15, SMT DEF EmptyReturn, Return, Goto, slots
<1>16. CASE Destroy
  BY <1>16 DEF Destroy, local
<1>17. CASE UNCHANGED vars
  BY <1>17 DEF vars, shared, slots, local
<1> QED
  BY <1>1, <1>2, <1>3, <1>4, <1>5, <1>6, <1>7, <1>8, <1>9, <1>10, <1>11, <1>12, <1>13, <1>14, <1>15, <1>16, <1>17
  DEF Next, Call, Continue, PushStep, PopStep, Destroyed

\* Every variable of the ring queue keeps its type in every behaviour.
THEOREM TypeCorrect == Spec => []TypeOK
BY TypeInit, TypeStep, PTL DEF Spec
------------------------------------------------------------------------------
(* The ring invariant                                                       *)

\* The types, from the invariant.
LEMMA Typed ==
  ASSUME RingInv
  PROVE  /\ head \in Nat /\ tail \in Nat
         /\ seq \in [Slots -> Nat]
         /\ val \in [Slots -> Values \union {NoValue}]
         /\ pc \in [Threads -> Labels]
         /\ idx \in [Threads -> Nat] /\ seen \in [Threads -> Nat]
         /\ arg \in [Threads -> (Keys \union {NoKey}) \X (Values \union {NoValue})]
BY DEF RingInv, TypeOK

\* A thread inside a call is one the destructor has not been run under.
LEMMA BusyAlive ==
  ASSUME RingInv, NEW t \in Threads, pc[t] # "idle"
  PROVE  alive
BY DEF RingInv, SlotValues

\* A successful comparison of machine words is a comparison of indices: the
\* slot push() saw free is the tail's, and it still is free.
LEMMA GuardPush ==
  ASSUME RingInv, NEW t \in Threads, pc[t] = "push_loaded", SlotFree(t)
  PROVE  idx[t] = tail /\ tailLock = t /\ seq[Slot(tail)] = tail
<1>1. idx[t] \in Nat /\ seen[t] \in Nat
  BY Typed
<1>2. seen[t] \in {idx[t], idx[t] - Capacity, idx[t] - Capacity + 1}
  BY DEF RingInv, ObservedSequence
<1>3. Capacity \in Nat /\ 2 <= Capacity /\ IndexMod \in Nat /\ IndexMod >= 2 * Capacity
  BY Sizes, SMT
<1>4. seen[t] < idx[t] + IndexMod /\ idx[t] < seen[t] + IndexMod
  BY <1>1, <1>2, <1>3, SMT
<1>5. seen[t] = idx[t]
  BY <1>1, <1>4, WrapInjective, SMT DEF SlotFree
<1> QED
  BY <1>5 DEF RingInv, LocksAndLoads

\* The slot pop() saw committed is the head's, and it still is committed.
LEMMA GuardPop ==
  ASSUME RingInv, NEW t \in Threads, pc[t] = "pop_loaded", Committed(t)
  PROVE  /\ idx[t] = head /\ headLock = t
         /\ seq[Slot(head)] = head + 1 /\ head < tail
<1>1. idx[t] \in Nat /\ seen[t] \in Nat
  BY Typed
<1>2. seen[t] \in {idx[t] + 1, idx[t], idx[t] - Capacity + 1}
  BY DEF RingInv, ObservedSequence
<1>3. Capacity \in Nat /\ 2 <= Capacity /\ IndexMod \in Nat /\ IndexMod >= 2 * Capacity
  BY Sizes, SMT
<1>4. idx[t] + 1 \in Int /\ seen[t] < idx[t] + 1 + IndexMod
        /\ idx[t] + 1 < seen[t] + IndexMod
  BY <1>1, <1>2, <1>3, SMT
<1>5. seen[t] = idx[t] + 1
  BY <1>1, <1>4, WrapInjective, SMT DEF Committed
<1> QED
  BY <1>5 DEF RingInv, LocksAndLoads

\* The empty queue satisfies the invariant.
LEMMA RingInit == Init => RingInv
<1> SUFFICES ASSUME Init
             PROVE  RingInv
  OBVIOUS
<1>1. TypeOK
  BY TypeInit
<1>2. IndexWindow
  BY Sizes, SMT DEF Init, IndexWindow
<1>3. LocksAndLoads /\ ObservedSequence
  BY DEF Init, LocksAndLoads, ObservedSequence
<1>4. Owners
  BY DEF Init, Owners, Owning, Producing, Consuming
<1>5. ASSUME NEW i \in (0 - Capacity)..(0 - 1)
      PROVE  seq[Slot(i)] = i + Capacity /\ val[Slot(i)] = NoValue
  <2>1. i \in Int /\ i + Capacity \in 0..(Capacity - 1)
    BY <1>5, Sizes, SMT
  <2>2. Slot(i) = Slot(i + Capacity) /\ i + Capacity \in Int
    BY <2>1, Sizes, SlotLap, SMT
  <2>3. Slot(i + Capacity) = (i + Capacity) % Capacity
    BY <2>2, SlotMod
  <2>4. (i + Capacity) % Capacity = i + Capacity
    BY <2>1, Sizes, ModSmall
  <2> QED
    BY <2>1, <2>2, <2>3, <2>4 DEF Init, Slots
<1>6. SlotStates /\ SlotValues
  BY <1>5, Sizes, SMT DEF Init, SlotStates, SlotValues
<1> QED
  BY <1>1, <1>2, <1>3, <1>4, <1>6 DEF RingInv

\* A step of a thread that owns no slot before or after it, and writes none.
LEMMA NoClaimFrame ==
  ASSUME RingInv, alive, NEW t \in Threads, ~Owning(t), ~Owning(t)',
         \A u \in Threads \ {t} : pc'[u] = pc[u] /\ idx'[u] = idx[u],
         UNCHANGED <<seq, val, head, tail, alive>>
  PROVE  IndexWindow' /\ Owners' /\ SlotStates' /\ SlotValues'
<1>1. \A u \in Threads :
        /\ Producing(u)' <=> Producing(u)
        /\ Consuming(u)' <=> Consuming(u)
        /\ Owning(u)' <=> Owning(u)
        /\ Owning(u) => idx'[u] = idx[u]
        /\ pc'[u] = "push_claimed" <=> pc[u] = "push_claimed"
        /\ pc'[u] = "pop_claimed" <=> pc[u] = "pop_claimed"
  BY DEF Owning, Producing, Consuming
<1>2. Owners'
  BY <1>1, SMT DEF RingInv, Owners, Owning
<1>3. SlotStates'
  BY <1>1, SMT DEF RingInv, SlotStates, Owning
<1>4. SlotValues'
  BY <1>1, SMT DEF RingInv, SlotValues, Owning, Producing, Consuming
<1>5. IndexWindow'
  BY DEF RingInv, IndexWindow
<1> QED
  BY <1>2, <1>3, <1>4, <1>5

\* Entering push().
LEMMA PushLockStep ==
  ASSUME RingInv, TypeOK', NEW t \in Threads, NEW k \in Keys, NEW v \in Values, PushLock(t, k, v)
  PROVE  RingInv'
<1>1. /\ pc[t] = "idle" /\ alive /\ tailLock = NoThread /\ tailLock' = t
      /\ pc' = [pc EXCEPT ![t] = "push_load"] /\ idx' = [idx EXCEPT ![t] = tail]
      /\ arg' = [arg EXCEPT ![t] = <<k, v>>]
      /\ UNCHANGED <<seq, val, head, tail, headLock, seen, alive>>
  BY DEF PushLock, Goto, slots
<1>2. alive
  BY <1>1, BusyAlive
<1>3. IndexWindow' /\ Owners' /\ SlotStates' /\ SlotValues'
  <2>1. ~Owning(t) /\ ~Owning(t)'
    BY <1>1, Typed DEF Owning, Producing, Consuming
  <2>2. \A u \in Threads \ {t} : pc'[u] = pc[u] /\ idx'[u] = idx[u]
    BY <1>1, Typed
  <2> QED
    BY <1>1, <1>2, <2>1, <2>2, NoClaimFrame
<1>4. LocksAndLoads'
  BY <1>1, Typed, NamesAssumption, ValuesAssumption DEF RingInv, LocksAndLoads
<1>5. ObservedSequence'
  BY <1>1, Typed DEF RingInv, ObservedSequence
<1> QED
  BY <1>3, <1>4, <1>5 DEF RingInv

\* push() reads the tail and the slot.
LEMMA PushLoadStep ==
  ASSUME RingInv, TypeOK', NEW t \in Threads, PushLoad(t)
  PROVE  RingInv'
<1>1. /\ pc[t] = "push_load" /\ pc' = [pc EXCEPT ![t] = "push_loaded"]
      /\ seen' = [seen EXCEPT ![t] = seq[Slot(idx[t])]]
      /\ UNCHANGED <<seq, val, head, tail, headLock, tailLock, idx, arg, alive>>
  BY DEF PushLoad, LoadSeq, Goto, shared, slots
<1>2. alive
  BY <1>1, BusyAlive
<1>3. IndexWindow' /\ Owners' /\ SlotStates' /\ SlotValues'
  <2>1. ~Owning(t) /\ ~Owning(t)'
    BY <1>1, Typed DEF Owning, Producing, Consuming
  <2>2. \A u \in Threads \ {t} : pc'[u] = pc[u] /\ idx'[u] = idx[u]
    BY <1>1, Typed
  <2> QED
    BY <1>1, <1>2, <2>1, <2>2, NoClaimFrame
<1>4. seq[Slot(tail)] \in {tail, tail - Capacity, tail - Capacity + 1}
  <2>1. tail - Capacity \in Int /\ Slot(tail - Capacity) = Slot(tail)
    BY Typed, Sizes, SlotLap, SMT
  <2>2. CASE tail - Capacity \in (tail - Capacity)..(head - 1)
    BY <2>1, <2>2, Typed, Sizes, SMT DEF RingInv, SlotStates
  <2>3. CASE tail - Capacity \in head..(tail - 1)
    BY <2>1, <2>3, Typed, Sizes DEF RingInv, SlotStates
  <2> QED
    BY <2>1, <2>2, <2>3, Typed, Sizes, SMT
<1>5. idx[t] = tail
  BY <1>1 DEF RingInv, LocksAndLoads
<1>6. LocksAndLoads'
  BY <1>1, <1>5, Typed DEF RingInv, LocksAndLoads
<1>7. ObservedSequence'
  BY <1>1, <1>4, <1>5, Typed DEF RingInv, ObservedSequence
<1> QED
  BY <1>3, <1>6, <1>7 DEF RingInv

\* push() starts over.
LEMMA PushRetryStep ==
  ASSUME RingInv, TypeOK', NEW t \in Threads, PushRetry(t)
  PROVE  RingInv'
<1>1. /\ pc[t] = "push_loaded" /\ pc' = [pc EXCEPT ![t] = "push_load"]
      /\ UNCHANGED <<seq, val, head, tail, headLock, tailLock, idx, arg, seen, alive>>
  BY DEF PushRetry, Goto, shared, slots
<1>2. alive
  BY <1>1, BusyAlive
<1>3. IndexWindow' /\ Owners' /\ SlotStates' /\ SlotValues'
  <2>1. ~Owning(t) /\ ~Owning(t)'
    BY <1>1, Typed DEF Owning, Producing, Consuming
  <2>2. \A u \in Threads \ {t} : pc'[u] = pc[u] /\ idx'[u] = idx[u]
    BY <1>1, Typed
  <2> QED
    BY <1>1, <1>2, <2>1, <2>2, NoClaimFrame
<1>4. LocksAndLoads'
  BY <1>1, Typed, NamesAssumption, ValuesAssumption DEF RingInv, LocksAndLoads
<1>5. ObservedSequence'
  BY <1>1, Typed DEF RingInv, ObservedSequence
<1> QED
  BY <1>3, <1>4, <1>5 DEF RingInv

\* push() finds the queue full.
LEMMA PushFullStep ==
  ASSUME RingInv, TypeOK', NEW t \in Threads, PushFull(t)
  PROVE  RingInv'
<1>1. /\ pc[t] = "push_loaded" /\ pc' = [pc EXCEPT ![t] = "idle"] /\ tailLock' = NoThread
      /\ idx' = [idx EXCEPT ![t] = 0] /\ seen' = [seen EXCEPT ![t] = 0]
      /\ arg' = [arg EXCEPT ![t] = <<NoKey, NoValue>>]
      /\ UNCHANGED <<seq, val, head, tail, headLock, alive>>
  BY DEF PushFull, Return, Goto, slots
<1>2. alive
  BY <1>1, BusyAlive
<1>3. IndexWindow' /\ Owners' /\ SlotStates' /\ SlotValues'
  <2>1. ~Owning(t) /\ ~Owning(t)'
    BY <1>1, Typed DEF Owning, Producing, Consuming
  <2>2. \A u \in Threads \ {t} : pc'[u] = pc[u] /\ idx'[u] = idx[u]
    BY <1>1, Typed
  <2> QED
    BY <1>1, <1>2, <2>1, <2>2, NoClaimFrame
<1>4. LocksAndLoads'
  BY <1>1, Typed, NamesAssumption, ValuesAssumption DEF RingInv, LocksAndLoads
<1>5. ObservedSequence'
  BY <1>1, Typed DEF RingInv, ObservedSequence
<1> QED
  BY <1>3, <1>4, <1>5 DEF RingInv

\* Entering pop().
LEMMA PopLockStep ==
  ASSUME RingInv, TypeOK', NEW t \in Threads, PopLock(t)
  PROVE  RingInv'
<1>1. /\ pc[t] = "idle" /\ alive /\ headLock = NoThread /\ headLock' = t
      /\ pc' = [pc EXCEPT ![t] = "pop_load"] /\ idx' = [idx EXCEPT ![t] = head]
      /\ UNCHANGED <<seq, val, head, tail, tailLock, arg, seen, alive>>
  BY DEF PopLock, Goto, slots
<1>2. alive
  BY <1>1, BusyAlive
<1>3. IndexWindow' /\ Owners' /\ SlotStates' /\ SlotValues'
  <2>1. ~Owning(t) /\ ~Owning(t)'
    BY <1>1, Typed DEF Owning, Producing, Consuming
  <2>2. \A u \in Threads \ {t} : pc'[u] = pc[u] /\ idx'[u] = idx[u]
    BY <1>1, Typed
  <2> QED
    BY <1>1, <1>2, <2>1, <2>2, NoClaimFrame
<1>4. LocksAndLoads'
  BY <1>1, Typed, NamesAssumption, ValuesAssumption DEF RingInv, LocksAndLoads
<1>5. ObservedSequence'
  BY <1>1, Typed DEF RingInv, ObservedSequence
<1> QED
  BY <1>3, <1>4, <1>5 DEF RingInv

\* pop() reads the head and the slot.
LEMMA PopLoadStep ==
  ASSUME RingInv, TypeOK', NEW t \in Threads, PopLoad(t)
  PROVE  RingInv'
<1>1. /\ pc[t] = "pop_load" /\ pc' = [pc EXCEPT ![t] = "pop_loaded"]
      /\ seen' = [seen EXCEPT ![t] = seq[Slot(idx[t])]]
      /\ UNCHANGED <<seq, val, head, tail, headLock, tailLock, idx, arg, alive>>
  BY DEF PopLoad, LoadSeq, Goto, shared, slots
<1>2. alive
  BY <1>1, BusyAlive
<1>3. IndexWindow' /\ Owners' /\ SlotStates' /\ SlotValues'
  <2>1. ~Owning(t) /\ ~Owning(t)'
    BY <1>1, Typed DEF Owning, Producing, Consuming
  <2>2. \A u \in Threads \ {t} : pc'[u] = pc[u] /\ idx'[u] = idx[u]
    BY <1>1, Typed
  <2> QED
    BY <1>1, <1>2, <2>1, <2>2, NoClaimFrame
<1>4. /\ seq[Slot(head)] \in {head + 1, head, head - Capacity + 1}
      /\ seq[Slot(head)] = head + 1 => head < tail
  <2>1. head - Capacity \in Int /\ Slot(head - Capacity) = Slot(head)
    BY Typed, Sizes, SlotLap, SMT
  <2>2. head <= tail /\ tail <= head + Capacity
    BY DEF RingInv, IndexWindow
  <2>3. CASE head < tail
    BY <2>3, Typed, Sizes, SMT DEF RingInv, SlotStates
  <2>4. CASE head = tail
    <3>1. head - Capacity \in (tail - Capacity)..(head - 1)
      BY <2>1, <2>4, Typed, Sizes, SMT
    <3>2. seq[Slot(head)] = head \/ seq[Slot(head)] = head - Capacity + 1
      BY <2>1, <3>1, Typed, Sizes, SMT DEF RingInv, SlotStates
    <3> QED
      BY <3>2, Typed, Sizes, SMT
  <2>5. head \in Nat /\ tail \in Nat
    BY Typed
  <2>6. head < tail \/ head = tail
    BY <2>2, <2>5, SMT
  <2> QED
    BY <2>3, <2>4, <2>6
<1>5. idx[t] = head
  BY <1>1 DEF RingInv, LocksAndLoads
<1>6. LocksAndLoads'
  BY <1>1, <1>4, <1>5, Typed DEF RingInv, LocksAndLoads
<1>7. ObservedSequence'
  BY <1>1, <1>4, <1>5, Typed DEF RingInv, ObservedSequence
<1> QED
  BY <1>3, <1>6, <1>7 DEF RingInv

\* pop() finds the queue empty.
LEMMA PopEmptyStep ==
  ASSUME RingInv, TypeOK', NEW t \in Threads, PopEmpty(t)
  PROVE  RingInv'
<1>1. /\ pc[t] = "pop_loaded" /\ pc' = [pc EXCEPT ![t] = "idle"] /\ headLock' = NoThread
      /\ idx' = [idx EXCEPT ![t] = 0] /\ seen' = [seen EXCEPT ![t] = 0]
      /\ arg' = [arg EXCEPT ![t] = <<NoKey, NoValue>>]
      /\ UNCHANGED <<seq, val, head, tail, tailLock, alive>>
  BY DEF PopEmpty, Return, Goto, slots
<1>2. alive
  BY <1>1, BusyAlive
<1>3. IndexWindow' /\ Owners' /\ SlotStates' /\ SlotValues'
  <2>1. ~Owning(t) /\ ~Owning(t)'
    BY <1>1, Typed DEF Owning, Producing, Consuming
  <2>2. \A u \in Threads \ {t} : pc'[u] = pc[u] /\ idx'[u] = idx[u]
    BY <1>1, Typed
  <2> QED
    BY <1>1, <1>2, <2>1, <2>2, NoClaimFrame
<1>4. LocksAndLoads'
  BY <1>1, Typed, NamesAssumption, ValuesAssumption DEF RingInv, LocksAndLoads
<1>5. ObservedSequence'
  BY <1>1, Typed DEF RingInv, ObservedSequence
<1> QED
  BY <1>3, <1>4, <1>5 DEF RingInv

\* Entering empty().
LEMMA EmptyLockStep ==
  ASSUME RingInv, TypeOK', NEW t \in Threads, EmptyLock(t)
  PROVE  RingInv'
<1>1. /\ pc[t] = "idle" /\ alive /\ headLock = NoThread /\ headLock' = t
      /\ pc' = [pc EXCEPT ![t] = "empty_load"]
      /\ UNCHANGED <<seq, val, head, tail, tailLock, idx, arg, seen, alive>>
  BY DEF EmptyLock, Goto, slots
<1>2. alive
  BY <1>1, BusyAlive
<1>3. IndexWindow' /\ Owners' /\ SlotStates' /\ SlotValues'
  <2>1. ~Owning(t) /\ ~Owning(t)'
    BY <1>1, Typed DEF Owning, Producing, Consuming
  <2>2. \A u \in Threads \ {t} : pc'[u] = pc[u] /\ idx'[u] = idx[u]
    BY <1>1, Typed
  <2> QED
    BY <1>1, <1>2, <2>1, <2>2, NoClaimFrame
<1>4. LocksAndLoads'
  BY <1>1, Typed, NamesAssumption, ValuesAssumption DEF RingInv, LocksAndLoads
<1>5. ObservedSequence'
  BY <1>1, Typed DEF RingInv, ObservedSequence
<1> QED
  BY <1>3, <1>4, <1>5 DEF RingInv

\* empty() answers.
LEMMA EmptyReturnStep ==
  ASSUME RingInv, TypeOK', NEW t \in Threads, EmptyReturn(t)
  PROVE  RingInv'
<1>1. /\ pc[t] = "empty_load" /\ pc' = [pc EXCEPT ![t] = "idle"] /\ headLock' = NoThread
      /\ idx' = [idx EXCEPT ![t] = 0] /\ seen' = [seen EXCEPT ![t] = 0]
      /\ arg' = [arg EXCEPT ![t] = <<NoKey, NoValue>>]
      /\ UNCHANGED <<seq, val, head, tail, tailLock, alive>>
  BY DEF EmptyReturn, Return, Goto, slots
<1>2. alive
  BY <1>1, BusyAlive
<1>3. IndexWindow' /\ Owners' /\ SlotStates' /\ SlotValues'
  <2>1. ~Owning(t) /\ ~Owning(t)'
    BY <1>1, Typed DEF Owning, Producing, Consuming
  <2>2. \A u \in Threads \ {t} : pc'[u] = pc[u] /\ idx'[u] = idx[u]
    BY <1>1, Typed
  <2> QED
    BY <1>1, <1>2, <2>1, <2>2, NoClaimFrame
<1>4. LocksAndLoads'
  BY <1>1, Typed, NamesAssumption, ValuesAssumption DEF RingInv, LocksAndLoads
<1>5. ObservedSequence'
  BY <1>1, Typed DEF RingInv, ObservedSequence
<1> QED
  BY <1>3, <1>4, <1>5 DEF RingInv

\* Two indices of the window that ends at the tail have different slots.
LEMMA WindowDistinct ==
  ASSUME RingInv,
         NEW i \in (tail - Capacity)..(tail - 1),
         NEW j \in (tail - Capacity)..(tail - 1), i # j
  PROVE  Slot(i) # Slot(j)
<1>1. tail \in Nat /\ Capacity \in Nat
  BY Typed, Sizes
<1>2. i \in Int /\ j \in Int /\ i < j + Capacity /\ j < i + Capacity
  BY <1>1, SMT
<1> QED
  BY <1>2, SlotInjective

\* The bounds every step starts from.
LEMMA Bounds ==
  ASSUME RingInv
  PROVE  /\ head \in Int /\ tail \in Int /\ Capacity \in Int
         /\ 2 <= Capacity /\ head <= tail /\ tail <= head + Capacity
<1>1. head \in Nat /\ tail \in Nat
  BY Typed
<1>2. Capacity \in Nat \ {0, 1}
  BY Sizes
<1>3. head <= tail /\ tail <= head + Capacity
  BY DEF RingInv, IndexWindow
<1> QED
  BY <1>1, <1>2, <1>3, SMT

\* A claimed index is in the window.
LEMMA OwnedInWindow ==
  ASSUME RingInv, NEW t \in Threads, Owning(t)
  PROVE  idx[t] \in (tail - Capacity)..(tail - 1)
<1>1. CASE Producing(t)
  <2>1. idx[t] \in head..(tail - 1)
    BY <1>1 DEF RingInv, Owners
  <2> QED
    BY <2>1, Bounds, SMT
<1>2. CASE Consuming(t)
  <2>1. idx[t] \in (tail - Capacity)..(head - 1)
    BY <1>2 DEF RingInv, Owners
  <2> QED
    BY <2>1, Bounds, SMT
<1> QED
  BY <1>1, <1>2 DEF Owning

\* The slots of two owners differ, and so does the slot of any other index.
LEMMA OwnedDistinct ==
  ASSUME RingInv, NEW t \in Threads, Owning(t)
  PROVE  /\ \A u \in Threads \ {t} : Owning(u) => Slot(idx[u]) # Slot(idx[t])
         /\ \A i \in (tail - Capacity)..(tail - 1) :
              i # idx[t] => Slot(i) # Slot(idx[t])
<1>1. \A i \in (tail - Capacity)..(tail - 1) : i # idx[t] => Slot(i) # Slot(idx[t])
  BY OwnedInWindow, WindowDistinct
<1>2. ASSUME NEW u \in Threads \ {t}, Owning(u)
      PROVE  Slot(idx[u]) # Slot(idx[t])
  <2>1. idx[u] # idx[t]
    BY <1>2 DEF RingInv, Owners
  <2> QED
    BY <1>1, <1>2, <2>1, OwnedInWindow
<1> QED
  BY <1>1, <1>2

\* push() claims a slot.
LEMMA PushClaimStep ==
  ASSUME RingInv, TypeOK', NEW t \in Threads, PushClaim(t)
  PROVE  RingInv'
<1>1. /\ pc[t] = "push_loaded" /\ pc' = [pc EXCEPT ![t] = "push_claimed"]
      /\ SlotFree(t) /\ tail' = tail + 1 /\ tailLock' = NoThread
      /\ UNCHANGED <<seq, val, head, headLock, idx, seen, arg, alive>>
  BY DEF PushClaim, Goto
<1>2. idx[t] = tail /\ tailLock = t /\ seq[Slot(tail)] = tail
  BY <1>1, GuardPush
<1>3. alive
  BY <1>1, BusyAlive
<1>4. /\ \A u \in Threads \ {t} : pc'[u] = pc[u]
      /\ pc'[t] = "push_claimed"
  BY <1>1, Typed
<1>5. Slot(tail - Capacity) = Slot(tail)
  BY Bounds, SlotLap
<1>6. tail < head + Capacity
  <2> SUFFICES ASSUME tail - Capacity \in head..(tail - 1)
               PROVE  FALSE
    BY Bounds, SMT
  <2>1. seq[Slot(tail - Capacity)] \in {tail - Capacity, tail - Capacity + 1}
    BY DEF RingInv, SlotStates
  <2> QED
    BY <1>2, <1>5, <2>1, Bounds, SMT
<1>7. \A u \in Threads : Consuming(u) => idx[u] # tail - Capacity
  <2>1. \A u \in Threads : Consuming(u) => seq[Slot(idx[u])] = idx[u] + 1
    BY DEF RingInv, Owners
  <2> QED
    BY <1>2, <1>5, <2>1, Bounds, SMT
<1>8. /\ \A u \in Threads : u # t => (Producing(u)' <=> Producing(u))
      /\ \A u \in Threads : Consuming(u)' <=> Consuming(u)
      /\ Producing(t)' /\ ~Owning(t)
  BY <1>1, <1>4 DEF Owning, Producing, Consuming
<1>9. IndexWindow'
  BY <1>1, <1>6, Bounds, SMT DEF IndexWindow
<1>10. LocksAndLoads'
  <2>1. ASSUME NEW u \in Threads
        PROVE  pc'[u] \notin {"push_load", "push_loaded"}
    BY <1>1, <1>2, <1>4, <2>1 DEF RingInv, LocksAndLoads
  <2> QED
    BY <1>1, <1>4, <2>1, Bounds, SMT DEF RingInv, LocksAndLoads
<1>11. Owners'
  <2>1. ASSUME NEW u \in Threads, Producing(u)'
        PROVE  idx'[u] \in head'..(tail' - 1) /\ seq'[Slot(idx'[u])] = idx'[u]
    <3>1. CASE u = t
      BY <1>1, <1>2, <3>1, Bounds, SMT
    <3>2. CASE u # t
      <4>1. idx[u] \in head..(tail - 1) /\ seq[Slot(idx[u])] = idx[u]
        BY <1>8, <2>1, <3>2 DEF RingInv, Owners
      <4> QED
        BY <1>1, <4>1, Bounds, SMT
    <3> QED
      BY <3>1, <3>2
  <2>2. ASSUME NEW u \in Threads, Consuming(u)'
        PROVE  /\ idx'[u] \in (tail' - Capacity)..(head' - 1)
               /\ seq'[Slot(idx'[u])] = idx'[u] + 1
    <3>1. idx[u] \in (tail - Capacity)..(head - 1) /\ seq[Slot(idx[u])] = idx[u] + 1
      BY <1>8, <2>2 DEF RingInv, Owners
    <3> QED
      BY <1>1, <1>7, <1>8, <2>2, <3>1, Bounds, SMT
  <2>3. ASSUME NEW u \in Threads, NEW w \in Threads, u # w, Owning(u)', Owning(w)'
        PROVE  idx'[u] # idx'[w]
    <3>1. \A x \in Threads : Owning(x) => idx[x] \in Int /\ idx[x] < tail
      BY OwnedInWindow, Bounds, SMT
    <3>2. (u = t \/ Owning(u)) /\ (w = t \/ Owning(w))
      BY <1>8, <2>3 DEF Owning
    <3> QED
      BY <1>1, <1>2, <2>3, <3>1, <3>2, Bounds, SMT DEF RingInv, Owners
  <2> QED
    BY <2>1, <2>2, <2>3 DEF Owners
<1>12. SlotStates'
  <2>1. ASSUME NEW i \in head'..(tail' - 1)
        PROVE  \/ seq'[Slot(i)] = i + 1
               \/ seq'[Slot(i)] = i /\ \E u \in Threads : Producing(u)' /\ idx'[u] = i
    <3>1. CASE i = tail
      BY <1>1, <1>2, <1>8, <3>1
    <3>2. CASE i \in head..(tail - 1)
      BY <1>1, <1>8, <3>2 DEF RingInv, SlotStates, Owning
    <3> QED
      BY <1>1, <2>1, <3>1, <3>2, Bounds, SMT
  <2>2. ASSUME NEW i \in (tail' - Capacity)..(head' - 1)
        PROVE  \/ seq'[Slot(i)] = i + Capacity
               \/ seq'[Slot(i)] = i + 1 /\ \E u \in Threads : Consuming(u)' /\ idx'[u] = i
    <3>1. i \in (tail - Capacity)..(head - 1)
      BY <1>1, <2>2, Bounds, SMT
    <3> QED
      BY <1>1, <1>8, <3>1 DEF RingInv, SlotStates
  <2> QED
    BY <2>1, <2>2 DEF SlotStates
<1>13. SlotValues'
  <2>1. ASSUME NEW i \in head'..(tail' - 1)
        PROVE  val'[Slot(i)] # NoValue <=>
                 ~ \E u \in Threads : pc'[u] = "push_claimed" /\ idx'[u] = i
    <3>1. CASE i = tail
      <4>1. tail - Capacity \in (tail - Capacity)..(head - 1)
        BY <1>6, Bounds, SMT
      <4>2. val[Slot(tail)] = NoValue
        BY <1>3, <1>5, <1>7, <4>1 DEF RingInv, SlotValues, Consuming
      <4> QED
        BY <1>1, <1>2, <1>4, <3>1, <4>2
    <3>2. CASE i \in head..(tail - 1)
      <4>1. i # tail
        BY <3>2, Bounds, SMT
      <4> QED
        BY <1>1, <1>2, <1>3, <1>4, <3>2, <4>1, SMT DEF RingInv, SlotValues
    <3> QED
      BY <1>1, <2>1, <3>1, <3>2, Bounds, SMT
  <2>2. ASSUME NEW i \in (tail' - Capacity)..(head' - 1)
        PROVE  val'[Slot(i)] # NoValue <=>
                 \E u \in Threads : pc'[u] = "pop_claimed" /\ idx'[u] = i
    <3>1. i \in (tail - Capacity)..(head - 1)
      BY <1>1, <2>2, Bounds, SMT
    <3> QED
      BY <1>1, <1>3, <1>4, <3>1, SMT DEF RingInv, SlotValues
  <2> QED
    BY <1>1, <1>3, <2>1, <2>2 DEF SlotValues
<1>14. ObservedSequence'
  BY <1>1, <1>4 DEF RingInv, ObservedSequence
<1> QED
  BY <1>9, <1>10, <1>11, <1>12, <1>13, <1>14 DEF RingInv

\* push() constructs the element in it.
LEMMA PushConstructStep ==
  ASSUME RingInv, TypeOK', NEW t \in Threads, PushConstruct(t)
  PROVE  RingInv'
<1>1. /\ pc[t] = "push_claimed" /\ pc' = [pc EXCEPT ![t] = "push_committing"]
      /\ val' = [val EXCEPT ![Slot(idx[t])] = arg[t][2]]
      /\ UNCHANGED <<seq, head, tail, headLock, tailLock, idx, seen, arg, alive>>
  BY DEF PushConstruct, Goto
<1>2. alive
  BY <1>1, BusyAlive
<1>3. /\ \A u \in Threads \ {t} : pc'[u] = pc[u]
      /\ pc'[t] = "push_committing"
  BY <1>1, Typed
<1>4. \A u \in Threads :
        (Producing(u)' <=> Producing(u)) /\ (Consuming(u)' <=> Consuming(u))
  BY <1>1, <1>3 DEF Producing, Consuming
<1>5. Owning(t) /\ Producing(t)
  BY <1>1 DEF Owning, Producing
<1>6. /\ idx[t] \in Int /\ Slot(idx[t]) \in Slots
      /\ val'[Slot(idx[t])] # NoValue
      /\ \A i \in (tail - Capacity)..(tail - 1) :
           i # idx[t] => val'[Slot(i)] = val[Slot(i)]
  <2>1. idx[t] \in Int /\ Slot(idx[t]) \in Slots
    BY Typed, SlotType, SMT
  <2>2. arg[t] \in Keys \X Values
    BY <1>1 DEF RingInv, LocksAndLoads
  <2>3. \A i \in (tail - Capacity)..(tail - 1) : Slot(i) \in Slots
    BY Bounds, SlotType, SMT
  <2> QED
    BY <1>1, <1>5, <2>1, <2>2, <2>3, Typed, OwnedDistinct, NamesAssumption, ValuesAssumption
<1>7. idx[t] \in head..(tail - 1)
  BY <1>5 DEF RingInv, Owners
<1>8. IndexWindow' /\ ObservedSequence' /\ LocksAndLoads'
  BY <1>1, <1>3 DEF RingInv, IndexWindow, ObservedSequence, LocksAndLoads
<1>9. Owners'
  BY <1>1, <1>4 DEF RingInv, Owners, Owning
<1>10. SlotStates'
  BY <1>1, <1>4 DEF RingInv, SlotStates
<1>11. SlotValues'
  <2>1. ASSUME NEW i \in head..(tail - 1)
        PROVE  val'[Slot(i)] # NoValue <=>
                 ~ \E u \in Threads : pc'[u] = "push_claimed" /\ idx'[u] = i
    <3>1. CASE i = idx[t]
      <4>1. ~ \E u \in Threads : pc'[u] = "push_claimed" /\ idx'[u] = i
        BY <1>1, <1>3, <1>5, <3>1 DEF RingInv, Owners, Owning, Producing
      <4> QED
        BY <1>6, <3>1, <4>1
    <3>2. CASE i # idx[t]
      <4>1. i \in (tail - Capacity)..(tail - 1)
        BY Bounds, SMT
      <4> QED
        BY <1>1, <1>2, <1>3, <1>6, <3>2, <4>1, SMT DEF RingInv, SlotValues
    <3> QED
      BY <3>1, <3>2
  <2>2. ASSUME NEW i \in (tail - Capacity)..(head - 1)
        PROVE  val'[Slot(i)] # NoValue <=>
                 \E u \in Threads : pc'[u] = "pop_claimed" /\ idx'[u] = i
    <3>1. i \in (tail - Capacity)..(tail - 1) /\ i # idx[t]
      BY <1>7, Bounds, SMT
    <3> QED
      BY <1>1, <1>2, <1>3, <1>6, <3>1, SMT DEF RingInv, SlotValues
  <2> QED
    BY <1>1, <1>2, <2>1, <2>2 DEF SlotValues
<1> QED
  BY <1>8, <1>9, <1>10, <1>11 DEF RingInv

\* pop() moves the element out.
LEMMA PopDrainStep ==
  ASSUME RingInv, TypeOK', NEW t \in Threads, PopDrain(t)
  PROVE  RingInv'
<1>1. /\ pc[t] = "pop_claimed" /\ pc' = [pc EXCEPT ![t] = "pop_releasing"]
      /\ val' = [val EXCEPT ![Slot(idx[t])] = NoValue]
      /\ UNCHANGED <<seq, head, tail, headLock, tailLock, idx, seen, arg, alive>>
  BY DEF PopDrain, Goto
<1>2. alive
  BY <1>1, BusyAlive
<1>3. /\ \A u \in Threads \ {t} : pc'[u] = pc[u]
      /\ pc'[t] = "pop_releasing"
  BY <1>1, Typed
<1>4. \A u \in Threads :
        (Producing(u)' <=> Producing(u)) /\ (Consuming(u)' <=> Consuming(u))
  BY <1>1, <1>3 DEF Producing, Consuming
<1>5. Owning(t) /\ Consuming(t)
  BY <1>1 DEF Owning, Consuming
<1>6. /\ val'[Slot(idx[t])] = NoValue
      /\ \A i \in (tail - Capacity)..(tail - 1) :
           i # idx[t] => val'[Slot(i)] = val[Slot(i)]
  <2>1. idx[t] \in Int /\ Slot(idx[t]) \in Slots
    BY Typed, SlotType, SMT
  <2>2. \A i \in (tail - Capacity)..(tail - 1) : Slot(i) \in Slots
    BY Bounds, SlotType, SMT
  <2> QED
    BY <1>1, <1>5, <2>1, <2>2, Typed, OwnedDistinct
<1>7. idx[t] \in (tail - Capacity)..(head - 1)
  BY <1>5 DEF RingInv, Owners
<1>8. IndexWindow' /\ ObservedSequence' /\ LocksAndLoads'
  BY <1>1, <1>3, SMT DEF RingInv, IndexWindow, ObservedSequence, LocksAndLoads
<1>9. Owners'
  BY <1>1, <1>4 DEF RingInv, Owners, Owning
<1>10. SlotStates'
  BY <1>1, <1>4 DEF RingInv, SlotStates
<1>11. SlotValues'
  <2>1. ASSUME NEW i \in (tail - Capacity)..(head - 1)
        PROVE  val'[Slot(i)] # NoValue <=>
                 \E u \in Threads : pc'[u] = "pop_claimed" /\ idx'[u] = i
    <3>1. CASE i = idx[t]
      <4>1. ~ \E u \in Threads : pc'[u] = "pop_claimed" /\ idx'[u] = i
        BY <1>1, <1>3, <1>5, <3>1 DEF RingInv, Owners, Owning, Consuming
      <4> QED
        BY <1>6, <3>1, <4>1
    <3>2. CASE i # idx[t]
      <4>1. i \in (tail - Capacity)..(tail - 1)
        BY Bounds, SMT
      <4> QED
        BY <1>1, <1>2, <1>3, <1>6, <3>2, <4>1, SMT DEF RingInv, SlotValues
    <3> QED
      BY <3>1, <3>2
  <2>2. ASSUME NEW i \in head..(tail - 1)
        PROVE  val'[Slot(i)] # NoValue <=>
                 ~ \E u \in Threads : pc'[u] = "push_claimed" /\ idx'[u] = i
    <3>1. i \in (tail - Capacity)..(tail - 1) /\ i # idx[t]
      BY <1>7, Bounds, SMT
    <3> QED
      BY <1>1, <1>2, <1>3, <1>6, <3>1, SMT DEF RingInv, SlotValues
  <2> QED
    BY <1>1, <1>2, <2>1, <2>2 DEF SlotValues
<1> QED
  BY <1>8, <1>9, <1>10, <1>11 DEF RingInv

\* The last store of an owner, which gives its slot up: seq = i + 1 by the
\* producer of index i, seq = i + capacity by its consumer.
LEMMA FinishStep ==
  ASSUME RingInv, TypeOK', NEW t \in Threads, NEW s \in Nat,
         \/ pc[t] = "push_committing" /\ s = idx[t] + 1
         \/ pc[t] = "pop_releasing" /\ s = idx[t] + Capacity,
         seq' = [seq EXCEPT ![Slot(idx[t])] = s],
         pc' = [pc EXCEPT ![t] = "idle"], idx' = [idx EXCEPT ![t] = 0],
         seen' = [seen EXCEPT ![t] = 0],
         arg' = [arg EXCEPT ![t] = <<NoKey, NoValue>>],
         UNCHANGED <<val, head, tail, headLock, tailLock, alive>>
  PROVE  RingInv'
<1>1. /\ \A u \in Threads \ {t} :
           pc'[u] = pc[u] /\ idx'[u] = idx[u] /\ seen'[u] = seen[u] /\ arg'[u] = arg[u]
      /\ pc'[t] = "idle"
  BY Typed
<1>2. alive
  BY BusyAlive
<1>3. /\ \A u \in Threads \ {t} :
           (Producing(u)' <=> Producing(u)) /\ (Consuming(u)' <=> Consuming(u))
      /\ ~Producing(t)' /\ ~Consuming(t)'
  BY <1>1 DEF Producing, Consuming
<1>4. /\ Owning(t)
      /\ pc[t] = "push_committing" => Producing(t) /\ ~Consuming(t)
      /\ pc[t] = "pop_releasing" => Consuming(t) /\ ~Producing(t)
  BY DEF Owning, Producing, Consuming
<1>5. /\ idx[t] \in Int /\ Slot(idx[t]) \in Slots
      /\ seq'[Slot(idx[t])] = s
      /\ \A i \in (tail - Capacity)..(tail - 1) :
           i # idx[t] => seq'[Slot(i)] = seq[Slot(i)]
      /\ \A u \in Threads \ {t} : Owning(u) => seq'[Slot(idx[u])] = seq[Slot(idx[u])]
  <2>1. idx[t] \in Int /\ Slot(idx[t]) \in Slots
    BY Typed, SlotType, SMT
  <2>2. \A i \in (tail - Capacity)..(tail - 1) : Slot(i) \in Slots
    BY Bounds, SlotType, SMT
  <2>3. \A u \in Threads : Slot(idx[u]) \in Slots
    BY Typed, SlotType, SMT
  <2> QED
    BY <1>4, <2>1, <2>2, <2>3, Typed, OwnedDistinct
<1>6. IndexWindow' /\ ObservedSequence'
  BY <1>1 DEF RingInv, IndexWindow, ObservedSequence
<1>7. LocksAndLoads'
  <2>1. seq[Slot(idx[t])] \in {idx[t], idx[t] + 1} /\ idx[t] < tail
    BY <1>4, <1>5, OwnedInWindow, Bounds, SMT DEF RingInv, Owners
  <2>2. seq[Slot(tail)] = tail => seq'[Slot(tail)] = tail
    <3>1. ASSUME seq[Slot(tail)] = tail, Slot(tail) = Slot(idx[t])
          PROVE  FALSE
      <4>1. idx[t] = tail - 1
        BY <1>5, <2>1, <3>1, Bounds, SMT
      <4> QED
        BY <1>5, <3>1, <4>1, Bounds, SlotInjective, SMT
    <3>2. Slot(tail) \in Slots
      BY Bounds, SlotType
    <3> QED
      BY <3>1, <3>2, Typed
  <2>3. seq[Slot(head)] = head + 1 /\ head < tail => seq'[Slot(head)] = head + 1
    <3>1. ASSUME seq[Slot(head)] = head + 1, Slot(head) = Slot(idx[t]), head < tail
          PROVE  FALSE
      <4>1. head \in (tail - Capacity)..(tail - 1)
        BY <3>1, Bounds, SMT
      <4>2. idx[t] = head
        BY <1>4, <3>1, <4>1, OwnedDistinct
      <4>3. Producing(t)
        BY <1>4, <4>2, Bounds, SMT DEF RingInv, Owners, Owning
      <4> QED
        BY <3>1, <4>2, <4>3, Bounds, SMT DEF RingInv, Owners
    <3>2. Slot(head) \in Slots
      BY Bounds, SlotType
    <3> QED
      BY <3>1, <3>2, Typed
  <2> QED
    BY <1>1, <2>2, <2>3, SMT DEF RingInv, LocksAndLoads
<1>8. Owners'
  BY <1>1, <1>3, <1>5, SMT DEF RingInv, Owners, Owning
<1>9. SlotStates'
  <2>1. ASSUME NEW i \in head..(tail - 1)
        PROVE  \/ seq'[Slot(i)] = i + 1
               \/ seq'[Slot(i)] = i /\ \E u \in Threads : Producing(u)' /\ idx'[u] = i
    <3>1. CASE i = idx[t]
      <4>1. Producing(t)
        BY <1>4, <3>1, Bounds, SMT DEF RingInv, Owners, Owning
      <4> QED
        BY <1>4, <1>5, <3>1, <4>1
    <3>2. CASE i # idx[t]
      <4>1. i \in (tail - Capacity)..(tail - 1)
        BY Bounds, SMT
      <4>2. seq'[Slot(i)] = seq[Slot(i)]
        BY <1>5, <3>2, <4>1
      <4> QED
        BY <1>1, <1>3, <3>2, <4>2, SMT DEF RingInv, SlotStates
    <3> QED
      BY <3>1, <3>2
  <2>2. ASSUME NEW i \in (tail - Capacity)..(head - 1)
        PROVE  \/ seq'[Slot(i)] = i + Capacity
               \/ seq'[Slot(i)] = i + 1 /\ \E u \in Threads : Consuming(u)' /\ idx'[u] = i
    <3>1. CASE i = idx[t]
      <4>1. Consuming(t)
        BY <1>4, <3>1, Bounds, SMT DEF RingInv, Owners, Owning
      <4> QED
        BY <1>4, <1>5, <3>1, <4>1
    <3>2. CASE i # idx[t]
      <4>1. i \in (tail - Capacity)..(tail - 1)
        BY Bounds, SMT
      <4>2. seq'[Slot(i)] = seq[Slot(i)]
        BY <1>5, <3>2, <4>1
      <4> QED
        BY <1>1, <1>3, <3>2, <4>2, SMT DEF RingInv, SlotStates
    <3> QED
      BY <3>1, <3>2
  <2> QED
    BY <2>1, <2>2 DEF SlotStates
<1>10. SlotValues'
  <2>1. \A u \in Threads, i \in Int :
          /\ pc'[u] = "push_claimed" /\ idx'[u] = i <=> pc[u] = "push_claimed" /\ idx[u] = i
          /\ pc'[u] = "pop_claimed" /\ idx'[u] = i <=> pc[u] = "pop_claimed" /\ idx[u] = i
    BY <1>1
  <2> QED
    BY <1>2, <2>1, Bounds, SMT DEF RingInv, SlotValues
<1> QED
  BY <1>6, <1>7, <1>8, <1>9, <1>10 DEF RingInv

\* push() publishes the element.
LEMMA PushCommitStep ==
  ASSUME RingInv, TypeOK', NEW t \in Threads, PushCommit(t)
  PROVE  RingInv'
<1>1. idx[t] + 1 \in Nat
  BY Typed, SMT
<1> QED
  BY <1>1, FinishStep DEF PushCommit, Return, Goto

\* pop() gives the slot back.
LEMMA PopReleaseStep ==
  ASSUME RingInv, TypeOK', NEW t \in Threads, PopRelease(t)
  PROVE  RingInv'
<1>1. idx[t] + Capacity \in Nat
  BY Typed, Sizes, SMT
<1> QED
  BY <1>1, FinishStep DEF PopRelease, Return, Goto

\* pop() claims a slot.
LEMMA PopClaimStep ==
  ASSUME RingInv, TypeOK', NEW t \in Threads, PopClaim(t)
  PROVE  RingInv'
<1>1. /\ pc[t] = "pop_loaded" /\ pc' = [pc EXCEPT ![t] = "pop_claimed"]
      /\ Committed(t) /\ head' = head + 1 /\ headLock' = NoThread
      /\ UNCHANGED <<seq, val, tail, tailLock, idx, seen, arg, alive>>
  BY DEF PopClaim, Goto
<1>2. /\ idx[t] = head /\ headLock = t
      /\ seq[Slot(head)] = head + 1 /\ head < tail
  BY <1>1, GuardPop
<1>3. alive
  BY <1>1, BusyAlive
<1>4. /\ \A u \in Threads \ {t} : pc'[u] = pc[u]
      /\ pc'[t] = "pop_claimed"
  BY <1>1, Typed
<1>5. \A u \in Threads : Producing(u) => idx[u] # head
  BY <1>2, Bounds, SMT DEF RingInv, Owners
<1>6. /\ \A u \in Threads : u # t => (Consuming(u)' <=> Consuming(u))
      /\ \A u \in Threads : Producing(u)' <=> Producing(u)
      /\ Consuming(t)' /\ ~Owning(t)
  BY <1>1, <1>4 DEF Owning, Producing, Consuming
<1>7. IndexWindow'
  BY <1>1, <1>2, Bounds, SMT DEF IndexWindow
<1>8. LocksAndLoads'
  <2>1. ASSUME NEW u \in Threads
        PROVE  pc'[u] \notin {"pop_load", "pop_loaded", "empty_load"}
    BY <1>1, <1>2, <1>4, <2>1 DEF RingInv, LocksAndLoads
  <2> QED
    BY <1>1, <1>4, <2>1 DEF RingInv, LocksAndLoads
<1>9. Owners'
  <2>1. ASSUME NEW u \in Threads, Producing(u)'
        PROVE  idx'[u] \in head'..(tail' - 1) /\ seq'[Slot(idx'[u])] = idx'[u]
    <3>1. idx[u] \in head..(tail - 1) /\ seq[Slot(idx[u])] = idx[u]
      BY <1>6, <2>1 DEF RingInv, Owners
    <3> QED
      BY <1>1, <1>5, <1>6, <2>1, <3>1, Bounds, SMT
  <2>2. ASSUME NEW u \in Threads, Consuming(u)'
        PROVE  /\ idx'[u] \in (tail' - Capacity)..(head' - 1)
               /\ seq'[Slot(idx'[u])] = idx'[u] + 1
    <3>1. CASE u = t
      BY <1>1, <1>2, <3>1, Bounds, SMT
    <3>2. CASE u # t
      <4>1. idx[u] \in (tail - Capacity)..(head - 1) /\ seq[Slot(idx[u])] = idx[u] + 1
        BY <1>6, <2>2, <3>2 DEF RingInv, Owners
      <4> QED
        BY <1>1, <4>1, Bounds, SMT
    <3> QED
      BY <3>1, <3>2
  <2>3. ASSUME NEW u \in Threads, NEW w \in Threads, u # w, Owning(u)', Owning(w)'
        PROVE  idx'[u] # idx'[w]
    <3>1. \A x \in Threads : Owning(x) => idx[x] # head
      BY <1>5, Bounds, SMT DEF RingInv, Owners, Owning
    <3>2. (u = t \/ Owning(u)) /\ (w = t \/ Owning(w))
      BY <1>6, <2>3 DEF Owning
    <3> QED
      BY <1>1, <1>2, <2>3, <3>1, <3>2 DEF RingInv, Owners
  <2> QED
    BY <2>1, <2>2, <2>3 DEF Owners
<1>10. SlotStates'
  <2>1. ASSUME NEW i \in head'..(tail' - 1)
        PROVE  \/ seq'[Slot(i)] = i + 1
               \/ seq'[Slot(i)] = i /\ \E u \in Threads : Producing(u)' /\ idx'[u] = i
    <3>1. i \in head..(tail - 1)
      BY <1>1, <2>1, Bounds, SMT
    <3> QED
      BY <1>1, <1>6, <3>1 DEF RingInv, SlotStates
  <2>2. ASSUME NEW i \in (tail' - Capacity)..(head' - 1)
        PROVE  \/ seq'[Slot(i)] = i + Capacity
               \/ seq'[Slot(i)] = i + 1 /\ \E u \in Threads : Consuming(u)' /\ idx'[u] = i
    <3>1. CASE i = head
      BY <1>1, <1>2, <1>6, <3>1
    <3>2. CASE i \in (tail - Capacity)..(head - 1)
      BY <1>1, <1>6, <3>2 DEF RingInv, SlotStates, Owning
    <3> QED
      BY <1>1, <2>2, <3>1, <3>2, Bounds, SMT
  <2> QED
    BY <2>1, <2>2 DEF SlotStates
<1>11. SlotValues'
  <2>1. ASSUME NEW i \in head'..(tail' - 1)
        PROVE  val'[Slot(i)] # NoValue <=>
                 ~ \E u \in Threads : pc'[u] = "push_claimed" /\ idx'[u] = i
    <3>1. i \in head..(tail - 1)
      BY <1>1, <2>1, Bounds, SMT
    <3> QED
      BY <1>1, <1>3, <1>4, <3>1, SMT DEF RingInv, SlotValues
  <2>2. ASSUME NEW i \in (tail' - Capacity)..(head' - 1)
        PROVE  val'[Slot(i)] # NoValue <=>
                 \E u \in Threads : pc'[u] = "pop_claimed" /\ idx'[u] = i
    <3>1. CASE i = head
      <4>1. head \in head..(tail - 1)
        BY <1>2, Bounds, SMT
      <4>2. val[Slot(head)] # NoValue
        BY <1>3, <1>5, <4>1 DEF RingInv, SlotValues, Producing
      <4> QED
        BY <1>1, <1>2, <1>4, <3>1, <4>2
    <3>2. CASE i \in (tail - Capacity)..(head - 1)
      <4>1. i # head
        BY <3>2, Bounds, SMT
      <4> QED
        BY <1>1, <1>2, <1>3, <1>4, <3>2, <4>1, SMT DEF RingInv, SlotValues
    <3> QED
      BY <1>1, <2>2, <3>1, <3>2, Bounds, SMT
  <2> QED
    BY <1>1, <1>3, <2>1, <2>2 DEF SlotValues
<1>12. ObservedSequence'
  BY <1>1, <1>4 DEF RingInv, ObservedSequence
<1> QED
  BY <1>7, <1>8, <1>9, <1>10, <1>11, <1>12 DEF RingInv

\* Every slot serves one index of the window that ends before n.
LEMMA SlotOnto ==
  ASSUME NEW n \in Int, NEW p \in Slots
  PROVE  \E i \in (n - Capacity)..(n - 1) : Slot(i) = p
<1> DEFINE d == (n - 1) - p
           q == d \div Capacity
           r == d % Capacity
           i == (n - 1) - r
<1>1. p \in 0..(Capacity - 1) /\ Capacity \in Nat \ {0}
  BY Sizes DEF Slots
<1>2. d \in Int
  BY <1>1, SMT
<1>3. q \in Int /\ r \in 0..(Capacity - 1) /\ d = Capacity * q + r
  BY <1>1, <1>2, DivMod
<1> HIDE DEF q, r
<1>4. i \in Int /\ i \in (n - Capacity)..(n - 1) /\ i = Capacity * q + p
  BY <1>1, <1>3, SMT
<1> HIDE DEF i
<1>5. i % Capacity = p
  BY <1>1, <1>3, <1>4, DivModUnique
<1> QED
  BY <1>4, <1>5, SlotMod

\* With no call in progress the live values are those of the queued indices.
LEMMA IdleValues ==
  ASSUME RingInv, alive, \A t \in Threads : pc[t] = "idle", NEW p \in Slots
  PROVE  val[p] # NoValue <=> \E i \in head..(tail - 1) : Slot(i) = p
<1>1. /\ \A i \in head..(tail - 1) : val[Slot(i)] # NoValue
      /\ \A i \in (tail - Capacity)..(head - 1) : val[Slot(i)] = NoValue
  BY DEF RingInv, SlotValues
<1>2. PICK i \in (tail - Capacity)..(tail - 1) : Slot(i) = p
  BY SlotOnto, Bounds
<1>3. i \in head..(tail - 1) \/ i \in (tail - Capacity)..(head - 1)
  BY <1>2, Bounds, SMT
<1> QED
  BY <1>1, <1>2, <1>3

\* The destructor.
LEMMA DestroyStep ==
  ASSUME RingInv, TypeOK', Destroy
  PROVE  RingInv'
<1>1. /\ alive /\ \A t \in Threads : pc[t] = "idle"
      /\ val' = [p \in Slots |-> IF \E i \in head..(tail - 1) : Slot(i) = p
                                 THEN NoValue ELSE val[p]]
      /\ alive' = FALSE
      /\ UNCHANGED <<seq, head, tail, headLock, tailLock, pc, idx, seen, arg>>
  BY DEF Destroy, local
<1>2. IndexWindow' /\ LocksAndLoads' /\ Owners' /\ SlotStates' /\ ObservedSequence'
  BY <1>1 DEF RingInv, IndexWindow, LocksAndLoads, Owners, SlotStates,
              ObservedSequence, Owning, Producing, Consuming
<1>3. SlotValues'
  BY <1>1, IdleValues DEF SlotValues
<1> QED
  BY <1>2, <1>3 DEF RingInv

\* A step that changes nothing.
LEMMA StutterStep ==
  ASSUME RingInv, UNCHANGED vars
  PROVE  RingInv'
<1>1. UNCHANGED <<seq, key, val, head, tail, headLock, tailLock, pc, idx, seen,
                  tries, arg, ret, out, alive>>
  BY DEF vars, shared, slots, local
<1>2. TypeOK'
  BY <1>1 DEF RingInv, TypeOK
<1>3. IndexWindow' /\ ObservedSequence'
  BY <1>1 DEF RingInv, IndexWindow, ObservedSequence
<1>4. LocksAndLoads'
  BY <1>1 DEF RingInv, LocksAndLoads
<1>5. Owners'
  BY <1>1 DEF RingInv, Owners, Owning, Producing, Consuming
<1>6. SlotStates'
  BY <1>1 DEF RingInv, SlotStates, Producing, Consuming
<1>7. SlotValues'
  BY <1>1 DEF RingInv, SlotValues
<1> QED
  BY <1>2, <1>3, <1>4, <1>5, <1>6, <1>7 DEF RingInv

\* RingInv holds in every state of every behaviour: the protocol of the slots'
\* sequence numbers is sound for any threads, capacity and index width.
THEOREM RingCorrect == Spec => []RingInv
<1>1. Init => RingInv
  BY RingInit
<1>2. RingInv /\ [Next]_vars => RingInv'
  <2> SUFFICES ASSUME RingInv, [Next]_vars
               PROVE  RingInv'
    OBVIOUS
  <2>1. TypeOK'
    BY TypeStep DEF RingInv
  <2>2. ASSUME NEW t \in Threads, Call(t)
        PROVE  RingInv'
    BY <2>1, <2>2, PushLockStep, PopLockStep, EmptyLockStep DEF Call
  <2>3. ASSUME NEW t \in Threads, PushStep(t)
        PROVE  RingInv'
    BY <2>1, <2>3, PushLoadStep, PushRetryStep, PushFullStep, PushClaimStep,
       PushConstructStep, PushCommitStep DEF PushStep
  <2>4. ASSUME NEW t \in Threads, PopStep(t)
        PROVE  RingInv'
    BY <2>1, <2>4, PopLoadStep, PopEmptyStep, PopClaimStep, PopDrainStep,
       PopReleaseStep DEF PopStep
  <2>5. ASSUME NEW t \in Threads, EmptyReturn(t)
        PROVE  RingInv'
    BY <2>1, <2>5, EmptyReturnStep
  <2>6. CASE Destroy
    BY <2>1, <2>6, DestroyStep
  <2>7. CASE UNCHANGED vars
    BY <2>7, StutterStep
  <2> QED
    BY <2>2, <2>3, <2>4, <2>5, <2>6, <2>7 DEF Next, Continue, Destroyed
<1> QED
  BY <1>1, <1>2, PTL DEF Spec

------------------------------------------------------------------------------
(* What follows                                                             *)

\* The index invariant of the class comment, for every interleaving.
THEOREM IndexWindowHolds == Spec => []IndexWindow
BY RingCorrect, PTL DEF RingInv

\* The loads under the locks return only the values the class comment lists.
THEOREM ObservedSequenceHolds == Spec => []ObservedSequence
BY RingCorrect, PTL DEF RingInv

\* Threads that construct or drain values outside the locks never share a slot.
THEOREM SlotOwnershipHolds == Spec => []SlotOwnership
<1>1. RingInv => SlotOwnership
  BY OwnedDistinct DEF SlotOwnership
<1> QED
  BY <1>1, RingCorrect, PTL

\* A value is constructed only in raw storage and moved out only when live.
THEOREM ValueLifetimeHolds == Spec => []ValueLifetime
<1>1. ASSUME RingInv, NEW t \in Threads, pc[t] = "push_claimed"
      PROVE  val[Slot(idx[t])] = NoValue
  <2>1. idx[t] \in head..(tail - 1)
    BY <1>1 DEF RingInv, Owners, Producing
  <2>2. alive
    BY <1>1, BusyAlive
  <2> QED
    BY <1>1, <2>1, <2>2 DEF RingInv, SlotValues
<1>2. ASSUME RingInv, NEW t \in Threads, pc[t] = "pop_claimed"
      PROVE  val[Slot(idx[t])] # NoValue
  <2>1. idx[t] \in (tail - Capacity)..(head - 1)
    BY <1>2 DEF RingInv, Owners, Consuming
  <2>2. alive
    BY <1>2, BusyAlive
  <2> QED
    BY <1>2, <2>1, <2>2 DEF RingInv, SlotValues
<1>3. RingInv => ValueLifetime
  BY <1>1, <1>2 DEF ValueLifetime
<1> QED
  BY <1>3, RingCorrect, PTL

\* The destructor finds exactly the values it destroys.
THEOREM ValuesAtQuiescenceHolds == Spec => []ValuesAtQuiescence
<1>1. RingInv => ValuesAtQuiescence
  BY IdleValues DEF ValuesAtQuiescence, RingInv, SlotValues
<1> QED
  BY <1>1, RingCorrect, PTL

\* "Empty" is answered only with nothing queued or its oldest element uncommitted.
THEOREM EmptyAnswerHolds == Spec => []EmptyAnswer
<1>1. ASSUME RingInv, HeadUncommitted, head # tail
      PROVE  \E t \in Threads : Producing(t) /\ idx[t] = head
  <2>1. head \in head..(tail - 1)
    BY <1>1, Bounds, SMT
  <2>2. seq[Slot(head)] # head + 1
    BY <1>1 DEF HeadUncommitted
  <2> QED
    BY <1>1, <2>1, <2>2 DEF RingInv, SlotStates
<1>2. RingInv => EmptyAnswer
  BY <1>1 DEF EmptyAnswer
<1> QED
  BY <1>2, RingCorrect, PTL

\* A head slot still being drained means that nothing is queued.
THEOREM DrainingMeansEmptyHolds == Spec => []DrainingMeansEmpty
<1>1. ASSUME RingInv, head # tail,
             Wrap(seq[Slot(head)]) = Wrap(head + IndexMod - Capacity + 1)
      PROVE  FALSE
  <2> DEFINE d == head - Capacity + 1
  <2>1. d \in Int /\ head + IndexMod - Capacity + 1 = d + IndexMod
    <3>1. head \in Int /\ Capacity \in Int /\ IndexMod \in Int
      BY <1>1, Bounds, Sizes, SMT
    <3> QED
      BY <3>1, SMT
  <2>2. Wrap(d + IndexMod) = Wrap(d)
    BY <2>1, Sizes, ModPeriodic DEF Wrap
  <2>3. head \in head..(tail - 1)
    BY <1>1, Bounds, SMT
  <2>4. seq[Slot(head)] \in {head, head + 1}
    BY <1>1, <2>3 DEF RingInv, SlotStates
  <2>5. /\ seq[Slot(head)] \in Int
        /\ seq[Slot(head)] < d + IndexMod /\ d < seq[Slot(head)] + IndexMod
    BY <1>1, <2>4, Bounds, Sizes, SMT
  <2>6. seq[Slot(head)] = d
    BY <1>1, <2>1, <2>2, <2>5, WrapInjective
  <2>7. head \in Int /\ Capacity \in Int /\ 2 <= Capacity
    BY <1>1, Bounds
  <2> QED
    BY <2>1, <2>4, <2>6, <2>7, SMT
<1>2. RingInv => DrainingMeansEmpty
  BY <1>1 DEF DrainingMeansEmpty
<1> QED
  BY <1>2, RingCorrect, PTL

\* "Full" is answered only with capacity elements queued or the consumer of
\* the previous lap still in the slot.
THEOREM FullAnswerHolds == Spec => []FullAnswer
<1>1. ASSUME RingInv, TailBlocked, tail # head + Capacity
      PROVE  \E t \in Threads : Consuming(t) /\ idx[t] = tail - Capacity
  <2>1. tail - Capacity \in (tail - Capacity)..(head - 1)
    BY <1>1, Bounds, SMT
  <2>2. Slot(tail - Capacity) = Slot(tail) /\ tail - Capacity + Capacity = tail
    BY <1>1, Bounds, SlotLap, SMT
  <2>3. seq[Slot(tail)] # tail
    BY <1>1 DEF TailBlocked
  <2> QED
    BY <1>1, <2>1, <2>2, <2>3 DEF RingInv, SlotStates
<1>2. RingInv => FullAnswer
  BY <1>1 DEF FullAnswer
<1> QED
  BY <1>2, RingCorrect, PTL

\* pop() and empty() are right about empty, push() about full.
THEOREM RightAnswersHold == Spec => []RightAnswers
  BY EmptyAnswerHolds, FullAnswerHolds, PTL DEF RightAnswers

------------------------------------------------------------------------------
(* Sequences                                                                *)

\* The empty sequence is the one of length zero.
LEMMA NoItems ==
  ASSUME NEW S
  PROVE  <<>> \in Seq(S) /\ Len(<<>>) = 0 /\ \A q \in Seq(S) : Len(q) = 0 => q = <<>>
BY SMT

\* Sequences with the same elements in the same places are the same.
LEMMA SameItems ==
  ASSUME NEW S, NEW p \in Seq(S), NEW q \in Seq(S), Len(p) = Len(q),
         \A n \in 1..Len(p) : p[n] = q[n]
  PROVE  p = q
BY SMT

\* What is left when the first element goes.
LEMMA WithoutFirst ==
  ASSUME NEW S, NEW q \in Seq(S), q # <<>>
  PROVE  /\ Tail(q) \in Seq(S) /\ Len(Tail(q)) = Len(q) - 1
         /\ \A n \in 1..Len(Tail(q)) : Tail(q)[n] = q[n + 1]
BY SMT

------------------------------------------------------------------------------
(* The ring queue of pairs                                                  *)

Pairs == (Keys \union {NoKey}) \X (Values \union {NoValue})

------------------------------------------------------------------------------
(* The abstract queue as a function of the ring                             *)

\* The value of an element whose producer has not constructed it yet.
LEMMA ValueClaimed ==
  RingInv => \A t \in Threads : pc[t] = "push_claimed" => ValueAt(idx[t]) = arg[t][2]
<1> SUFFICES ASSUME RingInv, NEW t \in Threads, pc[t] = "push_claimed"
             PROVE  ValueAt(idx[t]) = arg[t][2]
  OBVIOUS
<1> DEFINE u == CHOOSE w \in Threads : pc[w] = "push_claimed" /\ idx[w] = idx[t]
<1>1. u \in Threads /\ pc[u] = "push_claimed" /\ idx[u] = idx[t]
  OBVIOUS
<1>2. u = t
  BY <1>1 DEF RingInv, Owners, Owning, Producing
<1>3. ValueAt(idx[t]) = arg[u][2]
  BY DEF ValueAt
<1> QED
  BY <1>2, <1>3

\* The same after a step.
LEMMA ValueClaimedNext ==
  (RingInv => \A t \in Threads : pc[t] = "push_claimed" => ValueAt(idx[t]) = arg[t][2])'
BY ValueClaimed, PTL

\* The value of any other element is in its slot.
LEMMA ValueSettled ==
  \A i : (~ \E t \in Threads : pc[t] = "push_claimed" /\ idx[t] = i)
           => ValueAt(i) = val[Slot(i)]
BY DEF ValueAt

\* The elements are pairs.
LEMMA ElementType ==
  RingInv => \A i \in Int : <<key[Slot(i)], ValueAt(i)>> \in Pairs
<1> SUFFICES ASSUME RingInv, NEW i \in Int
             PROVE  key[Slot(i)] \in Keys \union {NoKey} /\ ValueAt(i) \in Values \union {NoValue}
  BY DEF Pairs
<1>1. Slot(i) \in Slots
  BY SlotType
<1>2. key[Slot(i)] \in Keys \union {NoKey} /\ val[Slot(i)] \in Values \union {NoValue}
  BY <1>1 DEF RingInv, TypeOK
<1>3. CASE \E t \in Threads : pc[t] = "push_claimed" /\ idx[t] = i
  <2>1. PICK t \in Threads : pc[t] = "push_claimed" /\ idx[t] = i
    BY <1>3
  <2>2. ValueAt(i) = arg[t][2]
    BY <2>1, ValueClaimed
  <2>3. arg[t] \in (Keys \union {NoKey}) \X (Values \union {NoValue})
    BY Typed
  <2> QED
    BY <1>2, <2>2, <2>3
<1>4. CASE ~ \E t \in Threads : pc[t] = "push_claimed" /\ idx[t] = i
  BY <1>2, <1>4, ValueSettled
<1> QED
  BY <1>3, <1>4

\* While the queue lives the abstract one holds tail_.i - head_.i pairs.
LEMMA ItemsShape ==
  RingInv => /\ Items \in Seq(Pairs)
             /\ ~alive => Items = <<>>
             /\ alive => /\ Len(Items) = tail - head
                         /\ \A i \in head..(tail - 1) :
                              Items[i - head + 1] = <<key[Slot(i)], ValueAt(i)>>
<1> SUFFICES ASSUME RingInv
             PROVE  /\ Items \in Seq(Pairs)
                    /\ ~alive => Items = <<>>
                    /\ alive => /\ Len(Items) = tail - head
                                /\ \A i \in head..(tail - 1) :
                                     Items[i - head + 1] = <<key[Slot(i)], ValueAt(i)>>
  OBVIOUS
<1>1. CASE ~alive
  BY <1>1, NoItems DEF Items
<1>2. CASE alive
  <2> DEFINE size == tail - head
  <2>1. size \in Nat
    BY Bounds, SMT
  <2>2. Items = [n \in 1..size |-> <<key[Slot(head + n - 1)], ValueAt(head + n - 1)>>]
    BY <1>2 DEF Items
  <2>3. \A n \in 1..size : <<key[Slot(head + n - 1)], ValueAt(head + n - 1)>> \in Pairs
    BY <2>1, Bounds, ElementType, SMT
  <2> HIDE DEF size
  <2>4. Items \in [1..size -> Pairs]
    BY <2>2, <2>3, Zenon
  <2>5. Items \in Seq(Pairs) /\ Len(Items) = size
    BY <2>1, <2>4, SMT
  <2>6. ASSUME NEW i \in head..(tail - 1)
        PROVE  Items[i - head + 1] = <<key[Slot(i)], ValueAt(i)>>
    <3>1. i - head + 1 \in 1..size /\ head + (i - head + 1) - 1 = i
      BY Bounds, SMT DEF size
    <3> QED
      BY <2>2, <3>1
  <2> QED
    BY <1>2, <2>5, <2>6 DEF size
<1> QED
  BY <1>1, <1>2

\* The same after a step.
LEMMA ItemsShapeNext ==
  (RingInv => /\ Items \in Seq(Pairs)
              /\ ~alive => Items = <<>>
              /\ alive => /\ Len(Items) = tail - head
                          /\ \A i \in head..(tail - 1) :
                               Items[i - head + 1] = <<key[Slot(i)], ValueAt(i)>>)'
BY ItemsShape, PTL

\* Two states with the same elements have the same abstract queue.
LEMMA ItemsFrame ==
  ASSUME RingInv, RingInv', UNCHANGED <<head, tail, key, alive>>,
         \A i \in head..(tail - 1) : alive => ValueAt(i)' = ValueAt(i)
  PROVE  Items' = Items
<1>1. CASE ~alive
  BY <1>1 DEF Items
<1>2. CASE alive
  <2>1. \A n \in 1..(tail - head) : ValueAt(head + n - 1)' = ValueAt(head + n - 1)
    <3> SUFFICES ASSUME NEW n \in 1..(tail - head)
                 PROVE  ValueAt(head + n - 1)' = ValueAt(head + n - 1)
      OBVIOUS
    <3>1. head + n - 1 \in head..(tail - 1)
      BY Bounds, SMT
    <3> QED
      BY <1>2, <3>1
  <2> QED
    BY <1>2, <2>1 DEF Items, Slot, Wrap
<1> QED
  BY <1>1, <1>2

\* A step that neither begins nor ends the construction of an element, and leaves
\* the value in its slot alone, leaves the element alone.
LEMMA ValueFrame ==
  ASSUME RingInv, RingInv', NEW i \in Int,
         \A u \in Threads : (pc'[u] = "push_claimed" /\ idx'[u] = i)
                              <=> (pc[u] = "push_claimed" /\ idx[u] = i),
         \A u \in Threads : pc[u] = "push_claimed" => arg'[u] = arg[u],
         val'[Slot(i)] = val[Slot(i)]
  PROVE  ValueAt(i)' = ValueAt(i)
<1>1. CASE \E t \in Threads : pc[t] = "push_claimed" /\ idx[t] = i
  <2>1. PICK t \in Threads : pc[t] = "push_claimed" /\ idx[t] = i
    BY <1>1
  <2>2. ValueAt(i) = arg[t][2]
    BY <2>1, ValueClaimed
  <2>3. pc'[t] = "push_claimed" /\ idx'[t] = i /\ arg'[t] = arg[t]
    BY <2>1
  <2>4. ValueAt(i)' = arg'[t][2]
    BY <2>3, ValueClaimedNext
  <2> QED
    BY <2>2, <2>3, <2>4
<1>2. CASE ~ \E t \in Threads : pc[t] = "push_claimed" /\ idx[t] = i
  <2>1. ~ \E t \in Threads : pc'[t] = "push_claimed" /\ idx'[t] = i
    BY <1>2
  <2> QED
    BY <1>2, <2>1 DEF ValueAt, Slot, Wrap
<1> QED
  BY <1>1, <1>2

------------------------------------------------------------------------------
(* The steps                                                                *)

\* What pop() hands to a thread is unchanged when its variables are.
LEMMA TakenFrame ==
  ASSUME \A u \in Threads :
           /\ ret'[u] = ret[u]
           /\ (IF pc'[u] = "pop_claimed" THEN val'[Slot(idx'[u])] ELSE out'[u])
                = (IF pc[u] = "pop_claimed" THEN val[Slot(idx[u])] ELSE out[u])
  PROVE  Taken' = Taken
BY DEF Taken, Slot, Wrap

\* A step that hands something to one thread.
LEMMA TakenStep ==
  ASSUME NEW t \in Threads, NEW k, NEW v,
         ret'[t] = k,
         (IF pc'[t] = "pop_claimed" THEN val'[Slot(idx'[t])] ELSE out'[t]) = v,
         \A u \in Threads \ {t} :
           /\ ret'[u] = ret[u]
           /\ (IF pc'[u] = "pop_claimed" THEN val'[Slot(idx'[u])] ELSE out'[u])
                = (IF pc[u] = "pop_claimed" THEN val[Slot(idx[u])] ELSE out[u])
  PROVE  Taken' = [Taken EXCEPT ![t] = <<k, v>>]
<1> DEFINE new == [Taken EXCEPT ![t] = <<k, v>>]
<1>1. Taken' = [u \in Threads |-> Taken'[u]] /\ new = [u \in Threads |-> new[u]]
  BY DEF Taken
<1>2. Taken'[t] = <<k, v>> /\ new[t] = <<k, v>>
  BY DEF Taken, Slot, Wrap
<1>3. \A u \in Threads \ {t} : Taken'[u] = Taken[u] /\ new[u] = Taken[u]
  BY DEF Taken, Slot, Wrap
<1> HIDE DEF new
<1>4. Taken' = new
  BY <1>1, <1>2, <1>3, SMT
<1> QED
  BY <1>4 DEF new

\* A step outside the constructions, the drains and the claims.
LEMMA QuietStep ==
  ASSUME RingInv, RingInv', NEW t \in Threads,
         UNCHANGED <<key, val, head, tail, ret, out, alive>>,
         pc[t] \notin {"push_claimed", "pop_claimed"},
         pc'[t] \notin {"push_claimed", "pop_claimed"},
         \A u \in Threads \ {t} : pc'[u] = pc[u] /\ idx'[u] = idx[u] /\ arg'[u] = arg[u]
  PROVE  Items' = Items /\ Taken' = Taken
<1>1. /\ \A u \in Threads : pc'[u] = "push_claimed" <=> pc[u] = "push_claimed"
      /\ \A u \in Threads : pc[u] = "push_claimed" => idx'[u] = idx[u] /\ arg'[u] = arg[u]
  OBVIOUS
<1>2. ASSUME NEW i \in Int
      PROVE  ValueAt(i)' = ValueAt(i)
  BY <1>1, ValueFrame
<1>3. \A i \in head..(tail - 1) : i \in Int
  BY Bounds, SMT
<1>4. Items' = Items
  BY <1>2, <1>3, ItemsFrame
<1>5. \A u \in Threads :
        /\ ret'[u] = ret[u]
        /\ (IF pc'[u] = "pop_claimed" THEN val'[Slot(idx'[u])] ELSE out'[u])
             = (IF pc[u] = "pop_claimed" THEN val[Slot(idx[u])] ELSE out[u])
  OBVIOUS
<1> QED
  BY <1>4, <1>5, TakenFrame

\* The calls, the loads, the retries, a rejected push and the final stores.
LEMMA QuietActions ==
  ASSUME RingInv, RingInv', NEW t \in Threads,
         \/ \E k \in Keys, v \in Values : PushLock(t, k, v)
         \/ PushLoad(t) \/ PushRetry(t) \/ PushFull(t) \/ PushCommit(t)
         \/ PopLock(t) \/ PopLoad(t) \/ PopRelease(t)
         \/ EmptyLock(t) \/ EmptyReturn(t)
  PROVE  Items' = Items /\ Taken' = Taken
<1> USE DEF Goto, Return, shared, slots
<1>1. /\ UNCHANGED <<key, val, head, tail, ret, out, alive>>
      /\ pc[t] \notin {"push_claimed", "pop_claimed"}
      /\ \E l \in Labels \ {"push_claimed", "pop_claimed"} : pc' = [pc EXCEPT ![t] = l]
      /\ idx' = idx \/ \E i \in {0, head, tail} : idx' = [idx EXCEPT ![t] = i]
      /\ arg' = arg \/ \E a : arg' = [arg EXCEPT ![t] = a]
  <2>1. CASE \E k \in Keys, v \in Values : PushLock(t, k, v)
    BY <2>1 DEF PushLock, Labels
  <2>2. CASE PushLoad(t) \/ PushRetry(t) \/ PushFull(t) \/ PushCommit(t)
    BY <2>2 DEF PushLoad, PushRetry, PushFull, PushCommit, Labels
  <2>3. CASE PopLock(t) \/ PopLoad(t) \/ PopRelease(t)
    BY <2>3 DEF PopLock, PopLoad, PopRelease, Labels
  <2>4. CASE EmptyLock(t) \/ EmptyReturn(t)
    BY <2>4 DEF EmptyLock, EmptyReturn, Labels
  <2> QED
    BY <2>1, <2>2, <2>3, <2>4
<1>2. /\ pc'[t] \notin {"push_claimed", "pop_claimed"}
      /\ \A u \in Threads \ {t} : pc'[u] = pc[u] /\ idx'[u] = idx[u] /\ arg'[u] = arg[u]
  BY <1>1, Typed
<1> QED
  BY <1>1, <1>2, QuietStep

\* pop() that finds nothing hands out the empty key and leaves the value alone.
LEMMA PopEmptyMaps ==
  ASSUME RingInv, RingInv', NEW t \in Threads, PopEmpty(t)
  PROVE  Fifo!PopNothing(t)
<1>1. /\ pc[t] = "pop_loaded" /\ pc' = [pc EXCEPT ![t] = "idle"]
      /\ ret' = [ret EXCEPT ![t] = NoKey]
      /\ idx' = [idx EXCEPT ![t] = 0] /\ arg' = [arg EXCEPT ![t] = <<NoKey, NoValue>>]
      /\ UNCHANGED <<key, val, head, tail, out, alive>>
  BY DEF PopEmpty, Goto, Return, slots
<1>2. /\ pc'[t] = "idle"
      /\ \A u \in Threads \ {t} : pc'[u] = pc[u] /\ idx'[u] = idx[u] /\ arg'[u] = arg[u]
  BY <1>1, Typed
<1>3. /\ \A u \in Threads : pc'[u] = "push_claimed" <=> pc[u] = "push_claimed"
      /\ \A u \in Threads : pc[u] = "push_claimed" => idx'[u] = idx[u] /\ arg'[u] = arg[u]
  BY <1>1, <1>2
<1>4. ASSUME NEW i \in Int
      PROVE  ValueAt(i)' = ValueAt(i)
  BY <1>1, <1>3, ValueFrame
<1>5. \A i \in head..(tail - 1) : i \in Int
  BY Bounds, SMT
<1>6. Items' = Items
  BY <1>1, <1>4, <1>5, ItemsFrame
<1>7. ret \in [Threads -> Keys \union {NoKey}]
  BY DEF RingInv, TypeOK
<1>8. Taken' = [Taken EXCEPT ![t] = <<NoKey, Taken[t][2]>>]
  <2>1. Taken[t][2] = out[t]
    BY <1>1 DEF Taken
  <2>2. ret'[t] = NoKey /\ \A u \in Threads \ {t} : ret'[u] = ret[u]
    BY <1>1, <1>7
  <2> QED
    BY <1>1, <1>2, <2>1, <2>2, TakenStep, SMT
<1> QED
  BY <1>6, <1>8 DEF Fifo!PopNothing

\* An accepted push() appends its pair when it claims the slot.
LEMMA PushClaimMaps ==
  ASSUME RingInv, RingInv', NEW t \in Threads, PushClaim(t)
  PROVE  arg[t] \in Keys \X Values /\ Fifo!Push(arg[t][1], arg[t][2])
<1>1. /\ pc[t] = "push_loaded" /\ pc' = [pc EXCEPT ![t] = "push_claimed"]
      /\ SlotFree(t) /\ key' = [key EXCEPT ![Slot(idx[t])] = arg[t][1]]
      /\ tail' = tail + 1
      /\ UNCHANGED <<val, head, idx, arg, ret, out, alive>>
  BY DEF PushClaim, Goto
<1>2. idx[t] = tail
  BY <1>1, GuardPush
<1>3. alive
  BY <1>1, BusyAlive
<1>4. arg[t] \in Keys \X Values /\ arg[t] = <<arg[t][1], arg[t][2]>>
  BY <1>1, SMT DEF RingInv, LocksAndLoads
<1>5. tail < head + Capacity
  BY <1>1, Bounds, SMT DEF RingInv, IndexWindow
<1>6. pc'[t] = "push_claimed" /\ \A u \in Threads \ {t} : pc'[u] = pc[u]
  BY <1>1, Typed
<1>7. Slot(tail) \in Slots /\ key \in [Slots -> Keys \union {NoKey}]
  BY Bounds, SlotType DEF RingInv, TypeOK
<1>8. ASSUME NEW i \in head..(tail - 1)
      PROVE  key'[Slot(i)] = key[Slot(i)] /\ ValueAt(i)' = ValueAt(i)
  <2>1. i \in Int /\ i # tail /\ i < tail + Capacity /\ tail < i + Capacity
    BY <1>5, Bounds, SMT
  <2>2. Slot(i) # Slot(tail)
    BY <2>1, Bounds, SlotInjective
  <2>3. key'[Slot(i)] = key[Slot(i)]
    BY <1>1, <1>2, <1>7, <2>2, SMT
  <2>4. \A u \in Threads : (pc'[u] = "push_claimed" /\ idx'[u] = i)
                              <=> (pc[u] = "push_claimed" /\ idx[u] = i)
    BY <1>1, <1>2, <1>6, <2>1
  <2>5. ValueAt(i)' = ValueAt(i)
    BY <1>1, <2>1, <2>4, ValueFrame
  <2> QED
    BY <2>3, <2>5
<1>9. ASSUME NEW i, i = tail
      PROVE  key'[Slot(i)] = arg[t][1] /\ ValueAt(i)' = arg[t][2]
  <2>1. key'[Slot(i)] = arg[t][1]
    BY <1>1, <1>2, <1>7, <1>9
  <2>2. ValueAt(i)' = arg'[t][2]
    BY <1>1, <1>2, <1>6, <1>9, ValueClaimedNext
  <2> QED
    BY <1>1, <2>1, <2>2
<1>10. Items' = Append(Items, arg[t])
  <2> DEFINE size == tail - head
             new == Append(Items, arg[t])
  <2>1. size \in Nat /\ tail' - head' = size + 1
    BY <1>1, Bounds, SMT
  <2>2. Items \in Seq(Pairs) /\ Len(Items) = size /\ arg[t] \in Pairs
    BY <1>3, <1>4, ItemsShape DEF Pairs
  <2>3. Items' \in Seq(Pairs) /\ Len(Items') = size + 1
    BY <1>1, <1>3, <2>1, ItemsShapeNext DEF Pairs
  <2> HIDE DEF size
  <2>4. /\ new \in Seq(Pairs) /\ Len(new) = size + 1
        /\ \A n \in 1..size : new[n] = Items[n]
        /\ new[size + 1] = arg[t]
    BY <2>1, <2>2, SMT
  <2>5. ASSUME NEW n \in 1..size
        PROVE  Items'[n] = Items[n]
    <3>1. PICK i \in head..(tail - 1) : i - head + 1 = n
      <4>1. head + n - 1 \in head..(tail - 1) /\ (head + n - 1) - head + 1 = n
        BY Bounds, SMT DEF size
      <4> QED
        BY <4>1
    <3>2. Items[n] = <<key[Slot(i)], ValueAt(i)>>
      BY <1>3, <3>1, ItemsShape
    <3>3. Items'[n] = <<key'[Slot(i)], ValueAt(i)'>>
      <4>1. i \in head'..(tail' - 1) /\ i - head' + 1 = n
        BY <1>1, <3>1, Bounds, SMT
      <4> QED
        BY <1>1, <1>3, <4>1, ItemsShapeNext
    <3> QED
      BY <1>8, <3>2, <3>3
  <2>6. Items'[size + 1] = arg[t]
    <3>1. PICK i \in Int : i = tail
      BY Bounds
    <3>2. i \in head'..(tail' - 1) /\ i - head' + 1 = size + 1
      BY <1>1, <3>1, Bounds, SMT DEF size
    <3>3. Items'[size + 1] = <<key'[Slot(i)], ValueAt(i)'>>
      BY <1>1, <1>3, <3>2, ItemsShapeNext
    <3> QED
      BY <1>4, <1>9, <3>1, <3>3
  <2>7. \A n \in 1..(size + 1) : Items'[n] = new[n]
    BY <2>1, <2>4, <2>5, <2>6, SMT
  <2> HIDE DEF new
  <2>8. Items' = new
    BY <2>3, <2>4, <2>7, SameItems
  <2> QED
    BY <2>8 DEF new
<1>11. Len(Items) < Capacity
  BY <1>3, <1>5, Bounds, ItemsShape, SMT
<1>12. Taken' = Taken
  <2>1. \A u \in Threads : pc'[u] = "pop_claimed" <=> pc[u] = "pop_claimed"
    BY <1>1, <1>6
  <2> QED
    BY <1>1, <2>1, TakenFrame
<1> QED
  BY <1>4, <1>10, <1>11, <1>12 DEF Fifo!Push

\* The construction of a value moves it from its producer to its slot.
LEMMA PushConstructMaps ==
  ASSUME RingInv, RingInv', NEW t \in Threads, PushConstruct(t)
  PROVE  Items' = Items /\ Taken' = Taken
<1>1. /\ pc[t] = "push_claimed" /\ pc' = [pc EXCEPT ![t] = "push_committing"]
      /\ val' = [val EXCEPT ![Slot(idx[t])] = arg[t][2]]
      /\ UNCHANGED <<key, head, tail, idx, arg, ret, out, alive>>
  BY DEF PushConstruct, Goto
<1>2. pc'[t] = "push_committing" /\ \A u \in Threads \ {t} : pc'[u] = pc[u]
  BY <1>1, Typed
<1>3. Owning(t) /\ idx[t] \in Int
  BY <1>1, Typed, SMT DEF Owning, Producing
<1>4. /\ Slot(idx[t]) \in Slots /\ val'[Slot(idx[t])] = arg[t][2]
      /\ \A p : p # Slot(idx[t]) => val'[p] = val[p]
  BY <1>1, <1>3, SlotType, Typed, SMT
<1>5. ASSUME NEW i \in head..(tail - 1)
      PROVE  ValueAt(i)' = ValueAt(i)
  <2>1. i \in Int /\ i \in (tail - Capacity)..(tail - 1)
    BY Bounds, SMT
  <2>2. CASE i = idx[t]
    <3>1. ValueAt(i) = arg[t][2]
      BY <1>1, <2>2, ValueClaimed
    <3>2. \A u \in Threads \ {t} : pc[u] = "push_claimed" => idx[u] # i
      BY <1>1, <2>2 DEF RingInv, Owners, Owning, Producing
    <3>3. ~ \E u \in Threads : pc'[u] = "push_claimed" /\ idx'[u] = i
      BY <1>1, <1>2, <3>2
    <3>4. ValueAt(i)' = val'[Slot(i)]
      BY <3>3 DEF ValueAt, Slot, Wrap
    <3> QED
      BY <1>4, <2>2, <3>1, <3>4
  <2>3. CASE i # idx[t]
    <3>1. Slot(i) # Slot(idx[t])
      BY <1>3, <2>1, <2>3, OwnedDistinct
    <3>2. \A u \in Threads : (pc'[u] = "push_claimed" /\ idx'[u] = i)
                                <=> (pc[u] = "push_claimed" /\ idx[u] = i)
      BY <1>1, <1>2, <2>3
    <3> QED
      BY <1>1, <1>4, <2>1, <3>1, <3>2, ValueFrame
  <2> QED
    BY <2>2, <2>3
<1>6. Items' = Items
  BY <1>1, <1>5, ItemsFrame
<1>7. ASSUME NEW u \in Threads
      PROVE  (IF pc'[u] = "pop_claimed" THEN val'[Slot(idx'[u])] ELSE out'[u])
               = (IF pc[u] = "pop_claimed" THEN val[Slot(idx[u])] ELSE out[u])
  <2>1. pc'[u] = "pop_claimed" <=> pc[u] = "pop_claimed"
    BY <1>1, <1>2
  <2>2. pc[u] = "pop_claimed" => Slot(idx[u]) # Slot(idx[t])
    BY <1>1, <1>3, OwnedDistinct DEF Owning, Consuming
  <2> QED
    BY <1>1, <1>4, <2>1, <2>2
<1> QED
  BY <1>1, <1>6, <1>7, TakenFrame

\* The drain moves a value that already was the consumer's.
LEMMA PopDrainMaps ==
  ASSUME RingInv, RingInv', NEW t \in Threads, PopDrain(t)
  PROVE  Items' = Items /\ Taken' = Taken
<1>1. /\ pc[t] = "pop_claimed" /\ pc' = [pc EXCEPT ![t] = "pop_releasing"]
      /\ out' = [out EXCEPT ![t] = val[Slot(idx[t])]]
      /\ val' = [val EXCEPT ![Slot(idx[t])] = NoValue]
      /\ UNCHANGED <<key, head, tail, idx, arg, ret, alive>>
  BY DEF PopDrain, Goto
<1>2. /\ pc'[t] = "pop_releasing" /\ \A u \in Threads \ {t} : pc'[u] = pc[u]
      /\ out'[t] = val[Slot(idx[t])] /\ \A u \in Threads \ {t} : out'[u] = out[u]
  BY <1>1, Typed DEF RingInv, TypeOK
<1>3. Owning(t) /\ idx[t] \in (tail - Capacity)..(head - 1)
  BY <1>1 DEF Owning, Consuming, RingInv, Owners
<1>4. \A p : p # Slot(idx[t]) => val'[p] = val[p]
  BY <1>1, Typed, SMT
<1>5. ASSUME NEW i \in head..(tail - 1)
      PROVE  ValueAt(i)' = ValueAt(i)
  <2>1. i \in Int /\ i \in (tail - Capacity)..(tail - 1) /\ i # idx[t]
    BY <1>3, Bounds, SMT
  <2>2. Slot(i) # Slot(idx[t])
    BY <1>3, <2>1, OwnedDistinct
  <2>3. \A u \in Threads : (pc'[u] = "push_claimed" /\ idx'[u] = i)
                              <=> (pc[u] = "push_claimed" /\ idx[u] = i)
    BY <1>1, <1>2
  <2> QED
    BY <1>1, <1>4, <2>1, <2>2, <2>3, ValueFrame
<1>6. Items' = Items
  BY <1>1, <1>5, ItemsFrame
<1>7. ASSUME NEW u \in Threads
      PROVE  (IF pc'[u] = "pop_claimed" THEN val'[Slot(idx'[u])] ELSE out'[u])
               = (IF pc[u] = "pop_claimed" THEN val[Slot(idx[u])] ELSE out[u])
  <2>1. CASE u = t
    BY <1>1, <1>2, <2>1
  <2>2. CASE u # t
    <3>1. pc[u] = "pop_claimed" => Slot(idx[u]) # Slot(idx[t])
      BY <1>3, <2>2, OwnedDistinct DEF Owning, Consuming
    <3> QED
      BY <1>1, <1>2, <1>4, <2>2, <3>1
  <2> QED
    BY <2>1, <2>2
<1> QED
  BY <1>1, <1>6, <1>7, TakenFrame

\* A pop() that claims the head's slot takes the oldest pair.
LEMMA PopClaimMaps ==
  ASSUME RingInv, RingInv', NEW t \in Threads, PopClaim(t)
  PROVE  Fifo!Pop(t)
<1>1. /\ pc[t] = "pop_loaded" /\ pc' = [pc EXCEPT ![t] = "pop_claimed"]
      /\ Committed(t) /\ ret' = [ret EXCEPT ![t] = key[Slot(idx[t])]]
      /\ key' = [key EXCEPT ![Slot(idx[t])] = NoKey]
      /\ head' = head + 1
      /\ UNCHANGED <<val, tail, idx, arg, out, alive>>
  BY DEF PopClaim, Goto
<1>2. idx[t] = head /\ seq[Slot(head)] = head + 1 /\ head < tail
  BY <1>1, GuardPop
<1>3. alive
  BY <1>1, BusyAlive
<1>4. /\ pc'[t] = "pop_claimed" /\ \A u \in Threads \ {t} : pc'[u] = pc[u]
      /\ ret'[t] = key[Slot(head)] /\ \A u \in Threads \ {t} : ret'[u] = ret[u]
  BY <1>1, <1>2, Typed DEF RingInv, TypeOK
<1>5. \A u \in Threads : pc'[u] = "push_claimed" <=> pc[u] = "push_claimed"
  BY <1>1, <1>4
<1>6. ASSUME NEW i \in (head + 1)..(tail - 1)
      PROVE  key'[Slot(i)] = key[Slot(i)] /\ ValueAt(i)' = ValueAt(i)
  <2>1. i \in Int /\ i # head /\ i < head + Capacity /\ head < i + Capacity
    BY Bounds, SMT
  <2>2. Slot(i) # Slot(head)
    BY <2>1, Bounds, SlotInjective
  <2>3. key'[Slot(i)] = key[Slot(i)]
    <3>1. key \in [Slots -> Keys \union {NoKey}] /\ Slot(i) \in Slots
      BY <2>1, SlotType DEF RingInv, TypeOK
    <3> QED
      BY <1>1, <1>2, <2>2, <3>1
  <2>4. ValueAt(i)' = ValueAt(i)
    BY <1>1, <1>5, <2>1, ValueFrame
  <2> QED
    BY <2>3, <2>4
<1>7. ValueAt(head) = val[Slot(head)]
  <2>1. ~ \E u \in Threads : pc[u] = "push_claimed" /\ idx[u] = head
    <3> SUFFICES ASSUME NEW u \in Threads, pc[u] = "push_claimed", idx[u] = head
                 PROVE  FALSE
      OBVIOUS
    <3>1. seq[Slot(head)] = head
      BY DEF RingInv, Owners, Producing
    <3> QED
      BY <1>2, <3>1, Bounds, SMT
  <2> QED
    BY <2>1, ValueSettled
<1> DEFINE size == tail - head
<1>8. size \in Nat \ {0} /\ tail' - head' = size - 1
  BY <1>1, <1>2, Bounds, SMT
<1>9. Items \in Seq(Pairs) /\ Len(Items) = size
  BY <1>3, ItemsShape
<1>10. Items # <<>>
  BY <1>8, <1>9
<1>11. Head(Items) = <<key[Slot(head)], val[Slot(head)]>>
  <2>1. head \in head..(tail - 1) /\ head - head + 1 = 1
    BY <1>2, Bounds, SMT
  <2>2. Items[1] = <<key[Slot(head)], ValueAt(head)>>
    BY <1>3, <2>1, ItemsShape
  <2> QED
    BY <1>7, <1>10, <2>2, SMT
<1>12. Items' = Tail(Items)
  <2> DEFINE new == Tail(Items)
  <2>1. Items' \in Seq(Pairs) /\ Len(Items') = size - 1
    BY <1>1, <1>3, <1>8, ItemsShapeNext DEF Pairs
  <2> HIDE DEF size
  <2>2. new \in Seq(Pairs) /\ Len(new) = size - 1
        /\ \A n \in 1..(size - 1) : new[n] = Items[n + 1]
    BY <1>8, <1>9, <1>10, WithoutFirst
  <2>3. ASSUME NEW n \in 1..(size - 1)
        PROVE  Items'[n] = Items[n + 1]
    <3>1. PICK i \in (head + 1)..(tail - 1) : i - head + 1 = n + 1
      <4>1. head + n \in (head + 1)..(tail - 1) /\ (head + n) - head + 1 = n + 1
        BY Bounds, SMT DEF size
      <4> QED
        BY <4>1
    <3>2. i \in head..(tail - 1) /\ i \in head'..(tail' - 1) /\ i - head' + 1 = n
      BY <1>1, <1>8, <3>1, Bounds, SMT
    <3>3. Items[n + 1] = <<key[Slot(i)], ValueAt(i)>>
      BY <1>3, <3>1, <3>2, ItemsShape
    <3>4. Items'[n] = <<key'[Slot(i)], ValueAt(i)'>>
      BY <1>1, <1>3, <3>2, ItemsShapeNext
    <3> QED
      BY <1>6, <3>3, <3>4
  <2> HIDE DEF new
  <2>4. Items' = new
    BY <2>1, <2>2, <2>3, SameItems
  <2> QED
    BY <2>4 DEF new
<1>13. Taken' = [Taken EXCEPT ![t] = <<key[Slot(head)], val[Slot(head)]>>]
  BY <1>1, <1>2, <1>4, TakenStep
<1> QED
  BY <1>10, <1>11, <1>12, <1>13 DEF Fifo!Pop

\* The destructor discards what is left.
LEMMA DestroyMaps ==
  ASSUME RingInv, Destroy
  PROVE  Fifo!Destroy
<1>1. /\ ~alive' /\ UNCHANGED <<pc, idx, ret, out>>
      /\ \A t \in Threads : pc[t] = "idle"
  BY DEF Destroy, local
<1>2. Items' = <<>>
  BY <1>1 DEF Items
<1>3. Taken' = Taken
  BY <1>1, TakenFrame
<1> QED
  BY <1>2, <1>3 DEF Fifo!Destroy

\* A new ring is an empty queue.
LEMMA InitMaps == Init => Fifo!Init
<1> SUFFICES ASSUME Init
             PROVE  Fifo!Init
  OBVIOUS
<1>1. Items = <<>>
  <2>1. alive /\ tail - head = 0
    BY SMT DEF Init
  <2>2. Items \in Seq(Pairs) /\ Len(Items) = 0
    BY <2>1, RingInit, ItemsShape
  <2> QED
    BY <2>2, NoItems
<1>2. Taken = [t \in Threads |-> <<NoKey, NoValue>>]
  BY DEF Init, Taken
<1> QED
  BY <1>1, <1>2 DEF Fifo!Init

\* Every step of the ring is a step of the abstract queue, or none.
LEMMA StepMaps ==
  ASSUME RingInv, RingInv', [Next]_vars
  PROVE  [Fifo!Next]_(Fifo!vars)
<1>1. ASSUME NEW t \in Threads, Call(t) \/ Continue(t)
      PROVE  [Fifo!Next]_(Fifo!vars)
  <2>1. CASE PushClaim(t)
    <3>1. PICK k \in Keys, v \in Values : Fifo!Push(k, v)
      BY <2>1, PushClaimMaps
    <3> QED
      BY <3>1 DEF Fifo!Next
  <2>2. CASE PopClaim(t)
    BY <2>2, PopClaimMaps DEF Fifo!Next
  <2>3. CASE PopEmpty(t)
    BY <2>3, PopEmptyMaps DEF Fifo!Next
  <2>4. CASE PushConstruct(t)
    BY <2>4, PushConstructMaps DEF Fifo!vars
  <2>5. CASE PopDrain(t)
    BY <2>5, PopDrainMaps DEF Fifo!vars
  <2>6. ASSUME \/ \E k \in Keys, v \in Values : PushLock(t, k, v)
               \/ PushLoad(t) \/ PushRetry(t) \/ PushFull(t) \/ PushCommit(t)
               \/ PopLock(t) \/ PopLoad(t) \/ PopRelease(t)
               \/ EmptyLock(t) \/ EmptyReturn(t)
        PROVE  [Fifo!Next]_(Fifo!vars)
    BY <2>6, QuietActions DEF Fifo!vars
  <2> QED
    BY <1>1, <2>1, <2>2, <2>3, <2>4, <2>5, <2>6 DEF Call, Continue, PushStep, PopStep
<1>2. CASE Destroy
  BY <1>2, DestroyMaps DEF Fifo!Next
<1>3. CASE UNCHANGED vars
  <2>1. UNCHANGED <<key, val, head, tail, pc, idx, arg, ret, out, alive>>
    BY <1>3 DEF vars, shared, slots, local
  <2>2. ASSUME NEW i \in Int
        PROVE  ValueAt(i)' = ValueAt(i)
    BY <2>1, ValueFrame
  <2>3. \A i \in head..(tail - 1) : i \in Int
    BY Bounds, SMT
  <2>4. Items' = Items
    BY <2>1, <2>2, <2>3, ItemsFrame
  <2>5. Taken' = Taken
    BY <2>1, TakenFrame
  <2> QED
    BY <2>4, <2>5 DEF Fifo!vars
<1> QED
  BY <1>1, <1>2, <1>3 DEF Next, Destroyed

\* push() and pop() behave as a bounded first-in first-out queue of pairs, for
\* any threads, capacity and index width: claims outside the locks, commits and
\* releases out of order and the wrap of the indices are not observable.
THEOREM RefinementCorrect == Spec => RefinesFifo
<1>1. RingInv /\ RingInv' /\ [Next]_vars => [Fifo!Next]_(Fifo!vars)
  BY StepMaps
<1> QED
  BY <1>1, InitMaps, RingCorrect, PTL DEF Spec, RefinesFifo, Fifo!Spec

------------------------------------------------------------------------------
(* The ring queue of keys                                                   *)

\* Slots hold a key exactly in the window [f, e) of at most Capacity indices.
Window(k, f, e) ==
  /\ f <= e /\ e <= f + Capacity
  /\ \A p \in Slots : k[p] # NoKey <=> \E i \in f..(e - 1) : Slot(i) = p

\* What SlotsMatchWindow needs to be inductive: who is inside a critical
\* section, and what its load found is still so when it stores.
KeyOwners ==
  /\ \A t \in Threads : kpc[t] \in TailPcs <=> ktailLock = t
  /\ \A t \in Threads : kpc[t] \in HeadPcs <=> kheadLock = t
  /\ \A t \in Threads :
       /\ kpc[t] \in TailPcs => karg[t] \in Keys
       /\ kpc[t] = "push_store" => kkey[Slot(ktail)] = NoKey
       /\ kpc[t] = "pop_clear" => karg[t] = kkey[Slot(khead)] /\ karg[t] # NoKey
  /\ ~kalive => \A t \in Threads : kpc[t] = "idle"

KeyWindow ==
  IF kalive THEN Window(kkey, First, End) ELSE \A p \in Slots : kkey[p] = NoKey

KeyInv == KeyTypeOK /\ KeyOwners /\ KeyWindow

------------------------------------------------------------------------------
(* The window                                                               *)

\* The window grows by a key stored in the empty slot at its end.
LEMMA WindowPush ==
  ASSUME NEW f \in Nat, NEW e \in Nat, NEW k \in [Slots -> Keys \cup {NoKey}],
         Window(k, f, e), k[Slot(e)] = NoKey, NEW x \in Keys
  PROVE  Window([k EXCEPT ![Slot(e)] = x], f, e + 1) /\ e < f + Capacity
<1> DEFINE n == [k EXCEPT ![Slot(e)] = x]
<1>1. Slot(e) \in Slots /\ Capacity \in Nat \ {0, 1}
  BY SlotType, Sizes, SMT
<1>2. e # f + Capacity
  <2> SUFFICES ASSUME e = f + Capacity
               PROVE  FALSE
    OBVIOUS
  <2>1. f \in f..(e - 1) /\ Slot(f) = Slot(e)
    BY <1>1, SlotLap, SMT
  <2> QED
    BY <1>1, <2>1 DEF Window
<1>3. f <= e + 1 /\ e + 1 <= f + Capacity
  BY <1>1, <1>2, SMT DEF Window
<1>4. ASSUME NEW p \in Slots
      PROVE  n[p] # NoKey <=> \E i \in f..((e + 1) - 1) : Slot(i) = p
  <2>1. CASE p = Slot(e)
    <3>1. n[p] # NoKey
      BY <1>1, <2>1, NamesAssumption
    <3>2. e \in f..((e + 1) - 1)
      BY SMT DEF Window
    <3> QED
      BY <2>1, <3>1, <3>2
  <2>2. CASE p # Slot(e)
    <3>1. n[p] = k[p]
      BY <2>2
    <3>2. \A i \in f..((e + 1) - 1) : i = e \/ i \in f..(e - 1)
      BY SMT
    <3>3. \A i \in f..(e - 1) : i \in f..((e + 1) - 1)
      BY SMT
    <3> QED
      BY <2>2, <3>1, <3>2, <3>3 DEF Window
  <2> QED
    BY <2>1, <2>2
<1> QED
  BY <1>1, <1>2, <1>3, <1>4, SMT DEF Window

\* The window shrinks by the key cleared at its beginning.
LEMMA WindowPop ==
  ASSUME NEW f \in Nat, NEW e \in Nat, NEW k \in [Slots -> Keys \cup {NoKey}],
         Window(k, f, e), k[Slot(f)] # NoKey
  PROVE  Window([k EXCEPT ![Slot(f)] = NoKey], f + 1, e) /\ f < e
<1> DEFINE n == [k EXCEPT ![Slot(f)] = NoKey]
<1>1. Slot(f) \in Slots /\ Capacity \in Nat \ {0, 1}
  BY SlotType, Sizes, SMT
<1>2. f < e /\ e <= f + Capacity
  BY <1>1, SMT DEF Window
<1>3. ASSUME NEW p \in Slots
      PROVE  n[p] # NoKey <=> \E i \in (f + 1)..(e - 1) : Slot(i) = p
  <2>1. CASE p = Slot(f)
    <3>1. n[p] = NoKey
      BY <1>1, <2>1
    <3>2. \A i \in (f + 1)..(e - 1) : i \in Int /\ i # f /\ i < f + Capacity /\ f < i + Capacity
      BY <1>1, <1>2, SMT
    <3>3. \A i \in (f + 1)..(e - 1) : Slot(i) # p
      BY <2>1, <3>2, SlotInjective, SMT
    <3> QED
      BY <3>1, <3>3
  <2>2. CASE p # Slot(f)
    <3>1. n[p] = k[p]
      BY <2>2
    <3>2. \A i \in f..(e - 1) : i = f \/ i \in (f + 1)..(e - 1)
      BY SMT
    <3>3. \A i \in (f + 1)..(e - 1) : i \in f..(e - 1)
      BY SMT
    <3> QED
      BY <2>2, <3>1, <3>2, <3>3 DEF Window
  <2> QED
    BY <2>1, <2>2
<1> QED
  BY <1>1, <1>2, <1>3, SMT DEF Window

\* The bounds of the window are indices.
LEMMA WindowBounds ==
  KeyTypeOK => /\ First \in Nat /\ End \in Nat /\ khead \in Nat /\ ktail \in Nat
               /\ First \in {khead, khead + 1} /\ End \in {ktail, ktail + 1}
BY SMT DEF KeyTypeOK, First, End

\* Inside its critical section a thread knows where the window begins, or ends.
LEMMA HeadSide ==
  ASSUME KeyInv, NEW t \in Threads, kpc[t] \in HeadPcs
  PROVE  First = IF kpc[t] = "pop_cleared" THEN khead + 1 ELSE khead
<1>1. \A u \in Threads : kpc[u] = "pop_cleared" => u = t
  BY DEF KeyInv, KeyOwners, HeadPcs
<1> QED
  BY <1>1, WindowBounds, SMT DEF First, KeyInv

\* Where the window ends while a thread holds the tail lock.
LEMMA TailSide ==
  ASSUME KeyInv, NEW t \in Threads, kpc[t] \in TailPcs
  PROVE  End = IF kpc[t] = "push_stored" THEN ktail + 1 ELSE ktail
<1>1. \A u \in Threads : kpc[u] = "push_stored" => u = t
  BY DEF KeyInv, KeyOwners, TailPcs
<1> QED
  BY <1>1, WindowBounds, SMT DEF End, KeyInv

------------------------------------------------------------------------------
(* The invariant                                                            *)

\* A step that stores no key and moves no index.
LEMMA WindowKept ==
  ASSUME KeyInv, UNCHANGED <<kkey, khead, ktail, kalive>>,
         \A u \in Threads : /\ kpc'[u] = "pop_cleared" <=> kpc[u] = "pop_cleared"
                            /\ kpc'[u] = "push_stored" <=> kpc[u] = "push_stored"
  PROVE  KeyWindow' /\ First' = First /\ End' = End
<1>1. First' = First /\ End' = End
  BY DEF First, End
<1> QED
  BY <1>1 DEF KeyInv, KeyWindow, Window, Slot, Wrap

\* The empty queue satisfies the invariant.
LEMMA KeyInitial == KeyInit => KeyInv
<1> SUFFICES ASSUME KeyInit
             PROVE  KeyInv
  OBVIOUS
<1>1. KeyTypeOK
  BY NTRYAssumption, SMT DEF KeyInit, KeyTypeOK
<1>2. KeyOwners
  BY NamesAssumption DEF KeyInit, KeyOwners, TailPcs, HeadPcs
<1>3. First = 0 /\ End = 0 /\ Capacity \in Nat
  BY Sizes, SMT DEF KeyInit, First, End
<1>4. KeyWindow
  BY <1>3, SMT DEF KeyInit, KeyWindow, Window
<1> QED
  BY <1>1, <1>2, <1>4 DEF KeyInv

\* Steps between the stores: taking a lock, loads, giving up, empty().
LEMMA KeyQuiet ==
  ASSUME KeyInv, NEW t \in Threads,
         \/ \E k \in Keys : KeyPushLock(t, k)
         \/ KeyPushSeesEmpty(t) \/ KeyPushSeesKey(t) \/ KeyPushFull(t)
         \/ KeyPopLock(t) \/ KeyPopEmpty(t) \/ KeyPopLoad(t)
         \/ KeyEmptyLock(t) \/ KeyEmptyReturn(t)
  PROVE  KeyInv' /\ First' = First /\ End' = End
<1>0. KeyTypeOK /\ KeyOwners
  BY DEF KeyInv
<1>s. Slot(ktail) \in Slots /\ Slot(khead) \in Slots
  BY <1>0, WindowBounds, SlotType, SMT
<1> USE NamesAssumption DEF KeyGoto, KeyReturn, kshared, TailPcs, HeadPcs
<1>1. ASSUME NEW k \in Keys, KeyPushLock(t, k)
      PROVE  KeyInv' /\ First' = First /\ End' = End
  <2>1. KeyTypeOK'
    BY <1>0, <1>1 DEF KeyTypeOK, KeyPushLock
  <2>2. KeyOwners'
    BY <1>0, <1>1 DEF KeyTypeOK, KeyOwners, KeyPushLock, Slot, Wrap
  <2> QED
    BY <1>0, <1>1, <2>1, <2>2, WindowKept DEF KeyPushLock, KeyInv, KeyTypeOK
<1>2. CASE KeyPushSeesEmpty(t)
  <2>1. kkey[Slot(ktail)] = NoKey
    BY <1>0, <1>2, <1>s DEF KeyPushSeesEmpty, ProducerSees
  <2>2. KeyTypeOK'
    BY <1>0, <1>2 DEF KeyTypeOK, KeyPushSeesEmpty
  <2>3. KeyOwners'
    BY <1>0, <1>2, <2>1 DEF KeyTypeOK, KeyOwners, KeyPushSeesEmpty, Slot, Wrap
  <2> QED
    BY <1>0, <1>2, <2>2, <2>3, WindowKept DEF KeyPushSeesEmpty, KeyInv, KeyTypeOK
<1>3. CASE KeyPushSeesKey(t)
  <2>1. ktries[t] + 1 \in 0..(NTRY - 1)
    BY <1>0, <1>3, NTRYAssumption, SMT DEF KeyTypeOK, KeyPushSeesKey
  <2>2. KeyTypeOK'
    BY <1>0, <1>3, <2>1 DEF KeyTypeOK, KeyPushSeesKey
  <2>3. KeyOwners'
    BY <1>0, <1>3 DEF KeyTypeOK, KeyOwners, KeyPushSeesKey, Slot, Wrap
  <2> QED
    BY <1>0, <1>3, <2>2, <2>3, WindowKept DEF KeyPushSeesKey, KeyInv, KeyTypeOK
<1>4. CASE KeyPushFull(t)
  <2>1. KeyTypeOK'
    BY <1>0, <1>4, NTRYAssumption, SMT DEF KeyTypeOK, KeyPushFull
  <2>2. KeyOwners'
    BY <1>0, <1>4 DEF KeyTypeOK, KeyOwners, KeyPushFull, Slot, Wrap
  <2> QED
    BY <1>0, <1>4, <2>1, <2>2, WindowKept DEF KeyPushFull, KeyInv, KeyTypeOK
<1>5. CASE KeyPopLock(t)
  <2>1. KeyTypeOK'
    BY <1>0, <1>5 DEF KeyTypeOK, KeyPopLock
  <2>2. KeyOwners'
    BY <1>0, <1>5 DEF KeyTypeOK, KeyOwners, KeyPopLock, Slot, Wrap
  <2> QED
    BY <1>0, <1>5, <2>1, <2>2, WindowKept DEF KeyPopLock, KeyInv, KeyTypeOK
<1>6. CASE KeyPopEmpty(t)
  <2>1. KeyTypeOK'
    BY <1>0, <1>6, NTRYAssumption, SMT DEF KeyTypeOK, KeyPopEmpty
  <2>2. KeyOwners'
    BY <1>0, <1>6 DEF KeyTypeOK, KeyOwners, KeyPopEmpty, Slot, Wrap
  <2> QED
    BY <1>0, <1>6, <2>1, <2>2, WindowKept DEF KeyPopEmpty, KeyInv, KeyTypeOK
<1>7. CASE KeyPopLoad(t)
  <2>1. karg' = [karg EXCEPT ![t] = kkey[Slot(khead)]] /\ kkey[Slot(khead)] # NoKey
    BY <1>7 DEF KeyPopLoad, ConsumerSees
  <2>2. KeyTypeOK'
    BY <1>0, <1>7, <1>s, <2>1 DEF KeyTypeOK, KeyPopLoad
  <2>3. KeyOwners'
    BY <1>0, <1>7, <1>s, <2>1 DEF KeyTypeOK, KeyOwners, KeyPopLoad, Slot, Wrap
  <2> QED
    BY <1>0, <1>7, <2>2, <2>3, WindowKept DEF KeyPopLoad, KeyInv, KeyTypeOK
<1>8. CASE KeyEmptyLock(t)
  <2>1. KeyTypeOK'
    BY <1>0, <1>8 DEF KeyTypeOK, KeyEmptyLock
  <2>2. KeyOwners'
    BY <1>0, <1>8 DEF KeyTypeOK, KeyOwners, KeyEmptyLock, Slot, Wrap
  <2> QED
    BY <1>0, <1>8, <2>1, <2>2, WindowKept DEF KeyEmptyLock, KeyInv, KeyTypeOK
<1>9. CASE KeyEmptyReturn(t)
  <2>1. KeyTypeOK'
    BY <1>0, <1>9, NTRYAssumption, SMT DEF KeyTypeOK, KeyEmptyReturn
  <2>2. KeyOwners'
    BY <1>0, <1>9 DEF KeyTypeOK, KeyOwners, KeyEmptyReturn, Slot, Wrap
  <2> QED
    BY <1>0, <1>9, <2>1, <2>2, WindowKept DEF KeyEmptyReturn, KeyInv, KeyTypeOK
<1> QED
  BY <1>1, <1>2, <1>3, <1>4, <1>5, <1>6, <1>7, <1>8, <1>9

\* The store of push() fills the slot at the end of the window, and no other
\* thread can have loaded from it for a store of its own.
LEMMA KeyPushStoreKeeps ==
  ASSUME KeyInv, NEW t \in Threads, KeyPushStore(t)
  PROVE  KeyInv' /\ First' = First /\ End' = End + 1 /\ End = ktail /\ End < First + Capacity
<1> USE NamesAssumption DEF TailPcs, HeadPcs
<1>0. KeyTypeOK /\ KeyOwners /\ KeyWindow /\ kalive
  BY DEF KeyInv, KeyOwners, KeyPushStore
<1>1. /\ kpc[t] = "push_store" /\ kkey[Slot(ktail)] = NoKey /\ karg[t] \in Keys
      /\ kpc' = [kpc EXCEPT ![t] = "push_stored"]
      /\ kkey' = [kkey EXCEPT ![Slot(ktail)] = karg[t]]
      /\ UNCHANGED <<khead, ktail, kheadLock, ktailLock, ktries, karg, kret, kalive>>
  BY <1>0 DEF KeyPushStore, KeyOwners, KeyGoto
<1>2. End = ktail /\ Slot(ktail) \in Slots /\ Slot(khead) \in Slots
  BY <1>0, <1>1, TailSide, WindowBounds, SlotType, SMT
<1>3. KeyTypeOK'
  BY <1>0, <1>1 DEF KeyTypeOK
<1>4. kpc'[t] = "push_stored" /\ \A u \in Threads \ {t} : kpc'[u] = kpc[u]
  BY <1>0, <1>1 DEF KeyTypeOK
<1>5. \A u \in Threads \ {t} : kpc[u] \notin TailPcs
  BY <1>0, <1>1 DEF KeyOwners
<1>6. KeyOwners'
  <2>1. \A u \in Threads : kpc[u] = "pop_clear" => kkey'[Slot(khead)] = kkey[Slot(khead)]
    BY <1>0, <1>1, <1>2 DEF KeyOwners, KeyTypeOK
  <2> QED
    BY <1>0, <1>1, <1>4, <1>5, <2>1, SMT DEF KeyOwners, Slot, Wrap
<1>7. First' = First /\ End' = ktail + 1
  <2>1. First' = First
    BY <1>1, <1>4 DEF First
  <2>2. End' = ktail + 1
    BY <1>1, <1>4 DEF End
  <2> QED
    BY <2>1, <2>2
<1>8. Window(kkey', First, End + 1) /\ End < First + Capacity
  <2> DEFINE f == First
             e == End
  <2>1. f \in Nat /\ e \in Nat /\ Window(kkey, f, e) /\ e = ktail
    BY <1>0, <1>2, WindowBounds DEF KeyWindow
  <2>2. kkey \in [Slots -> Keys \cup {NoKey}]
    BY <1>0 DEF KeyTypeOK
  <2> HIDE DEF f, e
  <2>3. Window([kkey EXCEPT ![Slot(e)] = karg[t]], f, e + 1) /\ e < f + Capacity
    BY <1>1, <2>1, <2>2, WindowPush
  <2> QED
    BY <1>1, <2>1, <2>3 DEF f, e
<1>9. KeyWindow'
  BY <1>0, <1>1, <1>2, <1>7, <1>8 DEF KeyWindow, Window, Slot, Wrap
<1> QED
  BY <1>2, <1>3, <1>6, <1>7, <1>8, <1>9 DEF KeyInv

\* The clearing store of pop() empties the slot at the beginning.
LEMMA KeyPopClearKeeps ==
  ASSUME KeyInv, NEW t \in Threads, KeyPopClear(t)
  PROVE  KeyInv' /\ First' = First + 1 /\ End' = End /\ First = khead /\ First < End
<1> USE NamesAssumption DEF TailPcs, HeadPcs
<1>0. KeyTypeOK /\ KeyOwners /\ KeyWindow /\ kalive
  BY DEF KeyInv, KeyOwners, KeyPopClear
<1>1. /\ kpc[t] = "pop_clear" /\ kkey[Slot(khead)] # NoKey
      /\ kpc' = [kpc EXCEPT ![t] = "pop_cleared"]
      /\ kkey' = [kkey EXCEPT ![Slot(khead)] = NoKey]
      /\ kret' = [kret EXCEPT ![t] = karg[t]]
      /\ UNCHANGED <<khead, ktail, kheadLock, ktailLock, ktries, karg, kalive>>
  BY <1>0 DEF KeyPopClear, KeyOwners, KeyGoto
<1>2. First = khead /\ Slot(ktail) \in Slots /\ Slot(khead) \in Slots
  BY <1>0, <1>1, HeadSide, WindowBounds, SlotType, SMT
<1>3. KeyTypeOK'
  BY <1>0, <1>1 DEF KeyTypeOK
<1>4. kpc'[t] = "pop_cleared" /\ \A u \in Threads \ {t} : kpc'[u] = kpc[u]
  BY <1>0, <1>1 DEF KeyTypeOK
<1>5. \A u \in Threads \ {t} : kpc[u] \notin HeadPcs
  BY <1>0, <1>1 DEF KeyOwners
<1>6. KeyOwners'
  <2>1. kkey[Slot(ktail)] = NoKey => kkey'[Slot(ktail)] = NoKey
    BY <1>0, <1>1, <1>2 DEF KeyTypeOK
  <2> QED
    BY <1>0, <1>1, <1>4, <1>5, <2>1 DEF KeyOwners, Slot, Wrap
<1>7. First' = khead + 1 /\ End' = End
  <2>1. First' = khead + 1
    BY <1>1, <1>4 DEF First
  <2>2. End' = End
    BY <1>1, <1>4 DEF End
  <2> QED
    BY <2>1, <2>2
<1>8. Window(kkey', First + 1, End) /\ First < End
  <2> DEFINE f == First
             e == End
  <2>1. f \in Nat /\ e \in Nat /\ Window(kkey, f, e) /\ f = khead
    BY <1>0, <1>2, WindowBounds DEF KeyWindow
  <2>2. kkey \in [Slots -> Keys \cup {NoKey}]
    BY <1>0 DEF KeyTypeOK
  <2> HIDE DEF f, e
  <2>3. Window([kkey EXCEPT ![Slot(f)] = NoKey], f + 1, e) /\ f < e
    BY <1>1, <2>1, <2>2, WindowPop
  <2> QED
    BY <1>1, <2>1, <2>3 DEF f, e
<1>9. KeyWindow'
  BY <1>0, <1>1, <1>2, <1>7, <1>8 DEF KeyWindow, Window, Slot, Wrap
<1> QED
  BY <1>2, <1>3, <1>6, <1>7, <1>8, <1>9 DEF KeyInv

\* Adding nothing changes nothing.
LEMMA PlusZero == \A n \in Nat : n + 0 = n
BY SMT

\* Counting the element moves an index, and the window stays where it is.
LEMMA KeyIncrementKeeps ==
  ASSUME KeyInv, NEW t \in Threads, KeyPushIncrement(t) \/ KeyPopIncrement(t)
  PROVE  KeyInv' /\ First' = First /\ End' = End
<1> USE NamesAssumption DEF TailPcs, HeadPcs
<1>0. KeyTypeOK /\ KeyOwners /\ KeyWindow /\ kalive
  BY DEF KeyInv, KeyOwners, KeyPushIncrement, KeyPopIncrement
<1>1. CASE KeyPushIncrement(t)
  <2>1. /\ kpc[t] = "push_stored" /\ kpc' = [kpc EXCEPT ![t] = "idle"]
        /\ ktail' = ktail + 1 /\ ktailLock' = NoThread
        /\ ktries' = [ktries EXCEPT ![t] = 0] /\ karg' = [karg EXCEPT ![t] = NoKey]
        /\ UNCHANGED <<kkey, khead, kheadLock, kret, kalive>>
    BY <1>1 DEF KeyPushIncrement, KeyReturn, KeyGoto
  <2>2. kpc'[t] = "idle" /\ \A u \in Threads \ {t} : kpc'[u] = kpc[u]
    BY <1>0, <2>1 DEF KeyTypeOK
  <2>3. \A u \in Threads \ {t} : kpc[u] \notin TailPcs
    BY <1>0, <2>1 DEF KeyOwners
  <2>4. KeyTypeOK'
    BY <1>0, <2>1, NTRYAssumption, SMT DEF KeyTypeOK
  <2>5. KeyOwners'
    BY <1>0, <2>1, <2>2, <2>3 DEF KeyOwners, KeyTypeOK, Slot, Wrap
  <2>6. End = ktail + 1
    BY <2>1, TailSide
  <2>7. First' = First
    BY <2>1, <2>2 DEF First
  <2>8. End' = ktail'
    <3>1. ~ \E u \in Threads : kpc'[u] = "push_stored"
      BY <2>2, <2>3
    <3>2. End' = ktail' + 0
      BY <3>1 DEF End
    <3>3. ktail' \in Nat
      BY <2>4 DEF KeyTypeOK
    <3>4. ktail' + 0 = ktail'
      BY <3>3, PlusZero, Zenon
    <3> QED
      BY <3>2, <3>4, Zenon
  <2>9. KeyWindow'
    BY <1>0, <2>1, <2>6, <2>7, <2>8 DEF KeyWindow, Window, Slot, Wrap
  <2>10. KeyInv'
    BY <2>4, <2>5, <2>9 DEF KeyInv
  <2> QED
    BY <2>1, <2>6, <2>7, <2>8, <2>10
<1>2. CASE KeyPopIncrement(t)
  <2>1. /\ kpc[t] = "pop_cleared" /\ kpc' = [kpc EXCEPT ![t] = "idle"]
        /\ khead' = khead + 1 /\ kheadLock' = NoThread
        /\ ktries' = [ktries EXCEPT ![t] = 0] /\ karg' = [karg EXCEPT ![t] = NoKey]
        /\ UNCHANGED <<kkey, ktail, ktailLock, kret, kalive>>
    BY <1>2 DEF KeyPopIncrement, KeyReturn, KeyGoto
  <2>2. kpc'[t] = "idle" /\ \A u \in Threads \ {t} : kpc'[u] = kpc[u]
    BY <1>0, <2>1 DEF KeyTypeOK
  <2>3. \A u \in Threads \ {t} : kpc[u] \notin HeadPcs
    BY <1>0, <2>1 DEF KeyOwners
  <2>4. KeyTypeOK'
    BY <1>0, <2>1, NTRYAssumption, SMT DEF KeyTypeOK
  <2>5. KeyOwners'
    BY <1>0, <2>1, <2>2, <2>3 DEF KeyOwners, KeyTypeOK, Slot, Wrap
  <2>6. First = khead + 1
    BY <2>1, HeadSide
  <2>7. End' = End
    BY <2>1, <2>2 DEF End
  <2>8. First' = khead'
    <3>1. ~ \E u \in Threads : kpc'[u] = "pop_cleared"
      BY <2>2, <2>3
    <3>2. First' = khead' + 0
      BY <3>1 DEF First
    <3>3. khead' \in Nat
      BY <2>4 DEF KeyTypeOK
    <3>4. khead' + 0 = khead'
      BY <3>3, PlusZero, Zenon
    <3> QED
      BY <3>2, <3>4, Zenon
  <2>9. KeyWindow'
    BY <1>0, <2>1, <2>6, <2>7, <2>8 DEF KeyWindow, Window, Slot, Wrap
  <2>10. KeyInv'
    BY <2>4, <2>5, <2>9 DEF KeyInv
  <2> QED
    BY <2>1, <2>6, <2>7, <2>8, <2>10
<1> QED
  BY <1>1, <1>2

\* The destructor finds the indices where the keys are, and clears them all.
LEMMA KeyDestroyKeeps ==
  ASSUME KeyInv, KeyDestroy
  PROVE  KeyInv'
<1>1. /\ KeyTypeOK /\ KeyOwners /\ KeyWindow /\ kalive /\ kalive' = FALSE
      /\ \A t \in Threads : kpc[t] = "idle"
      /\ kkey' = [p \in Slots |->
                   IF \E i \in khead..(ktail - 1) : Slot(i) = p THEN NoKey ELSE kkey[p]]
      /\ UNCHANGED <<khead, ktail, kheadLock, ktailLock, kpc, ktries, karg, kret>>
  BY DEF KeyInv, KeyDestroy
<1>2. KeyTypeOK'
  BY <1>1 DEF KeyTypeOK
<1>3. KeyOwners'
  BY <1>1 DEF KeyOwners, TailPcs, HeadPcs
<1>4. First = khead /\ End = ktail
  BY <1>1, SMT DEF First, End, KeyTypeOK
<1>5. \A p \in Slots : kkey[p] # NoKey => \E i \in khead..(ktail - 1) : Slot(i) = p
  BY <1>1, <1>4 DEF KeyWindow, Window
<1>6. KeyWindow'
  BY <1>1, <1>5 DEF KeyWindow
<1> QED
  BY <1>2, <1>3, <1>6 DEF KeyInv

\* Every step keeps the invariant.
LEMMA KeyStep == KeyInv /\ [KeyNext]_kvars => KeyInv'
<1> SUFFICES ASSUME KeyInv, [KeyNext]_kvars
             PROVE  KeyInv'
  OBVIOUS
<1>1. CASE UNCHANGED kvars
  BY <1>1 DEF kvars, KeyInv, KeyTypeOK, KeyOwners, KeyWindow, Window, First, End,
              TailPcs, HeadPcs, Slot, Wrap
<1>2. CASE KeyDestroy
  BY <1>2, KeyDestroyKeeps
<1>3. ASSUME NEW t \in Threads,
             \/ \E k \in Keys : KeyPushLock(t, k)
             \/ KeyPushStep(t) \/ KeyPopLock(t) \/ KeyPopStep(t)
             \/ KeyEmptyLock(t) \/ KeyEmptyReturn(t)
      PROVE  KeyInv'
  BY <1>3, KeyQuiet, KeyPushStoreKeeps, KeyPopClearKeeps, KeyIncrementKeeps
     DEF KeyPushStep, KeyPopStep
<1> QED
  BY <1>1, <1>2, <1>3 DEF KeyNext, KeyDestroyed

\* The inductive invariant of the key-only queue.
THEOREM KeyInvariant == KeySpec => []KeyInv
BY KeyInitial, KeyStep, PTL DEF KeySpec

\* The slots that hold a key are exactly those of one window of at most Capacity
\* indices, whatever the two sides of RingAtomicMapQueueMPMC<Key, void> are
\* doing and however stale their loads of the key are; after the destructor none does.
THEOREM KeyQueueCorrect == KeySpec => []SlotsMatchWindow
<1>1. KeyInv => SlotsMatchWindow
  BY DEF KeyInv, KeyWindow, Window, SlotsMatchWindow
<1> QED
  BY <1>1, KeyInvariant, PTL

------------------------------------------------------------------------------
(* The abstract queue as a function of the ring                             *)

KeyPairs == (Keys \cup {NoKey}) \X {Void}

\* While the queue lives the abstract one holds the keys of the window.
LEMMA KeyItemsShape ==
  KeyInv => /\ KeyItems \in Seq(KeyPairs)
            /\ ~kalive => KeyItems = <<>>
            /\ kalive => /\ Len(KeyItems) = End - First
                         /\ \A i \in First..(End - 1) :
                              KeyItems[i - First + 1] = <<kkey[Slot(i)], Void>>
<1> SUFFICES ASSUME KeyInv
             PROVE  /\ KeyItems \in Seq(KeyPairs)
                    /\ ~kalive => KeyItems = <<>>
                    /\ kalive => /\ Len(KeyItems) = End - First
                                 /\ \A i \in First..(End - 1) :
                                      KeyItems[i - First + 1] = <<kkey[Slot(i)], Void>>
  OBVIOUS
<1>1. CASE ~kalive
  BY <1>1, NoItems DEF KeyItems
<1>2. CASE kalive
  <2> DEFINE f == First
             size == End - First
  <2>1. f \in Nat /\ size \in Nat /\ End = f + size
    BY <1>2, WindowBounds, SMT DEF KeyInv, KeyWindow, Window
  <2>2. KeyItems = [n \in 1..size |-> <<kkey[Slot(f + n - 1)], Void>>]
    BY <1>2 DEF KeyItems
  <2> HIDE DEF f, size
  <2>3. \A n \in 1..size : <<kkey[Slot(f + n - 1)], Void>> \in KeyPairs
    <3> SUFFICES ASSUME NEW n \in 1..size
                 PROVE  <<kkey[Slot(f + n - 1)], Void>> \in KeyPairs
      OBVIOUS
    <3>1. Slot(f + n - 1) \in Slots
      BY <2>1, SlotType, SMT
    <3> QED
      BY <3>1 DEF KeyInv, KeyTypeOK, KeyPairs
  <2>4. KeyItems \in [1..size -> KeyPairs]
    BY <2>2, <2>3, Zenon
  <2>5. KeyItems \in Seq(KeyPairs) /\ Len(KeyItems) = size
    BY <2>1, <2>4, SMT
  <2>6. ASSUME NEW i \in f..(End - 1)
        PROVE  KeyItems[i - f + 1] = <<kkey[Slot(i)], Void>>
    <3>1. i - f + 1 \in 1..size /\ f + (i - f + 1) - 1 = i
      BY <2>1, SMT
    <3> QED
      BY <2>2, <3>1
  <2> QED
    BY <1>2, <2>5, <2>6 DEF f, size
<1> QED
  BY <1>1, <1>2

\* The same after a step.
LEMMA KeyItemsShapeNext ==
  (KeyInv => /\ KeyItems \in Seq(KeyPairs)
             /\ ~kalive => KeyItems = <<>>
             /\ kalive => /\ Len(KeyItems) = End - First
                          /\ \A i \in First..(End - 1) :
                               KeyItems[i - First + 1] = <<kkey[Slot(i)], Void>>)'
BY KeyItemsShape, PTL

\* The same window of the same slots is the same abstract queue.
LEMMA KeyItemsFrame ==
  ASSUME UNCHANGED <<kkey, kalive>>, First' = First, End' = End
  PROVE  KeyItems' = KeyItems
BY DEF KeyItems, Slot, Wrap

\* The store of push() appends the key.
LEMMA KeyPushStoreMaps ==
  ASSUME KeyInv, KeyInv', NEW t \in Threads, KeyPushStore(t)
  PROVE  karg[t] \in Keys /\ KeyFifo!Push(karg[t], Void)
<1>1. /\ kpc[t] = "push_store" /\ kkey' = [kkey EXCEPT ![Slot(ktail)] = karg[t]]
      /\ kret' = kret /\ kalive' = kalive
      /\ KeyTypeOK /\ KeyOwners
  BY DEF KeyPushStore, KeyInv
<1>2. kalive /\ karg[t] \in Keys
  BY <1>1, NamesAssumption DEF KeyOwners, TailPcs
<1>3. First' = First /\ End' = End + 1 /\ End = ktail /\ End < First + Capacity
  BY KeyPushStoreKeeps
<1> DEFINE size == End - First
           x == <<karg[t], Void>>
           new == Append(KeyItems, x)
<1>4. /\ First \in Nat /\ End \in Nat /\ size \in Nat /\ End' - First' = size + 1
      /\ First <= End /\ Capacity \in Nat
  BY <1>1, <1>2, <1>3, WindowBounds, Sizes, SMT DEF KeyInv, KeyWindow, Window
<1>5. KeyItems \in Seq(KeyPairs) /\ Len(KeyItems) = size /\ x \in KeyPairs
  BY <1>2, KeyItemsShape DEF KeyPairs
<1>6. KeyItems' \in Seq(KeyPairs) /\ Len(KeyItems') = size + 1
  BY <1>1, <1>2, <1>4, KeyItemsShapeNext DEF KeyPairs
<1>7. Slot(ktail) \in Slots /\ kkey \in [Slots -> Keys \cup {NoKey}]
  BY <1>1, <1>3, <1>4, SlotType, SMT DEF KeyTypeOK
<1>8. ASSUME NEW i \in First..(End - 1)
      PROVE  kkey'[Slot(i)] = kkey[Slot(i)]
  <2>1. i \in Int /\ i # ktail /\ i < ktail + Capacity /\ ktail < i + Capacity /\ ktail \in Int
    BY <1>3, <1>4, SMT
  <2>2. Slot(i) # Slot(ktail) /\ Slot(i) \in Slots
    BY <2>1, SlotInjective, SlotType
  <2> QED
    BY <1>1, <1>7, <2>2
<1>9. ASSUME NEW n \in 1..size
      PROVE  KeyItems'[n] = KeyItems[n]
  <2>1. PICK i \in First..(End - 1) : i - First + 1 = n
    <3>1. First + n - 1 \in First..(End - 1) /\ (First + n - 1) - First + 1 = n
      BY <1>4, SMT
    <3> QED
      BY <3>1
  <2>2. KeyItems[n] = <<kkey[Slot(i)], Void>>
    BY <1>2, <2>1, KeyItemsShape
  <2>3. KeyItems'[n] = <<kkey'[Slot(i)], Void>>
    <3>1. i \in First'..(End' - 1) /\ i - First' + 1 = n
      BY <1>3, <1>4, <2>1, SMT
    <3> QED
      BY <1>1, <1>2, <3>1, KeyItemsShapeNext
  <2> QED
    BY <1>8, <2>2, <2>3
<1>10. KeyItems'[size + 1] = x
  <2>1. PICK i \in Int : i = End
    BY <1>4, SMT
  <2>2. i \in First'..(End' - 1) /\ i - First' + 1 = size + 1
    BY <1>3, <1>4, <2>1, SMT
  <2>3. KeyItems'[size + 1] = <<kkey'[Slot(i)], Void>>
    BY <1>1, <1>2, <2>2, KeyItemsShapeNext
  <2>4. kkey'[Slot(i)] = karg[t]
    BY <1>1, <1>3, <1>7, <2>1
  <2> QED
    BY <2>3, <2>4
<1> HIDE DEF size, x
<1>11. /\ new \in Seq(KeyPairs) /\ Len(new) = size + 1
       /\ \A n \in 1..size : new[n] = KeyItems[n]
       /\ new[size + 1] = x
  BY <1>4, <1>5, SMT
<1>12. \A n \in 1..(size + 1) : KeyItems'[n] = new[n]
  BY <1>4, <1>9, <1>10, <1>11, SMT
<1> HIDE DEF new
<1>13. KeyItems' = new
  BY <1>6, <1>11, <1>12, SameItems
<1>14. Len(KeyItems) < Capacity
  BY <1>3, <1>4, <1>5, SMT DEF size
<1>15. KeyItems' = Append(KeyItems, <<karg[t], Void>>)
  BY <1>13 DEF new, x
<1> QED
  BY <1>1, <1>2, <1>14, <1>15 DEF KeyFifo!Push

\* The clearing store of pop() takes the oldest key.
LEMMA KeyPopClearMaps ==
  ASSUME KeyInv, KeyInv', NEW t \in Threads, KeyPopClear(t)
  PROVE  KeyFifo!Pop(t)
<1>1. /\ kpc[t] = "pop_clear" /\ kkey' = [kkey EXCEPT ![Slot(khead)] = NoKey]
      /\ kret' = [kret EXCEPT ![t] = karg[t]] /\ kalive' = kalive
      /\ KeyTypeOK /\ KeyOwners
  BY DEF KeyPopClear, KeyInv
<1>2. kalive /\ karg[t] = kkey[Slot(khead)]
  BY <1>1 DEF KeyOwners
<1>3. First' = First + 1 /\ End' = End /\ First = khead /\ First < End
  BY KeyPopClearKeeps
<1> DEFINE size == End - First
           new == Tail(KeyItems)
<1>4. /\ First \in Nat /\ End \in Nat /\ size \in Nat \ {0} /\ End' - First' = size - 1
      /\ End <= First + Capacity /\ Capacity \in Nat
  BY <1>1, <1>2, <1>3, WindowBounds, Sizes, SMT DEF KeyInv, KeyWindow, Window
<1>5. KeyItems \in Seq(KeyPairs) /\ Len(KeyItems) = size
  BY <1>2, KeyItemsShape
<1>6. KeyItems' \in Seq(KeyPairs) /\ Len(KeyItems') = size - 1
  BY <1>1, <1>2, <1>4, KeyItemsShapeNext DEF KeyPairs
<1>7. Slot(khead) \in Slots /\ kkey \in [Slots -> Keys \cup {NoKey}]
  BY <1>1, <1>3, <1>4, SlotType, SMT DEF KeyTypeOK
<1>8. ASSUME NEW i \in (First + 1)..(End - 1)
      PROVE  kkey'[Slot(i)] = kkey[Slot(i)]
  <2>1. i \in Int /\ i # khead /\ i < khead + Capacity /\ khead < i + Capacity /\ khead \in Int
    BY <1>3, <1>4, SMT
  <2>2. Slot(i) # Slot(khead) /\ Slot(i) \in Slots
    BY <2>1, SlotInjective, SlotType
  <2> QED
    BY <1>1, <1>7, <2>2
<1>9. KeyItems # <<>>
  BY <1>4, <1>5
<1>10. Head(KeyItems) = <<karg[t], Void>>
  <2>1. First \in First..(End - 1) /\ First - First + 1 = 1
    BY <1>3, <1>4, SMT
  <2>2. KeyItems[1] = <<kkey[Slot(First)], Void>>
    BY <1>2, <2>1, KeyItemsShape
  <2> QED
    BY <1>2, <1>3, <1>9, <2>2, SMT
<1>11. ASSUME NEW n \in 1..(size - 1)
       PROVE  KeyItems'[n] = KeyItems[n + 1]
  <2>1. PICK i \in (First + 1)..(End - 1) : i - First + 1 = n + 1
    <3>1. First + n \in (First + 1)..(End - 1) /\ (First + n) - First + 1 = n + 1
      BY <1>4, SMT
    <3> QED
      BY <3>1
  <2>2. i \in First..(End - 1) /\ i \in First'..(End' - 1) /\ i - First' + 1 = n
    BY <1>3, <1>4, <2>1, SMT
  <2>3. KeyItems[n + 1] = <<kkey[Slot(i)], Void>>
    BY <1>2, <2>1, <2>2, KeyItemsShape
  <2>4. KeyItems'[n] = <<kkey'[Slot(i)], Void>>
    BY <1>1, <1>2, <2>2, KeyItemsShapeNext
  <2> QED
    BY <1>8, <2>1, <2>3, <2>4
<1> HIDE DEF size
<1>12. /\ new \in Seq(KeyPairs) /\ Len(new) = size - 1
       /\ \A n \in 1..(size - 1) : new[n] = KeyItems[n + 1]
  BY <1>4, <1>5, <1>9, WithoutFirst
<1> HIDE DEF new
<1>13. KeyItems' = new
  BY <1>6, <1>11, <1>12, SameItems
<1>14. KeyItems' = Tail(KeyItems)
  BY <1>13 DEF new
<1> DEFINE held == [u \in Threads |-> <<kret[u], Void>>]
<1>15. [u \in Threads |-> <<kret'[u], Void>>] = [held EXCEPT ![t] = <<karg[t], Void>>]
  BY <1>1 DEF KeyTypeOK
<1> QED
  BY <1>9, <1>10, <1>14, <1>15 DEF KeyFifo!Pop

\* A pop() that finds no key hands out the empty key.
LEMMA KeyPopEmptyMaps ==
  ASSUME KeyInv, NEW t \in Threads, KeyPopEmpty(t)
  PROVE  KeyFifo!PopNothing(t)
<1>1. /\ UNCHANGED <<kkey, kalive>> /\ kret' = [kret EXCEPT ![t] = NoKey] /\ KeyTypeOK
  BY DEF KeyPopEmpty, KeyInv
<1>2. KeyItems' = KeyItems
  BY <1>1, KeyQuiet, KeyItemsFrame
<1> DEFINE held == [u \in Threads |-> <<kret[u], Void>>]
<1>3. [u \in Threads |-> <<kret'[u], Void>>] = [held EXCEPT ![t] = <<NoKey, @[2]>>]
  BY <1>1 DEF KeyTypeOK
<1> QED
  BY <1>2, <1>3 DEF KeyFifo!PopNothing

\* A new ring is an empty queue.
LEMMA KeyInitMaps == KeyInit => KeyFifo!Init
<1> SUFFICES ASSUME KeyInit
             PROVE  KeyFifo!Init
  OBVIOUS
<1>1. KeyItems = <<>>
  <2>1. kalive /\ End - First = 0
    BY SMT DEF KeyInit, First, End
  <2>2. KeyItems \in Seq(KeyPairs) /\ Len(KeyItems) = 0
    BY <2>1, KeyInitial, KeyItemsShape
  <2> QED
    BY <2>2, NoItems
<1>2. [t \in Threads |-> <<kret[t], Void>>] = [t \in Threads |-> <<NoKey, Void>>]
  BY DEF KeyInit
<1> QED
  BY <1>1, <1>2 DEF KeyFifo!Init

\* Every step of the ring is a step of the abstract queue, or none.
LEMMA KeyStepMaps ==
  ASSUME KeyInv, KeyInv', [KeyNext]_kvars
  PROVE  [KeyFifo!Next]_(KeyFifo!vars)
<1>1. ASSUME NEW t \in Threads,
             \/ \E k \in Keys : KeyPushLock(t, k)
             \/ KeyPushSeesEmpty(t) \/ KeyPushSeesKey(t) \/ KeyPushFull(t)
             \/ KeyPopLock(t) \/ KeyPopLoad(t)
             \/ KeyEmptyLock(t) \/ KeyEmptyReturn(t)
             \/ KeyPushIncrement(t) \/ KeyPopIncrement(t)
      PROVE  [KeyFifo!Next]_(KeyFifo!vars)
  <2>1. UNCHANGED <<kkey, kalive, kret>>
    BY <1>1 DEF KeyPushLock, KeyPushSeesEmpty, KeyPushSeesKey, KeyPushFull, KeyPopLock, KeyPopLoad,
                KeyEmptyLock, KeyEmptyReturn, KeyPushIncrement, KeyPopIncrement, kshared
  <2>2. First' = First /\ End' = End
    BY <1>1, KeyQuiet, KeyIncrementKeeps
  <2>3. KeyItems' = KeyItems
    BY <2>1, <2>2, KeyItemsFrame
  <2> QED
    BY <2>1, <2>3 DEF KeyFifo!vars
<1>2. ASSUME NEW t \in Threads, KeyPushStore(t)
      PROVE  KeyFifo!Next
  BY <1>2, KeyPushStoreMaps DEF KeyFifo!Next
<1>3. ASSUME NEW t \in Threads, KeyPopClear(t) \/ KeyPopEmpty(t)
      PROVE  KeyFifo!Next
  BY <1>3, KeyPopClearMaps, KeyPopEmptyMaps DEF KeyFifo!Next
<1>4. CASE KeyDestroy
  <2>1. kret' = kret /\ ~kalive'
    BY <1>4 DEF KeyDestroy
  <2>2. KeyItems' = <<>>
    BY <2>1 DEF KeyItems
  <2> QED
    BY <2>1, <2>2 DEF KeyFifo!Next, KeyFifo!Destroy
<1>5. CASE UNCHANGED kvars
  <2>1. UNCHANGED <<kkey, kalive, kret, khead, ktail, kpc>>
    BY <1>5 DEF kvars
  <2>2. KeyItems' = KeyItems
    BY <2>1, KeyItemsFrame DEF First, End
  <2> QED
    BY <2>1, <2>2 DEF KeyFifo!vars
<1> QED
  BY <1>1, <1>2, <1>3, <1>4, <1>5 DEF KeyNext, KeyDestroyed, KeyPushStep, KeyPopStep

\* push() and pop() of RingAtomicMapQueueMPMC<Key, void> behave as a bounded
\* first-in first-out queue of keys, for any threads and capacity: that a pop may
\* take a key before its push counts it, and the stale loads, are not observable.
THEOREM KeyRefinementCorrect == KeySpec => KeyRefinesFifo
<1>1. KeyInv /\ KeyInv' /\ [KeyNext]_kvars => [KeyFifo!Next]_(KeyFifo!vars)
  BY KeyStepMaps
<1> QED
  BY <1>1, KeyInitMaps, KeyInvariant, PTL DEF KeySpec, KeyRefinesFifo, KeyFifo!Spec

==============================================================================
