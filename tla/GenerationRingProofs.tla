------------------------- MODULE GenerationRingProofs -------------------------
(***************************************************************************)
(* The generation ring of LockFreeListRCU is safe for every number of      *)
(* handles, of reclaiming threads, of nodes and of generations above one.  *)
(***************************************************************************)
EXTENDS GenerationRing, ModuloLemmas, FiniteSetTheorems, TLAPS

\* The steps are Zenon's, except where SMT is cited.
USE Zenon

------------------------------------------------------------------------------
(* The inductive invariant                                                  *)

Freeing == {"destroyIn", "spliceIn", "destroyOut", "spliceOut"}

\* The generations in the ring: that of oldest_ up to that of the newest block.
Low == gen[oldest]
High == gen[Newest]

\* One caller of reclaim() is inside, and what it has tested is still so.
FlagInv ==
  /\ \A c, d \in Callers : cpc[c] # "idle" /\ cpc[d] # "idle" => c = d
  /\ reclaiming <=> \E c \in Callers : cpc[c] # "idle"
  /\ \A c \in Callers :
       /\ cpc[c] \in {"freeIn", "destroyIn", "spliceIn", "exchange"} => retired # {}
       /\ cpc[c] = "exchange" => state[NextSlot(current)] = "EMPTY"
       /\ cpc[c] = "publish" => /\ state[current] = "SEALED"
                                /\ gen[NextSlot(current)] = gen[current] + 1
       /\ cpc[c] \in Freeing => state[oldest] = "SEALED"

\* The blocks are a window of consecutive generations, one to a slot.
WindowInv ==
  /\ Low <= High /\ High < Low + kGenerations
  /\ oldest = Slot(Low) /\ Newest = Slot(High)
  /\ \A g \in Low..High : gen[Slot(g)] = g
  /\ \A s \in Slots : state[s] = "CURRENT" <=> s = Newest
  /\ \A s \in Slots : state[s] = "SEALED" <=> \E g \in Low..(High - 1) : Slot(g) = s
  /\ \A s \in Slots : state[s] = "SEALED" <=> bag[s] # {}

\* A session's block is in the ring, and a handle on its way through the slow
\* path of refresh() is behind the current generation.
HandleOK(h) ==
  /\ hpc[h] \in {"bump", "verify", "undo", "leave"} => target[h] \in Slots
  /\ hpc[h] = "leave" => Session(h)
  /\ Session(h) => /\ state[block[h]] # "EMPTY"
                   /\ seen[h] >= gen[block[h]]
                   /\ hpc[h] # "idle" => gen[block[h]] < gen[current]
  /\ hpc[h] = "leave" => /\ state[target[h]] # "EMPTY"
                         /\ seen[h] >= gen[target[h]]
                         /\ gen[block[h]] < gen[target[h]]

HandleInv == \A h \in Handles : HandleOK(h)

\* The bag about to be freed has no session on its block.
QuietInv ==
  \A c \in Callers, h \in Handles :
    cpc[c] \in Freeing => /\ block[h] # oldest
                          /\ ~ (hpc[h] = "leave" /\ target[h] = oldest)

\* A session comes upon no node bagged before the generation it has joined.
SeesOK(h) ==
  Session(h) => /\ sees[h] \cap fresh = {}
                /\ sees[h] \subseteq used \cup retired \cup free \cup Bagged
                /\ \A s \in Slots : state[s] = "SEALED" /\ gen[s] < gen[Pin(h)]
                                      => sees[h] \cap bag[s] = {}

SeesInv == \A h \in Handles : SeesOK(h)

GenInv == /\ TypeOK /\ CountsExact /\ Populations
          /\ FlagInv /\ WindowInv /\ HandleInv /\ QuietInv /\ SeesInv

------------------------------------------------------------------------------
(* Slots of generations                                                     *)

\* The ring has a slot.
LEMMA RingSize == kGenerations \in Nat \ {0}
BY RingAssumption, SMT

\* An absolute generation number names a slot of the ring.
LEMMA SlotType ==
  \A g \in Int : Slot(g) \in Slots
BY RingSize, DivMod DEF Slot, Slots

\* Two generations less than a lap apart are in different slots.
LEMMA SlotInjective ==
  \A g, k \in Int : Slot(g) = Slot(k) /\ g < k + kGenerations /\ k < g + kGenerations => g = k
<1> SUFFICES ASSUME NEW g \in Int, NEW k \in Int,
                    Slot(g) = Slot(k), g < k + kGenerations, k < g + kGenerations
             PROVE  g = k
  OBVIOUS
<1>1. g % kGenerations = k % kGenerations
  BY DEF Slot
<1> QED
  BY <1>1, RingSize, ModInjective

\* A generation a lap later reuses the slot.
LEMMA SlotLap ==
  \A g \in Int : Slot(g + kGenerations) = Slot(g)
BY RingSize, ModPeriodic, Zenon DEF Slot

\* The slot after a generation's is the next generation's.
LEMMA SlotNext ==
  \A g \in Int : NextSlot(Slot(g)) = Slot(g + 1)
<1>1. 1 \in Int
  BY SMT
<1> QED
  BY <1>1, RingSize, ModAdd, Zenon DEF Slot, NextSlot

\* The slot after a slot is a slot.
LEMMA NextSlotType ==
  \A s \in Slots : NextSlot(s) \in Slots
<1> SUFFICES ASSUME NEW s \in Slots
             PROVE  NextSlot(s) \in Slots
  OBVIOUS
<1>1. s + 1 \in Int /\ kGenerations \in Nat \ {0}
  BY RingAssumption, SMT DEF Slots
<1> QED
  BY <1>1, DivMod DEF NextSlot, Slots

\* How far a slot is behind the newest one tells the generation it belongs to.
LEMMA SlotBehind ==
  ASSUME NEW hi \in Int, NEW g \in (hi - kGenerations + 1)..hi
  PROVE  (Slot(hi) + kGenerations - Slot(g)) % kGenerations = hi - g
<1>1. g \in Int /\ hi - g \in 0..(kGenerations - 1) /\ kGenerations \in Nat \ {0}
  BY RingAssumption, SMT
<1> QED
  BY <1>1, ModDistance DEF Slot

\* Every slot belongs to one of the last kGenerations generations.
LEMMA SlotCover ==
  ASSUME NEW hi \in Int, NEW s \in Slots
  PROVE  \E g \in (hi - kGenerations + 1)..hi : Slot(g) = s
<1> DEFINE k == hi - s
           d == k % kGenerations
           q == k \div kGenerations
           g == hi - d
<1>1. s \in 0..(kGenerations - 1) /\ k \in Int /\ kGenerations \in Nat \ {0} /\ s = hi - k
  BY RingAssumption, SMT DEF Slots
<1>2. d \in 0..(kGenerations - 1) /\ q \in Int /\ k = kGenerations * q + d
  <2> HIDE DEF k
  <2> QED
    BY <1>1, DivMod
<1> HIDE DEF k, d, q
<1>3. g \in (hi - kGenerations + 1)..hi /\ g \in Int
  BY <1>1, <1>2, SMT
<1>4. g = kGenerations * q + s
  BY <1>1, <1>2, SMT
<1> HIDE DEF g
<1>5. g % kGenerations = s
  BY <1>1, <1>2, <1>3, <1>4, DivModUnique
<1> QED
  BY <1>3, <1>5 DEF Slot

------------------------------------------------------------------------------
(* What the two kinds of steps leave alone                                  *)

\* A handle's step moves no block and takes nothing off the retired list.
LEMMA HandleFrame ==
  ASSUME NEW h \in Handles, HandleStep(h)
  PROVE  /\ UNCHANGED <<state, gen, bag, current, oldest, reclaiming, cpc, result>>
         /\ retired \subseteq retired'
<1> USE DEF blocks, nodes, handles, callers, Step
<1>1. CASE NewHandle(h) \/ Refresh(h) \/ Leave(h)
  BY <1>1 DEF NewHandle, Refresh, Leave
<1>2. CASE JoinStep(h)
  BY <1>2 DEF JoinStep, JoinLoad, JoinBump, JoinVerify, Joined, JoinStale, JoinUndo, RefreshLeave
<1>3. CASE ListStep(h)
  BY <1>3 DEF ListStep, Alloc, Link, Discard, Retire
<1> QED
  BY <1>1, <1>2, <1>3 DEF HandleStep

\* A caller's step moves no handle and takes no node from the list.
LEMMA CallerFrame ==
  ASSUME NEW c \in Callers, CallerStep(c)
  PROVE  UNCHANGED <<refs, hpc, block, target, seen, used, fresh, retires>>
BY DEF blocks, nodes, handles, callers, CallerStep, ReclaimStep, ReclaimEnter, ReclaimContended,
       NothingRetired, AdvanceTest, AdvanceExchange, AdvancePublish, FreeTake, FreeDestroy,
       FreeSplice, FreeInDone, FreeOutDone, ReclaimExit

------------------------------------------------------------------------------
(* The counts                                                               *)

\* The handles in a slot, or on their way in, are finitely many.
LEMMA Joiners ==
  \A s : /\ IsFiniteSet(Members(s)) /\ Cardinality(Members(s)) \in Nat
         /\ IsFiniteSet(Raised(s)) /\ Cardinality(Raised(s)) \in Nat
<1> SUFFICES ASSUME NEW s
             PROVE  /\ IsFiniteSet(Members(s)) /\ Cardinality(Members(s)) \in Nat
                    /\ IsFiniteSet(Raised(s)) /\ Cardinality(Raised(s)) \in Nat
  OBVIOUS
<1>1. Members(s) \in SUBSET Handles /\ Raised(s) \in SUBSET Handles
  BY DEF Members, Raised
<1>2. IsFiniteSet(Members(s)) /\ IsFiniteSet(Raised(s))
  BY <1>1, FiniteAssumption, FS_Subset
<1> QED
  BY <1>2, FS_CardinalityType

\* A block whose count is zero has nobody on it, and a decrement is covered.
LEMMA CountZero ==
  ASSUME CountsExact, NEW s \in Slots, refs[s] = 0
  PROVE  Members(s) = {} /\ Raised(s) = {}
<1>1. Cardinality(Members(s)) + Cardinality(Raised(s)) = 0
  BY DEF CountsExact
<1>2. Cardinality(Members(s)) = 0 /\ Cardinality(Raised(s)) = 0
  BY <1>1, Joiners, SMT
<1> QED
  BY <1>2, Joiners, FS_EmptySet

\* A slot somebody has entered has a positive count.
LEMMA CountPositive ==
  ASSUME CountsExact, NEW s \in Slots, NEW h \in Handles, h \in Members(s) \cup Raised(s)
  PROVE  refs[s] - 1 \in Nat
<1>1. Members(s) # {} \/ Raised(s) # {}
  OBVIOUS
<1>2. Cardinality(Members(s)) # 0 \/ Cardinality(Raised(s)) # 0
  BY <1>1, Joiners, FS_EmptySet
<1>3. refs[s] = Cardinality(Members(s)) + Cardinality(Raised(s))
  BY DEF CountsExact
<1> QED
  BY <1>2, <1>3, Joiners, SMT

\* A new member counts once.
LEMMA CardAdd ==
  ASSUME NEW S, IsFiniteSet(S), NEW x, x \notin S
  PROVE  Cardinality(S \cup {x}) = Cardinality(S) + 1
BY FS_AddElement

\* A member that leaves no longer counts.
LEMMA CardRemove ==
  ASSUME NEW S, IsFiniteSet(S), NEW x, x \in S
  PROVE  Cardinality(S \ {x}) = Cardinality(S) - 1
BY FS_RemoveElement

\* A step that changes no count and nobody's membership.
LEMMA CountsKept ==
  ASSUME CountsExact, refs' = refs,
         \A s \in Slots : Members(s)' = Members(s) /\ Raised(s)' = Raised(s)
  PROVE  CountsExact'
BY DEF CountsExact

\* A step that changes the count of one block by as much as its membership.
LEMMA CountsMoved ==
  ASSUME CountsExact, NEW x \in Slots, NEW d \in Int,
         refs'[x] = refs[x] + d,
         Cardinality(Members(x)') + Cardinality(Raised(x)')
           = Cardinality(Members(x)) + Cardinality(Raised(x)) + d,
         \A s \in Slots \ {x} :
           refs'[s] = refs[s] /\ Members(s)' = Members(s) /\ Raised(s)' = Raised(s)
  PROVE  CountsExact'
<1> SUFFICES ASSUME NEW s \in Slots
             PROVE  refs'[s] = Cardinality(Members(s)') + Cardinality(Raised(s)')
  BY DEF CountsExact
<1>1. refs[s] = Cardinality(Members(s)) + Cardinality(Raised(s))
  BY DEF CountsExact
<1>2. CASE s = x
  BY <1>1, <1>2
<1>3. CASE s # x
  BY <1>1, <1>3
<1> QED
  BY <1>2, <1>3

\* join(), refresh() and leave() keep the counts, step by step.
LEMMA CountsJoin ==
  ASSUME TypeOK, CountsExact, HandleInv, NEW h \in Handles, JoinStep(h)
  PROVE  CountsExact'
<1>0. /\ hpc \in [Handles -> HandleSteps] /\ block \in [Handles -> Slots \cup {NoSlot}]
      /\ target \in [Handles -> Slots \cup {NoSlot}] /\ refs \in [Slots -> Nat]
  BY DEF TypeOK
<1>b. PICK b : b = block[h]
  OBVIOUS
<1>t. PICK t : t = target[h]
  OBVIOUS
<1>1. CASE JoinLoad(h) \/ JoinStale(h)
  <2>1. \A s \in Slots : Members(s)' = Members(s) /\ Raised(s)' = Raised(s)
    BY <1>0, <1>1 DEF JoinLoad, JoinStale, Step, Members, Raised
  <2>2. refs' = refs
    BY <1>1 DEF JoinLoad, JoinStale, blocks
  <2> QED
    BY <2>1, <2>2, CountsKept
<1>2. CASE JoinBump(h)
  <2>1. /\ t \in Slots /\ h \notin Raised(t)
        /\ refs' = [refs EXCEPT ![t] = @ + 1]
        /\ \A s \in Slots : Members(s)' = Members(s)
        /\ Raised(t)' = Raised(t) \cup {h}
        /\ \A s \in Slots \ {t} : Raised(s)' = Raised(s)
    BY <1>0, <1>t, <1>2 DEF JoinBump, Step, Members, Raised, HandleInv, HandleOK
  <2>2. Cardinality(Raised(t)') = Cardinality(Raised(t)) + 1
    BY <2>1, Joiners, CardAdd
  <2>3. refs'[t] = refs[t] + 1 /\ \A s \in Slots \ {t} : refs'[s] = refs[s]
    BY <1>0, <2>1
  <2>4. Cardinality(Members(t)') + Cardinality(Raised(t)')
          = Cardinality(Members(t)) + Cardinality(Raised(t)) + 1
    BY <2>1, <2>2, Joiners, SMT
  <2>5. 1 \in Int
    BY SMT
  <2> QED
    BY <2>1, <2>3, <2>4, <2>5, CountsMoved
<1>3. CASE JoinVerify(h) /\ b = NoSlot
  <2>1. /\ t \in Slots /\ h \in Raised(t) /\ h \notin Members(t)
        /\ refs' = refs
        /\ Members(t)' = Members(t) \cup {h}
        /\ Raised(t)' = Raised(t) \ {h}
        /\ \A s \in Slots \ {t} : Members(s)' = Members(s) /\ Raised(s)' = Raised(s)
    <3>1. /\ hpc[h] = "verify" /\ b = NoSlot
          /\ hpc' = [hpc EXCEPT ![h] = "idle"] /\ block' = [block EXCEPT ![h] = t]
          /\ target' = target /\ refs' = refs
      BY <1>b, <1>t, <1>3 DEF JoinVerify, Joined, Step, blocks
    <3>2. t \in Slots /\ NoSlot \notin Slots
      BY <1>t, <3>1, NoSlotAssumption DEF HandleInv, HandleOK, Slots
    <3>3. h \notin Members(t) /\ Members(t)' = Members(t) \cup {h}
      BY <1>0, <1>b, <3>1, <3>2 DEF Members
    <3>4. h \in Raised(t) /\ Raised(t)' = Raised(t) \ {h}
      BY <1>0, <1>t, <3>1, <3>2 DEF Raised
    <3>5. \A s \in Slots \ {t} : Members(s)' = Members(s)
      BY <1>0, <1>b, <3>1, <3>2 DEF Members
    <3>6. \A s \in Slots \ {t} : Raised(s)' = Raised(s)
      BY <1>0, <1>t, <3>1, <3>2 DEF Raised
    <3> QED
      BY <3>1, <3>2, <3>3, <3>4, <3>5, <3>6
  <2>2. /\ Cardinality(Members(t)') = Cardinality(Members(t)) + 1
        /\ Cardinality(Raised(t)') = Cardinality(Raised(t)) - 1
    BY <2>1, Joiners, CardAdd, CardRemove
  <2>3. refs'[t] = refs[t] + 0 /\ \A s \in Slots \ {t} : refs'[s] = refs[s]
    BY <1>0, <2>1, SMT
  <2>4. Cardinality(Members(t)') + Cardinality(Raised(t)')
          = Cardinality(Members(t)) + Cardinality(Raised(t)) + 0
    BY <2>1, <2>2, Joiners, SMT
  <2>5. 0 \in Int
    BY SMT
  <2> QED
    BY <2>1, <2>3, <2>4, <2>5, CountsMoved
<1>4. CASE JoinVerify(h) /\ b # NoSlot
  <2>1. \A s \in Slots : Members(s)' = Members(s) /\ Raised(s)' = Raised(s)
    BY <1>0, <1>b, <1>4 DEF JoinVerify, Joined, Step, Members, Raised
  <2>2. refs' = refs
    BY <1>4 DEF JoinVerify, blocks
  <2> QED
    BY <2>1, <2>2, CountsKept
<1>5. CASE JoinUndo(h)
  <2>1. /\ t \in Slots /\ h \in Raised(t)
        /\ refs' = [refs EXCEPT ![t] = @ - 1]
        /\ \A s \in Slots : Members(s)' = Members(s)
        /\ Raised(t)' = Raised(t) \ {h}
        /\ \A s \in Slots \ {t} : Raised(s)' = Raised(s)
    BY <1>0, <1>t, <1>5 DEF JoinUndo, Step, Members, Raised, HandleInv, HandleOK
  <2>2. Cardinality(Raised(t)') = Cardinality(Raised(t)) - 1
    BY <2>1, Joiners, CardRemove
  <2>3. refs'[t] = refs[t] + (-1) /\ \A s \in Slots \ {t} : refs'[s] = refs[s]
    BY <1>0, <2>1
  <2>4. Cardinality(Members(t)') + Cardinality(Raised(t)')
          = Cardinality(Members(t)) + Cardinality(Raised(t)) + (-1)
    BY <2>1, <2>2, Joiners, SMT
  <2>5. (-1) \in Int
    BY SMT
  <2> QED
    BY <2>1, <2>3, <2>4, <2>5, CountsMoved
<1>6. CASE RefreshLeave(h)
  <2>1. hpc[h] = "leave" /\ b # NoSlot /\ gen[b] < gen[t] /\ t \in Slots
    BY <1>b, <1>t, <1>6 DEF RefreshLeave, Step, HandleInv, HandleOK, Session
  <2>2. b \in Slots /\ gen[b] \in Nat
    BY <1>0, <1>b, <2>1 DEF TypeOK
  <2>3. b # t
    BY <2>1, <2>2, SMT
  <2>4. /\ h \in Members(b) /\ h \in Raised(t) /\ h \notin Members(t) /\ h \notin Raised(b)
        /\ refs' = [refs EXCEPT ![b] = @ - 1]
        /\ Members(b)' = Members(b) \ {h} /\ Raised(b)' = Raised(b)
        /\ Members(t)' = Members(t) \cup {h} /\ Raised(t)' = Raised(t) \ {h}
        /\ \A s \in Slots \ {b, t} : Members(s)' = Members(s) /\ Raised(s)' = Raised(s)
    <3>1. /\ hpc' = [hpc EXCEPT ![h] = "idle"] /\ target' = target
          /\ refs' = [refs EXCEPT ![b] = @ - 1]
          /\ block' = [block EXCEPT ![h] = t]
      BY <1>b, <1>t, <1>6 DEF RefreshLeave, Step
    <3>2. /\ h \in Members(b) /\ h \in Raised(t) /\ h \notin Members(t) /\ h \notin Raised(b)
      BY <1>0, <1>b, <1>t, <2>1, <2>3 DEF Members, Raised
    <3>3. Members(b)' = Members(b) \ {h} /\ Members(t)' = Members(t) \cup {h}
      BY <1>0, <1>b, <2>3, <3>1 DEF Members
    <3>4. Raised(b)' = Raised(b) /\ Raised(t)' = Raised(t) \ {h}
      BY <1>0, <1>t, <2>1, <2>3, <3>1 DEF Raised
    <3>5. \A s \in Slots \ {b, t} : Members(s)' = Members(s)
      BY <1>0, <1>b, <3>1 DEF Members
    <3>6. \A s \in Slots \ {b, t} : Raised(s)' = Raised(s)
      BY <1>0, <1>t, <3>1 DEF Raised
    <3> QED
      BY <3>1, <3>2, <3>3, <3>4, <3>5, <3>6
  <2>5. /\ Cardinality(Members(b)') = Cardinality(Members(b)) - 1
        /\ Cardinality(Members(t)') = Cardinality(Members(t)) + 1
        /\ Cardinality(Raised(t)') = Cardinality(Raised(t)) - 1
    BY <2>4, Joiners, CardAdd, CardRemove
  <2>6. \A s \in Slots : refs'[s] = Cardinality(Members(s)') + Cardinality(Raised(s)')
    <3>1. refs'[b] = refs[b] - 1 /\ \A s \in Slots \ {b} : refs'[s] = refs[s]
      BY <1>0, <2>2, <2>4
    <3>2. \A s \in Slots : refs[s] = Cardinality(Members(s)) + Cardinality(Raised(s))
      BY DEF CountsExact
    <3>3. refs'[b] = Cardinality(Members(b)') + Cardinality(Raised(b)')
      BY <2>2, <2>4, <2>5, <3>1, <3>2, Joiners, SMT
    <3>4. refs'[t] = Cardinality(Members(t)') + Cardinality(Raised(t)')
      BY <2>1, <2>3, <2>5, <3>1, <3>2, Joiners, SMT
    <3>5. \A s \in Slots \ {b, t} : refs'[s] = Cardinality(Members(s)') + Cardinality(Raised(s)')
      BY <2>4, <3>1, <3>2
    <3> QED
      BY <3>3, <3>4, <3>5
  <2> QED
    BY <2>6 DEF CountsExact
<1> QED
  BY <1>1, <1>2, <1>3, <1>4, <1>5, <1>6 DEF JoinStep

\* Every step keeps the counts exact.
LEMMA CountsStep ==
  ASSUME TypeOK, CountsExact, HandleInv, [Next]_vars
  PROVE  CountsExact'
<1>0. /\ hpc \in [Handles -> HandleSteps] /\ block \in [Handles -> Slots \cup {NoSlot}]
      /\ target \in [Handles -> Slots \cup {NoSlot}] /\ refs \in [Slots -> Nat]
  BY DEF TypeOK
<1>1. ASSUME NEW h \in Handles, NewHandle(h) \/ Refresh(h) \/ ListStep(h)
      PROVE  CountsExact'
  <2>1. \A s \in Slots : Members(s)' = Members(s) /\ Raised(s)' = Raised(s)
    BY <1>0, <1>1 DEF NewHandle, Refresh, ListStep, Alloc, Link, Discard, Retire, MayUse, Step,
                      Members, Raised, handles
  <2>2. refs' = refs
    BY <1>1 DEF NewHandle, Refresh, ListStep, Alloc, Link, Discard, Retire, blocks
  <2> QED
    BY <2>1, <2>2, CountsKept
<1>2. ASSUME NEW h \in Handles, Leave(h)
      PROVE  CountsExact'
  <2>b. PICK b : b = block[h]
    OBVIOUS
  <2>1. /\ b \in Slots /\ h \in Members(b)
        /\ refs' = [refs EXCEPT ![b] = @ - 1]
        /\ Members(b)' = Members(b) \ {h}
        /\ \A s \in Slots \ {b} : Members(s)' = Members(s)
        /\ \A s \in Slots : Raised(s)' = Raised(s)
    <3>1. /\ hpc[h] = "idle" /\ b \in Slots /\ hpc' = hpc
          /\ refs' = [refs EXCEPT ![b] = @ - 1]
          /\ block' = [block EXCEPT ![h] = NoSlot]
          /\ target' = [target EXCEPT ![h] = NoSlot]
      BY <1>0, <1>2, <2>b DEF Leave, MayUse, Session
    <3>2. NoSlot \notin Slots
      BY NoSlotAssumption DEF Slots
    <3>3. h \in Members(b) /\ Members(b)' = Members(b) \ {h}
      BY <1>0, <2>b, <3>1, <3>2 DEF Members
    <3>4. \A s \in Slots \ {b} : Members(s)' = Members(s)
      BY <1>0, <2>b, <3>1, <3>2 DEF Members
    <3>5. \A s \in Slots : Raised(s)' = Raised(s)
      BY <1>0, <3>1 DEF Raised
    <3> QED
      BY <3>1, <3>3, <3>4, <3>5
  <2>2. Cardinality(Members(b)') = Cardinality(Members(b)) - 1
    BY <2>1, Joiners, CardRemove
  <2>3. refs'[b] = refs[b] + (-1) /\ \A s \in Slots \ {b} : refs'[s] = refs[s]
    BY <1>0, <2>1
  <2>4. Cardinality(Members(b)') + Cardinality(Raised(b)')
          = Cardinality(Members(b)) + Cardinality(Raised(b)) + (-1)
    BY <2>1, <2>2, Joiners, SMT
  <2>5. (-1) \in Int
    BY SMT
  <2> QED
    BY <2>1, <2>3, <2>4, <2>5, CountsMoved
<1>3. ASSUME UNCHANGED <<refs, hpc, block, target>>
      PROVE  CountsExact'
  BY <1>3, CountsKept DEF Members, Raised
<1>4. ASSUME NEW c \in Callers, CallerStep(c)
      PROVE  CountsExact'
  BY <1>3, <1>4, CallerFrame
<1>5. CASE UNCHANGED vars
  BY <1>3, <1>5 DEF vars
<1> QED
  BY <1>1, <1>2, <1>4, <1>5, CountsJoin DEF Next, HandleStep

------------------------------------------------------------------------------
(* The window of generations                                                *)

\* The types of the ends of the window.
LEMMA WindowTypes ==
  TypeOK => /\ Newest \in Slots /\ Low \in Nat /\ High \in Nat
            /\ NextSlot(current) \in Slots /\ NextSlot(oldest) \in Slots
<1> SUFFICES ASSUME TypeOK
             PROVE  /\ Newest \in Slots /\ Low \in Nat /\ High \in Nat
                    /\ NextSlot(current) \in Slots /\ NextSlot(oldest) \in Slots
  OBVIOUS
<1>1. current \in Slots /\ oldest \in Slots /\ gen \in [Slots -> Nat]
  BY DEF TypeOK
<1>2. NextSlot(current) \in Slots /\ NextSlot(oldest) \in Slots
  BY <1>1, NextSlotType
<1>3. Newest \in Slots
  BY <1>1, <1>2 DEF Newest
<1> QED
  BY <1>1, <1>2, <1>3 DEF Low, High

\* The slots in use are those of the generations of the window.
LEMMA InUse ==
  ASSUME TypeOK, WindowInv, NEW s \in Slots, state[s] # "EMPTY"
  PROVE  /\ gen[s] \in Low..High /\ s = Slot(gen[s])
         /\ state[s] = "SEALED" => gen[s] < High
<1>1. state[s] \in {"EMPTY", "CURRENT", "SEALED"} /\ Low \in Nat /\ High \in Nat
  BY WindowTypes DEF TypeOK, States
<1>2. CASE state[s] = "CURRENT"
  BY <1>1, <1>2, SMT DEF WindowInv, High
<1>3. CASE state[s] = "SEALED"
  <2>1. PICK g \in Low..(High - 1) : Slot(g) = s
    BY <1>3 DEF WindowInv
  <2>2. g \in Low..High /\ g < High
    BY <1>1, <2>1, SMT
  <2> QED
    BY <2>1, <2>2 DEF WindowInv
<1> QED
  BY <1>1, <1>2, <1>3

\* The slots of the window are in use.
LEMMA WindowInUse ==
  ASSUME TypeOK, WindowInv, NEW g \in Low..High
  PROVE  Slot(g) \in Slots /\ state[Slot(g)] # "EMPTY" /\ gen[Slot(g)] = g
<1>1. Low \in Nat /\ High \in Nat
  BY WindowTypes
<1>2. g \in Int /\ (g = High \/ g \in Low..(High - 1))
  BY <1>1, SMT
<1>3. Slot(g) \in Slots
  BY <1>2, SlotType
<1> QED
  BY <1>2, <1>3 DEF WindowInv

\* The oldest and the current generation are in use.
LEMMA EndsInUse ==
  ASSUME TypeOK, WindowInv, FlagInv
  PROVE  /\ state[oldest] # "EMPTY" /\ state[Newest] = "CURRENT"
         /\ state[current] # "EMPTY" /\ gen[current] <= High
         /\ ~Publishing => Newest = current /\ High = gen[current]
<1>1. Low \in Nat /\ High \in Nat /\ Newest \in Slots /\ current \in Slots /\ Low <= High
  BY WindowTypes DEF TypeOK, WindowInv
<1>2. Low \in Low..High
  BY <1>1, SMT
<1>3. state[oldest] # "EMPTY"
  BY <1>2, WindowInUse DEF WindowInv
<1>4. state[Newest] = "CURRENT"
  BY <1>1 DEF WindowInv
<1>5. ~Publishing => Newest = current /\ High = gen[current]
  BY DEF Newest, High
<1>6. Publishing => state[current] = "SEALED"
  BY DEF Publishing, FlagInv
<1>7. state[current] # "EMPTY"
  BY <1>4, <1>5, <1>6
<1>8. gen[current] \in Low..High
  BY <1>1, <1>7, InUse
<1> QED
  BY <1>1, <1>3, <1>4, <1>5, <1>7, <1>8, SMT

\* A step that leaves the ends and the bags alone keeps the window.
LEMMA WindowKept ==
  ASSUME WindowInv, UNCHANGED <<state, gen, bag, current, oldest>>, Publishing' = Publishing
  PROVE  WindowInv' /\ Newest' = Newest /\ Low' = Low /\ High' = High
<1>1. Newest' = Newest
  BY DEF Newest, NextSlot
<1>2. Low' = Low /\ High' = High
  BY <1>1 DEF Low, High
<1> QED
  BY <1>1, <1>2 DEF WindowInv, Slot

\* A4 seals the current block and begins the next generation.
LEMMA WindowExchange ==
  ASSUME TypeOK, WindowInv, FlagInv, NEW c \in Callers, AdvanceExchange(c)
  PROVE  /\ WindowInv' /\ Low' = Low /\ High' = High + 1
         /\ Newest = current /\ Newest' = NextSlot(current) /\ NextSlot(current) # current
<1>1. PICK hi \in Nat : hi = High
  BY WindowTypes
<1>2. PICK lo \in Nat : lo = Low
  BY WindowTypes
<1>3. PICK n \in Slots : n = NextSlot(current)
  BY WindowTypes
<1>4. PICK k \in Slots : k = current
  BY DEF TypeOK
<1>5. PICK o \in Slots : o = oldest
  BY DEF TypeOK
<1>6. /\ cpc[c] = "exchange" /\ cpc' = [cpc EXCEPT ![c] = "publish"]
      /\ bag' = [bag EXCEPT ![k] = retired]
      /\ state' = [state EXCEPT ![k] = "SEALED", ![n] = "CURRENT"]
      /\ gen' = [gen EXCEPT ![n] = gen[k] + 1]
      /\ current' = k /\ oldest' = o
  BY <1>3, <1>4, <1>5 DEF AdvanceExchange, CloseOver, At
<1>7. /\ gen \in [Slots -> Nat] /\ state \in [Slots -> States] /\ bag \in [Slots -> SUBSET Nodes]
      /\ cpc \in [Callers -> CallerSteps]
  BY DEF TypeOK
<1>8. ~Publishing /\ Publishing'
  <2>1. ~Publishing
    BY <1>6 DEF Publishing, FlagInv
  <2>2. cpc'[c] = "publish"
    BY <1>6, <1>7
  <2> QED
    BY <2>1, <2>2 DEF Publishing
<1>9. /\ Newest = k /\ gen[k] = hi /\ k = Slot(hi) /\ state[k] = "CURRENT"
      /\ state[n] = "EMPTY" /\ n # k /\ retired # {} /\ state[o] # "EMPTY" /\ o # n
  BY <1>1, <1>3, <1>4, <1>5, <1>6, <1>8, EndsInUse DEF FlagInv, WindowInv
<1>10. n = Slot(hi + 1)
  BY <1>3, <1>4, <1>9, SlotNext, SMT
<1>11. lo <= hi /\ hi + 1 < lo + kGenerations
  <2>1. lo <= hi /\ hi < lo + kGenerations /\ kGenerations \in Nat
    BY <1>1, <1>2, RingSize DEF WindowInv
  <2>2. hi + 1 # lo + kGenerations
    <3> SUFFICES ASSUME hi + 1 = lo + kGenerations
                 PROVE  FALSE
      OBVIOUS
    <3>1. n = Slot(lo)
      BY <1>10, SlotLap, SMT
    <3> QED
      BY <1>2, <1>5, <1>9, <3>1 DEF WindowInv
  <2> QED
    BY <2>1, <2>2, SMT
<1>12. Newest' = n /\ Low' = lo /\ High' = hi + 1
  <2>1. Newest' = n
    BY <1>3, <1>4, <1>6, <1>8 DEF Newest, NextSlot
  <2>2. gen'[n] = hi + 1 /\ \A s \in Slots \ {n} : gen'[s] = gen[s]
    BY <1>6, <1>7, <1>9
  <2>3. Low' = lo
    BY <1>2, <1>5, <1>6, <1>9, <2>2 DEF Low
  <2> QED
    BY <2>1, <2>2, <2>3 DEF High
<1>13. \A g \in lo..hi : Slot(g) \in Slots /\ Slot(g) # n /\ gen[Slot(g)] = g
  BY <1>1, <1>2, <1>9, WindowInUse
<1>14. \A g \in lo..(hi + 1) : gen'[Slot(g)] = g
  <2>1. \A g \in lo..(hi + 1) : g = hi + 1 \/ g \in lo..hi
    BY SMT
  <2> QED
    BY <1>6, <1>7, <1>9, <1>10, <1>13, <2>1
<1>15. state'[k] = "SEALED" /\ state'[n] = "CURRENT" /\ \A s \in Slots \ {k, n} : state'[s] = state[s]
  BY <1>6, <1>7, <1>9
<1>16. bag'[k] = retired /\ \A s \in Slots \ {k} : bag'[s] = bag[s]
  BY <1>6, <1>7
<1>17. \A s \in Slots : state'[s] = "CURRENT" <=> s = n
  BY <1>9, <1>15 DEF WindowInv
<1>18. \A s \in Slots : state'[s] = "SEALED" <=> \E g \in lo..((hi + 1) - 1) : Slot(g) = s
  <2> SUFFICES ASSUME NEW s \in Slots
               PROVE  state'[s] = "SEALED" <=> \E g \in lo..hi : Slot(g) = s
    BY SMT
  <2>1. CASE s = k
    <3>1. hi \in lo..hi
      BY <1>11, SMT
    <3> QED
      BY <1>9, <1>15, <2>1, <3>1
  <2>2. CASE s = n
    BY <1>13, <1>15, <2>2
  <2>3. CASE s \notin {k, n}
    <3>1. \A g \in lo..hi : g = hi \/ g \in lo..(hi - 1)
      BY SMT
    <3>2. \A g \in lo..(hi - 1) : g \in lo..hi
      BY SMT
    <3>3. state[s] = "SEALED" <=> \E g \in lo..(hi - 1) : Slot(g) = s
      BY <1>1, <1>2 DEF WindowInv
    <3> QED
      BY <1>9, <1>15, <2>3, <3>1, <3>2, <3>3
  <2> QED
    BY <2>1, <2>2, <2>3
<1>19. \A s \in Slots : state'[s] = "SEALED" <=> bag'[s] # {}
  BY <1>9, <1>15, <1>16, ZenonT(40) DEF WindowInv
<1>20. oldest' = Slot(lo)
  BY <1>2, <1>5, <1>6 DEF WindowInv
<1>21. WindowInv'
  BY <1>10, <1>11, <1>12, <1>14, <1>17, <1>18, <1>19, <1>20, SMT DEF WindowInv, Slot
<1> QED
  BY <1>1, <1>2, <1>3, <1>4, <1>9, <1>12, <1>21

\* Freeing the oldest bag takes its block out of the window.
LEMMA WindowSplice ==
  ASSUME TypeOK, WindowInv, FlagInv, NEW c \in Callers, FreeSplice(c)
  PROVE  /\ WindowInv' /\ Low' = Low + 1 /\ High' = High /\ Newest' = Newest
         /\ ~Publishing /\ ~Publishing' /\ state[oldest] = "SEALED"
<1>1. PICK hi \in Nat : hi = High
  BY WindowTypes
<1>2. PICK lo \in Nat : lo = Low
  BY WindowTypes
<1>3. PICK k \in Slots : k = current
  BY DEF TypeOK
<1>4. PICK o \in Slots : o = oldest
  BY DEF TypeOK
<1>5. /\ cpc[c] \in {"spliceIn", "spliceOut"}
      /\ \E l \in {"freeIn", "freeOut"} : cpc' = [cpc EXCEPT ![c] = l]
      /\ bag' = [bag EXCEPT ![o] = {}]
      /\ state' = [state EXCEPT ![o] = "EMPTY"]
      /\ gen' = gen /\ current' = k /\ oldest' = NextSlot(o)
  BY <1>3, <1>4 DEF FreeSplice, At
<1>6. /\ gen \in [Slots -> Nat] /\ state \in [Slots -> States] /\ bag \in [Slots -> SUBSET Nodes]
      /\ cpc \in [Callers -> CallerSteps]
  BY DEF TypeOK
<1>7. ~Publishing /\ ~Publishing'
  <2>1. \A d \in Callers \ {c} : cpc[d] = "idle"
    BY <1>5 DEF FlagInv
  <2>2. \A d \in Callers : cpc'[d] # "publish"
    BY <1>5, <1>6, <2>1
  <2> QED
    BY <1>5, <2>1, <2>2 DEF Publishing
<1>8. /\ Newest = k /\ state[k] = "CURRENT" /\ k = Slot(hi)
      /\ state[o] = "SEALED" /\ o = Slot(lo) /\ o # k
  BY <1>1, <1>2, <1>3, <1>4, <1>5, <1>7, EndsInUse DEF FlagInv, WindowInv, Freeing
<1>9. lo + 1 <= hi /\ hi < (lo + 1) + kGenerations
  <2>1. lo <= hi /\ hi < lo + kGenerations /\ kGenerations \in Nat
    BY <1>1, <1>2, RingSize DEF WindowInv
  <2>2. lo # hi
    BY <1>8
  <2> QED
    BY <2>1, <2>2, SMT
<1>10. NextSlot(o) = Slot(lo + 1)
  BY <1>8, SlotNext, SMT
<1>11. \A g \in lo..hi : Slot(g) \in Slots /\ gen[Slot(g)] = g
  BY <1>1, <1>2, WindowInUse
<1>12. Newest' = k /\ High' = hi /\ oldest' = Slot(lo + 1) /\ Low' = lo + 1
  <2>1. Newest' = k
    BY <1>5, <1>7 DEF Newest
  <2>2. High' = hi
    BY <1>1, <1>5, <1>8, <2>1 DEF High
  <2>3. lo + 1 \in lo..hi
    BY <1>9, SMT
  <2> QED
    BY <1>5, <1>10, <1>11, <2>1, <2>2, <2>3 DEF Low
<1>13. \A g \in (lo + 1)..hi : gen'[Slot(g)] = g
  BY <1>5, <1>11, SMT
<1>14. state'[o] = "EMPTY" /\ \A s \in Slots \ {o} : state'[s] = state[s]
  BY <1>5, <1>6
<1>15. bag'[o] = {} /\ \A s \in Slots \ {o} : bag'[s] = bag[s]
  BY <1>5, <1>6
<1>16. \A s \in Slots : state'[s] = "CURRENT" <=> s = k
  BY <1>8, <1>14 DEF WindowInv
<1>17. \A s \in Slots : state'[s] = "SEALED" <=> \E g \in (lo + 1)..(hi - 1) : Slot(g) = s
  <2> SUFFICES ASSUME NEW s \in Slots
               PROVE  state'[s] = "SEALED" <=> \E g \in (lo + 1)..(hi - 1) : Slot(g) = s
    OBVIOUS
  <2>1. CASE s = o
    <3>1. \A g \in (lo + 1)..(hi - 1) : gen[Slot(g)] = g /\ g # lo
      BY <1>11, SMT
    <3>2. gen[o] = lo
      BY <1>2, <1>4 DEF Low
    <3> QED
      BY <1>14, <2>1, <3>1, <3>2
  <2>2. CASE s # o
    <3>1. \A g \in lo..(hi - 1) : g = lo \/ g \in (lo + 1)..(hi - 1)
      BY SMT
    <3>2. \A g \in (lo + 1)..(hi - 1) : g \in lo..(hi - 1)
      BY SMT
    <3>3. state[s] = "SEALED" <=> \E g \in lo..(hi - 1) : Slot(g) = s
      BY <1>1, <1>2 DEF WindowInv
    <3> QED
      BY <1>8, <1>14, <2>2, <3>1, <3>2, <3>3
  <2> QED
    BY <2>1, <2>2
<1>18. \A s \in Slots : state'[s] = "SEALED" <=> bag'[s] # {}
  BY <1>14, <1>15 DEF WindowInv
<1>19. WindowInv'
  BY <1>8, <1>9, <1>12, <1>13, <1>16, <1>17, <1>18 DEF WindowInv, Slot
<1> QED
  BY <1>1, <1>2, <1>4, <1>7, <1>8, <1>12, <1>19

\* A5 publishes the generation that A4 began.
LEMMA WindowPublish ==
  ASSUME TypeOK, WindowInv, FlagInv, NEW c \in Callers, AdvancePublish(c)
  PROVE  /\ WindowInv' /\ Low' = Low /\ High' = High /\ Newest' = Newest
         /\ Publishing /\ ~Publishing' /\ current' = Newest
<1>1. /\ cpc[c] = "publish" /\ cpc' = [cpc EXCEPT ![c] = "freeOut"]
      /\ current' = NextSlot(current) /\ UNCHANGED <<state, gen, bag, oldest>>
  BY DEF AdvancePublish, At, blocks
<1>2. Publishing
  BY <1>1 DEF Publishing
<1>3. ~Publishing'
  <2>1. \A d \in Callers \ {c} : cpc[d] = "idle"
    BY <1>1 DEF FlagInv
  <2>2. \A d \in Callers : cpc'[d] # "publish"
    BY <1>1, <2>1 DEF TypeOK
  <2> QED
    BY <2>2 DEF Publishing
<1>4. Newest = NextSlot(current) /\ Newest' = current'
  BY <1>2, <1>3 DEF Newest
<1>5. Newest' = Newest
  BY <1>1, <1>4
<1>6. Low' = Low /\ High' = High
  BY <1>1, <1>5 DEF Low, High
<1>7. WindowInv'
  BY <1>1, <1>5, <1>6 DEF WindowInv, Slot
<1> QED
  BY <1>1, <1>2, <1>3, <1>4, <1>5, <1>6, <1>7

\* The other steps of reclaim() move no block.
LEMMA CallerQuiet ==
  ASSUME TypeOK, NEW c \in Callers, CallerStep(c),
         ~AdvanceExchange(c), ~AdvancePublish(c), ~FreeSplice(c)
  PROVE  /\ UNCHANGED <<state, gen, bag, current, oldest, retired, free, sees>>
         /\ Publishing' = Publishing
         /\ cpc[c] \notin {"publish", "spliceIn", "spliceOut"}
         /\ \E l \in CallerSteps \ {"publish"} : cpc' = [cpc EXCEPT ![c] = l]
<1> USE DEF blocks, nodes, handles, callers, At, CallerSteps
<1>1. /\ UNCHANGED <<state, gen, bag, current, oldest, retired, free, sees>>
      /\ cpc[c] \notin {"publish", "spliceIn", "spliceOut"}
      /\ \E l \in CallerSteps \ {"publish"} : cpc' = [cpc EXCEPT ![c] = l]
  <2>1. CASE ReclaimEnter(c) \/ ReclaimContended(c) \/ NothingRetired(c) \/ ReclaimExit(c)
    BY <2>1 DEF ReclaimEnter, ReclaimContended, NothingRetired, ReclaimExit
  <2>2. CASE AdvanceTest(c)
    BY <2>2 DEF AdvanceTest
  <2>3. CASE FreeTake(c) \/ FreeDestroy(c) \/ FreeInDone(c) \/ FreeOutDone(c)
    BY <2>3 DEF FreeTake, FreeDestroy, FreeInDone, FreeOutDone
  <2> QED
    BY <2>1, <2>2, <2>3 DEF CallerStep, ReclaimStep
<1>2. \A d \in Callers : cpc'[d] = "publish" <=> cpc[d] = "publish"
  BY <1>1 DEF TypeOK
<1> QED
  BY <1>1, <1>2 DEF Publishing

\* Every step keeps the window.
LEMMA WindowStep ==
  ASSUME TypeOK, WindowInv, FlagInv, [Next]_vars
  PROVE  WindowInv'
<1>1. ASSUME NEW h \in Handles, HandleStep(h)
      PROVE  WindowInv'
  BY <1>1, HandleFrame, WindowKept DEF Publishing
<1>2. ASSUME NEW c \in Callers, CallerStep(c)
      PROVE  WindowInv'
  BY <1>2, WindowExchange, WindowSplice, WindowPublish, CallerQuiet, WindowKept
<1>3. CASE UNCHANGED vars
  BY <1>3, WindowKept DEF vars, Publishing
<1> QED
  BY <1>1, <1>2, <1>3 DEF Next

------------------------------------------------------------------------------
(* The holder of the flag                                                   *)

\* Every step keeps the advance flag with its holder.
LEMMA FlagStep ==
  ASSUME TypeOK, WindowInv, FlagInv, [Next]_vars
  PROVE  FlagInv'
<1>1. ASSUME NEW h \in Handles, HandleStep(h)
      PROVE  FlagInv'
  BY <1>1, HandleFrame DEF FlagInv, NextSlot
<1>2. CASE UNCHANGED vars
  BY <1>2 DEF vars, FlagInv, NextSlot
<1>3. ASSUME NEW c \in Callers, CallerStep(c)
      PROVE  FlagInv'
  <2>0. /\ cpc \in [Callers -> CallerSteps] /\ state \in [Slots -> States]
        /\ gen \in [Slots -> Nat] /\ current \in Slots /\ oldest \in Slots /\ reclaiming \in BOOLEAN
    BY DEF TypeOK
  <2> USE DEF blocks, nodes, handles, At, Freeing
  <2>1. CASE ReclaimEnter(c)
    <3>1. \A d \in Callers : cpc[d] = "idle"
      BY <2>1 DEF ReclaimEnter, FlagInv
    <3> QED
      BY <2>0, <2>1, <3>1 DEF ReclaimEnter, FlagInv, NextSlot
  <2>2. CASE ReclaimContended(c)
    BY <2>0, <2>2 DEF ReclaimContended, FlagInv, NextSlot
  <2>3. ASSUME cpc[c] # "idle"
        PROVE  FlagInv'
    <3>1. reclaiming /\ \A d \in Callers \ {c} : cpc[d] = "idle"
      BY <2>3 DEF FlagInv
    <3>2. CASE NothingRetired(c)
      BY <2>0, <2>3, <3>1, <3>2 DEF NothingRetired, FlagInv, NextSlot
    <3>3. CASE AdvanceTest(c)
      BY <2>0, <2>3, <3>1, <3>3 DEF AdvanceTest, FlagInv, NextSlot
    <3>4. CASE AdvanceExchange(c)
      <4>1. PICK k \in Slots : k = current
        BY <2>0
      <4>2. PICK n \in Slots : n = NextSlot(current)
        BY WindowTypes
      <4>3. /\ cpc[c] = "exchange" /\ cpc' = [cpc EXCEPT ![c] = "publish"]
            /\ state' = [state EXCEPT ![k] = "SEALED", ![n] = "CURRENT"]
            /\ gen' = [gen EXCEPT ![n] = gen[k] + 1]
            /\ current' = k /\ oldest' = oldest /\ reclaiming' = reclaiming
        BY <3>4, <4>1, <4>2 DEF AdvanceExchange, CloseOver
      <4>4. n # k
        BY <3>4, <4>1, <4>2, WindowExchange
      <4>5. state'[k] = "SEALED" /\ gen'[n] = gen'[k] + 1 /\ NextSlot(current') = n
        BY <2>0, <4>1, <4>2, <4>3, <4>4 DEF NextSlot
      <4>6. cpc'[c] = "publish" /\ \A d \in Callers \ {c} : cpc'[d] = "idle"
        BY <2>0, <3>1, <4>3
      <4> QED
        BY <3>1, <4>3, <4>5, <4>6, ZenonT(40) DEF FlagInv, NextSlot
    <3>5. CASE AdvancePublish(c)
      <4>1. /\ cpc'[c] = "freeOut" /\ \A d \in Callers \ {c} : cpc'[d] = "idle"
            /\ reclaiming'
        BY <2>0, <3>1, <3>5 DEF AdvancePublish
      <4> QED
        BY <4>1 DEF FlagInv
    <3>6. CASE FreeTake(c)
      BY <2>0, <2>3, <3>1, <3>6, SMT DEF FreeTake, Freeable, FlagInv, NextSlot
    <3>7. CASE FreeDestroy(c)
      BY <2>0, <2>3, <3>1, <3>7, SMT DEF FreeDestroy, FlagInv, NextSlot
    <3>8. CASE FreeSplice(c)
      <4>1. /\ \A d \in Callers \ {c} : cpc'[d] = "idle"
            /\ reclaiming' /\ retired' = retired
            /\ \/ cpc[c] = "spliceIn" /\ cpc'[c] = "freeIn"
               \/ cpc'[c] = "freeOut"
        BY <2>0, <3>1, <3>8 DEF FreeSplice
      <4> QED
        BY <4>1 DEF FlagInv
    <3>9. CASE FreeInDone(c)
      BY <2>0, <2>3, <3>1, <3>9, ZenonT(40) DEF FreeInDone, FlagInv, NextSlot
    <3>10. CASE FreeOutDone(c)
      BY <2>0, <2>3, <3>1, <3>10 DEF FreeOutDone, FlagInv, NextSlot
    <3>11. CASE ReclaimExit(c)
      BY <2>0, <2>3, <3>1, <3>11 DEF ReclaimExit, FlagInv, NextSlot
    <3>12. CASE ReclaimEnter(c) \/ ReclaimContended(c)
      BY <2>1, <2>2, <3>12
    <3> QED
      BY <1>3, <3>2, <3>3, <3>4, <3>5, <3>6, <3>7, <3>8, <3>9, <3>10, <3>11, <3>12, ZenonT(40)
         DEF CallerStep, ReclaimStep
  <2>4. CASE ReclaimStep(c)
    <3>1. cpc[c] # "idle"
      BY <2>4 DEF ReclaimStep, NothingRetired, AdvanceTest, AdvanceExchange, AdvancePublish,
                  FreeTake, FreeDestroy, FreeSplice, FreeInDone, FreeOutDone, ReclaimExit
    <3> QED
      BY <2>3, <3>1
  <2> QED
    BY <1>3, <2>1, <2>2, <2>4 DEF CallerStep
<1> QED
  BY <1>1, <1>2, <1>3 DEF Next

\* No session sits on the block whose bag is being freed: its count was zero
\* when it was taken, and only the current block can be joined since.
LEMMA QuietStep ==
  ASSUME TypeOK, CountsExact, WindowInv, FlagInv, QuietInv, [Next]_vars
  PROVE  QuietInv'
<1>0. /\ cpc \in [Callers -> CallerSteps] /\ block \in [Handles -> Slots \cup {NoSlot}]
      /\ target \in [Handles -> Slots \cup {NoSlot}] /\ hpc \in [Handles -> HandleSteps]
      /\ current \in Slots /\ oldest \in Slots /\ NoSlot \notin Slots
  BY NoSlotAssumption DEF TypeOK, Slots
<1>1. ASSUME NEW h \in Handles, HandleStep(h)
      PROVE  QuietInv'
  <2> SUFFICES ASSUME NEW c \in Callers, NEW i \in Handles, cpc'[c] \in Freeing
               PROVE  /\ block'[i] # oldest'
                      /\ ~ (hpc'[i] = "leave" /\ target'[i] = oldest')
    BY DEF QuietInv
  <2>1. cpc' = cpc /\ oldest' = oldest
    BY <1>1, HandleFrame
  <2>2. /\ \A j \in Handles : block[j] # oldest
        /\ \A j \in Handles : ~ (hpc[j] = "leave" /\ target[j] = oldest)
    BY <2>1 DEF QuietInv
  <2>3. current # oldest
    <3>1. ~Publishing
      BY <2>1 DEF Publishing, FlagInv, Freeing
    <3>2. state[oldest] = "SEALED" /\ state[current] = "CURRENT"
      BY <2>1, <3>1, EndsInUse DEF FlagInv
    <3> QED
      BY <3>2
  <2>4. CASE NewHandle(h) \/ Refresh(h) \/ Leave(h) \/ ListStep(h)
    BY <1>0, <2>1, <2>2, <2>4
       DEF NewHandle, Refresh, Leave, ListStep, Alloc, Link, Discard, Retire, Step, handles
  <2>5. CASE JoinVerify(h)
    BY <1>0, <2>1, <2>2, <2>3, <2>5 DEF JoinVerify, Joined, Step
  <2>6. CASE RefreshLeave(h)
    BY <1>0, <2>1, <2>2, <2>6 DEF RefreshLeave, Step
  <2>7. CASE JoinLoad(h) \/ JoinBump(h) \/ JoinStale(h) \/ JoinUndo(h)
    BY <1>0, <2>1, <2>2, <2>7 DEF JoinLoad, JoinBump, JoinStale, JoinUndo, Step
  <2> QED
    BY <1>1, <2>4, <2>5, <2>6, <2>7 DEF HandleStep, JoinStep
<1>2. ASSUME NEW c \in Callers, CallerStep(c)
      PROVE  QuietInv'
  <2>0. UNCHANGED <<refs, hpc, block, target>>
    BY <1>2, CallerFrame
  <2> USE DEF At, Freeing
  <2>1. CASE FreeTake(c)
    <3>1. Members(oldest) = {} /\ Raised(oldest) = {}
      BY <1>0, <2>1, CountZero DEF FreeTake, Freeable
    <3>2. \A h \in Handles : /\ block[h] # oldest
                             /\ ~ (hpc[h] = "leave" /\ target[h] = oldest)
      BY <3>1 DEF Members, Raised
    <3> QED
      BY <2>0, <2>1, <3>2 DEF FreeTake, QuietInv
  <2>2. CASE FreeDestroy(c)
    BY <1>0, <2>0, <2>2 DEF FreeDestroy, QuietInv
  <2>3. CASE ~FreeTake(c) /\ ~FreeDestroy(c)
    <3>1. cpc'[c] \notin Freeing /\ \A d \in Callers \ {c} : cpc'[d] = cpc[d]
      BY <1>0, <1>2, <2>3
         DEF CallerStep, ReclaimStep, ReclaimEnter, ReclaimContended, NothingRetired, AdvanceTest,
             AdvanceExchange, AdvancePublish, FreeSplice, FreeInDone, FreeOutDone, ReclaimExit
    <3>2. cpc[c] # "idle" => \A d \in Callers \ {c} : cpc[d] = "idle"
      BY DEF FlagInv
    <3>3. cpc[c] = "idle" => oldest' = oldest
      BY <1>2 DEF CallerStep, ReclaimStep, ReclaimEnter, ReclaimContended, NothingRetired,
                  AdvanceTest, AdvanceExchange, AdvancePublish, FreeTake, FreeDestroy, FreeSplice,
                  FreeInDone, FreeOutDone, ReclaimExit
    <3> QED
      BY <2>0, <3>1, <3>2, <3>3 DEF QuietInv
  <2> QED
    BY <2>1, <2>2, <2>3
<1>3. CASE UNCHANGED vars
  BY <1>3 DEF vars, QuietInv
<1> QED
  BY <1>1, <1>2, <1>3 DEF Next

------------------------------------------------------------------------------
(* The handles                                                              *)

\* A step that leaves the handles and the slots alone keeps what they stand for.
LEMMA HandleKept ==
  ASSUME NEW h \in Handles, HandleOK(h), UNCHANGED <<state, gen, current>>,
         hpc'[h] = hpc[h], block'[h] = block[h], target'[h] = target[h], seen'[h] = seen[h]
  PROVE  HandleOK(h)'
BY DEF HandleOK, Session

\* The steps of the handles keep what the handles stand for.
LEMMA HandleHandles ==
  ASSUME TypeOK, WindowInv, FlagInv, HandleInv, NEW h \in Handles, HandleStep(h)
  PROVE  HandleInv'
<1>0. /\ hpc \in [Handles -> HandleSteps] /\ block \in [Handles -> Slots \cup {NoSlot}]
      /\ target \in [Handles -> Slots \cup {NoSlot}] /\ seen \in [Handles -> Nat]
      /\ current \in Slots /\ gen \in [Slots -> Nat] /\ NoSlot \notin Slots
  BY NoSlotAssumption DEF TypeOK, Slots
<1>1. UNCHANGED <<state, gen, current>>
  BY HandleFrame
<1>2. \A i \in Handles : HandleOK(i)
  BY DEF HandleInv
<1>3. state[current] # "EMPTY"
  BY EndsInUse
<1>4. \A i \in Handles \ {h} : /\ hpc'[i] = hpc[i] /\ block'[i] = block[i]
                               /\ target'[i] = target[i] /\ seen'[i] = seen[i]
  <2> USE DEF Step, handles
  <2>1. CASE NewHandle(h) \/ Refresh(h) \/ Leave(h)
    BY <1>0, <2>1 DEF NewHandle, Refresh, Leave
  <2>2. CASE JoinLoad(h) \/ JoinBump(h) \/ JoinStale(h) \/ JoinUndo(h) \/ RefreshLeave(h)
    BY <1>0, <2>2 DEF JoinLoad, JoinBump, JoinStale, JoinUndo, RefreshLeave
  <2>3. CASE JoinVerify(h)
    BY <1>0, <2>3 DEF JoinVerify, Joined
  <2>4. CASE ListStep(h)
    BY <1>0, <2>4 DEF ListStep, Alloc, Link, Discard, Retire
  <2> QED
    BY <2>1, <2>2, <2>3, <2>4 DEF HandleStep, JoinStep
<1>5. \A i \in Handles \ {h} : HandleOK(i)'
  BY <1>1, <1>2, <1>4, HandleKept
<1>6. HandleOK(h)'
  <2> USE DEF Step, Session
  <2>0. \A g \in LoadCurrent(h) : /\ g \in Nat /\ g >= seen[h] /\ g <= gen[current]
                                  /\ Slot(g) \in Slots
    <3>1. \A g \in LoadCurrent(h) : g \in Nat /\ g >= seen[h] /\ g <= gen[current]
      BY <1>0, SMT DEF LoadCurrent
    <3>2. \A g \in LoadCurrent(h) : g \in Int
      BY <3>1, SMT
    <3> QED
      BY <3>1, <3>2, SlotType
  <2>1. CASE NewHandle(h)
    BY <1>0, <1>1, <1>2, <2>1 DEF NewHandle, HandleOK
  <2>2. CASE JoinLoad(h)
    <3>1. PICK g \in LoadCurrent(h) : /\ target' = [target EXCEPT ![h] = Slot(g)]
                                      /\ seen' = [seen EXCEPT ![h] = g]
      BY <2>2 DEF JoinLoad
    <3>2. /\ target'[h] \in Slots /\ seen'[h] \in Nat /\ seen'[h] >= seen[h] /\ seen[h] \in Nat
          /\ hpc[h] = "join" /\ hpc'[h] = "bump" /\ block' = block
      BY <1>0, <2>0, <2>2, <3>1 DEF JoinLoad
    <3>3. Session(h) => gen[block[h]] \in Nat /\ seen'[h] >= gen[block[h]]
      BY <1>0, <1>2, <3>2, SMT DEF HandleOK
    <3> QED
      BY <1>1, <1>2, <3>2, <3>3 DEF HandleOK
  <2>3. CASE JoinBump(h) \/ JoinUndo(h)
    BY <1>0, <1>1, <1>2, <2>3 DEF JoinBump, JoinUndo, HandleOK
  <2>4. CASE JoinStale(h)
    <3>1. /\ hpc[h] = "verify" /\ hpc'[h] = "undo" /\ seen'[h] = gen[current]
          /\ block' = block /\ target' = target
      BY <1>0, <2>4 DEF JoinStale
    <3>2. Session(h) => seen'[h] >= gen[block[h]]
      BY <1>0, <1>2, <3>1, SMT DEF HandleOK
    <3> QED
      BY <1>1, <1>2, <3>1, <3>2 DEF HandleOK
  <2>5. CASE JoinVerify(h)
    <3>1. hpc[h] = "verify" /\ target[h] = current /\ target' = target /\ seen'[h] = gen[current]
      BY <1>0, <2>5 DEF JoinVerify, Joined
    <3>2. gen[current] >= gen[current]
      BY <1>0, SMT
    <3>3. CASE block[h] = NoSlot
      <4>1. hpc'[h] = "idle" /\ block'[h] = current
        BY <1>0, <2>5, <3>1, <3>3 DEF JoinVerify, Joined
      <4> QED
        BY <1>1, <1>3, <3>1, <3>2, <4>1 DEF HandleOK
    <3>4. CASE block[h] # NoSlot
      <4>1. hpc'[h] = "leave" /\ block' = block
        BY <1>0, <2>5, <3>4 DEF JoinVerify, Joined
      <4>2. gen[block[h]] < gen[current] /\ gen[block[h]] \in Nat
        BY <1>0, <1>2, <3>1, <3>4 DEF HandleOK
      <4>3. gen[current] >= gen[block[h]]
        BY <1>0, <4>2, SMT
      <4> QED
        BY <1>0, <1>1, <1>2, <1>3, <3>1, <3>2, <3>4, <4>1, <4>2, <4>3 DEF HandleOK
    <3> QED
      BY <3>3, <3>4
  <2>6. CASE RefreshLeave(h)
    BY <1>0, <1>1, <1>2, <2>6 DEF RefreshLeave, HandleOK
  <2>7. CASE Refresh(h)
    <3>1. PICK g \in LoadCurrent(h) :
            /\ seen' = [seen EXCEPT ![h] = g]
            /\ hpc' = [hpc EXCEPT ![h] = IF Slot(g) = block[h] THEN "idle" ELSE "join"]
      BY <2>7 DEF Refresh
    <3>2. /\ block' = block /\ target' = target /\ block[h] \in Slots /\ hpc[h] = "idle"
          /\ seen'[h] = g
          /\ hpc'[h] = IF Slot(g) = block[h] THEN "idle" ELSE "join"
      BY <1>0, <2>7, <3>1 DEF Refresh, MayUse
    <3>3. /\ gen[block[h]] \in Nat /\ g >= gen[block[h]] /\ state[block[h]] # "EMPTY"
          /\ g \in Nat /\ g <= gen[current] /\ gen[current] \in Nat
      BY <1>0, <1>2, <2>0, <3>2, SMT DEF HandleOK
    <3>4. block[h] = Slot(gen[block[h]])
      BY <3>2, <3>3, InUse
    <3>5. Slot(g) # block[h] => gen[block[h]] < gen[current]
      <4>1. Slot(g) # block[h] => g # gen[block[h]]
        BY <3>4
      <4> QED
        BY <3>3, <4>1, SMT
    <3> QED
      BY <1>1, <3>2, <3>3, <3>5 DEF HandleOK
  <2>8. CASE Leave(h)
    BY <1>0, <1>1, <2>8 DEF Leave, MayUse, HandleOK
  <2>9. CASE ListStep(h)
    BY <1>1, <1>2, <2>9, HandleKept DEF ListStep, Alloc, Link, Discard, Retire, handles
  <2> QED
    BY <2>1, <2>2, <2>3, <2>4, <2>5, <2>6, <2>7, <2>8, <2>9 DEF HandleStep, JoinStep
<1> QED
  BY <1>5, <1>6 DEF HandleInv

\* The steps of the callers keep what the handles stand for.
LEMMA HandleCallers ==
  ASSUME TypeOK, WindowInv, FlagInv, HandleInv, QuietInv, NEW c \in Callers, CallerStep(c)
  PROVE  HandleInv'
<1>0. /\ block \in [Handles -> Slots \cup {NoSlot}] /\ target \in [Handles -> Slots \cup {NoSlot}]
      /\ current \in Slots /\ oldest \in Slots
      /\ gen \in [Slots -> Nat] /\ state \in [Slots -> States] /\ NoSlot \notin Slots
  BY NoSlotAssumption DEF TypeOK, Slots
<1>1. UNCHANGED <<hpc, block, target, seen>>
  BY CallerFrame
<1> SUFFICES ASSUME NEW h \in Handles
             PROVE  HandleOK(h)'
  BY DEF HandleInv
<1>2. HandleOK(h)
  BY DEF HandleInv
<1>3. /\ Session(h) => block[h] \in Slots /\ state[block[h]] # "EMPTY"
      /\ hpc[h] = "leave" => target[h] \in Slots /\ state[target[h]] # "EMPTY"
  BY <1>0, <1>2 DEF HandleOK, Session
<1>4. CASE AdvanceExchange(c)
  <2>1. PICK k \in Slots : k = current
    BY <1>0
  <2>2. PICK n \in Slots : n = NextSlot(current)
    BY WindowTypes
  <2>3. /\ state[n] = "EMPTY" /\ current' = k
        /\ state' = [state EXCEPT ![k] = "SEALED", ![n] = "CURRENT"]
        /\ gen' = [gen EXCEPT ![n] = gen[k] + 1]
    BY <1>4, <2>1, <2>2 DEF AdvanceExchange, CloseOver, At, FlagInv
  <2>4. state[k] # "EMPTY"
    BY <2>1, EndsInUse
  <2>5. \A s \in Slots : state[s] # "EMPTY" => state'[s] # "EMPTY" /\ gen'[s] = gen[s]
    BY <1>0, <2>3, <2>4
  <2> QED
    BY <1>1, <1>2, <1>3, <2>1, <2>3, <2>4, <2>5 DEF HandleOK, Session
<1>5. CASE AdvancePublish(c)
  <2>1. /\ cpc[c] = "publish" /\ UNCHANGED <<state, gen>> /\ current' = NextSlot(current)
        /\ gen[NextSlot(current)] = gen[current] + 1 /\ gen[current] \in Nat
    BY <1>0, <1>5 DEF AdvancePublish, At, FlagInv, blocks
  <2>2. Session(h) => gen[block[h]] \in Nat
    BY <1>0, <1>3
  <2>3. Session(h) /\ hpc[h] # "idle" => gen[block[h]] < gen[current] + 1
    BY <1>2, <2>1, <2>2, SMT DEF HandleOK
  <2> QED
    BY <1>1, <1>2, <2>1, <2>3 DEF HandleOK, Session
<1>6. CASE FreeSplice(c)
  <2>1. /\ state' = [state EXCEPT ![oldest] = "EMPTY"] /\ UNCHANGED <<gen, current>>
        /\ cpc[c] \in Freeing
    BY <1>6 DEF FreeSplice, At, Freeing
  <2>2. block[h] # oldest /\ ~ (hpc[h] = "leave" /\ target[h] = oldest)
    BY <2>1 DEF QuietInv
  <2>3. \A s \in Slots \ {oldest} : state'[s] = state[s]
    BY <1>0, <2>1
  <2> QED
    BY <1>1, <1>2, <1>3, <2>1, <2>2, <2>3 DEF HandleOK, Session
<1>7. CASE ~AdvanceExchange(c) /\ ~AdvancePublish(c) /\ ~FreeSplice(c)
  BY <1>1, <1>2, <1>7, CallerQuiet, HandleKept
<1> QED
  BY <1>4, <1>5, <1>6, <1>7

\* Every step keeps what the handles stand for.
LEMMA HandleStepKeeps ==
  ASSUME TypeOK, WindowInv, FlagInv, HandleInv, QuietInv, [Next]_vars
  PROVE  HandleInv'
<1>1. CASE UNCHANGED vars
  BY <1>1, HandleKept DEF vars, HandleInv
<1> QED
  BY <1>1, HandleHandles, HandleCallers DEF Next

------------------------------------------------------------------------------
(* The types                                                                *)

\* The steps of the handles keep the types.
LEMMA HandleTypes ==
  ASSUME TypeOK, CountsExact, HandleInv, NEW h \in Handles, HandleStep(h)
  PROVE  TypeOK'
<1>0. /\ hpc \in [Handles -> HandleSteps] /\ block \in [Handles -> Slots \cup {NoSlot}]
      /\ target \in [Handles -> Slots \cup {NoSlot}] /\ seen \in [Handles -> Nat]
      /\ sees \in [Handles -> SUBSET Nodes] /\ refs \in [Slots -> Nat]
      /\ gen \in [Slots -> Nat] /\ bag \in [Slots -> SUBSET Nodes] /\ current \in Slots
      /\ retired \in SUBSET Nodes /\ free \in SUBSET Nodes /\ used \in SUBSET Nodes
      /\ fresh \in SUBSET Nodes /\ constructed \in SUBSET Nodes /\ retires \in 0..MaxRetires
  BY DEF TypeOK
<1>1. UNCHANGED <<state, gen, bag, current, oldest, reclaiming, cpc, result>>
  BY HandleFrame
<1> USE DEF Step, handles, nodes, blocks
<1>2. ASSUME UNCHANGED refs, hpc' \in [Handles -> HandleSteps],
             block' \in [Handles -> Slots \cup {NoSlot}],
             target' \in [Handles -> Slots \cup {NoSlot}], seen' \in [Handles -> Nat],
             sees' \in [Handles -> SUBSET Nodes], UNCHANGED <<nodes, retires>>
      PROVE  TypeOK'
  BY <1>1, <1>2 DEF TypeOK
<1>3. ASSUME NEW s \in Slots, NEW r \in Nat, refs' = [refs EXCEPT ![s] = r],
             hpc' \in [Handles -> HandleSteps], block' \in [Handles -> Slots \cup {NoSlot}],
             target' \in [Handles -> Slots \cup {NoSlot}], seen' \in [Handles -> Nat],
             sees' \in [Handles -> SUBSET Nodes], UNCHANGED <<nodes, retires>>
      PROVE  TypeOK'
  BY <1>0, <1>1, <1>3 DEF TypeOK
<1>4. \A g \in LoadCurrent(h) : g \in Nat /\ Slot(g) \in Slots
  <2>1. \A g \in LoadCurrent(h) : g \in Nat /\ g \in Int
    BY <1>0, SMT DEF LoadCurrent
  <2> QED
    BY <2>1, SlotType
<1>5. CASE NewHandle(h)
  BY <1>0, <1>2, <1>5 DEF NewHandle, HandleSteps
<1>6. CASE JoinLoad(h)
  BY <1>0, <1>2, <1>4, <1>6, SMT DEF JoinLoad, HandleSteps
<1>7. CASE JoinBump(h)
  <2>1. target[h] \in Slots /\ refs[target[h]] + 1 \in Nat
    BY <1>0, <1>7, SMT DEF JoinBump, HandleInv, HandleOK
  <2> QED
    BY <1>0, <1>3, <1>7, <2>1 DEF JoinBump, HandleSteps
<1>8. CASE JoinVerify(h)
  <2>1. Observable \in SUBSET Nodes /\ gen[current] \in Nat
    BY <1>0 DEF Observable
  <2>2. /\ hpc' \in [Handles -> HandleSteps] /\ block' \in [Handles -> Slots \cup {NoSlot}]
        /\ seen' \in [Handles -> Nat]
    BY <1>0, <1>8, <2>1 DEF JoinVerify, Joined, HandleSteps
  <2>3. sees' \in [Handles -> SUBSET Nodes]
    BY <1>0, <1>8, <2>1 DEF JoinVerify, Joined
  <2> QED
    BY <1>0, <1>2, <1>8, <2>2, <2>3 DEF JoinVerify
<1>9. CASE JoinStale(h)
  BY <1>0, <1>2, <1>9 DEF JoinStale, HandleSteps
<1>10. CASE JoinUndo(h)
  <2>1. target[h] \in Slots /\ h \in Raised(target[h])
    BY <1>0, <1>10 DEF JoinUndo, HandleInv, HandleOK, Raised
  <2>2. refs[target[h]] - 1 \in Nat
    BY <2>1, CountPositive
  <2> QED
    BY <1>0, <1>3, <1>10, <2>1, <2>2 DEF JoinUndo, HandleSteps
<1>11. CASE RefreshLeave(h)
  <2>1. block[h] \in Slots /\ h \in Members(block[h])
    BY <1>0, <1>11 DEF RefreshLeave, HandleInv, HandleOK, Session, Members
  <2>2. refs[block[h]] - 1 \in Nat
    BY <2>1, CountPositive
  <2> QED
    BY <1>0, <1>3, <1>11, <2>1, <2>2 DEF RefreshLeave, HandleSteps
<1>12. CASE Refresh(h)
  BY <1>0, <1>2, <1>4, <1>12, SMT DEF Refresh, HandleSteps
<1>13. CASE Leave(h)
  <2>1. block[h] \in Slots /\ h \in Members(block[h])
    BY <1>0, <1>13 DEF Leave, MayUse, Session, Members
  <2>2. refs[block[h]] - 1 \in Nat
    BY <2>1, CountPositive
  <2> QED
    BY <1>0, <1>3, <1>13, <2>1, <2>2 DEF Leave
<1>14. CASE ListStep(h)
  <2>1. PICK n \in Nodes : Alloc(h, n) \/ Link(h, n) \/ Discard(h, n) \/ Retire(h, n)
    BY <1>14 DEF ListStep
  <2>2. CASE Alloc(h, n) \/ Discard(h, n)
    BY <1>0, <1>1, <2>2 DEF Alloc, Discard, TypeOK
  <2>3. CASE Link(h, n)
    <3>1. sees' \in [Handles -> SUBSET Nodes]
      BY <1>0, <2>3 DEF Link, Reveal
    <3> QED
      BY <1>0, <1>1, <2>3, <3>1 DEF Link, TypeOK
  <2>4. CASE Retire(h, n)
    <3>1. retires' \in 0..MaxRetires
      BY <1>0, <2>4, RetiresAssumption, SMT DEF Retire
    <3> QED
      BY <1>0, <1>1, <2>4, <3>1 DEF Retire, TypeOK
  <2> QED
    BY <2>1, <2>2, <2>3, <2>4
<1> QED
  BY <1>5, <1>6, <1>7, <1>8, <1>9, <1>10, <1>11, <1>12, <1>13, <1>14 DEF HandleStep, JoinStep

\* The steps of the callers keep the types.
LEMMA CallerTypes ==
  ASSUME TypeOK, NEW c \in Callers, CallerStep(c)
  PROVE  TypeOK'
<1>0. /\ state \in [Slots -> States] /\ gen \in [Slots -> Nat] /\ bag \in [Slots -> SUBSET Nodes]
      /\ current \in Slots /\ oldest \in Slots /\ retired \in SUBSET Nodes /\ free \in SUBSET Nodes
      /\ constructed \in SUBSET Nodes /\ sees \in [Handles -> SUBSET Nodes]
      /\ cpc \in [Callers -> CallerSteps] /\ result \in [Callers -> Advances]
      /\ NextSlot(current) \in Slots /\ NextSlot(oldest) \in Slots
  BY WindowTypes DEF TypeOK
<1>1. UNCHANGED <<refs, hpc, block, target, seen, used, fresh, retires>>
  BY CallerFrame
<1> USE DEF At, handles, nodes, blocks
<1>2. /\ cpc' \in [Callers -> CallerSteps] /\ result' \in [Callers -> Advances]
      /\ reclaiming' \in BOOLEAN
  <2>1. CASE ReclaimEnter(c) \/ ReclaimContended(c) \/ NothingRetired(c) \/ ReclaimExit(c)
    BY <1>0, <2>1 DEF ReclaimEnter, ReclaimContended, NothingRetired, ReclaimExit, Answer,
                      CallerSteps, Advances, TypeOK
  <2>2. CASE AdvanceTest(c) \/ AdvanceExchange(c) \/ AdvancePublish(c)
    BY <1>0, <2>2 DEF AdvanceTest, AdvanceExchange, AdvancePublish, Answer,
                      CallerSteps, Advances, TypeOK
  <2>3. CASE FreeTake(c) \/ FreeDestroy(c) \/ FreeSplice(c) \/ FreeInDone(c) \/ FreeOutDone(c)
    BY <1>0, <2>3 DEF FreeTake, FreeDestroy, FreeSplice, FreeInDone, FreeOutDone, Answer,
                      CallerSteps, Advances, TypeOK
  <2> QED
    BY <2>1, <2>2, <2>3 DEF CallerStep, ReclaimStep
<1>3. CASE AdvanceExchange(c)
  <2>1. bag' \in [Slots -> SUBSET Nodes] /\ state' \in [Slots -> States]
    BY <1>0, <1>3 DEF AdvanceExchange, CloseOver, States
  <2>2. gen[current] + 1 \in Nat
    BY <1>0, SMT
  <2>3. gen' \in [Slots -> Nat]
    BY <1>0, <1>3, <2>2 DEF AdvanceExchange, CloseOver
  <2> QED
    BY <1>1, <1>2, <1>3, <2>1, <2>3 DEF AdvanceExchange, TypeOK
<1>4. CASE AdvancePublish(c)
  BY <1>0, <1>1, <1>2, <1>4 DEF AdvancePublish, TypeOK
<1>5. CASE FreeSplice(c)
  <2>1. sees' \in [Handles -> SUBSET Nodes]
    BY <1>0, <1>5 DEF FreeSplice, Reveal
  <2>2. bag' \in [Slots -> SUBSET Nodes] /\ state' \in [Slots -> States] /\ free' \in SUBSET Nodes
    BY <1>0, <1>5 DEF FreeSplice, States
  <2> QED
    BY <1>0, <1>1, <1>2, <1>5, <2>1, <2>2 DEF FreeSplice, TypeOK
<1>6. CASE ~AdvanceExchange(c) /\ ~AdvancePublish(c) /\ ~FreeSplice(c)
  <2>1. UNCHANGED <<state, gen, bag, current, oldest, retired, free, sees>>
    BY <1>6, CallerQuiet
  <2>2. constructed' \subseteq constructed
    BY <1>6 DEF CallerStep, ReclaimStep, ReclaimEnter, ReclaimContended, NothingRetired,
                AdvanceTest, FreeTake, FreeDestroy, FreeInDone, FreeOutDone, ReclaimExit
  <2> QED
    BY <1>1, <1>2, <2>1, <2>2 DEF TypeOK
<1> QED
  BY <1>3, <1>4, <1>5, <1>6

\* Every step keeps the types.
LEMMA TypeStep ==
  ASSUME TypeOK, CountsExact, HandleInv, [Next]_vars
  PROVE  TypeOK'
<1>1. CASE UNCHANGED vars
  BY <1>1 DEF vars, TypeOK
<1> QED
  BY <1>1, HandleTypes, CallerTypes DEF Next

------------------------------------------------------------------------------
(* The populations                                                          *)

\* What is bagged is in the bag of a slot.
LEMMA InBag == \A n : n \in Bagged <=> \E s \in Slots : n \in bag[s]
BY DEF Bagged

\* The bag whose values are gone and whose nodes are not free yet.
Emptied == IF \E c \in Callers : cpc[c] \in {"spliceIn", "spliceOut"} THEN bag[oldest] ELSE {}

\* A step that moves no node keeps the populations apart.
LEMMA PopulationsKept ==
  ASSUME Populations, UNCHANGED <<nodes, bag>>, Emptied' = Emptied
  PROVE  Populations'
BY SMT DEF Populations, Emptied, Bagged, nodes

\* The steps on the list keep the populations apart.
LEMMA PopulationsList ==
  ASSUME TypeOK, Populations, NEW h \in Handles, ListStep(h)
  PROVE  Populations'
<1>1. PICK n \in Nodes : Alloc(h, n) \/ Link(h, n) \/ Discard(h, n) \/ Retire(h, n)
  BY DEF ListStep
<1>2. PICK B : B = Bagged
  OBVIOUS
<1>3. PICK E : E = Emptied
  OBVIOUS
<1>4. UNCHANGED <<bag, oldest, cpc>>
  BY HandleFrame DEF HandleStep
<1>5. Bagged' = B /\ Emptied' = E
  BY <1>2, <1>3, <1>4 DEF Bagged, Emptied
<1>6. E \subseteq B
  BY <1>2, <1>3, InBag DEF Emptied, TypeOK
<1>7. /\ retired \cap free = {} /\ retired \cap used = {} /\ free \cap used = {}
      /\ B \cap (retired \cup free \cup used) = {}
      /\ fresh \subseteq used
      /\ constructed = (used \cup retired \cup B) \ E
  BY <1>2, <1>3 DEF Populations, Emptied
<1>8. \A s, t \in Slots : s # t => bag'[s] \cap bag'[t] = {}
  BY <1>4 DEF Populations
<1>9. /\ retired' \cap free' = {} /\ retired' \cap used' = {} /\ free' \cap used' = {}
      /\ B \cap (retired' \cup free' \cup used') = {}
      /\ fresh' \subseteq used'
      /\ constructed' = (used' \cup retired' \cup B) \ E
  <2>1. CASE Alloc(h, n)
    BY <1>2, <1>6, <1>7, <2>1, SMT DEF Alloc
  <2>2. CASE Link(h, n)
    BY <1>7, <2>2 DEF Link
  <2>3. CASE Discard(h, n)
    BY <1>6, <1>7, <2>3 DEF Discard
  <2>4. CASE Retire(h, n)
    BY <1>6, <1>7, <2>4 DEF Retire
  <2> QED
    BY <1>1, <2>1, <2>2, <2>3, <2>4
<1> QED
  BY <1>5, <1>8, <1>9 DEF Populations, Emptied

\* The steps of the callers keep the populations apart.
LEMMA PopulationsCaller ==
  ASSUME TypeOK, Populations, FlagInv, WindowInv, NEW c \in Callers, CallerStep(c)
  PROVE  Populations'
<1>0. /\ cpc \in [Callers -> CallerSteps] /\ bag \in [Slots -> SUBSET Nodes]
      /\ oldest \in Slots /\ current \in Slots
  BY DEF TypeOK
<1>1. UNCHANGED <<used, fresh>>
  BY CallerFrame
<1>2. cpc[c] # "idle" => \A d \in Callers \ {c} : cpc[d] = "idle"
  BY DEF FlagInv
<1>3. PICK B : B = Bagged
  OBVIOUS
<1>4. /\ retired \cap free = {} /\ retired \cap used = {} /\ free \cap used = {}
      /\ B \cap (retired \cup free \cup used) = {}
      /\ fresh \subseteq used
      /\ constructed = (used \cup retired \cup B) \ Emptied
      /\ \A s, t \in Slots : s # t => bag[s] \cap bag[t] = {}
  BY <1>3 DEF Populations, Emptied
<1>5. CASE AdvanceExchange(c)
  <2>1. PICK k \in Slots : k = current
    BY <1>0
  <2>2. /\ cpc[c] = "exchange" /\ cpc' = [cpc EXCEPT ![c] = "publish"]
        /\ bag' = [bag EXCEPT ![k] = retired] /\ retired' = {}
        /\ UNCHANGED <<free, constructed>>
    BY <1>5, <2>1 DEF AdvanceExchange, CloseOver, At
  <2>3. Emptied = {} /\ Emptied' = {}
    BY <1>0, <1>2, <2>2 DEF Emptied
  <2>4. bag[k] = {}
    BY <1>5, <2>1, WindowExchange, EndsInUse DEF WindowInv
  <2>5. bag'[k] = retired /\ \A s \in Slots \ {k} : bag'[s] = bag[s]
    BY <1>0, <2>2
  <2>6. Bagged' = B \cup retired
    BY <1>3, <2>4, <2>5, InBag DEF Bagged
  <2>7. \A s \in Slots : bag[s] \subseteq B
    BY <1>3, InBag
  <2>8. \A s, t \in Slots : s # t => bag'[s] \cap bag'[t] = {}
    BY <1>4, <2>5, <2>7
  <2> QED
    BY <1>1, <1>4, <2>2, <2>3, <2>6, <2>8 DEF Populations, Emptied
<1>6. CASE FreeDestroy(c)
  <2>1. /\ cpc[c] \in {"destroyIn", "destroyOut"}
        /\ \E l \in {"spliceIn", "spliceOut"} : cpc' = [cpc EXCEPT ![c] = l]
        /\ constructed' = constructed \ bag[oldest]
        /\ UNCHANGED <<bag, oldest, retired, free>>
    BY <1>6 DEF FreeDestroy, At, blocks
  <2>2. Emptied = {} /\ Emptied' = bag[oldest]
    BY <1>0, <1>2, <2>1 DEF Emptied
  <2>3. Bagged' = B
    BY <1>3, <2>1 DEF Bagged
  <2> QED
    BY <1>1, <1>4, <2>1, <2>2, <2>3 DEF Populations, Emptied
<1>7. CASE FreeSplice(c)
  <2>1. PICK o \in Slots : o = oldest
    BY <1>0
  <2>2. /\ cpc[c] \in {"spliceIn", "spliceOut"}
        /\ \E l \in {"freeIn", "freeOut"} : cpc' = [cpc EXCEPT ![c] = l]
        /\ bag' = [bag EXCEPT ![o] = {}] /\ free' = free \cup bag[o]
        /\ UNCHANGED <<retired, constructed>>
    BY <1>7, <2>1 DEF FreeSplice, At
  <2>3. Emptied = bag[o] /\ Emptied' = {}
    BY <1>0, <1>2, <2>1, <2>2 DEF Emptied
  <2>4. bag'[o] = {} /\ \A s \in Slots \ {o} : bag'[s] = bag[s]
    BY <1>0, <2>2
  <2>5. Bagged' = B \ bag[o]
    BY <1>3, <1>4, <2>4, InBag, SMT DEF Bagged
  <2>6. bag[o] \subseteq B
    BY <1>3, InBag
  <2>7. \A s, t \in Slots : s # t => bag'[s] \cap bag'[t] = {}
    BY <1>4, <2>4
  <2> QED
    BY <1>1, <1>4, <2>2, <2>3, <2>5, <2>6, <2>7 DEF Populations, Emptied
<1>8. CASE ~AdvanceExchange(c) /\ ~FreeDestroy(c) /\ ~FreeSplice(c)
  <2>1. UNCHANGED <<bag, oldest, retired, free, constructed>>
    BY <1>8 DEF CallerStep, ReclaimStep, ReclaimEnter, ReclaimContended, NothingRetired, nodes,
                AdvanceTest, AdvancePublish, FreeTake, FreeInDone, FreeOutDone, ReclaimExit, blocks
  <2>2. \A d \in Callers : cpc'[d] \in {"spliceIn", "spliceOut"}
                             <=> cpc[d] \in {"spliceIn", "spliceOut"}
    BY <1>0, <1>8 DEF CallerStep, ReclaimStep, ReclaimEnter, ReclaimContended, NothingRetired, At,
                      AdvanceTest, AdvancePublish, FreeTake, FreeInDone, FreeOutDone, ReclaimExit
  <2>3. Emptied' = Emptied
    BY <2>1, <2>2 DEF Emptied
  <2> QED
    BY <1>1, <2>1, <2>3, PopulationsKept DEF nodes
<1> QED
  BY <1>5, <1>6, <1>7, <1>8

\* Every step keeps the populations apart.
LEMMA PopulationsStep ==
  ASSUME TypeOK, Populations, FlagInv, WindowInv, [Next]_vars
  PROVE  Populations'
<1>1. ASSUME UNCHANGED <<nodes, bag, oldest, cpc>>
      PROVE  Populations'
  BY <1>1, PopulationsKept DEF Emptied
<1>2. CASE UNCHANGED vars
  BY <1>1, <1>2 DEF vars, nodes
<1>3. ASSUME NEW h \in Handles, HandleStep(h), ~ListStep(h)
      PROVE  Populations'
  <2>1. UNCHANGED nodes
    BY <1>3 DEF HandleStep, JoinStep, NewHandle, Refresh, Leave, JoinLoad, JoinBump, JoinVerify,
                JoinStale, JoinUndo, RefreshLeave
  <2> QED
    BY <1>1, <1>3, <2>1, HandleFrame
<1> QED
  BY <1>2, <1>3, PopulationsList, PopulationsCaller DEF Next

------------------------------------------------------------------------------
(* What the sessions may come upon                                          *)

\* What is bagged is in the bag of a slot, after a step too.
LEMMA InBagNext == (\A n : n \in Bagged <=> \E s \in Slots : n \in bag[s])'
BY InBag, PTL

\* The block that protects a session is in the ring.
LEMMA PinInUse ==
  ASSUME TypeOK, HandleInv, WindowInv, NEW h \in Handles, Session(h)
  PROVE  /\ Pin(h) \in Slots /\ state[Pin(h)] # "EMPTY"
         /\ gen[Pin(h)] \in Low..High /\ Pin(h) = Slot(gen[Pin(h)])
<1>1. Pin(h) \in Slots /\ state[Pin(h)] # "EMPTY"
  BY DEF Pin, HandleInv, HandleOK, Session, TypeOK
<1> QED
  BY <1>1, InUse

\* A session comes upon no node of the bag being freed.
LEMMA FreedUnseen ==
  ASSUME TypeOK, HandleInv, WindowInv, FlagInv, QuietInv, SeesInv,
         NEW c \in Callers, cpc[c] \in Freeing, NEW h \in Handles, Session(h)
  PROVE  sees[h] \cap bag[oldest] = {}
<1>1. state[oldest] = "SEALED" /\ oldest \in Slots /\ oldest = Slot(Low) /\ gen[oldest] = Low
  BY DEF FlagInv, TypeOK, WindowInv, Low
<1>2. Pin(h) # oldest
  BY DEF QuietInv, Pin
<1>3. gen[Pin(h)] \in Low..High /\ Pin(h) = Slot(gen[Pin(h)]) /\ Low \in Nat /\ High \in Nat
  BY PinInUse, WindowTypes
<1>4. gen[Pin(h)] # Low
  BY <1>1, <1>2, <1>3
<1>5. gen[oldest] < gen[Pin(h)]
  BY <1>1, <1>3, <1>4, SMT
<1> QED
  BY <1>1, <1>5 DEF SeesInv, SeesOK

\* A step that retires nothing and joins nobody keeps what the sessions see.
LEMMA SeesKept ==
  ASSUME NEW h \in Handles, SeesOK(h), UNCHANGED <<state, gen, bag, used, retired, free, fresh>>,
         sees'[h] = sees[h], Session(h)' => Session(h) /\ Pin(h)' = Pin(h)
  PROVE  SeesOK(h)'
BY DEF SeesOK, Bagged

\* Joining, refreshing and leaving keep what the sessions see.
LEMMA SeesJoin ==
  ASSUME TypeOK, Populations, HandleInv, WindowInv, SeesInv, NEW h \in Handles,
         JoinStep(h) \/ NewHandle(h) \/ Refresh(h) \/ Leave(h)
  PROVE  SeesInv'
<1>0. /\ hpc \in [Handles -> HandleSteps] /\ block \in [Handles -> Slots \cup {NoSlot}]
      /\ target \in [Handles -> Slots \cup {NoSlot}] /\ sees \in [Handles -> SUBSET Nodes]
      /\ current \in Slots /\ NoSlot \notin Slots /\ gen \in [Slots -> Nat]
  BY NoSlotAssumption DEF TypeOK, Slots
<1>1. UNCHANGED <<state, gen, bag, current, used, retired, free, fresh>>
  <2>1. UNCHANGED nodes
    BY DEF JoinStep, NewHandle, Refresh, Leave, JoinLoad, JoinBump, JoinVerify,
           JoinStale, JoinUndo, RefreshLeave
  <2> QED
    BY <2>1, HandleFrame DEF HandleStep, nodes
<1> SUFFICES ASSUME NEW i \in Handles
             PROVE  SeesOK(i)'
  BY DEF SeesInv
<1>2. SeesOK(i)
  BY DEF SeesInv
<1> USE DEF Step
<1>3. CASE NewHandle(h) \/ Refresh(h) \/ Leave(h)
  <2>1. /\ Session(i)' => Session(i) /\ Pin(i)' = Pin(i) /\ sees'[i] = sees[i]
    BY <1>0, <1>3 DEF NewHandle, Refresh, Leave, MayUse, Session, Pin
  <2> QED
    BY <1>1, <1>2, <2>1, SeesKept DEF SeesOK
<1>4. CASE JoinLoad(h) \/ JoinBump(h) \/ JoinStale(h) \/ JoinUndo(h)
  <2>1. /\ Session(i)' => Session(i) /\ Pin(i)' = Pin(i) /\ sees'[i] = sees[i]
    BY <1>0, <1>4 DEF JoinLoad, JoinBump, JoinStale, JoinUndo, Session, Pin
  <2> QED
    BY <1>1, <1>2, <2>1, SeesKept DEF SeesOK
<1>5. CASE RefreshLeave(h)
  <2>1. hpc[h] = "leave" => Session(h)
    BY DEF HandleInv, HandleOK
  <2>2. /\ Session(i)' => Session(i) /\ Pin(i)' = Pin(i) /\ sees'[i] = sees[i]
    BY <1>0, <1>5, <2>1 DEF RefreshLeave, Session, Pin
  <2> QED
    BY <1>1, <1>2, <2>2, SeesKept DEF SeesOK
<1>6. CASE JoinVerify(h) /\ i # h
  <2>1. /\ Session(i)' => Session(i) /\ Pin(i)' = Pin(i) /\ sees'[i] = sees[i]
    BY <1>0, <1>6 DEF JoinVerify, Joined, Session, Pin
  <2> QED
    BY <1>1, <1>2, <2>1, SeesKept DEF SeesOK
<1>7. CASE JoinVerify(h) /\ i = h
  <2>1. Pin(i)' = current /\ sees'[i] = Observable
    BY <1>0, <1>7 DEF JoinVerify, Joined, Pin
  <2>2. Observable = (used \ fresh) \cup retired \cup free \cup bag[current]
    BY DEF Observable
  <2>3. /\ fresh \subseteq used /\ Bagged \cap (retired \cup free \cup used) = {}
        /\ retired \cap used = {} /\ free \cap used = {}
        /\ \A s, t \in Slots : s # t => bag[s] \cap bag[t] = {}
    BY DEF Populations
  <2>4. \A s \in Slots : bag[s] \subseteq Bagged
    BY InBag
  <2>5. Observable \cap fresh = {} /\ Observable \subseteq used \cup retired \cup free \cup Bagged
    BY <1>0, <2>2, <2>3, <2>4
  <2>6. ASSUME NEW s \in Slots, gen[s] < gen[current]
        PROVE  Observable \cap bag[s] = {}
    <3>1. s # current
      BY <1>0, <2>6, SMT
    <3> QED
      BY <1>0, <2>2, <2>3, <2>4, <3>1
  <2>7. Bagged' = Bagged
    BY <1>1 DEF Bagged
  <2> QED
    BY <1>1, <2>1, <2>5, <2>6, <2>7 DEF SeesOK
<1> QED
  BY <1>3, <1>4, <1>5, <1>6, <1>7 DEF JoinStep

\* The steps on the list keep what the sessions see.
LEMMA SeesList ==
  ASSUME TypeOK, Populations, SeesInv, NEW h \in Handles, ListStep(h)
  PROVE  SeesInv'
<1>1. PICK n \in Nodes : Alloc(h, n) \/ Link(h, n) \/ Discard(h, n) \/ Retire(h, n)
  BY DEF ListStep
<1>2. UNCHANGED <<state, gen, bag, hpc, block, target>> /\ Bagged' = Bagged
  <2>1. UNCHANGED <<state, gen, bag>>
    BY HandleFrame DEF HandleStep
  <2> QED
    BY <1>1, <2>1 DEF Alloc, Link, Discard, Retire, handles, Bagged
<1> SUFFICES ASSUME NEW i \in Handles, Session(i)
             PROVE  SeesOK(i)'
  BY <1>2 DEF SeesInv, SeesOK, Session
<1>3. Pin(i)' = Pin(i)
  BY <1>2 DEF Pin
<1>4. /\ sees[i] \cap fresh = {}
      /\ sees[i] \subseteq used \cup retired \cup free \cup Bagged
      /\ \A s \in Slots : state[s] = "SEALED" /\ gen[s] < gen[Pin(i)]
                            => sees[i] \cap bag[s] = {}
  BY DEF SeesInv, SeesOK
<1>5. /\ fresh \subseteq used /\ Bagged \cap (retired \cup free \cup used) = {}
      /\ retired \cap used = {} /\ free \cap used = {}
  BY DEF Populations
<1>6. \A s \in Slots : bag[s] \subseteq Bagged
  BY InBag
<1>7. /\ sees'[i] \cap fresh' = {}
      /\ sees'[i] \subseteq used' \cup retired' \cup free' \cup Bagged
      /\ sees'[i] \subseteq sees[i] \cup used
  <2>1. CASE Alloc(h, n)
    BY <1>4, <1>5, <2>1 DEF Alloc, handles
  <2>2. CASE Link(h, n)
    <3>1. sees'[i] = sees[i] \cup {n}
      BY <2>2 DEF Link, Reveal
    <3> QED
      BY <1>4, <1>5, <2>2, <3>1 DEF Link
  <2>3. CASE Discard(h, n)
    BY <1>4, <1>5, <2>3 DEF Discard, handles
  <2>4. CASE Retire(h, n)
    BY <1>4, <1>5, <2>4 DEF Retire, handles
  <2> QED
    BY <1>1, <2>1, <2>2, <2>3, <2>4
<1>8. \A s \in Slots : state[s] = "SEALED" /\ gen[s] < gen[Pin(i)] => sees'[i] \cap bag[s] = {}
  BY <1>4, <1>5, <1>6, <1>7
<1> QED
  BY <1>2, <1>3, <1>7, <1>8 DEF SeesOK

\* The steps of the callers keep what the sessions see.
LEMMA SeesCaller ==
  ASSUME TypeOK, Populations, HandleInv, WindowInv, FlagInv, QuietInv, SeesInv,
         NEW c \in Callers, CallerStep(c)
  PROVE  SeesInv'
<1>0. /\ gen \in [Slots -> Nat] /\ state \in [Slots -> States] /\ bag \in [Slots -> SUBSET Nodes]
  BY DEF TypeOK
<1>1. UNCHANGED <<hpc, block, target, used, fresh>>
  BY CallerFrame
<1> SUFFICES ASSUME NEW h \in Handles, Session(h)
             PROVE  SeesOK(h)'
  BY <1>1 DEF SeesInv, SeesOK, Session
<1>2. PICK p \in Slots : p = Pin(h)
  BY PinInUse
<1>3. Pin(h)' = p
  BY <1>1, <1>2 DEF Pin
<1>4. SeesOK(h)
  BY DEF SeesInv
<1>5. /\ sees[h] \cap fresh = {}
      /\ sees[h] \subseteq used \cup retired \cup free \cup Bagged
      /\ \A s \in Slots : state[s] = "SEALED" /\ gen[s] < gen[p] => sees[h] \cap bag[s] = {}
  BY <1>2, <1>4 DEF SeesOK
<1>6. /\ fresh \subseteq used /\ Bagged \cap (retired \cup free \cup used) = {}
      /\ \A s, t \in Slots : s # t => bag[s] \cap bag[t] = {}
  BY DEF Populations
<1>7. CASE AdvanceExchange(c)
  <2>1. PICK k \in Slots : k = current
    BY DEF TypeOK
  <2>2. PICK n \in Slots : n = NextSlot(current)
    BY WindowTypes
  <2>3. /\ bag' = [bag EXCEPT ![k] = retired] /\ retired' = {}
        /\ state' = [state EXCEPT ![k] = "SEALED", ![n] = "CURRENT"]
        /\ gen' = [gen EXCEPT ![n] = gen[k] + 1]
        /\ UNCHANGED <<free, sees>> /\ state[n] = "EMPTY"
    BY <1>7, <2>1, <2>2 DEF AdvanceExchange, CloseOver, At, handles, FlagInv
  <2>4. n # k /\ gen[k] = High /\ bag[k] = {}
    BY <1>7, <2>1, <2>2, WindowExchange, EndsInUse DEF WindowInv, High
  <2>5. p # n /\ gen[p] <= gen[k] /\ gen[p] \in Nat /\ gen[k] \in Nat
    BY <1>0, <1>2, <2>3, <2>4, PinInUse, WindowTypes, SMT
  <2>6. /\ bag'[k] = retired /\ \A s \in Slots \ {k} : bag'[s] = bag[s]
        /\ state'[k] = "SEALED" /\ state'[n] = "CURRENT"
        /\ \A s \in Slots \ {k, n} : state'[s] = state[s]
        /\ \A s \in Slots \ {n} : gen'[s] = gen[s]
    BY <1>0, <2>3, <2>4
  <2>7. sees[h] \subseteq used \cup free \cup Bagged'
    BY <1>5, <2>4, <2>6, InBag, InBagNext
  <2>8. ASSUME NEW s \in Slots, state'[s] = "SEALED", gen'[s] < gen'[p]
        PROVE  sees[h] \cap bag'[s] = {}
    <3>1. s # n /\ gen'[p] = gen[p] /\ gen'[s] = gen[s]
      BY <2>5, <2>6, <2>8
    <3>2. s # k
      BY <2>5, <2>8, <3>1, SMT
    <3> QED
      BY <1>5, <2>6, <2>8, <3>1, <3>2
  <2> QED
    BY <1>1, <1>3, <1>5, <2>3, <2>7, <2>8 DEF SeesOK
<1>8. CASE FreeSplice(c)
  <2>1. PICK o \in Slots : o = oldest
    BY DEF TypeOK
  <2>2. /\ cpc[c] \in Freeing /\ bag' = [bag EXCEPT ![o] = {}] /\ free' = free \cup bag[o]
        /\ state' = [state EXCEPT ![o] = "EMPTY"]
        /\ sees'[h] = sees[h] \cup bag[o] /\ UNCHANGED <<gen, retired>>
    BY <1>8, <2>1 DEF FreeSplice, At, Reveal, Freeing
  <2>3. /\ bag'[o] = {} /\ \A s \in Slots \ {o} : bag'[s] = bag[s]
        /\ state'[o] = "EMPTY" /\ \A s \in Slots \ {o} : state'[s] = state[s]
    BY <1>0, <2>2
  <2>4. bag[o] \subseteq Bagged
    BY InBag
  <2>5. sees'[h] \cap fresh = {}
    BY <1>5, <1>6, <2>2, <2>4
  <2>6. sees'[h] \subseteq used \cup retired \cup free' \cup Bagged'
    BY <1>5, <2>2, <2>3, InBag, InBagNext
  <2>7. ASSUME NEW s \in Slots, state'[s] = "SEALED", gen'[s] < gen'[p]
        PROVE  sees'[h] \cap bag'[s] = {}
    BY <1>5, <1>6, <2>2, <2>3, <2>7
  <2> QED
    BY <1>1, <1>3, <2>2, <2>5, <2>6, <2>7 DEF SeesOK
<1>9. CASE AdvancePublish(c)
  BY <1>1, <1>2, <1>3, <1>4, <1>9, SeesKept DEF AdvancePublish, blocks, nodes, handles
<1>10. CASE ~AdvanceExchange(c) /\ ~AdvancePublish(c) /\ ~FreeSplice(c)
  BY <1>1, <1>2, <1>3, <1>4, <1>10, CallerQuiet, SeesKept
<1> QED
  BY <1>7, <1>8, <1>9, <1>10

\* Every step keeps what the sessions see.
LEMMA SeesStep ==
  ASSUME TypeOK, Populations, HandleInv, WindowInv, FlagInv, QuietInv, SeesInv, [Next]_vars
  PROVE  SeesInv'
<1>1. CASE UNCHANGED vars
  BY <1>1, SeesKept DEF vars, SeesInv, Session, Pin
<1> QED
  BY <1>1, SeesJoin, SeesList, SeesCaller DEF Next, HandleStep

------------------------------------------------------------------------------
(* The theorems                                                             *)

\* The empty ring satisfies the invariant.
LEMMA GenInit == Init => GenInv
<1> SUFFICES ASSUME Init
             PROVE  GenInv
  OBVIOUS
<1>1. kGenerations \in Nat /\ kGenerations >= 2 /\ 0 \in Slots /\ NoSlot \notin Slots
  BY RingAssumption, NoSlotAssumption, SMT DEF Slots
<1>2. TypeOK
  <2>1. /\ refs \in [Slots -> Nat] /\ gen \in [Slots -> Nat] /\ seen \in [Handles -> Nat]
        /\ current \in Slots /\ oldest \in Slots /\ retires \in 0..MaxRetires
    BY <1>1, RetiresAssumption, SMT DEF Init
  <2>2. /\ state \in [Slots -> States] /\ hpc \in [Handles -> HandleSteps]
        /\ cpc \in [Callers -> CallerSteps] /\ result \in [Callers -> Advances]
    BY DEF Init, States, HandleSteps, CallerSteps, Advances
  <2>3. bag \in [Slots -> SUBSET Nodes] /\ sees \in [Handles -> SUBSET Nodes]
    BY DEF Init
  <2> QED
    BY <2>1, <2>2, <2>3 DEF Init, TypeOK
<1>3. CountsExact
  <2>1. \A s \in Slots : Members(s) = {} /\ Raised(s) = {} /\ refs[s] = 0
    BY <1>1 DEF Init, Members, Raised
  <2> QED
    BY <2>1, FS_EmptySet, SMT DEF CountsExact
<1>4. Populations
  <2>1. Bagged = {}
    BY InBag DEF Init
  <2> QED
    BY <2>1 DEF Init, Populations
<1>5. FlagInv /\ QuietInv
  BY DEF Init, FlagInv, QuietInv, Freeing
<1>6. WindowInv
  <2>1. Newest = 0 /\ Low = 0 /\ High = 0 /\ oldest = 0
    BY <1>1 DEF Init, Newest, Publishing, Low, High
  <2>2. Slot(0) = 0
    BY <1>1, ModSmall, SMT DEF Slot
  <2>3. \A g \in 0..0 : g = 0
    BY SMT
  <2>4. \A g : g \notin 0..(0 - 1)
    BY SMT
  <2>5. \A s \in Slots : bag[s] = {} /\ gen[s] = 0 /\ state[s] = IF s = 0 THEN "CURRENT" ELSE "EMPTY"
    BY DEF Init
  <2> QED
    BY <1>1, <2>1, <2>2, <2>3, <2>4, <2>5, SMT DEF WindowInv
<1>7. HandleInv /\ SeesInv
  BY DEF Init, HandleInv, HandleOK, SeesInv, SeesOK, Session
<1> QED
  BY <1>2, <1>3, <1>4, <1>5, <1>6, <1>7 DEF GenInv

\* Every step keeps the invariant.
LEMMA GenStep == GenInv /\ [Next]_vars => GenInv'
<1> SUFFICES ASSUME GenInv, [Next]_vars
             PROVE  GenInv'
  OBVIOUS
<1>1. /\ TypeOK /\ CountsExact /\ Populations
      /\ FlagInv /\ WindowInv /\ HandleInv /\ QuietInv /\ SeesInv
  BY DEF GenInv
<1>2. TypeOK' /\ CountsExact' /\ Populations'
  BY <1>1, TypeStep, CountsStep, PopulationsStep
<1>3. FlagInv' /\ WindowInv' /\ HandleInv' /\ QuietInv' /\ SeesInv'
  BY <1>1, FlagStep, WindowStep, HandleStepKeeps, QuietStep, SeesStep
<1> QED
  BY <1>2, <1>3 DEF GenInv

\* The inductive invariant of the generation ring.
THEOREM GenInvariant == Spec => []GenInv
BY GenInit, GenStep, PTL DEF Spec

\* The count of a block is exact whatever joins, refreshes and destructions of
\* handles are under way, and recycling a slot never disturbs it.
THEOREM CountsCorrect == Spec => []CountsExact
<1>1. GenInv => CountsExact
  BY DEF GenInv
<1> QED
  BY <1>1, GenInvariant, PTL

\* The distance of a slot behind the newest, read off the window.
LEMMA ShapeOf ==
  ASSUME TypeOK, WindowInv, NEW s \in Slots
  PROVE  /\ state[s] = IF Behind(s) = 0 THEN "CURRENT"
                       ELSE IF Behind(s) <= Behind(oldest) THEN "SEALED"
                       ELSE "EMPTY"
         /\ state[s] = "SEALED" => gen[s] = gen[Newest] - Behind(s)
<1>1. PICK hi \in Nat : hi = High
  BY WindowTypes
<1>2. PICK lo \in Nat : lo = Low
  BY WindowTypes
<1>3. /\ lo <= hi /\ hi < lo + kGenerations /\ kGenerations \in Nat \ {0} /\ hi \in Int
      /\ Newest = Slot(hi) /\ oldest = Slot(lo) /\ gen[Newest] = hi
  BY <1>1, <1>2, RingSize, SMT DEF WindowInv, High
<1>4. PICK g \in (hi - kGenerations + 1)..hi : Slot(g) = s
  BY <1>3, SlotCover
<1>5. Behind(s) = hi - g
  BY <1>3, <1>4, SlotBehind DEF Behind
<1>6. lo \in (hi - kGenerations + 1)..hi
  BY <1>3, SMT
<1>7. Behind(oldest) = hi - lo
  BY <1>3, <1>6, SlotBehind DEF Behind
<1>8. /\ state[s] \in {"EMPTY", "CURRENT", "SEALED"}
      /\ state[s] = "CURRENT" <=> s = Slot(hi)
      /\ state[s] = "SEALED" <=> \E i \in lo..(hi - 1) : Slot(i) = s
  BY <1>1, <1>2, <1>3 DEF TypeOK, States, WindowInv
<1>9. \A i \in lo..hi : Slot(i) = s => i = g
  <2>1. \A i \in lo..hi : i \in Int /\ i < g + kGenerations /\ g < i + kGenerations
    BY <1>3, <1>4, SMT
  <2> QED
    BY <1>4, <2>1, SlotInjective, SMT
<1>10. CASE g = hi
  <2>1. state[s] = "CURRENT" /\ Behind(s) = 0
    BY <1>4, <1>5, <1>8, <1>10, SMT
  <2> QED
    BY <2>1
<1>11. CASE g \in lo..(hi - 1)
  <2>1. state[s] = "SEALED"
    BY <1>4, <1>8, <1>11
  <2>2. Behind(s) # 0 /\ Behind(s) <= Behind(oldest)
    BY <1>3, <1>5, <1>7, <1>11, SMT
  <2>3. gen[s] = g
    <3>1. g \in lo..hi
      BY <1>11, SMT
    <3> QED
      BY <1>1, <1>2, <1>4, <3>1 DEF WindowInv
  <2>4. gen[Newest] - Behind(s) = g
    BY <1>3, <1>4, <1>5, SMT
  <2> QED
    BY <2>1, <2>2, <2>3, <2>4
<1>12. CASE g < lo
  <2>1. hi \in lo..hi /\ \A i \in lo..(hi - 1) : i \in lo..hi
    BY <1>3, SMT
  <2>2. \A i \in lo..hi : Slot(i) # s
    BY <1>4, <1>9, <1>12, SMT
  <2>3. state[s] = "EMPTY"
    BY <1>8, <2>1, <2>2
  <2>4. Behind(s) # 0 /\ ~ (Behind(s) <= Behind(oldest))
    BY <1>3, <1>4, <1>5, <1>7, <1>12, SMT
  <2> QED
    BY <2>3, <2>4
<1> QED
  BY <1>3, <1>4, <1>10, <1>11, <1>12, SMT

\* After any sequence of advances and frees the ring is the current block, behind
\* it the sealed ones down to oldest_ with falling generation numbers, the rest
\* empty; every node is in one population, and refresh() only moves forward.
THEOREM RingCorrect == Spec => []RingShape
<1>1. GenInv => RingShape
  <2> SUFFICES ASSUME GenInv
               PROVE  RingShape
    OBVIOUS
  <2>1. TypeOK /\ Populations /\ WindowInv
    BY DEF GenInv
  <2>2. \A s \in Slots : state[s] = "SEALED" <=> bag[s] # {}
    BY <2>1 DEF WindowInv
  <2>3. \A h \in Handles : hpc[h] = "leave" => gen[target[h]] > gen[block[h]]
    <3> SUFFICES ASSUME NEW h \in Handles, hpc[h] = "leave"
                 PROVE  gen[target[h]] > gen[block[h]]
      OBVIOUS
    <3>1. gen[block[h]] < gen[target[h]] /\ target[h] \in Slots /\ block[h] \in Slots
      BY <2>1 DEF GenInv, HandleInv, HandleOK, Session, TypeOK
    <3>2. gen[block[h]] \in Nat /\ gen[target[h]] \in Nat
      BY <2>1, <3>1 DEF TypeOK
    <3> QED
      BY <3>1, <3>2
  <2> QED
    BY <2>1, <2>2, <2>3, ShapeOf DEF RingShape
<1> QED
  BY <1>1, GenInvariant, PTL

\* While a session lasts, no node it may come upon is destroyed, deleted or put on
\* the free list, and its block is not recycled (INVARIANT (I) and (II)).
THEOREM ReclaimCorrect == Spec => NoReclaimUnderSession
<1> DEFINE Safe(h) == Session(h) /\ Session(h)' =>
                        /\ sees[h] \cap (constructed \ constructed') = {}
                        /\ sees[h] \cap (free' \ free) = {}
                        /\ block'[h] = block[h] => /\ gen'[block[h]] = gen[block[h]]
                                                   /\ state'[block[h]] # "EMPTY"
<1>1. ASSUME GenInv, GenInv', Next, NEW h \in Handles, Session(h), Session(h)'
      PROVE  /\ sees[h] \cap (constructed \ constructed') = {}
             /\ sees[h] \cap (free' \ free) = {}
             /\ block'[h] = block[h] => /\ gen'[block[h]] = gen[block[h]]
                                        /\ state'[block[h]] # "EMPTY"
  <2>1. /\ TypeOK /\ Populations /\ FlagInv /\ WindowInv /\ HandleInv /\ QuietInv /\ SeesInv
    BY <1>1 DEF GenInv
  <2>2. sees[h] \cap fresh = {} /\ block[h] \in Slots /\ state[block[h]] # "EMPTY"
    BY <1>1, <2>1 DEF SeesInv, SeesOK, HandleInv, HandleOK, Session, TypeOK
  <2>3. state'[block'[h]] # "EMPTY"
    BY <1>1 DEF GenInv, HandleInv, HandleOK
  <2>4. ASSUME NEW i \in Handles, HandleStep(i)
        PROVE  /\ constructed \ constructed' \subseteq fresh
               /\ free' \subseteq free /\ gen' = gen
    <3>1. gen' = gen
      BY <2>4, HandleFrame
    <3>2. CASE ListStep(i)
      BY <3>1, <3>2 DEF ListStep, Alloc, Link, Discard, Retire
    <3>3. CASE ~ListStep(i)
      BY <2>4, <3>1, <3>3
         DEF HandleStep, JoinStep, NewHandle, Refresh, Leave, JoinLoad, JoinBump, JoinVerify,
             JoinStale, JoinUndo, RefreshLeave, nodes
    <3> QED
      BY <3>2, <3>3
  <2>5. ASSUME NEW c \in Callers, CallerStep(c)
        PROVE  /\ sees[h] \cap (constructed \ constructed') = {}
               /\ sees[h] \cap (free' \ free) = {}
               /\ gen'[block[h]] = gen[block[h]]
    <3>1. cpc[c] \in Freeing => sees[h] \cap bag[oldest] = {}
      BY <1>1, <2>1, FreedUnseen
    <3>2. CASE AdvanceExchange(c)
      <4>1. PICK n \in Slots : n = NextSlot(current)
        BY <2>1, WindowTypes
      <4>2. /\ gen' = [gen EXCEPT ![n] = gen[current] + 1] /\ state[n] = "EMPTY"
            /\ UNCHANGED <<constructed, free>>
        BY <2>1, <3>2, <4>1 DEF AdvanceExchange, CloseOver, At, FlagInv
      <4> QED
        BY <2>1, <2>2, <4>2 DEF TypeOK
    <3>3. CASE FreeDestroy(c)
      BY <3>1, <3>3 DEF FreeDestroy, At, Freeing, blocks
    <3>4. CASE FreeSplice(c)
      BY <3>1, <3>4 DEF FreeSplice, At, Freeing
    <3>5. CASE ~AdvanceExchange(c) /\ ~FreeDestroy(c) /\ ~FreeSplice(c)
      BY <2>5, <3>5
         DEF CallerStep, ReclaimStep, ReclaimEnter, ReclaimContended, NothingRetired, AdvanceTest,
             AdvancePublish, FreeTake, FreeInDone, FreeOutDone, ReclaimExit, blocks, nodes
    <3> QED
      BY <3>2, <3>3, <3>4, <3>5
  <2> QED
    BY <1>1, <2>2, <2>3, <2>4, <2>5 DEF Next
<1>2. GenInv /\ GenInv' /\ [Next]_vars => [\A h \in Handles : Safe(h)]_vars
  BY <1>1
<1> QED
  BY <1>2, GenInvariant, PTL DEF Spec, NoReclaimUnderSession
==============================================================================
