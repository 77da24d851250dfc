---------------------------- MODULE GenerationRing ----------------------------
(***************************************************************************)
(* The reclamation half of LockFreeListRCU: the fixed ring of generation   *)
(* blocks, the handles that join and leave generations, and reclaim(),     *)
(* which closes the current generation over the retired nodes and frees    *)
(* the bags of closed generations oldest first.  What the list does with a *)
(* node between taking it from the allocator and retiring it is left to    *)
(* the list (module RcuList); here a node is only in one of the four       *)
(* populations the code names, or not allocated.                           *)
(*                                                                         *)
(* Every atomic access the code makes seq_cst, acquire or release is one   *)
(* step on the shared state.  The relaxed loads of current_ (in join() and *)
(* refresh()) may return an older value: any generation not older than the *)
(* one the handle's thread has already read, at most MaxLag publishes back.*)
(***************************************************************************)
EXTENDS Integers, FiniteSets

CONSTANTS Handles,      \* handle objects, each used by one thread at a time
          Callers,      \* threads that call reclaim()
          Nodes,        \* the addresses nodes are allocated at
          kGenerations, \* slots of the ring
          MaxLag,       \* how many publishes a relaxed load of current_ may lag
          MaxRetires,   \* bound: nodes retired in a behaviour
          NoSlot        \* the null GenerationBlock*

ASSUME RingAssumption == kGenerations \in Nat /\ kGenerations >= 2
ASSUME LagAssumption == MaxLag \in Nat
ASSUME RetiresAssumption == MaxRetires \in Nat
ASSUME NoSlotAssumption == NoSlot \notin 0..(kGenerations - 1)
ASSUME FiniteAssumption == IsFiniteSet(Handles)

VARIABLES refs, state, gen, bag,    \* the GenerationBlock of each slot
          current, oldest,          \* current_ and oldest_, as ring indices
          reclaiming,               \* the try-flag of reclaim()
          retired, free,            \* nodes on the retired list / free list
          used, fresh,              \* nodes the list owns; those not linked yet
          constructed,              \* nodes whose storage holds a live T
          hpc, block, target, seen, \* per handle: step, block_, the block
                                    \* being joined, last generation read
          sees,                     \* ghost: nodes a session may come upon
          cpc, result,              \* per caller: step, ReclaimResult.advance
                                    \* so far
          retires                   \* ghost: retire() calls so far

blocks == <<refs, state, gen, bag>>
nodes == <<retired, free, used, fresh, constructed>>
handles == <<hpc, block, target, seen, sees>>
callers == <<cpc, result>>
vars == <<refs, state, gen, bag, current, oldest, reclaiming, retired, free,
          used, fresh, constructed, hpc, block, target, seen, sees, cpc,
          result, retires>>

Slots == 0..(kGenerations - 1)
Slot(g) == g % kGenerations
NextSlot(s) == (s + 1) % kGenerations

States == {"EMPTY", "CURRENT", "SEALED"}
HandleSteps == {"idle", "join", "bump", "verify", "undo", "leave"}
CallerSteps == {"idle", "test", "freeIn", "destroyIn", "spliceIn", "exchange",
                "publish", "freeOut", "destroyOut", "spliceOut", "exit"}
Advances == {"none", "nothing_retired", "advanced", "ring_full", "contended"}

Bagged == UNION {bag[s] : s \in Slots}

(* A handle holds a session from the successful re-verify on; while        *)
(* refresh() still has the old block to leave, the new block is the one    *)
(* that protects what the handle does next.                                *)
Session(h) == block[h] # NoSlot
Pin(h) == IF hpc[h] = "leave" THEN target[h] ELSE block[h]
MayUse(h) == Session(h) /\ hpc[h] = "idle"

(* The nodes a session that begins now may come upon: in the list, on the  *)
(* retired list or the free list, or bagged under the generation joined.   *)
Observable == (used \ fresh) \cup retired \cup free \cup bag[current]

(* Nodes enter the list or the free list, where any session may meet them. *)
Reveal(S) ==
    sees' = [h \in Handles |-> IF Session(h) THEN sees[h] \cup S ELSE {}]

Init ==
    /\ refs = [s \in Slots |-> 0]
    /\ state = [s \in Slots |-> IF s = 0 THEN "CURRENT" ELSE "EMPTY"]
    /\ gen = [s \in Slots |-> 0]
    /\ bag = [s \in Slots |-> {}]
    /\ current = 0
    /\ oldest = 0
    /\ reclaiming = FALSE
    /\ retired = {}
    /\ free = {}
    /\ used = {}
    /\ fresh = {}
    /\ constructed = {}
    /\ hpc = [h \in Handles |-> "idle"]
    /\ block = [h \in Handles |-> NoSlot]
    /\ target = [h \in Handles |-> NoSlot]
    /\ seen = [h \in Handles |-> 0]
    /\ sees = [h \in Handles |-> {}]
    /\ cpc = [c \in Callers |-> "idle"]
    /\ result = [c \in Callers |-> "none"]
    /\ retires = 0

-----------------------------------------------------------------------------
(* join(), called by new_handle() and by the slow path of refresh().       *)

Step(h, from, to) ==
    /\ hpc[h] = from
    /\ hpc' = [hpc EXCEPT ![h] = to]

(* What a relaxed load of current_ by h's thread may return.               *)
LoadCurrent(h) ==
    {g \in 0..gen[current] : g >= seen[h] /\ g + MaxLag >= gen[current]}

NewHandle(h) ==
    /\ block[h] = NoSlot
    /\ Step(h, "idle", "join")
    /\ UNCHANGED <<blocks, current, oldest, reclaiming, nodes, block, target,
                   seen, sees, callers, retires>>

JoinLoad(h) ==
    /\ Step(h, "join", "bump")
    /\ \E g \in LoadCurrent(h) :
         /\ target' = [target EXCEPT ![h] = Slot(g)]
         /\ seen' = [seen EXCEPT ![h] = g]
    /\ UNCHANGED <<blocks, current, oldest, reclaiming, nodes, block, sees,
                   callers, retires>>

JoinBump(h) ==
    /\ Step(h, "bump", "verify")
    /\ refs' = [refs EXCEPT ![target[h]] = @ + 1]
    /\ UNCHANGED <<state, gen, bag, current, oldest, reclaiming, nodes, block,
                   target, seen, sees, callers, retires>>

(* The session begins: block_ is set at once for a new handle, after       *)
(* leave() of the old block for a refresh.                                 *)
Joined(h) ==
    /\ seen' = [seen EXCEPT ![h] = gen[current]]
    /\ sees' = [sees EXCEPT ![h] = Observable]
    /\ IF block[h] = NoSlot
       THEN /\ Step(h, "verify", "idle")
            /\ block' = [block EXCEPT ![h] = target[h]]
       ELSE /\ Step(h, "verify", "leave")
            /\ UNCHANGED block

JoinVerify(h) ==
    /\ current = target[h]
    /\ Joined(h)
    /\ UNCHANGED <<blocks, current, oldest, reclaiming, nodes, target,
                   callers, retires>>

JoinStale(h) ==
    /\ Step(h, "verify", "undo")
    /\ current # target[h]
    /\ seen' = [seen EXCEPT ![h] = gen[current]]
    /\ UNCHANGED <<blocks, current, oldest, reclaiming, nodes, block, target,
                   sees, callers, retires>>

\* Mutant: a join that lost the race leaves its increment behind.
JoinUndoForgets(h) ==
    /\ Step(h, "undo", "join")
    /\ UNCHANGED <<blocks, current, oldest, reclaiming, nodes, block, target,
                   seen, sees, callers, retires>>

JoinUndo(h) ==
    /\ Step(h, "undo", "join")
    /\ refs' = [refs EXCEPT ![target[h]] = @ - 1]
    /\ UNCHANGED <<state, gen, bag, current, oldest, reclaiming, nodes, block,
                   target, seen, sees, callers, retires>>

-----------------------------------------------------------------------------
(* The rest of a handle's life.                                            *)

(* refresh(): the relaxed load finds the handle's own block (fast path) or *)
(* sends the handle to join().                                             *)
Refresh(h) ==
    /\ MayUse(h)
    /\ \E g \in LoadCurrent(h) :
         /\ seen' = [seen EXCEPT ![h] = g]
         /\ hpc' = [hpc EXCEPT ![h] = IF Slot(g) = block[h] THEN "idle"
                                                            ELSE "join"]
    /\ UNCHANGED <<blocks, current, oldest, reclaiming, nodes, block, target,
                   sees, callers, retires>>

(* refresh(), after join(): leave(block_), then block_ = joined.           *)
RefreshLeave(h) ==
    /\ Step(h, "leave", "idle")
    /\ refs' = [refs EXCEPT ![block[h]] = @ - 1]
    /\ block' = [block EXCEPT ![h] = target[h]]
    /\ UNCHANGED <<state, gen, bag, current, oldest, reclaiming, nodes,
                   target, seen, sees, callers, retires>>

(* ~handle(): leave().  The next new_handle() into this object may run on  *)
(* another thread, which has read nothing yet.                             *)
Leave(h) ==
    /\ MayUse(h)
    /\ refs' = [refs EXCEPT ![block[h]] = @ - 1]
    /\ block' = [block EXCEPT ![h] = NoSlot]
    /\ target' = [target EXCEPT ![h] = NoSlot]
    /\ seen' = [seen EXCEPT ![h] = 0]
    /\ sees' = [sees EXCEPT ![h] = {}]
    /\ UNCHANGED <<state, gen, bag, current, oldest, reclaiming, nodes, hpc,
                   callers, retires>>

-----------------------------------------------------------------------------
(* What the list operations do to the populations; each runs under a live  *)
(* handle.                                                                 *)

(* alloc_node() and the placement new that follows it: a free node, or a   *)
(* new one when the free list is empty.                                    *)
Alloc(h, n) ==
    /\ MayUse(h)
    /\ \/ n \in free /\ fresh' = fresh
       \/ /\ free = {}
          /\ n \notin used \cup retired \cup Bagged
          /\ fresh' = fresh \cup {n}
    /\ free' = free \ {n}
    /\ used' = used \cup {n}
    /\ constructed' = constructed \cup {n}
    /\ UNCHANGED <<blocks, current, oldest, reclaiming, retired, handles,
                   callers, retires>>

(* The link CAS of init_node(): from here on every session can find n.     *)
Link(h, n) ==
    /\ MayUse(h)
    /\ n \in fresh
    /\ fresh' = fresh \ {n}
    /\ Reveal({n})
    /\ UNCHANGED <<blocks, current, oldest, reclaiming, retired, free, used,
                   constructed, hpc, block, target, seen, callers, retires>>

(* init_node() deletes a new node it could not link.                       *)
Discard(h, n) ==
    /\ MayUse(h)
    /\ n \in fresh
    /\ fresh' = fresh \ {n}
    /\ used' = used \ {n}
    /\ constructed' = constructed \ {n}
    /\ UNCHANGED <<blocks, current, oldest, reclaiming, retired, free,
                   handles, callers, retires>>

(* retire(), by the winner of the unlink CAS or by dispose_unlinked().     *)
Retire(h, n) ==
    /\ MayUse(h)
    /\ retires < MaxRetires
    /\ n \in used \ fresh
    /\ used' = used \ {n}
    /\ retired' = retired \cup {n}
    /\ retires' = retires + 1
    /\ UNCHANGED <<blocks, current, oldest, reclaiming, free, fresh,
                   constructed, handles, callers>>

-----------------------------------------------------------------------------
(* reclaim(): one caller at a time, behind the try-flag.                   *)

At(c, from, to) ==
    /\ cpc[c] = from
    /\ cpc' = [cpc EXCEPT ![c] = to]

Answer(c, a) == result' = [result EXCEPT ![c] = a]

\* Mutant: the flag is raised but not looked at.
ReclaimEnterBlind(c) ==
    /\ At(c, "idle", "test")
    /\ reclaiming' = TRUE
    /\ Answer(c, "none")
    /\ UNCHANGED <<blocks, current, oldest, nodes, handles, retires>>

ReclaimEnter(c) ==
    /\ ~reclaiming
    /\ At(c, "idle", "test")
    /\ reclaiming' = TRUE
    /\ Answer(c, "none")
    /\ UNCHANGED <<blocks, current, oldest, nodes, handles, retires>>

ReclaimContended(c) ==
    /\ reclaiming
    /\ At(c, "idle", "idle")
    /\ Answer(c, "contended")
    /\ UNCHANGED <<blocks, current, oldest, reclaiming, nodes, handles,
                   retires>>

(* advance(), A0: nothing on the retired list.                             *)
NothingRetired(c) ==
    /\ retired = {}
    /\ At(c, "test", "freeOut")
    /\ Answer(c, "nothing_retired")
    /\ UNCHANGED <<blocks, current, oldest, reclaiming, nodes, handles,
                   retires>>

(* advance(), A1 and A2: a free pass first when the next slot is in use.   *)
AdvanceTest(c) ==
    /\ retired # {}
    /\ At(c, "test", IF state[NextSlot(current)] = "EMPTY" THEN "exchange"
                                                           ELSE "freeIn")
    /\ UNCHANGED <<blocks, current, oldest, reclaiming, nodes, handles,
                   result, retires>>

(* advance(), A3 and A4: the retired list becomes the bag of the closing   *)
(* block, whose plain fields only the flag holder touches.                 *)
CloseOver(chain) ==
    /\ bag' = [bag EXCEPT ![current] = chain]
    /\ state' = [state EXCEPT ![current] = "SEALED",
                              ![NextSlot(current)] = "CURRENT"]
    /\ gen' = [gen EXCEPT ![NextSlot(current)] = gen[current] + 1]

AdvanceExchange(c) ==
    /\ At(c, "exchange", "publish")
    /\ CloseOver(retired)
    /\ retired' = {}
    /\ UNCHANGED <<refs, current, oldest, reclaiming, free, used, fresh,
                   constructed, handles, result, retires>>

(* advance(), A5.                                                          *)
AdvancePublish(c) ==
    /\ At(c, "publish", "freeOut")
    /\ current' = NextSlot(current)
    /\ Answer(c, "advanced")
    /\ UNCHANGED <<blocks, oldest, reclaiming, nodes, handles, retires>>

\* Mutant: a sealed block is freed whatever its count.
FreeableLoose == state[oldest] = "SEALED"

(* free_oldest(), called by advance() (the "In" steps) and by reclaim()    *)
(* (the "Out" steps).                                                      *)
Freeable == state[oldest] = "SEALED" /\ refs[oldest] = 0

FreeTake(c) ==
    /\ Freeable
    /\ \/ At(c, "freeIn", "destroyIn")
       \/ At(c, "freeOut", "destroyOut")
    /\ UNCHANGED <<blocks, current, oldest, reclaiming, nodes, handles,
                   result, retires>>

(* The values of the bag are destroyed before its nodes reach the free     *)
(* list.                                                                   *)
FreeDestroy(c) ==
    /\ \/ At(c, "destroyIn", "spliceIn")
       \/ At(c, "destroyOut", "spliceOut")
    /\ constructed' = constructed \ bag[oldest]
    /\ UNCHANGED <<blocks, current, oldest, reclaiming, retired, free, used,
                   fresh, handles, result, retires>>

FreeSplice(c) ==
    /\ \/ At(c, "spliceIn", "freeIn")
       \/ At(c, "spliceOut", "freeOut")
    /\ free' = free \cup bag[oldest]
    /\ Reveal(bag[oldest])
    /\ bag' = [bag EXCEPT ![oldest] = {}]
    /\ state' = [state EXCEPT ![oldest] = "EMPTY"]
    /\ oldest' = NextSlot(oldest)
    /\ UNCHANGED <<refs, gen, current, reclaiming, retired, used, fresh,
                   constructed, hpc, block, target, seen, result, retires>>

(* The pass inside advance() ends: the next slot is looked at again.       *)
FreeInDone(c) ==
    /\ ~Freeable
    /\ IF state[NextSlot(current)] = "EMPTY"
       THEN At(c, "freeIn", "exchange") /\ UNCHANGED result
       ELSE At(c, "freeIn", "freeOut") /\ Answer(c, "ring_full")
    /\ UNCHANGED <<blocks, current, oldest, reclaiming, nodes, handles,
                   retires>>

FreeOutDone(c) ==
    /\ ~Freeable
    /\ At(c, "freeOut", "exit")
    /\ UNCHANGED <<blocks, current, oldest, reclaiming, nodes, handles,
                   result, retires>>

(* The caller has the result; it is forgotten here.                        *)
ReclaimExit(c) ==
    /\ At(c, "exit", "idle")
    /\ reclaiming' = FALSE
    /\ Answer(c, "none")
    /\ UNCHANGED <<blocks, current, oldest, nodes, handles, retires>>

-----------------------------------------------------------------------------
JoinStep(h) ==
    \/ JoinLoad(h) \/ JoinBump(h) \/ JoinVerify(h) \/ JoinStale(h)
    \/ JoinUndo(h) \/ RefreshLeave(h)

ListStep(h) ==
    \E n \in Nodes : Alloc(h, n) \/ Link(h, n) \/ Discard(h, n) \/ Retire(h, n)

HandleStep(h) ==
    NewHandle(h) \/ JoinStep(h) \/ Refresh(h) \/ Leave(h) \/ ListStep(h)

ReclaimStep(c) ==
    \/ NothingRetired(c) \/ AdvanceTest(c) \/ AdvanceExchange(c)
    \/ AdvancePublish(c) \/ FreeTake(c) \/ FreeDestroy(c) \/ FreeSplice(c)
    \/ FreeInDone(c) \/ FreeOutDone(c) \/ ReclaimExit(c)

CallerStep(c) == ReclaimEnter(c) \/ ReclaimContended(c) \/ ReclaimStep(c)

Next ==
    \/ \E h \in Handles : HandleStep(h)
    \/ \E c \in Callers : CallerStep(c)

Spec == Init /\ [][Next]_vars

(* A thread inside join(), refresh() or reclaim() keeps running, a handle  *)
(* is eventually destroyed, and reclaim() is called again after it         *)
(* returned.  Nobody is obliged to create handles or to use the list.      *)
FairSpec ==
    /\ Spec
    /\ \A h \in Handles : WF_vars(JoinStep(h)) /\ SF_vars(Leave(h))
    /\ \A c \in Callers : WF_vars(ReclaimStep(c)) /\ WF_vars(ReclaimEnter(c))

-----------------------------------------------------------------------------
TypeOK ==
    /\ refs \in [Slots -> Nat]
    /\ state \in [Slots -> States]
    /\ gen \in [Slots -> Nat]
    /\ bag \in [Slots -> SUBSET Nodes]
    /\ current \in Slots
    /\ oldest \in Slots
    /\ reclaiming \in BOOLEAN
    /\ retired \in SUBSET Nodes
    /\ free \in SUBSET Nodes
    /\ used \in SUBSET Nodes
    /\ fresh \in SUBSET Nodes
    /\ constructed \in SUBSET Nodes
    /\ hpc \in [Handles -> HandleSteps]
    /\ block \in [Handles -> Slots \cup {NoSlot}]
    /\ target \in [Handles -> Slots \cup {NoSlot}]
    /\ seen \in [Handles -> Nat]
    /\ sees \in [Handles -> SUBSET Nodes]
    /\ cpc \in [Callers -> CallerSteps]
    /\ result \in [Callers -> Advances]
    /\ retires \in 0..MaxRetires

(* No node a session may come upon has its value destroyed, is deleted, or *)
(* is put on the free list while the session lasts (INVARIANT (I) and (II) *)
(* of the header's overview): neither a dereference nor the expected value *)
(* of a CAS can refer to a node that was freed and reused meanwhile.  And  *)
(* a live handle's block is not recycled under it, so pointer equality     *)
(* identifies a generation in refresh() and in the re-verify of join().    *)
NoReclaimUnderSession ==
    [][\A h \in Handles :
          Session(h) /\ Session(h)' =>
             /\ sees[h] \cap (constructed \ constructed') = {}
             /\ sees[h] \cap (free' \ free) = {}
             /\ block'[h] = block[h] =>
                   /\ gen'[block[h]] = gen[block[h]]
                   /\ state'[block[h]] # "EMPTY"]_vars

(* Every node address is in exactly one population, and the nodes holding  *)
(* a value are those in use, retired or bagged, except while the flag      *)
(* holder has destroyed the oldest bag and not spliced it yet.             *)
Populations ==
    /\ retired \cap free = {} /\ retired \cap used = {} /\ free \cap used = {}
    /\ Bagged \cap (retired \cup free \cup used) = {}
    /\ \A s, t \in Slots : s # t => bag[s] \cap bag[t] = {}
    /\ fresh \subseteq used
    /\ constructed =
         (used \cup retired \cup Bagged) \
            (IF \E c \in Callers : cpc[c] \in {"spliceIn", "spliceOut"}
             THEN bag[oldest] ELSE {})

(* Who counts in a block's refs.                                           *)
Members(s) ==
    {h \in Handles : block[h] = s}
Raised(s) ==
    {h \in Handles : hpc[h] \in {"verify", "undo", "leave"} /\ target[h] = s}

(* The count of a block is the number of handles joined to it plus the     *)
(* joins that have raised it and not been decided: it never goes negative, *)
(* and recycling the slot must not touch it (J2).                          *)
CountsExact ==
    \A s \in Slots :
        refs[s] = Cardinality(Members(s)) + Cardinality(Raised(s))

(* Between A4 and the publish the ring already is that of the next         *)
(* generation.                                                             *)
Publishing == \E c \in Callers : cpc[c] = "publish"
Newest == IF Publishing THEN NextSlot(current) ELSE current
Behind(s) == (Newest + kGenerations - s) % kGenerations

(* The ring after any sequence of advances and frees: the current block,   *)
(* behind it the sealed blocks with generation numbers falling by one down *)
(* to oldest_, every other slot empty, bags exactly in the sealed ones --  *)
(* so advance()'s test for an empty chain after the exchange never fires,  *)
(* as its comment says.  Every node is in exactly one population (the      *)
(* accounting sweep), and refresh() answers true only when the handle      *)
(* moved to a newer generation.                                            *)
RingShape ==
    /\ TypeOK
    /\ \A s \in Slots :
          /\ state[s] = IF Behind(s) = 0 THEN "CURRENT"
                        ELSE IF Behind(s) <= Behind(oldest) THEN "SEALED"
                        ELSE "EMPTY"
          /\ state[s] = "SEALED" => gen[s] = gen[Newest] - Behind(s)
          /\ (state[s] = "SEALED") <=> (bag[s] # {})
    /\ Populations
    /\ \A h \in Handles : hpc[h] = "leave" => gen[target[h]] > gen[block[h]]

(* A join begun from here on loads the block that is current.              *)
FreshLoads ==
    \A h \in Handles : hpc[h] = "join" /\ hpc'[h] = "bump" => target'[h] = current

(* What is retired is eventually put on the free list, whatever the order  *)
(* in which handles come and go, provided the publishes of reclaim() do    *)
(* become visible to the relaxed loads of join(): handles that keep        *)
(* joining an old block could hold its count above zero at every reclaim().*)
Reclaimed ==
    <>[][FreshLoads]_vars => \A n \in Nodes : n \in retired ~> n \in free

=============================================================================
