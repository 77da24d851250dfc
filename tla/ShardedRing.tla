----------------------------- MODULE ShardedRing -----------------------------
(***************************************************************************)
(* Memory of ConcurrentResizableHashSetRCU: the generation ring whose      *)
(* handle counts, retired lists, limbo lists and free lists are kept per   *)
(* shard; the bump and the free pass behind the try-flag of reclaim(),     *)
(* advance() and the automatic trigger; the free-list pop with its batched *)
(* credits of node_count_; the steal and its hint.  What the chains do     *)
(* with a node between alloc_node() and push_retired() is module           *)
(* HashSetRcu, which in turn abstracts this module to a grace period.      *)
(*                                                                         *)
(* Every access to a shared atomic is one step, but a loop that only       *)
(* pushes is one step, the retired and the limbo head of one shard are     *)
(* read, and taken, in one step, and the plain fields of the flag holder   *)
(* go with the access next to them.  The relaxed load of current_ may be   *)
(* one publish old; a relaxed load of the hint decides only whether to     *)
(* scan, and may return either answer; the heads are read at their newest  *)
(* value.  A list is the sequence of its nodes, top first.                 *)
(***************************************************************************)
EXTENDS Integers, Sequences, FiniteSets, FiniteSetsExt, SequencesExt

CONSTANTS Workers, thread_number,  \* threads, and the number of each
          Arenas,                  \* arena shards, a power of two
          Generations,             \* slots of the ring
          BatchSize,               \* 256: pops or appends per credit
          PopCounts,               \* 512: the counter bits of free_head wrap
          auto_reclaim_every,      \* R, a power of two, or 0 for off
          Briefs,                  \* what the workers do in a behaviour, and
                                   \* its bounds: the slots of all arenas, the
                                   \* allocations, the calls that raise the flag
          Nil                      \* a null pointer

ASSUME NumbersAssumption == thread_number \in [Workers -> Nat]
ASSUME SizesAssumption ==
    /\ Arenas \in Nat \ {0} /\ Generations \in Nat /\ Generations >= 2
    /\ BatchSize \in Nat \ {0} /\ auto_reclaim_every \in Nat
    /\ PopCounts \in Nat \ {0} /\ PopCounts % BatchSize = 0
ASSUME NilAssumption == Nil \notin Nat

VARIABLES brief,                   \* the brief of this behaviour
          rows_,                   \* rows_[a][g]: handle counts
          ring_,                   \* per slot: state, gen, bag
          current_,
          oldest_, scan_start_, deal_, reclaiming_,
          adv,                     \* locals of the flag holder's call
          shards_,                 \* per shard: retired, limbo and free list,
                                   \* pops of free_head, retire_nodes, size
          chained,                 \* nodes in the chains
          node_count_,
          steal_hint_,             \* stamp, and the EMPTY bit
          hd,                      \* per worker: its handle
          act,                     \* per worker: the call it is in
          meets,                   \* ghost: nodes its session may come upon
          allocs, reclaims         \* ghost: counted against the bounds

holder == <<oldest_, scan_start_, deal_, reclaiming_, adv>>
ring == <<rows_, ring_, current_>>
pool == <<shards_, chained, node_count_, steal_hint_>>
work == <<hd, act, meets>>
bounds == <<brief, allocs, reclaims>>
ringVars == <<ring, holder, pool, work, bounds>>

ArenaIds == 0..(Arenas - 1)
RingSlots == 0..(Generations - 1)
May(t, op) == op \in brief.does[t]
next_slot(g) == (g + 1) % Generations
my_shard(t) == thread_number[t] % Arenas

NoHandle == [block |-> Nil, count |-> Nil]
NoCall == [pc |-> "idle", op |-> "none", target |-> Nil, old |-> NoHandle,
           i |-> 0, head |-> Nil, pops |-> 0, succ |-> Nil, stamp |-> Nil,
           node |-> Nil]
NoAdvance == [pc |-> "off", s |-> 0, loaded |-> {}, any |-> FALSE,
              inner |-> FALSE, full |-> FALSE, count |-> 0]
NoSublists == [a \in ArenaIds |-> [retired |-> <<>>, limbo |-> <<>>]]

BagNodes(g) == UNION {ToSet(ring_[g].bag[a].retired)
                      \cup ToSet(ring_[g].bag[a].limbo) : a \in ArenaIds}
FreeNodes == UNION {ToSet(shards_[a].free) : a \in ArenaIds}
Waiting == UNION {ToSet(shards_[a].retired) \cup ToSet(shards_[a].limbo)
                  : a \in ArenaIds}

RingInit ==
    /\ brief \in Briefs
    /\ rows_ = [a \in ArenaIds |-> [g \in RingSlots |-> 0]]
    /\ ring_ = [g \in RingSlots |->
                 [state |-> IF g = 0 THEN "CURRENT" ELSE "EMPTY", gen |-> 0,
                  bag |-> NoSublists]]
    /\ current_ = 0 /\ oldest_ = 0 /\ scan_start_ = 0 /\ deal_ = 0
    /\ reclaiming_ = FALSE /\ adv = NoAdvance
    /\ shards_ = [a \in ArenaIds |->
                   [retired |-> <<>>, limbo |-> <<>>, free |-> <<>>,
                    pops |-> 0, retire_nodes |-> 0, size |-> 0]]
    /\ chained = {} /\ node_count_ = 0
    /\ steal_hint_ = [stamp |-> 0, empty |-> TRUE]
    /\ hd = [t \in Workers |-> NoHandle]
    /\ act = [t \in Workers |-> NoCall]
    /\ meets = [t \in Workers |-> {}]
    /\ allocs = 0 /\ reclaims = 0

-----------------------------------------------------------------------------
(* Handles.  A session lasts from the join's successful re-verify to the   *)
(* leave.  It may come upon every node in the chains, retired, in limbo or *)
(* free, in the bag being filled, and those that get there while it lasts. *)

Alive(t) == hd[t].block # Nil
At(t, pc) == act[t].pc = pc
Go(t, pc) == act' = [act EXCEPT ![t].pc = pc]
Finish(t) == act' = [act EXCEPT ![t] = NoCall]
Observable == chained \cup Waiting \cup FreeNodes \cup BagNodes(current_)
Reveal(n) == meets' = [t \in Workers |-> IF Alive(t) THEN meets[t] \cup {n}
                                                     ELSE {}]
DropCount(h) == rows_' = [rows_ EXCEPT ![h.count][h.block] = @ - 1]

(* A relaxed load of current_: the current slot, or the one before it      *)
(* unless the thread's handle is in the current generation.                *)
LoadCurrent(t) ==
    {current_} \cup {g \in RingSlots : /\ ring_[current_].gen > 0
                                       /\ next_slot(g) = current_
                                       /\ hd[t].block # current_}

(* new_handle(), and the slow path of refresh().                           *)
NewHandle(t) ==
    /\ At(t, "idle") /\ ~Alive(t) /\ May(t, "join")
    /\ act' = [act EXCEPT ![t].pc = "join"]
    /\ UNCHANGED <<ring, holder, pool, hd, meets, bounds>>

Refresh(t) ==
    /\ At(t, "idle") /\ Alive(t) /\ May(t, "refresh")
    /\ \E g \in LoadCurrent(t) : g # hd[t].block
    /\ act' = [act EXCEPT ![t].pc = "join", ![t].op = "refresh"]
    /\ UNCHANGED <<ring, holder, pool, hd, meets, bounds>>

JoinLoad(t) ==
    /\ At(t, "join")
    /\ \E g \in LoadCurrent(t) :
         act' = [act EXCEPT ![t].pc = "bump", ![t].target = g]
    /\ UNCHANGED <<ring, holder, pool, hd, meets, bounds>>

JoinBump(t) ==
    /\ At(t, "bump")
    /\ rows_' = [rows_ EXCEPT ![my_shard(t)][act[t].target] = @ + 1]
    /\ Go(t, "verify")
    /\ UNCHANGED <<ring_, current_, holder, pool, hd, meets, bounds>>

(* The membership is recorded in the handle; refresh() swaps it in and has *)
(* the old one left to drop, the walk of advance() goes on.                *)
JoinVerify(t) ==
    /\ At(t, "verify")
    /\ current_ = act[t].target
    /\ hd' = [hd EXCEPT ![t] = [block |-> act[t].target, count |-> my_shard(t)]]
    /\ act' = [act EXCEPT ![t] =
         CASE act[t].op = "refresh" -> [NoCall EXCEPT !.pc = "leave", !.old = hd[t]]
           [] act[t].op = "advance" -> [NoCall EXCEPT !.pc = "walk", !.op = "advance"]
           [] act[t].op = "none"    -> NoCall]
    /\ meets' = [meets EXCEPT ![t] = Observable]
    /\ UNCHANGED <<ring, holder, pool, bounds>>

JoinStale(t) ==
    /\ At(t, "verify")
    /\ current_ # act[t].target
    /\ Go(t, "undo")
    /\ UNCHANGED <<ring, holder, pool, hd, meets, bounds>>

JoinUndo(t) ==
    /\ At(t, "undo")
    /\ DropCount([block |-> act[t].target, count |-> my_shard(t)])
    /\ act' = [act EXCEPT ![t].pc = "join", ![t].target = Nil]
    /\ UNCHANGED <<ring_, current_, holder, pool, hd, meets, bounds>>

RefreshLeave(t) ==
    /\ At(t, "leave")
    /\ DropCount(act[t].old)
    /\ Finish(t)
    /\ UNCHANGED <<ring_, current_, holder, pool, hd, meets, bounds>>

(* ~handle().                                                              *)
Leave(t) ==
    /\ At(t, "idle") /\ Alive(t)
    /\ DropCount(hd[t])
    /\ hd' = [hd EXCEPT ![t] = NoHandle]
    /\ meets' = [meets EXCEPT ![t] = {}]
    /\ UNCHANGED <<ring_, current_, holder, pool, act, bounds>>

(* swap() of two handles, and the move constructor (a swap with an empty   *)
(* handle); the move assignment, which ends the target's session first.    *)
SwapHandles(t, u) ==
    /\ t # u /\ At(t, "idle") /\ At(u, "idle") /\ Alive(t) /\ May(t, "swap")
    /\ hd' = [hd EXCEPT ![t] = hd[u], ![u] = hd[t]]
    /\ meets' = [meets EXCEPT ![t] = meets[u], ![u] = meets[t]]
    /\ UNCHANGED <<ring, holder, pool, act, bounds>>

MoveHandle(t, u) ==
    /\ t # u /\ At(t, "idle") /\ At(u, "idle") /\ Alive(t) /\ Alive(u) /\ May(t, "move")
    /\ DropCount(hd[u])
    /\ hd' = [hd EXCEPT ![t] = NoHandle, ![u] = hd[t]]
    /\ meets' = [meets EXCEPT ![t] = {}, ![u] = meets[t]]
    /\ UNCHANGED <<ring_, current_, holder, pool, act, bounds>>

-----------------------------------------------------------------------------
(* alloc_node(): the pop of the own free list (op "own"), the steal from   *)
(* the lists of all shards (op "steal"), the append.                       *)

From(t) == IF act[t].op = "own" THEN my_shard(t)
                                ELSE (my_shard(t) + act[t].i) % Arenas

(* The link of a node: the node below it on its free list; a chain's word, *)
(* which is no node of a free list, otherwise.                             *)
ChainWord == 0
Below(n) ==
    IF n \notin FreeNodes THEN ChainWord
    ELSE LET shard == CHOOSE s \in ArenaIds : n \in ToSet(shards_[s].free)
             l == Append(shards_[shard].free, Nil)
         IN l[1 + CHOOSE k \in 1..(Len(l) - 1) : l[k] = n]

(* What a load of free_head sends the caller to.                           *)
Loaded(t) ==
    LET from == shards_[From(t)]
    IN CASE from.free # <<>> ->
              [act[t] EXCEPT !.pc = "link", !.head = Head(from.free), !.pops = from.pops]
         [] from.free = <<>> /\ act[t].op = "own" ->
              [NoCall EXCEPT !.pc = "hint", !.op = "steal"]
         [] from.free = <<>> /\ act[t].op = "steal" ->
              IF act[t].i + 1 < Arenas
              THEN [NoCall EXCEPT !.pc = "load", !.op = "steal", !.i = act[t].i + 1,
                                  !.stamp = act[t].stamp]
              ELSE [NoCall EXCEPT !.pc = "mark", !.op = "steal", !.stamp = act[t].stamp]

AllocBegin(t) ==
    /\ At(t, "idle") /\ Alive(t)
    /\ May(t, "alloc") /\ allocs < brief.allocs
    /\ allocs' = allocs + 1
    /\ act' = [act EXCEPT ![t].pc = "load", ![t].op = "own"]
    /\ UNCHANGED <<ring, holder, pool, hd, meets, brief, reclaims>>

LoadFreeHead(t) ==
    /\ At(t, "load")
    /\ act' = [act EXCEPT ![t] = Loaded(t)]
    /\ UNCHANGED <<ring, holder, pool, hd, meets, bounds>>

LoadLink(t) ==
    /\ At(t, "link")
    /\ act' = [act EXCEPT ![t].pc = "cas", ![t].succ = Below(act[t].head)]
    /\ UNCHANGED <<ring, holder, pool, hd, meets, bounds>>

HeadUnchanged(t) ==
    LET from == shards_[From(t)]
    IN from.free # <<>> /\ Head(from.free) = act[t].head /\ from.pops = act[t].pops

Took(n, opens) == [NoCall EXCEPT !.pc = IF opens THEN "credit" ELSE "have", !.node = n]

Pop(t) ==
    /\ At(t, "cas")
    /\ HeadUnchanged(t)
    /\ shards_' = [shards_ EXCEPT ![From(t)].free = Tail(@),
                                  ![From(t)].pops = (@ + 1) % PopCounts]
    /\ act' = [act EXCEPT ![t] = Took(act[t].head, act[t].pops % BatchSize = 0)]
    /\ UNCHANGED <<ring, holder, chained, node_count_, steal_hint_, hd, meets, bounds>>

PopFails(t) ==
    /\ At(t, "cas")
    /\ ~HeadUnchanged(t)
    /\ act' = [act EXCEPT ![t] = Loaded(t)]
    /\ UNCHANGED <<ring, holder, pool, hd, meets, bounds>>

(* steal_node() and the reload of steal_scan(): EMPTY, or an old EMPTY.    *)
StealSkip(t) ==
    /\ At(t, "hint")
    /\ act' = [act EXCEPT ![t] = [NoCall EXCEPT !.pc = "append"]]
    /\ UNCHANGED <<ring, holder, pool, hd, meets, bounds>>

(* The stamp and then the heads are the newest: what the acquire of the    *)
(* hint is for, that a scan sees the lists the stamp announces, is taken   *)
(* for granted.                                                            *)
StealScan(t) ==
    /\ At(t, "hint")
    /\ ~steal_hint_.empty
    /\ act' = [act EXCEPT ![t].pc = "load", ![t].stamp = steal_hint_.stamp]
    /\ UNCHANGED <<ring, holder, pool, hd, meets, bounds>>

(* Every list was empty: EMPTY is set unless the stamp has changed.        *)
MarkEmpty(t) ==
    /\ At(t, "mark")
    /\ steal_hint_' = [steal_hint_ EXCEPT !.empty = @ \/ steal_hint_.stamp = act[t].stamp]
    /\ act' = [act EXCEPT ![t] = [NoCall EXCEPT !.pc = "append"]]
    /\ UNCHANGED <<ring, holder, shards_, chained, node_count_, hd, meets, bounds>>

SlotCount == FoldSet(LAMBDA a, n : n + shards_[a].size, 0, ArenaIds)

(* nodes.emplace_back(): a new slot of the own arena, or a throw.          *)
AppendSlot(t) ==
    /\ At(t, "append")
    /\ SlotCount < brief.slots
    /\ shards_' = [shards_ EXCEPT ![my_shard(t)].size = @ + 1]
    /\ act' = [act EXCEPT ![t] = Took(SlotCount + 1, shards_[my_shard(t)].size % BatchSize = 0)]
    /\ meets' = [meets EXCEPT ![t] = @ \cup {SlotCount + 1}]
    /\ UNCHANGED <<ring, holder, chained, node_count_, steal_hint_, hd, bounds>>

AppendThrows(t) ==
    /\ At(t, "append")
    /\ Finish(t)
    /\ UNCHANGED <<ring, holder, pool, hd, meets, bounds>>

Credit(t) ==
    /\ At(t, "credit")
    /\ node_count_' = node_count_ + BatchSize
    /\ Go(t, "have")
    /\ UNCHANGED <<ring, holder, shards_, chained, steal_hint_, hd, meets, bounds>>

(* The node is published in a chain, or goes to limbo: its value's copy    *)
(* threw, or the publishing CAS found the chain changed.                   *)
PublishNode(t) ==
    /\ At(t, "have")
    /\ chained' = chained \cup {act[t].node}
    /\ Reveal(act[t].node)
    /\ Finish(t)
    /\ UNCHANGED <<ring, holder, shards_, node_count_, steal_hint_, hd, bounds>>

PushLimbo(t) ==
    /\ At(t, "have")
    /\ shards_' = [shards_ EXCEPT ![my_shard(t)].limbo = <<act[t].node>> \o @]
    /\ Finish(t)
    /\ UNCHANGED <<ring, holder, chained, node_count_, steal_hint_, hd, meets, bounds>>

-----------------------------------------------------------------------------
(* push_retired() of a run just unlinked, by an operation or by the walk   *)
(* of advance(); a run that takes the shard's count across a multiple of   *)
(* the cadence calls auto_reclaim(), which in the walk finds the flag held.*)

Crosses(old, new) ==
    auto_reclaim_every # 0 /\ old \div auto_reclaim_every # new \div auto_reclaim_every

Retired(t, run, counted) ==
    /\ run # {}
    /\ chained' = chained \ run
    /\ shards_' = [shards_ EXCEPT ![my_shard(t)].retired = SetToSeq(run) \o @,
                                  ![my_shard(t)].retire_nodes = counted]
    /\ UNCHANGED <<ring, holder, node_count_, steal_hint_, hd, meets, brief, allocs>>

PushRetired(t) ==
    /\ At(t, "idle") /\ Alive(t) /\ May(t, "retire")
    /\ \E run \in SUBSET chained :
         LET counted == shards_[my_shard(t)].retire_nodes
         IN /\ Retired(t, run, counted + Cardinality(run))
            /\ IF Crosses(counted, counted + Cardinality(run))
               THEN /\ reclaims < brief.reclaims
                    /\ reclaims' = reclaims + 1
                    /\ Go(t, "trigger")
               ELSE UNCHANGED <<act, reclaims>>

WalkRetires(t) ==
    /\ At(t, "walk")
    /\ \E run \in SUBSET chained :
         Retired(t, run, shards_[my_shard(t)].retire_nodes + Cardinality(run))
    /\ UNCHANGED <<act, reclaims>>

-----------------------------------------------------------------------------
(* The flag: reclaim(), advance() and auto_reclaim().  A call that finds   *)
(* it held returns at once.                                                *)

RaiseFlag(t, op) ==
    /\ ~reclaiming_
    /\ reclaiming_' = TRUE
    /\ adv' = [NoAdvance EXCEPT !.pc = "A0"]
    /\ act' = [act EXCEPT ![t] = [NoCall EXCEPT !.pc = "holds", !.op = op]]
    /\ UNCHANGED <<ring, oldest_, scan_start_, deal_, pool, hd, meets, brief, allocs>>

Reclaim(t, op) ==
    /\ At(t, "idle") /\ May(t, op)
    /\ op = "advance" => ~Alive(t)
    /\ reclaims < brief.reclaims
    /\ reclaims' = reclaims + 1
    /\ RaiseFlag(t, op)

Trigger(t) == At(t, "trigger") /\ RaiseFlag(t, "trigger") /\ UNCHANGED reclaims

TriggerSkipped(t) ==
    /\ At(t, "trigger")
    /\ reclaiming_
    /\ Finish(t)
    /\ UNCHANGED <<ring, holder, pool, hd, meets, bounds>>

(* bump().                                                                 *)
Holds(t, pc) == At(t, "holds") /\ adv.pc = pc
NextIsFree == ring_[next_slot(current_)].state = "EMPTY"
LastShard == adv.s + 1 = Arenas
Pass(r, inner) == [r EXCEPT !.pc = "count", !.s = 0, !.count = 0, !.inner = inner]

A0(t) ==
    /\ Holds(t, "A0")
    /\ LET own == shards_[adv.s]
           r == [adv EXCEPT !.loaded = IF own.limbo = <<>> THEN @ ELSE @ \cup {adv.s},
                            !.any = @ \/ own.limbo # <<>> \/ own.retired # <<>>]
       IN adv' = CASE ~LastShard -> [r EXCEPT !.s = @ + 1]
                   [] LastShard /\ ~r.any -> Pass(r, FALSE)
                   [] LastShard /\ r.any /\ NextIsFree -> [r EXCEPT !.pc = "A3", !.s = 0]
                   [] LastShard /\ r.any /\ ~NextIsFree -> Pass(r, TRUE)
    /\ UNCHANGED <<ring, oldest_, scan_start_, deal_, reclaiming_, pool, work, bounds>>

A3(t) ==
    /\ Holds(t, "A3")
    /\ LET own == shards_[adv.s]
           takes == adv.s \in adv.loaded
       IN /\ ring_' = [ring_ EXCEPT ![current_].bag[adv.s] =
                [retired |-> own.retired, limbo |-> IF takes THEN own.limbo ELSE <<>>]]
          /\ shards_' = [shards_ EXCEPT ![adv.s].retired = <<>>,
                                        ![adv.s].limbo = IF takes THEN <<>> ELSE @]
    /\ adv' = IF LastShard THEN [adv EXCEPT !.pc = "A5"] ELSE [adv EXCEPT !.s = @ + 1]
    /\ UNCHANGED <<rows_, current_, oldest_, scan_start_, deal_, reclaiming_,
                   chained, node_count_, steal_hint_, work, bounds>>

(* A4 and A5.                                                              *)
A5(t) ==
    /\ Holds(t, "A5")
    /\ ring_' = [ring_ EXCEPT ![current_].state = "SEALED",
                              ![next_slot(current_)].state = "CURRENT",
                              ![next_slot(current_)].gen = ring_[current_].gen + 1]
    /\ current_' = next_slot(current_)
    /\ adv' = Pass(adv, FALSE)
    /\ UNCHANGED <<rows_, oldest_, scan_start_, deal_, reclaiming_, pool, work, bounds>>

(* free_oldest(): the counts of the oldest block from scan_start_ on,      *)
(* wrapping; the bag dealt to the free lists; the block recycled.          *)
Sealed == ring_[oldest_].state = "SEALED"
Scanned == (scan_start_ + adv.s) % Arenas

(* The pass inside bump() ends with a second look at the next slot.        *)
PassEnds ==
    adv' = CASE ~adv.inner -> [adv EXCEPT !.pc = "exit", !.s = 0]
             [] adv.inner /\ NextIsFree -> [adv EXCEPT !.pc = "A3", !.s = 0, !.inner = FALSE]
             [] adv.inner /\ ~NextIsFree -> [Pass(adv, FALSE) EXCEPT !.full = TRUE]

NothingSealed(t) ==
    /\ Holds(t, "count")
    /\ ~Sealed
    /\ PassEnds
    /\ UNCHANGED <<ring, oldest_, scan_start_, deal_, reclaiming_, pool, work, bounds>>

Pinned(t) ==
    /\ Holds(t, "count")
    /\ Sealed /\ rows_[Scanned][oldest_] # 0
    /\ scan_start_' = Scanned
    /\ PassEnds
    /\ UNCHANGED <<ring, oldest_, deal_, reclaiming_, pool, work, bounds>>

UnpinnedUpTo(t, last) ==
    /\ Holds(t, "count")
    /\ Sealed /\ rows_[Scanned][oldest_] = 0
    /\ adv' = IF last THEN [adv EXCEPT !.pc = "deal", !.s = 0]
                      ELSE [adv EXCEPT !.s = @ + 1]
    /\ UNCHANGED <<ring, oldest_, scan_start_, deal_, reclaiming_, pool, work, bounds>>

\* Mutant: the pass trusts the count it resumes at and reads no other.
UnpinnedByOne(t) == UnpinnedUpTo(t, TRUE)

Unpinned(t) == UnpinnedUpTo(t, LastShard)

(* The next node of the bag, shard by shard, retired nodes before limbo.   *)
Deal(t) ==
    /\ Holds(t, "deal")
    /\ \E a \in ArenaIds :
         LET own == ring_[oldest_].bag[a]
             kind == IF own.retired # <<>> THEN "retired" ELSE "limbo"
         IN /\ own[kind] # <<>>
            /\ \A b \in 0..(a - 1) : ring_[oldest_].bag[b] = NoSublists[b]
            /\ ring_' = [ring_ EXCEPT ![oldest_].bag[a][kind] = Tail(@)]
            /\ shards_' = [shards_ EXCEPT ![deal_].free = <<Head(own[kind])>> \o @]
            /\ Reveal(Head(own[kind]))
    /\ deal_' = (deal_ + 1) % Arenas
    /\ adv' = [adv EXCEPT !.count = @ + 1]
    /\ UNCHANGED <<rows_, current_, oldest_, scan_start_, reclaiming_, chained,
                   node_count_, steal_hint_, hd, act, bounds>>

Freed(t) ==
    /\ Holds(t, "deal")
    /\ ring_[oldest_].bag = NoSublists
    /\ ring_' = [ring_ EXCEPT ![oldest_].state = "EMPTY"]
    /\ oldest_' = next_slot(oldest_)
    /\ scan_start_' = 0
    /\ node_count_' = node_count_ - adv.count
    /\ adv' = IF adv.count # 0 THEN [adv EXCEPT !.pc = "hint"] ELSE Pass(adv, adv.inner)
    /\ UNCHANGED <<rows_, current_, deal_, reclaiming_, shards_, chained,
                   steal_hint_, work, bounds>>

StoreHintWith(t, empty) ==
    /\ Holds(t, "hint")
    /\ steal_hint_' = [stamp |-> steal_hint_.stamp + 1, empty |-> empty]
    /\ adv' = Pass(adv, adv.inner)
    /\ UNCHANGED <<ring, oldest_, scan_start_, deal_, reclaiming_, shards_,
                   chained, node_count_, work, bounds>>

\* Mutant: the stamp moves on and the EMPTY bit is carried over.
StoreHintKeepsEmpty(t) == StoreHintWith(t, steal_hint_.empty)

StoreHint(t) == StoreHintWith(t, FALSE)

(* advance() walks the chains under a handle of its own, unless the ring   *)
(* was full; the guard lowers the flag.                                    *)
Walks(t) == act[t].op = "advance" /\ ~adv.full

WalkBegin(t) ==
    /\ Holds(t, "exit") /\ Walks(t)
    /\ Go(t, "join")
    /\ UNCHANGED <<ring, holder, pool, hd, meets, bounds>>

WalkEnd(t) ==
    /\ At(t, "walk")
    /\ DropCount(hd[t])
    /\ hd' = [hd EXCEPT ![t] = NoHandle]
    /\ meets' = [meets EXCEPT ![t] = {}]
    /\ adv' = [adv EXCEPT !.pc = "lower"]
    /\ Go(t, "holds")
    /\ UNCHANGED <<ring_, current_, oldest_, scan_start_, deal_, reclaiming_,
                   pool, bounds>>

LowerFlag(t) ==
    /\ Holds(t, "lower") \/ (Holds(t, "exit") /\ ~Walks(t))
    /\ reclaiming_' = FALSE
    /\ adv' = NoAdvance
    /\ Finish(t)
    /\ UNCHANGED <<ring, oldest_, scan_start_, deal_, pool, hd, meets, bounds>>

-----------------------------------------------------------------------------
RingStep(t) ==
    \/ NewHandle(t) \/ Refresh(t) \/ JoinLoad(t) \/ JoinBump(t) \/ JoinVerify(t)
    \/ JoinStale(t) \/ JoinUndo(t) \/ RefreshLeave(t) \/ Leave(t)
    \/ \E u \in Workers : SwapHandles(t, u) \/ MoveHandle(t, u)
    \/ AllocBegin(t) \/ LoadFreeHead(t) \/ LoadLink(t) \/ Pop(t) \/ PopFails(t)
    \/ StealSkip(t) \/ StealScan(t) \/ MarkEmpty(t) \/ AppendSlot(t)
    \/ AppendThrows(t) \/ Credit(t) \/ PublishNode(t) \/ PushLimbo(t)
    \/ PushRetired(t) \/ \E op \in {"reclaim", "advance"} : Reclaim(t, op)
    \/ Trigger(t) \/ TriggerSkipped(t)
    \/ A0(t) \/ A3(t) \/ A5(t) \/ NothingSealed(t) \/ Pinned(t) \/ Unpinned(t)
    \/ Deal(t) \/ Freed(t) \/ StoreHint(t) \/ WalkBegin(t) \/ WalkRetires(t) \/ WalkEnd(t)
    \/ LowerFlag(t)

RingNext == \E t \in Workers : RingStep(t)
RingSpec == RingInit /\ [][RingNext]_ringVars

-----------------------------------------------------------------------------
(* The memberships on the count of shard a for slot g: the handles that    *)
(* recorded it, the old one a refresh has yet to drop, and join attempts.  *)
Memberships(a, g) ==
    LET m == [block |-> g, count |-> a]
    IN Cardinality({t \in Workers : hd[t] = m})
       + Cardinality({t \in Workers : act[t].old = m})
       + Cardinality({t \in Workers : /\ At(t, "verify") \/ At(t, "undo")
                                      /\ act[t].target = g /\ my_shard(t) = a})

(* The nodes of a shard's lists and of its part of the bags, with those in *)
(* chains or in a call's hands: how many, and which.                       *)
Listed(a) ==
    Len(shards_[a].retired) + Len(shards_[a].limbo) + Len(shards_[a].free)
    + FoldSet(LAMBDA g, n : n + Len(ring_[g].bag[a].retired) + Len(ring_[g].bag[a].limbo),
              0, RingSlots)
Taken == {act[t].node : t \in Workers} \ {Nil}
Placed ==
    Cardinality(chained) + Cardinality({t \in Workers : act[t].node # Nil})
    + FoldSet(LAMBDA a, n : n + Listed(a), 0, ArenaIds)
EverySlot == chained \cup Taken \cup Waiting \cup FreeNodes
             \cup UNION {BagNodes(g) : g \in RingSlots}

(* Handles and counts agree per shard, whatever thread a handle was moved  *)
(* to and whatever thread left it; the slots behind the current one are    *)
(* sealed up to oldest_, and only a sealed or closing slot has a bag.      *)
CountsPerShard ==
    /\ \A a \in ArenaIds, g \in RingSlots : rows_[a][g] = Memberships(a, g)
    /\ \A g \in RingSlots :
         LET behind == (current_ + Generations - g) % Generations
             sealed == (current_ + Generations - oldest_) % Generations
         IN /\ ring_[g].state = CASE behind = 0 -> "CURRENT"
                                  [] behind \in 1..sealed -> "SEALED"
                                  [] OTHER -> "EMPTY"
            /\ ring_[g].state = "SEALED" => ring_[g].gen + behind = ring_[current_].gen
            /\ ring_[g].state # "SEALED" /\ adv.pc \notin {"A3", "A5"} => BagNodes(g) = {}

Occupied == SlotCount - Cardinality(FreeNodes)
Openers == Cardinality({t \in Workers : At(t, "credit")})

(* The comment on node_count_: it never goes below zero, and it lags the   *)
(* occupied slots only by the batches whose opener has not added them yet  *)
(* (at rest, C5 of the accounting sweep).  Every slot is in one place.     *)
NodesCounted ==
    /\ node_count_ >= 0
    /\ node_count_ + BatchSize * Openers >= Occupied
    /\ EverySlot = 1..SlotCount /\ Placed = SlotCount

(* THE HINT: once the stamp of a free pass is stored, EMPTY means that no  *)
(* shard has a free node.                                                  *)
Freeing == adv.pc \in {"deal", "hint"} /\ adv.count > 0
HintRight == steal_hint_.empty /\ ~Freeing => FreeNodes = {}

(* What the shards count is right at every step: a handle is on the count  *)
(* it recorded, node_count_ covers the occupied slots and never wraps, and *)
(* a steal hint that says EMPTY hides no free node, however scans, pops,   *)
(* free passes and moves of handles interleave.                            *)
ShardAccounting == CountsPerShard /\ NodesCounted /\ HintRight

(* A pop whose CAS would succeed has read the true successor: the counter  *)
(* bits of free_head, which wrap, are not what keeps a stale head out.     *)
PopReadsSuccessor ==
    \A t \in Workers : At(t, "cas") /\ HeadUnchanged(t) => act[t].succ = Below(act[t].head)

(* THE HANDLE INVARIANT: a node a session may come upon is not freed while *)
(* the session lasts, whatever shard's count holds it and whatever thread  *)
(* the handle is moved to; nor is it freed and popped under a pop, so the  *)
(* pop's successor is the true one.                                        *)
SessionsPin ==
    /\ []PopReadsSuccessor
    /\ [][\A t \in Workers : Alive(t) /\ hd'[t] = hd[t]
            => (FreeNodes' \ FreeNodes) \cap meets[t] = {}]_ringVars
=============================================================================
