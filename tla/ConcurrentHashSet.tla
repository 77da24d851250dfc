--------------------------- MODULE ConcurrentHashSet --------------------------
(***************************************************************************)
(* ConcurrentResizableHashSet (ConcurrentHash/concurrent_hash_set.h):      *)
(* buckets that double, are populated lazily by splitting their parent,    *)
(* tombstones and frozen links, arena shards with free and limbo lists,    *)
(* quiescent reclamation.                                                  *)
(*                                                                         *)
(* A seal level is written as the table size it is the logarithm of.       *)
(* Weak memory: with StaleSizes a load of table_size_ may return any size  *)
(* from the thread's view on; views travel through released heads and      *)
(* links.  Heads and links themselves are read at their newest value.      *)
(***************************************************************************)
EXTENDS Integers, Sequences, FiniteSets, SequencesExt

CONSTANTS Threads, Keys, Nodes,
          Hash,         \* Keys -> Nat
          Shards,       \* the arena shards, 0 .. a power of two - 1
          InitialSize, MaxSize,   \* the last is a bound: later doublings throw
          Plans,        \* how the set may be used, see below
          EMPTY, UNINITIALIZED, NoNode

ASSUME SentinelsAssumption ==
    /\ EMPTY # UNINITIALIZED
    /\ {EMPTY, UNINITIALIZED, NoNode} \cap Nodes = {}
ASSUME HashAssumption == Hash \in [Keys -> Nat]
ASSUME SizesAssumption == {InitialSize, MaxSize} \subseteq {2^i : i \in 0..16}
ASSUME PlansAssumption ==
    Plans \subseteq [calls : [Threads -> SUBSET {"contains", "insert", "erase"}],
                     maxCalls : [Threads -> Nat], maxReclaims : Nat,
                     keys : SUBSET Keys, shardOf : [Threads -> Shards],
                     batch : Nat \ {0}, stale : BOOLEAN]

VARIABLES plan,         \* the plan of this behaviour, which never changes
          table_size_, buckets_, link, value,
          nodes,        \* per shard: the nodes appended to its deque
          free_head,    \* per shard: top of the free list, pops since reclaim()
          limbo_head,   \* per shard: top of the limbo list
          node_count_, resize_lock_,
          sizeOfBucket, \* per bucket: the size view its head releases
          sizeOfLink,   \* per node: the size view its link releases
          mem,          \* the keys whose insertion or removal was decided
          reclaims,
          th            \* per thread: pc and locals

shared == <<table_size_, buckets_, link, value, nodes, free_head, limbo_head,
            node_count_, resize_lock_, sizeOfBucket, sizeOfLink, mem, reclaims, plan>>
vars == <<shared, th>>

Calls == plan.calls              \* the calls each thread makes
MaxCalls == plan.maxCalls        \* bound: calls per thread
MaxReclaims == plan.maxReclaims  \* bound: calls of reclaim()
ShardOf == plan.shardOf
Batch == plan.batch              \* 256 in the code: allocations counted at a time
StaleSizes == plan.stale

Sizes == {s \in 1..MaxSize : \E i \in 0..16 : s = InitialSize * 2^i}
Buckets == {Hash[k] % s : k \in Keys, s \in Sizes}
Larger(a, b) == IF a > b THEN a ELSE b

Head_(p, l) == [ptr |-> p, level |-> l]
Link(p) == [ptr |-> p, mark |-> FALSE, frozen |-> FALSE]

(* The highest power of two not above j, and the bucket j splits from.     *)
bit_floor == [j \in Buckets |-> IF j = 0 THEN 0 ELSE
                 CHOOSE s \in {2^i : i \in 0..16} : s <= j /\ j < 2 * s]
Parent(j) == j - bit_floor[j]

Init ==
    /\ plan \in Plans
    /\ table_size_ = InitialSize
    /\ buckets_ = [j \in Buckets |-> Head_(EMPTY, 0)]
    /\ link = [n \in Nodes |-> Link(EMPTY)]
    /\ value = [n \in Nodes |-> CHOOSE k \in Keys : TRUE]
    /\ nodes = [s \in Shards |-> {}]
    /\ free_head = [s \in Shards |-> [ptr |-> EMPTY, pops |-> 0]]
    /\ limbo_head = [s \in Shards |-> EMPTY]
    /\ node_count_ = 0
    /\ resize_lock_ = FALSE
    /\ sizeOfBucket = [j \in Buckets |-> InitialSize]
    /\ sizeOfLink = [n \in Nodes |-> InitialSize]
    /\ mem = {}
    /\ reclaims = 0
    /\ th = [t \in Threads |->
              [pc |-> "idle", op |-> "none", key |-> CHOOSE k \in Keys : TRUE,
               ts |-> 0, head |-> Head_(EMPTY, 0), curr |-> EMPTY, stale |-> FALSE,
               new |-> NoNode, node |-> NoNode, path |-> <<>>, sub |-> <<>>, snap |-> EMPTY,
               free |-> [ptr |-> EMPTY, pops |-> 0], succ |-> EMPTY,
               was |-> {}, ret |-> "none", calls |-> 0, view |-> InitialSize]]

Bucket(t) == Hash[th[t].key] % th[t].ts
Mine(t) == ShardOf[t]
Splitting(t) == th[t].path # <<>>
Pending(t) == IF th[t].new = NoNode THEN <<>> ELSE <<th[t].new>>

(* A load of table_size_ by t.                                             *)
SizeLoads(t) == IF StaleSizes THEN {s \in Sizes : th[t].view <= s /\ s <= table_size_}
                ELSE {table_size_}

Saw(r, v) == [r EXCEPT !.view = Larger(@, v)]
At(r, p) == [r EXCEPT !.pc = p]

(* The end of a call; `was' stays, for what the answer is worth.           *)
Returned(r, a) ==
    [r EXCEPT !.pc = "idle", !.ret = a, !.ts = 0, !.head = Head_(EMPTY, 0),
              !.curr = EMPTY, !.stale = FALSE, !.new = NoNode, !.node = NoNode,
              !.path = <<>>, !.sub = <<>>, !.snap = EMPTY, !.free = [ptr |-> EMPTY, pops |-> 0],
              !.succ = EMPTY]

(* push_limbo() of private nodes, linked first to last.                    *)
PushLimbo(t, chain) ==
    /\ link' = [n \in Nodes |->
                  IF n \notin ToSet(chain) THEN link[n]
                  ELSE LET i == CHOOSE x \in 1..Len(chain) : chain[x] = n IN
                       Link(IF i = Len(chain) THEN limbo_head[Mine(t)] ELSE chain[i + 1])]
    /\ limbo_head' = IF chain = <<>> THEN limbo_head
                     ELSE [limbo_head EXCEPT ![Mine(t)] = chain[1]]

-----------------------------------------------------------------------------
(* The calls.                                                              *)

Call(t) ==
    /\ th[t].pc = "idle"
    /\ th[t].calls < MaxCalls[t]
    /\ \E o \in Calls[t], k \in plan.keys :
        th' = [th EXCEPT ![t] = [@ EXCEPT !.pc = "size", !.op = o, !.key = k,
                                          !.was = {k \in mem}, !.ret = "none",
                                          !.calls = @ + 1]]
    /\ UNCHANGED shared

(* table_size_.load(acquire).                                              *)
LoadSize(t) ==
    /\ th[t].pc = "size"
    /\ \E s \in SizeLoads(t) :
        th' = [th EXCEPT ![t] = [Saw(@, s) EXCEPT !.pc = "head", !.ts = s, !.stale = FALSE]]
    /\ UNCHANGED shared

\* Mutant: insert() does not compare the seal level with its table size.
HeadLoadedUnchecked(r, h) == [r EXCEPT !.pc = "walk", !.head = h, !.curr = h.ptr]

(* What the loaded head leads to: a split, a walk, or, in insert(), a      *)
(* retry in the geometry of the seal.                                      *)
HeadLoaded(r, h) ==
    IF r.op = "insert" /\ h.level > r.ts THEN At(r, "size")
    ELSE [r EXCEPT !.pc = "walk", !.head = h, !.curr = h.ptr]

LoadHead(t) ==
    /\ th[t].pc = "head"
    /\ LET j == Bucket(t)
           h == buckets_[j]
           r == Saw(th[t], sizeOfBucket[j])
       IN th' = [th EXCEPT ![t] =
                   IF h.ptr = UNINITIALIZED THEN [r EXCEPT !.pc = "parent", !.path = <<j>>]
                   ELSE HeadLoaded(r, h)]
    /\ UNCHANGED shared

(* One step of the walk: a node that is not an unmarked node of the key.   *)
Passes(n, k) == value[n] # k \/ link[n].mark

WalkOn(t) ==
    /\ th[t].pc = "walk"
    /\ th[t].curr # EMPTY
    /\ LET n == th[t].curr IN
       /\ Passes(n, th[t].key)
       /\ th' = [th EXCEPT ![t] = [Saw(@, sizeOfLink[n]) EXCEPT !.curr = link[n].ptr]]
    /\ UNCHANGED shared

(* contains() and insert() find the key.                                   *)
Found(t) ==
    /\ th[t].pc = "walk"
    /\ th[t].curr # EMPTY
    /\ ~Passes(th[t].curr, th[t].key)
    /\ LET r == Saw(th[t], sizeOfLink[th[t].curr]) IN
       \/ /\ th[t].op = "contains"
          /\ th' = [th EXCEPT ![t] = Returned(r, "true")]
          /\ UNCHANGED <<link, limbo_head>>
       \/ /\ th[t].op = "insert"
          /\ th' = [th EXCEPT ![t] = Returned(r, "false")]
          /\ PushLimbo(t, Pending(t))
       \/ /\ th[t].op = "erase"
          /\ th' = [th EXCEPT ![t] = IF link[th[t].curr].frozen
                                    THEN [r EXCEPT !.pc = "again", !.stale = TRUE]
                                    ELSE At(r, "mark")]
          /\ UNCHANGED <<link, limbo_head>>
    /\ UNCHANGED <<table_size_, buckets_, value, nodes, free_head, node_count_,
                   resize_lock_, sizeOfBucket, sizeOfLink, mem, reclaims, plan>>

(* The end of the chain.                                                   *)
NotFound(t) ==
    /\ th[t].pc = "walk"
    /\ th[t].curr = EMPTY
    /\ \/ /\ th[t].op # "insert"
          /\ th' = [th EXCEPT ![t].pc = "again"]
          /\ UNCHANGED link
       \/ /\ th[t].op = "insert" /\ th[t].new = NoNode
          /\ th' = [th EXCEPT ![t].pc = "alloc"]
          /\ UNCHANGED link
       \/ /\ th[t].op = "insert" /\ th[t].new # NoNode
          /\ th' = [th EXCEPT ![t].pc = "publish"]
          /\ link' = [link EXCEPT ![th[t].new] = Link(th[t].head.ptr)]
    /\ UNCHANGED <<table_size_, buckets_, value, nodes, free_head, limbo_head, node_count_,
                   resize_lock_, sizeOfBucket, sizeOfLink, mem, reclaims, plan>>

\* Mutant: a miss is final whatever the size is now.
AgainNot(t) ==
    /\ th[t].pc = "again"
    /\ th' = [th EXCEPT ![t] = Returned(th[t], "false")]
    /\ UNCHANGED shared

(* contains() and erase() read table_size_ again after a miss.             *)
Again(t) ==
    /\ th[t].pc = "again"
    /\ \E s \in SizeLoads(t) :
        LET r == Saw(th[t], s) IN
        th' = [th EXCEPT ![t] = IF s = th[t].ts /\ ~th[t].stale THEN Returned(r, "false")
                               ELSE [r EXCEPT !.pc = "head", !.ts = s, !.stale = FALSE]]
    /\ UNCHANGED shared

(* A membership change, as the running calls on the key witness it.        *)
Witnessed(t, r, present) ==
    [u \in Threads |->
        IF u = t THEN r
        ELSE IF th[u].pc # "idle" /\ th[u].key = r.key
             THEN [th[u] EXCEPT !.was = @ \cup {present}] ELSE th[u]]

(* erase()'s CAS of the live link: the deletion.                           *)
Mark(t) ==
    /\ th[t].pc = "mark"
    /\ LET n == th[t].curr IN
       /\ ~link[n].mark /\ ~link[n].frozen
       /\ link' = [link EXCEPT ![n].mark = TRUE]
       /\ sizeOfLink' = [sizeOfLink EXCEPT ![n] = Larger(@, th[t].view)]
       /\ mem' = mem \ {th[t].key}
       /\ th' = Witnessed(t, Returned(th[t], "true"), FALSE)
    /\ UNCHANGED <<table_size_, buckets_, value, nodes, free_head, limbo_head,
                   node_count_, resize_lock_, sizeOfBucket, reclaims, plan>>

MarkFails(t) ==
    /\ th[t].pc = "mark"
    /\ LET n == th[t].curr IN
       /\ link[n].mark \/ link[n].frozen
       /\ th' = [th EXCEPT ![t] = [Saw(@, sizeOfLink[n]) EXCEPT
                                   !.pc = "again", !.stale = link[n].frozen]]
    /\ UNCHANGED shared

-----------------------------------------------------------------------------
(* alloc_node(), for insert() and for split_bucket().                      *)

Val(t) == IF Splitting(t) THEN value[th[t].snap] ELSE th[t].key
NextOfNew(t) ==
    IF ~Splitting(t) THEN th[t].head.ptr
    ELSE IF th[t].sub = <<>> THEN EMPTY ELSE th[t].sub[1]

(* The node is handed to the caller: insert() publishes it, split_bucket() *)
(* prepends it to its subchain and walks on.                               *)
Allocated(t, n) ==
    LET r == [th[t] EXCEPT !.free = [ptr |-> EMPTY, pops |-> 0], !.succ = EMPTY,
                           !.node = NoNode] IN
    IF Splitting(t)
    THEN [r EXCEPT !.pc = "copy", !.sub = <<n>> \o @, !.snap = link[th[t].snap].ptr]
    ELSE [r EXCEPT !.pc = "publish", !.new = n]

(* An exception leaves split_bucket() and insert(): the private nodes of   *)
(* both go to the limbo list.                                              *)
Thrown(t, popped) ==
    /\ PushLimbo(t, Pending(t) \o th[t].sub \o popped)
    /\ th' = [th EXCEPT ![t] = Returned(th[t], "throw")]

(* The free list's head, and its top node's link.                          *)
AllocLoad(t) ==
    /\ th[t].pc = "alloc"
    /\ free_head[Mine(t)].ptr # EMPTY
    /\ th' = [th EXCEPT ![t].pc = "pop", ![t].free = free_head[Mine(t)],
                        ![t].succ = link[free_head[Mine(t)].ptr].ptr]
    /\ UNCHANGED shared

\* Mutant: the head is replaced without comparing it.
PopBlind(t) == th[t].pc = "pop" /\ th[t].free.ptr # EMPTY

(* The popping CAS finds the head it read.                                 *)
Popped(t) == th[t].pc = "pop" /\ free_head[Mine(t)] = th[t].free

(* The popped node gets the value and the link; if the assignment throws,  *)
(* it goes to the limbo list.                                              *)
Assign(t, n) ==
    \/ /\ value' = [value EXCEPT ![n] = Val(t)]
       /\ link' = [link EXCEPT ![n] = Link(NextOfNew(t))]
       /\ th' = [th EXCEPT ![t] = Allocated(t, n)]
       /\ UNCHANGED limbo_head
    \/ /\ Thrown(t, <<n>>)
       /\ UNCHANGED value

(* Every Batch-th pop, and every Batch-th append, opens a batch: its node  *)
(* is in use before node_count_ has it.                                    *)
Opens(i) == i % Batch = 0
Credits(t, n) == th' = [th EXCEPT ![t].pc = "credit", ![t].node = n]

Pop(t) ==
    /\ Popped(t)
    /\ free_head' = [free_head EXCEPT ![Mine(t)] =
                      [ptr |-> th[t].succ, pops |-> (th[t].free.pops + 1) % (2 * Batch)]]
    /\ \/ /\ Opens(th[t].free.pops)
          /\ Credits(t, th[t].free.ptr)
          /\ UNCHANGED <<value, link, limbo_head>>
       \/ /\ ~Opens(th[t].free.pops)
          /\ Assign(t, th[t].free.ptr)
    /\ UNCHANGED <<table_size_, buckets_, nodes, node_count_, resize_lock_, sizeOfBucket,
                   sizeOfLink, mem, reclaims, plan>>

PopFails(t) ==
    /\ th[t].pc = "pop"
    /\ ~Popped(t)
    /\ th' = [th EXCEPT ![t].pc = "alloc", ![t].succ = EMPTY,
                        ![t].free = [ptr |-> EMPTY, pops |-> 0]]
    /\ UNCHANGED shared

(* The free list is empty: emplace_back(), which may throw, for lack of    *)
(* memory or from T's constructor, and then leaves the deque as it was.    *)
Append_(t) ==
    /\ th[t].pc = "alloc"
    /\ free_head[Mine(t)].ptr = EMPTY
    /\ LET unused == Nodes \ UNION {nodes[s] : s \in Shards} IN
       \/ /\ unused # {}
          /\ LET n == CHOOSE m \in unused : TRUE IN
             /\ nodes' = [nodes EXCEPT ![Mine(t)] = @ \cup {n}]
             /\ value' = [value EXCEPT ![n] = Val(t)]
             /\ link' = [link EXCEPT ![n] = Link(NextOfNew(t))]
             /\ IF Opens(Cardinality(nodes[Mine(t)])) THEN Credits(t, n)
                ELSE th' = [th EXCEPT ![t] = Allocated(t, n)]
             /\ UNCHANGED limbo_head
       \/ /\ Thrown(t, <<>>)
          /\ UNCHANGED <<nodes, value>>
    /\ UNCHANGED <<table_size_, buckets_, free_head, node_count_, resize_lock_, sizeOfBucket,
                   sizeOfLink, mem, reclaims, plan>>

(* fetch_add of the batch by the call that opened it; a popped node is     *)
(* assigned after it, an appended one has its value.                       *)
CountBatch(t) ==
    /\ th[t].pc = "credit"
    /\ node_count_' = node_count_ + Batch
    /\ \/ /\ th[t].free.ptr # EMPTY
          /\ Assign(t, th[t].node)
       \/ /\ th[t].free.ptr = EMPTY
          /\ th' = [th EXCEPT ![t] = Allocated(t, th[t].node)]
          /\ UNCHANGED <<value, link, limbo_head>>
    /\ UNCHANGED <<table_size_, buckets_, nodes, free_head, resize_lock_, sizeOfBucket,
                   sizeOfLink, mem, reclaims, plan>>

-----------------------------------------------------------------------------
(* insert(): publication and doubling.                                     *)

(* The head is still the whole word that was validated.                    *)
Published(t) == buckets_[Bucket(t)] = th[t].head

Publish(t) ==
    /\ th[t].pc = "publish"
    /\ Published(t)
    /\ LET j == Bucket(t) IN
       /\ buckets_' = [buckets_ EXCEPT ![j].ptr = th[t].new]
       /\ sizeOfBucket' = [sizeOfBucket EXCEPT ![j] = Larger(@, th[t].view)]
    /\ sizeOfLink' = [sizeOfLink EXCEPT ![th[t].new] = InitialSize]
    /\ mem' = mem \cup {th[t].key}
    /\ th' = Witnessed(t, [th[t] EXCEPT !.pc = "count", !.new = NoNode,
                                        !.head = Head_(EMPTY, 0)], TRUE)
    /\ UNCHANGED <<table_size_, link, value, nodes, free_head, limbo_head, node_count_,
                   resize_lock_, reclaims, plan>>

PublishFails(t) ==
    /\ th[t].pc = "publish"
    /\ ~Published(t)
    /\ th' = [th EXCEPT ![t].pc = "size", ![t].head = Head_(EMPTY, 0)]
    /\ UNCHANGED shared

(* The unlocked test.                                                      *)
TestCount(t) ==
    /\ th[t].pc = "count"
    /\ th' = [th EXCEPT ![t] = IF node_count_ > th[t].ts * 2 THEN At(@, "lock")
                              ELSE Returned(@, "true")]
    /\ UNCHANGED shared

LockResize(t) ==
    /\ th[t].pc = "lock"
    /\ ~resize_lock_
    /\ resize_lock_' = TRUE
    /\ th' = [th EXCEPT ![t].pc = "double"]
    /\ UNCHANGED <<table_size_, buckets_, link, value, nodes, free_head, limbo_head,
                   node_count_, sizeOfBucket, sizeOfLink, mem, reclaims, plan>>

(* The new buckets are marked before the size is released.                 *)
NewBuckets(ts) ==
    [j \in Buckets |-> IF ts <= j /\ j < 2 * ts THEN Head_(UNINITIALIZED, 0) ELSE buckets_[j]]

(* The second check, the doubling (skipped on bad_alloc) and the unlock.   *)
Double(t) ==
    /\ th[t].pc = "double"
    /\ \/ /\ table_size_ = th[t].ts
          /\ 2 * th[t].ts <= MaxSize
          /\ buckets_' = NewBuckets(th[t].ts)
          /\ table_size_' = 2 * th[t].ts
          /\ th' = [th EXCEPT ![t] = Returned(Saw(@, 2 * th[t].ts), "true")]
       \/ /\ table_size_ # th[t].ts
          /\ th' = [th EXCEPT ![t] = Returned(Saw(@, table_size_), "true")]
          /\ UNCHANGED <<table_size_, buckets_>>
       \/ /\ table_size_ = th[t].ts
          /\ th' = [th EXCEPT ![t] = Returned(@, "true")]
          /\ UNCHANGED <<table_size_, buckets_>>
    /\ resize_lock_' = FALSE
    /\ UNCHANGED <<link, value, nodes, free_head, limbo_head, node_count_,
                   sizeOfBucket, sizeOfLink, mem, reclaims, plan>>

-----------------------------------------------------------------------------
(* split_bucket().                                                         *)

Child(t) == Last(th[t].path)

(* The parent's head; an UNINITIALIZED parent is split first.              *)
LoadParent(t) ==
    /\ th[t].pc = "parent"
    /\ LET p == Parent(Child(t))
           r == Saw(th[t], sizeOfBucket[p])
       IN th' = [th EXCEPT ![t] =
                   IF buckets_[p].ptr = UNINITIALIZED THEN [r EXCEPT !.path = Append(@, p)]
                   ELSE At(r, "seal")]
    /\ UNCHANGED shared

\* Mutant: the seal is relaxed, and releases no size.
SealRelaxed(t) ==
    /\ th[t].pc = "seal"
    /\ LET p == Parent(Child(t))
           r == Saw(th[t], sizeOfBucket[p])
       IN /\ buckets_' = [buckets_ EXCEPT ![p].level = Larger(@, 2 * bit_floor[Child(t)])]
          /\ th' = [th EXCEPT ![t] = [r EXCEPT !.pc = "copy", !.snap = buckets_[p].ptr]]
    /\ UNCHANGED <<table_size_, link, value, nodes, free_head, limbo_head, node_count_,
                   resize_lock_, sizeOfBucket, sizeOfLink, mem, reclaims, plan>>

(* Step 1: the parent is sealed and the sealed head is the snapshot.       *)
Seal(t) ==
    /\ th[t].pc = "seal"
    /\ LET p == Parent(Child(t))
           level == 2 * bit_floor[Child(t)]
           r == Saw(th[t], sizeOfBucket[p])
       IN /\ buckets_' = [buckets_ EXCEPT ![p].level = Larger(@, level)]
          /\ sizeOfBucket' = IF buckets_[p].level < level
                             THEN [sizeOfBucket EXCEPT ![p] = Larger(@, th[t].view)]
                             ELSE sizeOfBucket
          /\ th' = [th EXCEPT ![t] = [r EXCEPT !.pc = "copy", !.snap = buckets_[p].ptr]]
    /\ UNCHANGED <<table_size_, link, value, nodes, free_head, limbo_head, node_count_,
                   resize_lock_, sizeOfLink, mem, reclaims, plan>>

Moves(n, j) == Hash[value[n]] % (2 * bit_floor[j]) = j

(* Step 2: a node that is marked or stays is passed.                       *)
SplitPass(t) ==
    /\ th[t].pc = "copy"
    /\ th[t].snap # EMPTY
    /\ LET n == th[t].snap IN
       /\ link[n].mark \/ ~Moves(n, Child(t))
       /\ th' = [th EXCEPT ![t] = [Saw(@, sizeOfLink[n]) EXCEPT !.snap = link[n].ptr]]
    /\ UNCHANGED shared

(* One that moves is frozen, then copied.  Its link is decided: the CAS    *)
(* that lost to an eraser is the pass above.                               *)
Freeze(t) ==
    /\ th[t].pc = "copy"
    /\ th[t].snap # EMPTY
    /\ LET n == th[t].snap IN
       /\ ~link[n].mark /\ Moves(n, Child(t))
       /\ link' = [link EXCEPT ![n].frozen = TRUE]
       /\ sizeOfLink' = IF link[n].frozen THEN sizeOfLink
                        ELSE [sizeOfLink EXCEPT ![n] = Larger(@, th[t].view)]
       /\ th' = [th EXCEPT ![t] = [Saw(@, sizeOfLink[n]) EXCEPT !.pc = "alloc"]]
    /\ UNCHANGED <<table_size_, buckets_, value, nodes, free_head, limbo_head,
                   node_count_, resize_lock_, sizeOfBucket, mem, reclaims, plan>>

(* The callers go on: insert() from the start, the others from the bucket. *)
SplitDone(r) ==
    LET up == Front(r.path) IN
    [r EXCEPT !.path = up, !.sub = <<>>, !.snap = EMPTY,
              !.pc = IF up # <<>> THEN "parent" ELSE IF r.op = "insert" THEN "size" ELSE "head"]

(* Step 3: the subchain is published, or goes to the limbo list.           *)
PublishSplit(t) ==
    /\ th[t].pc = "copy"
    /\ th[t].snap = EMPTY
    /\ LET j == Child(t)
           sub == th[t].sub
       IN \/ /\ buckets_[j].ptr = UNINITIALIZED
             /\ buckets_' = [buckets_ EXCEPT ![j] = Head_(IF sub = <<>> THEN EMPTY ELSE sub[1], 0)]
             /\ sizeOfBucket' = [sizeOfBucket EXCEPT ![j] = th[t].view]
             /\ sizeOfLink' = [n \in Nodes |-> IF n \in ToSet(sub) THEN InitialSize ELSE sizeOfLink[n]]
             /\ UNCHANGED <<link, limbo_head>>
          \/ /\ buckets_[j].ptr # UNINITIALIZED
             /\ PushLimbo(t, sub)
             /\ UNCHANGED <<buckets_, sizeOfBucket, sizeOfLink>>
    /\ th' = [th EXCEPT ![t] = SplitDone(@)]
    /\ UNCHANGED <<table_size_, value, nodes, free_head, node_count_, resize_lock_, mem, reclaims, plan>>

-----------------------------------------------------------------------------
(* The nodes linked from p, in order; a cycle would stop at Nodes' size.   *)
ChainFrom(p, l) ==
    LET walk[i \in 0..Cardinality(Nodes)] ==
            IF i = 0 THEN [seq |-> <<>>, at |-> p]
            ELSE LET w == walk[i - 1] IN
                 IF w.at \in Nodes
                 THEN [seq |-> Append(w.seq, w.at), at |-> l[w.at].ptr]
                 ELSE w
    IN  walk[Cardinality(Nodes)].seq
Chain(j) == ChainFrom(buckets_[j].ptr, link)

(* The bucket the key k leaves j for, if it ever does: j with the lowest   *)
(* bit of k's hash above j's own.                                          *)
NextChild ==
    [k \in Keys, j \in Buckets |->
        LET own == IF j = 0 THEN 1 ELSE 2 * bit_floor[j]
            higher == {2^i : i \in 0..16}
                      \cap {b \in own..(2 * MaxSize) : (Hash[k] \div b) % 2 = 1}
        IN  IF higher = {} THEN MaxSize ELSE j + CHOOSE b \in higher : \A c \in higher : b <= c]

is_dead(n, j) ==
    \/ link[n].mark
    \/ LET c == NextChild[value[n], j] IN
       c < table_size_ /\ buckets_[c].ptr # UNINITIALIZED

Published_ == {j \in Buckets : j < table_size_ /\ buckets_[j].ptr # UNINITIALIZED}
ShardSeq == SetToSortSeq(Shards, LAMBDA a, b : a < b)
AllBuckets == SetToSortSeq(Buckets, LAMBDA a, b : a < b)
BucketSeq == SelectSeq(AllBuckets, LAMBDA j : j \in Published_)

Kept(j) == SelectSeq(Chain(j), LAMBDA n : ~is_dead(n, j))
Dead(j) == SelectSeq(Chain(j), LAMBDA n : is_dead(n, j))

(* reclaim()'s deal: the nodes of seq pushed round-robin on the free lists *)
(* fs, whose links are l.                                                  *)
Deal(seq, fs, l) ==
    FoldLeft(LAMBDA acc, n :
                 LET s == acc.deal % Cardinality(Shards) IN
                 [deal |-> acc.deal + 1,
                  fs |-> [acc.fs EXCEPT ![s].ptr = n],
                  l |-> [acc.l EXCEPT ![n] = Link(acc.fs[s].ptr)]],
             [deal |-> 0, fs |-> fs, l |-> l], seq)

Flatten(ss) == FoldLeft(LAMBDA acc, s : acc \o s, <<>>, ss)

(* Per shard, the appends left until its next batch.                       *)
Credit ==
    FoldLeft(LAMBDA acc, s : acc + ((Batch - (Cardinality(nodes[s]) % Batch)) % Batch),
             0, ShardSeq)

(* reclaim(), at a quiescent point.                                        *)
Reclaim ==
    /\ \A t \in Threads : th[t].pc = "idle"
    /\ reclaims < MaxReclaims
    /\ LET limbo == Flatten([i \in 1..Len(ShardSeq) |-> ChainFrom(limbo_head[ShardSeq[i]], link)])
           dead == Flatten([i \in 1..Len(BucketSeq) |-> Dead(BucketSeq[i])])
           kept == UNION {ToSet(Kept(j)) : j \in Published_}
           After(j, n) == LET c == Kept(j)
                              i == CHOOSE x \in 1..Len(c) : c[x] = n
                          IN IF i = Len(c) THEN EMPTY ELSE c[i + 1]
           home(n) == CHOOSE j \in Published_ : n \in ToSet(Kept(j))
           relinked == [n \in Nodes |-> IF n \in kept
                                        THEN [link[n] EXCEPT !.ptr = After(home(n), n)]
                                        ELSE link[n]]
           dealt == Deal(limbo \o dead,
                         [s \in Shards |-> [free_head[s] EXCEPT !.pops = 0]], relinked)
       IN /\ buckets_' = [j \in Buckets |->
                            IF j \in Published_
                            THEN [buckets_[j] EXCEPT !.ptr = IF Kept(j) = <<>> THEN EMPTY ELSE Kept(j)[1]]
                            ELSE buckets_[j]]
          /\ link' = dealt.l
          /\ free_head' = dealt.fs
          /\ limbo_head' = [s \in Shards |-> EMPTY]
          /\ node_count_' = Cardinality(kept) + Credit
    /\ reclaims' = reclaims + 1
    /\ th' = [t \in Threads |-> Saw(th[t], table_size_)]
    /\ UNCHANGED <<table_size_, value, nodes, resize_lock_, sizeOfBucket, sizeOfLink, mem, plan>>

-----------------------------------------------------------------------------
Step(t) ==
    \/ LoadSize(t) \/ LoadHead(t) \/ WalkOn(t) \/ Found(t) \/ NotFound(t) \/ Again(t)
    \/ Mark(t) \/ MarkFails(t) \/ AllocLoad(t) \/ Pop(t) \/ PopFails(t) \/ Append_(t)
    \/ CountBatch(t) \/ Publish(t) \/ PublishFails(t) \/ TestCount(t) \/ LockResize(t) \/ Double(t)
    \/ LoadParent(t) \/ Seal(t) \/ SplitPass(t) \/ Freeze(t) \/ PublishSplit(t)

Done ==
    /\ \A t \in Threads : th[t].pc = "idle" /\ th[t].calls = MaxCalls[t]
    /\ reclaims = MaxReclaims
    /\ UNCHANGED vars

Next == (\E t \in Threads : Call(t) \/ Step(t)) \/ Reclaim \/ Done

Spec == Init /\ [][Next]_vars

-----------------------------------------------------------------------------
Pointers == Nodes \cup {EMPTY, UNINITIALIZED}

TypeOK ==
    /\ table_size_ \in Sizes
    /\ buckets_ \in [Buckets -> [ptr : Pointers, level : Sizes \cup {0}]]
    /\ link \in [Nodes -> [ptr : Nodes \cup {EMPTY}, mark : BOOLEAN, frozen : BOOLEAN]]
    /\ value \in [Nodes -> Keys]
    /\ nodes \in [Shards -> SUBSET Nodes]
    /\ free_head \in [Shards -> [ptr : Nodes \cup {EMPTY}, pops : 0..(2 * Batch - 1)]]
    /\ limbo_head \in [Shards -> Nodes \cup {EMPTY}]
    /\ node_count_ \in Nat /\ resize_lock_ \in BOOLEAN
    /\ sizeOfBucket \in [Buckets -> Sizes] /\ sizeOfLink \in [Nodes -> Sizes]
    /\ mem \subseteq Keys
    /\ \A t \in Threads :
        /\ th[t].op \in {"none", "contains", "insert", "erase"}
        /\ th[t].ret \in {"none", "true", "false", "throw"}
        /\ th[t].ts \in Sizes \cup {0} /\ th[t].view \in Sizes
        /\ th[t].curr \in Nodes \cup {EMPTY} /\ th[t].snap \in Nodes \cup {EMPTY}
        /\ {th[t].new, th[t].node} \subseteq Nodes \cup {NoNode}
        /\ ToSet(th[t].path) \subseteq Buckets /\ ToSet(th[t].sub) \subseteq Nodes

(* The deepest published bucket on the path of k, and its nodes of k.      *)
Home(k) ==
    LET path == {Hash[k] % s : s \in {z \in Sizes : z <= table_size_}} \cap Published_
    IN  CHOOSE j \in path : \A i \in path : i <= j
Unmarked(k, j) == {n \in ToSet(Chain(j)) : value[n] = k /\ ~link[n].mark}

(* A key is in the set exactly when its deepest published bucket has an    *)
(* unmarked node of it, and no chain has two: splits, doublings, lost      *)
(* races, exceptions and reclaim() change no membership, no decided        *)
(* insert() or erase() is lost, and one mark deletes the key.              *)
MembersExact ==
    \A k \in Keys :
        /\ k \in mem <=> Unmarked(k, Home(k)) # {}
        /\ \A j \in Published_ : Cardinality(Unmarked(k, j)) <= 1

(* An unmarked node whose key has moved on was frozen, so no erase() can   *)
(* succeed on a node that has a copy; and whoever sees a seal or a frozen  *)
(* link sees the table size it was made for, however stale the reads of    *)
(* table_size_ are: the retry it causes works with a larger table.         *)
SealShowsSize ==
    \A j \in Published_ :
        /\ \A n \in ToSet(Chain(j)) : is_dead(n, j) => link[n].mark \/ link[n].frozen
        /\ buckets_[j].level <= Larger(sizeOfBucket[j], InitialSize)
        /\ \A n \in ToSet(Chain(j)) :
             link[n].frozen => NextChild[value[n], j] < sizeOfLink[n]

(* get_internal_accounting(): the slots its sweep visits, in order.        *)
Visited ==
    Flatten([i \in 1..Len(BucketSeq) |-> Chain(BucketSeq[i])]
         \o [i \in 1..Len(ShardSeq) |-> ChainFrom(free_head[ShardSeq[i]].ptr, link)]
         \o [i \in 1..Len(ShardSeq) |-> ChainFrom(limbo_head[ShardSeq[i]], link)])

(* What the sweep checks, and not at quiescent points only: every slot is  *)
(* in one chain, on one list or private to one call, exactly once; after   *)
(* exceptions, lost splits and reclaim() too.  And node_count_, with the   *)
(* batches that calls have opened and not added yet, never falls below     *)
(* the nodes in use, nor exceeds them by a batch per shard and allocation  *)
(* path.                                                                   *)
Accounting ==
    LET opening == {t \in Threads : th[t].pc = "credit"}
        private == {th[t].node : t \in opening}
                   \cup UNION {ToSet(Pending(t)) \cup ToSet(th[t].sub) : t \in Threads}
        listed == Visited
        slots == UNION {nodes[s] : s \in Shards}
        free == UNION {ToSet(ChainFrom(free_head[s].ptr, link)) : s \in Shards}
        used == Cardinality(slots) - Cardinality(free)
        counted == node_count_ + Batch * Cardinality(opening)
    IN  /\ TypeOK
        /\ IsInjective(listed)
        /\ ToSet(listed) \cap private = {}
        /\ ToSet(listed) \cup private = slots
        /\ used <= counted
        /\ counted <= used + 2 * (Batch - 1) * Cardinality(Shards)

(* Every answer was right at some instant of the call, if table_size_ is   *)
(* read at its newest value; a call that another one merely precedes in    *)
(* time may work with an older size, and answer from an older chain.       *)
AnswersRight ==
    ~StaleSizes => \A t \in Threads :
        /\ th[t].ret = "true" => (th[t].op # "insert") \in th[t].was
        /\ th[t].ret = "false" => (th[t].op = "insert") \in th[t].was

=============================================================================
