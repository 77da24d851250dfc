------------------------------ MODULE HashSetRcu ------------------------------
(***************************************************************************)
(* The chains of ConcurrentResizableHashSetRCU                             *)
(* (ConcurrentHashRCU/concurrent_hash_set_rcu.h): lookups, insertions,     *)
(* erasures, splits with their cleanup pass and advance()'s walk, all of   *)
(* which bypass dead runs with one CAS on a live word and retire them.     *)
(*                                                                         *)
(* The handle of a call is joined when it starts and left when it ends; a  *)
(* retired or limbo node is reused once every handle that was live at the  *)
(* push has left: module ShardedRing shows the ring that does so.         *)
(*                                                                         *)
(* Weak memory: a load of table_size_ may return any size from the         *)
(* thread's view on; views travel through released heads and links.  A     *)
(* call answers for what happens-before it, as the class overview says,    *)
(* and a decision made at a larger view does not.                          *)
(* Heads and links are read at their newest value.  A tagged link and a    *)
(* published child never change back, so a run of dead nodes is recorded   *)
(* in one step, at the time its last word is read.                         *)
(***************************************************************************)
EXTENDS Integers, Sequences, FiniteSets, SequencesExt

CONSTANTS Threads, Keys, Nodes,
          InitialSize, MaxSize,
          Plans,        \* how the set may be used, see below
          EMPTY, UNINITIALIZED, NoNode

ASSUME SentinelsAssumption ==
    /\ EMPTY # UNINITIALIZED
    /\ {EMPTY, UNINITIALIZED, NoNode} \cap Nodes = {}
ASSUME SizesAssumption == {InitialSize, MaxSize} \subseteq {2^i : i \in 0..16}
ASSUME PlansAssumption ==
    Plans \subseteq [keys : SUBSET Keys, hash : [Keys -> Nat],
                     calls : [Threads -> SUBSET {"contains", "insert", "erase", "advance"}],
                     maxCalls : [Threads -> Nat], maxSize : 1..MaxSize,
                     memory : Nat, throws : BOOLEAN]

VARIABLES plan,             \* the plan of this behaviour, which never changes
          table_size_, buckets_, link, value,
          retired, limbo,   \* nodes on the retired and limbo lists or in a bag
          free,             \* nodes on a free list or not yet appended
          sizeOfBucket,     \* per bucket: the size view its head releases
          sizeOfLink,       \* per node: the size view its link releases
          mem,              \* the keys whose insertion or removal was decided
          past,             \* per key and view: the memberships not known to be over
          th                \* per thread: pc and locals

chains == <<table_size_, buckets_, link, value>>
lists == <<retired, limbo, free>>
carriers == <<sizeOfBucket, sizeOfLink>>
set == <<mem, past, plan>>
vars == <<chains, lists, carriers, set, th>>

Hash == plan.hash
Calls == plan.calls         \* the calls each thread makes
MaxCalls == plan.maxCalls   \* bound: calls of each thread
CopyThrows == plan.throws   \* whether copying a value into a node may throw

Sizes == {s \in 1..MaxSize : \E i \in 0..16 : s = InitialSize * 2^i}
Buckets == 0..(MaxSize - 1)
Larger(a, b) == IF a > b THEN a ELSE b

Head_(p, l) == [ptr |-> p, level |-> l]
Link(p) == [ptr |-> p, mark |-> FALSE, frozen |-> FALSE]
Tagged(l) == l.mark \/ l.frozen

(* The highest power of two not above j, and the bucket j splits from.     *)
bit_floor == [j \in Buckets |-> IF j = 0 THEN 0 ELSE
                 CHOOSE s \in {2^i : i \in 0..16} : s <= j /\ j < 2 * s]
Parent(j) == j - bit_floor[j]

AtHead == NoNode   \* a walk's pred when it is the bucket head

NoWalk == [pred |-> AtHead, word |-> Head_(EMPTY, 0), ok |-> FALSE, head |-> Head_(EMPTY, 0)]
WalkState(h) == [pred |-> AtHead, word |-> h, ok |-> TRUE, head |-> h]

Idle == [pc |-> "idle", op |-> "none", key |-> CHOOSE k \in Keys : TRUE, ts |-> 0, j |-> 0,
         site |-> "walk", w |-> NoWalk, curr |-> EMPTY, run |-> {}, succ |-> EMPTY,
         x |-> NoNode, restarted |-> FALSE, stale |-> FALSE, new |-> NoNode,
         path |-> <<>>, sub |-> <<>>, cts |-> 0,
         keeps |-> {}, was |-> {}, ret |-> "none", calls |-> 0, view |-> InitialSize]

Init ==
    /\ plan \in Plans
    /\ table_size_ = InitialSize
    /\ buckets_ = [j \in Buckets |-> Head_(EMPTY, 0)]
    /\ link = [n \in Nodes |-> Link(EMPTY)]
    /\ value = [n \in Nodes |-> CHOOSE k \in Keys : TRUE]
    /\ retired = {} /\ limbo = {} /\ free = Nodes
    /\ sizeOfBucket = [j \in Buckets |-> InitialSize]
    /\ sizeOfLink = [n \in Nodes |-> InitialSize]
    /\ mem = {} /\ past = [k \in Keys |-> [v \in Sizes |-> {FALSE}]]
    /\ th = [t \in Threads |-> Idle]

SizeLoads(t) == {s \in Sizes : th[t].view <= s /\ s <= table_size_}
Saw(r, v) == [r EXCEPT !.view = Larger(@, v)]
Running(t) == th[t].pc # "idle"

(* The end of a call and of its handle's session.                          *)
Returned(r, a) ==
    [Idle EXCEPT !.op = r.op, !.key = r.key, !.was = r.was, !.ret = a,
                 !.calls = r.calls, !.view = r.view]

(* The nodes ns are pushed on a retired or limbo list by t, which goes on  *)
(* as r: every live handle keeps them.                                     *)
Pushed(t, r, ns) ==
    [u \in Threads |->
        LET q == IF u = t THEN r ELSE th[u] IN
        IF q.pc # "idle" THEN [q EXCEPT !.keeps = @ \cup ns] ELSE q]

push_limbo(t, r, ns) ==
    /\ limbo' = limbo \cup ns
    /\ th' = Pushed(t, r, ns)

Pending(t) == {th[t].new} \ {NoNode}

(* What the ring's free pass may move to the free lists.                   *)
Free(n) ==
    /\ n \in retired \cup limbo
    /\ \A t \in Threads : n \notin th[t].keeps
    /\ free' = free \cup {n}
    /\ retired' = retired \ {n}
    /\ limbo' = limbo \ {n}
    /\ link' = [link EXCEPT ![n] = Link(EMPTY)]
    /\ UNCHANGED <<table_size_, buckets_, value, carriers, set, th>>

-----------------------------------------------------------------------------
(* Entering a chain.                                                       *)

(* One advance() at a time walks: the others return contended.             *)
Call(t) ==
    /\ th[t].pc = "idle"
    /\ th[t].calls < MaxCalls[t]
    /\ \E o \in Calls[t], k \in plan.keys :
        /\ o = "advance" => /\ k = Min(plan.keys)
                            /\ \A u \in Threads : Running(u) => th[u].op # "advance"
        /\ th' = [th EXCEPT ![t] =
                   [Idle EXCEPT !.pc = "size", !.op = o, !.key = k, !.was = past[k][th[t].view],
                                !.site = IF o = "advance" THEN "advance" ELSE "walk",
                                !.calls = th[t].calls + 1, !.view = th[t].view]]
    /\ UNCHANGED <<chains, lists, carriers, set>>

(* The bucket of the call in a table of size s.                            *)
Bucket(t, s) == IF th[t].op = "advance" THEN th[t].j ELSE Hash[th[t].key] % s

Entered(r, h) ==
    [r EXCEPT !.pc = "walk", !.w = WalkState(h), !.curr = h.ptr, !.stale = FALSE]

(* advance() goes to its next bucket, or ends its walk.                    *)
NextBucket(r) ==
    IF r.j + 1 < r.ts
    THEN [r EXCEPT !.pc = "enter", !.j = @ + 1, !.w = NoWalk, !.curr = EMPTY]
    ELSE Returned(r, "none")

(* insert() starts over from the table size.                               *)
Reload(r) == [r EXCEPT !.pc = "size", !.ts = 0, !.w = NoWalk, !.curr = EMPTY]

(* What the loaded head leads to: a split, a walk, or, in insert(), a      *)
(* retry in the geometry of the seal; advance() skips a pending bucket.    *)
HeadLoaded(r, h) ==
    IF h.ptr # UNINITIALIZED
    THEN IF r.op = "insert" /\ h.level > r.ts THEN Reload(r) ELSE Entered(r, h)
    ELSE IF r.op = "advance" THEN NextBucket(r)
    ELSE [r EXCEPT !.pc = "parent", !.path = <<r.j>>]

LoadSize(t) ==
    /\ th[t].pc = "size"
    /\ \E s \in SizeLoads(t) :
        th' = [th EXCEPT ![t] = [Saw(@, s) EXCEPT !.pc = "enter", !.ts = s]]
    /\ UNCHANGED <<chains, lists, carriers, set>>

LoadHead(t) ==
    /\ th[t].pc = "enter"
    /\ LET j == Bucket(t, th[t].ts) IN
        th' = [th EXCEPT ![t] =
                HeadLoaded([Saw(@, sizeOfBucket[j]) EXCEPT !.j = j], buckets_[j])]
    /\ UNCHANGED <<chains, lists, carriers, set>>

-----------------------------------------------------------------------------
(* Dead nodes and runs.                                                    *)

(* The bucket the key of hash h leaves j for, if it ever does: j with the  *)
(* lowest bit of h above j's own.                                          *)
next_child(h, j) ==
    LET own == IF j = 0 THEN 1 ELSE 2 * bit_floor[j]
        higher == {2^i : i \in 0..16} \cap {b \in own..MaxSize : (h \div b) % 2 = 1}
    IN  IF higher = {} THEN j ELSE j + CHOOSE b \in higher : \A c \in higher : b <= c

PublishedIn(c, ts) == c < ts /\ buckets_[c].ptr # UNINITIALIZED

is_dead_now(n, j, ts) ==
    \/ link[n].mark
    \/ link[n].frozen /\ PublishedIn(next_child(Hash[value[n]], j), ts)

(* The nodes linked from p, in order; a cycle would stop at Nodes' size.   *)
ChainFrom(p) ==
    LET walk[i \in 0..Cardinality(Nodes)] ==
            IF i = 0 THEN [seq |-> <<>>, at |-> p]
            ELSE LET w == walk[i - 1] IN
                 IF w.at \in Nodes
                 THEN [seq |-> Append(w.seq, w.at), at |-> link[w.at].ptr]
                 ELSE w
    IN  walk[Cardinality(Nodes)].seq
Chain(j) == ChainFrom(buckets_[j].ptr)

(* The bucket and the size a walk decides with.                            *)
Child(t) == Last(th[t].path)
WalkJ(t) == IF th[t].site = "cleanup" THEN Parent(Child(t)) ELSE th[t].j
WalkTs(t) == IF th[t].site = "cleanup" THEN th[t].cts ELSE th[t].ts
Dead(t, n) == is_dead_now(n, WalkJ(t), WalkTs(t))

(* unlink_run() up to its CAS: the maximal dead run from n on and its      *)
(* successor; every link read, the one that ends the run too, is acquired. *)
RecordRun(t, r, n) ==
    LET c == ChainFrom(n)
        len == CHOOSE l \in 1..Len(c) :
                 /\ \A i \in 2..l : Dead(t, c[i])
                 /\ l = Len(c) \/ ~Dead(t, c[l + 1])
        read == {sizeOfLink[c[i]] : i \in 1..Min({len + 1, Len(c)})}
    IN  [r EXCEPT !.pc = "cas", !.run = {c[i] : i \in 1..len}, !.succ = link[c[len]].ptr,
                  !.view = Max(read \cup {@})]

-----------------------------------------------------------------------------
(* Walking a chain, one node a step.                                       *)

AtNode(t) == th[t].pc = "walk" /\ th[t].curr \in Nodes
IsKey(t) ==
    LET n == th[t].curr IN
    th[t].site = "walk" /\ value[n] = th[t].key /\ ~link[n].mark
AtX(t) == th[t].site = "self" /\ th[t].curr = th[t].x

(* The walk meets the key: contains() and insert() answer, erase() goes on *)
(* to mark it unless it is frozen.                                         *)
Hit(t) ==
    /\ AtNode(t) /\ IsKey(t)
    /\ LET n == th[t].curr
           r == Saw(th[t], sizeOfLink[n])
       IN  CASE r.op = "contains" -> push_limbo(t, Returned(r, "true"), {})
             [] r.op = "insert" -> push_limbo(t, Returned(r, "false"), Pending(t))
             [] r.op = "erase" ->
                  push_limbo(t, IF link[n].frozen THEN [r EXCEPT !.pc = "again", !.stale = TRUE]
                                ELSE [r EXCEPT !.pc = "mark", !.x = n], {})
    /\ UNCHANGED <<chains, retired, free, carriers, set>>

(* step_over(): a live node becomes pred; a dead one pred leads to gets    *)
(* its run recorded; any other is passed.  contains() only passes, and     *)
(* self_unlink()'s second walk moves pred but bypasses nothing.            *)
StepOver(t) ==
    /\ AtNode(t) /\ ~IsKey(t) /\ ~AtX(t)
    /\ LET n == th[t].curr
           r == Saw(th[t], sizeOfLink[n])
           passed == [r EXCEPT !.curr = link[n].ptr]
       IN  th' = [th EXCEPT ![t] =
             IF r.op = "contains" /\ r.site = "walk" THEN passed
             ELSE IF ~Tagged(link[n])
             THEN [passed EXCEPT !.w.pred = n, !.w.word = link[n], !.w.ok = TRUE]
             ELSE IF r.site # "self" /\ r.w.ok /\ r.w.word.ptr = n /\ Dead(t, n)
             THEN RecordRun(t, r, n)
             ELSE passed]
    /\ UNCHANGED <<chains, lists, carriers, set>>

\* Mutant: the CAS does not compare the tags.
WordUnchangedAddress(t) ==
    LET w == th[t].w IN
    (IF w.pred = AtHead THEN buckets_[WalkJ(t)].ptr ELSE link[w.pred].ptr) = w.word.ptr

(* Whether the CAS of unlink_run() finds the word the walk knows.          *)
WordUnchanged(t) ==
    LET w == th[t].w IN
    IF w.pred = AtHead THEN buckets_[WalkJ(t)] = w.word ELSE link[w.pred] = w.word

(* unlink_run()'s CAS wins: the recorded run, no more and no less, is      *)
(* bypassed and retired.                                                   *)
UnlinkTo(t, ns) ==
    /\ th[t].pc = "cas" /\ WordUnchanged(t)
    /\ LET r == th[t]
           w == r.w
           word == [w.word EXCEPT !.ptr = r.succ]
           known == [w EXCEPT !.word = word, !.head = IF w.pred = AtHead THEN word ELSE @]
           next == IF r.site = "self" THEN Returned(r, "true")
                   ELSE [r EXCEPT !.pc = "walk", !.curr = r.succ, !.w = known, !.run = {}, !.succ = EMPTY]
       IN  /\ IF w.pred = AtHead
              THEN /\ buckets_' = [buckets_ EXCEPT ![WalkJ(t)] = word]
                   /\ UNCHANGED link
              ELSE /\ link' = [link EXCEPT ![w.pred] = word]
                   /\ UNCHANGED buckets_
           /\ th' = Pushed(t, next, ns)
    /\ retired' = retired \cup ns
    /\ UNCHANGED <<table_size_, value, limbo, free, set>>

Released(t) ==
    LET r == th[t] IN
    IF r.w.pred = AtHead
    THEN /\ sizeOfBucket' = [sizeOfBucket EXCEPT ![WalkJ(t)] = Larger(@, r.view)]
         /\ UNCHANGED sizeOfLink
    ELSE /\ sizeOfLink' = [sizeOfLink EXCEPT ![r.w.pred] = Larger(@, r.view)]
         /\ UNCHANGED sizeOfBucket

\* Mutant: the unlink CAS is relaxed.
UnlinkRelaxed(t) == UnlinkTo(t, th[t].run) /\ UNCHANGED carriers
\* Mutant: the winner looks again how far the run reaches.
UnlinkReevaluates(t) ==
    /\ UnlinkTo(t, th[t].run \cup {n \in {th[t].succ} \ {EMPTY} : Dead(t, n)})
    /\ Released(t)

Unlink(t) == UnlinkTo(t, th[t].run) /\ Released(t)

(* The CAS is lost: pred is of no more use; the walk goes on behind the    *)
(* run and the eraser restarts or gives up.                                *)
UnlinkFails(t) ==
    /\ th[t].pc = "cas" /\ ~WordUnchanged(t)
    /\ LET r == [th[t] EXCEPT !.w.ok = FALSE, !.run = {}, !.succ = EMPTY] IN
       th' = [th EXCEPT ![t] =
               IF r.site = "self" THEN [r EXCEPT !.pc = "unlink"]
               ELSE [r EXCEPT !.pc = "walk", !.curr = th[t].succ]]
    /\ UNCHANGED <<chains, lists, carriers, set>>

-----------------------------------------------------------------------------
(* erase(): the mark, the eager self-unlink, and the miss.                 *)

(* A call of view v decides that k becomes or stops being a member, and    *)
(* the threads go on as f: every running call on k sees it; a later one    *)
(* must know of it unless its view is older than v.                        *)
Decided(f, k, v, b) ==
    /\ mem' = IF b THEN mem \cup {k} ELSE mem \ {k}
    /\ UNCHANGED plan
    /\ past' = [past EXCEPT ![k] = [s \in Sizes |-> {b} \cup IF v > s THEN @[s] ELSE {}]]
    /\ th' = [u \in Threads |-> IF f[u].pc # "idle" /\ f[u].key = k
                                THEN [f[u] EXCEPT !.was = @ \cup {b}] ELSE f[u]]

(* The mark CAS is retried while the link is live: here, when it wins.     *)
MarkIf(t, may) ==
    /\ th[t].pc = "mark" /\ may
    /\ LET x == th[t].x
           r == Saw(th[t], sizeOfLink[x])
       IN  /\ link' = [link EXCEPT ![x].mark = TRUE]
           /\ sizeOfLink' = [sizeOfLink EXCEPT ![x] = Larger(@, r.view)]
           /\ Decided([th EXCEPT ![t] = [r EXCEPT !.pc = "unlink", !.site = "self"]],
                      r.key, r.view, FALSE)
    /\ UNCHANGED <<table_size_, buckets_, value, lists, sizeOfBucket>>

Mark(t) == MarkIf(t, ~Tagged(link[th[t].x]))

(* It is lost to another eraser or to a splitter, whose freeze makes this  *)
(* chain stale for the key.                                                *)
MarkFails(t) ==
    /\ th[t].pc = "mark" /\ Tagged(link[th[t].x])
    /\ LET x == th[t].x IN
       th' = [th EXCEPT ![t] = [Saw(@, sizeOfLink[x]) EXCEPT
                !.pc = "again", !.stale = link[x].frozen, !.x = NoNode]]
    /\ UNCHANGED <<chains, lists, carriers, set>>

(* One attempt through pred, if no CAS on it was lost, then one restart.   *)
SelfUnlink(t) ==
    /\ th[t].pc = "unlink" \/ (AtNode(t) /\ AtX(t))
    /\ LET r == th[t]
           first == r.w.word.ptr
           h == buckets_[r.j]
       IN  th' = [th EXCEPT ![t] =
             IF r.w.ok
             THEN IF first # r.x /\ ~Dead(t, first) THEN Returned(r, "true")
                  ELSE RecordRun(t, r, first)
             ELSE IF r.restarted THEN Returned(r, "true")
             ELSE [Entered(Saw(r, sizeOfBucket[r.j]), h) EXCEPT !.restarted = TRUE]]
    /\ UNCHANGED <<chains, lists, carriers, set>>

(* The miss of contains() and erase(): final in an unchanged geometry.     *)
Again(t) ==
    /\ th[t].pc = "again"
    /\ \E s \in SizeLoads(t) :
        th' = [th EXCEPT ![t] =
                IF s = @.ts /\ ~@.stale THEN Returned(@, "false")
                ELSE [Saw(@, s) EXCEPT !.pc = "enter", !.ts = s, !.w = NoWalk]]
    /\ UNCHANGED <<chains, lists, carriers, set>>

-----------------------------------------------------------------------------
(* The end of a chain, and insert()'s publication.                         *)

(* Bound: there is memory for so many nodes.                               *)
Exhausted == Cardinality(Nodes \ free) >= plan.memory

(* alloc_node(): a node that holds k and leads to p, no longer free.       *)
alloc_node(n, k, p) ==
    /\ n \in free /\ ~Exhausted
    /\ free' = free \ {n}
    /\ value' = [value EXCEPT ![n] = k]
    /\ link' = [link EXCEPT ![n] = Link(p)]
    /\ sizeOfLink' = [sizeOfLink EXCEPT ![n] = InitialSize]

(* Or it throws: no memory, or the copy of the value throws and the popped *)
(* node goes to limbo.  The call ends with its private nodes ns there too. *)
AllocThrows(t, ns) ==
    \/ /\ Exhausted
       /\ push_limbo(t, Returned(th[t], "throw"), ns)
       /\ UNCHANGED free
    \/ /\ CopyThrows /\ ~Exhausted
       /\ \E n \in free :
            /\ free' = free \ {n}
            /\ push_limbo(t, Returned(th[t], "throw"), ns \cup {n})

AtEnd(t) == th[t].pc = "walk" /\ th[t].curr = EMPTY

(* The next enclosing split, or back to the call's bucket; insert() starts *)
(* over from the table size.                                               *)
SplitDone(r) ==
    LET up == Front(r.path)
        back == [r EXCEPT !.path = up, !.sub = <<>>, !.w = NoWalk, !.curr = EMPTY,
                          !.site = "walk", !.cts = 0]
    IN  IF up # <<>> THEN [back EXCEPT !.pc = "parent"]
        ELSE IF r.op = "insert" THEN Reload(back) ELSE [back EXCEPT !.pc = "enter"]

EndOfChain(t) ==
    /\ AtEnd(t)
    /\ th[t].site = "walk" => th[t].op # "insert"
    /\ th' = [th EXCEPT ![t] =
               CASE @.site = "walk" -> [@ EXCEPT !.pc = "again"]
                 [] @.site = "self" -> Returned(@, "true")
                 [] @.site = "cleanup" -> SplitDone(@)
                 [] @.site = "advance" -> NextBucket(@)]
    /\ UNCHANGED <<chains, lists, carriers, set>>

(* insert() misses: the node of an earlier attempt, or a new one, is led   *)
(* to the head as this call knows it.                                      *)
InsertMiss(t) ==
    /\ AtEnd(t) /\ th[t].site = "walk" /\ th[t].op = "insert"
    /\ LET r == th[t] IN
       \/ /\ r.new # NoNode
          /\ link' = [link EXCEPT ![r.new] = Link(r.w.head.ptr)]
          /\ th' = [th EXCEPT ![t].pc = "publish"]
          /\ UNCHANGED <<value, free, sizeOfLink>>
       \/ /\ r.new = NoNode
          /\ \E n \in free :
               /\ alloc_node(n, r.key, r.w.head.ptr)
               /\ th' = [th EXCEPT ![t].pc = "publish", ![t].new = n]
    /\ UNCHANGED <<table_size_, buckets_, retired, limbo, sizeOfBucket, set>>
InsertThrows(t) ==
    /\ AtEnd(t) /\ th[t].site = "walk" /\ th[t].op = "insert" /\ th[t].new = NoNode
    /\ AllocThrows(t, {})
    /\ UNCHANGED <<chains, retired, carriers, set>>

PublishIf(t, may) ==
    /\ th[t].pc = "publish" /\ may
    /\ LET r == th[t]
           done == [r EXCEPT !.new = NoNode]
       IN  /\ buckets_' = [buckets_ EXCEPT ![r.j] = Head_(r.new, buckets_[r.j].level)]
           /\ sizeOfBucket' = [sizeOfBucket EXCEPT ![r.j] = Larger(@, r.view)]
           /\ \E next \in {[done EXCEPT !.pc = "double"], Returned(done, "true")} :
                Decided([th EXCEPT ![t] = next], r.key, r.view, TRUE)
    /\ UNCHANGED <<table_size_, link, value, lists, sizeOfLink>>

\* Mutant: the publishing CAS compares the address only, not the seal level.
PublishAddress(t) == PublishIf(t, buckets_[th[t].j].ptr = th[t].w.head.ptr)

(* The publishing CAS on the full head word.  node_count_ against 2 * ts   *)
(* is a hint: the trigger fires or not.                                    *)
Publish(t) == PublishIf(t, buckets_[th[t].j] = th[t].w.head)

PublishFails(t) ==
    /\ th[t].pc = "publish" /\ buckets_[th[t].j] # th[t].w.head
    /\ th' = [th EXCEPT ![t] = Reload(@)]
    /\ UNCHANGED <<chains, lists, carriers, set>>

(* The doubling under resize_lock_; past the bound buckets_.resize() throws, *)
(* after the key was published.                                            *)
Double(t) ==
    /\ th[t].pc = "double"
    /\ LET r == th[t]
           grown == 2 * r.ts
           same == table_size_ = r.ts
       IN  IF same /\ grown <= plan.maxSize
           THEN /\ buckets_' = [j \in Buckets |-> IF j \in r.ts..(grown - 1)
                                  THEN Head_(UNINITIALIZED, 0) ELSE buckets_[j]]
                /\ table_size_' = grown
                /\ th' = [th EXCEPT ![t] = Returned([r EXCEPT !.view = grown], "true")]
           ELSE /\ th' = [th EXCEPT ![t] = Returned(Saw(r, table_size_), IF same THEN "throw" ELSE "true")]
                /\ UNCHANGED <<buckets_, table_size_>>
    /\ UNCHANGED <<link, value, lists, carriers, set>>

-----------------------------------------------------------------------------
(* split_bucket() of the last bucket of path, and cleanup_parent().        *)

(* A parent that is not split itself is split first.                       *)
SplitParentFirst(t) ==
    /\ th[t].pc = "parent"
    /\ LET p == Parent(Child(t)) IN
        /\ buckets_[p].ptr = UNINITIALIZED
        /\ th' = [th EXCEPT ![t].path = Append(@, p)]
    /\ UNCHANGED <<chains, lists, carriers, set>>

(* The seal loop, when its CAS wins or the level is already there.         *)
SealWith(t, v) ==
    /\ th[t].pc = "parent"
    /\ LET p == Parent(Child(t))
           h == buckets_[p]
           level == Larger(h.level, 2 * bit_floor[Child(t)])
           r == Saw(th[t], sizeOfBucket[p])
       IN  /\ h.ptr # UNINITIALIZED
           /\ buckets_' = [buckets_ EXCEPT ![p].level = level]
           /\ sizeOfBucket' = [sizeOfBucket EXCEPT ![p] = IF level # h.level THEN Larger(@, v) ELSE @]
           /\ th' = [th EXCEPT ![t] = [r EXCEPT !.pc = "split", !.curr = h.ptr, !.w = NoWalk]]
    /\ UNCHANGED <<table_size_, link, value, lists, sizeOfLink, set>>

Seal(t) == SealWith(t, th[t].view)

Splitting(t) == th[t].pc = "split" /\ th[t].curr \in Nodes

(* Whether the node the splitter is at moves to the child: unmarked, and   *)
(* of a key that the mask of the child's table sends there.                *)
Moves(t) ==
    LET n == th[t].curr IN
    /\ ~link[n].mark
    /\ Hash[value[n]] % (2 * bit_floor[Child(t)]) = Child(t)

SplitSkip(t) ==
    /\ Splitting(t) /\ ~Moves(t)
    /\ th' = [th EXCEPT ![t] = [Saw(@, sizeOfLink[@.curr]) EXCEPT !.curr = link[th[t].curr].ptr]]
    /\ UNCHANGED <<chains, lists, carriers, set>>

SubHead(t) == IF th[t].sub = <<>> THEN EMPTY ELSE Last(th[t].sub)

(* The freeze, retried while the link is live, then the copy.  A CAS that  *)
(* fails is relaxed: the splitter may not have the view of the link it     *)
(* ends with.                                                              *)
FreezeAndCopy(t) ==
    /\ Splitting(t) /\ Moves(t) /\ ~Exhausted
    /\ LET n == th[t].curr IN
       \E r \in {th[t], Saw(th[t], sizeOfLink[n])}, c \in free :
            /\ free' = free \ {c}
            /\ value' = [value EXCEPT ![c] = value[n]]
            /\ link' = [link EXCEPT ![n].frozen = TRUE, ![c] = Link(SubHead(t))]
            /\ sizeOfLink' = [sizeOfLink EXCEPT ![n] = Larger(@, r.view), ![c] = InitialSize]
            /\ th' = [th EXCEPT ![t] = [r EXCEPT !.curr = link[n].ptr, !.sub = Append(@, c)]]
    /\ UNCHANGED <<table_size_, buckets_, retired, limbo, sizeOfBucket, set>>

(* The copy throws: the node stays frozen, the subchain goes to limbo, and *)
(* so does insert()'s pending node.                                        *)
SplitThrows(t) ==
    /\ Splitting(t) /\ Moves(t)
    /\ LET n == th[t].curr IN
        /\ link' = [link EXCEPT ![n].frozen = TRUE]
        /\ sizeOfLink' = [sizeOfLink EXCEPT ![n] = Larger(@, th[t].view)]
    /\ AllocThrows(t, ToSet(th[t].sub) \cup Pending(t))
    /\ UNCHANGED <<table_size_, buckets_, value, retired, sizeOfBucket, set>>

AtSplitEnd(t) == th[t].pc = "split" /\ th[t].curr = EMPTY

PublishSplit(t) ==
    /\ AtSplitEnd(t) /\ buckets_[Child(t)].ptr = UNINITIALIZED
    /\ LET c == Child(t) IN
        /\ buckets_' = [buckets_ EXCEPT ![c] = Head_(SubHead(t), 0)]
        /\ sizeOfBucket' = [sizeOfBucket EXCEPT ![c] = Larger(@, th[t].view)]
    /\ th' = [th EXCEPT ![t] = [@ EXCEPT !.pc = "cleanup", !.site = "cleanup", !.sub = <<>>]]
    /\ UNCHANGED <<table_size_, link, value, lists, sizeOfLink, set>>

PublishSplitFails(t) ==
    /\ AtSplitEnd(t) /\ buckets_[Child(t)].ptr # UNINITIALIZED
    /\ push_limbo(t, SplitDone(th[t]), ToSet(th[t].sub))
    /\ UNCHANGED <<chains, retired, free, carriers, set>>

cleanup_parent(t) ==
    /\ th[t].pc = "cleanup"
    /\ \E s \in SizeLoads(t) :
        LET p == Parent(Child(t))
            r == [Saw(Saw(th[t], s), sizeOfBucket[p]) EXCEPT !.cts = s]
        IN  th' = [th EXCEPT ![t] = Entered(r, buckets_[p])]
    /\ UNCHANGED <<chains, lists, carriers, set>>

-----------------------------------------------------------------------------
Step(t) ==
    \/ LoadSize(t) \/ LoadHead(t) \/ Hit(t) \/ StepOver(t) \/ EndOfChain(t)
    \/ Unlink(t) \/ UnlinkFails(t)
    \/ Mark(t) \/ MarkFails(t) \/ SelfUnlink(t) \/ Again(t)
    \/ InsertMiss(t) \/ InsertThrows(t) \/ Publish(t) \/ PublishFails(t) \/ Double(t)
    \/ SplitParentFirst(t) \/ Seal(t) \/ SplitSkip(t) \/ FreezeAndCopy(t) \/ SplitThrows(t)
    \/ PublishSplit(t) \/ PublishSplitFails(t) \/ cleanup_parent(t)

Next ==
    \/ \E t \in Threads : Call(t) \/ Step(t)
    \/ \E n \in Nodes : Free(n)

Spec == Init /\ [][Next]_vars

-----------------------------------------------------------------------------
(* Properties.                                                             *)

Words == Nodes \cup {EMPTY, UNINITIALIZED}
Private(t) == Pending(t) \cup ToSet(th[t].sub)

TypeOK ==
    /\ table_size_ \in Sizes
    /\ buckets_ \in [Buckets -> [ptr : Words, level : {0} \cup Sizes]]
    /\ link \in [Nodes -> [ptr : Nodes \cup {EMPTY}, mark : BOOLEAN, frozen : BOOLEAN]]
    /\ value \in [Nodes -> Keys]
    /\ retired \subseteq Nodes /\ limbo \subseteq Nodes /\ free \subseteq Nodes
    /\ sizeOfBucket \in [Buckets -> Sizes] /\ sizeOfLink \in [Nodes -> Sizes]
    /\ mem \subseteq Keys
    /\ \A t \in Threads :
        /\ th[t].ts \in {0} \cup Sizes /\ th[t].cts \in {0} \cup Sizes
        /\ th[t].j \in Buckets /\ ToSet(th[t].path) \subseteq Buckets \ {0}
        /\ th[t].curr \in Nodes \cup {EMPTY} /\ th[t].succ \in Nodes \cup {EMPTY}
        /\ th[t].view \in Sizes /\ th[t].view <= table_size_
        /\ th[t].keeps \subseteq Nodes /\ th[t].run \subseteq Nodes

(* The nodes a running call may still read, compare with or publish.       *)
Held(t) ==
    LET r == th[t] IN
    Nodes \cap ({r.curr, r.w.pred, r.w.word.ptr, r.w.head.ptr, r.succ, r.x} \cup r.run \cup Private(t))

(* A node a call holds is not reused while the call's handle lives: the    *)
(* handle invariant, across bypassed runs and tagged links left through    *)
(* (EXIT and ABA WITHOUT VERSION TAGS in the class overview).              *)
HeldNotReused == \A t \in Threads : Running(t) => Held(t) \cap free = {}

(* An unlink CAS that would win cuts exactly the recorded run out of the   *)
(* current chain, in one piece, ending at the recorded successor; each of  *)
(* its nodes is tagged and not retired yet: unlink_run() retires exactly   *)
(* what it bypasses, although it recorded the run earlier, because no node *)
(* it holds was reused.                                                    *)
WinningRunExact ==
    /\ HeldNotReused
    /\ \A t \in Threads : th[t].pc = "cas" /\ WordUnchanged(t) =>
        LET r == th[t]
            c == ChainFrom(r.w.word.ptr)
            len == Cardinality(r.run)
        IN  /\ r.w.pred # AtHead => r.w.pred \in ToSet(Chain(WalkJ(t)))
            /\ len <= Len(c) /\ r.run = {c[i] : i \in 1..len}
            /\ link[c[len]].ptr = r.succ
            /\ \A n \in r.run : Tagged(link[n]) /\ n \notin retired

Published == {j \in 0..(table_size_ - 1) : buckets_[j].ptr # UNINITIALIZED}

(* C1 to C3 of get_internal_accounting(), at every moment: a node is free, *)
(* retired, in limbo, reachable in one place of one chain, or private to   *)
(* one call, and only one of these; none is lost, not by a throw either.   *)
(* Only tagged nodes were retired, and a reachable node whose key has      *)
(* moved to a published child is tagged.                                   *)
Accounting ==
    LET chain == [j \in Published |-> Chain(j)]
        private == [t \in Threads |-> Private(t)]
    IN  /\ TypeOK
        /\ \A n \in Nodes :
            1 = Cardinality({l \in 1..3 : n \in <<free, retired, limbo>>[l]})
                + Cardinality({j \in Published : n \in ToSet(chain[j])})
                + Cardinality({t \in Threads : n \in private[t]})
        /\ \A n \in retired : Tagged(link[n])
        /\ \A j \in Published :
            /\ IsInjective(chain[j])
            /\ \A n \in ToSet(chain[j]) :
                LET c == next_child(Hash[value[n]], j) IN
                c # j /\ c \in Published => Tagged(link[n])

(* The bucket that decides about k: the deepest published one on its path. *)
Authority(k) ==
    Hash[k] % Max({s \in Sizes : s <= table_size_ /\ Hash[k] % s \in Published})

(* A key is a member exactly if the chain of its deepest published bucket  *)
(* has one unmarked node of it: splits, stale inserters and bypasses       *)
(* neither lose, revive nor double a key.                                  *)
MembersExact ==
    \A k \in plan.keys :
        LET live == {n \in ToSet(Chain(Authority(k))) : value[n] = k /\ ~link[n].mark} IN
        Cardinality(live) = IF k \in mem THEN 1 ELSE 0

(* An answer was true at some moment of the call, also for a call that     *)
(* worked from stale table sizes; insert() and erase() that return true    *)
(* found the key absent, or present.                                       *)
AnswersRight ==
    \A t \in Threads :
        LET r == th[t] IN
        /\ r.ret = "true" => (r.op # "insert") \in r.was
        /\ r.ret = "false" => (r.op = "insert") \in r.was
=============================================================================
