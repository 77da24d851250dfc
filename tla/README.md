# TLA+ verification of ConcurrentCpp

ConcurrentCpp is a header library of concurrent building blocks: two locks and a
double-checked maximum, a ring queue, an append-only deque, atomic shared
pointers, lock-free lists, hash sets, and a thread class with chosen stack sizes.
This directory holds TLA+ modules for all of them, the TLC configurations that
check them on small instances, TLAPS proofs of the safety of about half of them
(both ring queues with their refinements, the locks, `atomic_max()`, the lock-bit
shared pointer, the generation ring, and the thread class), and `PROJECT.json`,
which maps every definition to the lines it translates.

Paths below are relative to `src/`.

## 1. The system and its modules

| Part of the library | Source | Modules | Run |
|---|---|---|---|
| Ring queue of pairs | `ConcurrentQueue/concurrent_queue.h` | `QueueParameters`, `RingQueue`, `RingQueueRefinement`, `ModuloLemmas`, `QueueProofs` | `queues`, `ring_queue_full_claim` |
| Ring queue of keys | same | `KeyQueue`, `KeyQueueRefinement`, `QueueProofs` | `queues` |
| Abstract bounded FIFO | – | `FifoQueue` | `queues` |
| Spinlock | `Spinlock/spinlock.h` | `SpinLock`, `PrimitivesProofs` | `primitives` |
| Sequence lock | `Spinlock/seqlock.h` | `SeqLock`, `PrimitivesProofs` | `primitives` |
| `atomic_max()` | `DCLP/atomic_max.h` | `AtomicMax`, `PrimitivesProofs` | `primitives` |
| Append-only deque | `ConcurrentDeque/concurrent_deque.h` | `AppendDeque`, `ModuloLemmas`, `AppendDequeProofs` | `append_deque` |
| Harris list over an atomic shared pointer | `LockFreeList/lock_free_list.h` | `LockFreeList`, `LockFreeListProofs` | `lock_free_list` |
| RCU list: generations, reclamation | `LockFreeListRCU/lock_free_list_rcu.h` | `GenerationRing`, `GenerationRingProofs` | `generation_ring` |
| RCU list: links, iterators, free list | same | `RcuList` | `rcu_list` |
| Shared pointer, lock-bit word | `IntrSharedPtr/intr_shared_ptr.h`, `..._common.h`, `intr_pointee.h` | `IntrSharedPtr`, `IntrSharedPtrProofs` | `references` |
| Shared pointer, hazard-pointer word | `IntrSharedPtr/intr_shared_ptr_hp.h`, same | `HpSharedPtr` | `hp_shared_ptr` |
| Resizable hash set, quiescent reclaim | `ConcurrentHash/concurrent_hash_set.h` | `ConcurrentHashSet` | `hash_set` |
| Resizable hash set, RCU: chains, splits | `ConcurrentHashRCU/concurrent_hash_set_rcu.h` | `HashSetRcu` | `rcu_hash_set` |
| Resizable hash set, RCU: generations, shards, allocation | same | `ShardedRing` | `references` |
| Thread: sizes | `Thread/thread.h` | `ThreadStack`, `PrimitivesProofs` | `thread` |
| Thread: life and ownership | same | `ThreadLife`, `ThreadLifeProofs` | `thread` |

How the parts interact, and where the models meet:

- Every lock inside a component is the spinlock. `SpinLock` shows mutual exclusion
  of the word; the other modules take and release such a lock in one step.
  (The sequence lock's writers, the deque's writers and both sides of the queue.)
- `RcuList` and `HashSetRcu` need one promise of their memory: a retired node is
  not handed out again before every session that was live when it was retired has
  ended. They keep that promise as a set per node (`keeps`). `GenerationRing` and
  `ShardedRing` are the two rings that give it, with every step of the join, the
  bump and the free pass; `NoReclaimUnderSession` and `SessionsPin` state it.
  The two levels are checked separately: there is no run of a chain over a ring.
- `LockFreeList` takes the atomic shared pointer as its header does, as a word
  whose pointees live while referenced. `IntrSharedPtr` and `HpSharedPtr` are the
  two implementations; the latter also has the iterative release of `~Node`, which
  depends on the pointer's count (`JudgedExclusive`).
- `RingQueue` and `KeyQueue` implement `FifoQueue` through refinement mappings.
- `HpSharedPtr` uses the external hazard-pointer domain `mm_hp`, and the thread
  modules use glibc and pthreads. These are modelled from how the headers use them
  and marked external in `PROJECT.json`.

## 2. How code became state and actions

State variables carry the member names where TLA+ allows it (`head_`, `seq_`,
`node_count_`, `lock_`). A function is cut at its accesses to shared atomics, one
action per access with the local computation up to the next one, and a
program counter per thread says where it stands. What runs under a lock is cut
only where somebody outside the lock can look. A loop body is one pass of the
actions; a loop that only pushes nodes onto a list is one step where no reader
can tell (`ShardedRing`).

**Memory order.** A sequentially consistent reading of the code would hide most of
what its comments argue about, so the models let relaxed loads return old values:

- `SeqLock`, `AtomicMax`, `HpSharedPtr`: the modification order of the word is
  kept, each thread has a view, a load returns anything from its view on, and an
  acquire read of a release write takes over the writer's view. A fence of the
  hazard-pointer scan lifts all views.
- `AppendDeque`: all writes are in one log (writers are serialised); a thread's
  view is a prefix of it, and a plain read is safe when nothing beyond the view
  wrote there.
- `LockFreeList`: values are the newest, and the set of nodes a thread has
  synchronised with (`sees`) decides whether a dereference is safe.
- `ConcurrentHashSet`, `HashSetRcu`: `table_size_` is read stale; views travel
  through released heads and links, which are themselves read newest. Answers are
  judged by happens-before, as the class overview defines them.
- `GenerationRing`, `ShardedRing`: `current_` is read up to one publish late. In
  `ShardedRing` a relaxed load of the steal hint may give either answer.
- `KeyQueue`: a load of the key may return an older store of the other side.
- `IntrSharedPtr`: the word is taken by the exchange that sets its lock bit, which
  reads the newest value.
- `RingQueue`, `RcuList`: the newest value is read. This is an abstraction: an acquire
  load may be old, and `empty()` of the queue loads relaxed. In the queue an older
  sequence number is never the awaited one, so it is one more retry or a refusal, and
  what `RightAnswers` says of the moment of the load then holds of an earlier one. In
  the list the exchanges compare what was loaded, but a walk that follows an older
  link is not covered.

**Numbers.** The pop counter beside a free list's head wraps (`PopCounts`). Queue indices are compared modulo `IndexMod`, a multiple of the
capacity standing for 2^64. `ThreadStack` computes modulo `SizeMax + 1`.
`node_count_` is unsigned in the code: the model keeps an integer and
`ShardAccounting` requires that it is never negative.

**Failures.** Allocations fail in `AppendDeque`, `ConcurrentHashSet`, `HashSetRcu`
and `ShardedRing`, in the sets at any append; copies of values throw in the hash sets; thread creation fails
at each of its steps in `ThreadLife`.

### Notes per module

- `RingQueue`: `PushLock`, `PushLoad`, `PushRetry`, `PushFull`, `PushClaim`,
  `PushConstruct`, `PushCommit` follow `push()`; the `Pop...` actions `pop()`;
  `EmptyLock`, `EmptyReturn` `empty()`; `Destroy` the destructor, which may run
  when no call is under way.
- `SpinLock`: `Test` and `Exchange` are an attempt; `ShortPark`, `LongSleep` the
  waiting policy; `GiveUp`, `Refused` the end of `try_lock()`.
- `AppendDeque`: an element is who appended it, a directory or block the log
  position that made it reachable. The iterator keeps an element pointer and is
  moved by increments, decrements and jumps.
- `GenerationRing`: `refs`, `state`, `gen` and `bag` are the fields of a
  `GenerationBlock`; a join is load, raise, re-verify, and undo when it lost.
- `ShardedRing`: `rows_[a][g]` are the per-shard handle counts; an action for each
  access of `new_handle`, `refresh`, the handle's end, `alloc_node` (pop, steal,
  append, credit), `push_retired`, `push_limbo`, and of the bump and free pass
  behind `reclaim()`, `advance()` and the automatic trigger. One handle per worker
  at a time; `advance()` is only called by a worker without one and joins its own
  for the walk (a caller that keeps another handle is, for the ring, one more
  session, which the other workers play). A call that finds the flag held changes
  nothing and is no action.
  What happens between allocation and retirement is one step (`PublishNode`), and so
  are the looks at (and the exchanges of) the retired and the limbo head of one shard.
  A scan for a node to steal reads the newest heads, so that the acquire of the hint
  is taken for granted and not tested.
- `HashSetRcu`: a seal level is the table size it is the logarithm of. A run of
  dead nodes is recorded in one step, when its last word is read: tagged links and
  published children never change back. Allocation takes any free node in one step.
  Three sequences are one step each where the code has several: the freeze of a node
  with the allocation and construction of its copy, the unlink's exchange with
  `push_retired()`, and a throw with the push of the split's nodes to limbo. A freeze that had to be retried may miss
  the view of the link (the failure order is relaxed).
- `ConcurrentHashSet`: `alloc_node()` is cut before the `fetch_add` of a call that
  opens a batch (`CountBatch`); the assignment of the value goes with the access before
  it. An append may throw at any time, a popped node's assignment too.
- `RcuList`: `retire_link` is written by `retire()` as well as by the splice. Which
  retired node it names is left out: one word stands for all of them.
- `LockFreeList`: `Free` ends a node nothing points to, after which its address may be
  used again. It is part of `FairSpec` only, see section 3; in `Spec`, which the proofs are
  about, a node is used once and there may be infinitely many.
- `ThreadLife`: the class allows no concurrent calls on one object, so an object
  has one user at a time, who may hand it over (`Give`). `join()` tests for the calling
  thread only (`Deadlock`); that `pthread_join()` may, and need not, refuse two threads
  that join each other is glibc's (`MayRefuse`). A refused `join()` throws and changes
  nothing, so only the refusal in a `noexcept` function is an action.
- `ThreadStack`: the frames of the class between the thread's start and the callable
  are taken to use exactly the room allowed for them. The comment of the constructor
  excepts unusually long argument lists, and so does the model.

## 3. The runs

Each run is one `tlc` call on the named `MC` module and `.cfg`. Several components
share a run through a variable that is chosen in `Init` and never changes
(`subject`, `plan`, `cast`, `use`, `brief`); the run is then the union of the
instances, and nothing of one instance reaches another.

| Run | What it shows |
|---|---|
| `queues` | `RingInv`: indices, slot numbers, owners and values agree. `RightAnswers`: "empty" and "full" are never wrong about the queue. `SlotsMatchWindow`: the same for the key ring, whose head may pass its tail for a moment. `RefinesFifo`, `KeyRefinesFifo`: both implement `FifoQueue`. `Delivered`: every accepted pair comes out. |
| `ring_queue_full_claim` | The finding of section 7. |
| `generation_ring` | `NoReclaimUnderSession`: no node a session may come upon is freed. `CountsExact`: a lost join leaves no trace, on a recycled block either. `RingShape`: one current block, the sealed ones behind it with consecutive generations, bags exactly there, every node in one population. `Reclaimed`: what is retired gets free. |
| `primitives` | `MutualExclusion`; `ValidatedGeneration`: a validated read is one generation, not older than what happened before; `IsMaximum`: the target is the maximum of what was offered, only grows, and publishes its setters' data (the returned `bool` is not part of it); `Progress`. |
| `append_deque` | `SafeReads`: no read meets a missing, null or half-written entry or element, cached element pointers included. `AppendsKept`: the returned index holds the caller's element at its address for good, failures leak nothing, the destructor frees all. |
| `lock_free_list` | `LiveNodesLinked`: no live node is lost, every dereference is synchronised. `NoResurrection`: no erased node returns, each is erased by one call. `EraseReturns`: a false answer is right, a retry follows a change of the anchor's word, and a call returns unless exchanges of other calls overtake it for ever. |
| `rcu_list` | `WalksStayValid`: iterators on erased nodes lead nowhere freed. `PopExact`: the version-less pop has the true successor when it wins. `Accounting`: each node is in one place and retired once. |
| `references` | Lock-bit pointer: `CountsExact`. Sharded ring: `SessionsPin` (nothing a session may meet is freed; a winning pop read the true successor), `ShardAccounting` (per-shard handle counts, every slot in one place, `node_count_` at least the nodes in use less batches not yet credited and never negative, EMPTY hint only when nothing is free). |
| `hp_shared_ptr` | `ProtectedAccess`: no access to freed memory, with addresses reused. `CountsExact` at every step. `JudgedExclusive`: nobody comes to own what `~Node` found exclusive. `RetriesAdvance`: `load()` retries only after a store. |
| `hash_set` | `AnswersRight`, `MembersExact`: no decision lost, doubled or stranded across two doublings. `SealShowsSize`: who meets a seal sees the size it was made for, so a retry advances. `Accounting`: every slot is in one place, and `node_count_` with the batches being added covers the slots in use and exceeds them by less than a batch per shard and path. |
| `rcu_hash_set` | `WinningRunExact`: a winning bypass retires exactly what it cut out. `MembersExact`, `AnswersRight`, `Accounting`, with splits, throws, node reuse and stale readers. |
| `thread` | `SizesRight`: a request is refused exactly when it does not fit, else the callable gets its stack. `OneOwner`: thread and callable have one owner on every path. `JoinReturns`: a join returns when its thread ends, unless threads join each other in a cycle; no thread waits for itself. |

Every property has a mutant in `PROJECT.json`: a plausible change of one mapped
definition under which TLC finds that property violated in the same run. The type
invariant of a module is the first conjunct of one of its invariants.

### Bounds, and why they are enough

- `queues`: three threads, so that two commits or releases can pass each other
  while a third looks; two slots and three pushes, so that the ring is lapped and
  the number a pop leaves in a slot (modulo 4) wraps; `NTRY` 2, so that a retry
  happens. The indices themselves do not wrap in the run; the theorems cover that.
- `primitives`: three contenders, bursts of two, one park before the long sleep;
  two writers of a sequence lock with two writes in total and two readers; two
  `atomic_max` callers with two calls over the initial value and two above it.
- `append_deque`: blocks of two and three elements, so that a block boundary, a
  directory growth and a jump between blocks happen; two writers, or a writer with
  one failing allocation beside an iterator.
- `lock_free_list`: three nodes, the smallest number in which a dead successor of a
  dead node exists; with marking two erasers of which one inserts, without it one
  eraser beside an inserter, and two inserters. In two more uses there are two nodes
  at a time and ended ones are followed by others (`Free`), so that calls compete for
  ever: there a call that never returns exists, as `lock_free_list.h:316` says (lock-free,
  not wait-free), and the condition of `EraseReturns` is needed.
- `generation_ring`: a ring of two blocks (the smallest the class allows), which
  wraps and fills; two handles; two callers; loads one publish old; two retires.
- `rcu_list`: three nodes; the third plan lets one thread make seven calls while a
  pop of another is stalled, enough to drain and refill the free list.
- `references`: two objects of which one may be the other's child; two shards and
  two generations, three workers of which two share a shard, batches of two, a pop
  counter that wraps at two and a trigger every two retires; six briefs, named in
  `MCReferences`, the last of which pops a list often enough for the wrap.
- `hp_shared_ptr`: two objects and three stores, enough to retire an object and
  publish its address again under a stalled loader; a loader against stores, and a
  strong exchange against a load followed by a weak one.
- `hash_set`: one key, two doublings (4 to 16) that move it twice; four nodes; up
  to three calls of one thread beside two of the other. The fifth plan has two keys
  that move together, so that a split throws with one of them copied.
- `rcu_hash_set`: three nodes, up to three keys, up to two doublings. The sixth
  plan is there for the split whose parent is not split itself.
- `thread`: a six-bit `size_t` with requests at its edges; two threads, two
  objects, two launches. The proof covers every width.

Symmetry is declared for nodes, objects or writers that only their identity tells
apart, and only in runs without liveness.

Deadlock is checked, except where the system may stop: `thread` (`std::terminate`
ends a program, and all launches may be used up) and `rcu_hash_set` (a thread
whose calls are used up is done, and the plan names no further work). The other
modules with bounded calls state their end as an action of its own, or can always
begin another call.

### Fairness

Fairness says that a thread inside a call goes on running, which is what a
preemptive scheduler gives, and in addition:

- `RingQueue`: pops keep being called and one of their callers gets the head lock
  (strong, because the lock is contended; `SpinLock` shows somebody acquires it).
- `GenerationRing`: handles are eventually destroyed and `reclaim()` is called
  again, which the class asks of its users. `Leave` is strong because a refresh
  may come between. Nobody is obliged to create handles.
- `SeqLock`, `AtomicMax`: a thread that keeps loading reads a new value in the end
  (the standard's visibility requirement); a weak exchange does not fail
  spuriously for ever.
- `SpinLock`: critical sections end. Only that *somebody* acquires is claimed; the
  lock is not fair, and a single waiter may starve.
- `ThreadLife`: callables return unless they are kept waiting (strong: a callable
  that uses other objects of the class is still asked to return in the end).
- `LockFreeList`: nothing in addition. That calls of others pause is no fairness but the
  condition of the property.

The hash sets have no liveness property: their calls return only if other threads
stop changing the bucket, and the reason a retry is not in vain is a safety
property (`SealShowsSize`); likewise `RetriesAdvance` for the hazard-pointer load.

## 4. What is proved

`QueueProofs` (modules `RingQueue`, `RingQueueRefinement`, `KeyQueue` and
`KeyQueueRefinement`), for any set of threads, any capacity above one, any index
modulus that is a multiple (at least two) of the capacity, any `NTRY` above zero and
any bound on the indices:

- `RingCorrect`: `Spec => []RingInv`, the invariant the run checks. It is its own
  strengthening. The claims one wants (nobody shares a slot, values are constructed
  in raw storage only, the destructor destroys what is alive) are not inductive:
  whether a producer may claim depends on the number in the slot, which is
  right because of who claimed that slot a lap ago. `RingInv` therefore relates all
  of the window `[tail - Capacity, tail)`: the number of each slot (`SlotStates`),
  the thread that has claimed it and not finished (`Owners`), whether its value is
  alive (`SlotValues`), what the lock holders have loaded and how it may have
  changed since (`LocksAndLoads`, `ObservedSequence`), and the width of the window
  (`IndexWindow`). The proof has one lemma per action. Arithmetic lemmas show that
  two indices less than the modulus apart have different words, so that a number
  of another lap is never taken for one of this.
- `RightAnswersHold` (the property `RightAnswers`), `SlotOwnershipHolds`,
  `ValueLifetimeHolds`, `IndexWindowHolds`, `ObservedSequenceHolds`,
  `ValuesAtQuiescenceHolds`, `EmptyAnswerHolds`, `DrainingMeansEmptyHolds` and
  `FullAnswerHolds` follow from it.
- `RefinementCorrect`: `Spec => RefinesFifo`. An element is in the abstract queue
  from its producer's claim to its consumer's, so its value is with the producer
  (`push_claimed`) or in its slot, and a claimed one is the consumer's before it is
  moved out. `ValueFrame` and `TakenStep` say which steps leave an element or
  a thread's result alone, and one lemma per kind of step says what it maps to:
  the claims are `Push` and `Pop`, an empty answer is `PopNothing`, the destructor
  is `Destroy`, the rest stutters. `RingInv` is needed in both states: the guard of
  a claim is a comparison of words read earlier, and it is the invariant
  that makes the slot the head's or the tail's, and slots of one window distinct.
- `KeyQueueCorrect`: `KeySpec => []SlotsMatchWindow`. The two sides share only the
  key atomics, so `head_.i` may pass `tail_.i` for a moment and neither bounds the
  other. What bounds them is the keys: they fill a window of at most `Capacity`
  indices (`KeyWindow`), whose ends are the counters corrected by one where a
  thread is between its store and its increment. `KeyOwners` adds what makes this
  inductive: who is inside each lock, and that an empty slot found by a producer,
  or the key found by a consumer, is still there when it stores.
- `KeyRefinementCorrect`: `KeySpec => KeyRefinesFifo`. The abstract queue is the keys
  along the window. The store of a key maps to `Push`, the store of the null key to
  `Pop`, and an old value that a load returns maps to a stutter or a refusal that
  the abstract queue also allows.

`LockFreeListProofs` (module `LockFreeList`), for any set of threads, any nodes and any
uses, with marking or without; without marking only one thread erases
(`EraserAssumption`), since the header leaves concurrent erasures open there:

- `ListCorrect`: `Spec => []LiveNodesLinked`. `ErasedStayOut`: `Spec => NoResurrection`.
  `FalseAnswersRight`: `Spec => FalseIsRight`, the part of `EraseReturns` about answers.
- What is ahead of a node is defined without recursion: a node is ahead if no set that
  is closed under `next` misses it. A claim about all nodes ahead is then proved by
  naming a closed set, and no induction is needed (`AheadLeast`, `AheadClosed`). The
  lemmas on `Ahead` say what one exchange of a `next` word does to it: linking a node
  adds that node, and swinging past a node takes at most that node away.
- `ListsInv` has what makes the promises inductive: what each call has read and may
  rely on (`CallInv`: a new node is nobody else's, the target of an unlink is marked,
  and its `next` will not change again), which nodes are marked (`ListInv`), that a
  thread that has synchronised with a node has with its successor, or gets it
  with the next acquire (`SeenInv`, for every word's `pub`), and that the live nodes
  are on the path from the head (`PathInv`). Without marking the argument is another
  one: the list is a path on which no two nodes have one successor (`Injective`), so
  what the eraser swings past is gone; its anchor, its target and the successor it
  has read are on that path, in this order (`EraserOK`), as nobody else takes nodes off.

`AppendDequeProofs` (module `AppendDeque`), for any threads, any block size, any bound
on the size and any number of failing allocations:

- `DequeReadsSafe`: `Spec => []SafeReads`. `DequeAppendsKept`: `Spec => []AppendsKept`.
- Why a wait-free read is safe takes the whole history. A reader has a size from one
  store and a directory from another, both perhaps old. `SizesOK` says that each store
  of `size_` came after a directory with the blocks of all elements below it, and after
  their construction. `Chain` says that every later directory has the blocks of every
  earlier one. So the directory a thread that knows the size may load is one of those
  (`PublishedFound`), and nothing was written there since. Neither is inductive
  alone: `EntriesOK` adds that a block belongs to one slot of every
  directory, without which an element under construction might be a published one
  (`AddressesDiffer`), and `Holder` what the lock's holder has done between its
  allocations, its constructions and its store of `size_`, also when it started from
  blocks that a failed call left behind.
- The other conjuncts of `DequeInv` are what each thread knows and has read
  (`SeenOK`, `ReadOK`), that an iterator's cached pointer is its index's element
  (`CacheOK`), that retired directories and the one in use are all there are
  (`DirsKept`), and who made the elements whose index was returned (`AppendedOK`).
- The proof treats the log as a constant: four lemmas say what one more store of each
  kind does to it (`StoreDir`, `StoreEntry`, `StoreMake`, `StoreSize`), and one
  (`Stable`) that a longer log leaves alone what a thread knows. `Ordered`, that the
  naturals up to the length of the log are well-ordered, is carried by the invariant,
  since the latest store is a maximum and its existence needs an induction.

`GenerationRingProofs` (module `GenerationRing`), for any finite set of handles, any
set of callers of `reclaim()`, any nodes, any ring of at least two blocks, and any
bounds on the age of a load and the number of retires:

- `ReclaimCorrect`: `Spec => NoReclaimUnderSession`, the promise the list relies on.
  `CountsCorrect`: `Spec => []CountsExact`, and `RingCorrect`: `Spec => []RingShape`.
- All three come from one invariant, `GenInv`, because each needs the others: that a
  count of zero means no session needs the exact counts, that a session's block
  cannot be recycled needs the count tested before it, and that the block of the
  next generation is the empty one needs the window. `WindowInv` says that the blocks
  are a window of consecutive generations, one to a slot; `FlagInv` that one caller
  is inside and what it has tested is still so; `HandleOK` that a session's block is
  in the ring and a refresh under way leaves a generation behind the current one;
  `QuietInv` that a bag about to be freed has no session, not even one between its
  join and its leave; `SeesOK`, the heart of it, that a session comes upon no node
  bagged before the generation it has joined. A late joiner on a recycled block is
  the difficult case: its count is there, but no session is, since the second look
  at `current_` comes first.

`IntrSharedPtrProofs` (module `IntrSharedPtr`), for any finite set of threads, any
objects, and any choice of calls per thread:

- `PtrCorrect`: `Spec => []CountsExact`. `PtrInv` adds mutual exclusion by the lock bit
  and that its holder knows the word (`LockInv`), which locals of a call are
  references of their own (`LocalOK`), and that only finitely many objects exist,
  each referring to others only while it does (`CountInv`). References are counted
  as a sum of cardinalities, and each step shows that the count of an object and
  the sum change by the same amount, also where a thread stores what it already
  refers to, or releases the last reference to an object with a child.

`ThreadLifeProofs` (module `ThreadLife`), for any threads, objects, signals and
states, and any number of launches:

- `ThreadLifeCorrect`: `LifeSpec => []OneOwner`. `LifeInv` says whose call an object is
  in (`CallInv`), that handles and undetached threads correspond one to one apart
  from the handle a failed `pthread_create()` wrote (`OwnInv`), that every copied
  state has one holder, constructor or thread (`CopyInv`, by counting too), and what
  the creator's mask is at each step of the constructor (`MaskInv`).

`PrimitivesProofs`:

- `SpinLockCorrect`: `SpinSpec => []MutualExclusion` (module `SpinLock`), for any
  threads, burst and rounds. The tests may read old values; only the exchange counts.
- `SeqLockCorrect`: `SeqSpec => []ValidatedGeneration` (module `SeqLock`), for any
  readers, writers and number of writes. `WriterInv` says what the newest
  counter known with each generation can be, and `ReaderInv` that a reader which has
  a generation knows at least that counter, so that equal counters before and after
  mean that generation.
- `AtomicMaxCorrect`: `MaxSpec => []IsMaximum` (module `AtomicMax`), for any callers and
  any integers. The invariant is about the whole history of the target: it
  increases, and each entry publishes its setter's data and what that setter saw.
- `OverflowCorrect` (module `ThreadStack`), for every width of `size_t`, every machine
  whose page size and TLS alignment divide `SizeMax + 1` (and each other where the
  alignment is the smaller), every request and default: `AttrOwner` rejects a request
  exactly when the rounded stack with its guard does not fit. The proof bounds every
  intermediate sum, so that each of the overflow tests is shown to be met where it is
  needed and only there.
- `StackCorrect`: for every stagger and every placement of the descriptor the
  callable has at least the stack asked for, if the class's own frames take what is
  allowed for them (section 2). It rests on the former. `SizesCorrect` is
  both, the property `SizesRight` of the run.

`ModuloLemmas` has the facts about quotients and remainders that the rings and the
blocks of the deque share.

The assumptions are the `ASSUME`s of `QueueParameters`, `RingQueue`, `LockFreeList`,
`AppendDeque`, `GenerationRing`, `IntrSharedPtr`, `ThreadLife`, `SpinLock`, `SeqLock`, `AtomicMax` and
`ThreadStack`: sizes are natural numbers, names of nothing differ from names of
something, and what is counted is finite. TLC evaluates them in the runs.

Only model-checked:

- all liveness (`Delivered`, `Reclaimed`, `Progress`, `JoinReturns`, and in
  `EraseReturns` that a call returns): fairness and `ENABLED` are out of the prover's reach;
- that a retry of `erase_after()` follows a change (`RetryAfterExchange`): the proof would
  need that a node is never its own successor, which `ListsInv` does not say;
- `RcuList`, `ConcurrentHashSet`, `HashSetRcu`: their properties speak of what is
  reachable along links, or along chains built by recursive definitions, which needs
  induction over data. For `RcuList` the closed sets of `LockFreeList` would do;
- `HpSharedPtr`, `ShardedRing`: nothing stands in the way but size. Their invariants
  relate a history and a view per thread (`HpSharedPtr`) or sums over shards
  (`ShardedRing`), and the inductive forms are not worked out.

## 5. What is abstracted

- Keys, values, nodes and objects are names. Hashes are small functions chosen so
  that keys part, collide, or part only at the second doubling.
- Parks, sleeps, pauses and timers are steps without a duration.
- Statistics, debug session numbers, poisoning, assertions and hooks are left out.
- In `HashSetRcu` and `ConcurrentHashSet` heads and links are read newest, where the
  code has acquire loads. An exchange compares the word that was loaded; a lookup
  that answers from an older head or link is not covered.
- `ShardedRing` models `current_` at most one publish late and each shard's list
  as a sequence; the flag holder's plain fields move with the access next to them.
- `RcuList` splices a bag node by node in any order, `GenerationRing` as a whole.

## 6. Not modelled

- `Spinlock/spinlock_tune.h`, `spinlock_tune_configs.h`: the lock of `spinlock.h`
  with its waiting policy as template parameters, for tuning benchmarks. The
  atomic accesses are those of `SpinLock`.
- `SharedPtr/atomic_shared_ptr_concept.h`: compile-time concepts and a forwarding
  adapter to the standard library. It has no state.
- `IntrSharedPtr/hp_drain.h`, `hp_drain_gtest.h`: test support, whose effect depends
  on `mm_hp`'s scan threshold, which is not in the repository.
- `Spinlock/gb_wall_clock.h`, `spinlock_bm_common.h`, `spinlock_scope_common.h`,
  `ConcurrentQueue/latbench_common.h`, `LockFreeListRCU/rcu_test_common.h`,
  `ConcurrentHashRCU/concurrent_hash_set_rcu_bm.h`, and the benchmark and test
  programs: they drive the components and are not part of them.
- In the modelled headers: constructors that only set members, static assertions,
  type traits, statistics accessors, and the accounting sweep of debug builds.
- A wrap of the sequence lock's 64-bit counter under a sleeping reader (2^63
  writes): the model's counter is a natural number.
- In both hash sets, exceptions from the user's hash function and `==`; only those of
  allocations and copies are modelled.
- A composition of chains and ring in one state space; it is beyond TLC at the
  bounds at which either half is interesting.

**Coverage.** `PROJECT.json` maps about 2,900 source lines, about a tenth of the
roughly 30,000 raw lines of the 58 source files that are not unit tests. This is
below what a line count would ask for and is not for want of components: of those
lines about 4,100 are function bodies in the library's headers, and the rest are
comments (the headers argue their memory orders at length), declarations,
benchmarks and drivers. The map names code lines a definition translates and is
not stretched over the comments between them.

## 7. Finding

The class comment of the ring queue says that a blocked tail slot means "all
capacity slots are taken: the queue is full" (`ConcurrentQueue/concurrent_queue.h:184`).
`ring_queue_full_claim` shows otherwise: the consumer of index *i - capacity* is
still draining its slot while the consumer of the next index has released its own.
Nothing is queued, a slot is free, and `push()` is refused. What does hold, and is
proved, is `FullAnswer`: a refusal means that `capacity` elements are queued or
that the previous lap's consumer is still in the slot.

## 8. Hazards and what comes next

`PROJECT.json` lists the hazards with the properties that would catch them.
Worth doing next, in this order: an inductive invariant for `ShardedRing` (that of `GenerationRing` with the counts spread over shards), then
for `HpSharedPtr`.
