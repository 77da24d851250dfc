------------------------------ MODULE AppendDeque -----------------------------
(***************************************************************************)
(* ConcurrentAppendDeque of ConcurrentDeque/concurrent_deque.h.  Writers   *)
(* are serialised by the spin lock, so all their writes to shared memory   *)
(* stand in one happens-before order: `log'.  A thread's `view' is the     *)
(* prefix of the log that happens before its next step.  An acquire load   *)
(* of size_ or directory_ may return any store not older than the newest   *)
(* one in the view, and extends the view to that store; taking the lock    *)
(* extends it to the whole log.  A plain read is safe when no write to the *)
(* same place lies beyond the view.                                        *)
(*                                                                         *)
(* A directory and a block are named by the position in the log of the     *)
(* write that made them reachable; 0 is the null pointer.  An element      *)
(* address is a block and an offset.  Elements are who made them.          *)
(***************************************************************************)
EXTENDS Integers, Sequences, FiniteSets, FiniteSetsExt

CONSTANTS Threads,
          Casts,         \* who appends, resizes and reserves, who iterates,
                         \* and how many allocations may fail (a bound)
          BlockSize,
          MaxSize,       \* bound: elements ever appended
          NoThread, Unset

ASSUME CastsAssumption ==
    Casts \subseteq [writers : SUBSET Threads, iterators : SUBSET Threads,
                    maxFailures : Nat]
ASSUME BlockAssumption == BlockSize \in Nat \ {0}
ASSUME BoundsAssumption == MaxSize \in Nat
ASSUME NamesAssumption == NoThread \notin Threads /\ Unset \notin Nat \X Nat

VARIABLES cast,       \* the member of Casts that this behaviour plays
          log,        \* stores to directory_, its entries, elements, size_
          owner,      \* holder of spinlock_
          retired,    \* retired_directories_
          th,         \* per thread: pc, locals, view, largest size observed
          it,         \* per iterator: index_ and current_element_
          failures,   \* allocations that failed
          appended,   \* ghost: emplace_back results, with their callers
          freed       \* what the destructor released, once it ran

vars == <<cast, log, owner, retired, th, it, failures, appended, freed>>

Writers == cast.writers
Iterators == cast.iterators
Users == Writers \cup Iterators

Now == Len(log)
Stores(op) == {k \in 1..Now : log[k].op = op}
Latest(op, v) == Max({0} \cup {k \in Stores(op) : k <= v})
Readable(op, v) == {Latest(op, v)} \cup {k \in Stores(op) : k > v}

SizeAt(k) == IF k = 0 THEN 0 ELSE log[k].val
size_ == SizeAt(Latest("size", Now))
directory_ == Latest("dir", Now)
CapacityOf(d) == IF d = 0 THEN 0 ELSE log[d].cap
directory_capacity_ == CapacityOf(directory_)
capacity == directory_capacity_ * BlockSize

EntryStores(d, s) == {k \in Stores("entry") : log[k].dir = d /\ log[k].slot = s}
Entry(d, s) ==
    IF EntryStores(d, s) = {} THEN log[d].blocks[s] ELSE Max(EntryStores(d, s))
BlockOf(i) == i \div BlockSize
OffsetOf(i) == i % BlockSize
BlocksFor(n) == (n + BlockSize - 1) \div BlockSize
Address(d, i) == <<Entry(d, BlockOf(i)), OffsetOf(i)>>
Makes(a) == {k \in Stores("make") : log[k].addr = a}

Init ==
    /\ cast \in Casts
    /\ log = <<>>
    /\ owner = NoThread
    /\ retired = {}
    /\ th = [t \in Threads |->
              [pc |-> "idle", op |-> "none", arg |-> 0, i |-> 0, dir |-> 0,
               view |-> 0, known |-> 0]]
    /\ it = [t \in Threads |-> [index |-> 0, elem |-> Unset]]
    /\ failures = 0
    /\ appended = {}
    /\ freed = Unset

Idle(t) == th[t].pc = "idle" /\ freed = Unset

(* Thread t returns, having observed the size to be n.                     *)
Return(t, v, n) ==
    th' = [th EXCEPT ![t] = [pc |-> "idle", op |-> "none", arg |-> 0, i |-> 0,
                             dir |-> 0, view |-> v, known |-> n]]

\* Mutant: the size is loaded relaxed.
ViewRelaxed(t, k) == th[t].view

(* The view of t once its acquire load has returned the k-th store.        *)
ViewAfter(t, k) == IF k > th[t].view THEN k ELSE th[t].view

(* The stores that size_.load(acquire) by t may return.                    *)
SizeStores(t) == Readable("size", th[t].view)

-----------------------------------------------------------------------------
(* Writers.                                                                *)

Call(t, o, n) ==
    /\ Idle(t)
    /\ th' = [th EXCEPT ![t] = [@ EXCEPT !.pc = "lock", !.op = o, !.arg = n]]
    /\ UNCHANGED <<log, owner, retired, it, failures, appended, freed, cast>>

Emplace_back(t) == size_ < MaxSize /\ Call(t, "emplace_back", 0)
Reserve(t) == \E n \in 1..MaxSize : Call(t, "reserve", n)

(* resize() begins with the unlocked check.                                *)
Resize(t) ==
    /\ Idle(t)
    /\ \E n \in 1..MaxSize, k \in SizeStores(t) :
        IF n <= SizeAt(k)
        THEN Return(t, ViewAfter(t, k), SizeAt(k))
        ELSE th' = [th EXCEPT ![t] = [@ EXCEPT !.pc = "lock", !.op = "resize", !.arg = n,
                                               !.view = ViewAfter(t, k)]]
    /\ UNCHANGED <<log, owner, retired, it, failures, appended, freed, cast>>

\* Mutant: emplace_back takes the size it saw before it had the lock.
LockStale(t) ==
    /\ th[t].pc = "lock"
    /\ owner = NoThread
    /\ owner' = t
    /\ th' = [th EXCEPT ![t] = [@ EXCEPT !.pc = "grow", !.view = Now,
                                         !.i = IF th[t].op = "emplace_back"
                                               THEN th[t].known ELSE size_]]
    /\ UNCHANGED <<log, retired, it, failures, appended, freed, cast>>

(* The lock is taken and the size re-read under it.                        *)
Lock(t) ==
    /\ th[t].pc = "lock"
    /\ owner = NoThread
    /\ th[t].op = "emplace_back" => size_ < MaxSize
    /\ owner' = t
    /\ th' = [th EXCEPT ![t] = [@ EXCEPT !.pc = "grow", !.view = Now, !.i = size_]]
    /\ UNCHANGED <<log, retired, it, failures, appended, freed, cast>>

(* The lock_guard goes out of scope.                                       *)
Unlock(t, n) == owner' = NoThread /\ Return(t, th[t].view, n)

(* The directory capacity, in blocks, that the call needs.                 *)
NewCapacity(t) ==
    CASE th[t].op = "emplace_back" ->
            IF BlockOf(th[t].i) < directory_capacity_ THEN directory_capacity_
            ELSE IF directory_capacity_ = 0 THEN 1 ELSE directory_capacity_ * 2
      [] th[t].op = "resize" -> BlocksFor(th[t].arg)
      [] th[t].op = "reserve" ->
            IF th[t].arg > capacity THEN BlocksFor(th[t].arg) ELSE 0

Grows(t) == NewCapacity(t) > directory_capacity_

(* resize() finds under the lock that another thread made it long enough,  *)
(* or reserve() that there is room.                                        *)
NothingToDo(t) ==
    /\ th[t].pc = "grow"
    /\ \/ th[t].op = "resize" /\ th[t].arg <= size_
       \/ th[t].op = "reserve" /\ ~Grows(t)
    /\ Unlock(t, size_)
    /\ UNCHANGED <<log, retired, it, failures, appended, freed, cast>>

Working(t) ==
    th[t].pc = "grow" /\ (th[t].op = "resize" => th[t].arg > size_)

Write(t, w, pc, i) ==
    /\ log' = Append(log, w)
    /\ th' = [th EXCEPT ![t] = [@ EXCEPT !.pc = pc, !.view = Now + 1, !.i = i]]

(* What reallocate_directory copies into the new array.                    *)
DirectoryFrom(c) ==
    [s \in 0..(c - 1) |->
        IF s < directory_capacity_ THEN Entry(directory_, s) ELSE 0]

(* reallocate_directory succeeds: the old array is retired and the filled  *)
(* new one published.                                                      *)
Reallocate_directory(t) ==
    /\ Working(t)
    /\ Grows(t)
    /\ retired' = retired \cup ({directory_} \ {0})
    /\ Write(t, [op |-> "dir", cap |-> NewCapacity(t),
                 blocks |-> DirectoryFrom(NewCapacity(t))],
             IF th[t].op = "reserve" THEN "done" ELSE "block", th[t].i)
    /\ UNCHANGED <<owner, it, failures, appended, freed, cast>>

RoomEnough(t) ==
    /\ Working(t)
    /\ ~Grows(t)
    /\ th[t].op # "reserve"
    /\ th' = [th EXCEPT ![t].pc = "block"]
    /\ UNCHANGED <<log, owner, retired, it, failures, appended, freed, cast>>

HasBlock(t) == Entry(directory_, BlockOf(th[t].i)) # 0

Allocate_block(t) ==
    /\ th[t].pc = "block"
    /\ ~HasBlock(t)
    /\ Write(t, [op |-> "entry", dir |-> directory_, slot |-> BlockOf(th[t].i)],
             "make", th[t].i)
    /\ UNCHANGED <<owner, retired, it, failures, appended, freed, cast>>

BlockPresent(t) ==
    /\ th[t].pc = "block"
    /\ HasBlock(t)
    /\ th' = [th EXCEPT ![t].pc = "make"]
    /\ UNCHANGED <<log, owner, retired, it, failures, appended, freed, cast>>

(* new throws bad_alloc, for a directory, its registration or a block.     *)
BadAlloc(t) ==
    /\ (Working(t) /\ Grows(t)) \/ (th[t].pc = "block" /\ ~HasBlock(t))
    /\ failures < cast.maxFailures
    /\ failures' = failures + 1
    /\ Unlock(t, th[t].known)
    /\ UNCHANGED <<log, retired, it, appended, freed, cast>>

(* construct_at, of the caller's value or the default one.                 *)
Construct(t) ==
    /\ th[t].pc = "make"
    /\ Write(t, [op |-> "make", addr |-> Address(directory_, th[t].i),
                 by |-> IF th[t].op = "resize" THEN NoThread ELSE t],
             IF th[t].op = "resize" /\ th[t].i + 1 < th[t].arg
             THEN "block" ELSE "publish",
             th[t].i + 1)
    /\ UNCHANGED <<owner, retired, it, failures, appended, freed, cast>>

(* The release store of size_.                                             *)
Publish(t) ==
    /\ th[t].pc = "publish"
    /\ Write(t, [op |-> "size", val |-> th[t].i], "done", th[t].i)
    /\ UNCHANGED <<owner, retired, it, failures, appended, freed, cast>>

(* The call returns: resize()'s caller may rely on the new size and        *)
(* emplace_back()'s on the element it added.                               *)
Finish(t) ==
    /\ th[t].pc = "done"
    /\ Unlock(t, IF th[t].op = "reserve" THEN th[t].known ELSE th[t].i)
    /\ appended' = IF th[t].op = "emplace_back"
                   THEN appended \cup {<<th[t].i - 1, t>>} ELSE appended
    /\ UNCHANGED <<log, retired, it, failures, freed, cast>>

-----------------------------------------------------------------------------
(* Readers.                                                                *)

Size(t) ==
    /\ Idle(t)
    /\ \E k \in SizeStores(t) : Return(t, ViewAfter(t, k), SizeAt(k))
    /\ UNCHANGED <<log, owner, retired, it, failures, appended, freed, cast>>

ToDirectory(t, o, i, v, n) ==
    th' = [th EXCEPT ![t] = [@ EXCEPT !.pc = "dir", !.op = o, !.arg = i,
                                      !.view = v, !.known = n]]

(* at(): checked against the size, or it throws out_of_range.              *)
At(t) ==
    /\ Idle(t)
    /\ \E i \in 0..MaxSize, k \in SizeStores(t) :
        IF i < SizeAt(k) THEN ToDirectory(t, "index", i, ViewAfter(t, k), SizeAt(k))
                         ELSE Return(t, ViewAfter(t, k), SizeAt(k))
    /\ UNCHANGED <<log, owner, retired, it, failures, appended, freed, cast>>

(* operator[], front() and back(), within the size the thread observed.    *)
Subscript(t) ==
    /\ Idle(t)
    /\ \E i \in 0..(th[t].known - 1) :
        ToDirectory(t, "index", i, th[t].view, th[t].known)
    /\ UNCHANGED <<log, owner, retired, it, failures, appended, freed, cast>>

(* directory_.load(acquire).                                               *)
LoadDirectory(t) ==
    /\ th[t].pc = "dir"
    /\ \E d \in Readable("dir", th[t].view) :
        th' = [th EXCEPT ![t] = [@ EXCEPT !.pc = "deref", !.dir = d,
                                          !.view = ViewAfter(t, d)]]
    /\ UNCHANGED <<log, owner, retired, it, failures, appended, freed, cast>>

(* dir[i >> BlockShift][i & BlockMask].                                    *)
Dereference(t) ==
    /\ th[t].pc = "deref"
    /\ it' = IF th[t].op = "index" THEN it
             ELSE [it EXCEPT ![t].elem = Address(th[t].dir, th[t].arg)]
    /\ Return(t, th[t].view, th[t].known)
    /\ UNCHANGED <<log, owner, retired, failures, appended, freed, cast>>

-----------------------------------------------------------------------------
(* Iterators.                                                              *)

ToConstructor(t, i, v, n) ==
    /\ th' = [th EXCEPT ![t] = [@ EXCEPT !.pc = "ctor", !.view = v, !.known = n]]
    /\ it' = [it EXCEPT ![t] = [index |-> i, elem |-> Unset]]

Begin(t) ==
    /\ Idle(t)
    /\ ToConstructor(t, 0, th[t].view, th[t].known)
    /\ UNCHANGED <<log, owner, retired, failures, appended, freed, cast>>

End(t) ==
    /\ Idle(t)
    /\ \E k \in SizeStores(t) :
        ToConstructor(t, SizeAt(k), ViewAfter(t, k), SizeAt(k))
    /\ UNCHANGED <<log, owner, retired, failures, appended, freed, cast>>

(* The constructor resolves the element eagerly when it is published.      *)
IteratorConstructor(t) ==
    /\ th[t].pc = "ctor"
    /\ \E k \in SizeStores(t) :
        IF it[t].index < SizeAt(k)
        THEN ToDirectory(t, "iter", it[t].index, ViewAfter(t, k), SizeAt(k))
        ELSE Return(t, ViewAfter(t, k), SizeAt(k))
    /\ UNCHANGED <<log, owner, retired, it, failures, appended, freed, cast>>

(* operator*() without a cached element resolves it.                       *)
Star(t) ==
    /\ Idle(t)
    /\ it[t].elem = Unset
    /\ it[t].index < th[t].known
    /\ ToDirectory(t, "iter", it[t].index, th[t].view, th[t].known)
    /\ UNCHANGED <<log, owner, retired, it, failures, appended, freed, cast>>

Shift(a, n) == IF a = Unset THEN Unset ELSE <<a[1], a[2] + n>>

Moves(t, i, a) ==
    /\ it' = [it EXCEPT ![t] = [index |-> i, elem |-> a]]
    /\ UNCHANGED <<log, owner, retired, th, failures, appended, freed, cast>>

(* operator++                                                              *)
Increment(t) ==
    /\ Idle(t)
    /\ it[t].index < th[t].known
    /\ Moves(t, it[t].index + 1,
             IF OffsetOf(it[t].index + 1) = 0 THEN Unset
             ELSE Shift(it[t].elem, 1))

(* operator--                                                              *)
Decrement(t) ==
    /\ Idle(t)
    /\ it[t].index > 0
    /\ Moves(t, it[t].index - 1,
             IF OffsetOf(it[t].index) = 0 THEN Unset
             ELSE Shift(it[t].elem, -1))

(* operator+=, operator-=: a jump to i.                                    *)
Jump(t) ==
    /\ Idle(t)
    /\ \E i \in 0..th[t].known \ {it[t].index} :
        Moves(t, i, IF BlockOf(i) = BlockOf(it[t].index)
                    THEN Shift(it[t].elem, i - it[t].index) ELSE Unset)

-----------------------------------------------------------------------------
(* The destructor: nobody else uses the deque.  It destroys the elements   *)
(* below size_, and frees the blocks of the current directory and every    *)
(* directory.                                                              *)
Destroy ==
    /\ \A t \in Threads : Idle(t)
    /\ freed' = [elements |-> {Address(directory_, i) : i \in 0..(size_ - 1)},
                 blocks |-> {Entry(directory_, s) :
                               s \in 0..(directory_capacity_ - 1)} \ {0},
                 dirs |-> retired \cup ({directory_} \ {0})]
    /\ UNCHANGED <<log, owner, retired, th, it, failures, appended, cast>>

Destroyed == freed # Unset /\ UNCHANGED vars

Writer(t) ==
    \/ Emplace_back(t) \/ Reserve(t) \/ Resize(t) \/ Lock(t) \/ NothingToDo(t)
    \/ Reallocate_directory(t) \/ RoomEnough(t) \/ Allocate_block(t)
    \/ BlockPresent(t) \/ BadAlloc(t) \/ Construct(t) \/ Publish(t) \/ Finish(t)

Reader(t) == Size(t) \/ At(t) \/ Subscript(t) \/ LoadDirectory(t) \/ Dereference(t)

Iterate(t) ==
    \/ Begin(t) \/ End(t) \/ IteratorConstructor(t) \/ Star(t)
    \/ Increment(t) \/ Decrement(t) \/ Jump(t)

Next ==
    \/ \E t \in Writers : Writer(t)
    \/ \E t \in Users : Reader(t)
    \/ \E t \in Iterators : Iterate(t)
    \/ Destroy
    \/ Destroyed

Spec == Init /\ [][Next]_vars

-----------------------------------------------------------------------------
(* The types, of the log's entries in particular.                          *)
TypeOK ==
    /\ cast \in Casts
    /\ \A k \in 1..Now :
        \/ log[k].op = "dir" /\ DOMAIN log[k].blocks = 0..(log[k].cap - 1)
        \/ log[k].op = "entry" /\ log[k].slot \in 0..(CapacityOf(log[k].dir) - 1)
        \/ log[k].op = "make" /\ log[k].addr \in (1..Now) \X (0..(BlockSize - 1))
        \/ log[k].op = "size" /\ log[k].val \in 1..MaxSize
    /\ owner \in Threads \cup {NoThread}
    /\ retired \subseteq Stores("dir")
    /\ th \in [Threads ->
                [pc : {"idle", "lock", "grow", "block", "make", "publish",
                       "done", "dir", "deref", "ctor"},
                 op : {"none", "emplace_back", "resize", "reserve", "index", "iter"},
                 arg : 0..MaxSize, i : 0..MaxSize, dir : 0..Now,
                 view : 0..Now, known : 0..MaxSize]]
    /\ \A t \in Iterators :
        /\ it[t].index \in 0..MaxSize
        /\ it[t].elem \in {Unset} \cup (1..Now) \X (0..(BlockSize - 1))

(* Element i, read through directory d with view v: the entry exists, it   *)
(* was written, and the element constructed, before the read and not since.*)
Visible(d, i, v) ==
    /\ BlockOf(i) < CapacityOf(d)
    /\ Entry(d, BlockOf(i)) # 0
    /\ \A k \in EntryStores(d, BlockOf(i)) : k <= v
    /\ Makes(Address(d, i)) # {}
    /\ \A k \in Makes(Address(d, i)) : k <= v

(* The iterator's cached pointer is the element of its index, in every     *)
(* directory that reaches it, and may be read when the index is in the     *)
(* size the thread observed.                                               *)
IteratorCache ==
    \A t \in Iterators : it[t].elem # Unset =>
        /\ BlockOf(it[t].index) < directory_capacity_
        /\ it[t].elem = Address(directory_, it[t].index)
        /\ it[t].index < th[t].known => Visible(directory_, it[t].index, Now)

(* A wait-free read never meets a null directory, an entry or an element   *)
(* that is missing or still being written, however old or new the          *)
(* directory it loaded: operator[], at() and the iterators, with their     *)
(* cached pointers, and callers that rely on what resize() and             *)
(* emplace_back() returned.                                                *)
SafeReads ==
    /\ \A t \in Threads :
          th[t].pc = "deref" => Visible(th[t].dir, th[t].arg, th[t].view)
    /\ IteratorCache

(* References stay valid: an element that any store of size_ published is  *)
(* still at the address it had then, and nothing was constructed over it.  *)
ElementsStay ==
    \A k \in Stores("size") : \A i \in 0..(SizeAt(k) - 1) :
        LET a == Address(Latest("dir", k), i) IN
        Address(directory_, i) = a /\ \A m \in Makes(a) : m < k

(* The destructor frees every block and every directory ever allocated,    *)
(* failed calls included, and destroys constructed elements only.          *)
NothingLeaks ==
    freed # Unset =>
        /\ freed.blocks = Stores("entry")
        /\ freed.dirs = Stores("dir")
        /\ freed.elements \subseteq {log[k].addr : k \in Stores("make")}

(* No append is lost: the index emplace_back returned holds the element    *)
(* its caller made, whatever grew, failed or was reallocated since; the    *)
(* references stay valid until the destructor, which leaks nothing.        *)
AppendsKept ==
    /\ TypeOK /\ ElementsStay /\ NothingLeaks
    /\ \A p \in appended :
         /\ p[1] < size_
         /\ log[Max(Makes(Address(directory_, p[1])))].by = p[2]

=============================================================================
