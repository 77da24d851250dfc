----------------------------- MODULE MCReferences -----------------------------
(* Two ways a reference keeps memory, checked in one run: the counted      *)
(* objects of intr_shared_ptr and the handles of the sharded generation    *)
(* ring.  A behaviour exercises one of the two, its subject, and leaves    *)
(* the other at rest.                                                      *)
EXTENDS IntrSharedPtr, ShardedRing

CONSTANTS a, b, x1, x2, w1, w2, w3

MCThreads == {a, b}
MCObjects == {x1, x2}

(* A thread that builds, links and publishes against one that loads,       *)
(* steps to the child and exchanges.  The first copies its handle, or      *)
(* swaps it with a child's, by the subject.                                *)
MCCalls == (a :> {"make", "copy", "adopt", "swap", "store"})
        @@ (b :> {"load", "copy", "assign", "cas"})

(* Workers 1 and 3 share a shard.                                          *)
MCWorkers == {w1, w2, w3}
Of(i, j, k) == (w1 :> i @@ w2 :> j @@ w3 :> k)
MCNumbers == Of(0, 1, 2)
Uses == {"join", "alloc", "retire"}

\* A user and a session on another shard, with a reclaimer; an allocator and its batch-mate,
\* which reclaims; handles refreshed and moved between threads; advance()
\* beside a user whose retires trigger; two users that trigger; one that goes
\* on until the counter of a free list wraps.
MCBriefs ==
    {[does |-> Of(Uses, {"join"}, {"reclaim"}), slots |-> 1, allocs |-> 2, reclaims |-> 2],
     [does |-> Of({"join", "alloc"}, {}, Uses \cup {"reclaim"}),
      slots |-> 2, allocs |-> 3, reclaims |-> 2],
     [does |-> Of({"join", "refresh", "swap", "move"}, {"join"}, Uses \cup {"reclaim"}),
      slots |-> 1, allocs |-> 1, reclaims |-> 2],
     [does |-> Of(Uses, {"advance"}, {}), slots |-> 1, allocs |-> 2, reclaims |-> 3],
     [does |-> Of(Uses, Uses, {}), slots |-> 2, allocs |-> 4, reclaims |-> 2],
     [does |-> Of(Uses \cup {"reclaim"}, {}, {}), slots |-> 1, allocs |-> 4, reclaims |-> 4]}

VARIABLE subject

MCVars == <<subject, vars, ringVars>>

\* What is not the subject starts in one way only.
MCInit ==
    /\ subject \in {"copies", "swaps", "shards"} /\ Init /\ RingInit
    /\ subject # "shards" => brief = CHOOSE p \in Briefs : TRUE

Pointers == subject # "shards" /\ UNCHANGED <<subject, ringVars>>
Ringing == subject = "shards" /\ UNCHANGED <<subject, vars>>

MCNext ==
    \/ \E t \in Threads :
        \/ (Pointers /\ Release(t)) \/ (Pointers /\ Spin(t))
        \/ (Pointers /\ Look(t)) \/ (Pointers /\ TryLock(t))
        \/ (Pointers /\ TryLockFails(t)) \/ (Pointers /\ LoadHeld(t))
        \/ (Pointers /\ LoadUnlock(t)) \/ (Pointers /\ Publish(t))
        \/ (Pointers /\ CasMatches(t)) \/ (Pointers /\ CasDiffers(t))
        \/ (Pointers /\ CasUnlock(t)) \/ (Pointers /\ Drop(t))
        \/ (Pointers /\ "make" \in Calls[t] /\ Make(t))
        \/ (Pointers /\ "copy" \in Calls[t] /\ (t = a => subject = "copies") /\ Copy(t))
        \/ (Pointers /\ "adopt" \in Calls[t] /\ Adopt(t))
        \/ (Pointers /\ "swap" \in Calls[t] /\ subject = "swaps" /\ Swap(t))
        \/ (Pointers /\ "assign" \in Calls[t] /\ CopyAssign(t))
        \/ (Pointers /\ "assign" \in Calls[t] /\ MoveAssign(t))
        \/ (Pointers /\ "load" \in Calls[t] /\ Load(t))
        \/ (Pointers /\ "store" \in Calls[t] /\ Store(t))
        \/ (Pointers /\ "cas" \in Calls[t] /\ CompareExchange(t))
    \/ \E t \in Workers :
        \/ (Ringing /\ NewHandle(t)) \/ (Ringing /\ Refresh(t))
        \/ (Ringing /\ JoinLoad(t)) \/ (Ringing /\ JoinBump(t))
        \/ (Ringing /\ JoinVerify(t)) \/ (Ringing /\ JoinStale(t))
        \/ (Ringing /\ JoinUndo(t)) \/ (Ringing /\ RefreshLeave(t))
        \/ (Ringing /\ Leave(t)) \/ (Ringing /\ AllocBegin(t))
        \/ (Ringing /\ LoadFreeHead(t)) \/ (Ringing /\ LoadLink(t))
        \/ (Ringing /\ Pop(t)) \/ (Ringing /\ PopFails(t))
        \/ (Ringing /\ StealSkip(t)) \/ (Ringing /\ StealScan(t))
        \/ (Ringing /\ MarkEmpty(t)) \/ (Ringing /\ AppendSlot(t))
        \/ (Ringing /\ AppendThrows(t)) \/ (Ringing /\ Credit(t))
        \/ (Ringing /\ PublishNode(t)) \/ (Ringing /\ PushLimbo(t))
        \/ (Ringing /\ PushRetired(t)) \/ (Ringing /\ Trigger(t))
        \/ (Ringing /\ TriggerSkipped(t)) \/ (Ringing /\ A0(t))
        \/ (Ringing /\ A3(t)) \/ (Ringing /\ A5(t))
        \/ (Ringing /\ NothingSealed(t)) \/ (Ringing /\ Pinned(t))
        \/ (Ringing /\ Unpinned(t)) \/ (Ringing /\ Deal(t))
        \/ (Ringing /\ Freed(t)) \/ (Ringing /\ StoreHint(t))
        \/ (Ringing /\ WalkBegin(t)) \/ (Ringing /\ WalkRetires(t))
        \/ (Ringing /\ WalkEnd(t)) \/ (Ringing /\ LowerFlag(t))
        \/ \E op \in {"reclaim", "advance"} : Ringing /\ Reclaim(t, op)
        \/ \E u \in Workers : Ringing /\ SwapHandles(t, u)
        \/ \E u \in Workers : Ringing /\ MoveHandle(t, u)

MCSpec == MCInit /\ [][MCNext]_MCVars
=============================================================================
