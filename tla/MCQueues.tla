------------------------------ MODULE MCQueues ------------------------------
(* The two specialisations of the ring queue checked in one run: a          *)
(* behaviour exercises one, its subject, and leaves the other at rest.      *)
EXTENDS RingQueueRefinement, KeyQueueRefinement

VARIABLE subject

MCVars == <<subject, vars, kvars>>

MCInit == subject \in {"pairs", "keys"} /\ Init /\ KeyInit

Pairs == subject = "pairs" /\ UNCHANGED <<subject, kvars>>
KeysOnly == subject = "keys" /\ UNCHANGED <<subject, vars>>

MCNext ==
  \/ \E t \in Threads :
       \/ \E k \in Keys, v \in Values : PushLock(t, k, v) /\ Pairs
       \/ PushLoad(t) /\ Pairs
       \/ PushRetry(t) /\ Pairs
       \/ PushFull(t) /\ Pairs
       \/ PushClaim(t) /\ Pairs
       \/ PushConstruct(t) /\ Pairs
       \/ PushCommit(t) /\ Pairs
       \/ PopLock(t) /\ Pairs
       \/ PopLoad(t) /\ Pairs
       \/ PopEmpty(t) /\ Pairs
       \/ PopClaim(t) /\ Pairs
       \/ PopDrain(t) /\ Pairs
       \/ PopRelease(t) /\ Pairs
       \/ EmptyLock(t) /\ Pairs
       \/ EmptyReturn(t) /\ Pairs
  \/ Destroy /\ Pairs
  \/ Destroyed /\ Pairs
  \/ \E t \in Threads :
       \/ \E k \in Keys : KeyPushLock(t, k) /\ KeysOnly
       \/ KeyPushSeesEmpty(t) /\ KeysOnly
       \/ KeyPushSeesKey(t) /\ KeysOnly
       \/ KeyPushFull(t) /\ KeysOnly
       \/ KeyPushStore(t) /\ KeysOnly
       \/ KeyPushIncrement(t) /\ KeysOnly
       \/ KeyPopLock(t) /\ KeysOnly
       \/ KeyPopEmpty(t) /\ KeysOnly
       \/ KeyPopLoad(t) /\ KeysOnly
       \/ KeyPopClear(t) /\ KeysOnly
       \/ KeyPopIncrement(t) /\ KeysOnly
       \/ KeyEmptyLock(t) /\ KeysOnly
       \/ KeyEmptyReturn(t) /\ KeysOnly
  \/ KeyDestroy /\ KeysOnly
  \/ KeyDestroyed /\ KeysOnly

\* RingQueue's Fairness, while its queue is the subject.
MCFairness ==
  /\ \A t \in Threads : WF_MCVars(Continue(t) /\ Pairs)
  /\ SF_MCVars(\E t \in Threads : PopLock(t) /\ Pairs)

MCSpec == MCInit /\ [][MCNext]_MCVars /\ MCFairness
=============================================================================
