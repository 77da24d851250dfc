-------------------------- MODULE MCConcurrentHashSet -------------------------
(* A small instance of ConcurrentHashSet for TLC.                          *)
EXTENDS ConcurrentHashSet, TLC

CONSTANTS a, b, k1, k2

MCThreads == {a, b}
MCNodes == 1..4
\* A key leaves bucket 0 when the table has 8 buckets, and bucket 4 at 16.
MCHash == (k1 :> 12) @@ (k2 :> 28)
MCShards == {0, 1}

Both(x) == (a :> x) @@ (b :> x)
Updates == {"insert", "erase"}

ThreeTwo == (a :> 3) @@ (b :> 2)

\* Calls that double the table twice, with the newest and with stale sizes;
\* reclaim() between updates that pop one free list; reclaim() with a shard for
\* each thread and batches small enough to be opened and left open; and two keys
\* that move together, so that a split that throws has copied one of them.
MCPlans ==
    {[calls |-> (a :> Updates) @@ (b :> {"insert", "contains"}), maxCalls |-> ThreeTwo,
      maxReclaims |-> 0, keys |-> {k1}, shardOf |-> Both(0), batch |-> 256, stale |-> FALSE],
     [calls |-> (a :> Updates) @@ (b :> {"insert"}), maxCalls |-> ThreeTwo, maxReclaims |-> 0,
      keys |-> {k1}, shardOf |-> Both(0), batch |-> 256, stale |-> TRUE],
     [calls |-> Both(Updates), maxCalls |-> Both(2), maxReclaims |-> 1,
      keys |-> {k1}, shardOf |-> Both(0), batch |-> 256, stale |-> FALSE],
     [calls |-> Both(Updates), maxCalls |-> ThreeTwo, maxReclaims |-> 2,
      keys |-> {k1}, shardOf |-> (a :> 0) @@ (b :> 1), batch |-> 2, stale |-> FALSE],
     [calls |-> (a :> {"insert"}) @@ (b :> {"contains"}), maxCalls |-> (a :> 3) @@ (b :> 1),
      maxReclaims |-> 0, keys |-> {k1, k2}, shardOf |-> Both(0), batch |-> 256, stale |-> FALSE]}
=============================================================================
