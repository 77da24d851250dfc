------------------------------- MODULE RcuList -------------------------------
(***************************************************************************)
(* The list half of LockFreeListRCU (LockFreeListRCU/lock_free_list_rcu.h): *)
(* iterators, insert_after(), erase_after() and the free list that         *)
(* alloc_node() pops while reclaim() splices onto it.                      *)
(*                                                                         *)
(* A session lasts from new_handle() or refresh() to the next refresh() or *)
(* ~handle().  Of the generation ring only what the list needs is kept: a  *)
(* retired node is not freed before every session that was live when it    *)
(* was retired has ended (module GenerationRing shows more).  A bag is     *)
(* spliced node by node, in any order.  Every word is read at its newest   *)
(* value, which is an abstraction of the acquire loads.                    *)
(***************************************************************************)
EXTENDS Integers, FiniteSets

CONSTANTS Threads, Nodes,
          head_, Null,      \* the dummy head and the null pointer
          Plans             \* [calls, limit, memory]: what the threads may do

ASSUME NodesAssumption == head_ \notin Nodes /\ Null \notin Nodes \cup {head_}
ASSUME PlansAssumption ==
    Plans \subseteq [calls : [Threads -> SUBSET {"insert", "erase"}],
                     limit : [Threads -> Nat], memory : Nat]

VARIABLES plan,             \* operations of each thread, how many it makes at
                            \* most and the nodes there is memory for; constant
          next,             \* per node and head_: pointer and mark
          retire_link,      \* per node; head_ stands for a word of the retired list
          free_head_,
          retired,          \* the retired list and the bags
          raw,              \* addresses no node is allocated at
          constructed,      \* nodes that hold a value
          linked,           \* nodes insert_after() has linked, until reused
          th                \* per thread: session, iterator, pc, locals

memory == <<next, retire_link, raw, constructed, linked>>
vars == <<plan, memory, free_head_, retired, th>>

Word(p, m) == [ptr |-> p, mark |-> m]

(* The free list, in order, and what is ahead of node n in the list.       *)
FreeList ==
    LET from[i \in 0..Cardinality(Nodes)] ==
            IF i = 0 THEN {}
            ELSE LET f == from[i - 1] IN
                 f \cup (IF i = 1 THEN {free_head_} ELSE {retire_link[n] : n \in f \ {Null}})
    IN  from[Cardinality(Nodes)] \ {Null}
Ahead(n) ==
    LET from[i \in 0..Cardinality(Nodes)] ==
            IF i = 0 THEN {next[n].ptr}
            ELSE LET f == from[i - 1] IN f \cup {next[m].ptr : m \in f \ {Null}}
    IN  from[Cardinality(Nodes)] \ {Null}

Idle == [session |-> FALSE, keeps |-> {}, it |-> Null, pc |-> "idle", node |-> Null,
         popped |-> FALSE, top |-> Null, below |-> Null, exp |-> Word(Null, FALSE),
         succ |-> Null, mine |-> FALSE, ret |-> "none", calls |-> 0]

Init ==
    /\ plan \in Plans
    /\ next = [n \in Nodes \cup {head_} |-> Word(Null, FALSE)]
    /\ retire_link = [n \in Nodes |-> Null]
    /\ free_head_ = Null
    /\ retired = {} /\ raw = Nodes /\ constructed = {} /\ linked = {}
    /\ th = [t \in Threads |-> Idle]

Set(t, r) == th' = [th EXCEPT ![t] = r]
MayUse(t) == th[t].session /\ th[t].pc = "idle"
Done(t, a) == [th[t] EXCEPT !.pc = "idle", !.node = Null, !.popped = FALSE, !.top = Null,
                 !.below = Null, !.exp = Word(Null, FALSE), !.succ = Null, !.mine = FALSE,
                 !.ret = a]

-----------------------------------------------------------------------------
(* Handles and iterators.  refresh() ends the session and its iterators    *)
(* even if it finds the generation unchanged, when less may be freed.      *)

new_handle(t) ==
    /\ plan.calls[t] # {} /\ ~th[t].session
    /\ Set(t, [th[t] EXCEPT !.session = TRUE])
    /\ UNCHANGED <<plan, memory, free_head_, retired>>
Release(t) ==
    /\ MayUse(t)
    /\ Set(t, [th[t] EXCEPT !.session = FALSE, !.keeps = {}, !.it = Null])
    /\ UNCHANGED <<plan, memory, free_head_, retired>>
refresh(t) ==
    /\ MayUse(t)
    /\ Set(t, [th[t] EXCEPT !.keeps = {}, !.it = Null])
    /\ UNCHANGED <<plan, memory, free_head_, retired>>

before_begin(t) ==
    /\ MayUse(t)
    /\ Set(t, [th[t] EXCEPT !.it = head_])
    /\ UNCHANGED <<plan, memory, free_head_, retired>>
(* operator++: marked nodes are not skipped.                               *)
Increment(t) ==
    /\ MayUse(t) /\ th[t].it # Null
    /\ Set(t, [th[t] EXCEPT !.it = next[th[t].it].ptr])
    /\ UNCHANGED <<plan, memory, free_head_, retired>>

-----------------------------------------------------------------------------
(* retire() and reclaim().                                                 *)

(* Thread t, going on as r, retires n: every live session keeps it, and    *)
(* its link, which a popper may still read, leads into the retired list.   *)
retire(t, r, n) ==
    /\ retired' = retired \cup {n}
    /\ retire_link' = [retire_link EXCEPT ![n] = head_]
    /\ th' = [u \in Threads |->
               LET q == IF u = t THEN r ELSE th[u] IN
               IF q.session THEN [q EXCEPT !.keeps = @ \cup {n}] ELSE q]

(* free_oldest(): the value is destroyed and the node spliced onto the     *)
(* free list.  The splice CAS is retried: here, when it wins.              *)
Reclaim(n) ==
    /\ n \in retired
    /\ \A t \in Threads : n \notin th[t].keeps
    /\ retired' = retired \ {n}
    /\ constructed' = constructed \ {n}
    /\ retire_link' = [retire_link EXCEPT ![n] = free_head_]
    /\ free_head_' = n
    /\ UNCHANGED <<plan, next, raw, linked, th>>

-----------------------------------------------------------------------------
(* insert_after() and emplace_after().                                     *)

Begin(t, op, pc) ==
    /\ MayUse(t) /\ op \in plan.calls[t] /\ th[t].calls < plan.limit[t]
    /\ Set(t, IF th[t].it = Null
              THEN [th[t] EXCEPT !.calls = @ + 1, !.ret = "false"]
              ELSE [th[t] EXCEPT !.calls = @ + 1, !.ret = "none", !.pc = pc])
    /\ UNCHANGED <<plan, memory, free_head_, retired>>
Insert(t) == Begin(t, "insert", "pop")
Erase(t) == Begin(t, "erase", "target")

(* alloc_node(): the top of the free list and what is below it.            *)
Top(t) == [th[t] EXCEPT !.pc = IF free_head_ = Null THEN "new" ELSE "below",
                        !.top = free_head_, !.below = Null]
PopLoad(t) ==
    /\ th[t].pc = "pop"
    /\ Set(t, Top(t))
    /\ UNCHANGED <<plan, memory, free_head_, retired>>
PopBelow(t) ==
    /\ th[t].pc = "below"
    /\ Set(t, [th[t] EXCEPT !.pc = "popCas", !.below = retire_link[th[t].top]])
    /\ UNCHANGED <<plan, memory, free_head_, retired>>

(* The node obtained gets its value, out of everyone's sight.              *)
Constructed(t, n, isPopped) ==
    /\ constructed' = constructed \cup {n}
    /\ linked' = linked \ {n}
    /\ Set(t, [th[t] EXCEPT !.pc = "link", !.node = n, !.popped = isPopped,
                            !.top = Null, !.below = Null])

Pop(t) ==
    /\ th[t].pc = "popCas" /\ free_head_ = th[t].top
    /\ free_head_' = th[t].below
    /\ Constructed(t, th[t].top, TRUE)
    /\ UNCHANGED <<plan, next, retire_link, raw, retired>>
\* Mutant: the retry of the CAS does not read the link of the new top.
PopFailsStale(t) ==
    /\ th[t].pc = "popCas" /\ free_head_ # th[t].top
    /\ Set(t, IF free_head_ = Null THEN Top(t) ELSE [th[t] EXCEPT !.top = free_head_])
    /\ UNCHANGED <<plan, memory, free_head_, retired>>
PopFails(t) ==
    /\ th[t].pc = "popCas" /\ free_head_ # th[t].top
    /\ Set(t, Top(t))
    /\ UNCHANGED <<plan, memory, free_head_, retired>>
Exhausted == Cardinality(Nodes \ raw) >= plan.memory
New(t) ==
    /\ th[t].pc = "new" /\ ~Exhausted
    /\ \E n \in raw : raw' = raw \ {n} /\ Constructed(t, n, FALSE)
    /\ UNCHANGED <<plan, next, retire_link, free_head_, retired>>
(* operator new throws before anything was changed.                        *)
NewThrows(t) ==
    /\ th[t].pc = "new" /\ Exhausted
    /\ Set(t, Done(t, "throw"))
    /\ UNCHANGED <<plan, memory, free_head_, retired>>

(* init_node(): the node is led to the anchor's successor.                 *)
LinkLoad(t) ==
    /\ th[t].pc = "link" /\ ~next[th[t].it].mark
    /\ next' = [next EXCEPT ![th[t].node] = next[th[t].it]]
    /\ Set(t, [th[t] EXCEPT !.pc = "linkCas", !.exp = next[th[t].it]])
    /\ UNCHANGED <<plan, retire_link, raw, constructed, linked, free_head_, retired>>

Link(t) ==
    /\ th[t].pc = "linkCas" /\ next[th[t].it] = th[t].exp
    /\ next' = [next EXCEPT ![th[t].it] = Word(th[t].node, FALSE)]
    /\ linked' = linked \cup {th[t].node}
    /\ Set(t, Done(t, "true"))
    /\ UNCHANGED <<plan, retire_link, raw, constructed, free_head_, retired>>
LinkFails(t) ==
    /\ th[t].pc = "linkCas" /\ next[th[t].it] # th[t].exp
    /\ Set(t, [th[t] EXCEPT !.pc = "link", !.exp = Word(Null, FALSE)])
    /\ UNCHANGED <<plan, memory, free_head_, retired>>

\* Mutant: a popped node that was not linked is forgotten.
DisposeForgets(t) ==
    /\ th[t].pc = "link" /\ next[th[t].it].mark
    /\ Set(t, Done(t, "false"))
    /\ UNCHANGED <<plan, memory, free_head_, retired>>

(* The anchor was erased: a popped node is retired, for other poppers may  *)
(* still look at it; a new one is deleted.                                 *)
Dispose(t) ==
    /\ th[t].pc = "link" /\ next[th[t].it].mark
    /\ LET n == th[t].node IN
       IF th[t].popped
       THEN /\ next' = [next EXCEPT ![n] = Word(Null, TRUE)]
            /\ retire(t, Done(t, "false"), n)
            /\ UNCHANGED <<raw, constructed>>
       ELSE /\ raw' = raw \cup {n}
            /\ constructed' = constructed \ {n}
            /\ next' = [next EXCEPT ![n] = Word(Null, FALSE)]
            /\ Set(t, Done(t, "false"))
            /\ UNCHANGED <<retired, retire_link>>
    /\ UNCHANGED <<plan, linked, free_head_>>

-----------------------------------------------------------------------------
(* erase_after().                                                          *)

Target(t) ==
    /\ th[t].pc = "target"
    /\ LET w == next[th[t].it] IN
       Set(t, IF w.ptr = Null \/ w.mark THEN Done(t, "false")
              ELSE [th[t] EXCEPT !.pc = "mark", !.exp = w])
    /\ UNCHANGED <<plan, memory, free_head_, retired>>

(* The marking loop, when this thread or another one has marked the target. *)
Mark(t) ==
    /\ th[t].pc = "mark"
    /\ LET n == th[t].exp.ptr IN
        /\ next' = [next EXCEPT ![n].mark = TRUE]
        /\ Set(t, [th[t] EXCEPT !.pc = "unlink", !.succ = next[n].ptr, !.mine = ~next[n].mark])
    /\ UNCHANGED <<plan, retire_link, raw, constructed, linked, free_head_, retired>>

(* The eraser that marked is done; a helper starts over.                   *)
AfterUnlink(t) == IF th[t].mine THEN Done(t, "true")
                  ELSE [Done(t, "none") EXCEPT !.pc = "target"]

Unlink(t) ==
    /\ th[t].pc = "unlink" /\ next[th[t].it] = th[t].exp
    /\ next' = [next EXCEPT ![th[t].it] = Word(th[t].succ, FALSE)]
    /\ Set(t, [th[t] EXCEPT !.pc = "retire"])
    /\ UNCHANGED <<plan, retire_link, raw, constructed, linked, free_head_, retired>>
Retire(t) ==
    /\ th[t].pc = "retire"
    /\ retire(t, AfterUnlink(t), th[t].exp.ptr)
    /\ UNCHANGED <<plan, next, raw, constructed, linked, free_head_>>

\* Mutant: the eraser retires its node although the unlink was lost.
UnlinkFailsRetires(t) ==
    /\ th[t].pc = "unlink" /\ next[th[t].it] # th[t].exp
    /\ IF th[t].mine THEN retire(t, AfterUnlink(t), th[t].exp.ptr)
       ELSE Set(t, AfterUnlink(t)) /\ UNCHANGED <<retired, retire_link>>
    /\ UNCHANGED <<plan, next, raw, constructed, linked, free_head_>>
UnlinkFails(t) ==
    /\ th[t].pc = "unlink" /\ next[th[t].it] # th[t].exp
    /\ Set(t, AfterUnlink(t))
    /\ UNCHANGED <<plan, memory, free_head_, retired>>

-----------------------------------------------------------------------------
Step(t) ==
    \/ PopLoad(t) \/ PopBelow(t) \/ Pop(t) \/ PopFails(t) \/ New(t) \/ NewThrows(t)
    \/ LinkLoad(t) \/ Link(t) \/ LinkFails(t) \/ Dispose(t)
    \/ Target(t) \/ Mark(t) \/ Unlink(t) \/ Retire(t) \/ UnlinkFails(t)
Use(t) ==
    \/ new_handle(t) \/ Release(t) \/ refresh(t)
    \/ before_begin(t) \/ Increment(t) \/ Insert(t) \/ Erase(t)

Next == (\E t \in Threads : Step(t) \/ Use(t)) \/ (\E n \in Nodes : Reclaim(n))
Spec == Init /\ [][Next]_vars

-----------------------------------------------------------------------------
TypeOK ==
    /\ next \in [Nodes \cup {head_} -> [ptr : Nodes \cup {Null}, mark : BOOLEAN]]
    /\ retire_link \in [Nodes -> Nodes \cup {head_, Null}]
    /\ free_head_ \in Nodes \cup {Null}
    /\ \A S \in {retired, raw, constructed, linked} : S \subseteq Nodes
    /\ \A t \in Threads :
        /\ th[t].it \in Nodes \cup {head_, Null}
        /\ {th[t].node, th[t].top, th[t].succ, th[t].exp.ptr} \subseteq Nodes \cup {Null}
        /\ th[t].below \in Nodes \cup {head_, Null}
        /\ th[t].keeps \subseteq Nodes

(* Whatever a session's iterator is on, and every node it can still walk   *)
(* to from there, through erased nodes too, holds its value: the graveyard *)
(* of a session leads back into the list and never into freed memory.      *)
WalksStayValid ==
    \A t \in Threads : th[t].it # Null =>
        ({th[t].it} \cup Ahead(th[t].it)) \ {head_} \subseteq constructed

(* A pop that would win takes the top and leaves what is really below it,  *)
(* although the free list has no version tag: a node popped during a       *)
(* session does not come back to the free list before the session ends.    *)
PopExact ==
    \A t \in Threads : th[t].pc = "popCas" /\ free_head_ = th[t].top =>
        th[t].below = retire_link[th[t].top]

InHand(t) ==
    ({th[t].node} \cup (IF th[t].pc = "retire" THEN {th[t].exp.ptr} ELSE {})) \ {Null}

(* The accounting of get_internal_accounting(), at every moment: a node is *)
(* in the list, retired, free, not allocated or in one thread's hands,     *)
(* never in two of these; a retired node is marked and values are held     *)
(* outside the free list only.  And only its own mark takes a node out of  *)
(* the list: whatever insert_after() linked stays reachable from the head  *)
(* until an erase_after() marks it, whatever happens to its neighbours.    *)
Accounting ==
    LET list == Ahead(head_) \ {head_}
        places(n) == <<n \in list, n \in retired, n \in FreeList, n \in raw>>
    IN  /\ TypeOK
        /\ \A n \in Nodes :
             1 = Cardinality({i \in 1..4 : places(n)[i]})
                 + Cardinality({t \in Threads : n \in InHand(t)})
        /\ \A n \in retired : next[n].mark
        /\ constructed = Nodes \ (FreeList \cup raw)
        /\ {n \in linked \ FreeList : ~next[n].mark} \subseteq list

=============================================================================
