----------------------------- MODULE LockFreeList -----------------------------
(***************************************************************************)
(* LockFreeList of LockFreeList/lock_free_list.h: a Harris list over an    *)
(* atomic shared pointer.  A use of the list says if the pointer supports  *)
(* marking, which selects the branch of `if constexpr', and which threads  *)
(* insert and erase.  The pointer is taken as the header takes it: a       *)
(* word with atomic load, store and exchange whose pointees live while     *)
(* referenced, so a node is never reused while a thread can compare it.    *)
(*                                                                         *)
(* Values are the newest, which both locked pointer policies give.  What   *)
(* the memory orders decide is kept in `pub' and `sees': a thread may only *)
(* dereference a node whose construction it synchronised with.  A release  *)
(* exchange hands on what its thread sees, along with what the word        *)
(* carried, and an acquire read takes it up.                               *)
(***************************************************************************)
EXTENDS Integers, Sequences, FiniteSets

CONSTANTS Nodes, head_, Null, Threads,
          Uses      \* how the list may be used: [marking, inserters, erasers];
                    \* bounds: the nodes there are at a time, and if one that
                    \* has ended is followed by another [limit, reuse]

ASSUME NodesAssumption == head_ \notin Nodes /\ Null \notin Nodes \cup {head_}
ASSUME UsesAssumption ==
    Uses \subseteq [marking : BOOLEAN, inserters : SUBSET Threads,
                    erasers : SUBSET Threads, limit : Nat, reuse : BOOLEAN]
\* Without marking the header leaves concurrent erasures open, as a known limitation.
ASSUME EraserAssumption ==
    \A u \in Uses : ~u.marking => \A s, t \in u.erasers : s = t

VARIABLES use,      \* the use of this list, which never changes
          next,     \* per node: its next word, a pointer and a mark
          pub,      \* per node: constructions an acquire of that word gives
          th,       \* per thread: pc, iterator, locals, last result
          sees,     \* per thread: nodes whose construction it synchronised with
          linked,   \* ghost: nodes insert_after() returned true for
          erased    \* ghost: nodes erase_after() returned true for, in order

vars == <<use, next, pub, th, sees, linked, erased>>

supports_marking == use.marking
Erased == {erased[i] : i \in 1..Len(erased)}
Live == linked \ Erased
Word(p, m) == [ptr |-> p, mark |-> m]
Unmarked(w) == Word(w.ptr, FALSE)

(* The nodes ahead of n: those that no set closed under next can miss, if  *)
(* it holds the successor of n.                                            *)
Ahead(nx, n) ==
    {m \in Nodes : \A S \in SUBSET (Nodes \ {m}) :
                      \E k \in S \cup {n} : nx[k].ptr \notin S \cup {Null}}
After(n) == Ahead(next, n)

Init ==
    /\ use \in Uses
    /\ next = [n \in Nodes \cup {head_} |-> Word(Null, FALSE)]
    /\ pub = [n \in Nodes \cup {head_} |-> {}]
    /\ th = [t \in Threads |->
              [pc |-> "idle", it |-> head_, node |-> Null, ret |-> "none",
               exp |-> Word(Null, FALSE), tnext |-> Word(Null, FALSE),
               mine |-> FALSE]]
    /\ sees = [t \in Threads |-> {}]
    /\ linked = {}
    /\ erased = <<>>

Idle(t) == th[t].pc = "idle"
it(t) == th[t].it

Return(t, r) ==
    th' = [th EXCEPT ![t] = [pc |-> "idle", it |-> th[t].it, node |-> Null,
                             ret |-> r, exp |-> Word(Null, FALSE),
                             tnext |-> Word(Null, FALSE), mine |-> FALSE]]

Acquire(t, n) == sees' = [sees EXCEPT ![t] = @ \cup pub[n]]

(* A successful release exchange of n's next word.                         *)
Exchange(t, n, w) ==
    /\ next' = [next EXCEPT ![n] = w]
    /\ pub' = [pub EXCEPT ![n] = @ \cup sees[t]]

-----------------------------------------------------------------------------
(* Iterators.                                                              *)

Before_begin(t) ==
    /\ Idle(t)
    /\ th' = [th EXCEPT ![t].it = head_]
    /\ UNCHANGED <<use, next, pub, sees, linked, erased>>

(* operator++, and begin() after before_begin().                           *)
Increment(t) ==
    /\ Idle(t)
    /\ it(t) # Null
    /\ th' = [th EXCEPT ![t].it = next[it(t)].ptr]
    /\ Acquire(t, it(t))
    /\ UNCHANGED <<use, next, pub, linked, erased>>

-----------------------------------------------------------------------------
(* insert_after(anchor, new_node).                                         *)

Fresh == {n \in Nodes \ linked : \A t \in Threads : th[t].node # n}

(* The address of a new node; one is as good as another.                   *)
new_node == CHOOSE n \in Fresh : TRUE

NullAnchor(t) ==
    /\ Idle(t)
    /\ it(t) = Null
    /\ Return(t, "false")
    /\ UNCHANGED <<use, next, pub, sees, linked, erased>>

Insert_after(t) ==
    /\ Idle(t)
    /\ it(t) # Null
    /\ Fresh # {} /\ Cardinality(linked) < use.limit
    /\ th' = [th EXCEPT ![t] = [@ EXCEPT !.pc = "insert", !.node = new_node, !.ret = "none"]]
    /\ sees' = [sees EXCEPT ![t] = @ \cup {new_node}]
    /\ UNCHANGED <<use, next, pub, linked, erased>>

(* The new node's next, written before the node is published.              *)
Point(t, w) ==
    /\ next' = [next EXCEPT ![th[t].node] = w]
    /\ th' = [th EXCEPT ![t] = [@ EXCEPT !.pc = "link", !.exp = w]]

InsertDeleted(t) ==
    /\ th[t].pc = "insert"
    /\ next[it(t)].mark
    /\ sees' = [sees EXCEPT ![t] = (@ \cup pub[it(t)]) \ {th[t].node}]
    /\ Return(t, "false")
    /\ UNCHANGED <<use, next, pub, linked, erased>>

\* Mutant: the anchor's mark is not looked at.
InsertLoadBlind(t) ==
    /\ th[t].pc = "insert"
    /\ Acquire(t, it(t))
    /\ Point(t, next[it(t)])
    /\ UNCHANGED <<use, pub, linked, erased>>

InsertLoad(t) ==
    /\ th[t].pc = "insert"
    /\ ~next[it(t)].mark
    /\ Acquire(t, it(t))
    /\ Point(t, next[it(t)])
    /\ UNCHANGED <<use, pub, linked, erased>>

Link(t) ==
    /\ th[t].pc = "link"
    /\ next[it(t)] = th[t].exp
    /\ Exchange(t, it(t), Word(th[t].node, FALSE))
    /\ linked' = linked \cup {th[t].node}
    /\ Return(t, "true")
    /\ UNCHANGED <<use, sees, erased>>

LinkFails(t) ==
    /\ th[t].pc = "link"
    /\ next[it(t)] # th[t].exp
    /\ IF supports_marking
       THEN /\ th' = [th EXCEPT ![t].pc = "insert"]
            /\ UNCHANGED <<next, sees>>
       ELSE Acquire(t, it(t)) /\ Point(t, next[it(t)])
    /\ UNCHANGED <<use, pub, linked, erased>>

-----------------------------------------------------------------------------
(* erase_after(anchor).  `exp' is the target as the anchor's word gave it, *)
(* `tnext' the target's own next.                                          *)

Erase_after(t) ==
    /\ Idle(t)
    /\ it(t) # Null
    /\ th' = [th EXCEPT ![t] = [@ EXCEPT !.pc = "erase", !.ret = "none"]]
    /\ UNCHANGED <<use, next, pub, sees, linked, erased>>

NothingToErase(t) ==
    /\ th[t].pc = "erase"
    /\ next[it(t)].ptr = Null \/ next[it(t)].mark
    /\ Acquire(t, it(t))
    /\ Return(t, "false")
    /\ UNCHANGED <<use, next, pub, linked, erased>>

LoadTarget(t) ==
    /\ th[t].pc = "erase"
    /\ next[it(t)].ptr # Null /\ ~next[it(t)].mark
    /\ th' = [th EXCEPT ![t] = [@ EXCEPT !.pc = "target", !.exp = next[it(t)]]]
    /\ Acquire(t, it(t))
    /\ UNCHANGED <<use, next, pub, linked, erased>>

target(t) == th[t].exp.ptr

Examined(t, w) ==
    th' = [th EXCEPT ![t] =
             [@ EXCEPT !.tnext = w,
                       !.pc = IF supports_marking /\ ~w.mark THEN "mark" ELSE "unlink"]]

LoadTargetNext(t) ==
    /\ th[t].pc = "target"
    /\ Acquire(t, target(t))
    /\ Examined(t, next[target(t)])
    /\ UNCHANGED <<use, next, pub, linked, erased>>

(* The mark decides the race among erasers.                                *)
Mark(t) ==
    /\ th[t].pc = "mark"
    /\ next[target(t)] = th[t].tnext
    /\ Exchange(t, target(t), Word(th[t].tnext.ptr, TRUE))
    /\ erased' = Append(erased, target(t))
    /\ th' = [th EXCEPT ![t] = [@ EXCEPT !.pc = "unlink", !.mine = TRUE,
                                         !.tnext = Word(th[t].tnext.ptr, TRUE)]]
    /\ UNCHANGED <<use, sees, linked>>

MarkFails(t) ==
    /\ th[t].pc = "mark"
    /\ next[target(t)] # th[t].tnext
    /\ Acquire(t, target(t))
    /\ Examined(t, next[target(t)])
    /\ UNCHANGED <<use, next, pub, linked, erased>>

(* What is left of the call after the unlink, with marking.                *)
Unlinked(t) ==
    IF th[t].mine THEN Return(t, "true")
    ELSE th' = [th EXCEPT ![t].pc = "erase"]

\* Mutant: the successor is stored, not exchanged.
UnlinkStores(t) ==
    /\ supports_marking
    /\ th[t].pc = "unlink"
    /\ Exchange(t, it(t), Unmarked(th[t].tnext))
    /\ Unlinked(t)
    /\ UNCHANGED <<use, sees, linked, erased>>

\* Mutant: a thread that did not mark the target does not unlink it.
UnlinkOwn(t) ==
    /\ supports_marking
    /\ th[t].pc = "unlink"
    /\ next[it(t)] = th[t].exp
    /\ IF th[t].mine THEN Exchange(t, it(t), Unmarked(th[t].tnext))
                     ELSE UNCHANGED <<next, pub>>
    /\ Unlinked(t)
    /\ UNCHANGED <<use, sees, linked, erased>>

(* The anchor is swung past the target, by its eraser or by a helper.      *)
Unlink(t) ==
    /\ supports_marking
    /\ th[t].pc = "unlink"
    /\ next[it(t)] = th[t].exp
    /\ Exchange(t, it(t), Unmarked(th[t].tnext))
    /\ Unlinked(t)
    /\ UNCHANGED <<use, sees, linked, erased>>

UnlinkFails(t) ==
    /\ supports_marking
    /\ th[t].pc = "unlink"
    /\ next[it(t)] # th[t].exp
    /\ Unlinked(t)
    /\ UNCHANGED <<use, next, pub, sees, linked, erased>>

(* Without marking the unlink is the erasure.                              *)
UnlinkDirect(t) ==
    /\ ~supports_marking
    /\ th[t].pc = "unlink"
    /\ next[it(t)] = th[t].exp
    /\ Exchange(t, it(t), th[t].tnext)
    /\ erased' = Append(erased, target(t))
    /\ Return(t, "true")
    /\ UNCHANGED <<use, sees, linked>>

UnlinkDirectFails(t) ==
    /\ ~supports_marking
    /\ th[t].pc = "unlink"
    /\ next[it(t)] # th[t].exp
    /\ Acquire(t, it(t))
    /\ IF next[it(t)].ptr = Null THEN Return(t, "false")
       ELSE th' = [th EXCEPT ![t] = [@ EXCEPT !.pc = "target", !.exp = next[it(t)]]]
    /\ UNCHANGED <<use, next, pub, linked, erased>>

-----------------------------------------------------------------------------
InsertStep(t) == InsertDeleted(t) \/ InsertLoad(t) \/ Link(t) \/ LinkFails(t)

EraseStep(t) ==
    \/ NothingToErase(t) \/ LoadTarget(t) \/ LoadTargetNext(t) \/ Mark(t)
    \/ MarkFails(t) \/ Unlink(t) \/ UnlinkFails(t)
    \/ UnlinkDirect(t) \/ UnlinkDirectFails(t)

Next ==
    \/ \E t \in Threads : Before_begin(t) \/ Increment(t) \/ NullAnchor(t)
    \/ \E t \in use.inserters : Insert_after(t) \/ InsertStep(t)
    \/ \E t \in use.erasers : Erase_after(t) \/ EraseStep(t)

Spec == Init /\ [][Next]_vars

(* A node ends with the last pointer to it: none in the list, in a node    *)
(* that has not ended or in a thread.  Its address may be used again.      *)
Referenced(n) ==
    \/ \E m \in (linked \ {n}) \cup {head_} : next[m].ptr = n
    \/ \E t \in Threads : n \in {it(t), th[t].node, th[t].exp.ptr, th[t].tnext.ptr}

Free(n) ==
    /\ use.reuse /\ n \in linked /\ ~Referenced(n)
    /\ linked' = linked \ {n}
    /\ erased' = SelectSeq(erased, LAMBDA m : m # n)
    /\ pub' = [m \in Nodes \cup {head_} |-> IF m = n THEN {} ELSE pub[m] \ {n}]
    /\ sees' = [t \in Threads |-> sees[t] \ {n}]
    /\ UNCHANGED <<use, next, th>>

(* Addresses are reused, so calls may compete for ever, and a thread       *)
(* inside a call keeps running.                                            *)
FairSpec ==
    /\ Init /\ [][Next \/ \E n \in Nodes : Free(n)]_vars
    /\ \A t \in Threads : WF_vars(InsertStep(t) \/ EraseStep(t))

-----------------------------------------------------------------------------
Words == [ptr : Nodes \cup {Null}, mark : BOOLEAN]

Frames ==
    [pc : {"idle", "insert", "link", "erase", "target", "mark", "unlink"},
     it : Nodes \cup {head_, Null}, node : Nodes \cup {Null},
     ret : {"none", "true", "false"}, exp : Words, tnext : Words, mine : BOOLEAN]

TypeOK ==
    /\ use \in Uses
    /\ next \in [Nodes \cup {head_} -> Words]
    /\ pub \in [Nodes \cup {head_} -> SUBSET Nodes]
    /\ th \in [Threads -> Frames]
    /\ sees \in [Threads -> SUBSET Nodes]
    /\ linked \subseteq Nodes
    /\ Erased \subseteq linked
    /\ ~next[head_].mark

(* Every node a thread dereferences, as an anchor or as a target, was      *)
(* constructed before by an order the thread synchronised with: the        *)
(* acquire loads and the acquire failure orders.                           *)
Synchronised ==
    \A t \in Threads :
        /\ it(t) \in Nodes => it(t) \in sees[t]
        /\ th[t].pc \in {"target", "mark", "unlink"} => target(t) \in sees[t]

(* With marking, every inserted node that was not erased is in the list:   *)
(* an insert never lands in a detached chain; and each node is erased      *)
(* once, by one call of erase_after() that returns true.  No thread comes  *)
(* upon a node it has not synchronised with.                               *)
LiveNodesLinked ==
    /\ TypeOK /\ Synchronised
    /\ supports_marking => Live \subseteq After(head_)
    /\ Cardinality(Erased) = Len(erased)

(* A node that left the list never comes back, whichever CASes race; and   *)
(* with marking the live nodes ahead of any node, erased or not, stay      *)
(* ahead of it: an iterator parked on an erased node walks back into the   *)
(* live suffix.                                                            *)
NoResurrection ==
    [][next' # next =>
        /\ After(head_)' \subseteq After(head_) \cup (linked' \ linked)
        /\ supports_marking =>
            \A n \in linked \cup {head_} : After(n) \ Erased' \subseteq After(n)']_vars

(* With marking, erase_after() answers false only if the anchor is erased  *)
(* or no live node is ahead of it: a loop of erase_after() drains the list.*)
FalseIsRight ==
    [][\A t \in Threads :
        supports_marking /\ th[t].pc \in {"erase", "target", "unlink"} /\ th'[t].ret = "false" =>
            it(t) \in Erased \/ After(it(t)) \cap Live = {}]_vars

(* With marking, erase_after() goes round again only after the anchor's    *)
(* word has changed since it read it.                                      *)
RetryAfterExchange ==
    [][\A t \in Threads :
        th[t].pc = "unlink" /\ th'[t].pc = "erase" => next'[it(t)] # th[t].exp]_vars

(* erase_after() is lock-free, not wait-free: a call that does not return  *)
(* is overtaken for ever by exchanges of other calls, and whatever it      *)
(* finds, dead successors too, it does not stand in its own way.           *)
OvertakenOrReturns ==
    \A t \in Threads :
        <>[][next' # next => th'[t] # th[t]]_vars
            => (th[t].pc = "erase" ~> Idle(t))

(* erase_after() is right when it answers false, retries only when the     *)
(* anchor has changed, and returns unless it is overtaken for ever.        *)
EraseReturns == FalseIsRight /\ RetryAfterExchange /\ OvertakenOrReturns

=============================================================================
