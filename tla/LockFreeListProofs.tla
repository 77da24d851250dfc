-------------------------- MODULE LockFreeListProofs --------------------------
(***************************************************************************)
(* The Harris list loses no live node and brings no erased one back, for   *)
(* any number of threads and nodes; without marking, beside one eraser.    *)
(***************************************************************************)
EXTENDS LockFreeList, FiniteSetTheorems, TLAPS

\* The steps are Zenon's, except where SMT is cited.
USE Zenon

-----------------------------------------------------------------------------
(* What is ahead of a node.                                                *)

Places == Nodes \cup {head_}
Maps == [Places -> Words]

\* A set that a node's successors do not leave has all that is ahead of it.
LEMMA AheadLeast ==
    ASSUME NEW nx, NEW n, NEW S \in SUBSET Nodes,
           nx[n].ptr \in S \cup {Null}, \A k \in S : nx[k].ptr \in S \cup {Null}
    PROVE  Ahead(nx, n) \subseteq S
  <1>1. ASSUME NEW m \in Ahead(nx, n), m \notin S
        PROVE  FALSE
    <2>1. S \in SUBSET (Nodes \ {m})
      BY <1>1
    <2>2. PICK k \in S \cup {n} : nx[k].ptr \notin S \cup {Null}
      BY <2>1 DEF Ahead
    <2> QED
      BY <2>2
  <1> QED
    BY <1>1

\* Nothing is ahead of the last node.
LEMMA AheadOfLast ==
    ASSUME NEW nx, NEW n, nx[n].ptr = Null
    PROVE  Ahead(nx, n) = {}
  <1>1. ASSUME NEW m \in Ahead(nx, n)
        PROVE  FALSE
    <2>1. PICK k \in {} \cup {n} : nx[k].ptr \notin {} \cup {Null}
      BY <1>1 DEF Ahead
    <2> QED
      BY <2>1
  <1> QED
    BY <1>1

\* What is ahead of a node is such a set.
LEMMA AheadClosed ==
    ASSUME NEW nx \in Maps, NEW n \in Places
    PROVE  /\ Ahead(nx, n) \subseteq Nodes
           /\ nx[n].ptr \in Ahead(nx, n) \cup {Null}
           /\ \A k \in Ahead(nx, n) : nx[k].ptr \in Ahead(nx, n) \cup {Null}
  <1>1. Ahead(nx, n) \subseteq Nodes
    BY DEF Ahead
  <1>2. ASSUME NEW k \in Ahead(nx, n) \cup {n}, nx[k].ptr # Null
        PROVE  nx[k].ptr \in Ahead(nx, n)
    <2>1. k \in Places
      BY <1>1 DEF Places
    <2>2. nx[k].ptr \in Nodes
      BY <1>2, <2>1 DEF Maps, Words
    <2>3. ASSUME NEW S \in SUBSET (Nodes \ {nx[k].ptr}),
                 \A j \in S \cup {n} : nx[j].ptr \in S \cup {Null}
          PROVE  FALSE
      <3>1. Ahead(nx, n) \subseteq S
        BY <2>3, AheadLeast
      <3>2. nx[k].ptr \in S
        BY <1>2, <2>3, <3>1
      <3> QED
        BY <3>2
    <2> QED
      BY <2>2, <2>3 DEF Ahead
  <1> QED
    BY <1>1, <1>2

\* What is ahead of a node ahead is ahead.
LEMMA AheadAhead ==
    ASSUME NEW nx \in Maps, NEW n \in Places, NEW m \in Ahead(nx, n)
    PROVE  Ahead(nx, m) \subseteq Ahead(nx, n)
  BY AheadClosed, AheadLeast DEF Places

\* A node ahead of n follows n or a node ahead of n.
LEMMA AheadBehind ==
    ASSUME NEW nx \in Maps, NEW n \in Places, NEW x \in Ahead(nx, n)
    PROVE  \E p \in Ahead(nx, n) \cup {n} : nx[p].ptr = x
  <1> SUFFICES ASSUME \A p \in Ahead(nx, n) \cup {n} : nx[p].ptr # x
               PROVE  FALSE
    OBVIOUS
  <1> DEFINE S == Ahead(nx, n) \ {x}
  <1>1. S \in SUBSET Nodes /\ nx[n].ptr \in S \cup {Null}
    BY AheadClosed
  <1>2. \A k \in S : nx[k].ptr \in S \cup {Null}
    BY AheadClosed
  <1> HIDE DEF S
  <1>3. Ahead(nx, n) \subseteq S
    BY <1>1, <1>2, AheadLeast
  <1> QED
    BY <1>3 DEF S

\* Only the pointers of the places that can be reached matter.
LEMMA AheadSame ==
    ASSUME NEW nx \in Maps, NEW ny \in Maps, NEW M \in SUBSET Nodes, NEW n \in M \cup {head_},
           \A k \in M \cup {head_} : nx[k].ptr \in M \cup {Null} /\ ny[k].ptr = nx[k].ptr
    PROVE  Ahead(ny, n) = Ahead(nx, n)
  <1>0. n \in Places
    BY DEF Places
  <1>1. Ahead(nx, n) \subseteq M /\ Ahead(ny, n) \subseteq M
    BY AheadLeast
  <1>2. Ahead(ny, n) \subseteq Ahead(nx, n)
    <2>1. /\ Ahead(nx, n) \in SUBSET Nodes
          /\ ny[n].ptr \in Ahead(nx, n) \cup {Null}
          /\ \A k \in Ahead(nx, n) : ny[k].ptr \in Ahead(nx, n) \cup {Null}
      BY <1>0, <1>1, AheadClosed, ZenonT(30)
    <2> QED
      BY <2>1, AheadLeast
  <1>3. Ahead(nx, n) \subseteq Ahead(ny, n)
    <2>1. /\ Ahead(ny, n) \in SUBSET Nodes
          /\ nx[n].ptr \in Ahead(ny, n) \cup {Null}
          /\ \A k \in Ahead(ny, n) : nx[k].ptr \in Ahead(ny, n) \cup {Null}
      BY <1>0, <1>1, AheadClosed, ZenonT(30)
    <2> QED
      BY <2>1, AheadLeast
  <1> QED
    BY <1>2, <1>3

\* A node p that points where a does is linked behind a: nothing is lost, ...
LEMMA LinkKeeps ==
    ASSUME NEW nx \in Maps, NEW ny \in Maps, NEW a \in Places, NEW p \in Nodes, p # a,
           nx[p].ptr = nx[a].ptr, ny[a].ptr = p, \A k \in Places \ {a} : ny[k] = nx[k],
           NEW n \in Places
    PROVE  Ahead(nx, n) \subseteq Ahead(ny, n)
  <1> DEFINE A == Ahead(ny, n)
  <1>1. A \in SUBSET Nodes /\ A \subseteq Places /\ p \in Places /\ Null \notin Nodes
    BY AheadClosed, NodesAssumption DEF Places
  <1>2. ASSUME NEW k \in A \cup {n}
        PROVE  nx[k].ptr \in A \cup {Null}
    <2>1. k \in Places /\ ny[k].ptr \in A \cup {Null}
      BY <1>1, AheadClosed
    <2>2. CASE k = a
      <3>1. p \in A
        BY <1>1, <2>1, <2>2
      <3>2. ny[p].ptr \in A \cup {Null}
        BY <3>1, AheadClosed
      <3> QED
        BY <1>1, <2>2, <3>2
    <2>3. CASE k # a
      BY <2>1, <2>3
    <2> QED
      BY <2>2, <2>3
  <1> HIDE DEF A
  <1> QED
    BY <1>1, <1>2, AheadLeast DEF A

\* ... and p is all that comes in, where a can be reached.
LEMMA LinkAdds ==
    ASSUME NEW nx \in Maps, NEW ny \in Maps, NEW a \in Places, NEW p \in Nodes, p # a,
           nx[p].ptr = nx[a].ptr, ny[a].ptr = p, \A k \in Places \ {a} : ny[k] = nx[k],
           NEW n \in Places
    PROVE  /\ a \in Ahead(nx, n) \cup {n} => Ahead(ny, n) \subseteq Ahead(nx, n) \cup {p}
           /\ a \notin Ahead(nx, n) \cup {n} => Ahead(ny, n) \subseteq Ahead(nx, n)
  <1>1. Ahead(nx, n) \in SUBSET Nodes /\ Ahead(nx, n) \subseteq Places /\ p \in Places
    BY AheadClosed DEF Places
  <1>2. \A k \in Ahead(nx, n) \cup {n} : nx[k].ptr \in Ahead(nx, n) \cup {Null}
    BY AheadClosed
  <1>3. CASE a \in Ahead(nx, n) \cup {n}
    <2> DEFINE A == Ahead(nx, n) \cup {p}
    <2>1. A \in SUBSET Nodes
      BY <1>1
    <2>2. ASSUME NEW k \in A \cup {n}
          PROVE  ny[k].ptr \in A \cup {Null}
      <3>1. CASE k = a
        BY <3>1
      <3>2. CASE k = p /\ k # a
        BY <1>1, <1>2, <1>3, <3>2
      <3>3. CASE k # p /\ k # a
        BY <1>1, <1>2, <3>3
      <3> QED
        BY <3>1, <3>2, <3>3
    <2> HIDE DEF A
    <2>3. Ahead(ny, n) \subseteq A
      BY <2>1, <2>2, AheadLeast
    <2> QED
      BY <1>3, <2>3 DEF A
  <1>4. CASE a \notin Ahead(nx, n) \cup {n}
    <2>1. \A k \in Ahead(nx, n) \cup {n} : ny[k].ptr \in Ahead(nx, n) \cup {Null}
      BY <1>1, <1>2, <1>4
    <2>2. Ahead(ny, n) \subseteq Ahead(nx, n)
      BY <1>1, <2>1, AheadLeast
    <2> QED
      BY <1>4, <2>2
  <1> QED
    BY <1>3, <1>4

\* Where a is swung past b, b is all that may be lost, and nothing comes in.
LEMMA SwingKeeps ==
    ASSUME NEW nx \in Maps, NEW ny \in Maps, NEW a \in Places, NEW b \in Nodes, b # a,
           nx[a].ptr = b, ny[a].ptr = nx[b].ptr, \A k \in Places \ {a} : ny[k] = nx[k],
           NEW n \in Places
    PROVE  Ahead(nx, n) \subseteq Ahead(ny, n) \cup {b} /\ Ahead(ny, n) \subseteq Ahead(nx, n)
  <1>1. Ahead(nx, n) \in SUBSET Nodes /\ Ahead(ny, n) \in SUBSET Nodes /\ b \in Places
    BY AheadClosed DEF Places
  <1>2. /\ \A k \in Ahead(nx, n) \cup {n} : nx[k].ptr \in Ahead(nx, n) \cup {Null}
        /\ \A k \in Ahead(ny, n) \cup {n} : ny[k].ptr \in Ahead(ny, n) \cup {Null}
    BY AheadClosed
  <1>3. Ahead(ny, n) \subseteq Ahead(nx, n)
    <2>1. ASSUME NEW k \in Ahead(nx, n) \cup {n}
          PROVE  ny[k].ptr \in Ahead(nx, n) \cup {Null}
      <3>1. CASE k = a
        <4>1. b \in Ahead(nx, n)
          BY <1>2, <3>1, NodesAssumption
        <4> QED
          BY <1>2, <3>1, <4>1
      <3>2. CASE k # a
        BY <1>1, <1>2, <3>2 DEF Places
      <3> QED
        BY <3>1, <3>2
    <2> QED
      BY <1>1, <2>1, AheadLeast
  <1>4. CASE a \in Ahead(ny, n) \cup {n}
    <2> DEFINE A == Ahead(ny, n) \cup {b}
    <2>1. A \in SUBSET Nodes
      BY <1>1
    <2>2. nx[b].ptr \in A \cup {Null}
      BY <1>2, <1>4
    <2>3. ASSUME NEW k \in A \cup {n}
          PROVE  nx[k].ptr \in A \cup {Null}
      <3>1. CASE k = a \/ k = b
        BY <2>2, <3>1
      <3>2. CASE k # a /\ k # b
        BY <1>1, <1>2, <3>2 DEF Places
      <3> QED
        BY <3>1, <3>2
    <2> HIDE DEF A
    <2>4. Ahead(nx, n) \subseteq A
      BY <2>1, <2>3, AheadLeast
    <2> QED
      BY <1>3, <2>4 DEF A
  <1>5. CASE a \notin Ahead(ny, n) \cup {n}
    <2>1. \A k \in Ahead(ny, n) \cup {n} : nx[k].ptr \in Ahead(ny, n) \cup {Null}
      BY <1>1, <1>2, <1>5 DEF Places
    <2>2. Ahead(nx, n) \subseteq Ahead(ny, n)
      BY <1>1, <2>1, AheadLeast
    <2> QED
      BY <1>3, <2>2
  <1> QED
    BY <1>4, <1>5

-----------------------------------------------------------------------------
(* A list in which no two places that can be reached point to one node.    *)

From(nx) == Ahead(nx, head_) \cup {head_}
Injective(nx) ==
    \A m, n \in From(nx) : nx[m].ptr = nx[n].ptr /\ nx[m].ptr # Null => m = n

\* Such a list has no cycle.
LEMMA NoCycle ==
    ASSUME NEW nx \in Maps, Injective(nx), NEW y \in Ahead(nx, head_)
    PROVE  y \notin Ahead(nx, y)
  <1> SUFFICES ASSUME y \in Ahead(nx, y)
               PROVE  FALSE
    OBVIOUS
  <1>0. head_ \in Places /\ y \in Places
    BY AheadClosed DEF Places
  <1>1. Ahead(nx, y) \subseteq Ahead(nx, head_)
    BY <1>0, AheadAhead
  <1> DEFINE D == Ahead(nx, head_) \ Ahead(nx, y)
  <1>2. ASSUME NEW m \in D \cup {head_}
        PROVE  nx[m].ptr \in D \cup {Null}
    <2>1. m \in From(nx) /\ m \notin Ahead(nx, y)
      BY <1>0, AheadClosed, NodesAssumption DEF From
    <2>2. nx[m].ptr \in Ahead(nx, head_) \cup {Null}
      BY <1>0, AheadClosed
    <2>3. ASSUME nx[m].ptr \in Ahead(nx, y)
          PROVE  FALSE
      <3>1. PICK p \in Ahead(nx, y) \cup {y} : nx[p].ptr = nx[m].ptr
        BY <1>0, <2>3, AheadBehind, SMT
      <3>2. p \in Ahead(nx, y) /\ p \in From(nx)
        BY <1>1, <3>1 DEF From
      <3>3. nx[m].ptr # Null
        BY <1>0, <2>3, AheadClosed, NodesAssumption
      <3> QED
        BY <2>1, <3>1, <3>2, <3>3 DEF Injective
    <2> QED
      BY <2>2, <2>3
  <1>3. D \in SUBSET Nodes
    BY <1>0, AheadClosed
  <1> HIDE DEF D
  <1>4. Ahead(nx, head_) \subseteq D
    BY <1>2, <1>3, AheadLeast
  <1> QED
    BY <1>4 DEF D

\* A place before a stays reachable when only a's word changes, and a itself.
LEMMA AnchorStays ==
    ASSUME NEW nx \in Maps, NEW ny \in Maps, NEW a \in From(nx),
           \A k \in Places \ {a} : ny[k] = nx[k]
    PROVE  a \in From(ny)
  <1> SUFFICES ASSUME a \notin From(ny)
               PROVE  FALSE
    OBVIOUS
  <1>1. Ahead(ny, head_) \in SUBSET Nodes /\ head_ \in Places
    BY AheadClosed DEF Places
  <1>2. \A k \in Ahead(ny, head_) \cup {head_} : k \in Places \ {a}
    BY <1>1 DEF Places, From
  <1>3. \A k \in Ahead(ny, head_) \cup {head_} : nx[k].ptr \in Ahead(ny, head_) \cup {Null}
    BY <1>1, <1>2, AheadClosed
  <1>4. Ahead(nx, head_) \subseteq Ahead(ny, head_)
    BY <1>1, <1>3, AheadLeast
  <1> QED
    BY <1>4 DEF From

\* Without marking a is swung past b to a node y that was ahead of b, perhaps
\* past nodes inserted behind b since: b leaves, and the list stays injective.
LEMMA SwingInjective ==
    ASSUME NEW nx \in Maps, NEW ny \in Maps, Injective(nx), NEW a \in From(nx),
           NEW b \in Nodes, nx[a].ptr = b, NEW y, ny[a].ptr = y,
           y # Null => y \in Ahead(nx, b) /\ y # b,
           \A k \in Places \ {a} : ny[k] = nx[k]
    PROVE  /\ Injective(ny) /\ b \notin Ahead(ny, head_)
           /\ Ahead(ny, head_) \subseteq Ahead(nx, head_)
  <1>0. /\ head_ \in Places /\ a \in Places /\ b \in Places /\ Null \notin Nodes
        /\ head_ \notin Nodes
    BY AheadClosed, NodesAssumption DEF Places, From
  <1>1. b \in Ahead(nx, head_)
    BY <1>0, AheadClosed DEF From
  <1>2. Ahead(nx, b) \subseteq Ahead(nx, head_)
    BY <1>0, <1>1, AheadAhead
  <1> DEFINE Rest == IF y = Null THEN {} ELSE Ahead(nx, y) \cup {y}
             Lost == (Ahead(nx, b) \ Rest) \cup {b}
             K == Ahead(nx, head_) \ Lost
  <1>3. ASSUME NEW m \in K \cup {head_}, NEW x \in Ahead(nx, b), nx[m].ptr = x
        PROVE  m \in Rest
    <2>1. PICK p \in Ahead(nx, b) \cup {b} : nx[p].ptr = x
      BY <1>0, AheadBehind, SMT
    <2>2. p \in From(nx) /\ m \in From(nx)
      BY <1>1, <1>2 DEF From
    <2>3. x # Null
      BY <1>0, AheadClosed
    <2>4. m = p
      BY <1>3, <2>1, <2>2, <2>3 DEF Injective
    <2>5. m \in K
      <3>1. p \in Nodes
        BY <1>0, <2>1, AheadClosed
      <3> QED
        BY <1>0, <2>4, <3>1
    <2> QED
      BY <2>1, <2>4, <2>5
  <1>4. y # Null => y \in Places
    BY <1>0, AheadClosed DEF Places
  <1>5. ASSUME NEW m \in Rest
        PROVE  nx[m].ptr \in Rest \cup {Null}
    BY <1>4, <1>5, AheadClosed
  <1>6. ASSUME NEW m \in K \cup {head_}
        PROVE  ny[m].ptr \in K \cup {Null}
    <2>1. CASE m = a
      BY <1>2, <2>1
    <2>2. CASE m # a
      <3>1. m \in Places /\ m \in From(nx) /\ ny[m] = nx[m]
        BY <1>0, <2>2, AheadClosed DEF Places, From
      <3>2. nx[m].ptr \in Ahead(nx, head_) \cup {Null}
        BY <1>0, <3>1, AheadClosed DEF From
      <3>3. nx[m].ptr # b
        BY <1>0, <2>2, <3>1 DEF Injective
      <3>4. nx[m].ptr \in Ahead(nx, b) => nx[m].ptr \in Rest
        <4> SUFFICES ASSUME nx[m].ptr \in Ahead(nx, b)
                     PROVE  nx[m].ptr \in Rest
          OBVIOUS
        <4>1. m \in Rest
          BY <1>3
        <4>2. nx[m].ptr # Null
          <5>1. Ahead(nx, b) \subseteq Nodes
            BY <1>0, AheadClosed
          <5> QED
            BY <1>0, <5>1
        <4> QED
          BY <1>5, <4>1, <4>2
      <3> QED
        BY <3>1, <3>2, <3>3, <3>4
    <2> QED
      BY <2>1, <2>2
  <1>7. Ahead(ny, head_) \subseteq K
    <2>1. K \in SUBSET Nodes
      BY <1>0, AheadClosed
    <2> HIDE DEF K
    <2> QED
      BY <1>6, <2>1, AheadLeast
  <1>8. ASSUME NEW n \in From(ny), n # a, ny[n].ptr = y, y # Null
        PROVE  FALSE
    <2>1. n \in K \cup {head_} /\ n \in Places /\ nx[n].ptr = y
      BY <1>0, <1>7, <1>8, AheadClosed DEF From, Places
    <2>2. n \in Rest
      BY <1>3, <1>8, <2>1
    <2>3. y \in Ahead(nx, y)
      <3>1. CASE n = y
        BY <1>4, <1>8, <2>1, <3>1, AheadClosed
      <3>2. CASE n \in Ahead(nx, y)
        BY <1>4, <1>8, <2>1, <3>2, AheadClosed
      <3> QED
        BY <1>8, <2>2, <3>1, <3>2
    <2> QED
      BY <1>2, <1>8, <2>3, NoCycle
  <1>9. Injective(ny)
    <2> SUFFICES ASSUME NEW m \in From(ny), NEW n \in From(ny), ny[m].ptr = ny[n].ptr,
                        ny[m].ptr # Null
                 PROVE  m = n
      BY DEF Injective
    <2>1. CASE m # a /\ n # a
      <3>1. m \in From(nx) /\ n \in From(nx) /\ m \in Places /\ n \in Places
        BY <1>0, <1>7, AheadClosed DEF From, Places
      <3> QED
        BY <2>1, <3>1 DEF Injective
    <2>2. CASE m = a \/ n = a
      BY <1>8, <2>2
    <2> QED
      BY <2>1, <2>2
  <1> QED
    BY <1>7, <1>9

-----------------------------------------------------------------------------
(* The inductive invariant.                                                *)

Members == linked \cup {head_}
Ends == linked \cup {Null}

\* What a call's locals hold: the new node is not linked yet and points where
\* the anchor did; a marked target's word is final.
CallOK(t) ==
    /\ it(t) \in Members \cup {Null}
    /\ th[t].pc # "idle" => it(t) # Null
    /\ th[t].pc \in {"insert", "link"} => th[t].node \in Nodes \ linked
    /\ th[t].pc \notin {"insert", "link"} => th[t].node = Null
    /\ th[t].pc = "link" => /\ next[th[t].node] = th[t].exp
                            /\ ~th[t].exp.mark /\ th[t].exp.ptr \in Ends
    /\ th[t].pc \in {"target", "mark", "unlink"} => ~th[t].exp.mark /\ target(t) \in linked
    /\ th[t].pc \in {"mark", "unlink"} => th[t].tnext.ptr \in Ends
    /\ th[t].pc = "mark" => supports_marking /\ ~th[t].tnext.mark
    /\ th[t].pc = "unlink" => /\ th[t].tnext.mark <=> supports_marking
                              /\ supports_marking => next[target(t)] = th[t].tnext

CallInv ==
    /\ \A t \in Threads : CallOK(t)
    /\ \A t, u \in Threads : th[t].node = th[u].node /\ th[t].node # Null => t = u

\* Linked nodes lead to linked nodes, and the marks are on the erased ones.
ListInv ==
    /\ \A n \in Members : next[n].ptr \in Ends
    /\ \A n \in Nodes : next[n].mark <=> supports_marking /\ n \in Erased
    /\ erased \in Seq(Nodes) /\ IsFiniteSet(Erased) /\ Cardinality(Erased) = Len(erased)

\* Who acquires n's word and has S sees where it points.
Gives(S, n) == next[n].ptr \in S \cup pub[n] \cup {Null}
Complete(S) == \A n \in S \cap linked : Gives(S, n)

\* A thread sees what it may dereference or publish.
SeesOK(t) ==
    /\ sees[t] \subseteq linked \cup {th[t].node}
    /\ Complete(sees[t])
    /\ it(t) \in Nodes => it(t) \in sees[t]
    /\ th[t].pc \in {"insert", "link"} => th[t].node \in sees[t]
    /\ th[t].pc \in {"link", "target", "mark", "unlink"} => th[t].exp.ptr \in sees[t] \cup {Null}
    /\ th[t].pc \in {"mark", "unlink"} => th[t].tnext.ptr \in sees[t] \cup {Null}

SeenInv ==
    /\ \A t \in Threads : SeesOK(t)
    /\ \A m \in Places : pub[m] \subseteq linked /\ Complete(pub[m])
    /\ Gives({}, head_)

\* Where the single eraser of a list without marking stands.
EraserOK(t) ==
    /\ it(t) \in From(next) \cup {Null}
    /\ th[t].pc \in {"target", "unlink"} => target(t) \in After(head_)
    /\ th[t].pc = "unlink" /\ th[t].tnext.ptr # Null =>
          th[t].tnext.ptr \in After(target(t)) /\ th[t].tnext.ptr # target(t)

\* With marking no live node is lost; without, the list is a path on which
\* no erased node lies.
PathInv ==
    /\ supports_marking => Live \subseteq After(head_)
    /\ ~supports_marking => /\ Erased \cap After(head_) = {}
                            /\ Injective(next)
                            /\ \A t \in use.erasers : EraserOK(t)

ListsInv == TypeOK /\ CallInv /\ ListInv /\ SeenInv /\ PathInv

\* The empty list satisfies the invariant.
LEMMA ListInitial == Init => ListsInv
  <1> SUFFICES ASSUME Init
               PROVE  ListsInv
    OBVIOUS
  <1>1. erased = <<>> /\ Erased = {} /\ erased \in Seq(Nodes) /\ Len(erased) = 0
    BY SMT DEF Init, Erased
  <1>2. IsFiniteSet(Erased) /\ Cardinality(Erased) = Len(erased)
    BY <1>1, FS_EmptySet
  <1>3. /\ linked = {} /\ Live = {} /\ use \in Uses
        /\ \A n \in Places : next[n] = Word(Null, FALSE) /\ pub[n] = {}
        /\ \A t \in Threads : /\ th[t].pc = "idle" /\ th[t].it = head_ /\ th[t].node = Null
                              /\ sees[t] = {}
    <2>1. Live = {} /\ linked = {} /\ use \in Uses
      BY DEF Init, Live
    <2>2. \A n \in Places : next[n] = Word(Null, FALSE) /\ pub[n] = {}
      BY DEF Init, Places
    <2>3. \A t \in Threads : /\ th[t].pc = "idle" /\ th[t].it = head_ /\ th[t].node = Null
                              /\ sees[t] = {}
      BY SMT DEF Init
    <2> QED
      BY <2>1, <2>2, <2>3
  <1>4. \A n \in Places : next[n].ptr = Null /\ ~next[n].mark
    BY <1>3, SMT DEF Word
  <1>5. TypeOK
    <2>1. /\ next \in [Nodes \cup {head_} -> Words] /\ pub \in [Nodes \cup {head_} -> SUBSET Nodes]
          /\ sees \in [Threads -> SUBSET Nodes]
      BY SMT DEF Init, Words, Word
    <2>2. th \in [Threads -> Frames]
      BY SMT DEF Init, Frames, Words, Word
    <2> QED
      BY <1>1, <1>3, <1>4, <2>1, <2>2 DEF TypeOK, Places
  <1>6. CallInv
    BY <1>3 DEF CallInv, CallOK, Members, it
  <1>7. ListInv
    BY <1>1, <1>2, <1>3, <1>4 DEF ListInv, Members, Ends, Places
  <1>8. SeenInv
    <2>1. Gives({}, head_)
      BY <1>4 DEF Gives, Places
    <2>2. \A t \in Threads : SeesOK(t)
      BY <1>3, NodesAssumption DEF SeesOK, Complete, it
    <2> QED
      BY <1>3, <2>1, <2>2 DEF SeenInv, Complete
  <1>9. PathInv
    <2>1. Ahead(next, head_) = {}
      <3>1. next[head_].ptr = Null
        BY <1>4 DEF Places
      <3> QED
        BY <3>1, AheadOfLast
    <2>2. Injective(next)
      BY <2>1 DEF Injective, From
    <2>3. \A t \in use.erasers : t \in Threads
      BY <1>3, UsesAssumption
    <2>4. \A t \in use.erasers : EraserOK(t)
      BY <1>3, <2>3 DEF EraserOK, From, it
    <2> QED
      BY <1>1, <1>3, <2>1, <2>2, <2>4 DEF PathInv, After
  <1> QED
    BY <1>5, <1>6, <1>7, <1>8, <1>9 DEF ListsInv

-----------------------------------------------------------------------------
(* What the steps have in common.                                          *)

\* Thread t is the only one whose call and whose view a step changes.
OnlyThread(t) == \A u \in Threads \ {t} : th'[u] = th[u] /\ sees'[u] = sees[u]

\* x is the only place whose word a step changes.
OnlyWord(x) == \A n \in Places \ {x} : next'[n] = next[n] /\ pub'[n] = pub[n]

\* What the invariant says of a step's thread.
LEMMA StepBefore ==
    ASSUME ListsInv, NEW t \in Threads
    PROVE  /\ th[t] \in Frames /\ CallOK(t) /\ SeesOK(t)
           /\ th \in [Threads -> Frames] /\ sees \in [Threads -> SUBSET Nodes]
           /\ next \in Maps /\ pub \in [Places -> SUBSET Nodes] /\ linked \subseteq Nodes
           /\ use.erasers \subseteq Threads /\ use \in Uses
           /\ (~supports_marking /\ t \in use.erasers => EraserOK(t))
           /\ Members \subseteq Places /\ head_ \in Members /\ ~next[head_].mark
  BY UsesAssumption DEF ListsInv, TypeOK, CallInv, SeenInv, PathInv, Maps, Places, Members

\* The calls of the other threads are as they were when the word that changes
\* is an unmarked one, of a member or of t's new node, and only that is linked.
LEMMA CallKept ==
    ASSUME ListsInv, NEW t \in Threads, OnlyThread(t), use' = use, CallOK(t)',
           NEW x \in Places, OnlyWord(x), x \in Members \/ x = th[t].node, ~next[x].mark,
           linked \subseteq linked', linked' \subseteq linked \cup {th[t].node},
           \A u \in Threads \ {t} : th'[t].node # Null => th'[t].node # th[u].node
    PROVE  CallInv'
  <1>1. ASSUME NEW u \in Threads, u # t
        PROVE  CallOK(u)'
    <2>1. /\ th'[u] = th[u] /\ CallOK(u) /\ th[u] \in Frames /\ Ends \subseteq Ends'
          /\ Members \subseteq Members'
      BY <1>1, StepBefore DEF OnlyThread, Ends, Members
    <2>2. supports_marking' <=> supports_marking
      BY DEF supports_marking
    <2>3. th[u].node # Null => th[u].node # th[t].node
      BY <1>1 DEF ListsInv, CallInv
    <2>4. ASSUME th[u].pc \in {"insert", "link"}
          PROVE  th[u].node \in Nodes \ linked' /\ next'[th[u].node] = next[th[u].node]
      <3>1. th[u].node \in Nodes \ linked /\ th[u].node # Null /\ th[u].node \in Places
        BY <2>1, <2>4, NodesAssumption DEF CallOK, Places
      <3>2. th[u].node # x
        BY <2>3, <3>1, NodesAssumption DEF Members
      <3> QED
        BY <2>3, <3>1, <3>2 DEF OnlyWord
    <2>5. ASSUME th[u].pc = "unlink", supports_marking
          PROVE  next'[target(u)] = next[target(u)]
      <3>1. target(u) \in Places /\ next[target(u)].mark
        BY <2>1, <2>5, StepBefore DEF CallOK, Places
      <3> QED
        BY <3>1 DEF OnlyWord
    <2>6. it(u)' = it(u) /\ target(u)' = target(u)
      BY <2>1 DEF it, target
    <2>7. th[u].pc = "link" => /\ next'[th[u].node] = th[u].exp
                               /\ ~th[u].exp.mark /\ th[u].exp.ptr \in Ends'
      BY <2>1, <2>4 DEF CallOK
    <2>8. th[u].pc = "unlink" => /\ th[u].tnext.mark <=> supports_marking'
                                 /\ supports_marking' => next'[target(u)] = th[u].tnext
      <3>1. th[u].pc = "unlink" => /\ th[u].tnext.mark <=> supports_marking
                                   /\ supports_marking => next[target(u)] = th[u].tnext
        BY <2>1 DEF CallOK
      <3> QED
        BY <2>2, <2>5, <3>1
    <2>9. th[u].pc \in {"target", "mark", "unlink"} => ~th[u].exp.mark /\ target(u) \in linked'
      BY <2>1 DEF CallOK
    <2>10. /\ it(u)' \in Members' \cup {Null}
           /\ th'[u].pc # "idle" => it(u)' # Null
           /\ th'[u].pc \in {"insert", "link"} => th'[u].node \in Nodes \ linked'
           /\ th'[u].pc \notin {"insert", "link"} => th'[u].node = Null
           /\ th'[u].pc \in {"mark", "unlink"} => th'[u].tnext.ptr \in Ends'
           /\ th'[u].pc = "mark" => supports_marking' /\ ~th'[u].tnext.mark
      BY <2>1, <2>2, <2>4, <2>6 DEF CallOK
    <2> QED
      BY <2>1, <2>6, <2>7, <2>8, <2>9, <2>10 DEF CallOK
  <1>2. ASSUME NEW u \in Threads, NEW v \in Threads, th'[u].node = th'[v].node, th'[u].node # Null
        PROVE  u = v
    <2>1. \A w \in Threads \ {t} : th'[w].node = th[w].node
      BY DEF OnlyThread
    <2>2. \A w \in Threads \ {t} : th'[w].node = th'[t].node => th'[w].node = Null
      BY <2>1
    <2>3. CASE u # t /\ v # t
      BY <1>2, <2>1, <2>3 DEF ListsInv, CallInv
    <2>4. CASE u = t \/ v = t
      BY <1>2, <2>2, <2>4
    <2> QED
      BY <2>3, <2>4
  <1> QED
    BY <1>1, <1>2 DEF CallInv

\* Complete, after a step.
CompleteNext(S) == \A n \in S \cap linked' : next'[n].ptr \in S \cup pub'[n] \cup {Null}

\* How steps change the words: at one place x, which is t's new node or gets
\* the view of t with a pointer that t sees; a node linked is t's.
WordStep(t, x) ==
    /\ OnlyWord(x)
    /\ x \in Members \/ (x = th[t].node /\ x \notin linked')
    /\ linked \subseteq linked' /\ linked' \subseteq linked \cup {th[t].node}
    /\ \/ pub'[x] = pub[x] /\ (x \in Members => next'[x] = next[x])
       \/ pub'[x] = pub[x] \cup sees[t] /\ sees[t] \subseteq linked'
          /\ next'[x].ptr \in sees[t] \cup {Null}
    /\ th[t].node \in linked' \ linked => next'[th[t].node].ptr \in sees[t] \cup {Null}

\* Such a step leaves complete what was, new nodes apart.
LEMMA CompleteKept ==
    ASSUME ListsInv, NEW t \in Threads, NEW x \in Places, WordStep(t, x),
           NEW S \in SUBSET Nodes, Complete(S), th[t].node \in S \cap (linked' \ linked) => sees[t] \subseteq S
    PROVE  CompleteNext(S)
  <1> SUFFICES ASSUME NEW n \in S, n \in linked'
               PROVE  next'[n].ptr \in S \cup pub'[n] \cup {Null}
    BY DEF CompleteNext
  <1>1. CASE n \notin linked
    BY <1>1 DEF WordStep
  <1>2. CASE n \in linked /\ n # x
    BY <1>2 DEF WordStep, OnlyWord, Complete, Gives, Places
  <1>3. CASE n \in linked /\ n = x
    BY <1>3 DEF WordStep, Complete, Gives, Members
  <1> QED
    BY <1>1, <1>2, <1>3

\* The views of the other threads, and those that go with the words.
LEMMA SeenKept ==
    ASSUME ListsInv, NEW t \in Threads, OnlyThread(t), SeesOK(t)',
           NEW x \in Places, WordStep(t, x)
    PROVE  SeenInv'
  <1>0. /\ SeesOK(t) /\ sees[t] \in SUBSET Nodes /\ pub \in [Places -> SUBSET Nodes]
        /\ linked \subseteq Nodes /\ Null \notin Nodes /\ head_ \notin Nodes /\ head_ \in Places
        /\ Gives({}, head_)
    BY StepBefore, NodesAssumption DEF ListsInv, SeenInv, Places
  <1>1. ASSUME NEW u \in Threads, u # t
        PROVE  SeesOK(u)'
    <2>1. th'[u] = th[u] /\ sees'[u] = sees[u] /\ SeesOK(u) /\ sees[u] \in SUBSET Nodes
      BY <1>1, StepBefore DEF OnlyThread
    <2>2. th[t].node \notin sees[u] \cap (linked' \ linked)
      <3> SUFFICES ASSUME th[t].node \in sees[u], th[t].node \notin linked
                   PROVE  FALSE
        OBVIOUS
      <3>1. th[t].node = th[u].node /\ th[t].node # Null
        BY <1>0, <2>1 DEF SeesOK
      <3> QED
        BY <1>1, <3>1 DEF ListsInv, CallInv
    <2>3. CompleteNext(sees[u])
      BY <2>1, <2>2, CompleteKept DEF SeesOK
    <2>4. Complete(sees[u])'
      BY <2>1, <2>3 DEF CompleteNext, Complete, Gives
    <2>5. sees'[u] \subseteq linked' \cup {th'[u].node}
      BY <2>1 DEF SeesOK, WordStep
    <2>6. /\ it(u)' = it(u)
          /\ th'[u].pc \in {"insert", "link"} => th'[u].node \in sees'[u]
          /\ th'[u].pc \in {"link", "target", "mark", "unlink"} => th'[u].exp.ptr \in sees'[u] \cup {Null}
          /\ th'[u].pc \in {"mark", "unlink"} => th'[u].tnext.ptr \in sees'[u] \cup {Null}
      BY <2>1 DEF SeesOK, it
    <2> QED
      BY <2>1, <2>4, <2>5, <2>6 DEF SeesOK
  <1>2. ASSUME NEW m \in Places
        PROVE  pub'[m] \subseteq linked' /\ CompleteNext(pub'[m])
    <2>1. pub[m] \subseteq linked /\ Complete(pub[m]) /\ pub[m] \in SUBSET Nodes
      BY <1>0 DEF ListsInv, SeenInv
    <2>2. CompleteNext(pub[m])
      BY <2>1, CompleteKept
    <2>3. CASE pub'[m] = pub[m]
      BY <2>1, <2>2, <2>3 DEF WordStep
    <2>4. CASE m = x /\ pub'[m] = pub[m] \cup sees[t] /\ sees[t] \subseteq linked'
      <3>1. CompleteNext(sees[t])
        BY <1>0, CompleteKept DEF SeesOK
      <3> QED
        BY <2>1, <2>2, <2>4, <3>1 DEF CompleteNext, WordStep
    <2> QED
      BY <2>3, <2>4 DEF WordStep, OnlyWord
  <1>3. Gives({}, head_)'
    <2>1. CASE x = head_
      BY <1>0, <2>1 DEF WordStep, Gives, Members
    <2>2. CASE x # head_
      BY <1>0, <2>2 DEF WordStep, OnlyWord, Gives
    <2> QED
      BY <2>1, <2>2
  <1>4. \A u \in Threads : SeesOK(u)'
    BY <1>1
  <1>5. \A m \in Places : pub'[m] \subseteq linked' /\ Complete(pub[m])'
    BY <1>2 DEF CompleteNext, Complete, Gives
  <1> QED
    BY <1>3, <1>4, <1>5 DEF SeenInv

\* What an acquire of a word gives.
LEMMA AcquireGives ==
    ASSUME ListsInv, NEW t \in Threads, NEW n \in Members, n = head_ \/ n \in sees[t]
    PROVE  /\ next[n].ptr \in sees[t] \cup pub[n] \cup {Null}
           /\ Complete(sees[t] \cup pub[n])
           /\ sees[t] \cup pub[n] \subseteq linked \cup {th[t].node}
           /\ sees[t] \cup pub[n] \in SUBSET Nodes
           /\ next[n].ptr \in Ends
  <1>1. /\ SeesOK(t) /\ n \in Places /\ pub[n] \subseteq linked /\ Complete(pub[n])
        /\ sees[t] \in SUBSET Nodes /\ pub[n] \in SUBSET Nodes
    BY StepBefore DEF ListsInv, SeenInv
  <1>2. next[n].ptr \in sees[t] \cup pub[n] \cup {Null}
    <2>1. CASE n = head_
      BY <2>1 DEF ListsInv, SeenInv, Gives
    <2>2. CASE n # head_
      BY <1>1, <2>2 DEF SeesOK, Complete, Gives, Members
    <2> QED
      BY <2>1, <2>2
  <1>3. Complete(sees[t] \cup pub[n])
    BY <1>1 DEF SeesOK, Complete, Gives
  <1>4. next[n].ptr \in Ends
    BY DEF ListsInv, ListInv
  <1> QED
    BY <1>1, <1>2, <1>3, <1>4 DEF SeesOK

-----------------------------------------------------------------------------
(* Steps that change no word.                                              *)

\* Such a step keeps the invariant if it leaves its own thread in order.
LEMMA QuietStep ==
    ASSUME ListsInv, NEW t \in Threads, OnlyThread(t),
           UNCHANGED <<use, next, pub, linked, erased>>,
           th' \in [Threads -> Frames], sees' \in [Threads -> SUBSET Nodes],
           CallOK(t)', SeesOK(t)', ~supports_marking /\ t \in use.erasers => EraserOK(t)',
           th'[t].node \in {Null, th[t].node} \cup Fresh
    PROVE  ListsInv'
  <1>0. /\ Members' = Members /\ Erased' = Erased /\ Live' = Live /\ Ends' = Ends
        /\ supports_marking' = supports_marking /\ From(next)' = From(next)
        /\ \A n : After(n)' = After(n)
    BY DEF Members, Erased, Live, Ends, supports_marking, From, After
  <1>1. TypeOK'
    BY <1>0 DEF ListsInv, TypeOK
  <1>2. CallInv'
    <2>1. \A u \in Threads \ {t} : th'[t].node # Null => th'[t].node # th[u].node
      BY DEF ListsInv, CallInv, Fresh
    <2>2. head_ \in Places /\ OnlyWord(head_) /\ head_ \in Members /\ ~next[head_].mark
      BY StepBefore DEF OnlyWord
    <2> QED
      BY <2>1, <2>2, CallKept
  <1>3. ListInv'
    BY <1>0 DEF ListsInv, ListInv
  <1>4. SeenInv'
    <2>1. head_ \in Places /\ WordStep(t, head_)
      BY StepBefore DEF WordStep, OnlyWord
    <2> QED
      BY <2>1, SeenKept
  <1>5. PathInv'
    <2> SUFFICES ASSUME ~supports_marking, NEW u \in use.erasers, u # t
                 PROVE  EraserOK(u)'
      BY <1>0 DEF ListsInv, PathInv
    <2>1. u \in Threads /\ EraserOK(u) /\ th'[u] = th[u]
      BY StepBefore DEF OnlyThread, ListsInv, PathInv
    <2>2. it(u)' = it(u) /\ target(u)' = target(u)
      BY <2>1 DEF it, target
    <2> QED
      BY <1>0, <2>1, <2>2 DEF EraserOK
  <1> QED
    BY <1>1, <1>2, <1>3, <1>4, <1>5 DEF ListsInv

\* One thread's frame is replaced.
LEMMA FrameStep ==
    ASSUME th \in [Threads -> Frames], NEW t \in Threads, NEW f \in Frames, th' = [th EXCEPT ![t] = f]
    PROVE  th' \in [Threads -> Frames] /\ th'[t] = f /\ \A u \in Threads \ {t} : th'[u] = th[u]
  OBVIOUS

\* Return() leaves the thread idle, with its iterator.
LEMMA ReturnShape ==
    ASSUME ListsInv, NEW t \in Threads, NEW r \in {"true", "false"}, Return(t, r)
    PROVE  /\ th' \in [Threads -> Frames] /\ \A u \in Threads \ {t} : th'[u] = th[u]
           /\ th'[t].pc = "idle" /\ th'[t].it = th[t].it /\ th'[t].node = Null
  <1>1. th \in [Threads -> Frames] /\ th[t] \in Frames
    BY StepBefore
  <1> QED
    BY <1>1, SMT DEF Return, Frames, Words, Word

\* A step after which the thread is idle.
LEMMA IdleStep ==
    ASSUME ListsInv, NEW t \in Threads, OnlyThread(t),
           UNCHANGED <<use, next, pub, linked, erased>>,
           th' \in [Threads -> Frames], sees' \in [Threads -> SUBSET Nodes],
           th'[t].pc = "idle", th'[t].node = Null, th'[t].it \in Members \cup {Null},
           th'[t].it \in Nodes => th'[t].it \in sees'[t],
           sees'[t] \subseteq linked, Complete(sees'[t]),
           ~supports_marking /\ t \in use.erasers => th'[t].it \in From(next) \cup {Null}
    PROVE  ListsInv'
  <1>1. Members' = Members /\ From(next)' = From(next) /\ it(t)' = th'[t].it
    BY DEF Members, From, it
  <1>2. CallOK(t)'
    BY <1>1 DEF CallOK
  <1>3. SeesOK(t)'
    BY <1>1 DEF SeesOK, Complete, Gives
  <1>4. ~supports_marking /\ t \in use.erasers => EraserOK(t)'
    BY <1>1 DEF EraserOK
  <1> QED
    BY <1>2, <1>3, <1>4, QuietStep

\* What a thread outside insert_after() sees is linked.
LEMMA SeesLinked ==
    ASSUME ListsInv, NEW t \in Threads, th[t].pc \notin {"insert", "link"}
    PROVE  sees[t] \subseteq linked
  <1>1. th[t].node = Null /\ SeesOK(t) /\ sees[t] \in SUBSET Nodes
    BY StepBefore DEF CallOK
  <1> QED
    BY <1>1, NodesAssumption DEF SeesOK

\* The iterator's operations and an insert_after() at the end.
LEMMA IteratorSteps ==
    ASSUME ListsInv, NEW t \in Threads, Before_begin(t) \/ Increment(t) \/ NullAnchor(t)
    PROVE  ListsInv'
  <1>0. /\ th \in [Threads -> Frames] /\ th[t] \in Frames /\ CallOK(t) /\ SeesOK(t)
        /\ sees \in [Threads -> SUBSET Nodes] /\ th[t].pc = "idle" /\ th[t].node = Null
        /\ sees[t] \subseteq linked /\ linked \subseteq Nodes /\ head_ \notin Nodes
        /\ (~supports_marking /\ t \in use.erasers => EraserOK(t))
    BY StepBefore, SeesLinked, NodesAssumption DEF Before_begin, Increment, NullAnchor, Idle, CallOK
  <1>1. CASE Before_begin(t)
    <2>1. /\ th' \in [Threads -> Frames] /\ \A u \in Threads \ {t} : th'[u] = th[u]
          /\ th'[t].pc = "idle" /\ th'[t].node = Null /\ th'[t].it = head_
      BY <1>0, <1>1, SMTT(20) DEF Before_begin, Frames
    <2>2. sees' = sees /\ UNCHANGED <<use, next, pub, linked, erased>> /\ OnlyThread(t)
      BY <1>1, <2>1 DEF Before_begin, OnlyThread
    <2> QED
      BY <1>0, <2>1, <2>2, IdleStep DEF SeesOK, Members, From
  <1>2. CASE Increment(t)
    <2> DEFINE n == it(t)
    <2>1. /\ th' = [th EXCEPT ![t].it = next[n].ptr] /\ UNCHANGED <<use, next, pub, linked, erased>>
          /\ sees' = [sees EXCEPT ![t] = sees[t] \cup pub[n]] /\ n # Null
      BY <1>2 DEF Increment, Acquire
    <2>2. n \in Members /\ (n = head_ \/ n \in sees[t])
      BY <1>0, <2>1 DEF CallOK, SeesOK, Members
    <2>3. /\ next[n].ptr \in sees[t] \cup pub[n] \cup {Null} /\ next[n].ptr \in Ends
          /\ Complete(sees[t] \cup pub[n]) /\ sees[t] \cup pub[n] \subseteq linked \cup {th[t].node}
          /\ sees[t] \cup pub[n] \in SUBSET Nodes
      BY <2>2, AcquireGives
    <2>4. next[n].ptr \in Nodes \cup {Null}
      BY <1>0, <2>3 DEF Ends
    <2> HIDE DEF n
    <2>5. /\ th' \in [Threads -> Frames] /\ \A u \in Threads \ {t} : th'[u] = th[u]
          /\ th'[t].pc = "idle" /\ th'[t].node = Null /\ th'[t].it = next[n].ptr
      BY <1>0, <2>1, <2>4, SMT DEF Frames
    <2>6. /\ sees' \in [Threads -> SUBSET Nodes] /\ sees'[t] = sees[t] \cup pub[n]
          /\ \A u \in Threads \ {t} : sees'[u] = sees[u]
      BY <1>0, <2>1, <2>3
    <2>7. sees[t] \cup pub[n] \subseteq linked
      BY <1>0, <2>3, NodesAssumption
    <2>8. ~supports_marking /\ t \in use.erasers => next[n].ptr \in From(next) \cup {Null}
      <3> SUFFICES ASSUME ~supports_marking, t \in use.erasers
                   PROVE  next[n].ptr \in From(next) \cup {Null}
        OBVIOUS
      <3>1. n \in From(next) /\ next \in Maps /\ head_ \in Places
        BY <1>0, <2>1, StepBefore DEF EraserOK, n
      <3> QED
        BY <3>1, AheadClosed DEF From
    <2>9. th'[t].it \in Members \cup {Null} /\ OnlyThread(t)
      BY <2>3, <2>5, <2>6 DEF Members, Ends, OnlyThread
    <2>10. th'[t].it \in Nodes => th'[t].it \in sees'[t]
      BY <2>3, <2>5, <2>6, NodesAssumption
    <2> QED
      BY <2>1, <2>3, <2>5, <2>6, <2>7, <2>8, <2>9, <2>10, IdleStep
  <1>3. CASE NullAnchor(t)
    <2>1. /\ th' \in [Threads -> Frames] /\ \A u \in Threads \ {t} : th'[u] = th[u]
          /\ th'[t].pc = "idle" /\ th'[t].node = Null /\ th'[t].it = th[t].it
      BY <1>3, ReturnShape DEF NullAnchor
    <2>2. /\ sees' = sees /\ UNCHANGED <<use, next, pub, linked, erased>> /\ OnlyThread(t)
          /\ th[t].it = Null
      BY <1>3, <2>1 DEF NullAnchor, OnlyThread, it
    <2> QED
      BY <1>0, <2>1, <2>2, IdleStep, NodesAssumption DEF SeesOK
  <1> QED
    BY <1>1, <1>2, <1>3

-----------------------------------------------------------------------------
(* The steps inside a call that change no word.                            *)

\* A call returns, with S as what its thread sees.
LEMMA ReturnStep ==
    ASSUME ListsInv, NEW t \in Threads, NEW r \in {"true", "false"}, Return(t, r),
           UNCHANGED <<use, next, pub, linked, erased>>,
           NEW S \in SUBSET Nodes, sees' = [sees EXCEPT ![t] = S],
           sees[t] \ {th[t].node} \subseteq S, S \subseteq linked, Complete(S)
    PROVE  ListsInv'
  <1>0. /\ CallOK(t) /\ SeesOK(t) /\ sees \in [Threads -> SUBSET Nodes] /\ linked \subseteq Nodes
        /\ (~supports_marking /\ t \in use.erasers => EraserOK(t))
    BY StepBefore
  <1>1. /\ th' \in [Threads -> Frames] /\ \A u \in Threads \ {t} : th'[u] = th[u]
        /\ th'[t].pc = "idle" /\ th'[t].it = th[t].it /\ th'[t].node = Null
    BY ReturnShape
  <1>2. sees' \in [Threads -> SUBSET Nodes] /\ sees'[t] = S /\ OnlyThread(t)
    BY <1>0, <1>1 DEF OnlyThread
  <1>3. th'[t].it \in Members \cup {Null}
    BY <1>0, <1>1 DEF CallOK, it
  <1>4. th'[t].it \in Nodes => th'[t].it \in sees'[t]
    <2> SUFFICES ASSUME th[t].it \in Nodes
                 PROVE  th[t].it \in S
      BY <1>1, <1>2
    <2>1. th[t].it \in linked /\ th[t].it \in sees[t]
      BY <1>0, NodesAssumption DEF CallOK, SeesOK, Members, it
    <2>2. th[t].node \notin linked
      BY <1>0, NodesAssumption DEF CallOK
    <2> QED
      BY <2>1, <2>2
  <1>5. ~supports_marking /\ t \in use.erasers => th'[t].it \in From(next) \cup {Null}
    BY <1>0, <1>1 DEF EraserOK, it
  <1> QED
    BY <1>1, <1>2, <1>3, <1>4, <1>5, IdleStep

\* A word of a member that t sees is acquired.
LEMMA AcquireStep ==
    ASSUME ListsInv, NEW t \in Threads, NEW n \in Members, n = head_ \/ n \in sees[t], Acquire(t, n)
    PROVE  /\ sees' \in [Threads -> SUBSET Nodes] /\ sees' = [sees EXCEPT ![t] = sees[t] \cup pub[n]]
           /\ sees'[t] = sees[t] \cup pub[n] /\ \A u \in Threads \ {t} : sees'[u] = sees[u]
           /\ sees'[t] \in SUBSET Nodes /\ next[n].ptr \in sees'[t] \cup {Null}
           /\ next[n].ptr \in Ends /\ Complete(sees'[t]) /\ sees'[t] \subseteq linked \cup {th[t].node}
  <1>1. sees \in [Threads -> SUBSET Nodes] /\ sees' = [sees EXCEPT ![t] = sees[t] \cup pub[n]]
    BY StepBefore DEF Acquire
  <1>2. /\ next[n].ptr \in sees[t] \cup pub[n] \cup {Null} /\ next[n].ptr \in Ends
        /\ Complete(sees[t] \cup pub[n]) /\ sees[t] \cup pub[n] \subseteq linked \cup {th[t].node}
        /\ sees[t] \cup pub[n] \in SUBSET Nodes
    BY AcquireGives
  <1>3. sees'[t] = sees[t] \cup pub[n] /\ \A u \in Threads \ {t} : sees'[u] = sees[u]
    BY <1>1
  <1>4. sees' \in [Threads -> SUBSET Nodes]
    BY <1>1, <1>2
  <1> QED
    BY <1>1, <1>2, <1>3, <1>4

\* The anchor of a call is such a member.
LEMMA AnchorSeen ==
    ASSUME ListsInv, NEW t \in Threads, it(t) # Null
    PROVE  it(t) \in Members /\ (it(t) = head_ \/ it(t) \in sees[t]) /\ it(t) \in Places
  BY StepBefore DEF CallOK, SeesOK, Members

\* ... and so is the target.
LEMMA TargetSeen ==
    ASSUME ListsInv, NEW t \in Threads, th[t].pc \in {"target", "mark", "unlink"}
    PROVE  /\ target(t) \in Members /\ target(t) \in sees[t] /\ target(t) \in linked
           /\ target(t) \in Nodes /\ target(t) \in Places /\ ~th[t].exp.mark
  <1>1. CallOK(t) /\ SeesOK(t) /\ linked \subseteq Nodes /\ Members \subseteq Places
    BY StepBefore
  <1>2. target(t) \in linked /\ ~th[t].exp.mark
    BY <1>1 DEF CallOK
  <1>3. target(t) \in sees[t] \cup {Null}
    BY <1>1 DEF SeesOK, target
  <1> QED
    BY <1>1, <1>2, <1>3, NodesAssumption DEF Members

\* insert_after() is called.
LEMMA InsertStarts ==
    ASSUME ListsInv, NEW t \in Threads, Insert_after(t)
    PROVE  ListsInv'
  <1>0. /\ th \in [Threads -> Frames] /\ th[t] \in Frames /\ CallOK(t) /\ SeesOK(t)
        /\ sees \in [Threads -> SUBSET Nodes] /\ th[t].pc = "idle" /\ it(t) # Null
        /\ sees[t] \subseteq linked /\ linked \subseteq Nodes
        /\ (~supports_marking /\ t \in use.erasers => EraserOK(t))
        /\ UNCHANGED <<use, next, pub, linked, erased>>
    BY StepBefore, SeesLinked DEF Insert_after, Idle
  <1>1. PICK p \in Fresh : p = new_node
    BY DEF Insert_after, new_node
  <1>2. p \in Nodes \ linked
    BY <1>1 DEF Fresh
  <1> DEFINE f == [th[t] EXCEPT !.pc = "insert", !.node = p, !.ret = "none"]
  <1>3. /\ th' = [th EXCEPT ![t] = f]
        /\ sees' = [sees EXCEPT ![t] = sees[t] \cup {p}]
    BY <1>1 DEF Insert_after
  <1>4. /\ th' \in [Threads -> Frames] /\ \A u \in Threads \ {t} : th'[u] = th[u]
        /\ th'[t].pc = "insert" /\ th'[t].node = p /\ th'[t].it = th[t].it
    <2>1. th[t] \in Frames /\ p \in Nodes
      BY <1>0, <1>2
    <2>2. f \in Frames /\ f.pc = "insert" /\ f.node = p /\ f.it = th[t].it
      BY <2>1 DEF Frames
    <2> HIDE DEF f
    <2> QED
      BY <1>0, <1>3, <2>2, FrameStep
  <1>5. /\ sees' \in [Threads -> SUBSET Nodes] /\ sees'[t] = sees[t] \cup {p}
        /\ \A u \in Threads \ {t} : sees'[u] = sees[u]
    BY <1>0, <1>2, <1>3
  <1>6. it(t)' = it(t) /\ Members' = Members /\ From(next)' = From(next)
    BY <1>0, <1>4 DEF it, Members, From
  <1>7. CallOK(t)'
    BY <1>0, <1>2, <1>4, <1>6 DEF CallOK
  <1>8. SeesOK(t)'
    <2>2. \A n \in sees'[t] \cap linked' : next'[n].ptr \in sees'[t] \cup pub'[n] \cup {Null}
      BY <1>0, <1>2, <1>5 DEF SeesOK, Complete, Gives
    <2>3. it(t)' \in Nodes => it(t)' \in sees'[t]
      BY <1>0, <1>5, <1>6 DEF SeesOK
    <2> QED
      BY <1>0, <1>4, <1>5, <2>2, <2>3 DEF SeesOK, Complete, Gives
  <1>9. ~supports_marking /\ t \in use.erasers => EraserOK(t)'
    BY <1>0, <1>4, <1>6 DEF EraserOK
  <1>10. OnlyThread(t) /\ th'[t].node \in {Null, th[t].node} \cup Fresh
    BY <1>1, <1>4, <1>5 DEF OnlyThread
  <1> QED
    BY <1>0, <1>4, <1>5, <1>7, <1>8, <1>9, <1>10, QuietStep

\* The anchor is erased: the node is abandoned.
LEMMA InsertGivesUp ==
    ASSUME ListsInv, NEW t \in Threads, InsertDeleted(t)
    PROVE  ListsInv'
  <1>0. /\ CallOK(t) /\ SeesOK(t) /\ sees \in [Threads -> SUBSET Nodes] /\ th[t].pc = "insert"
        /\ linked \subseteq Nodes /\ UNCHANGED <<use, next, pub, linked, erased>> /\ Return(t, "false")
    BY StepBefore DEF InsertDeleted
  <1>1. it(t) # Null /\ th[t].node \notin linked
    BY <1>0 DEF CallOK
  <1> DEFINE n == it(t)
             S == (sees[t] \cup pub[n]) \ {th[t].node}
  <1>2. n \in Members /\ (n = head_ \/ n \in sees[t])
    BY <1>1, AnchorSeen
  <1>3. /\ Complete(sees[t] \cup pub[n]) /\ sees[t] \cup pub[n] \subseteq linked \cup {th[t].node}
        /\ sees[t] \cup pub[n] \in SUBSET Nodes
    BY <1>2, AcquireGives
  <1>4. sees' = [sees EXCEPT ![t] = S]
    BY DEF InsertDeleted
  <1>5. S \in SUBSET Nodes /\ S \subseteq linked /\ sees[t] \ {th[t].node} \subseteq S
    BY <1>3
  <1>6. Complete(S)
    <2> SUFFICES ASSUME NEW k \in S \cap linked
                 PROVE  next[k].ptr \in S \cup pub[k] \cup {Null}
      BY DEF Complete, Gives
    <2>1. next[k].ptr \in (sees[t] \cup pub[n]) \cup pub[k] \cup {Null}
      BY <1>3 DEF Complete, Gives
    <2>2. next[k].ptr \in Ends
      BY DEF ListsInv, ListInv, Members
    <2>3. next[k].ptr # th[t].node \/ next[k].ptr = Null
      BY <1>1, <2>2 DEF Ends
    <2> QED
      BY <2>1, <2>3
  <1> HIDE DEF S
  <1> QED
    BY <1>0, <1>4, <1>5, <1>6, ReturnStep

\* The exchange of an insertion fails: with marking the anchor is read again.
LEMMA InsertRetries ==
    ASSUME ListsInv, NEW t \in Threads, LinkFails(t), supports_marking
    PROVE  ListsInv'
  <1>0. /\ th \in [Threads -> Frames] /\ th[t] \in Frames /\ CallOK(t) /\ SeesOK(t)
        /\ sees \in [Threads -> SUBSET Nodes] /\ th[t].pc = "link"
        /\ UNCHANGED <<use, next, pub, linked, erased, sees>>
        /\ th' = [th EXCEPT ![t].pc = "insert"]
    BY StepBefore DEF LinkFails
  <1>1. /\ th' \in [Threads -> Frames] /\ \A u \in Threads \ {t} : th'[u] = th[u]
        /\ th'[t].pc = "insert" /\ th'[t].node = th[t].node /\ th'[t].it = th[t].it
    BY <1>0, SMT DEF Frames
  <1>2. it(t)' = it(t) /\ Members' = Members /\ OnlyThread(t)
    BY <1>0, <1>1 DEF it, Members, OnlyThread
  <1>3. CallOK(t)'
    BY <1>0, <1>1, <1>2 DEF CallOK
  <1>4. SeesOK(t)'
    BY <1>0, <1>1, <1>2 DEF SeesOK, Complete, Gives
  <1> QED
    BY <1>0, <1>1, <1>2, <1>3, <1>4, QuietStep

\* erase_after() is called, or goes round again.
LEMMA EraseStarts ==
    ASSUME ListsInv, NEW t \in Threads, th[t].pc \notin {"insert", "link"}, it(t) # Null,
           UNCHANGED <<use, next, pub, linked, erased, sees>>,
           th' = [th EXCEPT ![t].pc = "erase"] \/ th' = [th EXCEPT ![t] = [@ EXCEPT !.pc = "erase", !.ret = "none"]]
    PROVE  ListsInv'
  <1>0. /\ th \in [Threads -> Frames] /\ th[t] \in Frames /\ CallOK(t) /\ SeesOK(t)
        /\ sees \in [Threads -> SUBSET Nodes]
        /\ (~supports_marking /\ t \in use.erasers => EraserOK(t))
    BY StepBefore
  <1>1. /\ th' \in [Threads -> Frames] /\ \A u \in Threads \ {t} : th'[u] = th[u]
        /\ th'[t].pc = "erase" /\ th'[t].node = th[t].node /\ th'[t].it = th[t].it
    <2>1. CASE th' = [th EXCEPT ![t].pc = "erase"]
      BY <1>0, <2>1, SMT DEF Frames
    <2>2. CASE th' = [th EXCEPT ![t] = [@ EXCEPT !.pc = "erase", !.ret = "none"]]
      <3> DEFINE f == [th[t] EXCEPT !.pc = "erase", !.ret = "none"]
      <3>1. f \in Frames /\ f.pc = "erase" /\ f.node = th[t].node /\ f.it = th[t].it
        BY <1>0 DEF Frames
      <3>2. th' = [th EXCEPT ![t] = f]
        BY <2>2
      <3> HIDE DEF f
      <3> QED
        BY <1>0, <3>1, <3>2, FrameStep
    <2> QED
      BY <2>1, <2>2
  <1>2. it(t)' = it(t) /\ Members' = Members /\ OnlyThread(t) /\ From(next)' = From(next)
    BY <1>0, <1>1 DEF it, Members, OnlyThread, From
  <1>3. CallOK(t)'
    BY <1>0, <1>1, <1>2 DEF CallOK
  <1>4. SeesOK(t)'
    BY <1>0, <1>1, <1>2 DEF SeesOK, Complete, Gives
  <1>5. ~supports_marking /\ t \in use.erasers => EraserOK(t)'
    BY <1>0, <1>1, <1>2 DEF EraserOK
  <1> QED
    BY <1>0, <1>1, <1>2, <1>3, <1>4, <1>5, QuietStep

\* The anchor has no successor, or is erased.
LEMMA ErasesNothing ==
    ASSUME ListsInv, NEW t \in Threads, th[t].pc \notin {"insert", "link"}, it(t) # Null,
           UNCHANGED <<use, next, pub, linked, erased>>, Acquire(t, it(t)), Return(t, "false")
    PROVE  ListsInv'
  <1>1. it(t) \in Members /\ (it(t) = head_ \/ it(t) \in sees[t])
    BY AnchorSeen
  <1>2. /\ sees' = [sees EXCEPT ![t] = sees[t] \cup pub[it(t)]]
        /\ Complete(sees'[t]) /\ sees'[t] = sees[t] \cup pub[it(t)] /\ sees'[t] \in SUBSET Nodes
        /\ sees'[t] \subseteq linked \cup {th[t].node}
    BY <1>1, AcquireStep
  <1>3. th[t].node = Null /\ Null \notin Nodes
    BY StepBefore, NodesAssumption DEF CallOK
  <1>4. sees'[t] \subseteq linked
    BY <1>2, <1>3
  <1> QED
    BY <1>2, <1>4, ReturnStep

\* The anchor's successor becomes the target.
LEMMA TargetLoaded ==
    ASSUME ListsInv, NEW t \in Threads, th[t].pc \notin {"insert", "link"}, it(t) # Null,
           UNCHANGED <<use, next, pub, linked, erased>>, Acquire(t, it(t)),
           next[it(t)].ptr # Null, ~next[it(t)].mark,
           th' = [th EXCEPT ![t] = [@ EXCEPT !.pc = "target", !.exp = next[it(t)]]]
    PROVE  ListsInv'
  <1>0. /\ th \in [Threads -> Frames] /\ th[t] \in Frames /\ CallOK(t) /\ SeesOK(t)
        /\ next \in Maps /\ linked \subseteq Nodes
        /\ (~supports_marking /\ t \in use.erasers => EraserOK(t))
    BY StepBefore
  <1>1. it(t) \in Members /\ (it(t) = head_ \/ it(t) \in sees[t]) /\ it(t) \in Places
    BY AnchorSeen
  <1>2. /\ sees' \in [Threads -> SUBSET Nodes] /\ \A u \in Threads \ {t} : sees'[u] = sees[u]
        /\ sees'[t] = sees[t] \cup pub[it(t)]
        /\ next[it(t)].ptr \in sees'[t] \cup {Null} /\ next[it(t)].ptr \in Ends
        /\ Complete(sees'[t]) /\ sees'[t] \subseteq linked \cup {th[t].node}
    BY <1>1, AcquireStep
  <1>3. next[it(t)] \in Words
    BY <1>0, <1>1 DEF Maps
  <1>4. /\ th' \in [Threads -> Frames] /\ \A u \in Threads \ {t} : th'[u] = th[u]
        /\ th'[t].pc = "target" /\ th'[t].node = th[t].node /\ th'[t].it = th[t].it
        /\ th'[t].exp = next[it(t)]
    <2> DEFINE w == next[it(t)]
               f == [th[t] EXCEPT !.pc = "target", !.exp = w]
    <2>1. th[t] \in Frames /\ w \in Words /\ th' = [th EXCEPT ![t] = f]
      BY <1>0, <1>3
    <2> HIDE DEF w
    <2>2. /\ f \in Frames /\ f.pc = "target" /\ f.node = th[t].node /\ f.it = th[t].it
          /\ f.exp = w
      BY <2>1 DEF Frames
    <2> HIDE DEF f
    <2> QED
      BY <1>0, <2>1, <2>2, FrameStep DEF w
  <1>5. /\ it(t)' = it(t) /\ Members' = Members /\ OnlyThread(t) /\ From(next)' = From(next)
        /\ target(t)' = next[it(t)].ptr /\ After(head_)' = After(head_)
    BY <1>2, <1>4 DEF it, Members, OnlyThread, From, target, After
  <1>6. CallOK(t)'
    BY <1>0, <1>2, <1>4, <1>5 DEF CallOK, Ends
  <1>7. SeesOK(t)'
    <2>1. it(t)' \in Nodes => it(t)' \in sees'[t]
      BY <1>0, <1>2, <1>5 DEF SeesOK
    <2> QED
      BY <1>2, <1>4, <2>1 DEF SeesOK, Complete, Gives
  <1>8. ~supports_marking /\ t \in use.erasers => EraserOK(t)'
    <2> SUFFICES ASSUME ~supports_marking, t \in use.erasers
                 PROVE  EraserOK(t)'
      OBVIOUS
    <2>1. it(t) \in From(next) /\ head_ \in Places
      BY <1>0 DEF EraserOK, Places
    <2>2. next[it(t)].ptr \in After(head_)
      BY <1>0, <2>1, AheadClosed DEF From, After
    <2> QED
      BY <1>4, <1>5, <2>1, <2>2 DEF EraserOK
  <1> QED
    BY <1>0, <1>2, <1>4, <1>5, <1>6, <1>7, <1>8, QuietStep

\* The target's own word is read.
LEMMA TargetExamined ==
    ASSUME ListsInv, NEW t \in Threads, th[t].pc \in {"target", "mark"},
           UNCHANGED <<use, next, pub, linked, erased>>, Acquire(t, target(t)),
           Examined(t, next[target(t)])
    PROVE  ListsInv'
  <1>0. /\ th \in [Threads -> Frames] /\ th[t] \in Frames /\ CallOK(t) /\ SeesOK(t)
        /\ next \in Maps /\ linked \subseteq Nodes
        /\ (~supports_marking /\ t \in use.erasers => EraserOK(t))
    BY StepBefore
  <1>1. /\ target(t) \in Members /\ target(t) \in sees[t] /\ target(t) \in linked
        /\ target(t) \in Nodes /\ target(t) \in Places /\ ~th[t].exp.mark
    BY TargetSeen
  <1>2. /\ sees' \in [Threads -> SUBSET Nodes] /\ \A u \in Threads \ {t} : sees'[u] = sees[u]
        /\ sees'[t] = sees[t] \cup pub[target(t)]
        /\ next[target(t)].ptr \in sees'[t] \cup {Null} /\ next[target(t)].ptr \in Ends
        /\ Complete(sees'[t]) /\ sees'[t] \subseteq linked \cup {th[t].node}
    BY <1>1, AcquireStep
  <1>3. PICK w \in Words : /\ w = next[target(t)] /\ (w.mark => supports_marking)
                           /\ w.ptr \in sees'[t] \cup {Null} /\ w.ptr \in Ends
    BY <1>0, <1>1, <1>2 DEF Maps, ListsInv, ListInv
  <1> DEFINE step == IF supports_marking /\ ~w.mark THEN "mark" ELSE "unlink"
             f == [th[t] EXCEPT !.tnext = w, !.pc = step]
  <1>4. /\ th' = [th EXCEPT ![t] = f] /\ step \in {"mark", "unlink"}
        /\ (step = "mark" <=> supports_marking /\ ~w.mark)
    BY <1>3 DEF Examined
  <1> HIDE DEF step
  <1>5. /\ th' \in [Threads -> Frames] /\ \A u \in Threads \ {t} : th'[u] = th[u]
        /\ th'[t].pc = step /\ th'[t].node = th[t].node /\ th'[t].it = th[t].it
        /\ th'[t].exp = th[t].exp /\ th'[t].tnext = w
    <2>1. th[t] \in Frames
      BY <1>0
    <2>2. /\ f \in Frames /\ f.pc = step /\ f.node = th[t].node /\ f.it = th[t].it
          /\ f.exp = th[t].exp /\ f.tnext = w
      BY <1>4, <2>1 DEF Frames
    <2> HIDE DEF f
    <2> QED
      BY <1>0, <1>4, <2>2, FrameStep
  <1> HIDE DEF f
  <1>6. /\ it(t)' = it(t) /\ Members' = Members /\ OnlyThread(t) /\ From(next)' = From(next)
        /\ target(t)' = target(t) /\ After(head_)' = After(head_)
        /\ After(target(t))' = After(target(t)) /\ Ends' = Ends /\ (supports_marking' <=> supports_marking)
    BY <1>2, <1>5 DEF it, Members, OnlyThread, From, target, After, Ends, supports_marking
  <1>7. CallOK(t)'
    <2>1. /\ it(t)' \in Members' \cup {Null} /\ it(t)' # Null /\ th'[t].node = Null
      BY <1>0, <1>5, <1>6 DEF CallOK
    <2>2. th'[t].pc = "mark" => supports_marking' /\ ~th'[t].tnext.mark
      BY <1>4, <1>5, <1>6
    <2>3. th'[t].pc = "unlink" => /\ th'[t].tnext.mark <=> supports_marking'
                                  /\ supports_marking' => next'[target(t)'] = th'[t].tnext
      BY <1>3, <1>4, <1>5, <1>6
    <2>4. /\ th'[t].pc \in {"mark", "unlink"} /\ ~th'[t].exp.mark /\ target(t)' \in linked'
          /\ th'[t].tnext.ptr \in Ends'
      BY <1>1, <1>3, <1>4, <1>5, <1>6
    <2> QED
      BY <2>1, <2>2, <2>3, <2>4 DEF CallOK
  <1>8. SeesOK(t)'
    <2>1. it(t)' \in Nodes => it(t)' \in sees'[t]
      BY <1>0, <1>2, <1>6 DEF SeesOK
    <2>2. th'[t].exp.ptr \in sees'[t]
      BY <1>1, <1>2, <1>5 DEF target
    <2> QED
      BY <1>2, <1>3, <1>4, <1>5, <2>1, <2>2 DEF SeesOK, Complete, Gives
  <1>9. ~supports_marking /\ t \in use.erasers => EraserOK(t)'
    <2> SUFFICES ASSUME ~supports_marking, t \in use.erasers
                 PROVE  EraserOK(t)'
      OBVIOUS
    <2>1. th[t].pc = "target" /\ it(t) \in From(next) \cup {Null} /\ target(t) \in After(head_)
      BY <1>0 DEF EraserOK, CallOK
    <2>2. target(t) \notin Ahead(next, target(t))
      BY <1>0, <2>1, NoCycle DEF ListsInv, PathInv, After
    <2>3. w.ptr # Null => w.ptr \in After(target(t)) /\ w.ptr # target(t)
      BY <1>0, <1>1, <1>3, <2>2, AheadClosed DEF After
    <2> QED
      BY <1>4, <1>5, <1>6, <2>1, <2>3 DEF EraserOK
  <1> QED
    BY <1>0, <1>2, <1>5, <1>6, <1>7, <1>8, <1>9, QuietStep

\* The steps of the calls that change no word.
LEMMA QuietSteps ==
    ASSUME ListsInv, NEW t \in Threads,
           \/ NothingToErase(t) \/ LoadTarget(t) \/ LoadTargetNext(t) \/ MarkFails(t)
           \/ UnlinkFails(t) \/ UnlinkDirectFails(t) \/ Erase_after(t)
    PROVE  ListsInv' /\ next' = next
  <1>0. CallOK(t) /\ next \in Maps
    BY StepBefore
  <1>1. ASSUME th[t].pc # "idle"
        PROVE  it(t) # Null
    BY <1>0, <1>1 DEF CallOK
  <1>2. CASE NothingToErase(t)
    BY <1>1, <1>2, ErasesNothing DEF NothingToErase
  <1>3. CASE LoadTarget(t)
    BY <1>1, <1>3, TargetLoaded DEF LoadTarget
  <1>4. CASE LoadTargetNext(t)
    BY <1>4, TargetExamined DEF LoadTargetNext
  <1>5. CASE MarkFails(t)
    BY <1>5, TargetExamined DEF MarkFails
  <1>6. CASE UnlinkFails(t)
    <2>1. /\ th[t].pc = "unlink" /\ it(t) # Null /\ next' = next
          /\ UNCHANGED <<use, next, pub, linked, erased, sees>>
      BY <1>1, <1>6 DEF UnlinkFails
    <2>2. CASE th' = [th EXCEPT ![t].pc = "erase"]
      BY <2>1, <2>2, EraseStarts
    <2>3. CASE Return(t, "true")
      <3>1. /\ sees[t] \in SUBSET Nodes /\ sees' = [sees EXCEPT ![t] = sees[t]]
            /\ sees[t] \subseteq linked /\ Complete(sees[t])
        BY <2>1, StepBefore, SeesLinked DEF SeesOK
      <3> QED
        BY <2>1, <2>3, <3>1, ReturnStep
    <2> QED
      BY <1>6, <2>2, <2>3 DEF UnlinkFails, Unlinked
  <1>7. CASE UnlinkDirectFails(t)
    <2>1. /\ th[t].pc = "unlink" /\ it(t) # Null /\ next' = next /\ Acquire(t, it(t))
          /\ UNCHANGED <<use, next, pub, linked, erased>> /\ ~supports_marking
      BY <1>1, <1>7 DEF UnlinkDirectFails
    <2>2. ~next[it(t)].mark
      <3>1. it(t) \in Members
        BY <2>1, AnchorSeen
      <3> QED
        BY <2>1, <3>1 DEF ListsInv, ListInv, TypeOK, Members
    <2>3. CASE next[it(t)].ptr = Null
      BY <1>7, <2>1, <2>3, ErasesNothing DEF UnlinkDirectFails
    <2>4. CASE next[it(t)].ptr # Null
      BY <1>7, <2>1, <2>2, <2>4, TargetLoaded DEF UnlinkDirectFails
    <2> QED
      BY <2>3, <2>4
  <1>8. CASE Erase_after(t)
    BY <1>8, EraseStarts DEF Erase_after, Idle
  <1> QED
    BY <1>2, <1>3, <1>4, <1>5, <1>6, <1>7, <1>8

-----------------------------------------------------------------------------
(* The steps that change a word.                                           *)

\* What a step may do to the list, as NoResurrection has it.
KeepsNodes ==
    /\ After(head_)' \subseteq After(head_) \cup (linked' \ linked)
    /\ supports_marking => \A n \in Members : After(n) \ Erased' \subseteq After(n)'

\* The members lead to members.
LEMMA MembersLead ==
    ASSUME ListsInv
    PROVE  /\ next \in Maps /\ linked \in SUBSET Nodes /\ Members \subseteq Places /\ head_ \in Members
           /\ \A k \in linked \cup {head_} : next[k].ptr \in linked \cup {Null}
           /\ Ahead(next, head_) \subseteq linked /\ From(next) \subseteq Members
  <1>1. /\ next \in Maps /\ linked \in SUBSET Nodes /\ Members \subseteq Places /\ head_ \in Members
        /\ \A k \in linked \cup {head_} : next[k].ptr \in linked \cup {Null}
    BY DEF ListsInv, TypeOK, ListInv, Members, Ends, Maps, Places
  <1>2. Ahead(next, head_) \subseteq linked
    BY <1>1, AheadLeast
  <1> QED
    BY <1>1, <1>2 DEF From, Members

\* Where the members' pointers stay, so does all that is ahead of them.
LEMMA AfterSame ==
    ASSUME ListsInv, next' \in Maps, \A n \in Members : next'[n].ptr = next[n].ptr
    PROVE  /\ \A n \in Members : After(n)' = After(n)
           /\ From(next)' = From(next) /\ (Injective(next) => Injective(next)')
  <1>1. \A k \in linked \cup {head_} :
            next[k].ptr \in linked \cup {Null} /\ next'[k].ptr = next[k].ptr
    BY MembersLead DEF Members
  <1>2. \A n \in Members : Ahead(next', n) = Ahead(next, n)
    BY <1>1, MembersLead, AheadSame DEF Members
  <1>3. From(next') = From(next) /\ \A n \in From(next) : n \in Members
    BY <1>2, MembersLead DEF From
  <1>4. Injective(next) => Injective(next')
    BY <1>3 DEF Injective
  <1> QED
    BY <1>2, <1>3, <1>4 DEF After

\* Without marking: an eraser stands in the list as long as nothing leaves it.
LEMMA ErasersKept ==
    ASSUME ListsInv, ~supports_marking, NEW t \in Threads, OnlyThread(t),
           \A n \in Members : After(n) \subseteq After(n)', NEW u \in use.erasers,
           u = t => th'[t].it = th[t].it /\ th'[t].pc \notin {"target", "unlink"}
    PROVE  EraserOK(u)'
  <1>1. u \in Threads /\ EraserOK(u) /\ CallOK(u) /\ head_ \in Members
    BY StepBefore
  <1>2. From(next) \subseteq From(next)'
    BY <1>1 DEF From, After
  <1>3. it(u)' = it(u)
    BY <1>1 DEF OnlyThread, it
  <1>4. CASE u = t
    BY <1>1, <1>2, <1>3, <1>4 DEF EraserOK
  <1>5. CASE u # t
    <2>1. th'[u] = th[u] /\ target(u)' = target(u)
      BY <1>1, <1>5 DEF OnlyThread, target
    <2>2. th[u].pc = "unlink" => After(target(u)) \subseteq After(target(u))'
      <3>1. th[u].pc = "unlink" => target(u) \in Members
        BY <1>1 DEF CallOK, Members
      <3> QED
        BY <2>1, <3>1 DEF After
    <2> QED
      BY <1>1, <1>2, <1>3, <2>1, <2>2 DEF EraserOK
  <1> QED
    BY <1>4, <1>5

\* The new node, still unlinked, is pointed at the anchor's successor.
LEMMA PointStep ==
    ASSUME ListsInv, NEW t \in Threads, th[t].pc \in {"insert", "link"}, ~next[it(t)].mark,
           Acquire(t, it(t)), Point(t, next[it(t)]), UNCHANGED <<use, pub, linked, erased>>
    PROVE  ListsInv' /\ KeepsNodes
  <1>0. /\ th \in [Threads -> Frames] /\ th[t] \in Frames /\ CallOK(t) /\ SeesOK(t)
        /\ next \in Maps /\ linked \subseteq Nodes /\ pub \in [Places -> SUBSET Nodes]
    BY StepBefore
  <1>1. it(t) # Null /\ th[t].node \in Nodes \ linked
    BY <1>0 DEF CallOK
  <1> DEFINE p == th[t].node
             w == next[it(t)]
  <1>2. it(t) \in Members /\ (it(t) = head_ \/ it(t) \in sees[t]) /\ it(t) \in Places
    BY <1>1, AnchorSeen
  <1>3. /\ sees' \in [Threads -> SUBSET Nodes] /\ \A u \in Threads \ {t} : sees'[u] = sees[u]
        /\ sees'[t] = sees[t] \cup pub[it(t)] /\ sees'[t] \in SUBSET Nodes
        /\ w.ptr \in sees'[t] \cup {Null} /\ w.ptr \in Ends
        /\ Complete(sees'[t]) /\ sees'[t] \subseteq linked \cup {th[t].node}
    BY <1>2, AcquireStep
  <1>4. w \in Words /\ p \in Places /\ p \notin Members /\ ~next[p].mark
    <2>1. w \in Words /\ p \in Places /\ p \notin Members
      BY <1>0, <1>1, <1>2, NodesAssumption DEF Maps, Places, Members
    <2>2. p \notin Erased
      BY <1>1 DEF ListsInv, TypeOK
    <2> QED
      BY <1>1, <2>1, <2>2 DEF ListsInv, ListInv
  <1>5. next' = [next EXCEPT ![p] = w] /\ th' = [th EXCEPT ![t] = [th[t] EXCEPT !.pc = "link", !.exp = w]]
    BY DEF Point
  <1> HIDE DEF w, p
  <1>6. next' \in Maps /\ next'[p] = w /\ \A n \in Places \ {p} : next'[n] = next[n]
    BY <1>0, <1>4, <1>5 DEF Maps
  <1>7. /\ th' \in [Threads -> Frames] /\ \A u \in Threads \ {t} : th'[u] = th[u]
        /\ th'[t].pc = "link" /\ th'[t].node = p /\ th'[t].it = th[t].it /\ th'[t].exp = w
    <2> DEFINE f == [th[t] EXCEPT !.pc = "link", !.exp = w]
    <2>1. th[t] \in Frames /\ w \in Words
      BY <1>0, <1>4
    <2>2. f \in Frames /\ f.pc = "link" /\ f.node = th[t].node /\ f.it = th[t].it /\ f.exp = w
      BY <2>1 DEF Frames
    <2>3. th' = [th EXCEPT ![t] = f]
      BY <1>5
    <2> HIDE DEF f
    <2> QED
      BY <1>0, <2>2, <2>3, FrameStep DEF p
  <1>8. OnlyThread(t) /\ OnlyWord(p) /\ it(t)' = it(t)
    BY <1>3, <1>6, <1>7 DEF OnlyThread, OnlyWord, it
  <1>9. /\ Members' = Members /\ Ends' = Ends /\ Erased' = Erased /\ Live' = Live
        /\ (supports_marking' <=> supports_marking)
    BY DEF Members, Ends, Erased, Live, supports_marking
  <1>10. \A n \in Members : next'[n] = next[n]
    BY <1>4, <1>6, MembersLead
  <1>11. TypeOK'
    <2>1. ~next'[head_].mark
      BY <1>10, StepBefore
    <2> QED
      BY <1>3, <1>6, <1>7, <1>9, <2>1 DEF ListsInv, TypeOK, Maps, Places
  <1>12. CallInv'
    <2>1. CallOK(t)'
      BY <1>0, <1>1, <1>2, <1>3, <1>6, <1>7, <1>8, <1>9 DEF CallOK, w, p
    <2>2. \A u \in Threads \ {t} : th'[t].node # Null => th'[t].node # th[u].node
      BY <1>7 DEF ListsInv, CallInv, p
    <2>3. p = th[t].node
      BY DEF p
    <2> QED
      BY <1>4, <1>8, <2>1, <2>2, <2>3, CallKept
  <1>13. ListInv'
    <2>1. \A n \in Members : next'[n].ptr \in Ends
      BY <1>10 DEF ListsInv, ListInv
    <2>2. p \notin Erased /\ ~w.mark
      BY <1>1 DEF ListsInv, TypeOK, p, w
    <2>3. \A n \in Nodes : next'[n].mark <=> supports_marking /\ n \in Erased
      BY <1>6, <2>2 DEF ListsInv, ListInv, Places
    <2> QED
      BY <1>9, <2>1, <2>3 DEF ListsInv, ListInv
  <1>14. SeenInv'
    <2>1. WordStep(t, p)
      BY <1>1, <1>4, <1>8 DEF WordStep, p
    <2>2. CompleteNext(sees'[t])
      BY <1>1, <1>3, <1>4, <2>1, CompleteKept
    <2>3. Complete(sees[t])'
      BY <2>2 DEF CompleteNext, Complete, Gives
    <2>4. it(t)' \in Nodes => it(t)' \in sees'[t]
      BY <1>0, <1>3, <1>8 DEF SeesOK
    <2>5. p \in sees'[t] /\ sees'[t] \subseteq linked' \cup {p}
      BY <1>0, <1>3 DEF SeesOK, p
    <2>6. SeesOK(t)'
      BY <1>3, <1>7, <2>3, <2>4, <2>5 DEF SeesOK
    <2> QED
      BY <1>4, <1>8, <2>1, <2>6, SeenKept
  <1>15. /\ \A n \in Members : After(n)' = After(n)
         /\ From(next)' = From(next) /\ (Injective(next) => Injective(next)')
    BY <1>6, <1>10, AfterSame
  <1>16. PathInv'
    <2>1. CASE supports_marking
      BY <1>9, <1>15, <2>1 DEF ListsInv, PathInv, Members
    <2>2. CASE ~supports_marking
      <3>1. \A u \in use.erasers : EraserOK(u)'
        BY <1>7, <1>8, <1>15, <2>2, ErasersKept
      <3> QED
        BY <1>9, <1>15, <2>2, <3>1 DEF ListsInv, PathInv, Members
    <2> QED
      BY <2>1, <2>2
  <1>17. KeepsNodes
    BY <1>15 DEF KeepsNodes, Members
  <1> QED
    BY <1>11, <1>12, <1>13, <1>14, <1>16, <1>17 DEF ListsInv

\* A successful exchange of an unmarked member's word for one that the thread
\* sees keeps all but the path.
LEMMA ExchangeStep ==
    ASSUME ListsInv, NEW t \in Threads, NEW x \in Members, NEW w \in Words, Exchange(t, x, w),
           ~next[x].mark, x = head_ => ~w.mark, use' = use, sees' = sees,
           th' \in [Threads -> Frames], \A u \in Threads \ {t} : th'[u] = th[u],
           linked \subseteq linked', linked' \subseteq linked \cup {th[t].node}, linked' \subseteq Nodes,
           sees[t] \subseteq linked', w.ptr \in sees[t] \cup {Null},
           th[t].node \in linked' \ linked => next[th[t].node].ptr \in sees[t] \cup {Null},
           erased' \in Seq(Nodes), IsFiniteSet(Erased)', Cardinality(Erased)' = Len(erased)',
           Erased' \subseteq linked',
           w.mark <=> supports_marking /\ x \in Erased',
           supports_marking => \A n \in Nodes \ {x} : n \in Erased' => n \in Erased,
           Erased \subseteq Erased',
           CallOK(t)', th'[t].it = th[t].it, th'[t].node = Null,
           th'[t].pc \in {"idle", "erase", "unlink"},
           th'[t].pc = "unlink" => /\ th'[t].exp.ptr \in sees[t] \cup {Null}
                                   /\ th'[t].tnext.ptr \in sees[t] \cup {Null}
    PROVE  /\ TypeOK' /\ CallInv' /\ ListInv' /\ SeenInv' /\ OnlyThread(t)
           /\ next' \in Maps /\ next'[x] = w /\ \A n \in Places \ {x} : next'[n] = next[n]
  <1>0. /\ th \in [Threads -> Frames] /\ th[t] \in Frames /\ CallOK(t) /\ SeesOK(t)
        /\ next \in Maps /\ linked \subseteq Nodes /\ pub \in [Places -> SUBSET Nodes]
        /\ sees \in [Threads -> SUBSET Nodes] /\ x \in Places /\ head_ \in Places /\ ~next[head_].mark
    BY StepBefore DEF Places
  <1>1. /\ next' = [next EXCEPT ![x] = w] /\ pub' = [pub EXCEPT ![x] = pub[x] \cup sees[t]]
    BY DEF Exchange
  <1>2. next' \in Maps /\ next'[x] = w /\ \A n \in Places \ {x} : next'[n] = next[n]
    BY <1>0, <1>1 DEF Maps
  <1>3. /\ pub' \in [Places -> SUBSET Nodes] /\ pub'[x] = pub[x] \cup sees[t]
        /\ \A n \in Places \ {x} : pub'[n] = pub[n]
    BY <1>0, <1>1
  <1>4. OnlyThread(t) /\ OnlyWord(x)
    BY <1>2, <1>3 DEF OnlyThread, OnlyWord
  <1>5. TypeOK'
    <2>1. ~next'[head_].mark
      BY <1>0, <1>2
    <2> QED
      BY <1>0, <1>2, <1>3, <2>1 DEF ListsInv, TypeOK, Maps, Places
  <1>6. CallInv'
    BY <1>0, <1>4, CallKept
  <1>7. ListInv'
    <2>1. ASSUME NEW n \in Members'
          PROVE  next'[n].ptr \in Ends'
      <3>1. CASE n = x
        BY <1>2, <3>1 DEF Ends
      <3>2. CASE n # x /\ n \in Members
        BY <1>0, <1>2, <3>2, MembersLead DEF Ends, Members
      <3>3. CASE n # x /\ n = th[t].node /\ n \in linked' \ linked
        BY <1>2, <3>3 DEF Ends, Places
      <3> QED
        BY <3>1, <3>2, <3>3 DEF Members
    <2>2. ASSUME NEW n \in Nodes
          PROVE  next'[n].mark <=> supports_marking /\ n \in Erased'
      <3>1. CASE n = x
        BY <1>2, <3>1
      <3>2. CASE n # x
        <4>1. next'[n] = next[n]
          BY <1>2, <3>2 DEF Places
        <4>2. next[n].mark <=> supports_marking /\ n \in Erased
          BY DEF ListsInv, ListInv
        <4> QED
          BY <3>2, <4>1, <4>2
      <3> QED
        BY <3>1, <3>2
    <2>3. supports_marking' <=> supports_marking
      BY DEF supports_marking
    <2>4. \A n \in Nodes : next'[n].mark <=> supports_marking' /\ n \in Erased'
      BY <2>2, <2>3
    <2> QED
      BY <2>1, <2>4 DEF ListInv
  <1>8. SeenInv'
    <2>1. WordStep(t, x)
      <3>1. th[t].node \in linked' \ linked => next'[th[t].node] = next[th[t].node]
        BY <1>2, NodesAssumption, ZenonT(30) DEF Members, Places
      <3> QED
        BY <1>2, <1>3, <1>4, <3>1 DEF WordStep
    <2>2. CompleteNext(sees[t])
      BY <1>0, <2>1, CompleteKept DEF SeesOK
    <2>3. Complete(sees[t])'
      BY <2>2 DEF CompleteNext, Complete, Gives
    <2>4. it(t)' \in Nodes => it(t)' \in sees'[t]
      BY <1>0 DEF SeesOK, it
    <2>5. SeesOK(t)'
      BY <2>3, <2>4 DEF SeesOK
    <2> QED
      BY <1>0, <1>4, <2>1, <2>5, SeenKept
  <1> QED
    BY <1>2, <1>4, <1>5, <1>6, <1>7, <1>8

\* A node is erased once more.
LEMMA EraseCounts ==
    ASSUME ListsInv, NEW b \in linked, b \notin Erased, erased' = Append(erased, b)
    PROVE  /\ erased' \in Seq(Nodes) /\ Erased' = Erased \cup {b}
           /\ IsFiniteSet(Erased)' /\ Cardinality(Erased)' = Len(erased)'
           /\ Erased' \subseteq linked
  <1>1. /\ erased \in Seq(Nodes) /\ IsFiniteSet(Erased) /\ Cardinality(Erased) = Len(erased)
        /\ b \in Nodes /\ Erased \subseteq linked
    BY DEF ListsInv, ListInv, TypeOK
  <1>2. erased' \in Seq(Nodes) /\ Len(erased') = Len(erased) + 1
    BY <1>1, SMT
  <1>3. Erased' = Erased \cup {b}
    <2>1. /\ \A i \in 1..Len(erased) : erased'[i] = erased[i]
          /\ erased'[Len(erased) + 1] = b
      BY <1>1, SMT
    <2>2. \A i : i \in 1..Len(erased') <=> i \in 1..Len(erased) \/ i = Len(erased) + 1
      BY <1>1, <1>2, SMT
    <2> QED
      BY <2>1, <2>2 DEF Erased
  <1>4. /\ IsFiniteSet(Erased \cup {b}) /\ Cardinality(Erased \cup {b}) = Cardinality(Erased) + 1
    BY <1>1, FS_AddElement
  <1> QED
    BY <1>1, <1>2, <1>3, <1>4

\* insert_after() succeeds.
LEMMA LinkStep ==
    ASSUME ListsInv, NEW t \in Threads, Link(t)
    PROVE  ListsInv' /\ KeepsNodes
  <1>0. /\ th \in [Threads -> Frames] /\ th[t] \in Frames /\ CallOK(t) /\ SeesOK(t)
        /\ next \in Maps /\ linked \subseteq Nodes /\ th[t].pc = "link"
        /\ next[it(t)] = th[t].exp /\ Return(t, "true") /\ UNCHANGED <<use, sees, erased>>
        /\ linked' = linked \cup {th[t].node} /\ Exchange(t, it(t), Word(th[t].node, FALSE))
    BY StepBefore DEF Link
  <1>1. PICK p \in Nodes \ linked : p = th[t].node
    BY <1>0 DEF CallOK
  <1>2. PICK a \in Members : a = it(t) /\ a \in Places
    BY <1>0, AnchorSeen DEF CallOK
  <1>3. /\ next[p] = next[a] /\ ~next[a].mark /\ p \in sees[t] /\ next[p].ptr \in sees[t] \cup {Null}
        /\ sees[t] \subseteq linked \cup {p} /\ p # a /\ p \in Places
    BY <1>0, <1>1, <1>2, NodesAssumption DEF CallOK, SeesOK, Members, Places
  <1>4. PICK w \in Words : w = Word(p, FALSE) /\ w.ptr = p /\ ~w.mark
    <2>1. Word(p, FALSE) \in Words /\ Word(p, FALSE).ptr = p /\ ~Word(p, FALSE).mark
      BY <1>1, SMT DEF Words, Word
    <2> QED
      BY <2>1
  <1>5. Exchange(t, a, w)
    BY <1>0, <1>1, <1>2, <1>4
  <1>6. /\ th' \in [Threads -> Frames] /\ \A u \in Threads \ {t} : th'[u] = th[u]
        /\ th'[t].pc = "idle" /\ th'[t].it = th[t].it /\ th'[t].node = Null
    BY <1>0, ReturnShape
  <1>7. /\ Erased' = Erased /\ erased' \in Seq(Nodes) /\ IsFiniteSet(Erased)'
        /\ Cardinality(Erased)' = Len(erased)' /\ Erased \subseteq linked /\ linked \subseteq linked'
        /\ linked' = linked \cup {p} /\ linked' \subseteq Nodes /\ Erased' \subseteq linked'
    <2>1. Erased' = Erased /\ erased' = erased
      BY <1>0 DEF Erased
    <2>2. /\ erased \in Seq(Nodes) /\ IsFiniteSet(Erased) /\ Cardinality(Erased) = Len(erased)
          /\ Erased \subseteq linked
      BY DEF ListsInv, ListInv, TypeOK
    <2> QED
      BY <1>0, <1>1, <2>1, <2>2
  <1>8. ~(supports_marking /\ a \in Erased)
    BY <1>1, <1>3, <1>7, NodesAssumption DEF ListsInv, ListInv
  <1>9. CallOK(t)'
    BY <1>0, <1>6, <1>7 DEF CallOK, Members, it
  <1>10. /\ TypeOK' /\ CallInv' /\ ListInv' /\ SeenInv' /\ OnlyThread(t)
         /\ next' \in Maps /\ next'[a] = w /\ \A n \in Places \ {a} : next'[n] = next[n]
    <2>1. /\ linked' \subseteq linked \cup {th[t].node} /\ sees[t] \subseteq linked'
          /\ w.ptr \in sees[t] \cup {Null} /\ next[th[t].node].ptr \in sees[t] \cup {Null}
          /\ (w.mark <=> supports_marking /\ a \in Erased')
      BY <1>1, <1>3, <1>4, <1>7, <1>8
    <2>2. use' = use /\ sees' = sees /\ (a = head_ => ~w.mark) /\ ~next[a].mark
      BY <1>0, <1>3, <1>4
    <2>3. /\ supports_marking => \A n \in Nodes \ {a} : n \in Erased' => n \in Erased
          /\ Erased \subseteq Erased'
      BY <1>7
    <2> QED
      BY <1>5, <1>6, <1>7, <1>9, <2>1, <2>2, <2>3, ExchangeStep, ZenonT(40)
  <1>11. \A n \in Places : Ahead(next, n) \subseteq Ahead(next', n)
    <2>1. next[p].ptr = next[a].ptr /\ next'[a].ptr = p
      BY <1>3, <1>4, <1>10
    <2> QED
      BY <1>0, <1>1, <1>2, <1>3, <1>10, <2>1, LinkKeeps, ZenonT(30)
  <1>12. \A n \in Places :
            /\ a \in Ahead(next, n) \cup {n} => Ahead(next', n) \subseteq Ahead(next, n) \cup {p}
            /\ a \notin Ahead(next, n) \cup {n} => Ahead(next', n) \subseteq Ahead(next, n)
    <2>1. next[p].ptr = next[a].ptr /\ next'[a].ptr = p
      BY <1>3, <1>4, <1>10
    <2> QED
      BY <1>0, <1>1, <1>2, <1>3, <1>10, <2>1, LinkAdds
  <1>13. \A n \in Members : After(n) \subseteq After(n)'
    BY <1>11, MembersLead DEF After
  <1>14. Ahead(next', head_) \subseteq Ahead(next, head_) \cup {p}
    BY <1>12 DEF Places
  <1>15. KeepsNodes
    BY <1>1, <1>7, <1>13, <1>14 DEF KeepsNodes, After
  <1>16. CASE supports_marking
    <2>1. Live \subseteq After(head_)
      BY <1>16 DEF ListsInv, PathInv
    <2>2. a \in From(next)
      BY <1>8, <1>16, <2>1 DEF Live, From, After, Members
    <2>3. a \in From(next')
      BY <2>2, <1>13, MembersLead DEF From, After
    <2>4. p \in Ahead(next', head_)
      <3>1. next'[a].ptr = p /\ p # Null /\ head_ \in Places
        BY <1>1, <1>4, <1>10, NodesAssumption DEF Places
      <3>2. next'[a].ptr \in Ahead(next', head_) \cup {Null}
        BY <1>10, <2>3, <3>1, AheadClosed DEF From
      <3> QED
        BY <3>1, <3>2
    <2>5. Live' \subseteq After(head_)'
      BY <1>7, <1>11, <2>1, <2>4 DEF Live, After, Places
    <2>6. supports_marking'
      BY <1>0, <1>16 DEF supports_marking
    <2> QED
      BY <1>10, <1>15, <2>5, <2>6 DEF ListsInv, PathInv
  <1>17. CASE ~supports_marking
    <2>1. Injective(next) /\ Erased \cap After(head_) = {}
      BY <1>17 DEF ListsInv, PathInv
    <2>2. From(next) \subseteq Members
      BY MembersLead
    <2>3. \A m \in From(next) : next[m].ptr # p /\ m # p
      BY <1>1, <1>3, <2>2, MembersLead, NodesAssumption DEF Members
    <2>4. Injective(next')
      <3> SUFFICES ASSUME NEW m \in From(next'), NEW n \in From(next'),
                          next'[m].ptr = next'[n].ptr, next'[m].ptr # Null, m # n
                   PROVE  FALSE
        BY DEF Injective
      <3>1. CASE a \notin From(next)
        <4>1. From(next') \subseteq From(next)
          BY <1>12, <3>1 DEF From, Places
        <4>2. next'[m] = next[m] /\ next'[n] = next[n]
          BY <1>10, <2>2, <3>1, <4>1, MembersLead
        <4> QED
          BY <2>1, <4>1, <4>2 DEF Injective
      <3>2. CASE a \in From(next)
        <4>1. \A k \in From(next') : k = p \/ k \in From(next)
          BY <1>14 DEF From
        <4>2. \A k \in From(next') \ {a, p} : next'[k] = next[k] /\ k \in From(next)
          BY <1>10, <2>2, <4>1, MembersLead
        <4>3. next'[a].ptr = p /\ next'[p].ptr = next[a].ptr
          BY <1>3, <1>4, <1>10
        <4>4. next[a].ptr # p
          BY <2>3, <3>2
        <4>5. ASSUME NEW k \in From(next') \ {a, p}
              PROVE  next'[k].ptr # p /\ (next'[k].ptr = next[a].ptr => next[a].ptr = Null)
          BY <2>1, <2>3, <3>2, <4>2 DEF Injective
        <4>6. CASE m \notin {a, p} /\ n \notin {a, p}
          BY <2>1, <4>2, <4>6 DEF Injective
        <4>7. CASE m \in {a, p} \/ n \in {a, p}
          BY <4>3, <4>4, <4>5, <4>7
        <4> QED
          BY <4>6, <4>7
      <3> QED
        BY <3>1, <3>2
    <2>5. Erased' \cap After(head_)' = {}
      BY <1>1, <1>7, <1>14, <2>1 DEF After
    <2>6. \A u \in use.erasers : EraserOK(u)'
      BY <1>6, <1>10, <1>13, <1>17, ErasersKept
    <2>7. ~supports_marking' /\ use'.erasers = use.erasers
      BY <1>0, <1>17 DEF supports_marking
    <2> QED
      BY <1>10, <1>15, <2>4, <2>5, <2>6, <2>7 DEF ListsInv, PathInv
  <1> QED
    BY <1>16, <1>17

\* The target is marked, which is its erasure.
LEMMA MarkStep ==
    ASSUME ListsInv, NEW t \in Threads, Mark(t)
    PROVE  ListsInv' /\ KeepsNodes
  <1>0. /\ th \in [Threads -> Frames] /\ th[t] \in Frames /\ CallOK(t) /\ SeesOK(t)
        /\ next \in Maps /\ linked \subseteq Nodes /\ th[t].pc = "mark"
        /\ next[target(t)] = th[t].tnext /\ UNCHANGED <<use, sees, linked>>
        /\ erased' = Append(erased, target(t))
        /\ Exchange(t, target(t), Word(th[t].tnext.ptr, TRUE))
        /\ th' = [th EXCEPT ![t] =
                     [@ EXCEPT !.pc = "unlink", !.mine = TRUE,
                               !.tnext = Word(th[t].tnext.ptr, TRUE)]]
    BY StepBefore DEF Mark
  <1>1. PICK b \in linked : b = target(t) /\ b \in Members /\ b \in Nodes /\ b \in Places /\ ~th[t].exp.mark
    BY <1>0, TargetSeen
  <1>2. /\ supports_marking /\ ~next[b].mark /\ next[b].ptr \in sees[t] \cup {Null} /\ next[b] \in Words
        /\ th[t].node = Null /\ th[t].exp.ptr \in sees[t] \cup {Null} /\ it(t) # Null
        /\ next[b].ptr \in Ends /\ next[b].ptr \in Nodes \cup {Null}
    <2>1. supports_marking /\ ~next[b].mark /\ th[t].node = Null /\ it(t) # Null /\ next[b].ptr \in Ends
      BY <1>0, <1>1 DEF CallOK
    <2>2. next[b].ptr \in sees[t] \cup {Null} /\ th[t].exp.ptr \in sees[t] \cup {Null}
      BY <1>0, <1>1 DEF SeesOK
    <2>3. next[b] \in Words /\ next[b].ptr \in Nodes \cup {Null}
      BY <1>0, <1>1 DEF Maps, Words
    <2> QED
      BY <2>1, <2>2, <2>3
  <1>3. PICK w \in Words : w = Word(next[b].ptr, TRUE) /\ w.ptr = next[b].ptr /\ w.mark
    <2> DEFINE y == next[b].ptr
    <2>1. y \in Nodes \cup {Null}
      BY <1>2
    <2> HIDE DEF y
    <2>2. Word(y, TRUE) \in Words /\ Word(y, TRUE).ptr = y /\ Word(y, TRUE).mark
      BY <2>1, SMTT(20) DEF Words, Word
    <2> QED
      BY <2>2 DEF y
  <1>4. /\ th' \in [Threads -> Frames] /\ \A u \in Threads \ {t} : th'[u] = th[u]
        /\ th'[t].pc = "unlink" /\ th'[t].it = th[t].it /\ th'[t].node = Null
        /\ th'[t].exp = th[t].exp /\ th'[t].tnext = w
    <2> DEFINE f == [th[t] EXCEPT !.pc = "unlink", !.mine = TRUE, !.tnext = w]
    <2>1. th[t] \in Frames
      BY <1>0
    <2>2. /\ f \in Frames /\ f.pc = "unlink" /\ f.it = th[t].it /\ f.node = th[t].node
          /\ f.exp = th[t].exp /\ f.tnext = w
      BY <2>1 DEF Frames
    <2>3. th' = [th EXCEPT ![t] = f]
      BY <1>0, <1>1, <1>3
    <2> HIDE DEF f
    <2> QED
      BY <1>0, <1>2, <2>2, <2>3, FrameStep
  <1>5. b \notin Erased
    BY <1>1, <1>2 DEF ListsInv, ListInv
  <1>6. /\ erased' \in Seq(Nodes) /\ Erased' = Erased \cup {b}
        /\ IsFiniteSet(Erased)' /\ Cardinality(Erased)' = Len(erased)'
        /\ Erased' \subseteq linked
    BY <1>0, <1>1, <1>5, EraseCounts
  <1>7. /\ Exchange(t, b, w) /\ b # head_ /\ sees[t] \subseteq linked
    BY <1>0, <1>1, <1>3, SeesLinked, NodesAssumption
  <1>8. next' = [next EXCEPT ![b] = w]
    BY <1>7 DEF Exchange
  <1>9. CallOK(t)'
    <2>1. /\ it(t)' = it(t) /\ target(t)' = b /\ next'[b] = w /\ supports_marking'
          /\ Members' = Members /\ Ends' = Ends
      BY <1>0, <1>1, <1>2, <1>4, <1>8 DEF it, target, supports_marking, Members, Ends, Maps
    <2>2. it(t)' \in Members' \cup {Null} /\ it(t)' # Null
      BY <1>0, <1>2, <2>1 DEF CallOK
    <2>3. /\ ~th'[t].exp.mark /\ th'[t].tnext.ptr \in Ends' /\ th'[t].tnext.mark
          /\ next'[target(t)'] = th'[t].tnext
      BY <1>1, <1>2, <1>3, <1>4, <2>1
    <2>4. target(t)' \in linked'
      BY <1>0, <1>1, <2>1
    <2> QED
      BY <1>4, <2>1, <2>2, <2>3, <2>4 DEF CallOK
  <1>10. /\ TypeOK' /\ CallInv' /\ ListInv' /\ SeenInv'
         /\ next' \in Maps /\ next'[b] = w /\ \A n \in Places \ {b} : next'[n] = next[n]
    <2>1. /\ w.ptr \in sees[t] \cup {Null} /\ (w.mark <=> supports_marking /\ b \in Erased')
          /\ th'[t].exp.ptr \in sees[t] \cup {Null} /\ th'[t].tnext.ptr \in sees[t] \cup {Null}
          /\ (\A n \in Nodes \ {b} : n \in Erased' => n \in Erased) /\ Erased \subseteq Erased'
      BY <1>2, <1>3, <1>4, <1>6
    <2>2. /\ use' = use /\ sees' = sees /\ linked' = linked /\ linked \subseteq Nodes
          /\ (b = head_ => ~w.mark) /\ ~next[b].mark /\ b \in Members
      BY <1>0, <1>1, <1>2, <1>7
    <2> QED
      BY <1>4, <1>6, <1>7, <1>9, <2>1, <2>2, ExchangeStep, ZenonT(40)
  <1>11. \A n \in Members : After(n)' = After(n)
    <2>1. \A n \in Members : next'[n].ptr = next[n].ptr
      BY <1>3, <1>10, MembersLead
    <2> QED
      BY <1>10, <2>1, AfterSame
  <1>12. KeepsNodes
    BY <1>11 DEF KeepsNodes, Members
  <1>13. PathInv'
    <2>1. Live' \subseteq Live /\ supports_marking'
      BY <1>0, <1>2, <1>6 DEF Live, supports_marking
    <2> QED
      BY <1>2, <1>11, <2>1 DEF ListsInv, PathInv, Members
  <1> QED
    BY <1>10, <1>12, <1>13 DEF ListsInv

\* With marking, the anchor is swung past a marked target.
LEMMA UnlinkStep ==
    ASSUME ListsInv, NEW t \in Threads, Unlink(t)
    PROVE  ListsInv' /\ KeepsNodes
  <1>0. /\ th \in [Threads -> Frames] /\ th[t] \in Frames /\ CallOK(t) /\ SeesOK(t)
        /\ next \in Maps /\ linked \subseteq Nodes /\ th[t].pc = "unlink" /\ supports_marking
        /\ next[it(t)] = th[t].exp /\ UNCHANGED <<use, sees, linked, erased>>
        /\ Exchange(t, it(t), Unmarked(th[t].tnext)) /\ Unlinked(t)
    BY StepBefore DEF Unlink
  <1>1. PICK b \in linked : b = target(t) /\ b \in Nodes /\ b \in Places /\ ~th[t].exp.mark
    BY <1>0, TargetSeen
  <1>2. PICK a \in Members : a = it(t) /\ a \in Places
    BY <1>0, AnchorSeen DEF CallOK
  <1>3. /\ next[a].ptr = b /\ ~next[a].mark /\ next[b].mark /\ next[b].ptr \in sees[t] \cup {Null}
        /\ next[b].ptr \in Ends /\ next[b].ptr \in Nodes \cup {Null} /\ th[t].node = Null
        /\ next[b] = th[t].tnext /\ a # b
    <2>1. /\ next[a].ptr = b /\ ~next[a].mark /\ next[b].mark /\ th[t].node = Null
          /\ next[b] = th[t].tnext /\ next[b].ptr \in Ends
      BY <1>0, <1>1, <1>2 DEF CallOK, target
    <2>2. next[b].ptr \in sees[t] \cup {Null}
      BY <1>0, <2>1 DEF SeesOK
    <2>3. next[b].ptr \in Nodes \cup {Null}
      BY <1>0, <1>1 DEF Maps, Words
    <2> QED
      BY <2>1, <2>2, <2>3
  <1>4. PICK w \in Words : w = Word(next[b].ptr, FALSE) /\ w.ptr = next[b].ptr /\ ~w.mark
    <2> DEFINE y == next[b].ptr
    <2>1. y \in Nodes \cup {Null}
      BY <1>3
    <2> HIDE DEF y
    <2>2. Word(y, FALSE) \in Words /\ Word(y, FALSE).ptr = y /\ ~Word(y, FALSE).mark
      BY <2>1, SMTT(20) DEF Words, Word
    <2> QED
      BY <2>2 DEF y
  <1>5. Exchange(t, a, w)
    BY <1>0, <1>2, <1>3, <1>4 DEF Unmarked
  <1>6. /\ th' \in [Threads -> Frames] /\ \A u \in Threads \ {t} : th'[u] = th[u]
        /\ th'[t].pc \in {"idle", "erase"} /\ th'[t].it = th[t].it /\ th'[t].node = Null
    <2>1. CASE Return(t, "true")
      BY <2>1, ReturnShape
    <2>2. CASE th' = [th EXCEPT ![t].pc = "erase"]
      <3>1. /\ th' \in [Threads -> Frames] /\ \A u \in Threads \ {t} : th'[u] = th[u]
            /\ th'[t].pc = "erase" /\ th'[t].it = th[t].it /\ th'[t].node = th[t].node
        BY <1>0, <2>2, SMTT(20) DEF Frames
      <3> QED
        BY <1>3, <3>1
    <2> QED
      BY <1>0, <2>1, <2>2 DEF Unlinked
  <1>7. /\ Erased' = Erased /\ erased' \in Seq(Nodes) /\ IsFiniteSet(Erased)'
        /\ Cardinality(Erased)' = Len(erased)' /\ Erased \subseteq linked /\ Live' = Live
        /\ b \in Erased
    <2>1. Erased' = Erased /\ erased' = erased /\ Live' = Live
      BY <1>0 DEF Erased, Live
    <2>2. /\ erased \in Seq(Nodes) /\ IsFiniteSet(Erased) /\ Cardinality(Erased) = Len(erased)
          /\ Erased \subseteq linked
      BY DEF ListsInv, ListInv, TypeOK
    <2>3. b \in Erased
      BY <1>1, <1>3 DEF ListsInv, ListInv
    <2> QED
      BY <2>1, <2>2, <2>3
  <1>8. ~(supports_marking /\ a \in Erased)
    BY <1>0, <1>3, <1>7 DEF ListsInv, ListInv
  <1>9. CallOK(t)'
    BY <1>0, <1>6 DEF CallOK, Members, it
  <1>10. sees[t] \subseteq linked
    BY <1>0, SeesLinked
  <1>11. /\ TypeOK' /\ CallInv' /\ ListInv' /\ SeenInv'
         /\ next' \in Maps /\ next'[a] = w /\ \A n \in Places \ {a} : next'[n] = next[n]
    BY <1>0, <1>3, <1>4, <1>5, <1>6, <1>7, <1>8, <1>9, <1>10, ExchangeStep, ZenonT(30)
  <1>12. \A n \in Places : /\ Ahead(next, n) \subseteq Ahead(next', n) \cup {b}
                           /\ Ahead(next', n) \subseteq Ahead(next, n)
    <2>1. next'[a].ptr = next[b].ptr
      BY <1>4, <1>11
    <2> QED
      BY <1>0, <1>1, <1>2, <1>3, <1>11, <2>1, SwingKeeps
  <1>13. KeepsNodes
    BY <1>7, <1>12, MembersLead DEF KeepsNodes, After
  <1>14. Live' \subseteq After(head_)'
    <2>1. Live \subseteq After(head_)
      BY <1>0 DEF ListsInv, PathInv
    <2> QED
      BY <1>7, <1>12, <2>1 DEF After, Live, Places
  <1>15. PathInv'
    BY <1>0, <1>14 DEF PathInv, supports_marking
  <1> QED
    BY <1>11, <1>13, <1>15 DEF ListsInv

\* Without marking, the anchor is swung past the target, which is its erasure.
LEMMA UnlinkDirectStep ==
    ASSUME ListsInv, NEW t \in use.erasers, UnlinkDirect(t)
    PROVE  ListsInv' /\ KeepsNodes
  <1>0. /\ t \in Threads /\ th \in [Threads -> Frames] /\ th[t] \in Frames /\ CallOK(t) /\ SeesOK(t)
        /\ next \in Maps /\ linked \subseteq Nodes /\ th[t].pc = "unlink" /\ ~supports_marking
        /\ next[it(t)] = th[t].exp /\ UNCHANGED <<use, sees, linked>> /\ EraserOK(t) /\ use \in Uses
        /\ Exchange(t, it(t), th[t].tnext) /\ Return(t, "true")
        /\ erased' = Append(erased, target(t))
    <2>1. t \in Threads
      BY UsesAssumption DEF ListsInv, TypeOK
    <2> QED
      BY <2>1, StepBefore DEF UnlinkDirect
  <1>1. PICK b \in linked : b = target(t) /\ b \in Nodes /\ b \in Places /\ ~th[t].exp.mark
    BY <1>0, TargetSeen
  <1>2. PICK a \in Members : a = it(t) /\ a \in Places
    BY <1>0, AnchorSeen DEF CallOK
  <1>3. PICK w \in Words : w = th[t].tnext
    BY <1>0, SMT DEF Frames
  <1>4. /\ next[a].ptr = b /\ ~next[a].mark /\ w.ptr \in sees[t] \cup {Null} /\ ~w.mark
        /\ th[t].node = Null
    BY <1>0, <1>1, <1>2, <1>3 DEF CallOK, SeesOK, target
  <1>5. Exchange(t, a, w)
    BY <1>0, <1>2, <1>3
  <1>6. /\ th' \in [Threads -> Frames] /\ \A u \in Threads \ {t} : th'[u] = th[u]
        /\ th'[t].pc = "idle" /\ th'[t].it = th[t].it /\ th'[t].node = Null
    BY <1>0, ReturnShape
  <1>7. a \in From(next) /\ b \in After(head_) /\ (w.ptr # Null => w.ptr \in After(b) /\ w.ptr # b)
    BY <1>0, <1>1, <1>2, <1>3, NodesAssumption DEF EraserOK, Members
  <1>8. Injective(next) /\ Erased \cap After(head_) = {}
    BY <1>0 DEF ListsInv, PathInv
  <1>9. /\ erased' \in Seq(Nodes) /\ Erased' = Erased \cup {b}
        /\ IsFiniteSet(Erased)' /\ Cardinality(Erased)' = Len(erased)'
        /\ Erased' \subseteq linked
    BY <1>0, <1>1, <1>7, <1>8, EraseCounts
  <1>10. CallOK(t)'
    BY <1>0, <1>6 DEF CallOK, Members, it
  <1>11. sees[t] \subseteq linked
    BY <1>0, SeesLinked
  <1>12. /\ TypeOK' /\ CallInv' /\ ListInv' /\ SeenInv'
         /\ next' \in Maps /\ next'[a] = w /\ \A n \in Places \ {a} : next'[n] = next[n]
    BY <1>0, <1>4, <1>5, <1>6, <1>9, <1>10, <1>11, ExchangeStep
  <1>13. /\ Injective(next') /\ b \notin Ahead(next', head_)
         /\ Ahead(next', head_) \subseteq Ahead(next, head_)
    <2>1. w.ptr # Null => w.ptr \in Ahead(next, b) /\ w.ptr # b
      BY <1>7 DEF After
    <2>2. next'[a].ptr = w.ptr /\ next \in Maps
      BY <1>0, <1>12
    <2> QED
      BY <1>1, <1>4, <1>7, <1>8, <1>12, <2>1, <2>2, SwingInjective, ZenonT(40)
  <1>14. a \in From(next')
    BY <1>0, <1>7, <1>12, AnchorStays
  <1>15. ASSUME NEW u \in use.erasers
         PROVE  EraserOK(u)'
    <2>1. u = t
      BY <1>0, EraserAssumption DEF supports_marking
    <2>2. it(t)' = a
      BY <1>2, <1>6 DEF it
    <2> QED
      BY <1>6, <1>14, <2>1, <2>2 DEF EraserOK
  <1>16. PathInv'
    <2>1. Erased' \cap After(head_)' = {}
      BY <1>8, <1>9, <1>13 DEF After
    <2>2. ~supports_marking' /\ use'.erasers = use.erasers
      BY <1>0 DEF supports_marking
    <2> QED
      BY <1>13, <1>15, <2>1, <2>2 DEF PathInv
  <1>17. KeepsNodes
    BY <1>0, <1>13 DEF KeepsNodes, After
  <1> QED
    BY <1>12, <1>16, <1>17 DEF ListsInv

-----------------------------------------------------------------------------
(* The list is correct.                                                    *)

\* Every step keeps the invariant and the nodes.
LEMMA ListStep ==
    ASSUME ListsInv, [Next]_vars
    PROVE  ListsInv' /\ KeepsNodes
  <1>1. ASSUME next' = next
        PROVE  KeepsNodes
    BY <1>1 DEF KeepsNodes, After
  <1>2. CASE UNCHANGED vars
    <2>1. ListsInv'
      <3>1. UNCHANGED <<use, next, pub, th, sees, linked, erased>>
        BY <1>2 DEF vars
      <3>2. TypeOK'
        BY <3>1 DEF ListsInv, TypeOK, Erased
      <3>3. CallInv'
        BY <3>1 DEF ListsInv, CallInv, CallOK, Members, Ends, it, target, supports_marking
      <3>4. ListInv'
        BY <3>1 DEF ListsInv, ListInv, Members, Ends, Erased, supports_marking
      <3>5. SeenInv'
        BY <3>1 DEF ListsInv, SeenInv, SeesOK, Complete, Gives, it
      <3>6. PathInv'
        BY <3>1 DEF ListsInv, PathInv, EraserOK, After, From, Live, Erased, it, target,
                    supports_marking
      <3> QED
        BY <3>2, <3>3, <3>4, <3>5, <3>6 DEF ListsInv
    <2> QED
      BY <1>1, <1>2, <2>1 DEF vars
  <1>3. use.inserters \subseteq Threads /\ use.erasers \subseteq Threads
    BY UsesAssumption DEF ListsInv, TypeOK
  <1>4. ASSUME NEW t \in Threads, Before_begin(t) \/ Increment(t) \/ NullAnchor(t)
        PROVE  ListsInv' /\ KeepsNodes
    <2>1. next' = next
      BY <1>4 DEF Before_begin, Increment, NullAnchor
    <2> QED
      BY <1>1, <1>4, <2>1, IteratorSteps
  <1>5. ASSUME NEW t \in use.inserters, Insert_after(t) \/ InsertStep(t)
        PROVE  ListsInv' /\ KeepsNodes
    <2>0. t \in Threads
      BY <1>3
    <2>1. CASE Insert_after(t)
      BY <1>1, <2>0, <2>1, InsertStarts DEF Insert_after
    <2>2. CASE InsertDeleted(t)
      BY <1>1, <2>0, <2>2, InsertGivesUp DEF InsertDeleted
    <2>3. CASE InsertLoad(t)
      BY <2>0, <2>3, PointStep DEF InsertLoad
    <2>4. CASE Link(t)
      BY <2>0, <2>4, LinkStep
    <2>5. CASE LinkFails(t) /\ supports_marking
      BY <1>1, <2>0, <2>5, InsertRetries DEF LinkFails
    <2>6. CASE LinkFails(t) /\ ~supports_marking
      <3>1. it(t) \in Members
        BY <2>0, <2>6, StepBefore, AnchorSeen DEF LinkFails, CallOK
      <3>2. ~next[it(t)].mark
        BY <2>6, <3>1 DEF ListsInv, ListInv, TypeOK, Members
      <3> QED
        BY <2>0, <2>6, <3>2, PointStep DEF LinkFails
    <2> QED
      BY <1>5, <2>1, <2>2, <2>3, <2>4, <2>5, <2>6 DEF InsertStep
  <1>6. ASSUME NEW t \in use.erasers, Erase_after(t) \/ EraseStep(t)
        PROVE  ListsInv' /\ KeepsNodes
    <2>0. t \in Threads
      BY <1>3
    <2>1. CASE \/ NothingToErase(t) \/ LoadTarget(t) \/ LoadTargetNext(t) \/ MarkFails(t)
               \/ UnlinkFails(t) \/ UnlinkDirectFails(t) \/ Erase_after(t)
      BY <1>1, <2>0, <2>1, QuietSteps
    <2>2. CASE Mark(t)
      BY <2>0, <2>2, MarkStep
    <2>3. CASE Unlink(t)
      BY <2>0, <2>3, UnlinkStep
    <2>4. CASE UnlinkDirect(t)
      BY <2>4, UnlinkDirectStep
    <2> QED
      BY <1>6, <2>1, <2>2, <2>3, <2>4 DEF EraseStep
  <1> QED
    BY <1>2, <1>4, <1>5, <1>6 DEF Next

\* The invariant has what the header promises.
LEMMA ListPromises ==
    ASSUME ListsInv
    PROVE  LiveNodesLinked
  <1>1. Synchronised
    BY TargetSeen, StepBefore DEF Synchronised, SeesOK
  <1> QED
    BY <1>1 DEF ListsInv, ListInv, PathInv, LiveNodesLinked

\* With marking no node that was inserted and not erased is ever outside the
\* list, whatever insert_after() and erase_after() race; each node is erased by
\* one call; and no thread dereferences a node it has not synchronised with.
THEOREM ListCorrect == Spec => []LiveNodesLinked
  <1>1. Init => ListsInv
    BY ListInitial
  <1>2. ListsInv /\ [Next]_vars => ListsInv'
    BY ListStep
  <1>3. ListsInv => LiveNodesLinked
    BY ListPromises
  <1> QED
    BY <1>1, <1>2, <1>3, PTL DEF Spec

\* No CAS of insert_after() or erase_after() brings a node back that has left
\* the list, and with marking none takes a live node from what is ahead of an
\* iterator, on an erased node or not.
THEOREM ErasedStayOut == Spec => NoResurrection
  <1>1. Init => ListsInv
    BY ListInitial
  <1>2. ListsInv /\ [Next]_vars => ListsInv'
    BY ListStep
  <1>3. ListsInv /\ [Next]_vars =>
          [next' # next =>
            /\ After(head_)' \subseteq After(head_) \cup (linked' \ linked)
            /\ supports_marking =>
                \A n \in linked \cup {head_} : After(n) \ Erased' \subseteq After(n)']_vars
    BY ListStep DEF KeepsNodes, Members
  <1> QED
    BY <1>1, <1>2, <1>3, PTL DEF Spec, NoResurrection

-----------------------------------------------------------------------------
(* What erase_after() answers.                                             *)

\* A call has no answer before it returns.
AnswerInv == \A t \in Threads : th[t].pc # "idle" => th[t].ret = "none"

\* A call of u is answered only as it returns, and with false only where the
\* anchor or its next is looked at.
Answers(u, f) ==
    /\ th' = [th EXCEPT ![u] = f]
    /\ f.pc # "idle" => f.ret = "none"
    /\ f.ret = "false" => th[u].pc \in {"idle", "insert"} \/ NothingToErase(u) \/ ~supports_marking
AnswersRight == \E u \in Threads, f \in {th'[v] : v \in Threads} : Answers(u, f)

\* Every step answers so.
LEMMA AnswerSteps ==
    ASSUME TypeOK, AnswerInv, Next
    PROVE  AnswersRight
  <1>0. /\ th \in [Threads -> Frames]
        /\ use.inserters \subseteq Threads /\ use.erasers \subseteq Threads
    BY UsesAssumption DEF TypeOK
  <1>2. ASSUME NEW t \in Threads, NEW f, Answers(t, f)
        PROVE  AnswersRight
    <2>1. f = th'[t]
      BY <1>0, <1>2 DEF Answers
    <2> QED
      BY <1>2, <2>1 DEF AnswersRight
  <1>3. ASSUME NEW t \in Threads, NEW r \in {"true", "false"}, Return(t, r),
               r = "false" => th[t].pc \in {"idle", "insert"} \/ NothingToErase(t) \/ ~supports_marking
        PROVE  AnswersRight
    <2> DEFINE f == [pc |-> "idle", it |-> th[t].it, node |-> Null, ret |-> r,
                     exp |-> Word(Null, FALSE), tnext |-> Word(Null, FALSE), mine |-> FALSE]
    <2>1. th' = [th EXCEPT ![t] = f] /\ f.pc = "idle" /\ f.ret = r
      BY <1>3 DEF Return
    <2> HIDE DEF f
    <2> QED
      BY <1>2, <1>3, <2>1 DEF Answers
  <1>4. ASSUME NEW t \in Threads, NEW p, th[t].pc # "idle",
               th' = [th EXCEPT ![t].pc = p]
        PROVE  AnswersRight
    <2> DEFINE f == [th[t] EXCEPT !.pc = p]
    <2>1. th[t] \in Frames /\ th[t].ret = "none" /\ th' = [th EXCEPT ![t] = f]
      BY <1>0, <1>4 DEF AnswerInv
    <2>2. f.ret = "none"
      BY <2>1 DEF Frames
    <2> HIDE DEF f
    <2> QED
      BY <1>2, <2>1, <2>2 DEF Answers
  <1>5. ASSUME NEW t \in Threads, NEW p, NEW w, th[t].pc # "idle",
               th' = [th EXCEPT ![t] = [@ EXCEPT !.pc = p, !.exp = w]]
        PROVE  AnswersRight
    <2> DEFINE f == [th[t] EXCEPT !.pc = p, !.exp = w]
    <2>1. th[t] \in Frames /\ th[t].ret = "none" /\ th' = [th EXCEPT ![t] = f]
      BY <1>0, <1>5 DEF AnswerInv
    <2>2. f.ret = "none"
      BY <2>1 DEF Frames
    <2> HIDE DEF f
    <2> QED
      BY <1>2, <2>1, <2>2 DEF Answers
  <1>6. ASSUME NEW t \in Threads, NEW w, th[t].pc # "idle", Examined(t, w)
        PROVE  AnswersRight
    <2> DEFINE f == [th[t] EXCEPT !.tnext = w,
                        !.pc = IF supports_marking /\ ~w.mark THEN "mark" ELSE "unlink"]
    <2>1. th[t] \in Frames /\ th[t].ret = "none" /\ th' = [th EXCEPT ![t] = f]
      BY <1>0, <1>6 DEF AnswerInv, Examined
    <2>2. f.ret = "none"
      BY <2>1 DEF Frames
    <2> HIDE DEF f
    <2> QED
      BY <1>2, <2>1, <2>2 DEF Answers
  <1>7. ASSUME NEW t \in Threads, Idle(t), NEW p, th' = [th EXCEPT ![t].it = p]
        PROVE  AnswersRight
    <2> DEFINE f == [th[t] EXCEPT !.it = p]
    <2>1. th[t] \in Frames /\ th[t].pc = "idle" /\ th' = [th EXCEPT ![t] = f]
      BY <1>0, <1>7 DEF Idle
    <2>2. f.pc = "idle"
      BY <2>1 DEF Frames
    <2> HIDE DEF f
    <2> QED
      BY <1>2, <2>1, <2>2 DEF Answers
  <1>8. ASSUME NEW t \in Threads, NEW p, NEW q,
               \/ th' = [th EXCEPT ![t] = [@ EXCEPT !.pc = p, !.node = q, !.ret = "none"]]
               \/ th' = [th EXCEPT ![t] = [@ EXCEPT !.pc = p, !.ret = "none"]]
        PROVE  AnswersRight
    <2> DEFINE f == [th[t] EXCEPT !.pc = p, !.node = q, !.ret = "none"]
               g == [th[t] EXCEPT !.pc = p, !.ret = "none"]
    <2>1. th[t] \in Frames /\ (th' = [th EXCEPT ![t] = f] \/ th' = [th EXCEPT ![t] = g])
      BY <1>0, <1>8
    <2>2. f.ret = "none" /\ g.ret = "none"
      BY <2>1 DEF Frames
    <2> HIDE DEF f, g
    <2> QED
      BY <1>2, <2>1, <2>2 DEF Answers
  <1>9. ASSUME NEW t \in Threads, Mark(t)
        PROVE  AnswersRight
    <2> DEFINE f == [th[t] EXCEPT !.pc = "unlink", !.mine = TRUE,
                                  !.tnext = Word(th[t].tnext.ptr, TRUE)]
    <2>1. th[t] \in Frames /\ th[t].ret = "none" /\ th' = [th EXCEPT ![t] = f]
      BY <1>0, <1>9 DEF Mark, AnswerInv
    <2>2. f.ret = "none"
      BY <2>1 DEF Frames
    <2> HIDE DEF f
    <2> QED
      BY <1>2, <2>1, <2>2 DEF Answers
  <1>10. ASSUME NEW t \in Threads, Before_begin(t) \/ Increment(t) \/ NullAnchor(t)
         PROVE  AnswersRight
    BY <1>3, <1>7, <1>10 DEF Before_begin, Increment, NullAnchor, Idle
  <1>11. ASSUME NEW t \in Threads, Insert_after(t) \/ InsertStep(t)
         PROVE  AnswersRight
    <2>1. CASE Insert_after(t)
      BY <1>8, <2>1 DEF Insert_after
    <2>2. CASE InsertDeleted(t) \/ Link(t)
      BY <1>3, <2>2 DEF InsertDeleted, Link
    <2>3. CASE InsertLoad(t)
      BY <1>5, <2>3 DEF InsertLoad, Point
    <2>4. CASE LinkFails(t)
      <3>1. th[t].pc # "idle"
        BY <2>4 DEF LinkFails
      <3>2. \/ th' = [th EXCEPT ![t].pc = "insert"]
            \/ th' = [th EXCEPT ![t] = [@ EXCEPT !.pc = "link", !.exp = next[it(t)]]]
        BY <2>4 DEF LinkFails, Point
      <3> QED
        BY <1>4, <1>5, <3>1, <3>2
    <2> QED
      BY <1>11, <2>1, <2>2, <2>3, <2>4 DEF InsertStep
  <1>12. ASSUME NEW t \in Threads, Erase_after(t) \/ EraseStep(t)
         PROVE  AnswersRight
    <2>1. CASE Erase_after(t)
      BY <1>8, <2>1 DEF Erase_after
    <2>2. CASE NothingToErase(t) \/ UnlinkDirect(t)
      BY <1>3, <2>2 DEF NothingToErase, UnlinkDirect
    <2>3. CASE LoadTarget(t)
      BY <1>5, <2>3 DEF LoadTarget
    <2>4. CASE LoadTargetNext(t) \/ MarkFails(t)
      BY <1>6, <2>4 DEF LoadTargetNext, MarkFails
    <2>5. CASE Unlink(t) \/ UnlinkFails(t)
      BY <1>3, <1>4, <2>5 DEF Unlink, UnlinkFails, Unlinked
    <2>6. CASE UnlinkDirectFails(t)
      BY <1>3, <1>5, <2>6, ZenonT(30) DEF UnlinkDirectFails
    <2> QED
      BY <1>9, <1>12, <2>1, <2>2, <2>3, <2>4, <2>5, <2>6 DEF EraseStep
  <1> QED
    BY <1>0, <1>10, <1>11, <1>12 DEF Next

\* No call has an answer while it runs.
LEMMA AnswerStep ==
    ASSUME TypeOK, AnswerInv, [Next]_vars
    PROVE  AnswerInv'
  <1>1. CASE UNCHANGED vars
    BY <1>1 DEF vars, AnswerInv
  <1>2. CASE Next
    <2>1. PICK u \in Threads, f \in {th'[v] : v \in Threads} : Answers(u, f)
      BY <1>2, AnswerSteps DEF AnswersRight
    <2>2. th \in [Threads -> Frames] /\ th' = [th EXCEPT ![u] = f] /\ (f.pc # "idle" => f.ret = "none")
      BY <2>1 DEF TypeOK, Answers
    <2> QED
      BY <2>2 DEF AnswerInv
  <1> QED
    BY <1>1, <1>2

\* A false answer of erase_after() is right: the anchor is marked, hence erased, or
\* nothing is ahead of it.
LEMMA FalseStep ==
    ASSUME ListsInv, AnswerInv, [Next]_vars, NEW t \in Threads, supports_marking,
           th[t].pc \in {"erase", "target", "unlink"}, th'[t].ret = "false"
    PROVE  it(t) \in Erased \/ After(it(t)) \cap Live = {}
  <1>1. /\ th \in [Threads -> Frames] /\ th[t].ret = "none" /\ TypeOK /\ next \in Maps
        /\ it(t) \in Members /\ it(t) \in Places
    <2>1. CallOK(t) /\ th \in [Threads -> Frames] /\ next \in Maps /\ TypeOK
      BY StepBefore DEF ListsInv
    <2>2. th[t].pc # "idle"
      OBVIOUS
    <2>3. it(t) # Null
      BY <2>1, <2>2 DEF CallOK
    <2> QED
      BY <2>1, <2>2, <2>3, AnchorSeen DEF AnswerInv
  <1>2. NothingToErase(t)
    <2>1. th' # th
      BY <1>1
    <2>2. PICK u \in Threads, f \in {th'[v] : v \in Threads} : Answers(u, f)
      BY <1>1, <2>1, AnswerSteps DEF vars, AnswersRight
    <2>3. u = t /\ th'[t] = f
      BY <1>1, <2>2 DEF Answers
    <2> QED
      BY <2>2, <2>3 DEF Answers
  <1>3. CASE next[it(t)].mark
    <2>1. it(t) \in Nodes
      BY <1>1, <1>3 DEF TypeOK, Members
    <2> QED
      BY <1>3, <2>1 DEF ListsInv, ListInv
  <1>4. CASE next[it(t)].ptr = Null
    BY <1>4, AheadOfLast DEF After
  <1> QED
    BY <1>2, <1>3, <1>4 DEF NothingToErase

\* With marking erase_after() answers false only on an erased anchor, or where no
\* live node is ahead: a loop that erases until it is told false drains the list.
THEOREM FalseAnswersRight == Spec => FalseIsRight
  <1> DEFINE Right == \A t \in Threads :
        supports_marking /\ th[t].pc \in {"erase", "target", "unlink"} /\ th'[t].ret = "false" =>
            it(t) \in Erased \/ After(it(t)) \cap Live = {}
  <1>1. Init => ListsInv /\ AnswerInv
    <2> SUFFICES ASSUME Init
                 PROVE  AnswerInv
      BY ListInitial
    <2>1. \A t \in Threads : th[t].pc = "idle"
      BY SMT DEF Init
    <2> QED
      BY <2>1 DEF AnswerInv
  <1>2. ListsInv /\ AnswerInv /\ [Next]_vars => ListsInv' /\ AnswerInv'
    BY ListStep, AnswerStep DEF ListsInv
  <1>3. ListsInv /\ AnswerInv /\ [Next]_vars => Right
    BY FalseStep
  <1> QED
    BY <1>1, <1>2, <1>3, PTL DEF Spec, FalseIsRight

=============================================================================
