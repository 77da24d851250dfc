------------------------ MODULE IntrSharedPtrProofs ------------------------
(***************************************************************************)
(* The counts of intr_shared_ptr are exact for every number of threads and *)
(* of objects, whatever calls each thread makes.                           *)
(***************************************************************************)
EXTENDS IntrSharedPtr, FiniteSetTheorems, TLAPS

\* The steps are Zenon's, except where SMT is cited.
USE Zenon

-----------------------------------------------------------------------------
(* The inductive invariant.                                                *)

\* Where a call holds the lock bit.
Holding == {"held", "unlock", "publish"}

\* The lock bit excludes, and its holder knows the word.
LockInv ==
    /\ \A t, u \in Threads : th[t].pc \in Holding /\ th[u].pc \in Holding => t = u
    /\ \A t \in Threads : th[t].pc \in Holding => locked /\ th[t].val = aptr_

\* What a call's locals hold: which of them are references of their own, and
\* that the uncounted desired value of an exchange is the caller's handle.
LocalOK(r) ==
    /\ r.pc = "idle" => /\ r.op = "none" /\ r.pending = Null
                        /\ r.new = NullWord /\ r.res = NullWord
    /\ r.pc \notin {"idle", "release"} => r.op \in {"load", "store", "cas"} /\ r.pending = Null
    /\ r.pc = "release" => r.op # "load"
    /\ r.pc = "unlock" => r.op # "store"
    /\ r.pc = "publish" => r.op = "cas" /\ r.val = r.e
    /\ r.op = "assign" => r.h = NullWord
    /\ r.pc # "unlock" /\ r.op # "assign" => r.res = NullWord
    /\ r.op = "load" => r.h = NullWord
    /\ r.op = "cas" /\ r.pc # "release" => r.new = r.h
    /\ r.op = "store" /\ r.pc = "release" => r.new = NullWord

\* An object that does not exist refers to nothing; a count is the number of
\* references; and an object exists as long as it is positive.
CountInv ==
    /\ IsFiniteSet(alive)
    /\ \A x \in Objects : x \notin alive => child[x] = NullWord
    /\ \A x \in Objects : count[x] = Held(x) /\ (x \in alive <=> count[x] > 0)

PtrInv == TypeOK /\ LockInv /\ (\A t \in Threads : LocalOK(th[t])) /\ CountInv

-----------------------------------------------------------------------------
(* Counting references.                                                    *)

\* The references of one thread, by its record.
Own(r, x) ==
    (IF r.h.ptr = x THEN 1 ELSE 0)
    + (IF r.e.ptr = x THEN 1 ELSE 0)
    + (IF r.new.ptr = x /\ (r.op = "store" \/ r.pc = "publish") THEN 1 ELSE 0)
    + (IF r.res.ptr = x THEN 1 ELSE 0)
    + (IF r.pending = x THEN 1 ELSE 0)

\* Those of the threads of a set.
Among(S, x) ==
    Cardinality({t \in S : th[t].h.ptr = x})
    + Cardinality({t \in S : th[t].e.ptr = x})
    + Cardinality({t \in S :
        th[t].new.ptr = x /\ (th[t].op = "store" \/ th[t].pc = "publish")})
    + Cardinality({t \in S : th[t].res.ptr = x})
    + Cardinality({t \in S : th[t].pending = x})

\* Those of the objects, and that of the word.
Inside(x) == Cardinality({p \in alive : child[p].ptr = x})
Published(x) == IF aptr_.ptr = x THEN 1 ELSE 0

\* A thread is counted in a set of threads, or not, beside the others.
LEMMA CountOne ==
    ASSUME NEW t \in Threads, NEW S \in SUBSET Threads, NEW R, R = S \ {t}
    PROVE  /\ Cardinality(R) \in Nat
           /\ Cardinality(S) = Cardinality(R) + (IF t \in S THEN 1 ELSE 0)
  <1>1. IsFiniteSet(S)
    BY ThreadsAssumption, FS_Subset
  <1>2. IsFiniteSet(R) /\ Cardinality(R) = IF t \in S THEN Cardinality(S) - 1 ELSE Cardinality(S)
    BY <1>1, FS_RemoveElement
  <1>3. Cardinality(S) \in Nat /\ Cardinality(R) \in Nat
    BY <1>1, <1>2, FS_CardinalityType
  <1> QED
    BY <1>2, <1>3, SMT

\* The references are those of one thread, of the others, of the objects and
\* of the word.
LEMMA HeldSplit ==
    ASSUME NEW t \in Threads, NEW x
    PROVE  /\ Among(Threads \ {t}, x) \in Nat
           /\ Among(Threads, x) = Among(Threads \ {t}, x) + Own(th[t], x)
  <1> DEFINE S1 == {u \in Threads : th[u].h.ptr = x}
             S2 == {u \in Threads : th[u].e.ptr = x}
             S3 == {u \in Threads :
                      th[u].new.ptr = x /\ (th[u].op = "store" \/ th[u].pc = "publish")}
             S4 == {u \in Threads : th[u].res.ptr = x}
             S5 == {u \in Threads : th[u].pending = x}
             R1 == {u \in Threads \ {t} : th[u].h.ptr = x}
             R2 == {u \in Threads \ {t} : th[u].e.ptr = x}
             R3 == {u \in Threads \ {t} :
                      th[u].new.ptr = x /\ (th[u].op = "store" \/ th[u].pc = "publish")}
             R4 == {u \in Threads \ {t} : th[u].res.ptr = x}
             R5 == {u \in Threads \ {t} : th[u].pending = x}
  <1>0. /\ S1 \in SUBSET Threads /\ S2 \in SUBSET Threads /\ S3 \in SUBSET Threads
        /\ S4 \in SUBSET Threads /\ S5 \in SUBSET Threads
        /\ R1 = S1 \ {t} /\ R2 = S2 \ {t} /\ R3 = S3 \ {t} /\ R4 = S4 \ {t} /\ R5 = S5 \ {t}
    OBVIOUS
  <1>1. /\ t \in S1 <=> th[t].h.ptr = x
        /\ t \in S2 <=> th[t].e.ptr = x
        /\ t \in S3 <=> th[t].new.ptr = x /\ (th[t].op = "store" \/ th[t].pc = "publish")
        /\ t \in S4 <=> th[t].res.ptr = x
        /\ t \in S5 <=> th[t].pending = x
    OBVIOUS
  <1>2. /\ Among(Threads, x) = Cardinality(S1) + Cardinality(S2) + Cardinality(S3)
                               + Cardinality(S4) + Cardinality(S5)
        /\ Among(Threads \ {t}, x) = Cardinality(R1) + Cardinality(R2) + Cardinality(R3)
                                     + Cardinality(R4) + Cardinality(R5)
    BY DEF Among
  <1> HIDE DEF S1, S2, S3, S4, S5, R1, R2, R3, R4, R5
  <1>3. /\ Cardinality(R1) \in Nat /\ Cardinality(S1) = Cardinality(R1) + (IF t \in S1 THEN 1 ELSE 0)
        /\ Cardinality(R2) \in Nat /\ Cardinality(S2) = Cardinality(R2) + (IF t \in S2 THEN 1 ELSE 0)
        /\ Cardinality(R3) \in Nat /\ Cardinality(S3) = Cardinality(R3) + (IF t \in S3 THEN 1 ELSE 0)
        /\ Cardinality(R4) \in Nat /\ Cardinality(S4) = Cardinality(R4) + (IF t \in S4 THEN 1 ELSE 0)
        /\ Cardinality(R5) \in Nat /\ Cardinality(S5) = Cardinality(R5) + (IF t \in S5 THEN 1 ELSE 0)
    BY <1>0, CountOne
  <1> QED
    BY <1>1, <1>2, <1>3, SMT DEF Own

\* The parts are numbers, so none is more than the whole.
LEMMA HeldParts ==
    ASSUME NEW t \in Threads, NEW x
    PROVE  IsFiniteSet(alive) =>
             /\ Inside(x) \in Nat /\ Published(x) \in 0..1
             /\ Among(Threads \ {t}, x) \in Nat /\ Own(th[t], x) \in 0..5
             /\ Held(x) = Among(Threads \ {t}, x) + Own(th[t], x) + Inside(x) + Published(x)
  <1> SUFFICES ASSUME IsFiniteSet(alive)
               PROVE  /\ Inside(x) \in Nat /\ Published(x) \in 0..1
                      /\ Among(Threads \ {t}, x) \in Nat /\ Own(th[t], x) \in 0..5
                      /\ Held(x) = Among(Threads \ {t}, x) + Own(th[t], x)
                                   + Inside(x) + Published(x)
    OBVIOUS
  <1>1. Inside(x) \in Nat
    <2>1. IsFiniteSet({p \in alive : child[p].ptr = x})
      BY FS_Subset
    <2> QED
      BY <2>1, FS_CardinalityType DEF Inside
  <1>2. Published(x) \in 0..1 /\ Own(th[t], x) \in 0..5
    BY SMT DEF Published, Own
  <1>3. Held(x) = Among(Threads, x) + Inside(x) + Published(x)
    BY DEF Held, Among, Inside, Published
  <1> QED
    BY <1>1, <1>2, <1>3, HeldSplit

\* A step of one thread leaves the references of the others.
LEMMA OthersKept ==
    ASSUME NEW t \in Threads, NEW x,
           \A u \in Threads \ {t} : th'[u] = th[u]
    PROVE  Among(Threads \ {t}, x)' = Among(Threads \ {t}, x)
  <1>1. /\ {u \in Threads \ {t} : th'[u].h.ptr = x} = {u \in Threads \ {t} : th[u].h.ptr = x}
        /\ {u \in Threads \ {t} : th'[u].e.ptr = x} = {u \in Threads \ {t} : th[u].e.ptr = x}
        /\ {u \in Threads \ {t} : th'[u].res.ptr = x} = {u \in Threads \ {t} : th[u].res.ptr = x}
        /\ {u \in Threads \ {t} : th'[u].pending = x} = {u \in Threads \ {t} : th[u].pending = x}
    OBVIOUS
  <1>2. {u \in Threads \ {t} : th'[u].new.ptr = x /\ (th'[u].op = "store" \/ th'[u].pc = "publish")}
        = {u \in Threads \ {t} : th[u].new.ptr = x /\ (th[u].op = "store" \/ th[u].pc = "publish")}
    OBVIOUS
  <1> QED
    BY <1>1, <1>2 DEF Among

\* So the references change by what the thread's own do, and by what the step
\* does inside the objects and to the word.
LEMMA HeldStep ==
    ASSUME IsFiniteSet(alive), IsFiniteSet(alive'), NEW t \in Threads, NEW x,
           \A u \in Threads \ {t} : th'[u] = th[u]
    PROVE  /\ Held(x) \in Nat /\ Inside(x) \in Nat /\ Inside(x)' \in Nat
           /\ Own(th[t], x) + Inside(x) + Published(x) <= Held(x)
           /\ Own(th'[t], x) \in 0..5 /\ Own(th[t], x) \in 0..5
           /\ Published(x) \in 0..1 /\ Published(x)' \in 0..1
           /\ Held(x)' = Held(x) + (Own(th'[t], x) - Own(th[t], x))
                                 + (Inside(x)' - Inside(x)) + (Published(x)' - Published(x))
  <1>1. /\ Inside(x) \in Nat /\ Published(x) \in 0..1
        /\ Among(Threads \ {t}, x) \in Nat /\ Own(th[t], x) \in 0..5
        /\ Held(x) = Among(Threads \ {t}, x) + Own(th[t], x) + Inside(x) + Published(x)
    BY HeldParts
  <1>2. (IsFiniteSet(alive) =>
             /\ Inside(x) \in Nat /\ Published(x) \in 0..1
             /\ Among(Threads \ {t}, x) \in Nat /\ Own(th[t], x) \in 0..5
             /\ Held(x) = Among(Threads \ {t}, x) + Own(th[t], x) + Inside(x) + Published(x))'
    BY HeldParts, PTL
  <1>3. /\ Inside(x)' \in Nat /\ Published(x)' \in 0..1 /\ Own(th'[t], x) \in 0..5
        /\ Held(x)' = Among(Threads \ {t}, x)' + Own(th'[t], x) + Inside(x)' + Published(x)'
    BY <1>2
  <1>4. Among(Threads \ {t}, x)' = Among(Threads \ {t}, x)
    BY OthersKept
  <1> QED
    BY <1>1, <1>3, <1>4, SMT

\* What is inside the objects when a handle in one of them is replaced, when
\* one of them is deleted with its handle, and when an empty one is made.
LEMMA InsidePut ==
    ASSUME NEW p \in alive, NEW w, NEW x, IsFiniteSet(alive), alive \subseteq Objects,
           child \in [Objects -> Words],
           alive' = alive, child' = [child EXCEPT ![p] = w]
    PROVE  Inside(x)' = Inside(x) - (IF child[p].ptr = x THEN 1 ELSE 0)
                                  + (IF w.ptr = x THEN 1 ELSE 0)
  <1> DEFINE A == {q \in alive : child[q].ptr = x}
             B == {q \in alive : child'[q].ptr = x}
             R == {q \in alive \ {p} : child[q].ptr = x}
  <1>1. A \ {p} = R /\ B \ {p} = R
    OBVIOUS
  <1>2. (p \in A <=> child[p].ptr = x) /\ (p \in B <=> w.ptr = x)
    OBVIOUS
  <1>3. IsFiniteSet(A) /\ IsFiniteSet(B) /\ IsFiniteSet(R)
    BY FS_Subset
  <1>4. Inside(x) = Cardinality(A) /\ Inside(x)' = Cardinality(B)
    BY DEF Inside
  <1> HIDE DEF A, B, R
  <1>5. /\ Cardinality(A) \in Nat /\ Cardinality(B) \in Nat /\ Cardinality(R) \in Nat
        /\ Cardinality(R) = IF p \in A THEN Cardinality(A) - 1 ELSE Cardinality(A)
        /\ Cardinality(R) = IF p \in B THEN Cardinality(B) - 1 ELSE Cardinality(B)
    BY <1>1, <1>3, FS_RemoveElement, FS_CardinalityType
  <1> QED
    BY <1>2, <1>4, <1>5, SMT

\* When an object is deleted, the reference in it goes.
LEMMA InsideGone ==
    ASSUME NEW p \in alive, NEW x, IsFiniteSet(alive), alive \subseteq Objects,
           child \in [Objects -> Words],
           alive' = alive \ {p}, child' = [child EXCEPT ![p] = NullWord]
    PROVE  Inside(x)' = Inside(x) - (IF child[p].ptr = x THEN 1 ELSE 0)
  <1> DEFINE A == {q \in alive : child[q].ptr = x}
             R == {q \in alive \ {p} : child'[q].ptr = x}
  <1>1. A \ {p} = R /\ (p \in A <=> child[p].ptr = x)
    OBVIOUS
  <1>2. IsFiniteSet(A)
    BY FS_Subset
  <1>3. Inside(x) = Cardinality(A) /\ Inside(x)' = Cardinality(R)
    BY DEF Inside
  <1> HIDE DEF A, R
  <1>4. /\ Cardinality(A) \in Nat
        /\ Cardinality(R) = IF p \in A THEN Cardinality(A) - 1 ELSE Cardinality(A)
    BY <1>1, <1>2, FS_RemoveElement, FS_CardinalityType
  <1> QED
    BY <1>1, <1>3, <1>4, SMT

\* A new object holds no reference.
LEMMA InsideNew ==
    ASSUME NEW p \in Objects, NEW x \in Objects,
           child[p] = NullWord, alive' = alive \cup {p}, child' = child
    PROVE  Inside(x)' = Inside(x)
  <1>1. {q \in alive \cup {p} : child[q].ptr = x} = {q \in alive : child[q].ptr = x}
    BY NullAssumption, SMT DEF NullWord, Word
  <1> QED
    BY <1>1 DEF Inside

\* What is inside is unchanged when no object and no handle in one is.
LEMMA InsideSame ==
    ASSUME NEW x, alive' = alive, child' = child
    PROVE  Inside(x)' = Inside(x)
  BY DEF Inside

-----------------------------------------------------------------------------
(* What the steps have in common.                                          *)

\* Thread t is the only one whose record a step changes.
Only(t) == \A u \in Threads \ {t} : th'[u] = th[u]

\* The invariant after a step of t, from what concerns t.
LEMMA InvAfter ==
    ASSUME PtrInv, NEW t \in Threads, Only(t),
           TypeOK', LockInv', LocalOK(th'[t]), CountInv'
    PROVE  PtrInv'
  <1>1. \A u \in Threads : LocalOK(th'[u])
    BY DEF PtrInv, Only
  <1>2. \A u \in Threads : LocalOK(th[u])'
    BY <1>1
  <1> QED
    BY <1>2 DEF PtrInv

\* A step that leaves word and lock bit, and takes no lock.
LEMMA LockKept ==
    ASSUME PtrInv, NEW t \in Threads, Only(t), aptr_' = aptr_, locked' = locked,
           th'[t].pc \in Holding => th[t].pc \in Holding /\ th'[t].val = th[t].val
    PROVE  LockInv'
  <1>1. \A u \in Threads : th'[u].pc \in Holding => th[u].pc \in Holding /\ th'[u].val = th[u].val
    BY DEF Only
  <1> QED
    BY <1>1 DEF PtrInv, LockInv

\* The step that lets the lock go, whatever it writes to the word.
LEMMA LockReleased ==
    ASSUME PtrInv, NEW t \in Threads, Only(t),
           th[t].pc \in Holding, th'[t].pc \notin Holding
    PROVE  LockInv'
  <1>1. \A u \in Threads : th'[u].pc \notin Holding
    BY DEF PtrInv, LockInv, Only
  <1> QED
    BY <1>1 DEF LockInv

\* A step that moves references between a thread's locals and the word.
LEMMA CountsMoved ==
    ASSUME PtrInv, NEW t \in Threads, Only(t),
           count' = count, alive' = alive, child' = child,
           \A x \in Objects : Own(th'[t], x) + Published(x)' = Own(th[t], x) + Published(x)
    PROVE  CountInv'
  <1>0. IsFiniteSet(alive) /\ IsFiniteSet(alive') /\ \A u \in Threads \ {t} : th'[u] = th[u]
    BY DEF PtrInv, CountInv, Only
  <1>1. \A x \in Objects : Held(x)' = Held(x)
    <2> SUFFICES ASSUME NEW x \in Objects
                 PROVE  Held(x)' = Held(x)
      OBVIOUS
    <2>1. Inside(x)' = Inside(x)
      BY InsideSame
    <2> QED
      BY <1>0, <2>1, HeldStep, SMT
  <1> QED
    BY <1>0, <1>1 DEF PtrInv, CountInv

\* A step that takes a reference to an object that exists, and counts it.
LEMMA CountsTaken ==
    ASSUME PtrInv, NEW t \in Threads, Only(t), NEW y \in Objects \cup {Null},
           count' = AddRef(y), y # Null => count[y] > 0,
           aptr_' = aptr_, alive' = alive, child' = child,
           \A x \in Objects : Own(th'[t], x) = Own(th[t], x) + (IF y = x THEN 1 ELSE 0)
    PROVE  CountInv'
  <1>0. /\ IsFiniteSet(alive) /\ IsFiniteSet(alive')
        /\ \A u \in Threads \ {t} : th'[u] = th[u]
        /\ count \in [Objects -> Nat]
    BY DEF PtrInv, TypeOK, CountInv, Only
  <1>1. \A x \in Objects : Held(x)' = Held(x) + (IF y = x THEN 1 ELSE 0)
    <2> SUFFICES ASSUME NEW x \in Objects
                 PROVE  Held(x)' = Held(x) + (IF y = x THEN 1 ELSE 0)
      OBVIOUS
    <2>1. Inside(x)' = Inside(x) /\ Published(x)' = Published(x)
      BY InsideSame DEF Published
    <2> QED
      BY <1>0, <2>1, HeldStep, SMT
  <1>2. \A x \in Objects : count'[x] = count[x] + (IF y = x THEN 1 ELSE 0)
    BY <1>0, NullAssumption, SMT DEF AddRef
  <1>3. \A x \in Objects : count'[x] = Held(x)' /\ (x \in alive' <=> count'[x] > 0)
    BY <1>0, <1>1, <1>2, NullAssumption, SMT DEF PtrInv, CountInv
  <1> QED
    BY <1>0, <1>3 DEF PtrInv, CountInv

\* Counts stay counts, and only objects are counted.
LEMMA AddRefType ==
    ASSUME count \in [Objects -> Nat], NEW y \in Objects \cup {Null}
    PROVE  AddRef(y) \in [Objects -> Nat]
  BY SMT DEF AddRef

\* What something refers to has a positive count.
LEMMA Referenced ==
    ASSUME PtrInv, NEW t \in Threads, NEW x \in Objects
    PROVE  /\ count[x] \in Nat
           /\ Own(th[t], x) + Inside(x) + Published(x) <= count[x]
           /\ Own(th[t], x) \in 0..5 /\ Inside(x) \in Nat /\ Published(x) \in 0..1
  <1>1. IsFiniteSet(alive) /\ count[x] = Held(x)
    BY DEF PtrInv, CountInv
  <1>2. /\ Inside(x) \in Nat /\ Published(x) \in 0..1
        /\ Among(Threads \ {t}, x) \in Nat /\ Own(th[t], x) \in 0..5
        /\ Held(x) = Among(Threads \ {t}, x) + Own(th[t], x) + Inside(x) + Published(x)
    BY <1>1, HeldParts
  <1> QED
    BY <1>1, <1>2, SMT

\* A handle inside an object that exists is one of its pointee's references.
LEMMA InsideOne ==
    ASSUME PtrInv, NEW p \in alive
    PROVE  Inside(child[p].ptr) \in Nat /\ Inside(child[p].ptr) >= 1
  <1> DEFINE S == {q \in alive : child[q].ptr = child[p].ptr}
  <1>1. IsFiniteSet(S) /\ p \in S
    BY FS_Subset DEF PtrInv, CountInv
  <1>2. Cardinality(S) \in Nat /\ Cardinality(S) # 0
    BY <1>1, FS_EmptySet, FS_CardinalityType
  <1> QED
    BY <1>2, SMT DEF Inside

-----------------------------------------------------------------------------
(* The steps, one by one.                                                  *)

\* The parts of the invariant a step of t starts from.
LEMMA Before ==
    ASSUME PtrInv, NEW t \in Threads
    PROVE  /\ th \in [Threads -> Frames] /\ th[t] \in Frames /\ LocalOK(th[t])
           /\ aptr_ \in Words /\ locked \in BOOLEAN /\ count \in [Objects -> Nat]
           /\ alive \subseteq Objects /\ child \in [Objects -> Words]
  BY DEF PtrInv, TypeOK

\* The null word is a word, and a word points to an object or to nothing.
LEMMA WordTypes ==
    /\ NullWord \in Words
    /\ \A w \in Words : w.ptr \in Objects \cup {Null}
    /\ \A p \in Objects \cup {Null} : Word(p, TRUE) \in Words /\ Word(p, FALSE) \in Words
  BY DEF Words, NullWord, Word

\* swap() of the two handles of a thread.

\* swap() of the two handles of a thread.
LEMMA SwapStep ==
    ASSUME PtrInv, NEW t \in Threads, Swap(t)
    PROVE  PtrInv'
  <1>1. Only(t) /\ th'[t] = [th[t] EXCEPT !.h = th[t].e, !.e = th[t].h]
    BY Before DEF Swap, Only, Frames
  <1>2. TypeOK'
    <2>1. th'[t] \in Frames
      BY Before, <1>1, WordTypes DEF Frames
    <2>2. th' \in [Threads -> Frames]
      BY Before, <2>1 DEF Swap
    <2> QED
      BY Before, <2>2 DEF Swap, TypeOK, Frames
  <1>3. LockInv'
    BY Before, <1>1, LockKept, SMT DEF Swap, Frames, Holding, Idle
  <1>4. LocalOK(th'[t])
    BY Before, <1>1, SMT DEF Swap, Frames, LocalOK, Idle
  <1>5. CountInv'
    <2>1. \A x \in Objects : Own(th'[t], x) + Published(x)' = Own(th[t], x) + Published(x)
      BY Before, <1>1, NullAssumption, SMT DEF Swap, Idle, Frames, Own, Published, LocalOK, NullWord, Word
    <2> QED
      BY <1>1, <2>1, CountsMoved DEF Swap
  <1> QED
    BY <1>1, <1>2, <1>3, <1>4, <1>5, InvAfter

\* The destructor of a handle begins.
LEMMA DropStep ==
    ASSUME PtrInv, NEW t \in Threads, Drop(t)
    PROVE  PtrInv'
  <1>1. /\ Only(t)
        /\ \/ th'[t] = [th[t] EXCEPT !.pc = "release", !.h = NullWord, !.pending = th[t].h.ptr]
           \/ th'[t] = [th[t] EXCEPT !.pc = "release", !.e = NullWord, !.pending = th[t].e.ptr]
    BY Before DEF Drop, Only, Frames
  <1>2. TypeOK'
    <2>1. th'[t] \in Frames
      BY Before, <1>1, WordTypes, ZenonT(40) DEF Frames
    <2>2. th' \in [Threads -> Frames]
      BY Before, <2>1 DEF Drop
    <2> QED
      BY Before, <2>2 DEF Drop, TypeOK, Frames
  <1>3. LockInv'
    BY Before, <1>1, LockKept DEF Drop, Frames, Holding, Idle
  <1>4. LocalOK(th'[t])
    BY Before, <1>1, SMT DEF Drop, Frames, LocalOK, Idle
  <1>5. CountInv'
    <2>1. \A x \in Objects : Own(th'[t], x) + Published(x)' = Own(th[t], x) + Published(x)
      BY Before, <1>1, NullAssumption, SMTT(30) DEF Drop, Idle, Frames, Own, Published, LocalOK, NullWord, Word
    <2> QED
      BY <1>1, <2>1, CountsMoved, ZenonT(40) DEF Drop
  <1> QED
    BY <1>1, <1>2, <1>3, <1>4, <1>5, InvAfter

\* The copy constructor counts what the source holds.
LEMMA CopyStep ==
    ASSUME PtrInv, NEW t \in Threads, Copy(t)
    PROVE  PtrInv'
  <1>1. /\ Only(t)
        /\ \/ th'[t] = [th[t] EXCEPT !.e = Word(th[t].h.ptr, TRUE)]
           \/ th'[t] = [th[t] EXCEPT !.e = Word(th[t].h.ptr, FALSE)]
    BY Before DEF Copy, Only, Frames
  <1>2. TypeOK'
    <2>1. th'[t] \in Frames
      <3>1. PICK w \in Words : th'[t] = [th[t] EXCEPT !.e = w]
        <4>1. th[t].h.ptr \in Objects \cup {Null}
          BY Before, WordTypes DEF Frames
        <4> QED
          BY <4>1, <1>1, WordTypes
      <3> QED
        BY Before, <3>1 DEF Frames
    <2>2. th' \in [Threads -> Frames]
      BY Before, <2>1 DEF Copy
    <2> QED
      BY Before, <2>2, AddRefType DEF Copy, TypeOK, Frames, Words
  <1>3. LockInv'
    BY Before, <1>1, LockKept DEF Copy, Frames, Holding, Idle
  <1>4. LocalOK(th'[t])
    BY Before, <1>1, ZenonT(40) DEF Copy, Frames, LocalOK, Idle
  <1>5. CountInv'
    <2> DEFINE y == th[t].h.ptr
    <2>1. y \in Objects \cup {Null}
      BY Before DEF Frames, Words
    <2>2. y # Null => count[y] > 0
      BY <2>1, Referenced, SMT DEF Own
    <2>3. \A x \in Objects : Own(th'[t], x) = Own(th[t], x) + (IF y = x THEN 1 ELSE 0)
      BY Before, <1>1, NullAssumption, SMT DEF Copy, Idle, Frames, Own, LocalOK, NullWord, Word
    <2> QED
      BY <1>1, <2>1, <2>2, <2>3, CountsTaken DEF Copy
  <1> QED
    BY <1>1, <1>2, <1>3, <1>4, <1>5, InvAfter

\* load() begins.
LEMMA LoadStep ==
    ASSUME PtrInv, NEW t \in Threads, Load(t)
    PROVE  PtrInv'
  <1>1. Only(t) /\ th'[t] = [th[t] EXCEPT !.pc = "look", !.op = "load"]
    BY Before DEF Load, Only, Frames
  <1>2. TypeOK'
    <2>1. th'[t] \in Frames
      BY Before, <1>1, WordTypes DEF Frames
    <2>2. th' \in [Threads -> Frames]
      BY Before, <2>1 DEF Load
    <2> QED
      BY Before, <2>2 DEF Load, TypeOK, Frames
  <1>3. LockInv'
    BY Before, <1>1, LockKept, SMT DEF Load, Frames, Holding, Idle
  <1>4. LocalOK(th'[t])
    BY Before, <1>1, SMT DEF Load, Frames, LocalOK, Idle
  <1>5. CountInv'
    <2>1. \A x \in Objects : Own(th'[t], x) + Published(x)' = Own(th[t], x) + Published(x)
      BY Before, <1>1, NullAssumption, SMT DEF Load, Idle, Frames, Own, Published, LocalOK, NullWord, Word
    <2> QED
      BY <1>1, <2>1, CountsMoved DEF Load
  <1> QED
    BY <1>1, <1>2, <1>3, <1>4, <1>5, InvAfter

\* compare_exchange_strong() begins: the desired value is not counted yet.
LEMMA CompareExchangeStep ==
    ASSUME PtrInv, NEW t \in Threads, CompareExchange(t)
    PROVE  PtrInv'
  <1>1. Only(t) /\ th'[t] = [th[t] EXCEPT !.pc = "look", !.op = "cas", !.new = th[t].h]
    BY Before DEF CompareExchange, Only, Frames
  <1>2. TypeOK'
    <2>1. th'[t] \in Frames
      BY Before, <1>1, WordTypes DEF Frames
    <2>2. th' \in [Threads -> Frames]
      BY Before, <2>1 DEF CompareExchange
    <2> QED
      BY Before, <2>2 DEF CompareExchange, TypeOK, Frames
  <1>3. LockInv'
    BY Before, <1>1, LockKept, SMT DEF CompareExchange, Frames, Holding, Idle
  <1>4. LocalOK(th'[t])
    BY Before, <1>1, SMT DEF CompareExchange, Frames, LocalOK, Idle
  <1>5. CountInv'
    <2>1. \A x \in Objects : Own(th'[t], x) + Published(x)' = Own(th[t], x) + Published(x)
      BY Before, <1>1, NullAssumption, SMT DEF CompareExchange, Idle, Frames, Own, Published, LocalOK, NullWord, Word
    <2> QED
      BY <1>1, <2>1, CountsMoved DEF CompareExchange
  <1> QED
    BY <1>1, <1>2, <1>3, <1>4, <1>5, InvAfter

\* store() begins: it counts the new value.
LEMMA StoreStep ==
    ASSUME PtrInv, NEW t \in Threads, Store(t)
    PROVE  PtrInv'
  <1>1. Only(t) /\ th'[t] = [th[t] EXCEPT !.pc = "look", !.op = "store", !.new = th[t].h]
    BY Before DEF Store, Only, Frames
  <1>2. TypeOK'
    <2>1. th'[t] \in Frames
      BY Before, <1>1, WordTypes DEF Frames
    <2>2. th' \in [Threads -> Frames]
      BY Before, <2>1 DEF Store
    <2> QED
      BY Before, <2>2, AddRefType DEF Store, TypeOK, Frames, Words
  <1>3. LockInv'
    BY Before, <1>1, LockKept, SMT DEF Store, Frames, Holding, Idle
  <1>4. LocalOK(th'[t])
    BY Before, <1>1, SMT DEF Store, Frames, LocalOK, Idle
  <1>5. CountInv'
    <2> DEFINE y == th[t].h.ptr
    <2>1. y \in Objects \cup {Null}
      BY Before DEF Frames, Words
    <2>2. y # Null => count[y] > 0
      BY <2>1, Referenced, SMT DEF Own
    <2>3. \A x \in Objects : Own(th'[t], x) = Own(th[t], x) + (IF y = x THEN 1 ELSE 0)
      BY Before, <1>1, NullAssumption, SMT DEF Store, Idle, Frames, Own, LocalOK, NullWord, Word
    <2> QED
      BY <1>1, <2>1, <2>2, <2>3, CountsTaken DEF Store
  <1> QED
    BY <1>1, <1>2, <1>3, <1>4, <1>5, InvAfter

\* lock() sees the lock bit clear.
LEMMA LookStep ==
    ASSUME PtrInv, NEW t \in Threads, Look(t)
    PROVE  PtrInv'
  <1>1. Only(t) /\ th'[t] = [th[t] EXCEPT !.pc = "try", !.val = aptr_]
    BY Before DEF Look, Only, Frames
  <1>2. TypeOK'
    <2>1. th'[t] \in Frames
      BY Before, <1>1, WordTypes DEF Frames
    <2>2. th' \in [Threads -> Frames]
      BY Before, <2>1 DEF Look
    <2> QED
      BY Before, <2>2 DEF Look, TypeOK, Frames
  <1>3. LockInv'
    BY Before, <1>1, LockKept, SMT DEF Look, Frames, Holding, Idle
  <1>4. LocalOK(th'[t])
    BY Before, <1>1, SMT DEF Look, Frames, LocalOK, Idle
  <1>5. CountInv'
    <2>1. \A x \in Objects : Own(th'[t], x) + Published(x)' = Own(th[t], x) + Published(x)
      BY Before, <1>1, NullAssumption, SMT DEF Look, Idle, Frames, Own, Published, LocalOK, NullWord, Word
    <2> QED
      BY <1>1, <2>1, CountsMoved DEF Look
  <1> QED
    BY <1>1, <1>2, <1>3, <1>4, <1>5, InvAfter

\* lock() looks again.
LEMMA TryLockFailsStep ==
    ASSUME PtrInv, NEW t \in Threads, TryLockFails(t)
    PROVE  PtrInv'
  <1>1. Only(t) /\ th'[t] = [th[t] EXCEPT !.pc = "look", !.val = NullWord]
    BY Before DEF TryLockFails, Only, Frames
  <1>2. TypeOK'
    <2>1. th'[t] \in Frames
      BY Before, <1>1, WordTypes DEF Frames
    <2>2. th' \in [Threads -> Frames]
      BY Before, <2>1 DEF TryLockFails
    <2> QED
      BY Before, <2>2 DEF TryLockFails, TypeOK, Frames
  <1>3. LockInv'
    BY Before, <1>1, LockKept, SMT DEF TryLockFails, Frames, Holding, Idle
  <1>4. LocalOK(th'[t])
    BY Before, <1>1, SMT DEF TryLockFails, Frames, LocalOK, Idle
  <1>5. CountInv'
    <2>1. \A x \in Objects : Own(th'[t], x) + Published(x)' = Own(th[t], x) + Published(x)
      BY Before, <1>1, NullAssumption, SMT DEF TryLockFails, Idle, Frames, Own, Published, LocalOK, NullWord, Word
    <2> QED
      BY <1>1, <2>1, CountsMoved DEF TryLockFails
  <1> QED
    BY <1>1, <1>2, <1>3, <1>4, <1>5, InvAfter

\* The locked word is counted once more.
LEMMA LoadHeldStep ==
    ASSUME PtrInv, NEW t \in Threads, LoadHeld(t)
    PROVE  PtrInv'
  <1>1. Only(t) /\ th'[t] = [th[t] EXCEPT !.pc = "unlock", !.res = th[t].val]
    BY Before DEF LoadHeld, Take, Only, Frames
  <1>2. TypeOK'
    <2>1. th'[t] \in Frames
      BY Before, <1>1, WordTypes DEF Frames
    <2>2. th' \in [Threads -> Frames]
      BY Before, <2>1 DEF LoadHeld, Take
    <2> QED
      BY Before, <2>2, AddRefType DEF LoadHeld, Take, TypeOK, Frames, Words
  <1>3. LockInv'
    BY Before, <1>1, LockKept, SMT DEF LoadHeld, Take, Frames, Holding, Idle
  <1>4. LocalOK(th'[t])
    BY Before, <1>1, SMT DEF LoadHeld, Take, Frames, LocalOK, Idle
  <1>5. CountInv'
    <2> DEFINE y == th[t].val.ptr
    <2>1. y \in Objects \cup {Null}
      BY Before DEF Frames, Words
    <2>2. y # Null => count[y] > 0
      <3>1. th[t].val = aptr_
        BY DEF LoadHeld, PtrInv, LockInv, Holding
      <3> QED
        BY <2>1, <3>1, Referenced, SMT DEF Published
    <2>3. \A x \in Objects : Own(th'[t], x) = Own(th[t], x) + (IF y = x THEN 1 ELSE 0)
      BY Before, <1>1, NullAssumption, SMT DEF LoadHeld, Take, Idle, Frames, Own, LocalOK, NullWord, Word
    <2> QED
      BY <1>1, <2>1, <2>2, <2>3, CountsTaken DEF LoadHeld, Take
  <1> QED
    BY <1>1, <1>2, <1>3, <1>4, <1>5, InvAfter

\* A failed exchange counts the word for the caller.
LEMMA CasDiffersStep ==
    ASSUME PtrInv, NEW t \in Threads, CasDiffers(t)
    PROVE  PtrInv'
  <1>1. Only(t) /\ th'[t] = [th[t] EXCEPT !.pc = "unlock", !.res = th[t].val]
    BY Before DEF CasDiffers, Take, Only, Frames
  <1>2. TypeOK'
    <2>1. th'[t] \in Frames
      BY Before, <1>1, WordTypes DEF Frames
    <2>2. th' \in [Threads -> Frames]
      BY Before, <2>1 DEF CasDiffers, Take
    <2> QED
      BY Before, <2>2, AddRefType DEF CasDiffers, Take, TypeOK, Frames, Words
  <1>3. LockInv'
    BY Before, <1>1, LockKept, SMT DEF CasDiffers, Take, Frames, Holding, Idle
  <1>4. LocalOK(th'[t])
    BY Before, <1>1, SMT DEF CasDiffers, Take, Frames, LocalOK, Idle
  <1>5. CountInv'
    <2> DEFINE y == th[t].val.ptr
    <2>1. y \in Objects \cup {Null}
      BY Before DEF Frames, Words
    <2>2. y # Null => count[y] > 0
      <3>1. th[t].val = aptr_
        BY DEF CasDiffers, PtrInv, LockInv, Holding
      <3> QED
        BY <2>1, <3>1, Referenced, SMT DEF Published
    <2>3. \A x \in Objects : Own(th'[t], x) = Own(th[t], x) + (IF y = x THEN 1 ELSE 0)
      BY Before, <1>1, NullAssumption, SMT DEF CasDiffers, Take, Idle, Frames, Own, LocalOK, NullWord, Word
    <2> QED
      BY <1>1, <2>1, <2>2, <2>3, CountsTaken DEF CasDiffers, Take
  <1> QED
    BY <1>1, <1>2, <1>3, <1>4, <1>5, InvAfter

\* A successful exchange counts the desired value before it is published.
LEMMA CasMatchesStep ==
    ASSUME PtrInv, NEW t \in Threads, CasMatches(t)
    PROVE  PtrInv'
  <1>1. Only(t) /\ th'[t] = [th[t] EXCEPT !.pc = "publish"]
    BY Before DEF CasMatches, Only, Frames
  <1>2. TypeOK'
    <2>1. th'[t] \in Frames
      BY Before, <1>1, WordTypes DEF Frames
    <2>2. th' \in [Threads -> Frames]
      BY Before, <2>1 DEF CasMatches
    <2> QED
      BY Before, <2>2, AddRefType DEF CasMatches, TypeOK, Frames, Words
  <1>3. LockInv'
    BY Before, <1>1, LockKept DEF CasMatches, Frames, Holding, Idle
  <1>4. LocalOK(th'[t])
    BY Before, <1>1, SMT DEF CasMatches, Frames, LocalOK, Idle
  <1>5. CountInv'
    <2> DEFINE y == th[t].new.ptr
    <2>1. y \in Objects \cup {Null}
      BY Before DEF Frames, Words
    <2>2. y # Null => count[y] > 0
      BY Before, <2>1, Referenced, SMT DEF CasMatches, LocalOK, Own
    <2>3. \A x \in Objects : Own(th'[t], x) = Own(th[t], x) + (IF y = x THEN 1 ELSE 0)
      BY Before, <1>1, NullAssumption, SMT DEF CasMatches, Idle, Frames, Own, LocalOK, NullWord, Word
    <2> QED
      BY <1>1, <2>1, <2>2, <2>3, CountsTaken DEF CasMatches
  <1> QED
    BY <1>1, <1>2, <1>3, <1>4, <1>5, InvAfter

\* load() unlocks and returns its handle.
LEMMA LoadUnlockStep ==
    ASSUME PtrInv, NEW t \in Threads, LoadUnlock(t)
    PROVE  PtrInv'
  <1>1. Only(t) /\ th'[t] = [th[t] EXCEPT !.pc = "idle", !.op = "none", !.pending = Null, !.val = NullWord,
                                                !.new = NullWord, !.res = NullWord, !.h = th[t].res]
    BY Before DEF LoadUnlock, Unlock, Done, Only, Frames
  <1>2. TypeOK'
    <2>1. th'[t] \in Frames
      BY Before, <1>1, WordTypes DEF Frames
    <2>2. th' \in [Threads -> Frames]
      BY Before, <2>1 DEF LoadUnlock, Unlock, Done
    <2> QED
      BY Before, <2>2 DEF LoadUnlock, Unlock, Done, TypeOK, Frames
  <1>3. LockInv'
    BY Before, <1>1, LockReleased, SMT DEF LoadUnlock, Unlock, Done, Frames, Holding
  <1>4. LocalOK(th'[t])
    BY Before, <1>1, SMT DEF LoadUnlock, Unlock, Done, Frames, LocalOK, Idle
  <1>5. CountInv'
    <2>1. \A x \in Objects : Own(th'[t], x) + Published(x)' = Own(th[t], x) + Published(x)
      <3>1. th[t].val = aptr_
        BY DEF LoadUnlock, Unlock, Done, PtrInv, LockInv, Holding
      <3> QED
        BY Before, <1>1, <3>1, NullAssumption, SMT DEF LoadUnlock, Unlock, Done, Frames, Own, Published, LocalOK, NullWord, Word
    <2> QED
      BY <1>1, <2>1, CountsMoved DEF LoadUnlock, Unlock, Done
  <1> QED
    BY <1>1, <1>2, <1>3, <1>4, <1>5, InvAfter

\* The publishing store: the new value's reference goes to the word, the
\* old occupant's to the caller.
LEMMA PublishStep ==
    ASSUME PtrInv, NEW t \in Threads, Publish(t)
    PROVE  PtrInv'
  <1>1. Only(t) /\ th'[t] = [th[t] EXCEPT !.pc = "release", !.new = NullWord, !.pending = th[t].val.ptr]
    BY Before DEF Publish, Unlock, Only, Frames
  <1>2. TypeOK'
    <2>1. th'[t] \in Frames
      BY Before, <1>1, WordTypes, ZenonT(40) DEF Frames
    <2>2. th' \in [Threads -> Frames]
      BY Before, <2>1 DEF Publish, Unlock
    <2> QED
      BY Before, <2>2 DEF Publish, Unlock, TypeOK, Frames
  <1>3. LockInv'
    BY Before, <1>1, LockReleased, SMT DEF Publish, Unlock, Frames, Holding
  <1>4. LocalOK(th'[t])
    BY Before, <1>1, SMT DEF Publish, Unlock, Frames, LocalOK, Idle
  <1>5. CountInv'
    <2>1. \A x \in Objects : Own(th'[t], x) + Published(x)' = Own(th[t], x) + Published(x)
      <3>1. th[t].val = aptr_
        BY DEF Publish, Unlock, PtrInv, LockInv, Holding
      <3> QED
        BY Before, <1>1, <3>1, NullAssumption, SMT DEF Publish, Unlock, Frames, Own, Published, LocalOK, NullWord, Word
    <2> QED
      BY <1>1, <2>1, CountsMoved DEF Publish, Unlock
  <1> QED
    BY <1>1, <1>2, <1>3, <1>4, <1>5, InvAfter

\* A failed exchange unlocks and replaces expected.
LEMMA CasUnlockStep ==
    ASSUME PtrInv, NEW t \in Threads, CasUnlock(t)
    PROVE  PtrInv'
  <1>1. Only(t) /\ th'[t] = [th[t] EXCEPT !.pc = "release", !.e = th[t].res, !.res = NullWord,
                                                !.pending = th[t].e.ptr]
    BY Before DEF CasUnlock, Unlock, Only, Frames
  <1>2. TypeOK'
    <2>1. th'[t] \in Frames
      BY Before, <1>1, WordTypes, ZenonT(40) DEF Frames
    <2>2. th' \in [Threads -> Frames]
      BY Before, <2>1 DEF CasUnlock, Unlock
    <2> QED
      BY Before, <2>2 DEF CasUnlock, Unlock, TypeOK, Frames
  <1>3. LockInv'
    BY Before, <1>1, LockReleased, SMT DEF CasUnlock, Unlock, Frames, Holding
  <1>4. LocalOK(th'[t])
    BY Before, <1>1, SMT DEF CasUnlock, Unlock, Frames, LocalOK, Idle
  <1>5. CountInv'
    <2>1. \A x \in Objects : Own(th'[t], x) + Published(x)' = Own(th[t], x) + Published(x)
      <3>1. th[t].val = aptr_
        BY DEF CasUnlock, Unlock, PtrInv, LockInv, Holding
      <3> QED
        BY Before, <1>1, <3>1, NullAssumption, SMT DEF CasUnlock, Unlock, Frames, Own, Published, LocalOK, NullWord, Word
    <2> QED
      BY <1>1, <2>1, CountsMoved DEF CasUnlock, Unlock
  <1> QED
    BY <1>1, <1>2, <1>3, <1>4, <1>5, InvAfter

\* lock() sets the lock bit of the word it has looked at.
LEMMA TryLockStep ==
    ASSUME PtrInv, NEW t \in Threads, TryLock(t)
    PROVE  PtrInv'
  <1>1. Only(t) /\ th'[t] = [th[t] EXCEPT !.pc = "held"]
    BY Before DEF TryLock, Only, Frames
  <1>2. TypeOK'
    <2>1. th'[t] \in Frames
      BY Before, <1>1 DEF Frames
    <2>2. th' \in [Threads -> Frames]
      BY Before, <2>1 DEF TryLock
    <2> QED
      BY Before, <2>2 DEF TryLock, TypeOK
  <1>3. LockInv'
    <2>1. \A u \in Threads : th[u].pc \notin Holding
      BY DEF TryLock, PtrInv, LockInv
    <2>2. \A u \in Threads : th'[u].pc \in Holding => u = t
      BY <1>1, <2>1 DEF Only
    <2>3. th'[t].val = aptr_ /\ aptr_' = aptr_ /\ locked'
      BY Before, <1>1 DEF TryLock, Frames
    <2> QED
      BY <2>2, <2>3 DEF LockInv
  <1>4. LocalOK(th'[t])
    BY Before, <1>1, SMT DEF TryLock, Frames, LocalOK
  <1>5. CountInv'
    <2>1. \A x \in Objects : Own(th'[t], x) + Published(x)' = Own(th[t], x) + Published(x)
      BY Before, <1>1, SMT DEF TryLock, Frames, Own, Published
    <2> QED
      BY <1>1, <2>1, CountsMoved DEF TryLock
  <1> QED
    BY <1>1, <1>2, <1>3, <1>4, <1>5, InvAfter

\* h = h->child counts the child before anything is released.
LEMMA CopyAssignStep ==
    ASSUME PtrInv, NEW t \in Threads, CopyAssign(t)
    PROVE  PtrInv'
  <1> DEFINE p == th[t].h.ptr
             y == child[p].ptr
  <1>0. p \in Objects /\ child[p] \in Words /\ y \in Objects \cup {Null}
    BY Before, WordTypes DEF CopyAssign, Frames
  <1>1. /\ Only(t)
        /\ th'[t] = [th[t] EXCEPT !.pc = "release", !.op = "assign", !.h = NullWord,
                                  !.res = child[p], !.pending = p]
    BY Before DEF CopyAssign, Only, Frames
  <1>2. TypeOK'
    <2>1. th'[t] \in Frames
      BY Before, <1>0, <1>1, WordTypes, ZenonT(40) DEF Frames
    <2>2. th' \in [Threads -> Frames]
      BY Before, <2>1 DEF CopyAssign
    <2> QED
      BY Before, <1>0, <2>2, AddRefType DEF CopyAssign, TypeOK
  <1>3. LockInv'
    <2>1. th'[t].pc = "release"
      BY Before, <1>1, SMT DEF Frames
    <2>2. aptr_' = aptr_ /\ locked' = locked
      BY DEF CopyAssign
    <2>3. th'[t].pc \notin Holding
      BY <2>1 DEF Holding
    <2> QED
      BY <1>1, <2>2, <2>3, LockKept
  <1>4. LocalOK(th'[t])
    <2>1. /\ th'[t].pc = "release" /\ th'[t].op = "assign" /\ th'[t].h = NullWord
          /\ th'[t].new = NullWord
      BY Before, <1>1, SMT DEF CopyAssign, Frames, LocalOK, Idle
    <2> QED
      BY <2>1, ZenonT(40) DEF LocalOK
  <1>5. CountInv'
    <2>1. p \in alive
      BY <1>0, Referenced, SMT DEF Own, PtrInv, CountInv
    <2>2. y # Null => count[y] > 0
      BY <1>0, <2>1, InsideOne, Referenced, SMTT(30)
    <2>3. \A x \in Objects : Own(th'[t], x) = Own(th[t], x) + (IF y = x THEN 1 ELSE 0)
      <3> SUFFICES ASSUME NEW x \in Objects
                   PROVE  Own(th'[t], x) = Own(th[t], x) + (IF y = x THEN 1 ELSE 0)
        OBVIOUS
      <3>1. /\ th[t].pc = "idle" /\ th[t].op = "none" /\ th[t].pending = Null
            /\ th[t].new = NullWord /\ th[t].res = NullWord
        BY Before DEF CopyAssign, Idle, LocalOK
      <3>2. /\ th'[t].h = NullWord /\ th'[t].e = th[t].e /\ th'[t].new = th[t].new
            /\ th'[t].res = child[p] /\ th'[t].pending = p
        BY Before, <1>1, SMT DEF Frames
      <3>3. NullWord.ptr = Null /\ x # Null
        BY NullAssumption, SMT DEF NullWord, Word
      <3> QED
        BY <1>0, <3>1, <3>2, <3>3, SMT DEF Own
    <2> QED
      BY <1>0, <1>1, <2>2, <2>3, CountsTaken DEF CopyAssign
  <1> QED
    BY <1>1, <1>2, <1>3, <1>4, <1>5, InvAfter

\* A step that makes or deletes an object, or changes what one contains.
LEMMA CountsChanged ==
    ASSUME PtrInv, NEW t \in Threads, Only(t), IsFiniteSet(alive'), aptr_' = aptr_,
           \A x \in Objects : x \notin alive' => child'[x] = NullWord,
           \A x \in Objects : /\ count'[x] = count[x] + (Own(th'[t], x) - Own(th[t], x))
                                                      + (Inside(x)' - Inside(x))
                              /\ x \in alive' <=> count'[x] > 0
    PROVE  CountInv'
  <1>0. IsFiniteSet(alive) /\ \A u \in Threads \ {t} : th'[u] = th[u]
    BY DEF PtrInv, CountInv, Only
  <1>1. \A x \in Objects : count'[x] = Held(x)'
    <2> SUFFICES ASSUME NEW x \in Objects
                 PROVE  count'[x] = Held(x)'
      OBVIOUS
    <2>1. Published(x)' = Published(x) /\ count[x] = Held(x)
      BY DEF Published, PtrInv, CountInv
    <2> QED
      BY <1>0, <2>1, HeldStep, SMT
  <1> QED
    BY <1>1 DEF CountInv

\* A new object has the reference of the handle that is returned.
LEMMA MakeStep ==
    ASSUME PtrInv, NEW t \in Threads, Make(t)
    PROVE  PtrInv'
  <1>0. PICK x \in Objects \ alive :
          /\ alive' = alive \cup {x}
          /\ count' = [count EXCEPT ![x] = 1]
          /\ th' = [th EXCEPT ![t].h = Word(x, FALSE)]
    BY DEF Make
  <1>1. Only(t) /\ th'[t] = [th[t] EXCEPT !.h = Word(x, FALSE)]
    BY Before, <1>0 DEF Only, Frames
  <1>2. TypeOK'
    <2>1. th'[t] \in Frames
      <3>1. PICK w \in Words : th'[t] = [th[t] EXCEPT !.h = w]
        BY <1>1, WordTypes
      <3> QED
        BY Before, <3>1 DEF Frames
    <2>2. th' \in [Threads -> Frames]
      BY Before, <1>0, <2>1
    <2> QED
      <3>1. count' \in [Objects -> Nat] /\ alive' \subseteq Objects
        BY Before, <1>0
      <3> QED
        BY Before, <2>2, <3>1 DEF Make, TypeOK
  <1>3. LockInv'
    BY Before, <1>1, LockKept DEF Make, Frames, Holding, Idle
  <1>4. LocalOK(th'[t])
    BY Before, <1>1 DEF Make, Frames, LocalOK, Idle
  <1>5. CountInv'
    <2>1. IsFiniteSet(alive') /\ child' = child /\ child[x] = NullWord /\ aptr_' = aptr_
      <3>1. IsFiniteSet(alive) /\ child[x] = NullWord
        BY <1>0 DEF PtrInv, CountInv
      <3> QED
        BY <1>0, <3>1, FS_AddElement DEF Make
    <2>2. \A z \in Objects : Inside(z)' = Inside(z)
      BY <1>0, <2>1, InsideNew
    <2>3. \A z \in Objects : Own(th'[t], z) = Own(th[t], z) + (IF x = z THEN 1 ELSE 0)
      BY Before, <1>1, NullAssumption, SMT DEF Make, Frames, Own, NullWord, Word
    <2>4. count[x] = 0
      BY Before, SMT DEF PtrInv, CountInv
    <2>5. \A z \in Objects : count'[z] = count[z] + (IF x = z THEN 1 ELSE 0)
      BY Before, <1>0, <2>4, SMT
    <2>6. \A z \in Objects : z \in alive' <=> count'[z] > 0
      BY Before, <1>0, <2>5, SMT DEF PtrInv, CountInv
    <2>7. \A z \in Objects : /\ Own(th[t], z) \in 0..5 /\ Inside(z) \in Nat /\ count[z] \in Nat
      BY Referenced
    <2>8. \A z \in Objects : count'[z] = count[z] + (Own(th'[t], z) - Own(th[t], z))
                                                  + (Inside(z)' - Inside(z))
      BY <2>2, <2>3, <2>5, <2>7, SMT
    <2>9. \A z \in Objects : z \notin alive' => child'[z] = NullWord
      BY <1>0, <2>1 DEF PtrInv, CountInv
    <2> QED
      BY <1>1, <2>1, <2>6, <2>8, <2>9, CountsChanged
  <1> QED
    BY <1>1, <1>2, <1>3, <1>4, <1>5, InvAfter

\* A handle moved into an object, or out of one, refers to what it did.
LEMMA AdoptStep ==
    ASSUME PtrInv, NEW t \in Threads, Adopt(t)
    PROVE  PtrInv'
  <1>0. PICK p \in Objects : /\ p = th[t].e.ptr /\ count[p] = 1 /\ child[p] = NullWord
                             /\ child' = [child EXCEPT ![p] = th[t].h]
                             /\ th' = [th EXCEPT ![t].h = NullWord]
    BY Before, WordTypes DEF Adopt, Frames
  <1>1. Only(t) /\ th'[t] = [th[t] EXCEPT !.h = NullWord]
    BY Before, <1>0 DEF Only, Frames
  <1>2. TypeOK'
    <2>1. th'[t] \in Frames /\ th[t].h \in Words
      BY Before, <1>1, WordTypes DEF Frames
    <2>2. th' \in [Threads -> Frames]
      BY Before, <1>0, <2>1
    <2> QED
      BY Before, <1>0, <2>1, <2>2 DEF Adopt, TypeOK
  <1>3. LockInv'
    BY Before, <1>1, LockKept DEF Adopt, Frames, Holding, Idle
  <1>4. LocalOK(th'[t])
    BY Before, <1>1, SMT DEF Adopt, Frames, LocalOK, Idle
  <1>5. CountInv'
    <2>1. alive' = alive /\ IsFiniteSet(alive) /\ aptr_' = aptr_ /\ count' = count /\ p \in alive
      BY <1>0, SMT DEF Adopt, PtrInv, CountInv
    <2>2. PICK w : w = th[t].h
      OBVIOUS
    <2>3. \A z \in Objects : Inside(z)' = Inside(z) + (IF w.ptr = z THEN 1 ELSE 0)
      <3> SUFFICES ASSUME NEW z \in Objects
                   PROVE  Inside(z)' = Inside(z) + (IF w.ptr = z THEN 1 ELSE 0)
        OBVIOUS
      <3>1. Inside(z)' = Inside(z) - (IF child[p].ptr = z THEN 1 ELSE 0)
                                   + (IF w.ptr = z THEN 1 ELSE 0)
        <4>1. /\ IsFiniteSet(alive) /\ alive \subseteq Objects /\ child \in [Objects -> Words]
              /\ alive' = alive /\ child' = [child EXCEPT ![p] = w] /\ p \in alive
          BY Before, <1>0, <2>1, <2>2
        <4> QED
          BY <4>1, InsidePut, ZenonT(40)
      <3>2. child[p].ptr # z /\ Inside(z) \in Nat
        BY <1>0, NullAssumption, Referenced, SMT DEF NullWord, Word
      <3> QED
        BY <3>1, <3>2, SMT
    <2>4. \A z \in Objects : Own(th[t], z) = Own(th'[t], z) + (IF w.ptr = z THEN 1 ELSE 0)
      BY Before, <1>1, <2>2, NullAssumption, SMT DEF Frames, Own, NullWord, Word
    <2>5. \A z \in Objects : /\ Own(th'[t], z) \in 0..5 /\ Inside(z) \in Nat /\ count[z] \in Nat
      BY Referenced, SMT DEF Own
    <2>6. \A z \in Objects : count'[z] = count[z] + (Own(th'[t], z) - Own(th[t], z))
                                                  + (Inside(z)' - Inside(z))
      BY <2>1, <2>3, <2>4, <2>5, SMT
    <2>7. \A z \in Objects : /\ z \notin alive' => child'[z] = NullWord
                             /\ z \in alive' <=> count'[z] > 0
      BY Before, <1>0, <2>1 DEF PtrInv, CountInv
    <2> QED
      BY <1>1, <2>1, <2>6, <2>7, CountsChanged
  <1> QED
    BY <1>1, <1>2, <1>3, <1>4, <1>5, InvAfter

\* h = move(h->child) empties the child of an object nobody else owns.
LEMMA MoveAssignStep ==
    ASSUME PtrInv, NEW t \in Threads, MoveAssign(t)
    PROVE  PtrInv'
  <1>0. PICK p \in Objects :
          /\ p = th[t].h.ptr /\ count[p] = 1
          /\ child' = [child EXCEPT ![p] = NullWord]
          /\ th' = [th EXCEPT ![t].pc = "release", ![t].op = "assign", ![t].h = NullWord,
                              ![t].res = child[p], ![t].pending = p]
    BY Before, WordTypes DEF MoveAssign, Frames
  <1>1. /\ Only(t)
        /\ th'[t] = [th[t] EXCEPT !.pc = "release", !.op = "assign", !.h = NullWord,
                                  !.res = child[p], !.pending = p]
    BY Before, <1>0 DEF Only, Frames
  <1>2. TypeOK'
    <2>1. th'[t] \in Frames
      <3>1. child[p] \in Words /\ NullWord \in Words
        BY Before, WordTypes
      <3> QED
        BY Before, <1>1, <3>1, ZenonT(40) DEF Frames
    <2>2. th' \in [Threads -> Frames]
      BY Before, <1>0, <2>1
    <2> QED
      <3>1. child' \in [Objects -> Words]
        BY Before, <1>0, WordTypes
      <3> QED
        BY Before, <2>2, <3>1 DEF MoveAssign, TypeOK
  <1>3. LockInv'
    <2>1. th'[t].pc = "release"
      BY Before, <1>1, SMT DEF Frames
    <2>2. aptr_' = aptr_ /\ locked' = locked
      BY DEF MoveAssign
    <2>3. th'[t].pc \notin Holding
      BY <2>1 DEF Holding
    <2> QED
      BY <1>1, <2>2, <2>3, LockKept
  <1>4. LocalOK(th'[t])
    <2>1. /\ th'[t].pc = "release" /\ th'[t].op = "assign" /\ th'[t].h = NullWord
          /\ th'[t].new = NullWord
      BY Before, <1>1, SMT DEF MoveAssign, Frames, LocalOK, Idle
    <2> QED
      BY <2>1 DEF LocalOK
  <1>5. CountInv'
    <2>1. alive' = alive /\ IsFiniteSet(alive) /\ aptr_' = aptr_ /\ count' = count /\ p \in alive
      BY <1>0 DEF MoveAssign, PtrInv, CountInv
    <2>2. PICK w : w = child[p]
      OBVIOUS
    <2>3. \A z \in Objects : Inside(z)' = Inside(z) - (IF w.ptr = z THEN 1 ELSE 0)
      <3> SUFFICES ASSUME NEW z \in Objects
                   PROVE  Inside(z)' = Inside(z) - (IF w.ptr = z THEN 1 ELSE 0)
        OBVIOUS
      <3>1. /\ IsFiniteSet(alive) /\ alive \subseteq Objects /\ child \in [Objects -> Words]
            /\ alive' = alive /\ child' = [child EXCEPT ![p] = NullWord] /\ p \in alive
        BY Before, <1>0, <2>1
      <3>2. Inside(z)' = Inside(z) - (IF child[p].ptr = z THEN 1 ELSE 0)
                                   + (IF NullWord.ptr = z THEN 1 ELSE 0)
        BY <3>1, InsidePut, ZenonT(40)
      <3>3. NullWord.ptr # z /\ Inside(z) \in Nat
        BY NullAssumption, Referenced DEF NullWord, Word
      <3> QED
        BY <2>2, <3>2, <3>3, SMT
    <2>4. \A z \in Objects : Own(th'[t], z) = Own(th[t], z) + (IF w.ptr = z THEN 1 ELSE 0)
      <3>1. /\ th[t].pending = Null /\ th[t].res = NullWord /\ th[t].new = NullWord
            /\ th[t].h.ptr = p
        BY Before, <1>0 DEF MoveAssign, Idle, LocalOK
      <3>2. /\ th'[t].pending = p /\ th'[t].res = w /\ th'[t].h = NullWord
            /\ th'[t].new = NullWord /\ th'[t].e = th[t].e
        BY Before, <1>1, <2>2, <3>1, SMT DEF Frames
      <3>3. \A z \in Objects : NullWord.ptr # z /\ Null # z
        BY NullAssumption DEF NullWord, Word
      <3> QED
        BY <3>1, <3>2, <3>3, SMT DEF Own
    <2>5. \A z \in Objects : /\ Own(th[t], z) \in 0..5 /\ Inside(z) \in Nat /\ count[z] \in Nat
      BY Referenced
    <2>6. \A z \in Objects : count'[z] = count[z] + (Own(th'[t], z) - Own(th[t], z))
                                                  + (Inside(z)' - Inside(z))
      BY <2>1, <2>3, <2>4, <2>5, SMT
    <2>7. \A z \in Objects : /\ z \notin alive' => child'[z] = NullWord
                             /\ z \in alive' <=> count'[z] > 0
      BY Before, <1>0, <2>1 DEF PtrInv, CountInv
    <2> QED
      BY <1>1, <2>1, <2>6, <2>7, CountsChanged
  <1> QED
    BY <1>1, <1>2, <1>3, <1>4, <1>5, InvAfter

\* The end of a call gives up the reference it was about to release, and no
\* other.
LEMMA DoneKeeps ==
    ASSUME NEW r \in Frames, LocalOK(r), r.pc = "release"
    PROVE  /\ Done(r) \in Frames /\ LocalOK(Done(r)) /\ Done(r).pc = "idle"
           /\ \A z \in Objects : Own(Done(r), z) + (IF r.pending = z THEN 1 ELSE 0) = Own(r, z)
  <1>1. PICK w \in Words : w = IF r.op = "assign" THEN r.res ELSE r.h
    BY DEF Frames
  <1>2. Done(r) = [r EXCEPT !.pc = "idle", !.op = "none", !.pending = Null, !.val = NullWord,
                            !.new = NullWord, !.res = NullWord, !.h = w]
    BY <1>1 DEF Done, Frames
  <1>3. Done(r) \in Frames
    BY <1>2, WordTypes, ZenonT(40) DEF Frames
  <1>4. /\ Done(r).pc = "idle" /\ Done(r).op = "none" /\ Done(r).pending = Null
        /\ Done(r).new = NullWord /\ Done(r).res = NullWord /\ Done(r).h = w /\ Done(r).e = r.e
    BY <1>2 DEF Frames
  <1>5. LocalOK(Done(r))
    BY <1>4 DEF LocalOK
  <1>6. \A z \in Objects : Own(Done(r), z) + (IF r.pending = z THEN 1 ELSE 0) = Own(r, z)
    <2> SUFFICES ASSUME NEW z \in Objects
                 PROVE  Own(Done(r), z) + (IF r.pending = z THEN 1 ELSE 0) = Own(r, z)
      OBVIOUS
    <2>0. NullWord.ptr # z /\ Null # z
      BY NullAssumption DEF NullWord, Word
    <2>1. Own(Done(r), z) = (IF w.ptr = z THEN 1 ELSE 0) + (IF r.e.ptr = z THEN 1 ELSE 0)
      BY <1>4, <2>0, SMT DEF Own
    <2>2. Own(r, z) = (IF w.ptr = z THEN 1 ELSE 0) + (IF r.e.ptr = z THEN 1 ELSE 0)
                      + (IF r.pending = z THEN 1 ELSE 0)
      BY <1>1, <2>0, SMT DEF Own, LocalOK
    <2> QED
      BY <2>1, <2>2
  <1> QED
    BY <1>3, <1>4, <1>5, <1>6

\* One DelRef: nothing to release, one reference of several, or the last one,
\* which deletes the object and passes on to the handle inside it.
LEMMA ReleaseStep ==
    ASSUME PtrInv, NEW t \in Threads, Release(t)
    PROVE  PtrInv'
  <1>0. PICK x \in Objects \cup {Null} : x = th[t].pending
    BY Before DEF Frames
  <1>1. th[t].pc = "release" /\ aptr_' = aptr_ /\ locked' = locked
    BY DEF Release
  <1>2. /\ Done(th[t]) \in Frames /\ LocalOK(Done(th[t])) /\ Done(th[t]).pc = "idle"
        /\ \A z \in Objects : Own(Done(th[t]), z) + (IF x = z THEN 1 ELSE 0) = Own(th[t], z)
    BY Before, <1>0, <1>1, DoneKeeps
  <1>3. \A z \in Objects : /\ Own(th[t], z) \in 0..5 /\ Inside(z) \in Nat /\ count[z] \in Nat
                           /\ Own(th[t], z) + Inside(z) <= count[z]
    BY Referenced, SMT
  <1>4. CASE x = Null /\ th' = [th EXCEPT ![t] = Done(th[t])] /\ UNCHANGED <<count, alive, child>>
    <2>1. Only(t) /\ th'[t] = Done(th[t])
      BY Before, <1>4 DEF Only
    <2>2. TypeOK'
      BY Before, <1>1, <1>2, <1>4 DEF TypeOK
    <2>3. LockInv'
      BY <1>1, <1>2, <2>1, LockKept DEF Holding
    <2>4. CountInv'
      <3>1. \A z \in Objects : Own(th'[t], z) + Published(z)' = Own(th[t], z) + Published(z)
        <4>1. \A z \in Objects : x # z
          BY <1>4, NullAssumption
        <4>2. \A z \in Objects : Own(Done(th[t]), z) = Own(th[t], z)
          BY <1>2, <4>1, SMT DEF Own
        <4> QED
          BY <1>1, <2>1, <4>2 DEF Published
      <3> QED
        BY <1>4, <2>1, <3>1, CountsMoved
    <2> QED
      BY <1>2, <2>1, <2>2, <2>3, <2>4, InvAfter
  <1>5. CASE /\ x # Null /\ count[x] > 1 /\ count' = [count EXCEPT ![x] = @ - 1]
             /\ th' = [th EXCEPT ![t] = Done(th[t])] /\ UNCHANGED <<alive, child>>
    <2>1. Only(t) /\ th'[t] = Done(th[t])
      BY Before, <1>5 DEF Only
    <2>2. TypeOK'
      <3>1. count' \in [Objects -> Nat]
        BY Before, <1>0, <1>5, SMT
      <3> QED
        BY Before, <1>1, <1>2, <1>5, <3>1 DEF TypeOK
    <2>3. LockInv'
      BY <1>1, <1>2, <2>1, LockKept DEF Holding
    <2>4. CountInv'
      <3>1. \A z \in Objects : count'[z] = count[z] - (IF x = z THEN 1 ELSE 0)
        BY Before, <1>0, <1>3, <1>5, SMT
      <3>2. \A z \in Objects : Inside(z)' = Inside(z)
        BY <1>5, InsideSame
      <3>3. \A z \in Objects : count'[z] = count[z] + (Own(th'[t], z) - Own(th[t], z))
                                                    + (Inside(z)' - Inside(z))
        <4>1. \A z \in Objects : Own(th'[t], z) \in 0..5
          BY SMT DEF Own
        <4> QED
          BY <1>2, <1>3, <2>1, <3>1, <3>2, <4>1, SMT
      <3>4. /\ IsFiniteSet(alive')
            /\ \A z \in Objects : z \notin alive' => child'[z] = NullWord
        BY <1>5 DEF PtrInv, CountInv
      <3>5. \A z \in Objects : z \in alive <=> count[z] > 0
        BY DEF PtrInv, CountInv
      <3>6. \A z \in Objects : z \in alive' <=> count'[z] > 0
        BY <1>3, <1>5, <3>1, <3>5, SMT
      <3> QED
        BY <1>1, <2>1, <3>3, <3>4, <3>6, CountsChanged
    <2> QED
      BY <1>2, <2>1, <2>2, <2>3, <2>4, InvAfter
  <1>6. CASE /\ x # Null /\ count[x] <= 1 /\ count' = [count EXCEPT ![x] = 0]
             /\ alive' = alive \ {x} /\ child' = [child EXCEPT ![x] = NullWord]
             /\ th' = [th EXCEPT ![t].pending = child[x].ptr]
    <2>0. x \in Objects
      BY <1>0, <1>6
    <2>1. count[x] = 1 /\ x \in alive /\ Inside(x) = 0
      <3>1. Own(th[t], x) >= 1
        BY <1>0, SMT DEF Own
      <3>2. count[x] = 1 /\ Inside(x) = 0
        BY <1>3, <1>6, <2>0, <3>1, SMT
      <3> QED
        BY <2>0, <3>2, SMT DEF PtrInv, CountInv
    <2>2. PICK y \in Objects \cup {Null} : y = child[x].ptr
      BY Before, <2>0, WordTypes
    <2>3. Only(t) /\ th'[t] = [th[t] EXCEPT !.pending = y]
      BY Before, <1>6, <2>2 DEF Only, Frames
    <2>4. TypeOK'
      <3>1. th'[t] \in Frames
        BY Before, <2>3 DEF Frames
      <3>2. th' \in [Threads -> Frames]
        BY Before, <1>6, <3>1
      <3>3. count' \in [Objects -> Nat] /\ alive' \subseteq Objects /\ child' \in [Objects -> Words]
        BY Before, <1>6, WordTypes
      <3> QED
        BY Before, <1>1, <3>2, <3>3 DEF TypeOK
    <2>5. LockInv'
      BY Before, <1>1, <2>3, LockKept DEF Frames, Holding
    <2>6. LocalOK(th'[t])
      <3>1. /\ th'[t].pc = th[t].pc /\ th'[t].op = th[t].op /\ th'[t].h = th[t].h
            /\ th'[t].e = th[t].e /\ th'[t].new = th[t].new /\ th'[t].res = th[t].res
        BY Before, <2>3 DEF Frames
      <3> QED
        BY Before, <1>1, <3>1 DEF LocalOK
    <2>7. CountInv'
      <3>1. IsFiniteSet(alive) /\ \A z \in Objects : /\ z \notin alive => child[z] = NullWord
                                                     /\ z \in alive <=> count[z] > 0
        BY DEF PtrInv, CountInv
      <3>2. IsFiniteSet(alive')
        BY <1>6, <3>1, FS_RemoveElement
      <3>3. \A z \in Objects : Inside(z)' = Inside(z) - (IF y = z THEN 1 ELSE 0)
        <4>1. /\ alive \subseteq Objects /\ child \in [Objects -> Words]
              /\ alive' = alive \ {x} /\ child' = [child EXCEPT ![x] = NullWord]
          BY Before, <1>6
        <4> QED
          BY <2>1, <2>2, <3>1, <4>1, InsideGone
      <3>4. \A z \in Objects : Own(th'[t], z) = Own(th[t], z) - (IF x = z THEN 1 ELSE 0)
                                                              + (IF y = z THEN 1 ELSE 0)
        <4>1. /\ th'[t].pc = th[t].pc /\ th'[t].op = th[t].op /\ th'[t].h = th[t].h
              /\ th'[t].e = th[t].e /\ th'[t].new = th[t].new /\ th'[t].res = th[t].res
              /\ th'[t].pending = y
          BY Before, <2>3 DEF Frames
        <4> QED
          BY <1>0, <4>1, SMT DEF Own
      <3>5. \A z \in Objects : count'[z] = count[z] - (IF x = z THEN 1 ELSE 0)
        BY Before, <1>6, <2>0, <2>1, SMT
      <3>6. \A z \in Objects : count'[z] = count[z] + (Own(th'[t], z) - Own(th[t], z))
                                                    + (Inside(z)' - Inside(z))
        BY <1>3, <3>3, <3>4, <3>5, SMT
      <3>7. \A z \in Objects : /\ z \notin alive' => child'[z] = NullWord
                               /\ z \in alive' <=> count'[z] > 0
        BY Before, <1>6, <2>0, <3>1, SMT
      <3> QED
        BY <1>1, <2>3, <3>2, <3>6, <3>7, CountsChanged
    <2> QED
      BY <2>3, <2>4, <2>5, <2>6, <2>7, InvAfter
  <1> QED
    BY <1>0, <1>4, <1>5, <1>6 DEF Release

-----------------------------------------------------------------------------
(* The theorems.                                                           *)

\* Before the first call nothing exists and nothing is referred to.
LEMMA PtrInit == Init => PtrInv
  <1> SUFFICES ASSUME Init
               PROVE  PtrInv
    OBVIOUS
  <1>1. \A t \in Threads :
          th[t] = [pc |-> "idle", op |-> "none", h |-> NullWord, e |-> NullWord,
                   val |-> NullWord, new |-> NullWord, res |-> NullWord, pending |-> Null]
    BY DEF Init
  <1>2. TypeOK
    <2>1. \A t \in Threads : th[t] \in Frames
      BY <1>1, WordTypes, SMT DEF Frames
    <2>2. th \in [Threads -> Frames]
      BY <2>1 DEF Init
    <2> QED
      BY <2>2, WordTypes DEF Init, TypeOK
  <1>3. LockInv
    BY <1>1, SMT DEF LockInv, Holding
  <1>4. \A t \in Threads : LocalOK(th[t])
    BY <1>1, SMT DEF LocalOK
  <1>5. CountInv
    <2>1. IsFiniteSet(alive) /\ alive = {}
      BY FS_EmptySet DEF Init
    <2>2. \A x \in Objects : Held(x) = 0
      <3> SUFFICES ASSUME NEW x \in Objects
                   PROVE  Held(x) = 0
        OBVIOUS
      <3>1. NullWord.ptr # x /\ Null # x
        BY NullAssumption DEF NullWord, Word
      <3>2. /\ {t \in Threads : th[t].h.ptr = x} = {}
            /\ {t \in Threads : th[t].e.ptr = x} = {}
            /\ {t \in Threads :
                 th[t].new.ptr = x /\ (th[t].op = "store" \/ th[t].pc = "publish")} = {}
            /\ {t \in Threads : th[t].res.ptr = x} = {}
            /\ {t \in Threads : th[t].pending = x} = {}
            /\ {p \in alive : child[p].ptr = x} = {}
        BY <1>1, <2>1, <3>1, SMT
      <3>3. aptr_.ptr # x
        BY <3>1 DEF Init
      <3>4. Cardinality({}) = 0
        BY FS_EmptySet
      <3>5. /\ Cardinality({t \in Threads : th[t].h.ptr = x}) = 0
            /\ Cardinality({t \in Threads : th[t].e.ptr = x}) = 0
            /\ Cardinality({t \in Threads :
                 th[t].new.ptr = x /\ (th[t].op = "store" \/ th[t].pc = "publish")}) = 0
            /\ Cardinality({t \in Threads : th[t].res.ptr = x}) = 0
            /\ Cardinality({t \in Threads : th[t].pending = x}) = 0
            /\ Cardinality({p \in alive : child[p].ptr = x}) = 0
        BY <3>2, <3>4, Zenon
      <3> QED
        BY <3>3, <3>5, SMT DEF Held
    <2>3. \A x \in Objects : count[x] = 0 /\ child[x] = NullWord
      BY DEF Init
    <2> QED
      BY <2>1, <2>2, <2>3, SMT DEF CountInv
  <1> QED
    BY <1>2, <1>3, <1>4, <1>5 DEF PtrInv

\* Every step of every thread keeps the invariant.
LEMMA PtrStep == PtrInv /\ [Next]_vars => PtrInv'
  <1> SUFFICES ASSUME PtrInv, [Next]_vars
               PROVE  PtrInv'
    OBVIOUS
  <1>1. CASE UNCHANGED vars
    <2>0. /\ aptr_' = aptr_ /\ locked' = locked /\ count' = count /\ alive' = alive
          /\ child' = child /\ th' = th
      BY <1>1 DEF vars
    <2>1. TypeOK' /\ LockInv' /\ \A t \in Threads : LocalOK(th'[t])
      BY <2>0 DEF PtrInv, TypeOK, LockInv
    <2>2. \A x \in Objects : Held(x)' = Held(x)
      BY <2>0 DEF Held
    <2>3. CountInv'
      BY <2>0, <2>2 DEF PtrInv, CountInv
    <2> QED
      BY <2>1, <2>3 DEF PtrInv
  <1>2. CASE Next
    <2>1. PICK t \in Threads : Step(t) \/ Start(t)
      BY <1>2 DEF Next
    <2>2. CASE Spin(t)
      BY <1>1, <2>2 DEF Spin
    <2>3. CASE Step(t) /\ ~Spin(t)
      BY <2>3, ReleaseStep, LookStep, TryLockStep, TryLockFailsStep, LoadHeldStep,
         LoadUnlockStep, PublishStep, CasMatchesStep, CasDiffersStep, CasUnlockStep DEF Step
    <2>4. CASE Start(t)
      BY <2>4, DropStep, MakeStep, CopyStep, AdoptStep, SwapStep, CopyAssignStep,
         MoveAssignStep, LoadStep, StoreStep, CompareExchangeStep DEF Start
    <2> QED
      BY <2>1, <2>2, <2>3, <2>4
  <1> QED
    BY <1>1, <1>2

\* The locals of every call are as the invariant says, for every schedule.
THEOREM PtrInvariant == Spec => []PtrInv
  <1>1. Init => PtrInv
    BY PtrInit
  <1>2. PtrInv /\ [Next]_vars => PtrInv'
    BY PtrStep
  <1> QED
    BY <1>1, <1>2, PTL DEF Spec

\* At every step of every call the count of an object is the number of handles,
\* of pending releases and of words that refer to it; it is deleted when that
\* becomes zero and not before; and the release of the old occupant after a
\* successful compare_exchange_strong() never deletes it, because expected
\* still refers to it.
THEOREM PtrCorrect == Spec => []CountsExact
  <1>1. PtrInv => CountsExact
    <2> SUFFICES ASSUME PtrInv
                 PROVE  CountsExact
      OBVIOUS
    <2>1. ASSUME NEW t \in Threads, th[t].op = "cas", th[t].pc = "publish", aptr_.ptr # Null
          PROVE  th[t].e.ptr = aptr_.ptr /\ count[aptr_.ptr] > 1
      <3>1. th[t].val = aptr_ /\ th[t].val = th[t].e
        BY <2>1, Before DEF PtrInv, LockInv, Holding, LocalOK
      <3>2. PICK x \in Objects : x = aptr_.ptr
        BY <2>1, Before, WordTypes
      <3>3. th[t].e.ptr = x /\ aptr_.ptr = x
        BY <3>1, <3>2
      <3>4. Own(th[t], x) >= 1 /\ Published(x) = 1
        BY <3>3, SMT DEF Own, Published
      <3>5. count[x] > 1
        BY <3>4, Referenced, SMT
      <3> QED
        BY <3>1, <3>2, <3>5
    <2> QED
      BY <2>1 DEF PtrInv, CountInv, CountsExact
  <1> QED
    BY <1>1, PtrInvariant, PTL
=============================================================================
