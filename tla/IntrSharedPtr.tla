----------------------------- MODULE IntrSharedPtr ----------------------------
(***************************************************************************)
(* One atomic word of intr_shared_ptr (IntrSharedPtr/intr_shared_ptr.h):   *)
(* pointer, mark and a spinlock in one word; the pointees' counts; and the *)
(* value handles (intr_shared_ptr_common.h), one of which may live inside  *)
(* a pointee and die with it.  Disposal is immediate: the last release     *)
(* deletes.  The word's critical section is bracketed by an acquire and a  *)
(* release, counts are only changed by read-modify-writes: the newest      *)
(* value is the only one a step can see.                                   *)
(***************************************************************************)
EXTENDS Integers, FiniteSets

CONSTANTS Threads, Objects, Null,
          Calls          \* which calls each thread makes

ASSUME NullAssumption == Null \notin Objects
ASSUME ThreadsAssumption == IsFiniteSet(Threads)
ASSUME CallsAssumption ==
    Calls \in [Threads -> SUBSET {"make", "copy", "adopt", "swap", "assign",
                                  "load", "store", "cas"}]

VARIABLES aptr_,   \* the word: pointer and mark
          locked,  \* its lock bit
          count,   \* per object: references
          alive,   \* the objects that exist
          child,   \* per object: the handle it contains
          th       \* per thread: pc, handles and locals

vars == <<aptr_, locked, count, alive, child, th>>

Word(p, m) == [ptr |-> p, mark |-> m]
NullWord == Word(Null, FALSE)

Init ==
    /\ aptr_ = NullWord
    /\ locked = FALSE
    /\ count = [x \in Objects |-> 0]
    /\ alive = {}
    /\ child = [x \in Objects |-> NullWord]
    /\ th = [t \in Threads |->
              [pc |-> "idle", op |-> "none", h |-> NullWord, e |-> NullWord,
               val |-> NullWord, new |-> NullWord, res |-> NullWord,
               pending |-> Null]]

Idle(t) == th[t].pc = "idle"

AddRef(x) == IF x = Null THEN count ELSE [count EXCEPT ![x] = @ + 1]

-----------------------------------------------------------------------------
(* The value handles.                                                      *)

(* A handle to a new object.                                               *)
Make(t) ==
    /\ Idle(t)
    /\ th[t].h = NullWord
    /\ \E x \in Objects \ alive :
        /\ alive' = alive \cup {x}
        /\ count' = [count EXCEPT ![x] = 1]
        /\ th' = [th EXCEPT ![t].h = Word(x, FALSE)]
    /\ UNCHANGED <<aptr_, locked, child>>

(* e becomes a copy of h, marked or not (copy constructor, set_mark).      *)
Copy(t) ==
    /\ Idle(t)
    /\ th[t].e = NullWord
    /\ count' = AddRef(th[t].h.ptr)
    /\ \E m \in BOOLEAN : th' = [th EXCEPT ![t].e = Word(th[t].h.ptr, m)]
    /\ UNCHANGED <<aptr_, locked, alive, child>>

(* h is moved into the object e owns alone, which has no child yet.        *)
Adopt(t) ==
    /\ Idle(t)
    /\ LET p == th[t].e.ptr IN
       /\ p # Null /\ count[p] = 1 /\ child[p] = NullWord
       /\ th[t].h.ptr # Null /\ child[th[t].h.ptr] = NullWord
       /\ child' = [child EXCEPT ![p] = th[t].h]
       /\ th' = [th EXCEPT ![t].h = NullWord]
    /\ UNCHANGED <<aptr_, locked, count, alive>>

Swap(t) ==
    /\ Idle(t)
    /\ th' = [th EXCEPT ![t].h = th[t].e, ![t].e = th[t].h]
    /\ UNCHANGED <<aptr_, locked, count, alive, child>>

(* ~shared_ptr_type.                                                       *)
Drop(t) ==
    /\ Idle(t)
    /\ \/ /\ th[t].h # NullWord
          /\ th' = [th EXCEPT ![t].pc = "release", ![t].h = NullWord,
                              ![t].pending = th[t].h.ptr]
       \/ /\ th[t].e # NullWord
          /\ th' = [th EXCEPT ![t].pc = "release", ![t].e = NullWord,
                              ![t].pending = th[t].e.ptr]
    /\ UNCHANGED <<aptr_, locked, count, alive, child>>

\* Mutant: the new pointee is not counted before the old one is released.
CopyAssignLate(t) ==
    /\ Idle(t)
    /\ th[t].h.ptr # Null /\ child[th[t].h.ptr] # NullWord
    /\ th' = [th EXCEPT ![t].pc = "release", ![t].op = "assign", ![t].h = NullWord,
                        ![t].res = child[th[t].h.ptr], ![t].pending = th[t].h.ptr]
    /\ UNCHANGED <<aptr_, locked, count, alive, child>>

(* h = h->child: the source is read and counted before the release that    *)
(* may destroy it.                                                         *)
CopyAssign(t) ==
    /\ Idle(t)
    /\ th[t].h.ptr # Null /\ child[th[t].h.ptr] # NullWord
    /\ count' = AddRef(child[th[t].h.ptr].ptr)
    /\ th' = [th EXCEPT ![t].pc = "release", ![t].op = "assign", ![t].h = NullWord,
                        ![t].res = child[th[t].h.ptr], ![t].pending = th[t].h.ptr]
    /\ UNCHANGED <<aptr_, locked, alive, child>>

(* h = move(h->child), of an object no other thread owns.                  *)
MoveAssign(t) ==
    /\ Idle(t)
    /\ th[t].h.ptr # Null /\ count[th[t].h.ptr] = 1 /\ child[th[t].h.ptr] # NullWord
    /\ child' = [child EXCEPT ![th[t].h.ptr] = NullWord]
    /\ th' = [th EXCEPT ![t].pc = "release", ![t].op = "assign", ![t].h = NullWord,
                        ![t].res = child[th[t].h.ptr], ![t].pending = th[t].h.ptr]
    /\ UNCHANGED <<aptr_, locked, count, alive>>

(* The end of a call: the handle assigned to is written.                   *)
Done(r) ==
    [r EXCEPT !.pc = "idle", !.op = "none", !.pending = Null, !.val = NullWord,
              !.new = NullWord, !.res = NullWord,
              !.h = IF r.op = "assign" THEN r.res ELSE @]

(* release(): one DelRef.  The last one deletes, and the deleted object's  *)
(* own handle is released next.                                            *)
Release(t) ==
    /\ th[t].pc = "release"
    /\ LET x == th[t].pending IN
       \/ /\ x = Null
          /\ th' = [th EXCEPT ![t] = Done(th[t])]
          /\ UNCHANGED <<count, alive, child>>
       \/ /\ x # Null /\ count[x] > 1
          /\ count' = [count EXCEPT ![x] = @ - 1]
          /\ th' = [th EXCEPT ![t] = Done(th[t])]
          /\ UNCHANGED <<alive, child>>
       \/ /\ x # Null /\ count[x] <= 1
          /\ count' = [count EXCEPT ![x] = 0]
          /\ alive' = alive \ {x}
          /\ child' = [child EXCEPT ![x] = NullWord]
          /\ th' = [th EXCEPT ![t].pending = child[x].ptr]
    /\ UNCHANGED <<aptr_, locked>>

-----------------------------------------------------------------------------
(* lock(): look until the lock bit is clear, then try to set it.           *)

Spin(t) == th[t].pc = "look" /\ locked /\ UNCHANGED vars

Look(t) ==
    /\ th[t].pc = "look"
    /\ ~locked
    /\ th' = [th EXCEPT ![t].pc = "try", ![t].val = aptr_]
    /\ UNCHANGED <<aptr_, locked, count, alive, child>>

TryLock(t) ==
    /\ th[t].pc = "try"
    /\ aptr_ = th[t].val /\ ~locked
    /\ locked' = TRUE
    /\ th' = [th EXCEPT ![t].pc = "held"]
    /\ UNCHANGED <<aptr_, count, alive, child>>

(* The word changed, or the weak compare-exchange failed for no reason.    *)
TryLockFails(t) ==
    /\ th[t].pc = "try"
    /\ th' = [th EXCEPT ![t].pc = "look", ![t].val = NullWord]
    /\ UNCHANGED <<aptr_, locked, count, alive, child>>

(* unlock(): the store of a word without the lock bit.                     *)
Unlock(w) == aptr_' = w /\ locked' = FALSE

-----------------------------------------------------------------------------
(* load().                                                                 *)

Load(t) ==
    /\ Idle(t)
    /\ th[t].h = NullWord
    /\ th' = [th EXCEPT ![t].pc = "look", ![t].op = "load"]
    /\ UNCHANGED <<aptr_, locked, count, alive, child>>

(* A handle to what the locked word holds.                                 *)
Take(t) ==
    /\ count' = AddRef(th[t].val.ptr)
    /\ th' = [th EXCEPT ![t].pc = "unlock", ![t].res = th[t].val]

LoadHeld(t) ==
    /\ th[t].pc = "held" /\ th[t].op = "load"
    /\ Take(t)
    /\ UNCHANGED <<aptr_, locked, alive, child>>

LoadUnlock(t) ==
    /\ th[t].pc = "unlock" /\ th[t].op = "load"
    /\ Unlock(th[t].val)
    /\ th' = [th EXCEPT ![t] = Done([th[t] EXCEPT !.h = th[t].res])]
    /\ UNCHANGED <<count, alive, child>>

-----------------------------------------------------------------------------
(* store() and compare_exchange_strong().                                  *)

Store(t) ==
    /\ Idle(t)
    /\ count' = AddRef(th[t].h.ptr)
    /\ th' = [th EXCEPT ![t].pc = "look", ![t].op = "store", ![t].new = th[t].h]
    /\ UNCHANGED <<aptr_, locked, alive, child>>

(* The publishing store unlocks; the old occupant is released after it.    *)
Publish(t) ==
    /\ \/ th[t].pc = "held" /\ th[t].op = "store"
       \/ th[t].pc = "publish"
    /\ Unlock(th[t].new)
    /\ th' = [th EXCEPT ![t].pc = "release", ![t].new = NullWord,
                        ![t].pending = th[t].val.ptr]
    /\ UNCHANGED <<count, alive, child>>

CompareExchange(t) ==
    /\ Idle(t)
    /\ th' = [th EXCEPT ![t].pc = "look", ![t].op = "cas", ![t].new = th[t].h]
    /\ UNCHANGED <<aptr_, locked, count, alive, child>>

CasMatches(t) ==
    /\ th[t].pc = "held" /\ th[t].op = "cas"
    /\ th[t].val = th[t].e
    /\ count' = AddRef(th[t].new.ptr)
    /\ th' = [th EXCEPT ![t].pc = "publish"]
    /\ UNCHANGED <<aptr_, locked, alive, child>>

CasDiffers(t) ==
    /\ th[t].pc = "held" /\ th[t].op = "cas"
    /\ th[t].val # th[t].e
    /\ Take(t)
    /\ UNCHANGED <<aptr_, locked, alive, child>>

(* The word is unlocked before expected is replaced and its old pointee    *)
(* released.                                                               *)
CasUnlock(t) ==
    /\ th[t].pc = "unlock" /\ th[t].op = "cas"
    /\ Unlock(th[t].val)
    /\ th' = [th EXCEPT ![t].pc = "release", ![t].e = th[t].res,
                        ![t].res = NullWord, ![t].pending = th[t].e.ptr]
    /\ UNCHANGED <<count, alive, child>>

-----------------------------------------------------------------------------
Step(t) ==
    \/ Release(t) \/ Spin(t) \/ Look(t) \/ TryLock(t) \/ TryLockFails(t)
    \/ LoadHeld(t) \/ LoadUnlock(t) \/ Publish(t) \/ CasMatches(t)
    \/ CasDiffers(t) \/ CasUnlock(t)

Start(t) ==
    \/ Drop(t)
    \/ "make" \in Calls[t] /\ Make(t)
    \/ "copy" \in Calls[t] /\ Copy(t)
    \/ "adopt" \in Calls[t] /\ Adopt(t)
    \/ "swap" \in Calls[t] /\ Swap(t)
    \/ "assign" \in Calls[t] /\ (CopyAssign(t) \/ MoveAssign(t))
    \/ "load" \in Calls[t] /\ Load(t)
    \/ "store" \in Calls[t] /\ Store(t)
    \/ "cas" \in Calls[t] /\ CompareExchange(t)

Next == \E t \in Threads : Step(t) \/ Start(t)

Spec == Init /\ [][Next]_vars

-----------------------------------------------------------------------------
Words == [ptr : Objects \cup {Null}, mark : BOOLEAN]

Frames ==
    [pc : {"idle", "look", "try", "held", "unlock", "publish", "release"},
     op : {"none", "assign", "load", "store", "cas"},
     h : Words, e : Words, val : Words, new : Words, res : Words,
     pending : Objects \cup {Null}]

TypeOK ==
    /\ aptr_ \in Words /\ locked \in BOOLEAN
    /\ count \in [Objects -> Nat]
    /\ alive \subseteq Objects
    /\ child \in [Objects -> Words]
    /\ th \in [Threads -> Frames]

(* The references that exist: handles, those taken for a word to be        *)
(* published or a handle to be assigned, those about to be released.       *)
Held(x) ==
    Cardinality({t \in Threads : th[t].h.ptr = x})
    + Cardinality({t \in Threads : th[t].e.ptr = x})
    + Cardinality({t \in Threads :
        th[t].new.ptr = x /\ (th[t].op = "store" \/ th[t].pc = "publish")})
    + Cardinality({t \in Threads : th[t].res.ptr = x})
    + Cardinality({t \in Threads : th[t].pending = x})
    + Cardinality({p \in alive : child[p].ptr = x})
    + (IF aptr_.ptr = x THEN 1 ELSE 0)

(* The count is the number of references at every step of every call, and  *)
(* an object exists exactly as long as it is positive: nothing is deleted  *)
(* while something refers to it, nothing is left behind.  And, as the      *)
(* comments of compare_exchange_strong() say, releasing the old occupant   *)
(* after a successful exchange never destroys it.                          *)
CountsExact ==
    /\ TypeOK
    /\ \A x \in Objects : count[x] = Held(x) /\ (x \in alive <=> count[x] > 0)
    /\ \A t \in Threads :
          th[t].op = "cas" /\ th[t].pc = "publish" /\ aptr_.ptr # Null =>
              th[t].e.ptr = aptr_.ptr /\ count[aptr_.ptr] > 1

=============================================================================
