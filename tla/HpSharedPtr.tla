------------------------------ MODULE HpSharedPtr -----------------------------
(***************************************************************************)
(* One atomic word of intr_shared_ptr_hp (IntrSharedPtr/                   *)
(* intr_shared_ptr_hp.h), the pointees' counts (intr_pointee.h) and        *)
(* threads that load, store and exchange through it.  mm_hp's hazard       *)
(* records and scan are external and modelled from how the header uses     *)
(* them.  Addresses are reused, so every step is exposed to ABA.           *)
(*                                                                         *)
(* Weak memory: `hist' is the modification order of the word.  A plain     *)
(* read returns any entry from the thread's `view' on; `acq' is the newest *)
(* entry whose publication the thread synchronised with, by an acquire     *)
(* read or through a count.  Exchanges read and replace the newest entry.  *)
(* A scan's heavy fence makes every hazard stored before it visible and    *)
(* lifts every thread's view to the scanner's.                             *)
(***************************************************************************)
EXTENDS Integers, Sequences, FiniteSets

CONSTANTS Threads, Objects, Null,
          Plans,         \* per thread: which calls it makes
          MaxStores      \* bound: changes of the word

ASSUME NullAssumption == Null \notin Objects
ASSUME PlansAssumption ==
    Plans \subseteq [Threads -> SUBSET {"make", "copy", "walk", "load", "store", "strong", "weak"}]
ASSUME StoresAssumption == MaxStores \in Nat

VARIABLES plan,     \* the calls of each thread, which never change
          hist,     \* the words aptr_ held, oldest first: pointer and mark
          count,    \* per object: its reference count
          cv,       \* per object: `acq' released through its count
          status,   \* per object: "free", "alive" or "retired"
          born,     \* per object: index in hist of its first publication
          lv,       \* `acq' released through mm_hp's retired list
          judged,   \* objects LockFreeList::~Node found exclusive
          th        \* per thread: pc, handles, hazard record, locals

vars == <<plan, hist, count, cv, status, born, lv, judged, th>>

Word(p, m) == [ptr |-> p, mark |-> m]
NullWord == Word(Null, FALSE)
Newest == Len(hist)
Unborn == MaxStores + 2
Larger(a, b) == IF a > b THEN a ELSE b

Init ==
    /\ plan \in Plans
    /\ hist = <<NullWord>>
    /\ count = [x \in Objects |-> 0]
    /\ cv = [x \in Objects |-> 1]
    /\ status = [x \in Objects |-> "free"]
    /\ born = [x \in Objects |-> Unborn]
    /\ lv = 1
    /\ judged = {}
    /\ th = [t \in Threads |->
              [pc |-> "idle", op |-> "none", h |-> NullWord, e |-> NullWord,
               word |-> NullWord, new |-> NullWord, orig |-> NullWord,
               old |-> Null, hz |-> Null, doomed |-> {}, then |-> "idle",
               view |-> 1, acq |-> 1]]

Idle(t) == th[t].pc = "idle"

(* The thread's record with its call's locals reset.                       *)
Cleared(r) ==
    [r EXCEPT !.pc = "idle", !.op = "none", !.word = NullWord, !.new = NullWord,
              !.orig = NullWord, !.old = Null, !.hz = Null]

Synchronise(r, i) ==
    [r EXCEPT !.acq = Larger(@, i), !.view = Larger(r.view, i)]

-----------------------------------------------------------------------------
(* Counts and disposal.                                                    *)

AddRef(x) == IF x = Null THEN count ELSE [count EXCEPT ![x] = @ + 1]

(* mm_hp's scan, inside a retire() that reaches the threshold: it takes    *)
(* the whole retired list and keeps what a hazard record protects.         *)
Scan(t, r, retired) ==
    LET s == Synchronise(r, lv)
        safe == {x \in retired :
                   \A u \in Threads : th[u].hz # x /\ x \notin th[u].doomed}
    IN  [u \in Threads |->
            IF u = t THEN [s EXCEPT !.doomed = safe, !.then = r.pc, !.pc = "reclaim"]
            ELSE [th[u] EXCEPT !.view = Larger(@, s.acq)]]

(* release(x): DelRef (acq_rel), and retire() on 1 -> 0.  `r' is the       *)
(* thread's record after it.                                               *)
Release(t, r, x) ==
    IF x = Null
    THEN th' = [th EXCEPT ![t] = r] /\ UNCHANGED <<count, cv, status, lv>>
    ELSE LET s == Synchronise(r, cv[x]) IN
         /\ count' = [count EXCEPT ![x] = @ - 1]
         /\ cv' = [cv EXCEPT ![x] = s.acq]
         /\ IF count[x] > 1
            THEN th' = [th EXCEPT ![t] = s] /\ UNCHANGED <<status, lv>>
            ELSE /\ status' = [status EXCEPT ![x] = "retired"]
                 /\ lv' = Larger(lv, s.acq)
                 /\ \/ th' = [th EXCEPT ![t] = s]
                    \/ th' = Scan(t, s, {y \in Objects : status'[y] = "retired"})

(* The deleters of the objects the scan found unprotected.                 *)
Reclaim(t) ==
    /\ th[t].pc = "reclaim"
    /\ status' = [x \in Objects |-> IF x \in th[t].doomed THEN "free" ELSE status[x]]
    /\ judged' = judged \ th[t].doomed
    /\ th' = [th EXCEPT ![t].pc = th[t].then, ![t].then = "idle", ![t].doomed = {}]
    /\ UNCHANGED <<plan, hist, count, cv, born, lv>>

-----------------------------------------------------------------------------
(* Handles (shared_ptr_type).                                              *)

(* A handle to a new object.                                               *)
Make(t) ==
    /\ Idle(t)
    /\ th[t].h = NullWord
    /\ \E x \in Objects :
        /\ status[x] = "free"
        /\ status' = [status EXCEPT ![x] = "alive"]
        /\ count' = [count EXCEPT ![x] = 1]
        /\ cv' = [cv EXCEPT ![x] = 1]
        /\ born' = [born EXCEPT ![x] = Unborn]
        /\ th' = [th EXCEPT ![t].h = Word(x, FALSE)]
    /\ UNCHANGED <<plan, hist, lv, judged>>

(* A copy of the handle, to be expected by an exchange.                    *)
Copy(t) ==
    /\ Idle(t)
    /\ th[t].e = NullWord
    /\ th[t].h # NullWord
    /\ count' = AddRef(th[t].h.ptr)
    /\ th' = [th EXCEPT ![t].e = th[t].h]
    /\ UNCHANGED <<plan, hist, cv, status, born, lv, judged>>

Drop(t) ==
    /\ Idle(t)
    /\ \/ th[t].h # NullWord /\ Release(t, [th[t] EXCEPT !.h = NullWord], th[t].h.ptr)
       \/ th[t].e # NullWord /\ Release(t, [th[t] EXCEPT !.e = NullWord], th[t].e.ptr)
    /\ UNCHANGED <<plan, hist, born, judged>>

(* LockFreeList::~Node finds its handle to be the only owner; it will      *)
(* dismantle the node and drop it.                                         *)
Judge(t) ==
    /\ Idle(t)
    /\ th[t].h.ptr # Null /\ count[th[t].h.ptr] = 1
    /\ judged' = judged \cup {th[t].h.ptr}
    /\ th' = [th EXCEPT ![t].pc = "walk"]
    /\ UNCHANGED <<plan, hist, count, cv, status, born, lv>>

Walk(t) ==
    /\ th[t].pc = "walk"
    /\ Release(t, [th[t] EXCEPT !.pc = "idle", !.h = NullWord], th[t].h.ptr)
    /\ UNCHANGED <<plan, hist, born, judged>>

-----------------------------------------------------------------------------
(* load().                                                                 *)

(* A reload of the word, acquire, that returns entry i.                    *)
Reloaded(r, i) == [r EXCEPT !.view = i, !.acq = Larger(@, i), !.word = hist[i]]

(* adopt_word: the call's own end, or back in compare_exchange().          *)
Loaded(r) ==
    IF r.op = "load" THEN [Cleared(r) EXCEPT !.h = r.word]
    ELSE [r EXCEPT !.pc = "assign", !.hz = Null]

(* A null word is returned, another one is to be protected.                *)
Protecting(r) ==
    IF r.word.ptr = Null THEN Loaded(r) ELSE [r EXCEPT !.pc = "aim"]

Load(t) ==
    /\ Idle(t)
    /\ th[t].h = NullWord
    /\ th' = [th EXCEPT ![t].pc = "load", ![t].op = "load"]
    /\ UNCHANGED <<plan, hist, count, cv, status, born, lv, judged>>

(* Step 1, with the weakest order a caller may pass.                       *)
FirstRead(t) ==
    /\ th[t].pc = "load"
    /\ \E i \in th[t].view..Newest :
        th' = [th EXCEPT ![t] = Protecting([th[t] EXCEPT !.view = i, !.word = hist[i]])]
    /\ UNCHANGED <<plan, hist, count, cv, status, born, lv, judged>>

(* Steps 2 and 3.                                                          *)
Reset_protection(t) ==
    /\ th[t].pc = "aim"
    /\ th' = [th EXCEPT ![t].pc = "check", ![t].hz = th[t].word.ptr]
    /\ UNCHANGED <<plan, hist, count, cv, status, born, lv, judged>>

(* make_hazard_pointer() throws bad_alloc: the call ends, nothing is kept. *)
Bad_alloc(t) ==
    /\ th[t].pc = "aim"
    /\ th[t].hz = Null
    /\ th' = [th EXCEPT ![t] = Cleared(th[t])]
    /\ UNCHANGED <<plan, hist, count, cv, status, born, lv, judged>>

\* Mutant: the word is not validated after the hazard is published.
ValidateNot(t) ==
    /\ th[t].pc = "check"
    /\ th' = [th EXCEPT ![t].pc = "try"]
    /\ UNCHANGED <<plan, hist, count, cv, status, born, lv, judged>>

(* Step 4.                                                                 *)
Validate(t) ==
    /\ th[t].pc = "check"
    /\ \E i \in th[t].view..Newest :
        LET r == Reloaded(th[t], i) IN
        th' = [th EXCEPT ![t] = IF r.word.ptr = th[t].word.ptr
                               THEN [r EXCEPT !.pc = "try"] ELSE Protecting(r)]
    /\ UNCHANGED <<plan, hist, count, cv, status, born, lv, judged>>

\* Mutant: the increment does not acquire.
TryAddRefRelaxed(t) ==
    /\ th[t].pc = "try"
    /\ count[th[t].word.ptr] # 0
    /\ th' = [th EXCEPT ![t].pc = "recheck"]
    /\ count' = [count EXCEPT ![th[t].word.ptr] = @ + 1]
    /\ UNCHANGED <<plan, hist, cv, status, born, lv, judged>>

(* Step 5: the count was not zero.                                         *)
TryAddRef(t) ==
    /\ th[t].pc = "try"
    /\ count[th[t].word.ptr] # 0
    /\ th' = [th EXCEPT ![t] = [Synchronise(th[t], cv[th[t].word.ptr]) EXCEPT !.pc = "recheck"]]
    /\ count' = [count EXCEPT ![th[t].word.ptr] = @ + 1]
    /\ UNCHANGED <<plan, hist, cv, status, born, lv, judged>>

\* Mutant: the zero is read relaxed.
TryAddRefZeroRelaxed(t) ==
    /\ th[t].pc = "try"
    /\ count[th[t].word.ptr] = 0
    /\ \E i \in th[t].view..Newest :
        th' = [th EXCEPT ![t] = Protecting(Reloaded(th[t], i))]
    /\ UNCHANGED <<plan, hist, count, cv, status, born, lv, judged>>

(* It was zero, read with acquire, and the word is read again.             *)
TryAddRefZero(t) ==
    /\ th[t].pc = "try"
    /\ count[th[t].word.ptr] = 0
    /\ LET s == Synchronise(th[t], cv[th[t].word.ptr]) IN
       \E i \in s.view..Newest :
        th' = [th EXCEPT ![t] = Protecting(Reloaded(s, i))]
    /\ UNCHANGED <<plan, hist, count, cv, status, born, lv, judged>>

(* Step 6: the reference is kept if the word still names the object; the   *)
(* hazard record is given back first if it is not.                         *)
Revalidate(t) ==
    /\ th[t].pc = "recheck"
    /\ \E i \in th[t].view..Newest :
        LET r == Reloaded(th[t], i) IN
        th' = [th EXCEPT ![t] =
                IF r.word.ptr = th[t].word.ptr THEN Loaded(r)
                ELSE [r EXCEPT !.pc = "undo", !.hz = Null, !.old = th[t].word.ptr]]
    /\ UNCHANGED <<plan, hist, count, cv, status, born, lv, judged>>

(* The reference just taken is released; the loop goes on with the word.   *)
Undo(t) ==
    /\ th[t].pc = "undo"
    /\ Release(t, Protecting([th[t] EXCEPT !.old = Null]), th[t].old)
    /\ UNCHANGED <<plan, hist, born, judged>>

-----------------------------------------------------------------------------
(* store() and compare_exchange().                                         *)

\* Mutant: the word's reference is not counted before it is published.
PrecountNot(t, o, new, w) ==
    /\ count' = count
    /\ th' = [th EXCEPT ![t].pc = "swap", ![t].op = o, ![t].orig = w, ![t].new = new]
    /\ UNCHANGED <<plan, hist, cv, status, born, lv, judged>>

(* The word's reference to the desired pointee is counted first.           *)
Precount(t, o, new, w) ==
    /\ count' = AddRef(new.ptr)
    /\ th' = [th EXCEPT ![t].pc = "swap", ![t].op = o, ![t].orig = w, ![t].new = new]
    /\ UNCHANGED <<plan, hist, cv, status, born, lv, judged>>

(* What the caller may pass as desired: null, or its handle, marked or     *)
(* not; in an exchange also the very handle it passes as expected.         *)
Desired(t) == {NullWord} \cup {Word(th[t].h.ptr, m) : m \in BOOLEAN}

Store(t) == Idle(t) /\ \E w \in Desired(t) : Precount(t, "store", w, NullWord)
CompareExchange(t) ==
    /\ Idle(t)
    /\ \E o \in plan[t] \cap {"strong", "weak"}, w \in Desired(t) \cup {th[t].e} :
        Precount(t, o, w, th[t].e)

(* The exchange, or the successful compare-exchange: acq_rel.              *)
Swap(t) ==
    /\ th[t].pc = "swap"
    /\ th[t].op # "store" => hist[Newest] = th[t].orig
    /\ hist' = Append(hist, th[t].new)
    /\ born' = [x \in Objects |->
                 IF x = th[t].new.ptr /\ born[x] = Unborn THEN Newest + 1 ELSE born[x]]
    /\ th' = [th EXCEPT ![t] = [Synchronise(th[t], Newest + 1) EXCEPT
                                !.pc = "old", !.old = hist[Newest].ptr]]
    /\ UNCHANGED <<plan, count, cv, status, lv, judged>>

(* The old occupant is released after it is unpublished.                   *)
ReleaseOld(t) ==
    /\ th[t].pc = "old"
    /\ Release(t, Cleared(th[t]), th[t].old)
    /\ UNCHANGED <<plan, hist, born, judged>>

(* The compare-exchange fails: the pre-count is undone and `expected'      *)
(* refreshed by load().                                                    *)
SwapFails(t) ==
    /\ th[t].pc = "swap"
    /\ th[t].op # "store"
    /\ hist[Newest] # th[t].orig
    /\ Release(t, [Synchronise(th[t], Newest) EXCEPT !.pc = "load"], th[t].new.ptr)
    /\ UNCHANGED <<plan, hist, born, judged>>

(* expected = move(current).  The strong form tries again when the word is *)
(* what was expected after all; its pre-count starts the next attempt.     *)
Assign(t) ==
    /\ th[t].pc = "assign"
    /\ LET r == [th[t] EXCEPT !.e = th[t].word, !.word = NullWord] IN
       Release(t, IF r.op = "strong" /\ r.e = r.orig
                  THEN [r EXCEPT !.pc = "retry"] ELSE Cleared(r), th[t].e.ptr)
    /\ UNCHANGED <<plan, hist, born, judged>>

Retry(t) ==
    /\ th[t].pc = "retry"
    /\ count' = AddRef(th[t].new.ptr)
    /\ th' = [th EXCEPT ![t].pc = "swap"]
    /\ UNCHANGED <<plan, hist, cv, status, born, lv, judged>>

-----------------------------------------------------------------------------
LoadStep(t) ==
    \/ FirstRead(t) \/ Reset_protection(t) \/ Bad_alloc(t) \/ Validate(t) \/ TryAddRef(t)
    \/ TryAddRefZero(t) \/ Revalidate(t) \/ Undo(t)

Step(t) ==
    \/ LoadStep(t) \/ Reclaim(t) \/ Walk(t) \/ Swap(t) \/ ReleaseOld(t)
    \/ SwapFails(t) \/ Assign(t) \/ Retry(t)

(* Bound: the word is not changed more often than MaxStores.               *)
MayStore ==
    Newest + Cardinality({u \in Threads : th[u].op \in {"store", "strong", "weak"}})
        <= MaxStores

Start(t) ==
    \/ Drop(t)
    \/ "make" \in plan[t] /\ Make(t)
    \/ "copy" \in plan[t] /\ Copy(t)
    \/ "walk" \in plan[t] /\ Judge(t)
    \/ "load" \in plan[t] /\ Load(t)
    \/ MayStore /\ "store" \in plan[t] /\ Store(t)
    \/ MayStore /\ CompareExchange(t)

Next == \E t \in Threads : Step(t) \/ Start(t)

Spec == Init /\ [][Next]_vars

-----------------------------------------------------------------------------
Words == [ptr : Objects \cup {Null}, mark : BOOLEAN]

TypeOK ==
    /\ hist \in Seq(Words) /\ hist # <<>>
    /\ count \in [Objects -> Nat]
    /\ cv \in [Objects -> 1..Newest]
    /\ status \in [Objects -> {"free", "alive", "retired"}]
    /\ born \in [Objects -> 1..Unborn]
    /\ lv \in 1..Newest
    /\ judged \subseteq Objects
    /\ th \in [Threads ->
        [pc : {"idle", "walk", "load", "aim", "check", "try", "recheck", "undo",
               "swap", "old", "assign", "retry", "reclaim"},
         op : {"none", "load", "store", "strong", "weak"},
         h : Words, e : Words, word : Words, new : Words, orig : Words,
         old : Objects \cup {Null}, hz : Objects \cup {Null},
         doomed : SUBSET Objects,
         then : {"idle", "load", "aim", "assign", "retry"},
         view : 1..Newest, acq : 1..Newest]]
    /\ \A t \in Threads : th[t].acq <= th[t].view

(* The references the threads account for: handles, the pre-counted one of *)
(* the word to be published, the one load() has just taken or gives back,  *)
(* and the old occupant's.                                                 *)
pcOf(t) == IF th[t].pc = "reclaim" THEN th[t].then ELSE th[t].pc
Held(x) ==
    Cardinality({<<t, k>> \in Threads \X (1..5) :
        \/ k = 1 /\ th[t].h.ptr = x
        \/ k = 2 /\ th[t].e.ptr = x
        \/ k = 3 /\ pcOf(t) = "swap" /\ th[t].new.ptr = x
        \/ k = 4 /\ pcOf(t) \in {"recheck", "assign"} /\ th[t].word.ptr = x
        \/ k = 5 /\ th[t].old = x})

(* The count is the number of handles plus the word's own reference, at    *)
(* every step of every operation; an object is retired when and only when  *)
(* nothing refers to it, and never comes back.  A compare-exchange never   *)
(* disposes of anything by itself: undoing the pre-count leaves `desired'  *)
(* an owner, releasing the old occupant leaves `expected' one.             *)
CountsExact ==
    /\ TypeOK
    /\ \A x \in Objects :
        /\ status[x] # "free" => count[x] = Held(x) +
                                   (IF hist[Newest].ptr = x THEN 1 ELSE 0)
        /\ status[x] = "alive" <=> count[x] > 0
    /\ \A t \in Threads : th[t].op \in {"strong", "weak"} =>
        /\ th[t].pc = "swap" /\ th[t].new.ptr # Null => count[th[t].new.ptr] > 1
        /\ th[t].pc = "old" /\ th[t].old # Null => count[th[t].old] > 1

(* load() touches the count only of an object that is not freed, and that  *)
(* it saw constructed, although the address may have been reused since the *)
(* first read; and the owner of a handle, who may dispose of the object,   *)
(* synchronised with its publisher.                                        *)
ProtectedAccess ==
    \A t \in Threads :
        /\ th[t].pc = "try" => /\ status[th[t].word.ptr] # "free"
                              /\ born[th[t].word.ptr] <= th[t].acq
        /\ th[t].h.ptr # Null /\ born[th[t].h.ptr] # Unborn =>
               born[th[t].h.ptr] <= th[t].acq

(* What ~Node relies on: once it found its handle to be the only owner, no *)
(* other thread comes to own the object.                                   *)
JudgedExclusive ==
    \A t \in Threads : \A x \in judged :
        /\ th[t].h.ptr = x => th[t].pc = "walk"
        /\ th[t].e.ptr # x

(* load() does not retry for nothing, although its reloads may be stale: a *)
(* zero count synchronises with the withdrawal of the object, so the word  *)
(* read next names another one, and every retry is paid for by a store.    *)
RetriesAdvance ==
    [][\A t \in Threads :
        th[t].pc = "try" /\ count[th[t].word.ptr] = 0 /\ th'[t].pc # "try" =>
            th'[t].word.ptr # th[t].word.ptr]_vars

=============================================================================
