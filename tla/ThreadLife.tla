------------------------------ MODULE ThreadLife ------------------------------
(***************************************************************************)
(* The life of a Thread (Thread/thread.h): launch(), the start routine the *)
(* new thread runs meanwhile, join, detach, move, swap and destruction.    *)
(*                                                                         *)
(* Sizes are those of ThreadStack: here step 1 fits or does not.  Signals  *)
(* are of two kinds, the seven the start mask leaves open ("fault") and    *)
(* the blockable others ("async").  Calls on one object are not            *)
(* concurrent, as the class requires: each object has one user at a time,  *)
(* which may hand it over.  A call that throws changes nothing and is left *)
(* out, except where noexcept turns the throw into std::terminate().       *)
(***************************************************************************)
EXTENDS Integers, FiniteSets

CONSTANTS Mains,            \* threads the class did not create
          Pthreads,         \* the pthread_t values, reused when free
          Objects, States,  \* Thread objects, and addresses of heap states
          Null,             \* native_handle_type{}
          MaxLaunch         \* bound: constructions

ASSUME NamesAssumption == Null \notin Pthreads \cup States /\ Mains \cap Pthreads = {}
ASSUME LaunchAssumption == MaxLaunch \in Nat

Runners == Mains \cup Pthreads
Signals == {"fault", "async"}
start_mask == {"async"}

VARIABLES handle_, user,    \* per object
          life,             \* per pthread
          detached,
          own,              \* per pthread: the state its start routine owns
          heap,             \* the states that are allocated
          mask,             \* per runner: blocked signals
          th,               \* per runner: the call it is in
          terminated, launches

objects == <<handle_, user>>
threads == <<life, detached, own>>
lifeVars == <<objects, threads, heap, mask, th, terminated, launches>>

Idle == [pc |-> "idle", obj |-> Null, src |-> Null, st |-> Null, rc |-> 0,
         saved |-> {}, before |-> {}, op |-> "none"]

LifeInit ==
    /\ handle_ = [o \in Objects |-> Null]
    /\ user \in [Objects -> Mains]
    /\ life = [p \in Pthreads |-> "none"] /\ detached = {}
    /\ own = [p \in Pthreads |-> Null] /\ heap = {}
    /\ mask \in [Runners -> SUBSET Signals] /\ \A p \in Pthreads : mask[p] = {}
    /\ th = [t \in Runners |-> Idle]
    /\ terminated = FALSE /\ launches = 0

Set(t, r) == th' = [th EXCEPT ![t] = r]
At(t, pc) == ~terminated /\ th[t].pc = pc
(* Thread t runs the program's code, and may call object o.                *)
Awake(t) == t \in Pthreads => life[t] = "running"
MayUse(t, o) == At(t, "idle") /\ user[o] = t /\ Awake(t)

-----------------------------------------------------------------------------
(* launch().  Step 1 may throw, which only counts as a construction here.  *)

Launch(t, o) ==
    /\ MayUse(t, o) /\ handle_[o] = Null /\ launches < MaxLaunch
    /\ launches' = launches + 1
    /\ \/ Set(t, [Idle EXCEPT !.pc = "copy", !.obj = o, !.before = mask[t]])
       \/ UNCHANGED th      \* AttrOwner throws EINVAL
    /\ UNCHANGED <<objects, threads, heap, mask, terminated>>

(* Step 3: the copies and the stagger number, or an exception.             *)
CopyState(t) ==
    /\ At(t, "copy")
    /\ \/ \E s \in States \ heap :
            /\ heap' = heap \cup {s}
            /\ Set(t, [th[t] EXCEPT !.pc = "block", !.st = s])
       \/ heap' = heap /\ Set(t, Idle)
    /\ UNCHANGED <<objects, threads, mask, terminated, launches>>

(* Step 4, in a CreationMaskScope.                                         *)
Block(t) ==
    /\ At(t, "block")
    /\ mask' = [mask EXCEPT ![t] = @ \cup start_mask]
    /\ Set(t, [th[t] EXCEPT !.pc = "create", !.saved = mask[t]])
    /\ UNCHANGED <<objects, threads, heap, terminated, launches>>

(* pthread_create() writes the handle, before the new thread starts or     *)
(* although it fails.                                                      *)
Create(t) ==
    /\ At(t, "create")
    /\ \E p \in Pthreads :
        /\ handle_' = [handle_ EXCEPT ![th[t].obj] = p]
        /\ \/ /\ life[p] = "none"
              /\ life' = [life EXCEPT ![p] = "created"]
              /\ own' = [own EXCEPT ![p] = th[t].st]
              /\ mask' = [mask EXCEPT ![p] = mask[t]]
              /\ Set(t, [th[t] EXCEPT !.pc = "restore"])
           \/ /\ Set(t, [th[t] EXCEPT !.pc = "restore", !.rc = 1])
              /\ UNCHANGED <<life, own, mask>>
    /\ UNCHANGED <<user, detached, heap, terminated, launches>>

(* ~CreationMaskScope().                                                   *)
Restore(t) ==
    /\ At(t, "restore")
    /\ mask' = [mask EXCEPT ![t] = th[t].saved]
    /\ Set(t, [th[t] EXCEPT !.pc = "finish"])
    /\ UNCHANGED <<objects, threads, heap, terminated, launches>>

(* The state is released to the new thread, which may be gone with it.     *)
Finish(t) ==
    /\ At(t, "finish") /\ th[t].rc = 0
    /\ Set(t, Idle)
    /\ UNCHANGED <<objects, threads, heap, mask, terminated, launches>>
FinishFails(t) ==
    /\ At(t, "finish") /\ th[t].rc # 0
    /\ handle_' = [handle_ EXCEPT ![th[t].obj] = Null]
    /\ heap' = heap \ {th[t].st}
    /\ Set(t, Idle)
    /\ UNCHANGED <<user, threads, mask, terminated, launches>>

-----------------------------------------------------------------------------
(* start_routine(), in the new thread p.                                   *)

SetMask(p) ==
    /\ ~terminated /\ life[p] = "created"
    /\ life' = [life EXCEPT ![p] = "running"]
    /\ mask' = [mask EXCEPT ![p] = start_mask]
    /\ UNCHANGED <<objects, detached, own, heap, th, terminated, launches>>
(* The callable unblocks what it needs.                                    *)
Unblock(p) ==
    /\ At(p, "idle") /\ life[p] = "running" /\ mask[p] # {}
    /\ mask' = [mask EXCEPT ![p] = {}]
    /\ UNCHANGED <<objects, threads, heap, th, terminated, launches>>
(* The callable returns, or calls pthread_exit(): the copies are destroyed. *)
(* The objects it used are the program's to use.                           *)
Returns(p) ==
    /\ At(p, "idle") /\ life[p] = "running"
    /\ heap' = heap \ {own[p]}
    /\ own' = [own EXCEPT ![p] = Null]
    /\ life' = [life EXCEPT ![p] = "returned"]
    /\ \E t \in Mains : user' = [o \in Objects |-> IF user[o] = p THEN t ELSE user[o]]
    /\ UNCHANGED <<handle_, detached, mask, th, terminated, launches>>
(* An exception escapes the callable: the copies are not destroyed.        *)
Throw(p) ==
    /\ At(p, "idle") /\ life[p] = "running"
    /\ terminated' = TRUE
    /\ UNCHANGED <<objects, threads, heap, mask, th, launches>>
(* The thread ends; nobody waits for a detached one.                       *)
End(p) ==
    /\ ~terminated /\ life[p] = "returned"
    /\ life' = [life EXCEPT ![p] = IF p \in detached THEN "none" ELSE "ended"]
    /\ detached' = detached \ {p}
    /\ UNCHANGED <<objects, own, heap, mask, th, terminated, launches>>

-----------------------------------------------------------------------------
(* join(), ~Thread() and operator=() on a joinable object.                 *)

\* Mutant: nothing is checked.
DeadlockUnseen(t, p) == FALSE
(* The test of join(): the thread itself.                                  *)
Deadlock(t, p) == p = t
(* pthread_join() may refuse to wait for a thread that waits for the       *)
(* caller.  It looks before it waits, so it may miss one; it never looks   *)
(* for a longer cycle.                                                     *)
MayRefuse(t, p) == /\ t \in Pthreads /\ th[p].pc = "join"
                   /\ handle_[th[p].obj] = t

JoinCall(t, o, op, src) ==
    /\ MayUse(t, o) /\ handle_[o] # Null /\ ~Deadlock(t, handle_[o])
    /\ Set(t, [Idle EXCEPT !.pc = "join", !.obj = o, !.op = op, !.src = src,
                           !.before = mask[t]])
    /\ UNCHANGED <<objects, threads, heap, mask, terminated, launches>>
Join(t, o) == JoinCall(t, o, "join", Null)
Destroy(t, o) == JoinCall(t, o, "destroy", Null)
(* In a noexcept function the failed join terminates.                      *)
JoinTerminates(t, o) ==
    /\ MayUse(t, o) /\ handle_[o] # Null
    /\ Deadlock(t, handle_[o]) \/ MayRefuse(t, handle_[o])
    /\ terminated' = TRUE
    /\ UNCHANGED <<objects, threads, heap, mask, th, launches>>

Exchanged(o, src) == [handle_ EXCEPT ![o] = handle_[src], ![src] = Null]

(* pthread_join() returns, the handle is reset, and operator=() goes on.   *)
JoinDone(t) ==
    /\ At(t, "join") /\ life[handle_[th[t].obj]] = "ended"
    /\ LET o == th[t].obj IN
        /\ life' = [life EXCEPT ![handle_[o]] = "none"]
        /\ handle_' = IF th[t].op = "assign" THEN Exchanged(o, th[t].src)
                      ELSE [handle_ EXCEPT ![o] = Null]
    /\ Set(t, Idle)
    /\ UNCHANGED <<user, detached, own, heap, mask, terminated, launches>>

\* Mutant: the source keeps its handle.
MoveCopies(t, o, src) ==
    /\ MayUse(t, o) /\ user[src] = t /\ o # src /\ handle_[o] = Null
    /\ handle_' = [handle_ EXCEPT ![o] = handle_[src]]
    /\ UNCHANGED <<user, threads, heap, mask, th, terminated, launches>>
(* The move constructor, and operator=() on an object that owns nothing.   *)
Move(t, o, src) ==
    /\ MayUse(t, o) /\ user[src] = t /\ o # src /\ handle_[o] = Null
    /\ handle_' = Exchanged(o, src)
    /\ UNCHANGED <<user, threads, heap, mask, th, terminated, launches>>
MoveAssign(t, o, src) == user[src] = t /\ o # src /\ JoinCall(t, o, "assign", src)

Swap(t, o, other) ==
    /\ MayUse(t, o) /\ user[other] = t
    /\ handle_' = [handle_ EXCEPT ![o] = handle_[other], ![other] = handle_[o]]
    /\ UNCHANGED <<user, threads, heap, mask, th, terminated, launches>>

Detach(t, o) ==
    /\ MayUse(t, o) /\ handle_[o] # Null
    /\ life' = [p \in Pthreads |-> IF p = handle_[o] /\ life[p] = "ended" THEN "none" ELSE life[p]]
    /\ detached' = (detached \cup {handle_[o]}) \ {p \in Pthreads : life[p] = "ended"}
    /\ handle_' = [handle_ EXCEPT ![o] = Null]
    /\ UNCHANGED <<user, own, heap, mask, th, terminated, launches>>

(* The program hands an object to another thread, synchronized.            *)
Give(t, o, u) ==
    /\ MayUse(t, o) /\ u # t /\ Awake(u)
    /\ user' = [user EXCEPT ![o] = u]
    /\ UNCHANGED <<handle_, threads, heap, mask, th, terminated, launches>>

-----------------------------------------------------------------------------
Constructs(t) == CopyState(t) \/ Block(t) \/ Create(t) \/ Restore(t) \/ Finish(t) \/ FinishFails(t)
Runs(p) == SetMask(p) \/ Returns(p) \/ End(p)
Calls(t, o) ==
    \/ Launch(t, o) \/ Join(t, o) \/ Destroy(t, o) \/ JoinTerminates(t, o) \/ Detach(t, o)
    \/ \E src \in Objects : Move(t, o, src) \/ MoveAssign(t, o, src) \/ Swap(t, o, src)
    \/ \E u \in Runners : Give(t, o, u)

LifeNext ==
    \/ \E t \in Runners : Constructs(t) \/ JoinDone(t) \/ \E o \in Objects : Calls(t, o)
    \/ \E p \in Pthreads : Runs(p) \/ Unblock(p) \/ Throw(p)
LifeSpec == LifeInit /\ [][LifeNext]_lifeVars
(* Threads are scheduled, and a callable returns that is not kept waiting. *)
LifeFairness ==
    /\ \A t \in Runners : WF_lifeVars(Constructs(t) \/ JoinDone(t))
    /\ \A p \in Pthreads : WF_lifeVars(Runs(p)) /\ SF_lifeVars(Returns(p))
LifeFairSpec == LifeSpec /\ LifeFairness

-----------------------------------------------------------------------------
LifeFrames ==
    [pc : {"idle", "copy", "block", "create", "restore", "finish", "join"},
     obj : Objects \cup {Null}, src : Objects \cup {Null}, st : States \cup {Null},
     rc : 0..1, saved : SUBSET Signals, before : SUBSET Signals,
     op : {"none", "join", "destroy", "assign"}]

(* Types.  In particular only a joinable object's thread is ever detached. *)
LifeTypeOK ==
    /\ handle_ \in [Objects -> Pthreads \cup {Null}] /\ user \in [Objects -> Runners]
    /\ life \in [Pthreads -> {"none", "created", "running", "returned", "ended"}]
    /\ detached \subseteq Pthreads
    /\ own \in [Pthreads -> States \cup {Null}] /\ heap \subseteq States
    /\ mask \in [Runners -> SUBSET Signals]
    /\ th \in [Runners -> LifeFrames]
    /\ terminated \in BOOLEAN /\ launches \in 0..MaxLaunch

Failing(o) == \E t \in Runners : th[t].obj = o /\ th[t].rc # 0

(* Every thread that was started and neither joined nor detached is owned  *)
(* by exactly one Thread object, whatever was moved, swapped and assigned  *)
(* meanwhile; and no object holds the handle of a thread that is gone or   *)
(* detached, which by then may be another thread's.                        *)
OwnedOnce ==
    /\ \A p \in Pthreads : life[p] # "none" /\ p \notin detached =>
        Cardinality({o \in Objects : handle_[o] = p /\ ~Failing(o)}) = 1
    /\ \A o \in Objects : handle_[o] # Null /\ ~Failing(o) =>
        life[handle_[o]] # "none" /\ handle_[o] \notin detached

(* The copies of callable and arguments live exactly as long as the        *)
(* constructor that made them holds them or the thread that runs them has  *)
(* not returned: none is leaked, and none is destroyed under a running     *)
(* callable, although creator and new thread hold one pointer for a while. *)
CopiesExact ==
    LET holds == {t \in Runners : \/ th[t].pc \in {"block", "create"}
                                  \/ th[t].pc \in {"restore", "finish"} /\ th[t].rc # 0}
        runs == {p \in Pthreads : own[p] # Null}
    IN  /\ heap = {th[t].st : t \in holds} \cup {own[p] : p \in runs}
        /\ Cardinality(heap) = Cardinality(holds) + Cardinality(runs)
        /\ \A p \in Pthreads : own[p] # Null <=> life[p] \in {"created", "running"}

(* A new thread blocks the signals of the start mask from its first        *)
(* instruction, whatever mask its creator has.                             *)
MaskedFromStart == \A p \in Pthreads : life[p] = "created" => start_mask \subseteq mask[p]

(* The creator's mask is what it was when the constructor returns or       *)
(* throws, and in between only blocks of the start mask are added.         *)
CreatorMaskKept ==
    \A t \in Runners : ~terminated /\ th[t].pc # "idle" =>
        /\ mask[t] \ start_mask = th[t].before \ start_mask /\ th[t].before \subseteq mask[t]
        /\ th[t].pc \in {"copy", "block", "finish"} => mask[t] = th[t].before

(* Ownership through the whole life of a thread: one Thread object owns    *)
(* the thread, one owner its copied callable and arguments, and neither    *)
(* the creator's signal mask nor the new thread's is ever open to a signal *)
(* it should not be.                                                       *)
OneOwner ==
    LifeTypeOK /\ OwnedOnce /\ CopiesExact /\ MaskedFromStart /\ CreatorMaskKept

(* The calling thread is in, or waits for, a cycle of threads that join    *)
(* each other: all of a group wait for another thread of the group.        *)
InJoinCycle(t) ==
    \E group \in SUBSET Runners :
        /\ t \in group
        /\ \A u \in group : /\ th[u].pc = "join"
                            /\ handle_[th[u].obj] \in group \ {u}

(* A join, destructor or assignment that waits gets its thread's end and   *)
(* returns, if callables return when they are not kept waiting, unless     *)
(* threads join each other in a cycle, which only the program can avoid.   *)
(* No thread ever waits for itself: that cycle join() refuses, whatever    *)
(* moves, swaps and hand-overs brought the thread its own object.          *)
JoinReturns ==
    \A t \in Runners :
        th[t].pc = "join" ~> (th[t].pc # "join" \/ terminated \/ InJoinCycle(t))
=============================================================================
