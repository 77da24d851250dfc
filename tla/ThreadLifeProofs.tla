--------------------------- MODULE ThreadLifeProofs ---------------------------
(***************************************************************************)
(* Proofs about ThreadLife, for any number of threads, Thread objects and  *)
(* addresses.                                                              *)
(***************************************************************************)
EXTENDS ThreadLife, FiniteSetTheorems, TLAPS

\* The steps are Zenon's, except where SMT is cited.
USE Zenon

-----------------------------------------------------------------------------
(* The inductive invariant.                                                *)

\* A call is made by the user of its objects, who stays the user and does not
\* return meanwhile; and what it has found out about them is still so.
CallOK(t) ==
    /\ th[t].pc # "idle" => /\ th[t].obj \in Objects /\ user[th[t].obj] = t
                            /\ Awake(t)
    /\ th[t].rc # 0 => th[t].pc \in {"restore", "finish"}
    /\ th[t].pc \in {"copy", "block", "create"} => handle_[th[t].obj] = Null
    /\ th[t].pc \in {"block", "create", "restore", "finish"} => th[t].st \in States
    /\ th[t].pc = "join" =>
        /\ handle_[th[t].obj] # Null
        /\ th[t].op = "assign" =>
            th[t].src \in Objects /\ th[t].src # th[t].obj /\ user[th[t].src] = t
CallInv == \A t \in Runners : CallOK(t)

\* A handle names one thread, which is there and not detached, and each such
\* thread has one.  Handles written by a pthread_create() that failed do not
\* count: they are reset before the constructor throws.
OwnInv ==
    /\ \A p \in Pthreads : life[p] # "none" /\ p \notin detached =>
        \E o \in Objects : handle_[o] = p /\ ~Failing(o)
    /\ \A o \in Objects : handle_[o] # Null /\ ~Failing(o) =>
        life[handle_[o]] # "none" /\ handle_[o] \notin detached
    /\ \A o, c \in Objects :
        handle_[o] = handle_[c] /\ handle_[o] # Null /\ ~Failing(o) /\ ~Failing(c) => o = c
    /\ \A p \in detached : life[p] \notin {"none", "ended"}

\* The constructors that hold a copied state, and the threads that own one.
Holds(r) == \/ r.pc \in {"block", "create"}
            \/ r.pc \in {"restore", "finish"} /\ r.rc # 0
Holders == {t \in Runners : Holds(th[t])}
Owners == {p \in Pthreads : own[p] # Null}

CopyInv ==
    /\ heap = {th[t].st : t \in Holders} \cup {own[p] : p \in Owners}
    /\ \A t, u \in Holders : th[t].st = th[u].st => t = u
    /\ \A p, q \in Owners : own[p] = own[q] => p = q
    /\ \A t \in Holders, p \in Owners : th[t].st # own[p]
    /\ IsFiniteSet(heap) /\ IsFiniteSet(Holders) /\ IsFiniteSet(Owners)
    /\ Cardinality(heap) = Cardinality(Holders) + Cardinality(Owners)
    /\ \A p \in Pthreads : own[p] # Null <=> life[p] \in {"created", "running"}

\* The mask of a thread in a call, by what it was and by what the call saved.
MaskOK(t) ==
    /\ th[t].pc \in {"copy", "block", "finish", "join"} => mask[t] = th[t].before
    /\ th[t].pc \in {"create", "restore"} => /\ mask[t] = th[t].before \cup start_mask
                                             /\ th[t].saved = th[t].before
MaskInv == (\A t \in Runners : MaskOK(t)) /\ MaskedFromStart

LifeInv == LifeTypeOK /\ CallInv /\ OwnInv /\ CopyInv /\ MaskInv

-----------------------------------------------------------------------------
(* What the steps have in common.                                          *)

\* Thread t is the only one whose call a step changes.
OnlyCall(t) == \A u \in Runners \ {t} : th'[u] = th[u]

\* The parts of the invariant a step of t starts from.
LEMMA LifeBefore ==
    ASSUME LifeInv, NEW t \in Runners
    PROVE  /\ th \in [Runners -> LifeFrames] /\ th[t] \in LifeFrames
           /\ handle_ \in [Objects -> Pthreads \cup {Null}] /\ user \in [Objects -> Runners]
           /\ mask \in [Runners -> SUBSET Signals] /\ mask[t] \in SUBSET Signals
           /\ CallOK(t) /\ MaskOK(t)
  BY DEF LifeInv, LifeTypeOK, CallInv, MaskInv

\* A step of t changes only handles of which t is the user, hands on only
\* objects of which t is the user, and ends no other thread that is in a call.
LEMMA CallKept ==
    ASSUME LifeInv, NEW t \in Runners, OnlyCall(t), CallOK(t)',
           \A o \in Objects : user[o] # t => handle_'[o] = handle_[o] /\ user'[o] = user[o],
           \A u \in Runners \ {t} : th[u].pc # "idle" /\ Awake(u) => Awake(u)'
    PROVE  CallInv'
  <1> SUFFICES ASSUME NEW u \in Runners
               PROVE  CallOK(u)'
    BY DEF CallInv
  <1>1. CASE u = t
    BY <1>1
  <1>2. CASE u # t
    <2>1. th'[u] = th[u] /\ CallOK(u)
      BY <1>2, LifeBefore DEF OnlyCall
    <2>2. th[u].pc # "idle" => Awake(u)'
      BY <1>2, <2>1 DEF CallOK
    <2>3. CASE th[u].pc = "idle"
      BY <2>1, <2>3 DEF CallOK
    <2>4. CASE th[u].pc # "idle"
      <3>1. th[u].obj \in Objects /\ user[th[u].obj] = u
        BY <2>1, <2>4 DEF CallOK
      <3>2. handle_'[th[u].obj] = handle_[th[u].obj] /\ user'[th[u].obj] = user[th[u].obj]
        BY <1>2, <3>1
      <3>3. th[u].src \in Objects /\ user[th[u].src] = u => user'[th[u].src] = u
        BY <1>2
      <3> QED
        BY <2>1, <2>2, <2>4, <3>1, <3>2, <3>3 DEF CallOK
    <2> QED
      BY <2>3, <2>4
  <1> QED
    BY <1>1, <1>2

\* An object whose user is not in a failed launch() is not in one.
LEMMA NotFailing ==
    ASSUME LifeInv, NEW t \in Runners, NEW o \in Objects, user[o] = t,
           th[t].obj = o => th[t].rc = 0
    PROVE  ~Failing(o)
  <1> SUFFICES ASSUME NEW u \in Runners, th[u].obj = o, th[u].rc # 0
               PROVE  FALSE
    BY DEF Failing
  <1>1. CallOK(u)
    BY LifeBefore
  <1>2. user[o] = u
    BY <1>1 DEF CallOK
  <1> QED
    BY <1>2

\* Only a failed pthread_create() makes a launch() fail, and only its end
\* stops it failing.
LEMMA FailingKept ==
    ASSUME NEW t \in Runners, OnlyCall(t),
           \/ th[t].rc = 0 /\ th'[t].rc = 0
           \/ th'[t].obj = th[t].obj /\ th'[t].rc = th[t].rc
    PROVE  \A o \in Objects : Failing(o)' <=> Failing(o)
  <1> SUFFICES ASSUME NEW o \in Objects
               PROVE  Failing(o)' <=> Failing(o)
    OBVIOUS
  <1>1. \A u \in Runners : th'[u].obj = o /\ th'[u].rc # 0 <=> th[u].obj = o /\ th[u].rc # 0
    BY DEF OnlyCall
  <1> QED
    BY <1>1 DEF Failing

\* Without a new handle, a new life or a new failure, ownership is as it was.
LEMMA OwnKept ==
    ASSUME LifeInv, handle_' = handle_, life' = life, detached' = detached,
           \A o \in Objects : Failing(o)' <=> Failing(o)
    PROVE  OwnInv'
  <1>1. OwnInv
    BY DEF LifeInv
  <1> QED
    BY <1>1 DEF OwnInv

\* The copies are where they were.
LEMMA CopyKept ==
    ASSUME LifeInv, heap' = heap, own' = own,
           \A t \in Runners : /\ Holds(th'[t]) <=> Holds(th[t])
                              /\ Holds(th[t]) => th'[t].st = th[t].st,
           \A p \in Pthreads : life'[p] \in {"created", "running"}
                                 <=> life[p] \in {"created", "running"}
    PROVE  CopyInv'
  <1>1. Holders' = Holders /\ Owners' = Owners
    BY DEF Holders, Owners
  <1>2. \A t \in Holders : th'[t].st = th[t].st
    BY DEF Holders
  <1>3. {th'[t].st : t \in Holders} = {th[t].st : t \in Holders}
    BY <1>2
  <1>4. CopyInv
    BY DEF LifeInv
  <1> QED
    BY <1>1, <1>2, <1>3, <1>4, SMT DEF CopyInv

\* The masks of the others are theirs.
LEMMA MaskKept ==
    ASSUME LifeInv, NEW t \in Runners, OnlyCall(t), MaskOK(t)',
           \A u \in Runners \ {t} : th[u].pc # "idle" => mask'[u] = mask[u],
           \A p \in Pthreads : life'[p] = "created" /\ ~ start_mask \subseteq mask'[p] =>
             life[p] = "created" /\ mask'[p] = mask[p]
    PROVE  MaskInv'
  <1>1. \A u \in Runners : MaskOK(u)'
    <2> SUFFICES ASSUME NEW u \in Runners \ {t}
                 PROVE  MaskOK(u)'
      OBVIOUS
    <2>1. th'[u] = th[u] /\ MaskOK(u)
      BY LifeBefore DEF OnlyCall
    <2> QED
      BY <2>1 DEF MaskOK
  <1>2. MaskedFromStart'
    BY DEF LifeInv, MaskInv, MaskedFromStart
  <1> QED
    BY <1>1, <1>2 DEF MaskInv

\* The mask of a thread that is being created is nobody's to change: it is in
\* no call.
LEMMA CreatedIdle ==
    ASSUME LifeInv, NEW p \in Pthreads, life[p] # "running"
    PROVE  p \in Runners /\ th[p].pc = "idle" /\ th[p].rc = 0
  <1>1. p \in Runners
    BY DEF Runners
  <1>2. CallOK(p) /\ th[p] \in LifeFrames
    BY <1>1, LifeBefore
  <1> QED
    BY <1>1, <1>2 DEF CallOK, Awake

-----------------------------------------------------------------------------
(* The steps, one by one.                                                  *)

\* The frames a call starts with.
LEMMA IdleFrame ==
    Idle \in LifeFrames /\ Idle.pc = "idle" /\ Idle.rc = 0
  BY SMT DEF Idle, LifeFrames

\* launch() begins, or throws at once.
LEMMA LaunchStep ==
    ASSUME LifeInv, NEW t \in Runners, NEW o \in Objects, Launch(t, o)
    PROVE  LifeInv'
  <1>0. /\ user[o] = t /\ Awake(t) /\ th[t].pc = "idle" /\ handle_[o] = Null
        /\ handle_' = handle_ /\ user' = user /\ life' = life /\ detached' = detached
        /\ own' = own /\ heap' = heap /\ mask' = mask
    BY DEF Launch, MayUse, At, objects, threads
  <1>a. PICK m \in SUBSET Signals : m = mask[t]
    BY LifeBefore
  <1>b. PICK r : r = [Idle EXCEPT !.pc = "copy", !.obj = o, !.before = m]
    OBVIOUS
  <1>1. /\ r \in LifeFrames /\ r.pc = "copy" /\ r.obj = o /\ r.before = mask[t] /\ r.rc = 0
    <2>1. PICK M : M = SUBSET Signals
      OBVIOUS
    <2>2. PICK i \in LifeFrames : i = Idle /\ i.rc = 0
      BY IdleFrame
    <2>3. m \in M /\ r = [i EXCEPT !.pc = "copy", !.obj = o, !.before = m]
      BY <1>b, <2>1, <2>2
    <2>4. LifeFrames = [pc : {"idle", "copy", "block", "create", "restore", "finish", "join"},
                        obj : Objects \cup {Null}, src : Objects \cup {Null},
                        st : States \cup {Null}, rc : 0..1, saved : M, before : M,
                        op : {"none", "join", "destroy", "assign"}]
      BY <2>1 DEF LifeFrames
    <2>5. r \in LifeFrames /\ r.pc = "copy" /\ r.obj = o /\ r.before = m /\ r.rc = 0
      BY <2>2, <2>3, <2>4
    <2> QED
      BY <1>a, <2>5
  <1>2. OnlyCall(t) /\ (th'[t] = r \/ th'[t] = th[t]) /\ th' \in [Runners -> LifeFrames]
    BY LifeBefore, <1>a, <1>b, <1>1, SMT DEF Launch, Set, OnlyCall
  <1>3. LifeTypeOK'
    BY <1>0, <1>2, LaunchAssumption, SMT DEF Launch, LifeInv, LifeTypeOK
  <1>4. CallInv'
    <2>1. CallOK(t)'
      BY LifeBefore, <1>0, <1>1, <1>2, SMT DEF CallOK, Awake
    <2> QED
      BY <1>0, <1>2, <2>1, CallKept DEF Awake
  <1>5. OwnInv'
    <2>1. th[t].rc = 0
      BY LifeBefore, <1>0 DEF CallOK
    <2> QED
      BY <1>0, <1>1, <1>2, <2>1, FailingKept, OwnKept
  <1>6. CopyInv'
    <2>1. \A u \in Runners : /\ Holds(th'[u]) <=> Holds(th[u])
                             /\ Holds(th[u]) => th'[u].st = th[u].st
      BY <1>0, <1>1, <1>2 DEF Holds, OnlyCall
    <2> QED
      BY <1>0, <2>1, CopyKept
  <1>7. MaskInv'
    <2>1. MaskOK(t)'
      BY LifeBefore, <1>0, <1>1, <1>2 DEF MaskOK
    <2> QED
      BY <1>0, <1>2, <2>1, MaskKept
  <1> QED
    BY <1>3, <1>4, <1>5, <1>6, <1>7 DEF LifeInv

\* The creation mask is set, and the old one saved.
LEMMA BlockStep ==
    ASSUME LifeInv, NEW t \in Runners, Block(t)
    PROVE  LifeInv'
  <1>0. /\ th[t].pc = "block" /\ mask' = [mask EXCEPT ![t] = @ \cup start_mask]
        /\ handle_' = handle_ /\ user' = user /\ life' = life /\ detached' = detached
        /\ own' = own /\ heap' = heap
    BY DEF Block, At, objects, threads
  <1>1. /\ OnlyCall(t) /\ th' \in [Runners -> LifeFrames]
        /\ th'[t] = [th[t] EXCEPT !.pc = "create", !.saved = mask[t]]
    <2> DEFINE r == [th[t] EXCEPT !.pc = "create", !.saved = mask[t]]
    <2>1. r \in LifeFrames
      BY LifeBefore, ZenonT(30) DEF LifeFrames
    <2> HIDE DEF r
    <2>2. th' = [th EXCEPT ![t] = r]
      BY DEF Block, Set, r
    <2>3. OnlyCall(t) /\ th' \in [Runners -> LifeFrames] /\ th'[t] = r
      BY LifeBefore, <2>1, <2>2 DEF OnlyCall
    <2> QED
      BY <2>3 DEF r
  <1>2. /\ th'[t].pc = "create" /\ th'[t].saved = mask[t] /\ th'[t].obj = th[t].obj
        /\ th'[t].st = th[t].st /\ th'[t].rc = th[t].rc /\ th'[t].before = th[t].before
    BY LifeBefore, <1>1 DEF LifeFrames
  <1>3. LifeTypeOK'
    <2>1. mask' \in [Runners -> SUBSET Signals]
      BY LifeBefore, <1>0 DEF start_mask, Signals
    <2> QED
      BY <1>0, <1>1, <2>1 DEF Block, LifeInv, LifeTypeOK
  <1>4. CallInv'
    <2>1. CallOK(t)'
      BY LifeBefore, <1>0, <1>2, SMT DEF CallOK, Awake
    <2> QED
      BY <1>0, <1>1, <2>1, CallKept DEF Awake
  <1>5. OwnInv'
    BY <1>0, <1>1, <1>2, FailingKept, OwnKept
  <1>6. CopyInv'
    <2>1. \A u \in Runners : /\ Holds(th'[u]) <=> Holds(th[u])
                             /\ Holds(th[u]) => th'[u].st = th[u].st
      BY <1>0, <1>1, <1>2 DEF Holds, OnlyCall
    <2> QED
      BY <1>0, <2>1, CopyKept
  <1>7. MaskInv'
    <2>1. MaskOK(t)'
      BY LifeBefore, <1>0, <1>2 DEF MaskOK
    <2>2. \A u \in Runners \ {t} : mask'[u] = mask[u]
      BY LifeBefore, <1>0
    <2>3. \A p \in Pthreads : life[p] = "created" => p # t
      BY <1>0, CreatedIdle
    <2> QED
      BY <1>0, <1>1, <2>1, <2>2, <2>3, MaskKept DEF Runners
  <1> QED
    BY <1>3, <1>4, <1>5, <1>6, <1>7 DEF LifeInv

\* The saved mask is restored.
LEMMA RestoreStep ==
    ASSUME LifeInv, NEW t \in Runners, Restore(t)
    PROVE  LifeInv'
  <1>0. /\ th[t].pc = "restore" /\ mask' = [mask EXCEPT ![t] = th[t].saved]
        /\ handle_' = handle_ /\ user' = user /\ life' = life /\ detached' = detached
        /\ own' = own /\ heap' = heap
    BY DEF Restore, At, objects, threads
  <1>1. /\ OnlyCall(t) /\ th' \in [Runners -> LifeFrames]
        /\ th'[t] = [th[t] EXCEPT !.pc = "finish"]
    <2> DEFINE r == [th[t] EXCEPT !.pc = "finish"]
    <2>1. r \in LifeFrames
      BY LifeBefore, ZenonT(30) DEF LifeFrames
    <2> HIDE DEF r
    <2>2. th' = [th EXCEPT ![t] = r]
      BY DEF Restore, Set, r
    <2>3. OnlyCall(t) /\ th' \in [Runners -> LifeFrames] /\ th'[t] = r
      BY LifeBefore, <2>1, <2>2 DEF OnlyCall
    <2> QED
      BY <2>3 DEF r
  <1>2. /\ th'[t].pc = "finish" /\ th'[t].obj = th[t].obj
        /\ th'[t].st = th[t].st /\ th'[t].rc = th[t].rc /\ th'[t].before = th[t].before
    BY LifeBefore, <1>1 DEF LifeFrames
  <1>3. LifeTypeOK'
    <2>1. mask' \in [Runners -> SUBSET Signals]
      BY LifeBefore, <1>0 DEF LifeFrames
    <2> QED
      BY <1>0, <1>1, <2>1 DEF Restore, LifeInv, LifeTypeOK
  <1>4. CallInv'
    <2>0. CallOK(t)
      BY LifeBefore
    <2>1. CallOK(t)'
      BY <1>0, <1>2, <2>0 DEF CallOK, Awake
    <2> QED
      BY <1>0, <1>1, <2>1, CallKept DEF Awake
  <1>5. OwnInv'
    BY <1>0, <1>1, <1>2, FailingKept, OwnKept
  <1>6. CopyInv'
    <2>1. \A u \in Runners : /\ Holds(th'[u]) <=> Holds(th[u])
                             /\ Holds(th[u]) => th'[u].st = th[u].st
      BY <1>0, <1>1, <1>2 DEF Holds, OnlyCall
    <2> QED
      BY <1>0, <2>1, CopyKept
  <1>7. MaskInv'
    <2>1. MaskOK(t)'
      BY LifeBefore, <1>0, <1>2 DEF MaskOK
    <2>2. \A u \in Runners \ {t} : mask'[u] = mask[u]
      BY LifeBefore, <1>0
    <2>3. \A p \in Pthreads : life[p] = "created" => p # t
      BY <1>0, CreatedIdle
    <2> QED
      BY <1>0, <1>1, <2>1, <2>2, <2>3, MaskKept DEF Runners
  <1> QED
    BY <1>3, <1>4, <1>5, <1>6, <1>7 DEF LifeInv

\* launch() returns.
LEMMA FinishStep ==
    ASSUME LifeInv, NEW t \in Runners, Finish(t)
    PROVE  LifeInv'
  <1>0. /\ th[t].pc = "finish" /\ th[t].rc = 0
        /\ handle_' = handle_ /\ user' = user /\ life' = life /\ detached' = detached
        /\ own' = own /\ heap' = heap /\ mask' = mask
    BY DEF Finish, At, objects, threads
  <1>1. OnlyCall(t) /\ th' \in [Runners -> LifeFrames] /\ th'[t] = Idle
    BY LifeBefore, IdleFrame DEF Finish, Set, OnlyCall
  <1>2. th'[t].pc = "idle" /\ th'[t].rc = 0
    BY <1>1, IdleFrame
  <1>3. LifeTypeOK'
    BY <1>0, <1>1 DEF Finish, LifeInv, LifeTypeOK
  <1>4. CallInv'
    <2>1. CallOK(t)'
      BY <1>2 DEF CallOK
    <2> QED
      BY <1>0, <1>1, <2>1, CallKept DEF Awake
  <1>5. OwnInv'
    BY <1>0, <1>1, <1>2, FailingKept, OwnKept
  <1>6. CopyInv'
    <2>1. \A u \in Runners : /\ Holds(th'[u]) <=> Holds(th[u])
                             /\ Holds(th[u]) => th'[u].st = th[u].st
      BY <1>0, <1>1, <1>2 DEF Holds, OnlyCall
    <2> QED
      BY <1>0, <2>1, CopyKept
  <1>7. MaskInv'
    <2>1. MaskOK(t)'
      BY <1>2 DEF MaskOK
    <2> QED
      BY <1>0, <1>1, <2>1, MaskKept
  <1> QED
    BY <1>3, <1>4, <1>5, <1>6, <1>7 DEF LifeInv

\* join(), a destructor or an assignment begins to wait.
LEMMA JoinCallStep ==
    ASSUME LifeInv, NEW t \in Runners, NEW o \in Objects,
           NEW op \in {"join", "destroy", "assign"}, NEW src \in Objects \cup {Null},
           JoinCall(t, o, op, src),
           op = "assign" => src \in Objects /\ src # o /\ user[src] = t
    PROVE  LifeInv'
  <1>0. /\ user[o] = t /\ Awake(t) /\ th[t].pc = "idle" /\ handle_[o] # Null
        /\ handle_' = handle_ /\ user' = user /\ life' = life /\ detached' = detached
        /\ own' = own /\ heap' = heap /\ mask' = mask
    BY DEF JoinCall, MayUse, At, objects, threads
  <1>a. PICK m \in SUBSET Signals : m = mask[t]
    BY LifeBefore
  <1>b. PICK r : r = [Idle EXCEPT !.pc = "join", !.obj = o, !.op = op, !.src = src,
                                  !.before = m]
    OBVIOUS
  <1>1. /\ r \in LifeFrames /\ r.pc = "join" /\ r.obj = o /\ r.op = op /\ r.src = src
        /\ r.before = mask[t] /\ r.rc = 0
    <2>1. PICK M : M = SUBSET Signals
      OBVIOUS
    <2>2. PICK i \in LifeFrames : i = Idle /\ i.rc = 0
      BY IdleFrame
    <2>3. m \in M /\ r = [i EXCEPT !.pc = "join", !.obj = o, !.op = op, !.src = src, !.before = m]
      BY <1>b, <2>1, <2>2
    <2>4. LifeFrames = [pc : {"idle", "copy", "block", "create", "restore", "finish", "join"},
                        obj : Objects \cup {Null}, src : Objects \cup {Null},
                        st : States \cup {Null}, rc : 0..1, saved : M, before : M,
                        op : {"none", "join", "destroy", "assign"}]
      BY <2>1 DEF LifeFrames
    <2>5. r \in LifeFrames /\ r.pc = "join" /\ r.obj = o /\ r.op = op /\ r.src = src /\ r.before = m /\ r.rc = 0
      BY <2>2, <2>3, <2>4
    <2> QED
      BY <1>a, <2>5
  <1>2. OnlyCall(t) /\ th'[t] = r /\ th' \in [Runners -> LifeFrames]
    BY LifeBefore, <1>a, <1>b, <1>1 DEF JoinCall, Set, OnlyCall
  <1>3. LifeTypeOK'
    BY <1>0, <1>2 DEF JoinCall, LifeInv, LifeTypeOK
  <1>4. CallInv'
    <2>1. CallOK(t)'
      BY <1>0, <1>1, <1>2 DEF CallOK, Awake
    <2> QED
      BY <1>0, <1>2, <2>1, CallKept DEF Awake
  <1>5. OwnInv'
    <2>1. th[t].rc = 0
      BY LifeBefore, <1>0 DEF CallOK
    <2> QED
      BY <1>0, <1>1, <1>2, <2>1, FailingKept, OwnKept
  <1>6. CopyInv'
    <2>1. \A u \in Runners : /\ Holds(th'[u]) <=> Holds(th[u])
                             /\ Holds(th[u]) => th'[u].st = th[u].st
      BY <1>0, <1>1, <1>2 DEF Holds, OnlyCall
    <2> QED
      BY <1>0, <2>1, CopyKept
  <1>7. MaskInv'
    <2>1. MaskOK(t)'
      BY <1>0, <1>1, <1>2 DEF MaskOK
    <2> QED
      BY <1>0, <1>2, <2>1, MaskKept
  <1> QED
    BY <1>3, <1>4, <1>5, <1>6, <1>7 DEF LifeInv

\* The callable and the arguments are copied, or the copying throws.
LEMMA CopyStateStep ==
    ASSUME LifeInv, NEW t \in Runners, CopyState(t)
    PROVE  LifeInv'
  <1>0. /\ th[t].pc = "copy" /\ handle_' = handle_ /\ user' = user /\ life' = life
        /\ detached' = detached /\ own' = own /\ mask' = mask
        /\ terminated' = terminated /\ launches' = launches
    BY DEF CopyState, At, objects, threads
  <1>1. th[t].rc = 0
    BY LifeBefore, <1>0 DEF CallOK
  <1>2. CASE heap' = heap /\ Set(t, Idle)
    <2>1. OnlyCall(t) /\ th' \in [Runners -> LifeFrames] /\ th'[t].pc = "idle" /\ th'[t].rc = 0
      BY LifeBefore, <1>2, IdleFrame DEF Set, OnlyCall
    <2>2. LifeTypeOK'
      BY <1>0, <1>2, <2>1 DEF LifeInv, LifeTypeOK
    <2>3. CallInv'
      <3>1. CallOK(t)'
        BY <2>1 DEF CallOK
      <3> QED
        BY <1>0, <2>1, <3>1, CallKept DEF Awake
    <2>4. OwnInv'
      BY <1>0, <1>1, <2>1, FailingKept, OwnKept
    <2>5. CopyInv'
      <3>1. \A u \in Runners : /\ Holds(th'[u]) <=> Holds(th[u])
                               /\ Holds(th[u]) => th'[u].st = th[u].st
        BY <1>0, <2>1 DEF Holds, OnlyCall
      <3> QED
        BY <1>0, <1>2, <3>1, CopyKept
    <2>6. MaskInv'
      <3>1. MaskOK(t)'
        BY <2>1 DEF MaskOK
      <3> QED
        BY <1>0, <2>1, <3>1, MaskKept
    <2> QED
      BY <2>2, <2>3, <2>4, <2>5, <2>6 DEF LifeInv
  <1>3. ASSUME NEW s \in States \ heap, heap' = heap \cup {s},
               Set(t, [th[t] EXCEPT !.pc = "block", !.st = s])
        PROVE  LifeInv'
    <2>0. PICK r : r = [th[t] EXCEPT !.pc = "block", !.st = s]
      OBVIOUS
    <2>a. /\ r \in LifeFrames /\ r.pc = "block" /\ r.st = s /\ r.rc = 0 /\ r.obj = th[t].obj
          /\ r.before = th[t].before
      <3>1. th[t] \in LifeFrames /\ s \in States \cup {Null}
        BY LifeBefore
      <3>2. r \in LifeFrames
        BY <2>0, <3>1 DEF LifeFrames
      <3> QED
        BY <1>1, <2>0, <3>1, <3>2, SMT DEF LifeFrames
    <2>1. OnlyCall(t) /\ th' \in [Runners -> LifeFrames] /\ th'[t] = r
      BY LifeBefore, <1>3, <2>0, <2>a DEF Set, OnlyCall
    <2>2. LifeTypeOK'
      BY <1>0, <1>3, <2>1 DEF LifeInv, LifeTypeOK
    <2>3. CallInv'
      <3>1. CallOK(t)'
        BY LifeBefore, <1>0, <2>a, <2>1, SMT DEF CallOK, Awake
      <3> QED
        BY <1>0, <2>1, <3>1, CallKept DEF Awake
    <2>4. OwnInv'
      BY <1>0, <1>1, <2>a, <2>1, FailingKept, OwnKept
    <2>5. CopyInv'
      <3>0. CopyInv
        BY DEF LifeInv
      <3>1. t \notin Holders /\ Holders' = Holders \cup {t} /\ Owners' = Owners
        BY <1>0, <2>a, <2>1 DEF Holders, Owners, Holds, OnlyCall
      <3>2. /\ th'[t].st = s /\ \A u \in Holders : th'[u].st = th[u].st
        BY <2>a, <2>1, <3>1 DEF OnlyCall, Holders
      <3>3. /\ \A u \in Holders : th[u].st \in heap
            /\ \A p \in Owners : own[p] \in heap
        BY <3>0 DEF CopyInv
      <3>4. heap' = {th'[u].st : u \in Holders'} \cup {own'[p] : p \in Owners'}
        BY <1>0, <1>3, <3>0, <3>1, <3>2, SMT DEF CopyInv
      <3>5. /\ \A u, v \in Holders' : th'[u].st = th'[v].st => u = v
            /\ \A p, q \in Owners' : own'[p] = own'[q] => p = q
            /\ \A u \in Holders', p \in Owners' : th'[u].st # own'[p]
        BY <1>0, <1>3, <3>0, <3>1, <3>2, <3>3, SMT DEF CopyInv
      <3>6. /\ IsFiniteSet(heap') /\ IsFiniteSet(Holders') /\ IsFiniteSet(Owners')
            /\ Cardinality(heap') = Cardinality(Holders') + Cardinality(Owners')
        <4>1. IsFiniteSet(heap) /\ IsFiniteSet(Holders) /\ IsFiniteSet(Owners)
          BY <3>0 DEF CopyInv
        <4>2. /\ Cardinality(heap) \in Nat /\ Cardinality(Holders) \in Nat
              /\ Cardinality(Owners) \in Nat
          BY <4>1, FS_CardinalityType
        <4>3. /\ IsFiniteSet(heap') /\ Cardinality(heap') = Cardinality(heap) + 1
              /\ IsFiniteSet(Holders') /\ Cardinality(Holders') = Cardinality(Holders) + 1
          BY <1>3, <3>1, <4>1, FS_AddElement
        <4>4. Cardinality(heap) = Cardinality(Holders) + Cardinality(Owners)
          BY <3>0 DEF CopyInv
        <4> QED
          BY <3>1, <4>1, <4>2, <4>3, <4>4, SMT
      <3>7. \A p \in Pthreads : own'[p] # Null <=> life'[p] \in {"created", "running"}
        BY <1>0, <3>0 DEF CopyInv
      <3> QED
        BY <3>4, <3>5, <3>6, <3>7 DEF CopyInv
    <2>6. MaskInv'
      <3>1. MaskOK(t)'
        BY LifeBefore, <1>0, <2>a, <2>1 DEF MaskOK
      <3> QED
        BY <1>0, <2>1, <3>1, MaskKept
    <2> QED
      BY <2>2, <2>3, <2>4, <2>5, <2>6 DEF LifeInv
  <1> QED
    BY <1>2, <1>3 DEF CopyState

\* The new thread sets its own mask, and the callable changes it: neither is
\* in a call yet, or in one any more.
LEMMA SetMaskStep ==
    ASSUME LifeInv, NEW p \in Pthreads, SetMask(p)
    PROVE  LifeInv'
  <1>0. /\ handle_' = handle_ /\ user' = user /\ detached' = detached /\ own' = own
        /\ heap' = heap /\ th' = th /\ terminated' = terminated /\ launches' = launches
        /\ life[p] = "created" /\ life' = [life EXCEPT ![p] = "running"]
        /\ mask' = [mask EXCEPT ![p] = start_mask]
    BY DEF SetMask, objects
  <1>1. p \in Runners /\ th[p].pc = "idle" /\ OnlyCall(p)
    BY <1>0, CreatedIdle DEF OnlyCall
  <1>2. life \in [Pthreads -> {"none", "created", "running", "returned", "ended"}]
    BY DEF LifeInv, LifeTypeOK
  <1>3. LifeTypeOK'
    <2>1. mask' \in [Runners -> SUBSET Signals]
      BY LifeBefore, <1>0, <1>1 DEF start_mask, Signals
    <2>2. life' \in [Pthreads -> {"none", "created", "running", "returned", "ended"}]
      BY <1>0, <1>2
    <2> QED
      BY <1>0, <2>1, <2>2 DEF LifeInv, LifeTypeOK
  <1>4. CallInv'
    <2>1. CallOK(p)'
      BY LifeBefore, <1>0, <1>1 DEF CallOK
    <2>2. \A u \in Runners : Awake(u) => Awake(u)'
      BY <1>0, <1>2 DEF Awake
    <2> QED
      BY <1>0, <1>1, <2>1, <2>2, CallKept
  <1>5. OwnInv'
    <2>1. \A o \in Objects : Failing(o)' <=> Failing(o)
      BY <1>0 DEF Failing
    <2>2. OwnInv
      BY DEF LifeInv
    <2>3. \A q \in Pthreads : /\ life'[q] = "none" <=> life[q] = "none"
                              /\ life'[q] = "ended" <=> life[q] = "ended"
      BY <1>0, <1>2
    <2>4. \A o \in Objects : handle_[o] # Null => handle_[o] \in Pthreads
      BY LifeBefore, <1>1
    <2>5. detached \subseteq Pthreads
      BY DEF LifeInv, LifeTypeOK
    <2> QED
      BY <1>0, <2>1, <2>2, <2>3, <2>4, <2>5, SMT DEF OwnInv
  <1>6. CopyInv'
    <2>1. \A q \in Pthreads : life'[q] \in {"created", "running"}
                                <=> life[q] \in {"created", "running"}
      BY <1>0, <1>2
    <2> QED
      BY <1>0, <2>1, CopyKept
  <1>7. MaskInv'
    <2>1. MaskOK(p)'
      BY <1>0, <1>1 DEF MaskOK
    <2>2. \A u \in Runners \ {p} : mask'[u] = mask[u]
      BY LifeBefore, <1>0, <1>1
    <2>3. \A q \in Pthreads : life'[q] = "created" => life[q] = "created" /\ q # p
      BY <1>0, <1>2
    <2> QED
      BY <1>1, <2>1, <2>2, <2>3, MaskKept DEF Runners
  <1> QED
    BY <1>3, <1>4, <1>5, <1>6, <1>7 DEF LifeInv

\* A callable that unblocks signals changes only its own mask.
LEMMA UnblockStep ==
    ASSUME LifeInv, NEW p \in Pthreads, Unblock(p)
    PROVE  LifeInv'
  <1>0. /\ handle_' = handle_ /\ user' = user /\ detached' = detached /\ own' = own
        /\ heap' = heap /\ th' = th /\ terminated' = terminated /\ launches' = launches
        /\ life' = life /\ life[p] = "running" /\ th[p].pc = "idle"
        /\ mask' = [mask EXCEPT ![p] = {}]
    BY DEF Unblock, At, objects, threads
  <1>1. p \in Runners /\ OnlyCall(p)
    BY <1>0 DEF OnlyCall, Runners
  <1>3. LifeTypeOK'
    <2>1. mask' \in [Runners -> SUBSET Signals]
      BY LifeBefore, <1>0, <1>1
    <2> QED
      BY <1>0, <2>1 DEF LifeInv, LifeTypeOK
  <1>4. CallInv'
    <2>1. CallOK(p)'
      BY LifeBefore, <1>0, <1>1 DEF CallOK
    <2> QED
      BY <1>0, <1>1, <2>1, CallKept DEF Awake
  <1>5. OwnInv'
    BY <1>0, OwnKept DEF Failing
  <1>6. CopyInv'
    BY <1>0, CopyKept
  <1>7. MaskInv'
    <2>1. MaskOK(p)'
      BY <1>0, <1>1 DEF MaskOK
    <2>2. \A u \in Runners \ {p} : mask'[u] = mask[u]
      BY LifeBefore, <1>0, <1>1
    <2>3. \A q \in Pthreads : life[q] = "created" => q # p
      BY <1>0
    <2> QED
      BY <1>0, <1>1, <2>1, <2>2, <2>3, MaskKept DEF Runners
  <1> QED
    BY <1>3, <1>4, <1>5, <1>6, <1>7 DEF LifeInv

\* std::terminate() changes nothing any more.
LEMMA TerminateStep ==
    ASSUME LifeInv, terminated' = TRUE,
           UNCHANGED <<objects, threads, heap, mask, th, launches>>
    PROVE  LifeInv'
  <1>0. /\ handle_' = handle_ /\ user' = user /\ detached' = detached /\ own' = own
        /\ heap' = heap /\ th' = th /\ launches' = launches /\ life' = life /\ mask' = mask
    BY DEF objects, threads
  <1>1. LifeTypeOK'
    BY <1>0 DEF LifeInv, LifeTypeOK
  <1>2. CallInv'
    BY <1>0, SMT DEF LifeInv, CallInv, CallOK, Awake
  <1>3. OwnInv'
    BY <1>0, OwnKept DEF Failing
  <1>4. CopyInv'
    BY <1>0, CopyKept
  <1>5. MaskInv'
    BY <1>0 DEF LifeInv, MaskInv, MaskOK, MaskedFromStart
  <1> QED
    BY <1>1, <1>2, <1>3, <1>4, <1>5 DEF LifeInv

\* An object gets another user.
LEMMA GiveStep ==
    ASSUME LifeInv, NEW t \in Runners, NEW o \in Objects, NEW v \in Runners, Give(t, o, v)
    PROVE  LifeInv'
  <1>0. /\ handle_' = handle_ /\ detached' = detached /\ own' = own /\ life' = life
        /\ heap' = heap /\ th' = th /\ terminated' = terminated /\ launches' = launches
        /\ mask' = mask /\ th[t].pc = "idle" /\ user[o] = t
        /\ user' = [user EXCEPT ![o] = v]
    BY DEF Give, MayUse, At, threads
  <1>1. OnlyCall(t)
    BY <1>0 DEF OnlyCall
  <1>2. LifeTypeOK'
    BY <1>0 DEF LifeInv, LifeTypeOK
  <1>3. CallInv'
    <2>1. CallOK(t)'
      BY LifeBefore, <1>0 DEF CallOK
    <2>2. \A c \in Objects : user[c] # t => user'[c] = user[c]
      BY LifeBefore, <1>0
    <2> QED
      BY <1>0, <1>1, <2>1, <2>2, CallKept DEF Awake
  <1>4. OwnInv'
    BY <1>0, OwnKept DEF Failing
  <1>5. CopyInv'
    BY <1>0, CopyKept
  <1>6. MaskInv'
    BY <1>0 DEF LifeInv, MaskInv, MaskOK, MaskedFromStart
  <1> QED
    BY <1>2, <1>3, <1>4, <1>5, <1>6 DEF LifeInv

\* Objects o and c exchange handles; h is what o had, Null after a move.
Exchange(o, c, h) == handle_' = [handle_ EXCEPT ![o] = handle_[c], ![c] = h]

\* Between objects of one user that are not in a launch(), handles are moved
\* and exchanged.
LEMMA ExchangeStep ==
    ASSUME LifeInv, NEW t \in Runners, NEW o \in Objects, NEW c \in Objects,
           user[o] = t, user[c] = t, th[t].pc = "idle",
           NEW h, h = handle_[o],
           Exchange(o, c, h),
           UNCHANGED <<user, threads, heap, mask, th, terminated, launches>>
    PROVE  LifeInv'
  <1>0. /\ user' = user /\ detached' = detached /\ own' = own /\ life' = life
        /\ heap' = heap /\ th' = th /\ terminated' = terminated /\ launches' = launches
        /\ mask' = mask /\ OnlyCall(t)
    BY DEF threads, OnlyCall
  <1>1. /\ handle_ \in [Objects -> Pthreads \cup {Null}]
        /\ handle_'[c] = h /\ (o # c => handle_'[o] = handle_[c])
        /\ \A x \in Objects : x # o /\ x # c => handle_'[x] = handle_[x]
    BY LifeBefore DEF Exchange
  <1>2. LifeTypeOK'
    <2>1. handle_' \in [Objects -> Pthreads \cup {Null}]
      BY LifeBefore DEF Exchange
    <2> QED
      BY <1>0, <2>1 DEF LifeInv, LifeTypeOK
  <1>3. CallInv'
    <2>1. CallOK(t)'
      BY LifeBefore, <1>0 DEF CallOK
    <2> QED
      BY <1>0, <1>1, <2>1, CallKept DEF Awake
  <1>4. OwnInv'
    <2>0. OwnInv
      BY DEF LifeInv
    <2>1. \A x \in Objects : Failing(x)' <=> Failing(x)
      BY <1>0 DEF Failing
    <2>2. ~Failing(o) /\ ~Failing(c)
      <3>1. th[t].rc = 0
        BY LifeBefore DEF CallOK
      <3> QED
        BY <3>1, NotFailing
    <2>3. \A p \in Pthreads : (\E x \in Objects : handle_[x] = p /\ ~Failing(x))
                                => \E x \in Objects : handle_'[x] = p /\ ~Failing(x)
      BY <1>1, <2>2
    <2>4. \A x \in Objects : handle_'[x] # Null /\ ~Failing(x) =>
            \E y \in Objects : handle_[y] = handle_'[x] /\ ~Failing(y)
      BY <1>1, <2>2
    <2>5. \A x, y \in Objects :
            handle_'[x] = handle_'[y] /\ handle_'[x] # Null /\ ~Failing(x) /\ ~Failing(y) => x = y
      BY <1>1, <2>0, <2>2, SMT DEF OwnInv
    <2>6. \A x \in Objects : handle_'[x] # Null /\ ~Failing(x) =>
            life[handle_'[x]] # "none" /\ handle_'[x] \notin detached
      <3> SUFFICES ASSUME NEW x \in Objects, handle_'[x] # Null, ~Failing(x)
                   PROVE  life[handle_'[x]] # "none" /\ handle_'[x] \notin detached
        OBVIOUS
      <3>1. PICK y \in Objects : handle_[y] = handle_'[x] /\ ~Failing(y)
        BY <2>4
      <3> QED
        BY <2>0, <3>1 DEF OwnInv
    <2>7. \A p \in Pthreads : life[p] # "none" /\ p \notin detached =>
            \E x \in Objects : handle_'[x] = p /\ ~Failing(x)
      BY <2>0, <2>3 DEF OwnInv
    <2>8. \A p \in detached : life[p] \notin {"none", "ended"}
      BY <2>0 DEF OwnInv
    <2>9. life' = life /\ detached' = detached
      BY <1>0
    <2> QED
      BY <2>1, <2>5, <2>6, <2>7, <2>8, <2>9 DEF OwnInv
  <1>5. CopyInv'
    BY <1>0, CopyKept
  <1>6. MaskInv'
    BY <1>0 DEF LifeInv, MaskInv, MaskOK, MaskedFromStart
  <1> QED
    BY <1>2, <1>3, <1>4, <1>5, <1>6 DEF LifeInv

\* detach() and the end of a thread: a thread that is gone has no owner.
LEMMA DetachStep ==
    ASSUME LifeInv, NEW t \in Runners, NEW o \in Objects, Detach(t, o)
    PROVE  LifeInv'
  <1>0. /\ user' = user /\ own' = own /\ heap' = heap /\ th' = th /\ mask' = mask
        /\ terminated' = terminated /\ launches' = launches
        /\ th[t].pc = "idle" /\ user[o] = t /\ handle_[o] # Null
        /\ handle_' = [handle_ EXCEPT ![o] = Null] /\ OnlyCall(t)
    BY DEF Detach, MayUse, At, OnlyCall
  <1>1. PICK p \in Pthreads : p = handle_[o]
    BY LifeBefore, <1>0
  <1>2. /\ life \in [Pthreads -> {"none", "created", "running", "returned", "ended"}]
        /\ detached \subseteq Pthreads /\ OwnInv
    BY DEF LifeInv, LifeTypeOK
  <1>3. ~Failing(o) /\ life[p] # "none" /\ p \notin detached
    <2>1. ~Failing(o)
      BY LifeBefore, <1>0, NotFailing DEF CallOK
    <2> QED
      BY <1>0, <1>1, <1>2, <2>1 DEF OwnInv
  <1>4. /\ life' \in [Pthreads -> {"none", "created", "running", "returned", "ended"}]
        /\ \A q \in Pthreads : q # p => life'[q] = life[q]
        /\ life'[p] = IF life[p] = "ended" THEN "none" ELSE life[p]
    BY <1>1, <1>2 DEF Detach
  <1>5. /\ detached' \subseteq Pthreads
        /\ \A q \in Pthreads : q # p => (q \in detached' <=> q \in detached)
        /\ p \in detached' <=> life[p] # "ended"
    <2>1. \A q \in detached : life[q] # "ended"
      BY <1>2 DEF OwnInv
    <2>2. detached' = (detached \cup {p}) \ {q \in Pthreads : life[q] = "ended"}
      BY <1>1 DEF Detach
    <2> QED
      BY <1>2, <2>1, <2>2
  <1>6. LifeTypeOK'
    <2>1. handle_' \in [Objects -> Pthreads \cup {Null}]
      BY LifeBefore, <1>0
    <2> QED
      BY <1>0, <1>4, <1>5, <2>1 DEF LifeInv, LifeTypeOK
  <1>7. CallInv'
    <2>1. CallOK(t)'
      BY LifeBefore, <1>0 DEF CallOK
    <2>2. \A x \in Objects : user[x] # t => handle_'[x] = handle_[x]
      BY LifeBefore, <1>0
    <2>3. \A u \in Runners : Awake(u) => Awake(u)'
      BY <1>4 DEF Awake
    <2> QED
      BY <1>0, <2>1, <2>2, <2>3, CallKept
  <1>8. OwnInv'
    <2>1. \A x \in Objects : Failing(x)' <=> Failing(x)
      BY <1>0 DEF Failing
    <2>2. \A x \in Objects : handle_'[x] = IF x = o THEN Null ELSE handle_[x]
      BY LifeBefore, <1>0
    <2>3. \A x \in Objects : handle_'[x] # Null /\ ~Failing(x) =>
            /\ handle_'[x] = handle_[x] /\ handle_[x] \in Pthreads /\ handle_[x] # p
      BY LifeBefore, <1>0, <1>1, <1>2, <1>3, <2>2, SMT DEF OwnInv
    <2>4. \A q \in Pthreads : life'[q] # "none" /\ q \notin detached' =>
            q # p /\ life[q] # "none" /\ q \notin detached
      BY <1>4, <1>5
    <2>5. \A q \in Pthreads : life'[q] # "none" /\ q \notin detached' =>
            \E x \in Objects : handle_'[x] = q /\ ~Failing(x)
      BY <1>1, <1>2, <2>2, <2>4 DEF OwnInv
    <2>6. \A x \in Objects : handle_'[x] # Null /\ ~Failing(x) =>
            life'[handle_'[x]] # "none" /\ handle_'[x] \notin detached'
      BY <1>2, <1>4, <1>5, <2>3, SMT DEF OwnInv
    <2>7. \A x, y \in Objects :
            handle_'[x] = handle_'[y] /\ handle_'[x] # Null /\ ~Failing(x) /\ ~Failing(y) => x = y
      BY <1>2, <2>3 DEF OwnInv
    <2>8. \A q \in detached' : life'[q] \notin {"none", "ended"}
      BY <1>2, <1>3, <1>4, <1>5 DEF OwnInv
    <2> QED
      BY <2>1, <2>5, <2>6, <2>7, <2>8 DEF OwnInv
  <1>9. CopyInv'
    <2>1. \A q \in Pthreads : life'[q] \in {"created", "running"}
                                <=> life[q] \in {"created", "running"}
      BY <1>4
    <2> QED
      BY <1>0, <2>1, CopyKept
  <1>10. MaskInv'
    <2>1. MaskOK(t)'
      BY LifeBefore, <1>0 DEF MaskOK
    <2>2. \A q \in Pthreads : life'[q] = "created" => life[q] = "created"
      BY <1>4
    <2> QED
      BY <1>0, <2>1, <2>2, MaskKept
  <1> QED
    BY <1>6, <1>7, <1>8, <1>9, <1>10 DEF LifeInv

\* A thread that returned ends; a detached one is gone with it.
LEMMA EndStep ==
    ASSUME LifeInv, NEW p \in Pthreads, End(p)
    PROVE  LifeInv'
  <1>0. /\ user' = user /\ own' = own /\ heap' = heap /\ th' = th /\ mask' = mask
        /\ handle_' = handle_ /\ terminated' = terminated /\ launches' = launches
        /\ life[p] = "returned" /\ detached' = detached \ {p}
        /\ life' = [life EXCEPT ![p] = IF p \in detached THEN "none" ELSE "ended"]
    BY DEF End, objects
  <1>1. p \in Runners /\ th[p].pc = "idle" /\ OnlyCall(p)
    BY <1>0, CreatedIdle DEF OnlyCall
  <1>2. /\ life \in [Pthreads -> {"none", "created", "running", "returned", "ended"}]
        /\ detached \subseteq Pthreads /\ OwnInv
    BY DEF LifeInv, LifeTypeOK
  <1>3. /\ life' \in [Pthreads -> {"none", "created", "running", "returned", "ended"}]
        /\ \A q \in Pthreads : q # p => life'[q] = life[q]
        /\ life'[p] = IF p \in detached THEN "none" ELSE "ended"
    BY <1>0, <1>2
  <1>4. LifeTypeOK'
    BY <1>0, <1>2, <1>3 DEF LifeInv, LifeTypeOK
  <1>5. CallInv'
    <2>1. CallOK(p)'
      BY LifeBefore, <1>0, <1>1 DEF CallOK
    <2>2. \A u \in Runners \ {p} : Awake(u) => Awake(u)'
      BY <1>3 DEF Awake
    <2> QED
      BY <1>0, <1>1, <2>1, <2>2, CallKept
  <1>6. OwnInv'
    <2>1. \A x \in Objects : Failing(x)' <=> Failing(x)
      BY <1>0 DEF Failing
    <2>2. \A q \in Pthreads : life'[q] # "none" /\ q \notin detached'
                                <=> life[q] # "none" /\ q \notin detached
      BY <1>0, <1>3
    <2>3. \A x \in Objects : handle_[x] # Null => handle_[x] \in Pthreads
      BY LifeBefore, <1>1
    <2>4. \A q \in detached' : life'[q] \notin {"none", "ended"}
      BY <1>0, <1>2, <1>3 DEF OwnInv
    <2> QED
      BY <1>0, <1>2, <2>1, <2>2, <2>3, <2>4 DEF OwnInv
  <1>7. CopyInv'
    <2>1. \A q \in Pthreads : life'[q] \in {"created", "running"}
                                <=> life[q] \in {"created", "running"}
      BY <1>0, <1>3
    <2> QED
      BY <1>0, <2>1, CopyKept
  <1>8. MaskInv'
    <2>1. MaskOK(p)'
      BY LifeBefore, <1>0, <1>1 DEF MaskOK
    <2>2. \A q \in Pthreads : life'[q] = "created" => life[q] = "created"
      BY <1>3
    <2> QED
      BY <1>0, <1>1, <2>1, <2>2, MaskKept
  <1> QED
    BY <1>4, <1>5, <1>6, <1>7, <1>8 DEF LifeInv

\* pthread_join() has returned: the handle is reset, or that of the source
\* takes its place.
LEMMA JoinDoneStep ==
    ASSUME LifeInv, NEW t \in Runners, JoinDone(t)
    PROVE  LifeInv'
  <1>0. /\ user' = user /\ detached' = detached /\ own' = own /\ heap' = heap
        /\ mask' = mask /\ terminated' = terminated /\ launches' = launches
        /\ th[t].pc = "join"
    BY DEF JoinDone, At
  <1>1. PICK o \in Objects : o = th[t].obj /\ user[o] = t /\ handle_[o] # Null
    BY LifeBefore, <1>0 DEF CallOK
  <1>2. PICK p \in Pthreads : p = handle_[o]
    BY LifeBefore, <1>1
  <1>3. PICK c \in Objects \cup {Null} : c = th[t].src
    BY LifeBefore DEF LifeFrames
  <1>4. /\ life[p] = "ended" /\ life' = [life EXCEPT ![p] = "none"]
        /\ handle_' = IF th[t].op = "assign"
                      THEN [handle_ EXCEPT ![o] = handle_[c], ![c] = Null]
                      ELSE [handle_ EXCEPT ![o] = Null]
    BY <1>1, <1>2, <1>3 DEF JoinDone, Exchanged
  <1>5. th[t].op = "assign" => c \in Objects /\ c # o /\ user[c] = t
    BY LifeBefore, <1>0, <1>1, <1>3 DEF CallOK
  <1>6. OnlyCall(t) /\ th' \in [Runners -> LifeFrames] /\ th'[t].pc = "idle" /\ th'[t].rc = 0
    BY LifeBefore, IdleFrame DEF JoinDone, Set, OnlyCall
  <1>7. th[t].rc = 0
    BY LifeBefore, <1>0 DEF CallOK
  <1>8. /\ life \in [Pthreads -> {"none", "created", "running", "returned", "ended"}]
        /\ detached \subseteq Pthreads /\ OwnInv
        /\ handle_ \in [Objects -> Pthreads \cup {Null}]
    BY DEF LifeInv, LifeTypeOK
  <1>9. /\ life' \in [Pthreads -> {"none", "created", "running", "returned", "ended"}]
        /\ life'[p] = "none" /\ \A q \in Pthreads : q # p => life'[q] = life[q]
    BY <1>4, <1>8
  <1>10. /\ handle_' \in [Objects -> Pthreads \cup {Null}]
         /\ \A x \in Objects : x # o /\ (th[t].op = "assign" => x # c) => handle_'[x] = handle_[x]
         /\ th[t].op # "assign" => handle_'[o] = Null
         /\ th[t].op = "assign" => handle_'[o] = handle_[c] /\ handle_'[c] = Null
    BY <1>4, <1>5, <1>8
  <1>11. LifeTypeOK'
    BY <1>0, <1>6, <1>8, <1>9, <1>10 DEF LifeInv, LifeTypeOK
  <1>12. CallInv'
    <2>1. CallOK(t)'
      BY <1>6 DEF CallOK
    <2>2. \A u \in Runners : Awake(u) => Awake(u)'
      BY <1>4, <1>9 DEF Awake
    <2> QED
      BY <1>0, <1>1, <1>5, <1>6, <1>10, <2>1, <2>2, CallKept
  <1>13. OwnInv'
    <2>1. \A x \in Objects : Failing(x)' <=> Failing(x)
      BY <1>6, <1>7, FailingKept
    <2>2. ~Failing(o) /\ (th[t].op = "assign" => ~Failing(c))
      BY <1>1, <1>5, <1>7, NotFailing
    <2>3. \A x \in Objects : handle_[x] = p /\ ~Failing(x) => x = o
      BY <1>2, <1>8, <2>2, NamesAssumption DEF OwnInv
    <2>4. \A x \in Objects : handle_'[x] # Null /\ ~Failing(x) =>
            \E y \in Objects : /\ handle_[y] = handle_'[x] /\ ~Failing(y) /\ y # o
                               /\ y = IF x = o THEN c ELSE x
      BY <1>5, <1>10, <2>2
    <2>5. \A q \in Pthreads : life'[q] # "none" /\ q \notin detached' =>
            \E x \in Objects : handle_'[x] = q /\ ~Failing(x)
      <3> SUFFICES ASSUME NEW q \in Pthreads, life'[q] # "none", q \notin detached'
                   PROVE  \E x \in Objects : handle_'[x] = q /\ ~Failing(x)
        OBVIOUS
      <3>1. q # p /\ life[q] # "none" /\ q \notin detached
        BY <1>0, <1>9
      <3>2. PICK x \in Objects : handle_[x] = q /\ ~Failing(x)
        BY <1>8, <3>1 DEF OwnInv
      <3>3. x # o
        BY <1>2, <3>1, <3>2
      <3>4. CASE th[t].op = "assign" /\ x = c
        BY <1>10, <2>2, <3>2, <3>4
      <3>5. CASE ~ (th[t].op = "assign" /\ x = c)
        BY <1>10, <3>2, <3>3, <3>5
      <3> QED
        BY <3>4, <3>5
    <2>6. \A x \in Objects : handle_'[x] # Null /\ ~Failing(x) =>
            life'[handle_'[x]] # "none" /\ handle_'[x] \notin detached'
      <3> SUFFICES ASSUME NEW x \in Objects, handle_'[x] # Null, ~Failing(x)
                   PROVE  life'[handle_'[x]] # "none" /\ handle_'[x] \notin detached'
        OBVIOUS
      <3>1. PICK y \in Objects : handle_[y] = handle_'[x] /\ ~Failing(y) /\ y # o
        BY <2>4
      <3>2. life[handle_[y]] # "none" /\ handle_[y] \notin detached /\ handle_[y] # p
        BY <1>8, <2>3, <3>1 DEF OwnInv
      <3>3. handle_[y] \in Pthreads
        BY <1>8, <3>1
      <3> QED
        BY <1>0, <1>9, <3>1, <3>2, <3>3
    <2>7. \A x, y \in Objects :
            handle_'[x] = handle_'[y] /\ handle_'[x] # Null /\ ~Failing(x) /\ ~Failing(y) => x = y
      <3> SUFFICES ASSUME NEW x \in Objects, NEW y \in Objects, handle_'[x] = handle_'[y],
                          handle_'[x] # Null, ~Failing(x), ~Failing(y)
                   PROVE  x = y
        OBVIOUS
      <3>1. PICK a \in Objects : /\ handle_[a] = handle_'[x] /\ ~Failing(a)
                                 /\ a = IF x = o THEN c ELSE x
        BY <2>4
      <3>2. PICK b \in Objects : /\ handle_[b] = handle_'[y] /\ ~Failing(b)
                                 /\ b = IF y = o THEN c ELSE y
        BY <2>4
      <3>3. a = b
        BY <1>8, <3>1, <3>2 DEF OwnInv
      <3>4. th[t].op = "assign" => x # c /\ y # c
        BY <1>10
      <3>5. th[t].op # "assign" => x # o /\ y # o
        BY <1>10
      <3> QED
        BY <3>1, <3>2, <3>3, <3>4, <3>5
    <2>8. \A q \in detached' : life'[q] \notin {"none", "ended"}
      BY <1>0, <1>4, <1>8, <1>9 DEF OwnInv
    <2> QED
      BY <2>1, <2>5, <2>6, <2>7, <2>8 DEF OwnInv
  <1>14. CopyInv'
    <2>1. \A q \in Pthreads : life'[q] \in {"created", "running"}
                                <=> life[q] \in {"created", "running"}
      BY <1>4, <1>9
    <2>2. \A u \in Runners : /\ Holds(th'[u]) <=> Holds(th[u])
                             /\ Holds(th[u]) => th'[u].st = th[u].st
      BY <1>0, <1>6 DEF Holds, OnlyCall
    <2> QED
      BY <1>0, <2>1, <2>2, CopyKept
  <1>15. MaskInv'
    <2>1. MaskOK(t)'
      BY <1>6 DEF MaskOK
    <2>2. \A q \in Pthreads : life'[q] = "created" => life[q] = "created"
      BY <1>9
    <2> QED
      BY <1>0, <1>6, <2>1, <2>2, MaskKept
  <1> QED
    BY <1>11, <1>12, <1>13, <1>14, <1>15 DEF LifeInv

\* The callable has returned: its copies are gone.
LEMMA ReturnsStep ==
    ASSUME LifeInv, NEW p \in Pthreads, Returns(p)
    PROVE  LifeInv'
  <1>0. /\ handle_' = handle_ /\ detached' = detached /\ th' = th /\ mask' = mask
        /\ terminated' = terminated /\ launches' = launches
        /\ th[p].pc = "idle" /\ life[p] = "running"
        /\ heap' = heap \ {own[p]} /\ own' = [own EXCEPT ![p] = Null]
        /\ life' = [life EXCEPT ![p] = "returned"]
    BY DEF Returns, At
  <1>1. p \in Runners /\ OnlyCall(p)
    BY <1>0 DEF OnlyCall, Runners
  <1>2. PICK m \in Mains : user' = [o \in Objects |-> IF user[o] = p THEN m ELSE user[o]]
    BY DEF Returns
  <1>3. /\ life \in [Pthreads -> {"none", "created", "running", "returned", "ended"}]
        /\ own \in [Pthreads -> States \cup {Null}] /\ heap \subseteq States
        /\ OwnInv /\ CopyInv
    BY DEF LifeInv, LifeTypeOK
  <1>4. /\ life' \in [Pthreads -> {"none", "created", "running", "returned", "ended"}]
        /\ life'[p] = "returned" /\ \A q \in Pthreads : q # p => life'[q] = life[q]
    BY <1>0, <1>3
  <1>5. LifeTypeOK'
    <2>1. user' \in [Objects -> Runners]
      BY LifeBefore, <1>1, <1>2 DEF Runners
    <2>2. own' \in [Pthreads -> States \cup {Null}] /\ heap' \subseteq States
      BY <1>0, <1>3
    <2> QED
      BY <1>0, <1>4, <2>1, <2>2 DEF LifeInv, LifeTypeOK
  <1>6. CallInv'
    <2>1. CallOK(p)'
      BY LifeBefore, <1>0, <1>1 DEF CallOK
    <2>2. \A u \in Runners \ {p} : Awake(u) => Awake(u)'
      BY <1>4 DEF Awake
    <2>3. \A o \in Objects : user[o] # p => user'[o] = user[o]
      BY <1>2
    <2> QED
      BY <1>0, <1>1, <2>1, <2>2, <2>3, CallKept
  <1>7. OwnInv'
    <2>1. \A o \in Objects : Failing(o)' <=> Failing(o)
      BY <1>0 DEF Failing
    <2>2. \A q \in Pthreads : /\ life'[q] = "none" <=> life[q] = "none"
                              /\ life'[q] = "ended" <=> life[q] = "ended"
      BY <1>0, <1>4
    <2>3. \A o \in Objects : handle_[o] # Null => handle_[o] \in Pthreads
      BY LifeBefore, <1>1
    <2>4. detached \subseteq Pthreads
      BY DEF LifeInv, LifeTypeOK
    <2> QED
      BY <1>0, <1>3, <2>1, <2>2, <2>3, <2>4 DEF OwnInv
  <1>8. CopyInv'
    <2>1. own[p] # Null /\ p \in Owners
      BY <1>0, <1>3 DEF CopyInv, Owners
    <2>2. Holders' = Holders /\ Owners' = Owners \ {p} /\ \A q \in Owners' : own'[q] = own[q]
      BY <1>0, <1>3 DEF Holders, Owners
    <2>3. heap' = {th'[u].st : u \in Holders'} \cup {own'[q] : q \in Owners'}
      <3>1. {own'[q] : q \in Owners'} = {own[q] : q \in Owners} \ {own[p]}
        BY <1>3, <2>1, <2>2, SMT DEF CopyInv
      <3>2. {th[u].st : u \in Holders} \ {own[p]} = {th[u].st : u \in Holders}
        BY <1>3, <2>1, SMT DEF CopyInv
      <3>3. heap = {th[u].st : u \in Holders} \cup {own[q] : q \in Owners}
        BY <1>3 DEF CopyInv
      <3>4. {th'[u].st : u \in Holders'} = {th[u].st : u \in Holders}
        BY <1>0, <2>2
      <3> QED
        BY <1>0, <3>1, <3>2, <3>3, <3>4
    <2>4. /\ \A u, v \in Holders' : th'[u].st = th'[v].st => u = v
          /\ \A q, r \in Owners' : own'[q] = own'[r] => q = r
          /\ \A u \in Holders', q \in Owners' : th'[u].st # own'[q]
      BY <1>0, <1>3, <2>2, SMT DEF CopyInv
    <2>5. own[p] \in heap
      BY <1>3, <2>1 DEF CopyInv
    <2>6. /\ IsFiniteSet(heap') /\ IsFiniteSet(Holders') /\ IsFiniteSet(Owners')
          /\ Cardinality(heap') = Cardinality(Holders') + Cardinality(Owners')
      <3>1. /\ IsFiniteSet(heap) /\ IsFiniteSet(Holders) /\ IsFiniteSet(Owners)
            /\ Cardinality(heap) = Cardinality(Holders) + Cardinality(Owners)
        BY <1>3 DEF CopyInv
      <3>2. /\ Cardinality(heap) \in Nat /\ Cardinality(Holders) \in Nat
            /\ Cardinality(Owners) \in Nat
        BY <3>1, FS_CardinalityType
      <3>3. /\ IsFiniteSet(heap') /\ Cardinality(heap') = Cardinality(heap) - 1
            /\ IsFiniteSet(Owners') /\ Cardinality(Owners') = Cardinality(Owners) - 1
        BY <1>0, <2>1, <2>2, <2>5, <3>1, FS_RemoveElement
      <3> QED
        BY <2>2, <3>1, <3>2, <3>3, SMT
    <2>7. \A q \in Pthreads : own'[q] # Null <=> life'[q] \in {"created", "running"}
      BY <1>0, <1>3, <1>4 DEF CopyInv
    <2> QED
      BY <2>3, <2>4, <2>6, <2>7 DEF CopyInv
  <1>9. MaskInv'
    <2>1. MaskOK(p)'
      BY LifeBefore, <1>0, <1>1 DEF MaskOK
    <2>2. \A q \in Pthreads : life'[q] = "created" => life[q] = "created"
      BY <1>4
    <2> QED
      BY <1>0, <1>1, <2>1, <2>2, MaskKept
  <1> QED
    BY <1>5, <1>6, <1>7, <1>8, <1>9 DEF LifeInv

\* When pthread_create() starts a thread the copy passes from the constructor
\* to the thread.
LEMMA CopyPassed ==
    ASSUME LifeInv, NEW t \in Holders, NEW p \in Pthreads, own[p] = Null, Null # th[t].st,
           Holders' = Holders \ {t}, \A u \in Holders \ {t} : th'[u].st = th[u].st,
           heap' = heap, own' = [own EXCEPT ![p] = th[t].st],
           \A q \in Pthreads : life'[q] \in {"created", "running"}
                                 <=> q = p \/ life[q] \in {"created", "running"}
    PROVE  CopyInv'
  <1>0. CopyInv /\ own \in [Pthreads -> States \cup {Null}]
    BY DEF LifeInv, LifeTypeOK
  <1>1. PICK s : s = th[t].st
    OBVIOUS
  <1>2. /\ p \notin Owners /\ Owners' = Owners \cup {p}
        /\ own'[p] = s /\ \A q \in Owners : own'[q] = own[q]
    BY <1>0, <1>1 DEF Owners
  <1>3. heap' = {th'[u].st : u \in Holders'} \cup {own'[q] : q \in Owners'}
    <2>1. {own'[q] : q \in Owners'} = {own[q] : q \in Owners} \cup {s}
      BY <1>2, SMT
    <2>2. {th[u].st : u \in Holders} = {th'[u].st : u \in Holders'} \cup {s}
      BY <1>1
    <2>3. heap = {th[u].st : u \in Holders} \cup {own[q] : q \in Owners}
      BY <1>0 DEF CopyInv
    <2> QED
      BY <2>1, <2>2, <2>3
  <1>4. /\ \A u, v \in Holders' : th'[u].st = th'[v].st => u = v
        /\ \A q, r \in Owners' : own'[q] = own'[r] => q = r
        /\ \A u \in Holders', q \in Owners' : th'[u].st # own'[q]
    BY <1>0, <1>1, <1>2, SMT DEF CopyInv
  <1>5. /\ IsFiniteSet(heap') /\ IsFiniteSet(Holders') /\ IsFiniteSet(Owners')
        /\ Cardinality(heap') = Cardinality(Holders') + Cardinality(Owners')
    <2>1. /\ IsFiniteSet(heap) /\ IsFiniteSet(Holders) /\ IsFiniteSet(Owners)
          /\ Cardinality(heap) = Cardinality(Holders) + Cardinality(Owners)
      BY <1>0 DEF CopyInv
    <2>2. /\ Cardinality(heap) \in Nat /\ Cardinality(Holders) \in Nat
          /\ Cardinality(Owners) \in Nat
      BY <2>1, FS_CardinalityType
    <2>3. IsFiniteSet(Owners') /\ Cardinality(Owners') = Cardinality(Owners) + 1
      BY <1>2, <2>1, FS_AddElement
    <2>4. IsFiniteSet(Holders') /\ Cardinality(Holders') = Cardinality(Holders) - 1
      BY <2>1, FS_RemoveElement
    <2> QED
      BY <2>1, <2>2, <2>3, <2>4, SMT
  <1>6. \A q \in Pthreads : own'[q] # Null <=> life'[q] \in {"created", "running"}
    BY <1>0 DEF CopyInv
  <1> QED
    BY <1>3, <1>4, <1>5, <1>6 DEF CopyInv

\* When it fails the constructor destroys the copy.
LEMMA CopyDropped ==
    ASSUME LifeInv, NEW t \in Holders,
           Holders' = Holders \ {t}, \A u \in Holders \ {t} : th'[u].st = th[u].st,
           heap' = heap \ {th[t].st}, own' = own, life' = life
    PROVE  CopyInv'
  <1>0. CopyInv
    BY DEF LifeInv
  <1>1. PICK s : s = th[t].st
    OBVIOUS
  <1>2. Owners' = Owners
    BY DEF Owners
  <1>3. heap' = {th'[u].st : u \in Holders'} \cup {own'[q] : q \in Owners'}
    <2>1. {th[u].st : u \in Holders} \ {s} = {th'[u].st : u \in Holders'}
      BY <1>0, <1>1, SMT DEF CopyInv
    <2>2. {own[q] : q \in Owners} \ {s} = {own[q] : q \in Owners}
      BY <1>0, <1>1, SMT DEF CopyInv
    <2>3. heap = {th[u].st : u \in Holders} \cup {own[q] : q \in Owners}
      BY <1>0 DEF CopyInv
    <2> QED
      BY <1>1, <1>2, <2>1, <2>2, <2>3
  <1>4. /\ \A u, v \in Holders' : th'[u].st = th'[v].st => u = v
        /\ \A q, r \in Owners' : own'[q] = own'[r] => q = r
        /\ \A u \in Holders', q \in Owners' : th'[u].st # own'[q]
    BY <1>0, <1>2, SMT DEF CopyInv
  <1>5. /\ IsFiniteSet(heap') /\ IsFiniteSet(Holders') /\ IsFiniteSet(Owners')
        /\ Cardinality(heap') = Cardinality(Holders') + Cardinality(Owners')
    <2>1. /\ IsFiniteSet(heap) /\ IsFiniteSet(Holders) /\ IsFiniteSet(Owners)
          /\ Cardinality(heap) = Cardinality(Holders) + Cardinality(Owners)
      BY <1>0 DEF CopyInv
    <2>2. /\ Cardinality(heap) \in Nat /\ Cardinality(Holders) \in Nat
          /\ Cardinality(Owners) \in Nat
      BY <2>1, FS_CardinalityType
    <2>3. th[t].st \in heap
      BY <1>0 DEF CopyInv
    <2>4. /\ IsFiniteSet(heap') /\ Cardinality(heap') = Cardinality(heap) - 1
          /\ IsFiniteSet(Holders') /\ Cardinality(Holders') = Cardinality(Holders) - 1
      BY <2>1, <2>3, FS_RemoveElement
    <2> QED
      BY <1>2, <2>1, <2>2, <2>4, SMT
  <1>6. \A q \in Pthreads : own'[q] # Null <=> life'[q] \in {"created", "running"}
    BY <1>0 DEF CopyInv
  <1> QED
    BY <1>3, <1>4, <1>5, <1>6 DEF CopyInv

\* pthread_create() writes the handle, and starts a thread or fails.
LEMMA CreateStep ==
    ASSUME LifeInv, NEW t \in Runners, Create(t)
    PROVE  LifeInv'
  <1>0. /\ th[t].pc = "create" /\ user' = user /\ detached' = detached /\ heap' = heap
        /\ terminated' = terminated /\ launches' = launches
    BY DEF Create, At
  <1>1. PICK o \in Objects : o = th[t].obj /\ user[o] = t /\ handle_[o] = Null
    BY LifeBefore, <1>0 DEF CallOK
  <1>2. th[t].rc = 0 /\ th[t].st \in States /\ Awake(t)
    BY LifeBefore, <1>0 DEF CallOK
  <1>3. /\ life \in [Pthreads -> {"none", "created", "running", "returned", "ended"}]
        /\ detached \subseteq Pthreads /\ own \in [Pthreads -> States \cup {Null}]
        /\ handle_ \in [Objects -> Pthreads \cup {Null}] /\ OwnInv
        /\ mask \in [Runners -> SUBSET Signals]
    BY DEF LifeInv, LifeTypeOK
  <1>4. ~Failing(o)
    BY <1>1, <1>2, NotFailing
  <1>5. ASSUME NEW p \in Pthreads, handle_' = [handle_ EXCEPT ![o] = p], life[p] = "none",
               life' = [life EXCEPT ![p] = "created"], own' = [own EXCEPT ![p] = th[t].st],
               mask' = [mask EXCEPT ![p] = mask[t]],
               Set(t, [th[t] EXCEPT !.pc = "restore"])
        PROVE  LifeInv'
    <2>0. PICK r : r = [th[t] EXCEPT !.pc = "restore"]
      OBVIOUS
    <2>1. /\ r \in LifeFrames /\ r.pc = "restore" /\ r.rc = 0 /\ r.obj = o /\ r.st = th[t].st
          /\ r.before = th[t].before /\ r.saved = th[t].saved
      BY LifeBefore, <1>1, <1>2, <2>0, SMTT(30) DEF LifeFrames
    <2>2. OnlyCall(t) /\ th' \in [Runners -> LifeFrames] /\ th'[t] = r
      BY LifeBefore, <1>5, <2>0, <2>1 DEF Set, OnlyCall
    <2>3. p \in Runners /\ th[p].pc = "idle" /\ p # t
      BY <1>0, <1>5, CreatedIdle
    <2>4. /\ life' \in [Pthreads -> {"none", "created", "running", "returned", "ended"}]
          /\ life'[p] = "created" /\ \A q \in Pthreads : q # p => life'[q] = life[q]
          /\ handle_' \in [Objects -> Pthreads \cup {Null}]
          /\ handle_'[o] = p /\ \A x \in Objects : x # o => handle_'[x] = handle_[x]
      BY <1>3, <1>5
    <2>5. /\ mask' \in [Runners -> SUBSET Signals]
          /\ mask'[p] = mask[t] /\ \A u \in Runners : u # p => mask'[u] = mask[u]
      BY LifeBefore, <1>3, <1>5, <2>3
    <2>6. LifeTypeOK'
      <3>1. own' \in [Pthreads -> States \cup {Null}]
        BY <1>2, <1>3, <1>5
      <3>2. user' \in [Objects -> Runners] /\ heap' \subseteq States
            /\ terminated' \in BOOLEAN /\ launches' \in 0..MaxLaunch
        BY <1>0 DEF LifeInv, LifeTypeOK
      <3>3. detached' \subseteq Pthreads
        BY <1>0, <1>3
      <3> QED
        BY <2>2, <2>4, <2>5, <3>1, <3>2, <3>3 DEF LifeTypeOK
    <2>7. CallInv'
      <3>1. \A u \in Runners : Awake(u) => Awake(u)'
        BY <1>5, <2>4 DEF Awake
      <3>2. CallOK(t)'
        BY <1>0, <1>1, <1>2, <2>1, <2>2, <3>1 DEF CallOK
      <3>3. \A x \in Objects : user[x] # t => handle_'[x] = handle_[x]
        BY <1>1, <2>4
      <3> QED
        BY <1>0, <2>2, <3>1, <3>2, <3>3, CallKept
    <2>8. OwnInv'
      <3>1. \A x \in Objects : Failing(x)' <=> Failing(x)
        BY <1>2, <2>1, <2>2, FailingKept
      <3>2. \A x \in Objects : handle_[x] = p => Failing(x)
        BY <1>3, <1>5, NamesAssumption, SMT DEF OwnInv
      <3>3. p \notin detached
        BY <1>3, <1>5 DEF OwnInv
      <3>4. \A q \in Pthreads : life'[q] # "none" /\ q \notin detached =>
              \E x \in Objects : handle_'[x] = q /\ ~Failing(x)
        <4> SUFFICES ASSUME NEW q \in Pthreads, life'[q] # "none", q \notin detached
                     PROVE  \E x \in Objects : handle_'[x] = q /\ ~Failing(x)
          OBVIOUS
        <4>1. CASE q = p
          BY <1>4, <2>4, <4>1
        <4>2. CASE q # p
          <5>1. PICK x \in Objects : handle_[x] = q /\ ~Failing(x)
            BY <1>3, <2>4, <4>2 DEF OwnInv
          <5>2. x # o
            BY <1>1, <5>1, NamesAssumption
          <5> QED
            BY <2>4, <5>1, <5>2
        <4> QED
          BY <4>1, <4>2
      <3>5. \A x \in Objects : handle_'[x] # Null /\ ~Failing(x) =>
              life'[handle_'[x]] # "none" /\ handle_'[x] \notin detached
        BY <1>3, <2>4, <3>2, <3>3, SMT DEF OwnInv
      <3>6. \A x, y \in Objects :
              handle_'[x] = handle_'[y] /\ handle_'[x] # Null /\ ~Failing(x) /\ ~Failing(y) => x = y
        BY <1>3, <2>4, <3>2 DEF OwnInv
      <3>7. \A q \in detached : life'[q] \notin {"none", "ended"}
        BY <1>3, <2>4, <3>3 DEF OwnInv
      <3> QED
        BY <1>0, <3>1, <3>4, <3>5, <3>6, <3>7 DEF OwnInv
    <2>9. CopyInv'
      <3>1. own[p] = Null
        BY <1>5 DEF LifeInv, CopyInv
      <3>2. t \in Holders /\ Holders' = Holders \ {t}
        BY <1>0, <2>1, <2>2 DEF Holders, Holds, OnlyCall
      <3>3. \A u \in Holders \ {t} : th'[u].st = th[u].st
        BY <2>2 DEF OnlyCall, Holders
      <3>4. \A q \in Pthreads : life'[q] \in {"created", "running"}
                                  <=> q = p \/ life[q] \in {"created", "running"}
        BY <2>4
      <3>5. Null # th[t].st
        BY <1>2, NamesAssumption
      <3> QED
        BY <1>0, <1>5, <3>1, <3>2, <3>3, <3>4, <3>5, CopyPassed
    <2>10. MaskInv'
      <3>1. start_mask \subseteq mask[t] /\ mask'[t] = mask[t]
        BY LifeBefore, <1>0, <2>3, <2>5 DEF MaskOK
      <3>2. MaskOK(t)'
        BY LifeBefore, <1>0, <2>1, <2>2, <3>1 DEF MaskOK
      <3>3. \A u \in Runners \ {t} : th[u].pc # "idle" => mask'[u] = mask[u]
        BY <2>3, <2>5
      <3>4. \A q \in Pthreads : life'[q] = "created" /\ ~ start_mask \subseteq mask'[q] =>
              life[q] = "created" /\ mask'[q] = mask[q]
        BY <2>4, <2>5, <3>1 DEF Runners
      <3> QED
        BY <2>2, <3>2, <3>3, <3>4, MaskKept
    <2> QED
      BY <2>6, <2>7, <2>8, <2>9, <2>10 DEF LifeInv
  <1>6. ASSUME NEW p \in Pthreads, handle_' = [handle_ EXCEPT ![o] = p],
               life' = life, own' = own, mask' = mask,
               Set(t, [th[t] EXCEPT !.pc = "restore", !.rc = 1])
        PROVE  LifeInv'
    <2>0. PICK r : r = [th[t] EXCEPT !.pc = "restore", !.rc = 1]
      OBVIOUS
    <2>1. /\ r \in LifeFrames /\ r.pc = "restore" /\ r.rc = 1 /\ r.obj = o /\ r.st = th[t].st
          /\ r.before = th[t].before /\ r.saved = th[t].saved
      <3>1. PICK M, f : M = SUBSET Signals /\ f = th[t]
        OBVIOUS
      <3>2. f \in LifeFrames
        BY LifeBefore, <3>1
      <3>3. LifeFrames =
              [pc : {"idle", "copy", "block", "create", "restore", "finish", "join"},
               obj : Objects \cup {Null}, src : Objects \cup {Null}, st : States \cup {Null},
               rc : 0..1, saved : M, before : M, op : {"none", "join", "destroy", "assign"}]
        BY <3>1 DEF LifeFrames
      <3>4. r = [f EXCEPT !.pc = "restore", !.rc = 1]
        BY <2>0, <3>1
      <3>5. /\ r \in LifeFrames /\ r.pc = "restore" /\ r.rc = 1 /\ r.obj = f.obj /\ r.st = f.st
            /\ r.before = f.before /\ r.saved = f.saved
        <4>1. f = [pc |-> f.pc, obj |-> f.obj, src |-> f.src, st |-> f.st, rc |-> f.rc,
                   saved |-> f.saved, before |-> f.before, op |-> f.op]
              /\ f.obj \in Objects \cup {Null} /\ f.src \in Objects \cup {Null}
              /\ f.st \in States \cup {Null} /\ f.saved \in M /\ f.before \in M
              /\ f.op \in {"none", "join", "destroy", "assign"}
          BY <3>2, <3>3
        <4>2. r = [pc |-> "restore", obj |-> f.obj, src |-> f.src, st |-> f.st, rc |-> 1,
                   saved |-> f.saved, before |-> f.before, op |-> f.op]
          BY <3>4, <4>1
        <4>3. 1 \in 0..1
          BY SMT
        <4> QED
          BY <3>3, <4>1, <4>2, <4>3
      <3> QED
        BY <1>1, <3>1, <3>5
    <2>2. OnlyCall(t) /\ th' \in [Runners -> LifeFrames] /\ th'[t] = r
      BY LifeBefore, <1>6, <2>0, <2>1 DEF Set, OnlyCall
    <2>3. /\ handle_' \in [Objects -> Pthreads \cup {Null}]
          /\ \A x \in Objects : x # o => handle_'[x] = handle_[x]
      BY <1>3, <1>6
    <2>4. LifeTypeOK'
      BY <1>0, <1>6, <2>2, <2>3 DEF LifeInv, LifeTypeOK
    <2>5. CallInv'
      <3>1. \A u \in Runners : Awake(u) => Awake(u)'
        BY <1>6 DEF Awake
      <3>2. CallOK(t)'
        BY <1>0, <1>1, <1>2, <2>1, <2>2, <3>1 DEF CallOK
      <3>3. \A x \in Objects : user[x] # t => handle_'[x] = handle_[x]
        BY <1>1, <2>3
      <3> QED
        BY <1>0, <2>2, <3>1, <3>2, <3>3, CallKept
    <2>6. OwnInv'
      <3>1. Failing(o)' /\ \A x \in Objects : x # o => (Failing(x)' <=> Failing(x))
        BY <1>1, <1>2, <2>1, <2>2, SMT DEF Failing, OnlyCall
      <3>2. \A q \in Pthreads : life[q] # "none" /\ q \notin detached =>
              \E x \in Objects : handle_'[x] = q /\ ~Failing(x) /\ x # o
        BY <1>1, <1>3, <2>3, NamesAssumption, SMT DEF OwnInv
      <3>3. \A x \in Objects : x # o /\ handle_'[x] # Null /\ ~Failing(x) =>
              life[handle_'[x]] # "none" /\ handle_'[x] \notin detached
        BY <1>3, <2>3 DEF OwnInv
      <3>4. \A x, y \in Objects :
              handle_'[x] = handle_'[y] /\ handle_'[x] # Null /\ ~Failing(x) /\ ~Failing(y)
                /\ x # o /\ y # o => x = y
        BY <1>3, <2>3 DEF OwnInv
      <3>5. \A q \in detached : life[q] \notin {"none", "ended"}
        BY <1>3 DEF OwnInv
      <3>6. life' = life /\ detached' = detached
        BY <1>0, <1>6
      <3> QED
        BY <3>1, <3>2, <3>3, <3>4, <3>5, <3>6 DEF OwnInv
    <2>7. CopyInv'
      <3>1. \A u \in Runners : /\ Holds(th'[u]) <=> Holds(th[u])
                               /\ Holds(th[u]) => th'[u].st = th[u].st
        BY <1>0, <2>1, <2>2, SMT DEF Holds, OnlyCall
      <3> QED
        BY <1>0, <1>6, <3>1, CopyKept
    <2>8. MaskInv'
      <3>1. MaskOK(t)'
        BY LifeBefore, <1>0, <1>6, <2>1, <2>2 DEF MaskOK
      <3> QED
        BY <1>6, <2>2, <3>1, MaskKept
    <2> QED
      BY <2>4, <2>5, <2>6, <2>7, <2>8 DEF LifeInv
  <1> QED
    BY <1>1, <1>5, <1>6 DEF Create

\* A failed launch() resets the handle and destroys the copies.
LEMMA FinishFailsStep ==
    ASSUME LifeInv, NEW t \in Runners, FinishFails(t)
    PROVE  LifeInv'
  <1>0. /\ th[t].pc = "finish" /\ th[t].rc # 0 /\ user' = user /\ detached' = detached
        /\ life' = life /\ own' = own /\ mask' = mask
        /\ terminated' = terminated /\ launches' = launches
        /\ heap' = heap \ {th[t].st}
    BY DEF FinishFails, At, threads
  <1>1. PICK o \in Objects : o = th[t].obj /\ user[o] = t
    BY LifeBefore, <1>0 DEF CallOK
  <1>2. /\ handle_ \in [Objects -> Pthreads \cup {Null}] /\ OwnInv
        /\ handle_' = [handle_ EXCEPT ![o] = Null]
    BY <1>1 DEF LifeInv, LifeTypeOK, FinishFails
  <1>3. OnlyCall(t) /\ th' \in [Runners -> LifeFrames] /\ th'[t].pc = "idle" /\ th'[t].rc = 0
    BY LifeBefore, IdleFrame DEF FinishFails, Set, OnlyCall
  <1>4. /\ handle_' \in [Objects -> Pthreads \cup {Null}] /\ handle_'[o] = Null
        /\ \A x \in Objects : x # o => handle_'[x] = handle_[x]
    BY <1>2
  <1>5. LifeTypeOK'
    BY <1>0, <1>3, <1>4 DEF LifeInv, LifeTypeOK
  <1>6. CallInv'
    <2>1. CallOK(t)'
      BY <1>3 DEF CallOK
    <2>2. \A x \in Objects : user[x] # t => handle_'[x] = handle_[x]
      BY <1>1, <1>4
    <2> QED
      BY <1>0, <1>3, <2>1, <2>2, CallKept DEF Awake
  <1>7. OwnInv'
    <2>1. Failing(o) /\ \A x \in Objects : x # o => (Failing(x)' <=> Failing(x))
      BY <1>0, <1>1, <1>3 DEF Failing, OnlyCall
    <2>2. \A q \in Pthreads : life[q] # "none" /\ q \notin detached =>
            \E x \in Objects : handle_'[x] = q /\ ~Failing(x) /\ x # o
      BY <1>2, <1>4, <2>1, SMT DEF OwnInv
    <2>3. \A x \in Objects : x # o /\ handle_'[x] # Null /\ ~Failing(x) =>
            life[handle_'[x]] # "none" /\ handle_'[x] \notin detached
      BY <1>2, <1>4 DEF OwnInv
    <2>4. \A x, y \in Objects :
            handle_'[x] = handle_'[y] /\ handle_'[x] # Null /\ ~Failing(x) /\ ~Failing(y)
              /\ x # o /\ y # o => x = y
      BY <1>2, <1>4 DEF OwnInv
    <2>5. \A q \in detached : life[q] \notin {"none", "ended"}
      BY <1>2 DEF OwnInv
    <2> QED
      BY <1>0, <1>4, <2>1, <2>2, <2>3, <2>4, <2>5 DEF OwnInv
  <1>8. CopyInv'
    <2>1. t \in Holders /\ Holders' = Holders \ {t}
      BY <1>0, <1>3 DEF Holders, Holds, OnlyCall
    <2>2. \A u \in Holders \ {t} : th'[u].st = th[u].st
      BY <1>3 DEF OnlyCall, Holders
    <2> QED
      BY <1>0, <2>1, <2>2, CopyDropped
  <1>9. MaskInv'
    <2>1. MaskOK(t)'
      BY <1>3 DEF MaskOK
    <2> QED
      BY <1>0, <1>3, <2>1, MaskKept
  <1> QED
    BY <1>5, <1>6, <1>7, <1>8, <1>9 DEF LifeInv

-----------------------------------------------------------------------------
(* The theorems about the life of a Thread.                                *)

\* Before the first launch() nothing is owned and nothing is copied.
LEMMA LifeStarts == LifeInit => LifeInv
  <1> SUFFICES ASSUME LifeInit
               PROVE  LifeInv
    OBVIOUS
  <1>1. \A t \in Runners : th[t] = Idle /\ th[t].pc = "idle" /\ th[t].rc = 0
    BY IdleFrame DEF LifeInit
  <1>2. LifeTypeOK
    <2>1. th \in [Runners -> LifeFrames]
      BY IdleFrame DEF LifeInit
    <2>2. user \in [Objects -> Runners] /\ 0 \in 0..MaxLaunch
      BY LaunchAssumption, SMT DEF LifeInit, Runners
    <2> QED
      BY <2>1, <2>2 DEF LifeInit, LifeTypeOK
  <1>3. CallInv
    BY <1>1 DEF CallInv, CallOK
  <1>4. OwnInv
    BY DEF LifeInit, OwnInv
  <1>5. CopyInv
    <2>1. Holders = {} /\ Owners = {} /\ heap = {}
      BY <1>1 DEF LifeInit, Holders, Owners, Holds
    <2>2. IsFiniteSet({}) /\ Cardinality({}) = 0
      BY FS_EmptySet
    <2>3. \A p \in Pthreads : own[p] = Null /\ life[p] = "none"
      BY DEF LifeInit
    <2>4. heap = {th[t].st : t \in Holders} \cup {own[p] : p \in Owners}
      BY <2>1
    <2>5. Cardinality(heap) = Cardinality(Holders) + Cardinality(Owners)
      BY <2>1, <2>2, SMT
    <2> QED
      BY <2>1, <2>2, <2>3, <2>4, <2>5 DEF CopyInv
  <1>6. MaskInv
    BY <1>1 DEF LifeInit, MaskInv, MaskOK, MaskedFromStart
  <1> QED
    BY <1>2, <1>3, <1>4, <1>5, <1>6 DEF LifeInv

\* The calls of a user and the steps of the threads keep the invariant.
LEMMA CallsStep ==
    ASSUME LifeInv, NEW t \in Runners, NEW o \in Objects, Calls(t, o)
    PROVE  LifeInv'
  <1>1. CASE Launch(t, o)
    BY <1>1, LaunchStep
  <1>2. CASE Join(t, o) \/ Destroy(t, o)
    BY <1>2, JoinCallStep DEF Join, Destroy
  <1>3. CASE JoinTerminates(t, o)
    BY <1>3, TerminateStep DEF JoinTerminates
  <1>4. CASE Detach(t, o)
    BY <1>4, DetachStep
  <1>5. ASSUME NEW src \in Objects, Move(t, o, src)
        PROVE  LifeInv'
    <2>1. /\ user[o] = t /\ user[src] = t /\ th[t].pc = "idle" /\ Null = handle_[o]
          /\ Exchange(o, src, Null)
          /\ UNCHANGED <<user, threads, heap, mask, th, terminated, launches>>
      BY <1>5 DEF Move, MayUse, At, Exchanged, Exchange
    <2> QED
      BY <2>1, ExchangeStep
  <1>6. ASSUME NEW src \in Objects, MoveAssign(t, o, src)
        PROVE  LifeInv'
    BY <1>6, JoinCallStep DEF MoveAssign
  <1>7. ASSUME NEW c \in Objects, Swap(t, o, c)
        PROVE  LifeInv'
    <2>1. PICK h : h = handle_[o]
      OBVIOUS
    <2>2. /\ user[o] = t /\ user[c] = t /\ th[t].pc = "idle" /\ Exchange(o, c, h)
          /\ UNCHANGED <<user, threads, heap, mask, th, terminated, launches>>
      BY <1>7, <2>1 DEF Swap, MayUse, At, Exchange
    <2> QED
      BY <2>1, <2>2, ExchangeStep
  <1>8. ASSUME NEW u \in Runners, Give(t, o, u)
        PROVE  LifeInv'
    BY <1>8, GiveStep
  <1> QED
    BY <1>1, <1>2, <1>3, <1>4, <1>5, <1>6, <1>7, <1>8 DEF Calls

\* Every step keeps the invariant.
LEMMA LifeStep == LifeInv /\ [LifeNext]_lifeVars => LifeInv'
  <1> SUFFICES ASSUME LifeInv, [LifeNext]_lifeVars
               PROVE  LifeInv'
    OBVIOUS
  <1>1. CASE UNCHANGED lifeVars
    <2>0. /\ handle_' = handle_ /\ user' = user /\ detached' = detached /\ own' = own
          /\ heap' = heap /\ th' = th /\ launches' = launches /\ life' = life /\ mask' = mask
          /\ terminated' = terminated
      BY <1>1 DEF lifeVars, objects, threads
    <2>1. LifeTypeOK'
      BY <2>0 DEF LifeInv, LifeTypeOK
    <2>2. CallInv'
      BY <2>0 DEF LifeInv, CallInv, CallOK, Awake
    <2>3. OwnInv'
      BY <2>0, OwnKept DEF Failing
    <2>4. CopyInv'
      BY <2>0, CopyKept
    <2>5. MaskInv'
      BY <2>0 DEF LifeInv, MaskInv, MaskOK, MaskedFromStart
    <2> QED
      BY <2>1, <2>2, <2>3, <2>4, <2>5 DEF LifeInv
  <1>2. ASSUME NEW t \in Runners, Constructs(t)
        PROVE  LifeInv'
    BY <1>2, CopyStateStep, BlockStep, CreateStep, RestoreStep, FinishStep, FinishFailsStep
       DEF Constructs
  <1>3. ASSUME NEW p \in Pthreads, Runs(p)
        PROVE  LifeInv'
    BY <1>3, SetMaskStep, ReturnsStep, EndStep DEF Runs
  <1>4. ASSUME NEW p \in Pthreads, Throw(p)
        PROVE  LifeInv'
    BY <1>4, TerminateStep DEF Throw
  <1> QED
    BY <1>1, <1>2, <1>3, <1>4, UnblockStep, JoinDoneStep, CallsStep DEF LifeNext

\* The inductive invariant of launch(), the start routine and the calls on a
\* Thread object, for any number of threads, objects and addresses.
THEOREM LifeInvariant == LifeSpec => []LifeInv
  <1>1. LifeInit => LifeInv
    BY LifeStarts
  <1>2. LifeInv /\ [LifeNext]_lifeVars => LifeInv'
    BY LifeStep
  <1> QED
    BY <1>1, <1>2, PTL DEF LifeSpec

\* Whatever is launched, joined, detached, moved, swapped, assigned and
\* destroyed, and in whatever order the creator and the new thread proceed, one
\* Thread object owns a thread, one owner its copies, and the masks are right.
THEOREM ThreadLifeCorrect == LifeSpec => []OneOwner
  <1>1. LifeInv => OneOwner
    <2> SUFFICES ASSUME LifeInv
                 PROVE  OneOwner
      OBVIOUS
    <2>1. OwnedOnce
      <3>0. OwnInv
        BY DEF LifeInv
      <3>1. ASSUME NEW p \in Pthreads, life[p] # "none", p \notin detached
            PROVE  Cardinality({o \in Objects : handle_[o] = p /\ ~Failing(o)}) = 1
        <4>1. PICK o \in Objects : handle_[o] = p /\ ~Failing(o)
          BY <3>0, <3>1 DEF OwnInv
        <4>2. {c \in Objects : handle_[c] = p /\ ~Failing(c)} = {o}
          BY <3>0, <4>1, NamesAssumption DEF OwnInv
        <4> QED
          BY <4>2, FS_Singleton
      <3> QED
        BY <3>0, <3>1 DEF OwnInv, OwnedOnce
    <2>2. CopiesExact
      <3>1. CopyInv
        BY DEF LifeInv
      <3>2. /\ Holders = {t \in Runners :
                  \/ th[t].pc \in {"block", "create"}
                  \/ th[t].pc \in {"restore", "finish"} /\ th[t].rc # 0}
            /\ Owners = {p \in Pthreads : own[p] # Null}
        BY DEF Holders, Owners, Holds
      <3> QED
        BY <3>1, <3>2 DEF CopiesExact, CopyInv
    <2>3. CreatorMaskKept
      <3> SUFFICES ASSUME NEW t \in Runners, th[t].pc # "idle"
                   PROVE  /\ mask[t] \ start_mask = th[t].before \ start_mask
                          /\ th[t].before \subseteq mask[t]
                          /\ th[t].pc \in {"copy", "block", "finish"} => mask[t] = th[t].before
        BY DEF CreatorMaskKept
      <3>1. MaskOK(t) /\ th[t] \in LifeFrames
        BY LifeBefore
      <3>2. th[t].pc \in {"copy", "block", "create", "restore", "finish", "join"}
        BY <3>1 DEF LifeFrames
      <3>3. mask[t] = th[t].before \/ mask[t] = th[t].before \cup start_mask
        BY <3>1, <3>2 DEF MaskOK
      <3> QED
        BY <3>1, <3>3 DEF MaskOK
    <2> QED
      BY <2>1, <2>2, <2>3 DEF LifeInv, MaskInv, OneOwner
  <1> QED
    BY <1>1, LifeInvariant, PTL
=============================================================================
