------------------------------ MODULE KeyQueue ------------------------------
(***************************************************************************)
(* The key-only queue, RingAtomicMapQueueMPMC<Key, void>.  The key of a     *)
(* slot is its whole state: NoKey is empty.  push works under the tail      *)
(* lock, pop and empty under the head lock, and the key atomic is all that  *)
(* passes between the two sides.  The variables are named as those of       *)
(* RingQueue with a k in front.                                             *)
(*                                                                          *)
(* A load of the key may return an older store of the other side, since     *)
(* nothing but that load orders the two: a consumer may read NoKey from a   *)
(* slot that was just filled, and a producer a key from one just cleared.   *)
(* Threads of one side follow each other through their lock, so no load     *)
(* goes back further than the last store of the thread's own side.          *)
(***************************************************************************)
EXTENDS QueueParameters

VARIABLES
  kkey,         \* kkey[p]: the key atomic of slot p
  khead, ktail,  \* head_.i, tail_.i (never reduced: Slot reduces them)
  kheadLock, ktailLock,
  kpc,
  ktries,       \* push's loop counter
  karg,         \* the key a push carries, or the one a pop has loaded
  kret,         \* the key the last pop of a thread returned
  kalive

kshared == <<kkey, khead, ktail, kheadLock, ktailLock>>
kvars == <<kkey, khead, ktail, kheadLock, ktailLock, kpc, ktries, karg, kret, kalive>>

KeyInit ==
  /\ kkey = [p \in Slots |-> NoKey]
  /\ khead = 0 /\ ktail = 0
  /\ kheadLock = NoThread /\ ktailLock = NoThread
  /\ kpc = [t \in Threads |-> "idle"]
  /\ ktries = [t \in Threads |-> 0]
  /\ karg = [t \in Threads |-> NoKey]
  /\ kret = [t \in Threads |-> NoKey]
  /\ kalive = TRUE

KeyGoto(t, l) == kpc' = [kpc EXCEPT ![t] = l]

\* A call ends: its locals die with it.
KeyReturn(t) ==
  /\ KeyGoto(t, "idle")
  /\ ktries' = [ktries EXCEPT ![t] = 0]
  /\ karg' = [karg EXCEPT ![t] = NoKey]

\* What a load by the tail's side may return.  Only a slot that has been
\* filled before has an older key to show.
ProducerSees(p) == {kkey[p]} \cup (IF ktail >= Capacity THEN Keys ELSE {})

\* What a load by the head's side may return.
ConsumerSees(p) == {kkey[p], NoKey}

------------------------------------------------------------------------------
(* push(key)                                                                *)

\* Mutant: tail_.l is not taken.
KeyPushLockNoLock(t, k) ==
  /\ kalive /\ ktail < MaxIndex
  /\ kpc[t] = "idle"
  /\ karg' = [karg EXCEPT ![t] = k]
  /\ KeyGoto(t, "push_load")
  /\ UNCHANGED <<kshared, ktries, kret, kalive>>

KeyPushLock(t, k) ==
  /\ kalive /\ ktail < MaxIndex
  /\ kpc[t] = "idle"
  /\ ktailLock = NoThread
  /\ ktailLock' = t
  /\ karg' = [karg EXCEPT ![t] = k]
  /\ KeyGoto(t, "push_load")
  /\ UNCHANGED <<kkey, khead, ktail, kheadLock, ktries, kret, kalive>>

\* The load finds the slot empty.
KeyPushSeesEmpty(t) ==
  /\ kpc[t] = "push_load"
  /\ NoKey \in ProducerSees(Slot(ktail))
  /\ KeyGoto(t, "push_store")
  /\ UNCHANGED <<kshared, ktries, karg, kret, kalive>>

\* The load finds a key: look again, up to NTRY times in all.
KeyPushSeesKey(t) ==
  /\ kpc[t] = "push_load"
  /\ ktries[t] + 1 < NTRY
  /\ ProducerSees(Slot(ktail)) # {NoKey}
  /\ ktries' = [ktries EXCEPT ![t] = @ + 1]
  /\ UNCHANGED <<kshared, kpc, karg, kret, kalive>>

\* The last look finds a key too: push returns false.
KeyPushFull(t) ==
  /\ kpc[t] = "push_load"
  /\ ktries[t] + 1 = NTRY
  /\ ProducerSees(Slot(ktail)) # {NoKey}
  /\ ktailLock' = NoThread
  /\ KeyReturn(t)
  /\ UNCHANGED <<kkey, khead, ktail, kheadLock, kret, kalive>>

\* The release store hands the element to the consumers ...
KeyPushStore(t) ==
  /\ kpc[t] = "push_store"
  /\ kkey' = [kkey EXCEPT ![Slot(ktail)] = karg[t]]
  /\ KeyGoto(t, "push_stored")
  /\ UNCHANGED <<khead, ktail, kheadLock, ktailLock, ktries, karg, kret, kalive>>

\* ... who may take it before tail_.i counts it.  push returns true.
KeyPushIncrement(t) ==
  /\ kpc[t] = "push_stored"
  /\ ktail' = ktail + 1
  /\ ktailLock' = NoThread
  /\ KeyReturn(t)
  /\ UNCHANGED <<kkey, khead, kheadLock, kret, kalive>>

------------------------------------------------------------------------------
(* pop() and empty()                                                        *)

KeyPopLock(t) ==
  /\ kalive
  /\ kpc[t] = "idle"
  /\ kheadLock = NoThread
  /\ kheadLock' = t
  /\ KeyGoto(t, "pop_load")
  /\ UNCHANGED <<kkey, khead, ktail, ktailLock, ktries, karg, kret, kalive>>

\* The load finds no key: pop returns Key{}.
KeyPopEmpty(t) ==
  /\ kpc[t] = "pop_load"
  /\ NoKey \in ConsumerSees(Slot(khead))
  /\ kheadLock' = NoThread
  /\ kret' = [kret EXCEPT ![t] = NoKey]
  /\ KeyReturn(t)
  /\ UNCHANGED <<kkey, khead, ktail, ktailLock, kalive>>

KeyPopLoad(t) ==
  /\ kpc[t] = "pop_load"
  /\ \E k \in ConsumerSees(Slot(khead)) \ {NoKey} : karg' = [karg EXCEPT ![t] = k]
  /\ KeyGoto(t, "pop_clear")
  /\ UNCHANGED <<kshared, ktries, kret, kalive>>

\* Mutant: the slot keeps its key.
KeyPopClearNot(t) ==
  /\ kpc[t] = "pop_clear"
  /\ kret' = [kret EXCEPT ![t] = karg[t]]
  /\ KeyGoto(t, "pop_cleared")
  /\ UNCHANGED <<kshared, ktries, karg, kalive>>

\* The release store gives the slot back to the producers; the key is the
\* caller's from here on.
KeyPopClear(t) ==
  /\ kpc[t] = "pop_clear"
  /\ kkey' = [kkey EXCEPT ![Slot(khead)] = NoKey]
  /\ kret' = [kret EXCEPT ![t] = karg[t]]
  /\ KeyGoto(t, "pop_cleared")
  /\ UNCHANGED <<khead, ktail, kheadLock, ktailLock, ktries, karg, kalive>>

KeyPopIncrement(t) ==
  /\ kpc[t] = "pop_cleared"
  /\ khead' = khead + 1
  /\ kheadLock' = NoThread
  /\ KeyReturn(t)
  /\ UNCHANGED <<kkey, ktail, ktailLock, kret, kalive>>

KeyEmptyLock(t) ==
  /\ kalive
  /\ kpc[t] = "idle"
  /\ kheadLock = NoThread
  /\ kheadLock' = t
  /\ KeyGoto(t, "empty_load")
  /\ UNCHANGED <<kkey, khead, ktail, ktailLock, ktries, karg, kret, kalive>>

\* The answer is advisory: the load changes nothing and no caller's step
\* depends on it.
KeyEmptyReturn(t) ==
  /\ kpc[t] = "empty_load"
  /\ kheadLock' = NoThread
  /\ KeyReturn(t)
  /\ UNCHANGED <<kkey, khead, ktail, ktailLock, kret, kalive>>

------------------------------------------------------------------------------

\* The destructor, on a queue nobody uses any more, clears [head_.i, tail_.i).
KeyDestroy ==
  /\ kalive
  /\ \A t \in Threads : kpc[t] = "idle"
  /\ kalive' = FALSE
  /\ kkey' = [p \in Slots |->
               IF \E i \in khead..(ktail - 1) : Slot(i) = p THEN NoKey ELSE kkey[p]]
  /\ UNCHANGED <<khead, ktail, kheadLock, ktailLock, kpc, ktries, karg, kret>>

KeyDestroyed == ~kalive /\ UNCHANGED kvars

KeyPushStep(t) ==
  KeyPushSeesEmpty(t) \/ KeyPushSeesKey(t) \/ KeyPushFull(t) \/ KeyPushStore(t) \/ KeyPushIncrement(t)

KeyPopStep(t) == KeyPopEmpty(t) \/ KeyPopLoad(t) \/ KeyPopClear(t) \/ KeyPopIncrement(t)

KeyNext ==
  \/ \E t \in Threads :
       \/ \E k \in Keys : KeyPushLock(t, k)
       \/ KeyPushStep(t)
       \/ KeyPopLock(t) \/ KeyPopStep(t)
       \/ KeyEmptyLock(t) \/ KeyEmptyReturn(t)
  \/ KeyDestroy
  \/ KeyDestroyed

KeySpec == KeyInit /\ [][KeyNext]_kvars

------------------------------------------------------------------------------
(* Properties                                                               *)

TailPcs == {"push_load", "push_store", "push_stored"}
HeadPcs == {"pop_load", "pop_clear", "pop_cleared", "empty_load"}

\* The types of the queue's fields and of the calls' locals.
KeyTypeOK ==
  /\ kkey \in [Slots -> Keys \cup {NoKey}]
  /\ khead \in Nat /\ ktail \in Nat
  /\ kheadLock \in Threads \cup {NoThread} /\ ktailLock \in Threads \cup {NoThread}
  /\ kpc \in [Threads -> {"idle"} \cup TailPcs \cup HeadPcs]
  /\ ktries \in [Threads -> 0..(NTRY - 1)]
  /\ karg \in [Threads -> Keys \cup {NoKey}]
  /\ kret \in [Threads -> Keys \cup {NoKey}]
  /\ kalive \in BOOLEAN

\* The elements of the queue are those whose key was stored and not cleared
\* yet, which is not what head_.i and tail_.i say inside a critical section.
First == khead + (IF \E t \in Threads : kpc[t] = "pop_cleared" THEN 1 ELSE 0)
End == ktail + (IF \E t \in Threads : kpc[t] = "push_stored" THEN 1 ELSE 0)

\* push() and pop() find their slots through indices that are behind the keys
\* while a critical section is under way, and the sides never look at each
\* other's index.  Still the slots that hold a key are exactly those of one
\* window of at most Capacity indices, so a pop gets ahead of tail_.i only by
\* the one element whose push is about to count it; after the destructor no
\* slot holds a key.
SlotsMatchWindow ==
  /\ KeyTypeOK
  /\ IF kalive
     THEN /\ First <= End /\ End <= First + Capacity
          /\ \A p \in Slots : kkey[p] # NoKey <=> \E i \in First..(End - 1) : Slot(i) = p
     ELSE \A p \in Slots : kkey[p] = NoKey
=============================================================================
