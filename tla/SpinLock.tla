------------------------------- MODULE SpinLock -------------------------------
(***************************************************************************)
(* The test-and-test-and-set spinlock of Spinlock/spinlock.h.  One attempt *)
(* is a relaxed load of the lock word (the test) and, when it reads free,  *)
(* an exchange (the test-and-set).  A round is Burst attempts; after a     *)
(* failed round the thread parks for a short while, and after Rounds such  *)
(* parks lock() sleeps for long and starts the count over, while           *)
(* try_lock() gives up.  The header has Burst = Rounds = 8.                *)
(***************************************************************************)
EXTENDS Integers, FiniteSets

CONSTANTS Threads,
          Burst,      \* attempts in one round
          Rounds      \* short parks in one back-off cycle

ASSUME BurstAssumption == Burst \in Nat \ {0}
ASSUME RoundsAssumption == Rounds \in Nat

VARIABLES lock_,      \* 0 free, 1 held
          pc,         \* per thread: where it is
          bounded,    \* per thread: inside try_lock(), not lock()
          attempt,    \* per thread: attempts made in this round
          spin_count, \* per thread: the local of that name
          parks       \* ghost: short parks since the call or the long sleep

spinVars == <<lock_, pc, bounded, attempt, spin_count, parks>>

Steps == {"idle", "test", "exchange", "round", "held", "failed"}
Trying == {"test", "exchange", "round"}

SpinInit ==
    /\ lock_ = 0
    /\ pc = [t \in Threads |-> "idle"]
    /\ bounded = [t \in Threads |-> FALSE]
    /\ attempt = [t \in Threads |-> 0]
    /\ spin_count = [t \in Threads |-> 0]
    /\ parks = [t \in Threads |-> 0]

Goto(t, from, to) ==
    /\ pc[t] = from
    /\ pc' = [pc EXCEPT ![t] = to]

(* lock() (try = FALSE) or try_lock() (try = TRUE) is entered.             *)
Enter(t, try) ==
    /\ Goto(t, "idle", "test")
    /\ bounded' = [bounded EXCEPT ![t] = try]
    /\ attempt' = [attempt EXCEPT ![t] = 0]
    /\ spin_count' = [spin_count EXCEPT ![t] = 0]
    /\ parks' = [parks EXCEPT ![t] = 0]
    /\ UNCHANGED lock_

(* The attempt failed: the next one, or the end of the round.              *)
Missed(t, from) ==
    /\ Goto(t, from, IF attempt[t] + 1 < Burst THEN "test" ELSE "round")
    /\ attempt' = [attempt EXCEPT ![t] = @ + 1]

(* The relaxed load, which may return an old value.                        *)
Test(t) ==
    /\ \E seen \in {0, 1} :
          IF seen = 0
          THEN Goto(t, "test", "exchange") /\ UNCHANGED attempt
          ELSE Missed(t, "test")
    /\ UNCHANGED <<lock_, bounded, spin_count, parks>>

\* Mutant: the value the exchange returns is not looked at.
ExchangeBlind(t) ==
    /\ Goto(t, "exchange", "held")
    /\ lock_' = 1
    /\ UNCHANGED <<bounded, attempt, spin_count, parks>>

(* The exchange always writes 1; what it returns decides.                  *)
Exchange(t) ==
    /\ IF lock_ = 0
       THEN Goto(t, "exchange", "held") /\ UNCHANGED attempt
       ELSE Missed(t, "exchange")
    /\ lock_' = 1
    /\ UNCHANGED <<bounded, spin_count, parks>>

(* A failed round with short parks left: park, ++spin_count, next round.   *)
ShortPark(t) ==
    /\ spin_count[t] < Rounds
    /\ Goto(t, "round", "test")
    /\ attempt' = [attempt EXCEPT ![t] = 0]
    /\ spin_count' = [spin_count EXCEPT ![t] = @ + 1]
    /\ parks' = [parks EXCEPT ![t] = @ + 1]
    /\ UNCHANGED <<lock_, bounded>>

(* None left, in lock(): reset to -1, sleep, ++spin_count, next round.     *)
LongSleep(t) ==
    /\ spin_count[t] >= Rounds
    /\ ~bounded[t]
    /\ Goto(t, "round", "test")
    /\ attempt' = [attempt EXCEPT ![t] = 0]
    /\ spin_count' = [spin_count EXCEPT ![t] = -1 + 1]
    /\ parks' = [parks EXCEPT ![t] = 0]
    /\ UNCHANGED <<lock_, bounded>>

(* None left, in try_lock(): return false.                                 *)
GiveUp(t) ==
    /\ spin_count[t] >= Rounds
    /\ bounded[t]
    /\ Goto(t, "round", "failed")
    /\ UNCHANGED <<lock_, bounded, attempt, spin_count, parks>>

(* The caller takes the answer false and goes on.                          *)
Refused(t) ==
    /\ Goto(t, "failed", "idle")
    /\ UNCHANGED <<lock_, bounded, attempt, spin_count, parks>>

\* Mutant: the store of 0 is missing.
UnlockForgets(t) ==
    /\ Goto(t, "held", "idle")
    /\ UNCHANGED <<lock_, bounded, attempt, spin_count, parks>>

Unlock(t) ==
    /\ Goto(t, "held", "idle")
    /\ lock_' = 0
    /\ UNCHANGED <<bounded, attempt, spin_count, parks>>

Attempt(t) == Test(t) \/ Exchange(t) \/ ShortPark(t) \/ LongSleep(t) \/ GiveUp(t)

SpinNext ==
    \E t \in Threads :
        \/ \E try \in BOOLEAN : Enter(t, try)
        \/ Attempt(t) \/ Refused(t) \/ Unlock(t)

SpinSpec == SpinInit /\ [][SpinNext]_spinVars

(* Threads inside lock(), try_lock() or a critical section keep running.   *)
SpinFairness ==
    \A t \in Threads : WF_spinVars(Attempt(t) \/ Unlock(t))

SpinFairSpec == SpinSpec /\ SpinFairness

-----------------------------------------------------------------------------
SpinTypeOK ==
    /\ lock_ \in {0, 1}
    /\ pc \in [Threads -> Steps]
    /\ bounded \in [Threads -> BOOLEAN]
    /\ attempt \in [Threads -> 0..Burst]
    /\ spin_count \in [Threads -> 0..Rounds]
    /\ parks \in [Threads -> Nat]

(* At most one thread is between a successful lock()/try_lock() and its    *)
(* unlock(), however stale the tests were, and the word reads 1 exactly    *)
(* while there is one: the lock is never left held by nobody.  lock()      *)
(* sleeps for long, and try_lock() gives up, after exactly Rounds short    *)
(* parks, in the first back-off cycle and in every later one.              *)
MutualExclusion ==
    /\ SpinTypeOK
    /\ \A t, u \in Threads : pc[t] = "held" /\ pc[u] = "held" => t = u
    /\ lock_ = 1 <=> \E t \in Threads : pc[t] = "held"
    /\ \A t \in Threads :
          pc[t] = "round" /\ spin_count[t] >= Rounds => parks[t] = Rounds

(* From here on a test reads the value the word has.                       *)
FreshTests ==
    \A t \in Threads :
        pc[t] = "test" /\ (pc'[t] # "test" \/ attempt'[t] # attempt[t]) =>
            (pc'[t] = "exchange" <=> lock_ = 0)

(* Somebody who waits in lock() is not left waiting by everybody: as long  *)
(* as a thread is inside lock(), the lock is taken again and again,        *)
(* provided unlock() becomes visible to the relaxed tests.                 *)
SomebodyAcquires ==
    <>[][FreshTests]_spinVars =>
        ((\E t \in Threads : pc[t] \in Trying /\ ~bounded[t])
            ~> (\E t \in Threads : pc[t] = "held"))

=============================================================================
