----------------------------- MODULE MCPrimitives -----------------------------
(* The three small synchronisation primitives checked in one run: a        *)
(* behaviour exercises one of them, its subject, and leaves the others at  *)
(* rest.                                                                   *)
EXTENDS SpinLock, SeqLock, AtomicMax

CONSTANTS t1, t2, t3, r1, r2, w1, w2

MCThreads == {t1, t2, t3}
MCCallers == {t1, t2}
MCReaders == {r1, r2}
MCWriters == {w1, w2}
MCValues == 0..2

VARIABLE subject

vars == <<subject, spinVars, seqVars, maxVars>>

Init ==
    /\ subject \in {"SpinLock", "SeqLock", "atomic_max"}
    /\ SpinInit
    /\ SeqInit
    /\ MaxInit

(* What a step of each subject leaves alone.                               *)
Spinning == subject = "SpinLock" /\ UNCHANGED <<subject, seqVars, maxVars>>
Sequencing == subject = "SeqLock" /\ UNCHANGED <<subject, spinVars, maxVars>>
Raising == subject = "atomic_max" /\ UNCHANGED <<subject, spinVars, seqVars>>

Next ==
    \/ \E t \in Threads :
        \/ \E try \in BOOLEAN : Enter(t, try) /\ Spinning
        \/ Test(t) /\ Spinning
        \/ Exchange(t) /\ Spinning
        \/ ShortPark(t) /\ Spinning
        \/ LongSleep(t) /\ Spinning
        \/ GiveUp(t) /\ Spinning
        \/ Refused(t) /\ Spinning
        \/ Unlock(t) /\ Spinning
    \/ \E w \in Writers :
        \/ Store(w) /\ Sequencing
        \/ Update(w) /\ Sequencing
        \/ UpdateCall(w) /\ Sequencing
        \/ BeginWrite(w) /\ Sequencing
        \/ StorePayload(w) /\ Sequencing
        \/ EndWrite(w) /\ Sequencing
        \/ Unguard(w) /\ Sequencing
    \/ \E r \in Readers :
        \/ Load(r) /\ Sequencing
        \/ \E i \in Counters : FirstLoad(r, i) /\ Sequencing
        \/ \E g \in Generations : PayloadLoad(r, g) /\ Sequencing
        \/ \E i \in Counters : SecondLoad(r, i) /\ Sequencing
    \/ \E t \in Callers :
        \/ \E v \in Values : Call(t, v) /\ Raising
        \/ LoadTarget(t) /\ Raising
        \/ NotGreater(t) /\ Raising
        \/ ExchangeWin(t) /\ Raising
        \/ ExchangeFail(t) /\ Raising
    \/ MaxDone /\ Raising

Spec == Init /\ [][Next]_vars

FairSpec == Spec /\ SpinFairness /\ SeqFairness /\ MaxFairness

(* No call of a primitive is left waiting: as long as a thread is inside   *)
(* lock() the lock is taken again and again, a SeqLock reader returns once *)
(* the writers stop, and atomic_max() returns.                             *)
Progress == SomebodyAcquires /\ LoadReturns /\ CallReturns

=============================================================================
