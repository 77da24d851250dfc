--------------------------- MODULE PrimitivesProofs ---------------------------
(***************************************************************************)
(* Proofs about the small components: the spinlock, the sequence lock and  *)
(* atomic_max(), for any number of threads and any bounds; and the stack   *)
(* sizes of Thread, for every width of size_t and every machine.           *)
(***************************************************************************)
EXTENDS SpinLock, SeqLock, AtomicMax, ThreadStack, TLAPS

\* The steps are Zenon's, except where SMT is cited.
USE Zenon

-----------------------------------------------------------------------------
(* SpinLock.                                                               *)

(* What MutualExclusion needs to be inductive: an attempt is only begun    *)
(* when the round has one left, and inside a call the ghost count of short *)
(* parks is the local spin_count.                                          *)
SpinInv ==
    /\ MutualExclusion
    /\ \A t \in Threads : pc[t] \in {"test", "exchange"} => attempt[t] < Burst
    /\ \A t \in Threads : pc[t] \in Trying => parks[t] = spin_count[t]

USE BurstAssumption, RoundsAssumption

\* The free lock satisfies the invariant.
LEMMA SpinInitial == SpinInit => SpinInv
  BY SMT DEF SpinInit, SpinInv, MutualExclusion, SpinTypeOK, Steps, Trying

(* An attempt that failed touches nobody else and holds nothing.           *)
LEMMA SpinMissed ==
    ASSUME SpinInv, NEW t \in Threads, NEW from \in {"test", "exchange"}, Missed(t, from),
           UNCHANGED <<lock_, bounded, spin_count, parks>>
    PROVE  SpinInv'
  <1>1. pc[t] = from /\ attempt[t] < Burst /\ attempt[t] + 1 \in 0..Burst
    BY SMT DEF SpinInv, MutualExclusion, SpinTypeOK, Missed, Goto
  <1>2. SpinTypeOK'
    BY <1>1 DEF SpinInv, MutualExclusion, SpinTypeOK, Missed, Goto, Steps
  <1>3. \A u \in Threads : (pc'[u] = "held") <=> (pc[u] = "held")
    BY <1>1 DEF SpinInv, MutualExclusion, SpinTypeOK, Missed, Goto
  <1>4. \A u \in Threads : pc'[u] \in {"test", "exchange"} => attempt'[u] < Burst
    BY <1>1 DEF SpinInv, MutualExclusion, SpinTypeOK, Missed, Goto
  <1>5. \A u \in Threads : pc'[u] \in Trying => parks'[u] = spin_count'[u]
    BY <1>1 DEF SpinInv, MutualExclusion, SpinTypeOK, Missed, Goto, Trying
  <1>6. \A u \in Threads : pc'[u] = "round" /\ spin_count'[u] >= Rounds => parks'[u] = Rounds
    BY <1>2, <1>5, SMT DEF SpinTypeOK, Trying
  <1> QED
    BY <1>2, <1>3, <1>4, <1>5, <1>6 DEF SpinInv, MutualExclusion

\* Every step keeps the invariant.
LEMMA SpinStep == SpinInv /\ [SpinNext]_spinVars => SpinInv'
  <1> SUFFICES ASSUME SpinInv, [SpinNext]_spinVars
               PROVE  SpinInv'
    OBVIOUS
  <1> USE DEF SpinInv, MutualExclusion, SpinTypeOK, Steps, Trying
  <1>1. ASSUME NEW t \in Threads, NEW try \in BOOLEAN, Enter(t, try)
        PROVE  SpinInv'
    BY <1>1, SMT DEF Enter, Goto
  <1>2. ASSUME NEW t \in Threads, Test(t)
        PROVE  SpinInv'
    <2>1. CASE Goto(t, "test", "exchange") /\ UNCHANGED attempt
      BY <1>2, <2>1 DEF Test, Goto
    <2>2. CASE Missed(t, "test")
      BY <1>2, <2>2, SpinMissed DEF Test
    <2> QED
      BY <1>2, <2>1, <2>2 DEF Test
  <1>3. ASSUME NEW t \in Threads, Exchange(t)
        PROVE  SpinInv'
    <2>1. CASE lock_ = 0
      BY <1>3, <2>1, SMT DEF Exchange, Goto
    <2>2. CASE lock_ # 0
      BY <1>3, <2>2, SpinMissed DEF Exchange
    <2> QED
      BY <2>1, <2>2
  <1>4. ASSUME NEW t \in Threads, ShortPark(t)
        PROVE  SpinInv'
    BY <1>4, SMT DEF ShortPark, Goto
  <1>5. ASSUME NEW t \in Threads, LongSleep(t)
        PROVE  SpinInv'
    BY <1>5, SMT DEF LongSleep, Goto
  <1>6. ASSUME NEW t \in Threads, GiveUp(t)
        PROVE  SpinInv'
    BY <1>6 DEF GiveUp, Goto
  <1>7. ASSUME NEW t \in Threads, Refused(t)
        PROVE  SpinInv'
    BY <1>7 DEF Refused, Goto
  <1>8. ASSUME NEW t \in Threads, Unlock(t)
        PROVE  SpinInv'
    BY <1>8, SMT DEF Unlock, Goto
  <1>9. CASE UNCHANGED spinVars
    BY <1>9 DEF spinVars
  <1> QED
    BY <1>1, <1>2, <1>3, <1>4, <1>5, <1>6, <1>7, <1>8, <1>9 DEF SpinNext, Attempt

(* lock(), try_lock() and unlock() exclude each other, whatever the tests  *)
(* read, and back off after exactly Rounds short parks.                    *)
THEOREM SpinLockCorrect == SpinSpec => []MutualExclusion
  <1>1. SpinInv => MutualExclusion
    BY DEF SpinInv
  <1> QED
    BY <1>1, SpinInitial, SpinStep, PTL DEF SpinSpec

-----------------------------------------------------------------------------
(* SeqLock.                                                                *)

InWrite(w) == wpc[w] \in {"payload", "end"}

(* The writers' half: the lock is held by the writer that is in a call,    *)
(* the counter is twice the generation but for the two stores in between,  *)
(* and every store carries with it what the header says it does.           *)
WriterInv ==
    /\ \A w \in Writers : wpc[w] # "idle" <=> holder = w
    /\ \A w \in Writers :
          /\ wpc[w] \in {"locked", "begin", "payload"} => payload_ < MaxWrites
          /\ wpc[w] \in {"begin", "payload"} => basis[w] = payload_
          /\ wpc[w] = "payload" => seq_ = 2 * payload_ + 1
          /\ wpc[w] = "end" => seq_ = 2 * payload_ - 1
    /\ (\A w \in Writers : ~InWrite(w)) => seq_ = 2 * payload_
    /\ \A g \in 1..payload_ : payView[g] = 2 * g - 1
    /\ \A k \in Generations : 2 * k <= seq_ => seqView[2 * k] = k

(* The readers' half, which bounds the generation loaded from below by the *)
(* first load of the counter and from above by the second.                 *)
ReaderInv ==
    \A r \in Readers :
        /\ snap[r].seq = 2 * snap[r].gen
        /\ rpc[r] \in {"payload", "second"} => Even(before[r])
        /\ rpc[r] = "payload" => before[r] <= 2 * knows[r].gen
        /\ rpc[r] = "second" => /\ before[r] <= 2 * got[r]
                                /\ 2 * got[r] - 1 <= knows[r].seq

WriterTypes ==
    /\ seq_ \in Counters /\ payload_ \in Generations
    /\ seqView \in [Counters -> Generations] /\ payView \in [Generations -> Counters]
    /\ holder \in Writers \cup {NoWriter}
    /\ wpc \in [Writers -> WriterSteps] /\ basis \in [Writers -> Generations]

ReaderTypes ==
    /\ rpc \in [Readers -> ReaderSteps]
    /\ before \in [Readers -> Counters] /\ got \in [Readers -> Generations]
    /\ knows \in [Readers -> [seq : Counters, gen : Generations]]
    /\ snap \in [Readers -> [seq : Counters, gen : Generations]]

SeqInv == WriterTypes /\ ReaderTypes /\ WriterInv /\ ReaderInv

USE WritesAssumption, NoWriterAssumption

\* Before the first write the invariant holds.
LEMMA SeqInitial == SeqInit => SeqInv
  <1> SUFFICES ASSUME SeqInit
               PROVE  SeqInv
    OBVIOUS
  <1> USE DEF SeqInit, Counters, Generations
  <1>1. WriterTypes
    BY SMT DEF WriterTypes, WriterSteps
  <1>2. ReaderTypes
    BY SMT DEF ReaderTypes, ReaderSteps
  <1>3. WriterInv
    BY SMT DEF WriterInv, InWrite
  <1>4. ReaderInv
    BY SMT DEF ReaderInv, Even
  <1> QED
    BY <1>1, <1>2, <1>3, <1>4 DEF SeqInv

(* A writer's step leaves the readers alone.                               *)
LEMMA ReadersKept ==
    ASSUME SeqInv, UNCHANGED readerVars
    PROVE  ReaderTypes' /\ ReaderInv'
  BY DEF SeqInv, ReaderTypes, ReaderInv, readerVars

(* A writer's step.                                                        *)
LEMMA WriterStep ==
    ASSUME SeqInv, NEW w \in Writers, WriterNext(w)
    PROVE  SeqInv'
  <1>0. WriterTypes /\ WriterInv
    BY DEF SeqInv
  <1> USE DEF WriterTypes, WriterSteps, Generations, Counters, Move
  <1>1. CASE Store(w)
    <2>1. WriterTypes'
      BY <1>0, <1>1 DEF Store, Lock
    <2>2. WriterInv'
      BY <1>0, <1>1 DEF WriterInv, InWrite, Store, Lock
    <2>3. UNCHANGED readerVars
      BY <1>1 DEF Store
    <2> QED
      BY <2>1, <2>2, <2>3, ReadersKept DEF SeqInv
  <1>2. CASE Update(w)
    <2>1. WriterTypes'
      BY <1>0, <1>2 DEF Update, Lock
    <2>2. WriterInv'
      BY <1>0, <1>2 DEF WriterInv, InWrite, Update, Lock
    <2>3. UNCHANGED readerVars
      BY <1>2 DEF Update
    <2> QED
      BY <2>1, <2>2, <2>3, ReadersKept DEF SeqInv
  <1>3. CASE UpdateCall(w)
    <2>1. WriterTypes'
      BY <1>0, <1>3 DEF UpdateCall
    <2>2. WriterInv'
      BY <1>0, <1>3, ZenonT(40) DEF WriterInv, InWrite, UpdateCall
    <2>3. UNCHANGED readerVars
      BY <1>3 DEF UpdateCall
    <2> QED
      BY <2>1, <2>2, <2>3, ReadersKept DEF SeqInv
  <1>4. CASE BeginWrite(w)
    <2>1. seq_ = 2 * payload_ /\ payload_ < MaxWrites
      BY <1>0, <1>4 DEF WriterInv, InWrite, BeginWrite
    <2>2. seq_ + 1 = 2 * payload_ + 1 /\ seq_ + 1 \in Counters
      BY <1>0, <2>1, SMT
    <2>3. WriterTypes'
      BY <1>0, <1>4, <2>2 DEF BeginWrite
    <2>4. \A k \in Generations : 2 * k <= seq_ + 1 => 2 * k <= seq_
      BY <2>1, <1>0, SMT
    <2>5. WriterInv'
      BY <1>0, <1>4, <2>2, <2>4, ZenonT(40) DEF WriterInv, InWrite, BeginWrite
    <2>6. UNCHANGED readerVars
      BY <1>4 DEF BeginWrite
    <2> QED
      BY <2>3, <2>5, <2>6, ReadersKept DEF SeqInv
  <1>5. CASE StorePayload(w)
    <2>1. seq_ = 2 * payload_ + 1 /\ payload_ < MaxWrites
      BY <1>0, <1>5 DEF WriterInv, StorePayload
    <2>2. payload_ + 1 \in Generations /\ seq_ = 2 * (payload_ + 1) - 1
      BY <1>0, <2>1, SMT
    <2>3. WriterTypes'
      BY <1>0, <1>5, <2>2 DEF StorePayload
    <2>4. \A g \in 1..(payload_ + 1) : payView'[g] = 2 * g - 1
      <3> TAKE g \in 1..(payload_ + 1)
      <3>1. CASE g = payload_ + 1
        BY <1>0, <1>5, <2>2, <3>1 DEF StorePayload
      <3>2. CASE g \in 1..payload_
        BY <1>0, <1>5, <3>2, SMT DEF StorePayload, WriterInv
      <3> QED
        BY <1>0, <3>1, <3>2, SMT
    <2>5. \A v \in Writers : v # w => wpc[v] = "idle"
      BY <1>0, <1>5 DEF StorePayload, WriterInv
    <2>6. WriterInv'
      BY <1>0, <1>5, <2>2, <2>4, <2>5, ZenonT(40) DEF WriterInv, InWrite, StorePayload
    <2>7. UNCHANGED readerVars
      BY <1>5 DEF StorePayload
    <2> QED
      BY <2>3, <2>6, <2>7, ReadersKept DEF SeqInv
  <1>6. CASE EndWrite(w)
    <2>1. seq_ = 2 * payload_ - 1
      BY <1>0, <1>6 DEF WriterInv, EndWrite
    <2>2. seq_ + 1 = 2 * payload_ /\ seq_ + 1 \in Counters
      BY <1>0, <2>1, SMT
    <2>3. WriterTypes'
      BY <1>0, <1>6, <2>2 DEF EndWrite
    <2>4. \A k \in Generations : 2 * k <= seq_ + 1 => seqView'[2 * k] = k
      <3> TAKE k \in Generations
      <3>1. CASE k = payload_
        BY <1>0, <1>6, <2>2, <3>1 DEF EndWrite
      <3>2. CASE k # payload_ /\ 2 * k <= seq_ + 1
        <4>0. k \in Nat /\ k <= MaxWrites /\ payload_ \in Nat /\ seq_ \in Nat
          BY <1>0, SMT
        <4>1. 2 * k <= seq_ /\ 2 * k \in Counters /\ 2 * k # seq_ + 1
          BY <4>0, <2>2, <3>2, SMT
        <4>2. seqView'[2 * k] = seqView[2 * k]
          BY <1>0, <1>6, <4>1 DEF EndWrite
        <4> QED
          BY <1>0, <4>1, <4>2 DEF WriterInv
      <3> QED
        BY <3>1, <3>2
    <2>5. \A v \in Writers : v # w => wpc[v] = "idle"
      BY <1>0, <1>6 DEF EndWrite, WriterInv
    <2>6. WriterInv'
      BY <1>0, <1>6, <2>2, <2>4, <2>5, ZenonT(40) DEF WriterInv, InWrite, EndWrite
    <2>7. UNCHANGED readerVars
      BY <1>6 DEF EndWrite
    <2> QED
      BY <2>3, <2>6, <2>7, ReadersKept DEF SeqInv
  <1>7. CASE Unguard(w)
    <2>1. WriterTypes'
      BY <1>0, <1>7 DEF Unguard
    <2>2. WriterInv'
      BY <1>0, <1>7, ZenonT(40) DEF WriterInv, InWrite, Unguard
    <2>3. UNCHANGED readerVars
      BY <1>7 DEF Unguard
    <2> QED
      BY <2>1, <2>2, <2>3, ReadersKept DEF SeqInv
  <1> QED
    BY <1>1, <1>2, <1>3, <1>4, <1>5, <1>6, <1>7 DEF WriterNext, WriteStep

(* A reader's step leaves the writers alone.                               *)
LEMMA WritersKept ==
    ASSUME SeqInv, UNCHANGED writerVars
    PROVE  WriterTypes' /\ WriterInv'
  BY DEF SeqInv, WriterTypes, WriterInv, InWrite, writerVars

(* What a store of the counter carries: generation k with the counter 2k.  *)
LEMMA CounterCarries ==
    ASSUME SeqInv, NEW i \in Counters, i <= seq_, Even(i)
    PROVE  2 * seqView[i] = i
  <1>1. PICK k \in Nat : i = 2 * k
    BY SMT DEF Even, Counters
  <1>2. k \in Generations
    BY <1>1, SMT DEF Counters, Generations
  <1>3. seqView[2 * k] = k
    BY <1>1, <1>2 DEF SeqInv, WriterInv
  <1> QED
    BY <1>1, <1>3

(* The three loads of load_validated().  An even counter 2k brings         *)
(* generation k with it, and generation g the counter 2g - 1: the second   *)
(* load agrees with the first only if g = k.                               *)
LEMMA ReaderStep ==
    ASSUME SeqInv, NEW r \in Readers, ReaderNext(r)
    PROVE  SeqInv'
  <1>0. WriterTypes /\ WriterInv /\ ReaderTypes /\ ReaderInv
    BY DEF SeqInv
  <1> USE DEF ReaderTypes, ReaderSteps
  <1>1. CASE Load(r)
    <2>1. ReaderTypes'
      BY <1>0, <1>1 DEF Load
    <2>2. ReaderInv'
      BY <1>0, <1>1 DEF ReaderInv, Load
    <2> QED
      BY <1>1, <2>1, <2>2, WritersKept DEF Load, SeqInv
  <1>2. ASSUME NEW i \in Counters, FirstLoad(r, i)
        PROVE  SeqInv'
    <2>1. seqView[i] \in Generations /\ Later(knows[r].gen, seqView[i]) \in Generations
      BY <1>0 DEF WriterTypes, Later
    <2>2. ReaderTypes'
      BY <1>0, <1>2, <2>1 DEF FirstLoad
    <2>3. Even(i) => i <= 2 * Later(knows[r].gen, seqView[i])
      <3>1. i <= seq_
        BY <1>0, <1>2, SMT DEF FirstLoad, Counters, WriterTypes
      <3>2. Even(i) => 2 * seqView[i] = i
        BY <3>1, CounterCarries
      <3>3. knows[r].gen \in Nat /\ seqView[i] \in Nat
        BY <1>0, <2>1, SMT DEF Generations
      <3> QED
        BY <3>2, <3>3, SMT DEF Later, Counters
    <2>4. ReaderInv'
      BY <1>0, <1>2, <2>3 DEF ReaderInv, FirstLoad
    <2> QED
      BY <1>2, <2>2, <2>4, WritersKept DEF FirstLoad, SeqInv
  <1>3. ASSUME NEW g \in Generations, PayloadLoad(r, g)
        PROVE  SeqInv'
    <2>1. payView[g] \in Counters /\ Later(knows[r].seq, payView[g]) \in Counters
      BY <1>0 DEF WriterTypes, Later
    <2>2. ReaderTypes'
      BY <1>0, <1>3, <2>1 DEF PayloadLoad
    <2>3. 2 * g - 1 <= payView[g]
      BY <1>0, <1>3, <2>1, SMT DEF WriterInv, WriterTypes, PayloadLoad, Generations, Counters
    <2>4. 2 * g - 1 <= Later(knows[r].seq, payView[g])
      BY <1>0, <2>1, <2>3, SMT DEF Later, Counters, Generations
    <2>5. rpc[r] = "payload" /\ knows[r].gen <= g
      BY <1>0, <1>3, SMT DEF PayloadLoad, Generations, WriterTypes
    <2>6. Even(before[r]) /\ before[r] <= 2 * g
      BY <1>0, <2>5, SMT DEF ReaderInv, Generations, Counters
    <2>7. ReaderInv'
      BY <1>0, <1>3, <2>4, <2>6 DEF ReaderInv, PayloadLoad
    <2> QED
      BY <1>3, <2>2, <2>7, WritersKept DEF PayloadLoad, SeqInv
  <1>4. ASSUME NEW i \in Counters, SecondLoad(r, i)
        PROVE  SeqInv'
    <2>1. ReaderTypes'
      <3>1. knows' \in [Readers -> [seq : Counters, gen : Generations]]
        <4>1. knows[r] \in [seq : Counters, gen : Generations]
          BY <1>0
        <4>2. [knows[r] EXCEPT !.seq = i] \in [seq : Counters, gen : Generations]
          BY <4>1
        <4>3. knows' = [knows EXCEPT ![r] = [knows[r] EXCEPT !.seq = i]]
          BY <1>4 DEF SecondLoad
        <4> QED
          BY <1>0, <4>2, <4>3
      <3>2. snap' \in [Readers -> [seq : Counters, gen : Generations]]
        <4>1. [seq |-> i, gen |-> got[r]] \in [seq : Counters, gen : Generations]
          BY <1>0
        <4> QED
          BY <1>0, <1>4, <4>1 DEF SecondLoad
      <3>3. rpc' \in [Readers -> ReaderSteps]
        BY <1>0, <1>4 DEF SecondLoad
      <3> QED
        BY <1>0, <1>4, <3>1, <3>2, <3>3 DEF SecondLoad
    <2>2. knows[r].seq <= i /\ rpc[r] = "second"
      BY <1>0, <1>4, SMT DEF SecondLoad, Counters, WriterTypes
    <2>3. i = before[r] => i = 2 * got[r]
      <3>1. got[r] \in Nat /\ knows[r].seq \in Nat
        BY <1>0, SMT DEF Generations, Counters
      <3>2. /\ Even(before[r]) /\ before[r] <= 2 * got[r]
            /\ 2 * got[r] - 1 <= knows[r].seq
        BY <1>0, <2>2 DEF ReaderInv
      <3> QED
        BY <2>2, <3>1, <3>2, SMT DEF Even, Counters
    <2>4. ReaderInv'
      BY <1>0, <1>4, <2>3, SMT DEF ReaderInv, SecondLoad
    <2> QED
      BY <1>4, <2>1, <2>4, WritersKept DEF SecondLoad, SeqInv
  <1> QED
    BY <1>1, <1>2, <1>3, <1>4 DEF ReaderNext

\* Every step keeps the invariant.
LEMMA SeqStep == SeqInv /\ [SeqNext]_seqVars => SeqInv'
  <1> SUFFICES ASSUME SeqInv, [SeqNext]_seqVars
               PROVE  SeqInv'
    OBVIOUS
  <1>1. CASE SeqNext
    BY <1>1, WriterStep, ReaderStep DEF SeqNext
  <1>2. CASE UNCHANGED seqVars
    BY <1>2, ReadersKept, WritersKept DEF seqVars, readerVars, writerVars, SeqInv
  <1> QED
    BY <1>1, <1>2

(* A reader of the sequence lock that validates counter 2k has generation  *)
(* k, no update is lost, and the counter is odd exactly during a write.    *)
THEOREM SeqLockCorrect == SeqSpec => []ValidatedGeneration
  <1>1. SeqInv => ValidatedGeneration
    <2> SUFFICES ASSUME SeqInv
                 PROVE  ValidatedGeneration
      OBVIOUS
    <2>1. SeqTypeOK
      BY DEF SeqInv, SeqTypeOK, WriterTypes, ReaderTypes
    <2>2. seq_ \in Nat /\ payload_ \in Nat
      BY <2>1, SMT DEF SeqTypeOK, Counters, Generations
    <2>3. Even(2 * payload_) /\ ~Even(2 * payload_ + 1) /\ ~Even(2 * payload_ - 1)
      BY <2>2, SMT DEF Even
    <2>4. Even(seq_) <=> ~ \E w \in Writers : holder = w /\ wpc[w] \in {"payload", "end"}
      BY <2>3 DEF SeqInv, WriterInv, InWrite
    <2> QED
      BY <2>1, <2>4 DEF SeqInv, WriterInv, ReaderInv, ValidatedGeneration
  <1> QED
    BY <1>1, SeqInitial, SeqStep, PTL DEF SeqSpec

-----------------------------------------------------------------------------
(* atomic_max().                                                           *)

(* What IsMaximum needs to be inductive: a call in progress offers one of  *)
(* the values, a thread sees its own data, and every value of the history  *)
(* publishes the data of all who set it and the values before it, which is *)
(* what the release sequence gives.                                        *)
MaxInv ==
    /\ IsMaximum
    /\ \A t \in Callers : mpc[t] # "idle" => val[t] \in Values
    /\ \A t \in Callers : t \in view[t]
    /\ \A i \in 1..Newest : \A j \in 2..i : history[j].by \in history[i].data

Entries == [value : Values \cup {InitialValue}, by : Callers \cup {NoCaller},
            data : SUBSET Callers]

USE ValuesAssumption, CallsAssumption

\* Before the first call the invariant holds.
LEMMA MaxInitial == MaxInit => MaxInv
  <1> SUFFICES ASSUME MaxInit
               PROVE  MaxInv
    OBVIOUS
  <1> USE DEF MaxInit
  <1>1. /\ history \in Seq(Entries) /\ Len(history) = 1 /\ history # <<>>
        /\ history[1] = Entry(InitialValue, NoCaller, {})
    BY SMT DEF Entry, Entries
  <1>2. MaxTypeOK
    BY <1>1, SMT DEF MaxTypeOK, Entries
  <1>3. IsMaximum
    BY <1>1, <1>2, SMT DEF IsMaximum, Published, Target, Newest, Entry
  <1> QED
    BY <1>1, <1>3, SMT DEF MaxInv, Newest

(* Facts about a typed history.                                            *)
LEMMA HistoryFacts ==
    ASSUME MaxTypeOK
    PROVE  /\ history \in Seq(Entries) /\ Newest \in Nat \ {0}
           /\ \A i \in 1..Newest : /\ history[i] \in Entries /\ history[i].value \in Int
                                   /\ history[i].data \subseteq Callers
           /\ \A t \in Callers : at[t] \in 1..Newest /\ at[t] \in Nat
  <1>1. history \in Seq(Entries) /\ history # <<>>
    BY DEF MaxTypeOK, Entries
  <1>2. Newest \in Nat \ {0}
    BY <1>1, SMT DEF Newest
  <1>3. \A i \in 1..Newest : history[i] \in Entries
    BY <1>1, <1>2, SMT DEF Newest
  <1>4. \A i \in 1..Newest : history[i].value \in Int /\ history[i].data \subseteq Callers
    BY <1>3 DEF Entries
  <1>5. \A t \in Callers : at[t] \in 1..Newest /\ at[t] \in Nat
    BY <1>2, SMT DEF MaxTypeOK, Newest
  <1> QED
    BY <1>1, <1>2, <1>3, <1>4, <1>5

(* A load, or the read of a failed exchange.                               *)
LEMMA AcquireStep ==
    ASSUME MaxInv, NEW t \in Callers, NEW i \in 1..Newest, Acquire(t, i),
           UNCHANGED <<history, val, calls, ret, offered>>,
           mpc' \in {mpc, [mpc EXCEPT ![t] = "test"]}, mpc[t] # "idle"
    PROVE  MaxInv'
  <1>0. MaxTypeOK
    BY DEF MaxInv, IsMaximum
  <1>1. MaxTypeOK'
    BY <1>0, HistoryFacts DEF MaxTypeOK, Acquire, Newest
  <1>2. Published'
    <2> SUFFICES ASSUME NEW u \in Callers, NEW j \in 2..at'[u]
                 PROVE  history[j].by \in view'[u]
      BY DEF Published
    <2>1. CASE u = t
      BY <1>0, <2>1, HistoryFacts, ZenonT(40) DEF Acquire, MaxInv, MaxTypeOK
    <2>2. CASE u # t
      BY <1>0, <2>2 DEF Acquire, MaxInv, IsMaximum, Published, MaxTypeOK
    <2> QED
      BY <2>1, <2>2
  <1>3. IsMaximum'
    BY <1>1, <1>2 DEF MaxInv, IsMaximum, Target, Newest
  <1>4. \A u \in Callers : (mpc'[u] # "idle" => val'[u] \in Values) /\ u \in view'[u]
    BY <1>0, ZenonT(40) DEF MaxInv, MaxTypeOK, Acquire
  <1> QED
    BY <1>3, <1>4 DEF MaxInv, Newest

\* A call that finds its value not greater changes nothing but its answer.
LEMMA NotGreaterStep ==
    ASSUME MaxInv, NEW t \in Callers, NotGreater(t)
    PROVE  MaxInv'
  <1>0. MaxTypeOK
    BY DEF MaxInv, IsMaximum
  <1>1. MaxTypeOK' /\ Published'
    BY <1>0 DEF MaxInv, IsMaximum, MaxTypeOK, Published, NotGreater, Return
  <1>2. val[t] \in Int /\ val[t] <= Target
    <2>1. cur(t) \in Int /\ Target \in Int /\ cur(t) <= Target
      BY <1>0, HistoryFacts, SMTT(30) DEF cur, Target, MaxInv, IsMaximum
    <2>2. val[t] \in Int
      BY <1>0 DEF MaxTypeOK
    <2> QED
      BY <2>1, <2>2, SMT DEF NotGreater
  <1>3. IsMaximum'
    BY <1>1, <1>2 DEF MaxInv, IsMaximum, Target, Newest, NotGreater, Return
  <1> QED
    BY <1>0, <1>3 DEF MaxInv, MaxTypeOK, Newest, NotGreater, Return

(* The exchange appends the new maximum, which publishes its setter's data *)
(* and that of all the earlier ones.                                       *)
LEMMA ExchangeWinStep ==
    ASSUME MaxInv, NEW t \in Callers, ExchangeWin(t)
    PROVE  MaxInv'
  <1> DEFINE sees == view[t] \cup history[Newest].data
             e == Entry(val[t], t, sees)
  <1>0. MaxTypeOK
    BY DEF MaxInv, IsMaximum
  <1>1. e \in Entries /\ val[t] \in Values /\ val[t] \in Int
    <2>1. sees \subseteq Callers
      <3>1. Newest \in 1..Newest
        BY <1>0, HistoryFacts, SMT
      <3>2. history[Newest].data \subseteq Callers
        BY <1>0, <3>1, HistoryFacts
      <3> QED
        BY <1>0, <3>2 DEF MaxTypeOK
    <2>2. val[t] \in Values
      BY DEF MaxInv, ExchangeWin
    <2> QED
      BY <2>1, <2>2 DEF Entry, Entries
  <1>2. /\ history' \in Seq(Entries) /\ Newest' = Newest + 1
        /\ \A i \in 1..Newest : history'[i] = history[i]
        /\ history'[Newest + 1] = e
    BY <1>0, <1>1, HistoryFacts, SMT DEF ExchangeWin, Newest
  <1> HIDE DEF e
  <1>3. /\ view' = [view EXCEPT ![t] = sees] /\ at' = [at EXCEPT ![t] = Newest + 1]
        /\ mpc' = [mpc EXCEPT ![t] = "idle"] /\ ret' = [ret EXCEPT ![t] = TRUE]
        /\ offered' = offered \cup {val[t]} /\ UNCHANGED <<val, calls>>
        /\ val[t] > Target
    BY DEF ExchangeWin, Return
  <1>4. sees \subseteq Callers /\ Newest \in Nat \ {0}
    BY <1>0, <1>1, HistoryFacts DEF Entry, Entries, e
  <1>5. MaxTypeOK'
    <2>1. at' \in [Callers -> 1..Newest']
      BY <1>0, <1>2, <1>3, <1>4, HistoryFacts, SMT DEF MaxTypeOK
    <2>2. view' \in [Callers -> SUBSET Callers]
      BY <1>0, <1>3, <1>4 DEF MaxTypeOK
    <2>3. history' # <<>>
      BY <1>2, <1>4, SMT DEF Newest
    <2> QED
      BY <1>0, <1>1, <1>2, <1>3, <2>1, <2>2, <2>3, ZenonT(40) DEF MaxTypeOK, Newest, Entries
  <1>6. Target' = val[t] /\ e.by = t /\ e.data = sees /\ e.value = val[t]
    BY <1>2, SMT DEF Target, Entry, e
  <1>7. \A j \in 2..Newest : history[j].by \in sees
    BY <1>4, SMT DEF MaxInv
  <1>8. \A i \in 1..Newest' : \A j \in 2..i : history'[j].by \in history'[i].data
    <2> SUFFICES ASSUME NEW i \in 1..Newest', NEW j \in 2..i
                 PROVE  history'[j].by \in history'[i].data
      OBVIOUS
    <2>1. CASE i \in 1..Newest
      BY <1>2, <1>4, <2>1, SMT DEF MaxInv
    <2>2. CASE i = Newest + 1 /\ j = Newest + 1
      BY <1>2, <1>6, <2>2 DEF MaxInv
    <2>3. CASE i = Newest + 1 /\ j \in 2..Newest
      BY <1>2, <1>4, <1>6, <1>7, <2>3, SMT
    <2> QED
      BY <1>2, <1>4, <2>1, <2>2, <2>3, SMT
  <1>9. Published'
    <2> SUFFICES ASSUME NEW u \in Callers, NEW j \in 2..at'[u]
                 PROVE  history'[j].by \in view'[u]
      BY DEF Published
    <2>1. CASE u = t
      <3>1. at'[t] = Newest' /\ view'[t] = sees /\ Newest' \in 1..Newest'
        BY <1>0, <1>2, <1>3, <1>4, SMT DEF MaxTypeOK
      <3>2. history'[Newest'].data = sees
        BY <1>2, <1>6
      <3>3. \A k \in 2..Newest' : history'[k].by \in history'[Newest'].data
        BY <1>8, <3>1
      <3> QED
        BY <2>1, <3>1, <3>2, <3>3
    <2>2. CASE u # t
      <3>1. at'[u] = at[u] /\ view'[u] = view[u] /\ j \in 1..Newest
        BY <1>0, <1>3, <1>4, <2>2, HistoryFacts, SMT DEF MaxTypeOK
      <3> QED
        BY <1>2, <3>1 DEF MaxInv, IsMaximum, Published
    <2> QED
      BY <2>1, <2>2
  <1>10. \A i, j \in 1..Newest' : i < j => history'[i].value < history'[j].value
    <2> SUFFICES ASSUME NEW i \in 1..Newest', NEW j \in 1..Newest', i < j
                 PROVE  history'[i].value < history'[j].value
      OBVIOUS
    <2>1. i \in 1..Newest /\ history'[i] = history[i]
      BY <1>2, <1>4, SMT
    <2>2. CASE j \in 1..Newest
      BY <1>2, <2>1, <2>2 DEF MaxInv, IsMaximum
    <2>3. CASE j = Newest + 1
      <3>1. history[i].value \in Int /\ Target \in Int /\ history[i].value <= Target
        BY <1>0, <1>4, <2>1, HistoryFacts, SMTT(30) DEF MaxInv, IsMaximum, Target
      <3> QED
        BY <1>1, <1>2, <1>3, <1>6, <2>1, <2>3, <3>1, SMTT(30)
    <2> QED
      BY <1>2, <1>4, <2>2, <2>3, SMT
  <1>11. \A v \in offered' \cup {InitialValue} : v <= Target'
    <2>1. Target \in Int
      BY <1>0, <1>4, HistoryFacts, SMT DEF Target
    <2>2. \A v \in offered \cup {InitialValue} : v \in Int /\ v <= Target
      BY <1>0 DEF MaxInv, IsMaximum, MaxTypeOK
    <2> QED
      BY <1>1, <1>3, <1>6, <2>1, <2>2, SMT
  <1>12. \A u \in Callers : (mpc'[u] # "idle" => val'[u] \in Values) /\ u \in view'[u]
    BY <1>0, <1>3 DEF MaxInv, MaxTypeOK
  <1> QED
    BY <1>3, <1>5, <1>6, <1>8, <1>9, <1>10, <1>11, <1>12 DEF MaxInv, IsMaximum

\* Every step keeps the invariant.
LEMMA MaxStepKeeps == MaxInv /\ [MaxNext]_maxVars => MaxInv'
  <1> SUFFICES ASSUME MaxInv, [MaxNext]_maxVars
               PROVE  MaxInv'
    OBVIOUS
  <1>1. ASSUME NEW t \in Callers, NEW v \in Values, Call(t, v)
        PROVE  MaxInv'
    <2>1. /\ history' = history /\ at' = at /\ view' = view /\ ret' = ret /\ offered' = offered
          /\ calls' = [calls EXCEPT ![t] = @ + 1] /\ calls[t] < MaxCalls
          /\ val' = [val EXCEPT ![t] = v] /\ mpc' = [mpc EXCEPT ![t] = "load"]
      BY <1>1 DEF Call
    <2>2. MaxTypeOK
      BY DEF MaxInv, IsMaximum
    <2>3. calls' \in [Callers -> 0..MaxCalls]
      BY <2>1, <2>2, SMT DEF MaxTypeOK
    <2>4. val' \in [Callers -> Values \cup {InitialValue}]
      BY <2>1, <2>2 DEF MaxTypeOK
    <2>5. mpc' \in [Callers -> {"idle", "load", "test"}]
      BY <2>1, <2>2 DEF MaxTypeOK
    <2>6. MaxTypeOK'
      BY <2>1, <2>2, <2>3, <2>4, <2>5 DEF MaxTypeOK
    <2>7. \A u \in Callers : mpc'[u] # "idle" => val'[u] \in Values
      BY <2>1, <2>2, SMT DEF MaxTypeOK, MaxInv
    <2> QED
      BY <2>1, <2>6, <2>7 DEF MaxInv, IsMaximum, Published, Target, Newest
  <1>2. ASSUME NEW t \in Callers, LoadTarget(t) \/ ExchangeFail(t)
        PROVE  MaxInv'
    BY <1>2, AcquireStep DEF LoadTarget, ExchangeFail
  <1>3. CASE UNCHANGED maxVars
    BY <1>3 DEF maxVars, MaxInv, IsMaximum, MaxTypeOK, Published, Target, Newest
  <1> QED
    BY <1>1, <1>2, <1>3, NotGreaterStep, ExchangeWinStep DEF MaxNext, MaxStep, MaxDone

(* However stale the loads are, the target of atomic_max() is the maximum  *)
(* of what was offered and publishes what its setters wrote.               *)
THEOREM AtomicMaxCorrect == MaxSpec => []IsMaximum
  <1>1. MaxInv => IsMaximum
    BY DEF MaxInv
  <1> QED
    BY <1>1, MaxInitial, MaxStepKeeps, PTL DEF MaxSpec

-----------------------------------------------------------------------------
(* ThreadStack: arithmetic.                                                *)

USE SizesAssumption

(* A sum that fits does not wrap.                                          *)
LEMMA PlusFits ==
    ASSUME NEW a \in Nat, NEW b \in Nat, a + b <= SizeMax
    PROVE  Plus(a, b) = a + b
  BY SMT DEF Plus

(* Rounding up gives the least multiple that is not smaller.               *)
LEMMA UpToBounds ==
    ASSUME NEW n \in Nat, NEW unit \in Nat \ {0}
    PROVE  /\ UpTo(n, unit) \in Nat
           /\ n <= UpTo(n, unit) /\ UpTo(n, unit) <= n + unit - 1
  <1> DEFINE x == n + unit - 1
  <1>1. x \in Nat
    BY SMT
  <1>2. (x \div unit) \in Nat /\ (x \div unit) * unit <= x /\ x < (x \div unit) * unit + unit
    BY <1>1, SMT
  <1> QED
    BY <1>1, <1>2, SMT DEF UpTo

(* A multiple of the granule is a multiple of what divides the granule.    *)
LEMMA MultipleOfDivisor ==
    ASSUME NEW q \in Nat, NEW g \in Nat, NEW a \in Nat \ {0}, g % a = 0
    PROVE  ((q * g) \div a) * a = q * g
  <1>1. g = (g \div a) * a /\ (g \div a) \in Nat
    BY SMT
  <1>2. PICK k \in Nat : g = k * a
    BY <1>1
  <1>3. q * g = (q * k) * a /\ q * k \in Nat
    BY <1>2, SMT
  <1>4. \A p \in Nat : (p * a) \div a = p
    BY SMT
  <1> QED
    BY <1>3, <1>4

(* What divides size_t's range fits whole.                                 *)
LEMMA UpToFits ==
    ASSUME NEW n \in 0..SizeMax, NEW unit \in 1..SizeMax, (SizeMax + 1) % unit = 0,
           n + unit - 1 > SizeMax
    PROVE  UpTo(n, unit) > SizeMax
  <1> DEFINE q == (n + unit - 1) \div unit
             K == (SizeMax + 1) \div unit
  <1>1. SizeMax + 1 = K * unit /\ K \in Nat
    BY SMT
  <1>2. UpTo(n, unit) = q * unit /\ q \in Nat
    BY SMT DEF UpTo
  <1>3. n + unit - 1 < q * unit + unit
    BY SMT
  <1> HIDE DEF q, K
  <1>4. K * unit < (q + 1) * unit
    BY <1>1, <1>2, <1>3, SMT
  <1>5. K < q + 1
    BY <1>1, <1>2, <1>4, SMT
  <1>6. K * unit <= q * unit
    BY <1>1, <1>2, <1>5, SMT
  <1> QED
    BY <1>1, <1>2, <1>6, SMT

(* page_round() gives the multiple exactly when it fits.                   *)
LEMMA PageRound ==
    ASSUME NEW n \in 0..SizeMax, NEW unit \in 1..SizeMax, (SizeMax + 1) % unit = 0
    PROVE  page_round(n, unit) = IF UpTo(n, unit) <= SizeMax THEN {UpTo(n, unit)} ELSE {}
  <1>0. UpTo(n, unit) \in Nat /\ UpTo(n, unit) <= n + unit - 1
    BY UpToBounds, SMT
  <1>1. CASE n > SizeMax - (unit - 1)
    <2>1. UpTo(n, unit) > SizeMax
      BY <1>1, UpToFits, SMT
    <2> QED
      BY <1>0, <1>1, <2>1, SMT DEF page_round
  <1>2. CASE ~(n > SizeMax - (unit - 1))
    <2>1. Plus(n, unit - 1) = n + unit - 1 /\ n + unit - 1 <= SizeMax
      BY <1>2, PlusFits, SMT
    <2>2. page_round(n, unit) = {UpTo(n, unit)}
      BY <1>2, <2>1 DEF page_round, UpTo
    <2> QED
      BY <1>0, <2>1, <2>2, SMT
  <1> QED
    BY <1>1, <1>2

-----------------------------------------------------------------------------
(* The sizes of one machine.                                               *)

(* The units a machine rounds to.                                          *)
LEMMA Units ==
    ASSUME NEW m \in Machines
    PROVE  /\ m.page \in 1..SizeMax /\ (SizeMax + 1) % m.page = 0
           /\ tls_align(m) \in 1..SizeMax /\ (SizeMax + 1) % tls_align(m) = 0
           /\ stack_granule(m) \in 1..SizeMax /\ (SizeMax + 1) % stack_granule(m) = 0
           /\ stack_granule(m) % tls_align(m) = 0
           /\ m.tls \in 0..SizeMax /\ m.minimum \in 0..SizeMax
  <1>1. /\ m.page \in 1..SizeMax /\ m.align \in 0..SizeMax
        /\ m.tls \in 0..SizeMax /\ m.minimum \in 0..SizeMax
    BY MachinesAssumption
  <1>2. /\ (SizeMax + 1) % m.page = 0
        /\ m.align # 0 => (SizeMax + 1) % m.align = 0
        /\ m.align \in 1..m.page => m.page % m.align = 0
    BY PowersAssumption
  <1>3. tls_align(m) \in 1..SizeMax /\ (SizeMax + 1) % tls_align(m) = 0
    BY <1>1, <1>2, SMT DEF tls_align
  <1>4. CASE tls_align(m) > m.page
    <2>1. tls_align(m) % tls_align(m) = 0
      BY <1>3, SMT
    <2> QED
      BY <1>1, <1>2, <1>3, <1>4, <2>1 DEF stack_granule
  <1>5. CASE ~(tls_align(m) > m.page)
    <2>1. m.page % tls_align(m) = 0
      BY <1>1, <1>2, <1>5, SMT DEF tls_align
    <2> QED
      BY <1>1, <1>2, <1>3, <1>5, <2>1 DEF stack_granule
  <1> QED
    BY <1>4, <1>5

Carved(m) == UpTo(m.tls, tls_align(m)) + tls_align(m) - 1

(* static_tls_size() is the bytes carved, or saturates.                    *)
LEMMA StaticTls ==
    ASSUME NEW m \in Machines
    PROVE  /\ Carved(m) \in Nat
           /\ static_tls_size(m) = IF Carved(m) <= SizeMax THEN Carved(m) ELSE SizeMax
  <1> DEFINE a == tls_align(m)
             r == UpTo(m.tls, a)
             fits == {x \in page_round(m.tls, a) : x <= SizeMax - (a - 1)}
  <1>0. a \in 1..SizeMax /\ m.tls \in 0..SizeMax
    BY Units
  <1>1. a \in 1..SizeMax /\ m.tls \in 0..SizeMax /\ r \in Nat
    <2>1. a \in Nat \ {0} /\ m.tls \in Nat
      BY <1>0, SMT
    <2> HIDE DEF a
    <2> QED
      BY <1>0, <2>1, UpToBounds
  <1>2. page_round(m.tls, a) = IF r <= SizeMax THEN {r} ELSE {}
    BY Units, PageRound
  <1>3. fits = IF r + a - 1 <= SizeMax THEN {r} ELSE {}
    BY <1>1, <1>2, SMT
  <1>4. static_tls_size(m) = IF fits = {} THEN SizeMax
                             ELSE Plus(CHOOSE x \in fits : TRUE, a - 1)
    BY DEF static_tls_size, tls_carve_bound
  <1>5. CASE r + a - 1 <= SizeMax
    <2>1. (CHOOSE x \in fits : TRUE) = r
      BY <1>3, <1>5
    <2>2. Plus(r, a - 1) = r + a - 1
      BY <1>1, <1>5, PlusFits, SMT
    <2> HIDE DEF fits
    <2>3. static_tls_size(m) = Plus(r, a - 1)
      BY <1>3, <1>4, <1>5, <2>1
    <2> QED
      BY <1>1, <1>5, <2>2, <2>3, SMT DEF Carved
  <1>6. CASE ~(r + a - 1 <= SizeMax)
    <2> HIDE DEF fits
    <2> QED
      BY <1>1, <1>3, <1>4, <1>6, SMT DEF Carved
  <1> QED
    BY <1>5, <1>6

(* compute_stack_size() gives the whole stack exactly when it fits.        *)
LEMMA StackSize ==
    ASSUME NEW m \in Machines, NEW requested \in 0..SizeMax
    PROVE  /\ WholeStack(m, requested) \in Nat \ {0}
           /\ compute_stack_size(requested, stack_extra, static_tls_size(m),
                                 stack_granule(m), m.minimum)
                = IF WholeStack(m, requested) <= SizeMax
                  THEN {WholeStack(m, requested)} ELSE {}
  <1> DEFINE least == Least(m, requested)
             sum == least + stack_extra + Carved(m)
             g == stack_granule(m)
             tls == static_tls_size(m)
             size == compute_stack_size(requested, stack_extra, tls, g, m.minimum)
  <1>1. least \in 0..SizeMax /\ stack_extra \in 1..SizeMax /\ g \in 1..SizeMax
    BY Units, ExtraAssumption DEF Least, stack_extra, max_stagger
  <1>2. Carved(m) \in Nat /\ tls = IF Carved(m) <= SizeMax THEN Carved(m) ELSE SizeMax
    BY StaticTls
  <1>3. sum \in Nat /\ sum >= 1
    BY <1>1, <1>2, SMT
  <1>4. /\ WholeStack(m, requested) = UpTo(sum, g)
        /\ UpTo(sum, g) \in Nat /\ sum <= UpTo(sum, g)
    <2>1. WholeStack(m, requested) = UpTo(sum, g)
      <3>1. least + stack_extra + UpTo(m.tls, tls_align(m)) + tls_align(m) - 1 = sum
        <4>1. tls_align(m) \in Nat \ {0} /\ m.tls \in Nat
          BY Units, SMT
        <4>2. UpTo(m.tls, tls_align(m)) \in Nat
          BY <4>1, UpToBounds
        <4> QED
          BY <1>1, <4>1, <4>2, SMT DEF Carved
      <3> QED
        BY <3>1 DEF WholeStack
    <2>2. sum \in Nat /\ g \in Nat \ {0}
      BY <1>1, <1>3, SMT
    <2> HIDE DEF sum, g
    <2>3. UpTo(sum, g) \in Nat /\ sum <= UpTo(sum, g)
      BY <2>2, UpToBounds
    <2> QED
      BY <2>1, <2>3
  <1>5. size = IF stack_extra > SizeMax - least \/ tls > SizeMax - Plus(least, stack_extra)
               THEN {} ELSE page_round(Plus(Plus(least, stack_extra), tls), g)
    BY DEF compute_stack_size, Least
  <1> HIDE DEF size
  <1>6. CASE sum <= SizeMax
    <2>1. Plus(least, stack_extra) = least + stack_extra
      BY <1>1, <1>2, <1>6, PlusFits, SMT
    <2>2. tls = Carved(m)
      BY <1>1, <1>2, <1>6, SMT
    <2>3. Plus(least + stack_extra, tls) = sum
      BY <1>1, <1>2, <1>6, <2>2, PlusFits, SMT
    <2>4. size = page_round(sum, g)
      BY <1>1, <1>2, <1>5, <1>6, <2>1, <2>2, <2>3, SMT
    <2>5. page_round(sum, g) = IF UpTo(sum, g) <= SizeMax THEN {UpTo(sum, g)} ELSE {}
      <3>1. sum \in 0..SizeMax /\ g \in 1..SizeMax /\ (SizeMax + 1) % g = 0
        BY <1>1, <1>3, <1>6, Units, SMT
      <3> HIDE DEF sum, g
      <3> QED
        BY <3>1, PageRound
    <2> QED
      BY <1>3, <1>4, <2>4, <2>5, SMT DEF size
  <1>7. CASE sum > SizeMax
    <2>1. size = {}
      <3>1. CASE least + stack_extra > SizeMax
        BY <1>1, <1>5, <3>1, SMT
      <3>2. CASE least + stack_extra <= SizeMax
        <4>1. Plus(least, stack_extra) = least + stack_extra
          BY <1>1, <3>2, PlusFits, SMT
        <4>2. tls > SizeMax - (least + stack_extra)
          BY <1>1, <1>2, <1>7, SMT
        <4> QED
          BY <1>5, <4>1, <4>2
      <3> QED
        BY <1>1, <3>1, <3>2, SMT
    <2> QED
      BY <1>3, <1>4, <1>7, <2>1, SMT DEF size
  <1> QED
    BY <1>3, <1>6, <1>7, SMT

(* guard_fits() says whether stack and rounded guard fit together.         *)
LEMMA GuardFits ==
    ASSUME NEW m \in Machines, NEW stack \in 0..SizeMax, NEW guard \in 0..SizeMax
    PROVE  /\ UpTo(guard, m.page) \in Nat
           /\ guard_fits(stack, guard, m.page) <=> stack + UpTo(guard, m.page) <= SizeMax
  <1>0. m.page \in Nat \ {0} /\ guard \in Nat
    BY Units, SMT
  <1>1. UpTo(guard, m.page) \in Nat
    BY <1>0, UpToBounds
  <1>2. page_round(guard, m.page)
          = IF UpTo(guard, m.page) <= SizeMax THEN {UpTo(guard, m.page)} ELSE {}
    BY Units, PageRound
  <1> QED
    BY <1>1, <1>2, SMT DEF guard_fits

-----------------------------------------------------------------------------
(* The invariants.                                                         *)

(* A construction ends with sizes of the right type that fail exactly when *)
(* they do not fit.                                                        *)
LEMMA AttrOwnerExact ==
    ASSUME TypeOK, NEW s \in Optionals(Stacks), NEW g \in Optionals(Guards), AttrOwner(s, g)
    PROVE  TypeOK' /\ OverflowExact'
  <1>1. PICK requested \in IF s = {} THEN {default_stack_bytes} ELSE s,
             guard \in IF g = {} THEN {default_guard_bytes} ELSE g :
          LET stack == compute_stack_size(requested, stack_extra, static_tls_size(machine),
                                          stack_granule(machine), machine.minimum)
          IN  \/ /\ \A z \in stack : ~guard_fits(z, guard, machine.page)
                 /\ result' = Overflow(requested, guard)
              \/ \E z \in stack :
                  /\ guard_fits(z, guard, machine.page)
                  /\ result' = Sized(requested, guard, z)
    BY DEF AttrOwner
  <1> DEFINE whole == WholeStack(machine, requested)
             stack == compute_stack_size(requested, stack_extra, static_tls_size(machine),
                                         stack_granule(machine), machine.minimum)
             rounded == UpTo(guard, machine.page)
  <1>2. /\ requested \in 0..SizeMax /\ guard \in 0..SizeMax
        /\ machine \in Machines /\ default_stack_bytes \in Defaults
        /\ machine' = machine /\ default_stack_bytes' = default_stack_bytes
    BY DEF Optionals, TypeOK, AttrOwner
  <1>3. whole \in Nat \ {0} /\ stack = IF whole <= SizeMax THEN {whole} ELSE {}
    BY <1>2, StackSize
  <1>4. rounded \in Nat
    BY <1>2, GuardFits
  <1>5. ASSUME whole <= SizeMax
        PROVE  guard_fits(whole, guard, machine.page) <=> whole + rounded <= SizeMax
    <2>1. whole \in 0..SizeMax
      BY <1>3, <1>5, SMT
    <2> HIDE DEF whole
    <2> QED
      BY <1>2, <2>1, GuardFits
  <1> HIDE DEF stack
  <1>6. \/ whole + rounded > SizeMax /\ result' = Overflow(requested, guard)
        \/ whole + rounded <= SizeMax /\ result' = Sized(requested, guard, whole)
    <2>1. \/ /\ \A z \in stack : ~guard_fits(z, guard, machine.page)
             /\ result' = Overflow(requested, guard)
          \/ \E z \in stack :
              /\ guard_fits(z, guard, machine.page)
              /\ result' = Sized(requested, guard, z)
      BY <1>1 DEF stack
    <2> HIDE DEF whole, rounded
    <2> QED
      BY <1>3, <1>4, <1>5, <2>1, SMT
  <1>7. CASE whole + rounded > SizeMax /\ result' = Overflow(requested, guard)
    <2>1. result'.is = "EINVAL" /\ result'.requested = requested /\ result'.guard = guard
      BY <1>7 DEF Overflow
    <2>2. OverflowExact'
      BY <1>2, <1>7, <2>1 DEF OverflowExact
    <2>3. TypeOK'
      BY <1>2, <1>7 DEF TypeOK, Overflow
    <2> QED
      BY <2>2, <2>3
  <1>8. CASE whole + rounded <= SizeMax /\ result' = Sized(requested, guard, whole)
    <2>1. /\ result'.is = "sized" /\ result'.requested = requested /\ result'.guard = guard
          /\ result'.stack = whole
      BY <1>8 DEF Sized
    <2>2. whole \in 1..SizeMax /\ ~(whole + rounded > SizeMax)
      BY <1>3, <1>4, <1>8, SMT
    <2>3. OverflowExact'
      BY <1>2, <2>1, <2>2 DEF OverflowExact
    <2>4. TypeOK'
      BY <1>2, <1>8, <2>2 DEF TypeOK, Sized
    <2> QED
      BY <2>3, <2>4
  <1> QED
    BY <1>6, <1>7, <1>8

(* AttrOwner's sizes have their types and are rejected exactly when they   *)
(* do not fit in size_t, whatever was requested.                           *)
THEOREM OverflowCorrect == Spec => [](TypeOK /\ OverflowExact)
  <1>1. Init => TypeOK /\ OverflowExact
    BY SMT DEF Init, TypeOK, OverflowExact
  <1>2. TypeOK /\ OverflowExact /\ [Next]_vars => TypeOK' /\ OverflowExact'
    <2> SUFFICES ASSUME TypeOK, OverflowExact, [Next]_vars PROVE TypeOK' /\ OverflowExact'
      OBVIOUS
    <2>1. ASSUME NEW bytes \in Defaults, set_default_stack_size(bytes)
          PROVE  TypeOK' /\ OverflowExact'
      BY <2>1 DEF set_default_stack_size, TypeOK, OverflowExact
    <2>2. ASSUME NEW s \in Optionals(Stacks), NEW g \in Optionals(Guards), AttrOwner(s, g)
          PROVE  TypeOK' /\ OverflowExact'
      BY <2>2, AttrOwnerExact
    <2>3. CASE Forget
      BY <2>3 DEF Forget, TypeOK, OverflowExact
    <2>4. CASE UNCHANGED vars
      BY <2>4 DEF vars, TypeOK, OverflowExact
    <2> QED
      BY <2>1, <2>2, <2>3, <2>4 DEF Next
  <1> QED
    BY <1>1, <1>2, PTL DEF Spec

(* A stack of the exact size leaves what was asked for.                    *)
LEMMA ExactLeavesEnough ==
    ASSUME TypeOK, OverflowExact PROVE StackAsRequested
  <1> SUFFICES ASSUME result.is = "sized", NEW n \in 0..CounterMax,
                      NEW lost \in 0..tls_align(machine) - 1
               PROVE  Usable(machine, result.stack, lost, n)
                        >= Least(machine, result.requested)
    BY DEF StackAsRequested
  <1> DEFINE a == tls_align(machine)
             g == stack_granule(machine)
             least == Least(machine, result.requested)
             r == UpTo(machine.tls, a)
             sum == least + stack_extra + r + a - 1
  <1>1. machine \in Machines /\ result.requested \in 0..SizeMax
    BY DEF TypeOK
  <1>2. /\ a \in Nat \ {0} /\ g \in Nat \ {0} /\ g % a = 0
        /\ machine.tls \in Nat /\ machine.minimum \in Nat
    BY <1>1, Units, SMT
  <1>3. r \in Nat
    <2> HIDE DEF a
    <2> QED
      BY <1>2, UpToBounds
  <1>4. least \in Nat
    BY <1>1, <1>2, SMT DEF Least
  <1>5. stagger_for(n) \in Nat /\ stagger_for(n) <= max_stagger /\ max_stagger \in Nat
    <2>1. n % stagger_slots \in 0..stagger_slots - 1
      BY SMT
    <2>2. \A i, j, k \in Nat : i <= j => i * k <= j * k
      BY SMT
    <2>3. stagger_slots - 1 \in Nat /\ stagger_step \in Nat /\ n % stagger_slots \in Nat
      BY <2>1, SMT
    <2>4. (n % stagger_slots) * stagger_step <= (stagger_slots - 1) * stagger_step
      BY <2>1, <2>2, <2>3, SMT
    <2>5. (n % stagger_slots) * stagger_step \in Nat /\ (stagger_slots - 1) * stagger_step \in Nat
      BY <2>3, SMT
    <2> QED
      BY <2>4, <2>5 DEF stagger_for, max_stagger
  <1>6. sum \in Nat
    BY <1>2, <1>3, <1>4, <1>5, SMT DEF stack_extra
  <1>7. result.stack = UpTo(sum, g)
    BY DEF OverflowExact, WholeStack
  <1>8. sum <= result.stack /\ result.stack \in Nat
    <2> HIDE DEF sum, g
    <2> QED
      BY <1>2, <1>6, <1>7, UpToBounds
  <1>9. (result.stack \div a) * a = result.stack
    <2> DEFINE q == (sum + g - 1) \div g
    <2>1. q \in Nat /\ result.stack = q * g
      <3> HIDE DEF sum, g
      <3>1. result.stack = q * g
        BY <1>7 DEF UpTo
      <3>2. q \in Nat
        BY <1>2, <1>6, SMT
      <3> QED
        BY <3>1, <3>2
    <2> HIDE DEF q, a, g
    <2>2. ((q * g) \div a) * a = q * g
      BY <1>2, <2>1, MultipleOfDivisor, ZenonT(40)
    <2> QED
      BY <2>1, <2>2
  <1>10. Usable(machine, result.stack, lost, n)
           = result.stack - r - lost - stagger_for(n) - start_frames_allowance
    BY <1>9 DEF Usable
  <1> QED
    BY <1>2, <1>3, <1>4, <1>5, <1>8, <1>10, SMT DEF stack_extra

(* Every thread gets at least the stack it asked for below its callable's  *)
(* first frame, for every machine, request and creation number.            *)
THEOREM StackCorrect == Spec => []StackAsRequested
  BY OverflowCorrect, ExactLeavesEnough, PTL

(* The sizes AttrOwner computes are right: rejected exactly when they do   *)
(* not fit, and large enough when they do.                                 *)
THEOREM SizesCorrect == Spec => []SizesRight
  BY OverflowCorrect, StackCorrect, PTL DEF SizesRight
=============================================================================
