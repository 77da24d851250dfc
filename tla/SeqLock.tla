-------------------------------- MODULE SeqLock -------------------------------
(***************************************************************************)
(* The sequence lock of Spinlock/seqlock.h under the release/acquire       *)
(* memory model its header argues from.  seq_ and payload_ are kept as the *)
(* histories of the values stored in them.  A load may return any value    *)
(* not older than what its thread already knows of (its view); an acquire  *)
(* load of a release store also hands over the view that store carried.    *)
(*                                                                         *)
(* Writers are serialized by the embedded SpinLock, whose handoff gives a  *)
(* writer everything its predecessors did, so a writer's own loads are     *)
(* exact.  The i-th value stored in seq_ is i; a payload is named by its   *)
(* generation g, the g-th value stored in payload_.                        *)
(***************************************************************************)
EXTENDS Integers

CONSTANTS Readers, Writers,
          MaxWrites,     \* bound: writes in a behaviour
          NoWriter

ASSUME WritesAssumption == MaxWrites \in Nat
ASSUME NoWriterAssumption == NoWriter \notin Writers

VARIABLES seq_,      \* the newest value of the counter
          payload_,  \* the newest generation of the payload
          seqView,   \* seqView[i]: newest generation known with counter i
          payView,   \* payView[g]: newest counter known with generation g
          holder,     \* the writer holding the SpinLock, or NoWriter
          wpc,       \* per writer: step
          basis,     \* per writer: ghost, the generation it is to replace
          rpc,       \* per reader: step
          before, got, \* per reader: seq_before, generation loaded
          knows,     \* per reader: its view, [seq, gen]
          snap       \* per reader: the Snapshot last returned, [seq, gen]

seqVars == <<seq_, payload_, seqView, payView, holder, wpc, basis, rpc, before,
          got, knows, snap>>
writerVars == <<seq_, payload_, seqView, payView, holder, wpc, basis>>
readerVars == <<rpc, before, got, knows, snap>>

Generations == 0..MaxWrites
Counters == 0..(2 * MaxWrites)
Even(n) == n % 2 = 0
Later(m, n) == IF m > n THEN m ELSE n

WriterSteps == {"idle", "locked", "begin", "payload", "end", "unlock"}
ReaderSteps == {"idle", "first", "payload", "second"}

SeqInit ==
    /\ seq_ = 0
    /\ payload_ = 0
    /\ seqView = [i \in Counters |-> 0]
    /\ payView = [g \in Generations |-> 0]
    /\ holder = NoWriter
    /\ wpc = [w \in Writers |-> "idle"]
    /\ basis = [w \in Writers |-> 0]
    /\ rpc = [r \in Readers |-> "idle"]
    /\ before = [r \in Readers |-> 0]
    /\ got = [r \in Readers |-> 0]
    /\ knows = [r \in Readers |-> [seq |-> 0, gen |-> 0]]
    /\ snap = [r \in Readers |-> [seq |-> 0, gen |-> 0]]

-----------------------------------------------------------------------------
(* Writers.                                                                *)

Move(w, from, to) ==
    /\ wpc[w] = from
    /\ wpc' = [wpc EXCEPT ![w] = to]

(* The lock_guard of store() and update().                                 *)
Lock(w) ==
    /\ holder = NoWriter
    /\ holder' = w

(* store(value)                                                            *)
Store(w) ==
    /\ payload_ < MaxWrites
    /\ Move(w, "idle", "begin")
    /\ Lock(w)
    /\ basis' = [basis EXCEPT ![w] = payload_]
    /\ UNCHANGED <<seq_, payload_, seqView, payView, readerVars>>

(* update(f): the lock is taken ...                                        *)
Update(w) ==
    /\ payload_ < MaxWrites
    /\ Move(w, "idle", "locked")
    /\ Lock(w)
    /\ UNCHANGED <<seq_, payload_, seqView, payView, basis, readerVars>>

(* ... the payload is read and f called with it, before the counter is     *)
(* touched; if f throws, the lock is released and nothing was written.     *)
UpdateCall(w) ==
    /\ \/ Move(w, "locked", "begin")
       \/ Move(w, "locked", "unlock")
    /\ basis' = [basis EXCEPT ![w] = payload_]
    /\ UNCHANGED <<seq_, payload_, seqView, payView, holder, readerVars>>

(* begin_write(): the odd store is relaxed and carries nothing.            *)
BeginWrite(w) ==
    /\ Move(w, "begin", "payload")
    /\ seq_' = seq_ + 1
    /\ UNCHANGED <<payload_, seqView, payView, holder, basis, readerVars>>

\* Mutant: the payload store is relaxed.
StorePayloadRelaxed(w) ==
    /\ Move(w, "payload", "end")
    /\ payload_' = payload_ + 1
    /\ UNCHANGED <<seq_, seqView, payView, holder, basis, readerVars>>

(* store_payload(): a release store, which carries the odd counter.        *)
StorePayload(w) ==
    /\ Move(w, "payload", "end")
    /\ payload_' = payload_ + 1
    /\ payView' = [payView EXCEPT ![payload_ + 1] = seq_]
    /\ UNCHANGED <<seq_, seqView, holder, basis, readerVars>>

(* end_write(): a release store, which carries the payload.                *)
EndWrite(w) ==
    /\ Move(w, "end", "unlock")
    /\ seq_' = seq_ + 1
    /\ seqView' = [seqView EXCEPT ![seq_ + 1] = payload_]
    /\ UNCHANGED <<payload_, payView, holder, basis, readerVars>>

Unguard(w) ==
    /\ Move(w, "unlock", "idle")
    /\ holder' = NoWriter
    /\ UNCHANGED <<seq_, payload_, seqView, payView, basis, readerVars>>

-----------------------------------------------------------------------------
(* Readers: load_validated().                                              *)

Load(r) ==
    /\ rpc[r] = "idle"
    /\ rpc' = [rpc EXCEPT ![r] = "first"]
    /\ UNCHANGED <<writerVars, before, got, knows, snap>>

(* The first counter load, an acquire: an odd value ends the attempt.      *)
FirstLoad(r, i) ==
    /\ rpc[r] = "first"
    /\ i \in knows[r].seq..seq_
    /\ knows' = [knows EXCEPT ![r] =
                    [seq |-> i, gen |-> Later(@.gen, seqView[i])]]
    /\ before' = [before EXCEPT ![r] = i]
    /\ rpc' = [rpc EXCEPT ![r] = IF Even(i) THEN "payload" ELSE "first"]
    /\ UNCHANGED <<writerVars, got, snap>>

(* The payload load, an acquire.                                           *)
PayloadLoad(r, g) ==
    /\ rpc[r] = "payload"
    /\ g \in knows[r].gen..payload_
    /\ knows' = [knows EXCEPT ![r] =
                    [seq |-> Later(@.seq, payView[g]), gen |-> g]]
    /\ got' = [got EXCEPT ![r] = g]
    /\ rpc' = [rpc EXCEPT ![r] = "second"]
    /\ UNCHANGED <<writerVars, before, snap>>

(* The second counter load, relaxed: the same value validates.             *)
SecondLoad(r, i) ==
    /\ rpc[r] = "second"
    /\ i \in knows[r].seq..seq_
    /\ knows' = [knows EXCEPT ![r].seq = i]
    /\ IF i = before[r]
       THEN /\ snap' = [snap EXCEPT ![r] = [seq |-> i, gen |-> got[r]]]
            /\ rpc' = [rpc EXCEPT ![r] = "idle"]
       ELSE /\ rpc' = [rpc EXCEPT ![r] = "first"]
            /\ UNCHANGED snap
    /\ UNCHANGED <<writerVars, before, got>>

-----------------------------------------------------------------------------
WriteStep(w) ==
    \/ UpdateCall(w) \/ BeginWrite(w) \/ StorePayload(w) \/ EndWrite(w) \/ Unguard(w)

WriterNext(w) == Store(w) \/ Update(w) \/ WriteStep(w)

ReaderNext(r) ==
    \/ Load(r)
    \/ \E i \in Counters : FirstLoad(r, i) \/ SecondLoad(r, i)
    \/ \E g \in Generations : PayloadLoad(r, g)

SeqNext ==
    \/ \E w \in Writers : WriterNext(w)
    \/ \E r \in Readers : ReaderNext(r)

SeqSpec == SeqInit /\ [][SeqNext]_seqVars

(* A stored value becomes visible in the end: a thread that keeps loading  *)
(* gets the newest value some time.                                        *)
FreshStep(r) == FirstLoad(r, seq_) \/ PayloadLoad(r, payload_) \/ SecondLoad(r, seq_)

SeqFairness ==
    /\ \A w \in Writers : WF_seqVars(WriteStep(w))
    /\ \A r \in Readers : WF_seqVars(FreshStep(r))

SeqFairSpec == SeqSpec /\ SeqFairness

-----------------------------------------------------------------------------
SeqTypeOK ==
    /\ seq_ \in Counters
    /\ payload_ \in Generations
    /\ seqView \in [Counters -> Generations]
    /\ payView \in [Generations -> Counters]
    /\ holder \in Writers \cup {NoWriter}
    /\ wpc \in [Writers -> WriterSteps]
    /\ basis \in [Writers -> Generations]
    /\ rpc \in [Readers -> ReaderSteps]
    /\ before \in [Readers -> Counters]
    /\ got \in [Readers -> Generations]
    /\ knows \in [Readers -> [seq : Counters, gen : Generations]]
    /\ snap \in [Readers -> [seq : Counters, gen : Generations]]

(* The header's invariant: a reader that validates counter 2k returns      *)
(* exactly generation k, not an older payload and not that of a write      *)
(* still in flight.  On the writers' side, store() and update() replace    *)
(* the very payload they found under the lock, so no update is lost, and   *)
(* the counter is odd exactly while the lock holder is between its first   *)
(* and its last store: a function that throws out of update() leaves it    *)
(* even.                                                                   *)
ValidatedGeneration ==
    /\ SeqTypeOK
    /\ \A r \in Readers : snap[r].seq = 2 * snap[r].gen
    /\ \A w \in Writers :
          wpc[w] \in {"begin", "payload"} => basis[w] = payload_
    /\ Even(seq_) <=>
          ~ \E w \in Writers : holder = w /\ wpc[w] \in {"payload", "end"}

(* Once writers stop, a reader in load() returns.                          *)
LoadReturns == \A r \in Readers : rpc[r] = "first" ~> rpc[r] = "idle"

=============================================================================
