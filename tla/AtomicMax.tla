------------------------------- MODULE AtomicMax ------------------------------
(***************************************************************************)
(* atomic_max() of DCLP/atomic_max.h with its default orders (success      *)
(* acq_rel, failure acquire).  The target is kept as the history of the    *)
(* values it held.  A load, and the read of a failed exchange, may return  *)
(* any value not older than the last one its thread read there; only a     *)
(* successful exchange is bound to the newest.  Every thread has written   *)
(* some data before its call, and `view' records whose data a thread is    *)
(* guaranteed to see: an acquire read of a value hands over everything     *)
(* released with it, and an exchange continues the release sequence of     *)
(* those before it.                                                        *)
(***************************************************************************)
EXTENDS Integers, Sequences, FiniteSets

CONSTANTS Callers, Values, InitialValue, NoCaller,
          MaxCalls       \* bound: calls each thread makes

ASSUME ValuesAssumption == Values \subseteq Int /\ InitialValue \in Int
ASSUME NoCallerAssumption == NoCaller \notin Callers
ASSUME CallsAssumption == MaxCalls \in Nat

VARIABLES history,   \* what the target held, oldest first: the value, the
                     \* thread that set it, whose data it publishes
          mpc, val, calls,
          at,        \* per thread: index of `cur' in the history
          view,      \* per thread: threads whose data it sees
          ret,       \* per thread: the last result
          offered    \* ghost: values of the calls that returned

maxVars == <<history, mpc, val, calls, at, view, ret, offered>>

Newest == Len(history)
Target == history[Newest].value
cur(t) == history[at[t]].value
Entry(v, t, S) == [value |-> v, by |-> t, data |-> S]

MaxInit ==
    /\ history = <<Entry(InitialValue, NoCaller, {})>>
    /\ mpc = [t \in Callers |-> "idle"]
    /\ val = [t \in Callers |-> InitialValue]
    /\ calls = [t \in Callers |-> 0]
    /\ at = [t \in Callers |-> 1]
    /\ view = [t \in Callers |-> {t}]
    /\ ret = [t \in Callers |-> FALSE]
    /\ offered = {}

Call(t, v) ==
    /\ mpc[t] = "idle"
    /\ calls[t] < MaxCalls
    /\ calls' = [calls EXCEPT ![t] = @ + 1]
    /\ val' = [val EXCEPT ![t] = v]
    /\ mpc' = [mpc EXCEPT ![t] = "load"]
    /\ UNCHANGED <<history, at, view, ret, offered>>

Acquire(t, i) ==
    /\ i \in at[t]..Newest
    /\ at' = [at EXCEPT ![t] = i]
    /\ view' = [view EXCEPT ![t] = @ \cup history[i].data]

(* The initial load.                                                       *)
LoadTarget(t) ==
    /\ mpc[t] = "load"
    /\ \E i \in 1..Newest : Acquire(t, i)
    /\ mpc' = [mpc EXCEPT ![t] = "test"]
    /\ UNCHANGED <<history, val, calls, ret, offered>>

Return(t, r) ==
    /\ mpc' = [mpc EXCEPT ![t] = "idle"]
    /\ ret' = [ret EXCEPT ![t] = r]
    /\ offered' = offered \cup {val[t]}

(* The loop condition fails: no update.                                    *)
NotGreater(t) ==
    /\ mpc[t] = "test"
    /\ val[t] <= cur(t)
    /\ Return(t, FALSE)
    /\ UNCHANGED <<history, val, calls, at, view>>

(* compare_exchange_weak succeeds: the target still holds `cur'.           *)
ExchangeWin(t) ==
    /\ mpc[t] = "test"
    /\ val[t] > cur(t)
    /\ cur(t) = Target
    /\ LET sees == view[t] \cup history[Newest].data IN
         /\ history' = Append(history, Entry(val[t], t, sees))
         /\ view' = [view EXCEPT ![t] = sees]
    /\ at' = [at EXCEPT ![t] = Newest + 1]
    /\ Return(t, TRUE)
    /\ UNCHANGED <<val, calls>>

\* Mutant: a failed exchange is taken for somebody else's larger value.
ExchangeGiveUp(t) ==
    /\ mpc[t] = "test"
    /\ val[t] > cur(t)
    /\ Return(t, FALSE)
    /\ UNCHANGED <<history, val, calls, at, view>>

(* It fails, for another value or spuriously, and refreshes `cur'.         *)
ExchangeFail(t) ==
    /\ mpc[t] = "test"
    /\ val[t] > cur(t)
    /\ \E i \in 1..Newest : Acquire(t, i)
    /\ UNCHANGED <<history, mpc, val, calls, ret, offered>>

MaxStep(t) == LoadTarget(t) \/ NotGreater(t) \/ ExchangeWin(t) \/ ExchangeFail(t)

(* Every call has returned and nobody calls again.                         *)
MaxDone ==
    /\ \A t \in Callers : mpc[t] = "idle" /\ calls[t] = MaxCalls
    /\ UNCHANGED maxVars

MaxNext ==
    \/ \E t \in Callers : MaxStep(t) \/ \E v \in Values : Call(t, v)
    \/ MaxDone

MaxSpec == MaxInit /\ [][MaxNext]_maxVars

(* A running thread keeps running, its reads are fresh some time and its   *)
(* weak exchange does not fail spuriously for ever.                        *)
FreshFail(t) == ExchangeFail(t) /\ at'[t] = Newest
MaxFairness ==
    \A t \in Callers :
        /\ WF_maxVars(LoadTarget(t) \/ NotGreater(t))
        /\ SF_maxVars(FreshFail(t)) /\ SF_maxVars(ExchangeWin(t))

MaxFairSpec == MaxSpec /\ MaxFairness

-----------------------------------------------------------------------------
MaxTypeOK ==
    /\ history \in Seq([value : Values \cup {InitialValue},
                        by : Callers \cup {NoCaller}, data : SUBSET Callers])
    /\ history # <<>>
    /\ mpc \in [Callers -> {"idle", "load", "test"}]
    /\ val \in [Callers -> Values \cup {InitialValue}]
    /\ calls \in [Callers -> 0..MaxCalls]
    /\ at \in [Callers -> 1..Len(history)]
    /\ view \in [Callers -> SUBSET Callers]
    /\ ret \in [Callers -> BOOLEAN]
    /\ offered \in SUBSET Values

(* A thread that has read a maximum sees the data of the thread that set   *)
(* it and of those that set the earlier ones: what release on success and  *)
(* acquire on failure promise to a caller publishing data with the number. *)
Published ==
    \A t \in Callers : \A i \in 2..at[t] : history[i].by \in view[t]

(* The target is the maximum of the initial value and the offers of all    *)
(* the calls that returned: an offer is neither lost to a race nor         *)
(* overwritten by a smaller one, whether the call won its exchange or gave *)
(* up.  It only ever grows, and it publishes what its setters wrote.       *)
IsMaximum ==
    /\ MaxTypeOK
    /\ \A v \in offered \cup {InitialValue} : v <= Target
    /\ Target \in offered \cup {InitialValue}
    /\ \A i, j \in 1..Newest : i < j => history[i].value < history[j].value
    /\ Published

(* A call returns, whatever the others do.                                 *)
CallReturns == \A t \in Callers : mpc[t] = "load" ~> mpc[t] = "idle"

=============================================================================
