------------------------------- MODULE MCThread -------------------------------
(* The sizes of a Thread and its life, checked in one run: a behaviour     *)
(* exercises one of the two, its subject, and leaves the other at rest.    *)
(* The size_t of the instance has six bits.                                *)
EXTENDS ThreadStack, ThreadLife

\* Pages and alignments are powers of two; the minimum is SIZE_MAX when
\* sysconf() fails.
SmallMachines == [page : {1, 8}, tls : {0, 9, 57, 63}, align : {0, 2, 16},
                  minimum : {0, 6, SizeMax}]
EdgeStacks == {0, 5, 9, 24, 31, 32, 40, 47, 55, 62, 63}
FewDefaults == {5, 63}
EdgeGuards == {0, 7, 16, 33, 63}

VARIABLE subject

MCVars == <<subject, vars, lifeVars>>

\* What is not the subject starts in one way only.
MCInit ==
    /\ subject \in {"sizes", "life"} /\ Init /\ LifeInit
    /\ subject = "life" => machine = CHOOSE m \in Machines : TRUE
    /\ subject = "sizes" => \A r \in Runners : mask[r] = {}

Sizing == subject = "sizes" /\ UNCHANGED <<subject, lifeVars>>
Living == subject = "life" /\ UNCHANGED <<subject, vars>>

MCNext ==
    \/ \E bytes \in Defaults : set_default_stack_size(bytes) /\ Sizing
    \/ \E s \in Optionals(Stacks), g \in Optionals(Guards) : AttrOwner(s, g) /\ Sizing
    \/ Forget /\ Sizing
    \/ \E t \in Runners :
        \/ CopyState(t) /\ Living
        \/ Block(t) /\ Living
        \/ Create(t) /\ Living
        \/ Restore(t) /\ Living
        \/ Finish(t) /\ Living
        \/ FinishFails(t) /\ Living
        \/ JoinDone(t) /\ Living
        \/ \E o \in Objects :
            \/ Launch(t, o) /\ Living
            \/ Join(t, o) /\ Living
            \/ Destroy(t, o) /\ Living
            \/ JoinTerminates(t, o) /\ Living
            \/ Detach(t, o) /\ Living
            \/ \E src \in Objects : Move(t, o, src) /\ Living
            \/ \E src \in Objects : MoveAssign(t, o, src) /\ Living
            \/ \E src \in Objects : Swap(t, o, src) /\ Living
            \/ \E u \in Runners : Give(t, o, u) /\ Living
    \/ \E p \in Pthreads :
        \/ SetMask(p) /\ Living
        \/ Returns(p) /\ Living
        \/ End(p) /\ Living
        \/ Unblock(p) /\ Living
        \/ Throw(p) /\ Living

MCSpec == MCInit /\ [][MCNext]_MCVars /\ LifeFairness
=============================================================================
