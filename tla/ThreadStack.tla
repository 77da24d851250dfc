----------------------------- MODULE ThreadStack -----------------------------
(***************************************************************************)
(* The stack and guard sizes of Thread (Thread/thread.h): what AttrOwner   *)
(* computes from a request, the process default and the machine's          *)
(* parameters, in size_t arithmetic, and what glibc leaves of it for the   *)
(* callable.  An optional is a set of at most one value.                   *)
(***************************************************************************)
EXTENDS Integers

CONSTANTS SizeMax,                  \* SIZE_MAX
          stagger_step, stagger_slots,
          start_frames_allowance,   \* also what start-up really uses
          initial_stack_bytes,      \* default_stack_bytes at start-up
          default_guard_bytes,
          CounterMax,               \* UINT_MAX, of the creation counter
          Machines,                 \* [page, tls, align, minimum]
          Stacks, Guards,           \* the sizes asked for
          Defaults                  \* the process defaults

ASSUME SizesAssumption ==
    /\ SizeMax \in Nat /\ CounterMax \in Nat
    /\ stagger_step \in 0..SizeMax /\ stagger_slots \in Nat \ {0}
    /\ start_frames_allowance \in 0..SizeMax
    /\ default_guard_bytes \in 0..SizeMax
    /\ Stacks \subseteq 0..SizeMax /\ Guards \subseteq 0..SizeMax
    /\ Defaults \subseteq 0..SizeMax /\ initial_stack_bytes \in Defaults
ASSUME MachinesAssumption ==
    Machines \subseteq [page : 1..SizeMax, tls : 0..SizeMax, align : 0..SizeMax,
                       minimum : 0..SizeMax]
\* Pages and alignments are powers of two; this is all that is used of it.
ASSUME PowersAssumption ==
    \A m \in Machines :
        /\ (SizeMax + 1) % m.page = 0
        /\ m.align # 0 => (SizeMax + 1) % m.align = 0
        /\ m.align \in 1..m.page => m.page % m.align = 0
ASSUME ExtraAssumption ==
    (stagger_slots - 1) * stagger_step + start_frames_allowance \in 1..SizeMax

VARIABLES machine,              \* read once and cached
          default_stack_bytes,
          result                \* of the construction under way
vars == <<machine, default_stack_bytes, result>>

-----------------------------------------------------------------------------
(* size_t wraps.                                                           *)
Plus(a, b) == (a + b) % (SizeMax + 1)

max_stagger == (stagger_slots - 1) * stagger_step
stack_extra == max_stagger + start_frames_allowance
stagger_for(n) == (n % stagger_slots) * stagger_step

page_round(n, granule) ==
    IF n > SizeMax - (granule - 1) THEN {}
    ELSE {(Plus(n, granule - 1) \div granule) * granule}

\* Mutant: the clamp is applied after the additions.
ClampLast(requested, extra, tls, granule, minimum) ==
    IF extra > SizeMax - requested \/ tls > SizeMax - Plus(requested, extra) THEN {}
    ELSE LET sum == Plus(Plus(requested, extra), tls) IN
         page_round(IF sum < minimum THEN minimum ELSE sum, granule)
compute_stack_size(requested, extra, tls, granule, minimum) ==
    LET clamped == IF requested < minimum THEN minimum ELSE requested
        with_extra == Plus(clamped, extra)
    IN  IF extra > SizeMax - clamped \/ tls > SizeMax - with_extra THEN {}
        ELSE page_round(Plus(with_extra, tls), granule)

guard_fits(stack, guard, page) ==
    \E rounded \in page_round(guard, page) : rounded <= SizeMax - stack

tls_carve_bound(size, align) ==
    LET fits == {r \in page_round(size, align) : r <= SizeMax - (align - 1)} IN
    IF fits = {} THEN SizeMax ELSE Plus(CHOOSE r \in fits : TRUE, align - 1)

(* What the query of glibc's static TLS gives; an alignment of 0 is 1.     *)
tls_align(m) == IF m.align = 0 THEN 1 ELSE m.align
static_tls_size(m) == tls_carve_bound(m.tls, tls_align(m))
stack_granule(m) == IF tls_align(m) > m.page THEN tls_align(m) ELSE m.page

-----------------------------------------------------------------------------
Init ==
    /\ machine \in Machines
    /\ default_stack_bytes = initial_stack_bytes
    /\ result = [is |-> "none"]

set_default_stack_size(bytes) ==
    /\ result.is = "none" /\ bytes # default_stack_bytes
    /\ default_stack_bytes' = bytes
    /\ UNCHANGED <<machine, result>>

Overflow(requested, guard) == [is |-> "EINVAL", requested |-> requested, guard |-> guard]
Sized(requested, guard, stack) ==
    [is |-> "sized", requested |-> requested, guard |-> guard, stack |-> stack]

(* The steps 1 and 2 of a construction, for requests that are optionals.   *)
AttrOwner(stack_request, guard_request) ==
    /\ result.is = "none"
    /\ \E requested \in IF stack_request = {} THEN {default_stack_bytes} ELSE stack_request,
          guard \in IF guard_request = {} THEN {default_guard_bytes} ELSE guard_request :
        LET stack == compute_stack_size(requested, stack_extra, static_tls_size(machine),
                                        stack_granule(machine), machine.minimum)
        IN  \/ /\ \A s \in stack : ~guard_fits(s, guard, machine.page)
               /\ result' = Overflow(requested, guard)
            \/ \E s \in stack :
                /\ guard_fits(s, guard, machine.page)
                /\ result' = Sized(requested, guard, s)
    /\ UNCHANGED <<machine, default_stack_bytes>>

(* The construction is over; the next one may begin.                       *)
Forget == result.is # "none" /\ result' = [is |-> "none"]
          /\ UNCHANGED <<machine, default_stack_bytes>>

Optionals(S) == {{}} \cup {{s} : s \in S}
Next ==
    \/ \E bytes \in Defaults : set_default_stack_size(bytes)
    \/ \E s \in Optionals(Stacks), g \in Optionals(Guards) : AttrOwner(s, g)
    \/ Forget
Spec == Init /\ [][Next]_vars

-----------------------------------------------------------------------------
(* What glibc takes: it truncates the size to the TLS alignment, subtracts *)
(* the rounded TLS size from the top, and aligns the thread descriptor,    *)
(* which loses anything below one alignment unit.                          *)
UpTo(n, unit) == ((n + unit - 1) \div unit) * unit
Usable(m, stack, lost, n) ==
    (stack \div tls_align(m)) * tls_align(m)
    - UpTo(m.tls, tls_align(m)) - lost - stagger_for(n) - start_frames_allowance
Least(m, requested) == IF requested < m.minimum THEN m.minimum ELSE requested
WholeStack(m, requested) ==
    UpTo(Least(m, requested) + stack_extra + UpTo(m.tls, tls_align(m)) + tls_align(m) - 1,
         stack_granule(m))

(* Types.  In particular a computed stack is never empty, which it would   *)
(* be had the rounding wrapped.                                            *)
TypeOK ==
    /\ machine \in Machines
    /\ default_stack_bytes \in Defaults
    /\ result \in [is : {"none"}]
          \cup [is : {"EINVAL"}, requested : 0..SizeMax, guard : 0..SizeMax]
          \cup [is : {"sized"}, requested : 0..SizeMax, guard : 0..SizeMax, stack : 1..SizeMax]

(* The thread gets at least the stack it asked for, and at least the       *)
(* system's minimum, below the callable's first frame: at every stagger    *)
(* position, across the creation counter's wrap, wherever glibc's          *)
(* alignment puts the thread descriptor.                                   *)
StackAsRequested ==
    result.is = "sized" =>
        \A n \in 0..CounterMax, lost \in 0..tls_align(machine) - 1 :
            Usable(machine, result.stack, lost, n) >= Least(machine, result.requested)

(* A construction fails in step 1 exactly when the block glibc would map,  *)
(* the rounded stack and the rounded guard, is larger than size_t holds:   *)
(* computed here without any bound on the integers.                        *)
OverflowExact ==
    result.is # "none" =>
        LET stack == WholeStack(machine, result.requested)
        IN  /\ result.is = "EINVAL" <=> stack + UpTo(result.guard, machine.page) > SizeMax
            /\ result.is = "sized" => result.stack = stack

(* Step 1 rejects exactly what does not fit, and what it accepts leaves    *)
(* the callable the stack that was asked for, if the class's own frames    *)
(* take what is allowed for them (unusually long argument lists may not).  *)
SizesRight == TypeOK /\ OverflowExact /\ StackAsRequested
=============================================================================
