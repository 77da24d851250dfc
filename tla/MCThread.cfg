SPECIFICATION MCSpec
CONSTANTS
    SizeMax = 63
    stagger_step = 2
    stagger_slots = 2
    start_frames_allowance = 3
    initial_stack_bytes = 5
    default_guard_bytes = 4
    CounterMax = 7
    Machines <- SmallMachines
    Stacks <- EdgeStacks
    Guards <- EdgeGuards
    Defaults <- FewDefaults
    Mains = {main}
    Pthreads = {p1, p2}
    Objects = {a, b}
    States = {s1, s2}
    Null = Null
    MaxLaunch = 2
CHECK_DEADLOCK FALSE
INVARIANTS SizesRight OneOwner
PROPERTY JoinReturns
