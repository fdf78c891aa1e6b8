SPECIFICATION Spec
CONSTANTS
    Users = {p1, p2}
    Idle = idle
INVARIANTS KernelUninterrupted NoStrayInterrupt ClockGetsThrough KeyboardServed ContextsKept
CHECK_DEADLOCK FALSE
