SPECIFICATION ProcSpec
CONSTANTS
    freemem = 26
    HOLESTART = 256
    HOLEEND = 272
    maxaddr = 399
    KERNEL_STACK = 16
    Sizes = {1, 16, 32, 50, 1000}
    p1 = p1
    p2 = p2
    p3 = p3
    Pcbs = {p1, p2, p3}
    Stacks = {0, 50, 1000}
    DEFAULT_STACK_SIZE = 32
    TABLE = 16
    AtBoot <- MCAtBoot
INVARIANTS FreeListSound PointersGood OwnedOnce StacksPass
PROPERTIES ImplementsHeap
