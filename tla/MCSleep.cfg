SPECIFICATION FairSpec
CONSTANTS
    PCB_TABLE_SIZE = 3
    SIGNAL_TABLE_SIZE = 1
    INT_MAX = 99
    PidBound = 6
    PidArgs = {5}
    Syscalls <- SleepCalls
    Handlers = {20}
    HeapResidue = {0}
    Registers = {7}
    Messages <- OneByte
    RecvLens = {1}
    SleepTimes = {5, 20}
INVARIANTS TypeOK QueueIntegrity
PROPERTIES ImplementsCountdown EveryTickCounts ReadyRuns SleepersWake CallsEndForAReason
