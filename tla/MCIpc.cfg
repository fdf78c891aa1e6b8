SPECIFICATION Spec
CONSTANTS
    PCB_TABLE_SIZE = 3
    SIGNAL_TABLE_SIZE = 1
    INT_MAX = 8
    PidBound = 7
    PidArgs = {1, 4, 5, 6, 7}
    Syscalls <- IpcCalls
    Handlers = {20}
    HeapResidue = {0}
    Registers = {7}
    Messages <- OneByte
    RecvLens = {1}
    SleepTimes = {}
INVARIANTS QueueIntegrity NoMissedRendezvous NoOrphans
PROPERTIES ImplementsRendezvous HaltsOnlyWhen
CHECK_DEADLOCK FALSE
