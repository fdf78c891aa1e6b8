SPECIFICATION Spec
CONSTANTS
    PCB_TABLE_SIZE = 3
    SIGNAL_TABLE_SIZE = 1
    INT_MAX = 99
    PidBound = 5
    PidArgs = {4, 5}
    Syscalls <- SignalCalls
    Handlers = {20}
    HeapResidue = {0}
    Registers = {7}
    Messages <- OneByte
    RecvLens = {1}
    SleepTimes = {10}
INVARIANTS NoSignalLeftBehind HandlersNeverNest
PROPERTIES CallsEndForAReason
