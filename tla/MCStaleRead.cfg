SPECIFICATION KbdSpec
CONSTANTS
    PCB_TABLE_SIZE = 2
    SIGNAL_TABLE_SIZE = 1
    INT_MAX = 99
    PidBound = 4
    PidArgs = {4}
    Syscalls <- StaleReads
    Handlers = {20}
    HeapResidue = {0}
    Registers = {7}
    Messages <- OneByte
    RecvLens = {1}
    SleepTimes = {10}
    PCB_NUM_FDS = 1
    KEYBOARD_BUFFER_SIZE = 5
    Keys <- LetterLine
    EofChars = {97}
    ReadLens = {4}
    NullBuffers = {FALSE}
    TaskBound = 3
INVARIANTS QueueIntegrity
