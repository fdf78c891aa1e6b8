--------------------------------- MODULE Pcb ---------------------------------
(***************************************************************************)
(* The process table of the kernel (src/c/pcb.c, src/c/create.c): the      *)
(* process control blocks, the READY and STOPPED queues, the blocking      *)
(* queues each process owns, and the kernel's single running process.      *)
(*                                                                         *)
(* A C queue of pcbs linked through next_proc/prev_proc is a sequence of   *)
(* slots here.  All lists of the kernel share the one pair of links a pcb  *)
(* has, so the sequences are the lists exactly as long as no pcb is in two *)
(* lists at once: that is what QueueIntegrity (module Disp) says.          *)
(***************************************************************************)
EXTENDS Integers, Sequences, FiniteSets, SequencesExt

CONSTANTS
    PCB_TABLE_SIZE,     \* number of pcbs in g_pcb_table
    SIGNAL_TABLE_SIZE,  \* number of signals
    INT_MAX,            \* largest pid an int can hold
    PidBound,           \* no pid above this one is handed out (search bound)
    PidArgs,            \* the pids that processes pass to system calls
    Syscalls,           \* the system calls the processes make
    Handlers,           \* addresses of signal handlers
    HeapResidue,        \* words that freshly allocated heap memory may hold
    Registers,          \* what eax may hold when a process enters the kernel
    Messages,           \* the contents of the buffers processes send
    RecvLens,           \* the lengths of the buffers they receive into
    SleepTimes          \* the milliseconds they sleep

ASSUME TableAssumption  == PCB_TABLE_SIZE \in Nat \ {0}
ASSUME SignalAssumption == SIGNAL_TABLE_SIZE \in Nat \ {0}
ASSUME PidAssumption    == INT_MAX \in Nat /\ PidBound \in Nat /\ PidArgs \subseteq Int
ASSUME WordAssumption   ==
    /\ Handlers \subseteq Nat \ {0}
    /\ HeapResidue \subseteq Nat
    /\ Registers \subseteq Int /\ Registers # {}
ASSUME BufferAssumption ==
    /\ Messages \subseteq Seq(Nat) /\ <<>> \notin Messages
    /\ RecvLens \subseteq Nat \ {0}
ASSUME SleepAssumption  == SleepTimes \subseteq Nat

NULL     == 0
Slots    == 1..PCB_TABLE_SIZE
IdleProc == PCB_TABLE_SIZE + 1      \* g_idle_proc, a pcb outside the table
Procs    == 1..(PCB_TABLE_SIZE + 1)
Signals  == 0..(SIGNAL_TABLE_SIZE - 1)

READY   == "READY"
STOPPED == "STOPPED"
RUNNING == "RUNNING"
BLOCKED == "BLOCKED"
ProcStates == {READY, STOPPED, RUNNING, BLOCKED}

\* blocking_queue_t: the three queues a process owns, and the other reasons
\* for being blocked
SENDER      == "SENDER"
RECEIVER    == "RECEIVER"
WAITING     == "WAITING"
RECEIVE_ANY == "RECEIVE_ANY"
SLEEP       == "SLEEP"
DEVICE      == "DEVICE"
NO_BLOCKER  == "NO_BLOCKER"
Queues      == {SENDER, RECEIVER, WAITING}
Blockers    == Queues \cup {RECEIVE_ANY, SLEEP, DEVICE, NO_BLOCKER}

\* Return codes (src/h/xeroskernel.h)
SYSPID_OK                  == 0
SYSPID_DNE                 == -1
SYSPID_ME                  == -2
SYSERR_OTHER               == -3
SYSERR                     == -1
EINVAL                     == -6
ENOMEM                     == -7
EPROCLIMIT                 == -8
PROC_SIGNALLED             == -362
SYSWAIT_SIGNALLED          == -2
SYSKILL_TARGET_DNE         == -712
SYSKILL_INVALID_SIGNAL     == -651
SYSHANDLER_INVALID_SIGNAL  == -1
SYSHANDLER_INVALID_FUNCPTR == -2
TICK_LENGTH_IN_MS          == 10

VARIABLES
    pid, curr_state, ret,                \* pcb fields; ret holds a sleeper's delta
    blocking_proc, blocking_queue_name,  \* what a pcb is blocked on
    blocking_queue,                      \* the queues a pcb owns
    signal_table, signals_fired, signals_enabled,
    ready, stopped,                      \* g_proc_queue_heads/tails
    sleeping,                            \* g_sleeping_list
    currproc,                            \* the process being dispatched
    mode,                                \* who has the CPU: "kernel" or "user"
    halted,                              \* an ASSERT failed: the kernel spins
    frames,                              \* signal contexts on the user's stack
    buffer, from_pid                     \* user memory passed to send/recv

pcbVars    == <<pid, curr_state, blocking_proc, blocking_queue_name, blocking_queue>>
signalVars == <<signal_table, signals_fired, signals_enabled, frames>>
userVars   == <<buffer, from_pid>>
listVars   == <<ready, stopped, sleeping, currproc>>
vars       == <<pcbVars, ret, signalVars, userVars, listVars, mode, halted>>

-----------------------------------------------------------------------------
(* Queues of pcbs *)

EmptyQueues == [q \in Queues |-> <<>>]

\* Mutant: adds at the head.
add_proc_to_queue_head(q, proc) == <<proc>> \o q

\* add_proc_to_queue: at the tail.
add_proc_to_queue(q, proc) == Append(q, proc)

\* Mutant: removes the head, whoever it is.
remove_proc_from_queue_head(q, proc) == Tail(q)

\* remove_proc_from_queue: from wherever it is; proc must be in q.
remove_proc_from_queue(q, proc) ==
    RemoveAt(q, CHOOSE i \in DOMAIN q : q[i] = proc)

\* get_next_proc: pop the READY queue r, run the idle process when it is empty.
\* st is the state of every process after the handler's own changes.
get_next_proc(r, st) ==
    LET next == IF r = <<>> THEN IdleProc ELSE Head(r)
    IN  /\ ready' = IF r = <<>> THEN <<>> ELSE Tail(r)
        /\ currproc' = next
        /\ curr_state' = [st EXCEPT ![next] = RUNNING]

\* Mutant: queues the idle process too.
enqueue_ready_idle(r, proc) == add_proc_to_queue(r, proc)

\* add_pcb_to_queue(proc, READY) on queue r: the idle process is never queued.
enqueue_ready(r, proc) ==
    IF proc = IdleProc THEN r ELSE add_proc_to_queue(r, proc)

\* Mutant: finds STOPPED processes too.
pid_to_proc_stopped(p) ==
    LET proc == ((p - 1) % PCB_TABLE_SIZE) + 1
    IN  IF p >= 1 /\ pid[proc] = p THEN proc ELSE NULL

\* pid_to_proc: the pcb of a pid, found in constant time, or NULL.
pid_to_proc(p) ==
    LET proc == ((p - 1) % PCB_TABLE_SIZE) + 1
    IN  IF p >= 1 /\ pid[proc] = p /\ curr_state[proc] # STOPPED
        THEN proc ELSE NULL

\* Mutant: starts again too early, and at a multiple of the table size.
next_pid_early(old_pid) == (old_pid + PCB_TABLE_SIZE) % (2 * PCB_TABLE_SIZE)

\* The pid a recycled pcb gets.  The C sum wraps to a negative number past
\* INT_MAX, and the old pid modulo the table size is used instead.
next_pid(old_pid) ==
    IF old_pid + PCB_TABLE_SIZE > INT_MAX
    THEN old_pid % PCB_TABLE_SIZE
    ELSE old_pid + PCB_TABLE_SIZE

\* A list of pcbs holds exactly the processes of a set, each once.
Lists(q, S) == IsInjective(q) /\ ToSet(q) = S

-----------------------------------------------------------------------------
(* Entering the kernel *)

\* A handler whose ASSERTs are the condition: when they fail the kernel spins
\* for ever, and what the handler had already done no longer matters.
Asserting(condition, handler) ==
    IF condition
    THEN handler /\ UNCHANGED halted
    ELSE halted' = TRUE /\ UNCHANGED <<pcbVars, ret, signalVars, userVars, listVars>>

\* The running process executes the int instruction for one of its calls.
Syscall(call) ==
    /\ mode = "user" /\ ~halted
    /\ currproc # IdleProc
    /\ call \in Syscalls
    /\ mode' = "kernel"

\* A call that changes nothing: ret keeps the user's eax.
Ignore == UNCHANGED <<pcbVars, ret, signalVars, userVars, listVars, halted>>

\* A call that answers at once and changes nothing but the return value.
Return(code) ==
    /\ ret' = [ret EXCEPT ![currproc] = code]
    /\ UNCHANGED <<pcbVars, signalVars, userVars, listVars, halted>>

-----------------------------------------------------------------------------
(* Creation and termination *)

\* The words of a new signal table.  kmalloc does not clear memory, and the
\* memset of get_next_available_pcb clears sizeof(size_t) bytes: one entry.
new_signal_tables ==
    {t \in [Signals -> HeapResidue \cup {NULL}] : t[0] = NULL}

\* create: a free pcb becomes a READY process.
create ==
    LET proc == Head(stopped)
        new_pid == next_pid(pid[proc])
    IN  /\ stopped # <<>>
        /\ new_pid <= PidBound
        /\ Asserting(new_pid >= 1,
             /\ stopped' = Tail(stopped)
             /\ ready' = add_proc_to_queue(ready, proc)
             /\ pid' = [pid EXCEPT ![proc] = new_pid]
             /\ curr_state' = [curr_state EXCEPT ![proc] = READY]
             /\ ret' = [ret EXCEPT ![proc] = 0, ![currproc] = new_pid]
             /\ blocking_proc' = [blocking_proc EXCEPT ![proc] = NULL]
             /\ blocking_queue_name' = [blocking_queue_name EXCEPT ![proc] = NO_BLOCKER]
             /\ blocking_queue' = [blocking_queue EXCEPT ![proc] = EmptyQueues]
             /\ \E t \in new_signal_tables :
                    signal_table' = [signal_table EXCEPT ![proc] = t]
             /\ signals_fired' = [signals_fired EXCEPT ![proc] = {}]
             /\ signals_enabled' = [signals_enabled EXCEPT ![proc] = TRUE]
             /\ UNCHANGED <<frames, userVars, sleeping, currproc>>)

\* create: the allocation of the signal table fails.  The pcb, cleared except
\* for its pid, goes back to the end of the STOPPED queue; a cleared
\* blocking_queue_name is SENDER, the enumeration's zero.
create_without_table ==
    LET proc == Head(stopped)
    IN  /\ stopped # <<>>
        /\ stopped' = add_proc_to_queue(Tail(stopped), proc)
        /\ ret' = [ret EXCEPT ![proc] = 0, ![currproc] = EPROCLIMIT]
        /\ blocking_proc' = [blocking_proc EXCEPT ![proc] = NULL]
        /\ blocking_queue_name' = [blocking_queue_name EXCEPT ![proc] = SENDER]
        /\ blocking_queue' = [blocking_queue EXCEPT ![proc] = EmptyQueues]
        /\ signal_table' = [signal_table EXCEPT ![proc] = [s \in Signals |-> NULL]]
        /\ signals_fired' = [signals_fired EXCEPT ![proc] = {}]
        /\ signals_enabled' = [signals_enabled EXCEPT ![proc] = FALSE]
        /\ UNCHANGED <<pid, curr_state, frames, userVars, ready, sleeping, currproc, halted>>

\* notify_blocked_procs: the processes in one queue of proc, in order.
notify_blocked_procs(r, proc, queue) == r \o blocking_queue[proc][queue]

\* cleanup_proc of the running process, and the choice of its successor.
\* Everyone blocked on it becomes READY with the return value set when it
\* blocked; its stack (the saved contexts, the buffers) is freed.
cleanup_proc ==
    LET proc     == currproc
        notified == UNION {ToSet(blocking_queue[proc][q]) : q \in Queues}
        r == notify_blocked_procs(
               notify_blocked_procs(
                 notify_blocked_procs(ready, proc, SENDER), proc, RECEIVER), proc, WAITING)
        \* remove_proc_from_blocking_queue must find each of them, blocked
        found == \A q \in Queues : \A w \in ToSet(blocking_queue[proc][q]) :
                    /\ blocking_proc[w] = proc /\ blocking_queue_name[w] = q
                    /\ curr_state[w] = BLOCKED
    IN  \* resolve_blocking would assert that the running process is BLOCKED
        Asserting(found /\ blocking_queue_name[proc] = NO_BLOCKER,
             /\ get_next_proc(r, [w \in Procs |-> IF w = proc THEN STOPPED
                                                  ELSE IF w \in notified THEN READY
                                                  ELSE curr_state[w]])
             /\ stopped' = add_proc_to_queue(stopped, proc)
             /\ blocking_proc' = [w \in Procs |-> IF w \in notified THEN NULL
                                                  ELSE blocking_proc[w]]
             /\ blocking_queue_name' = [w \in Procs |-> IF w \in notified THEN NO_BLOCKER
                                                        ELSE blocking_queue_name[w]]
             /\ blocking_queue' = [blocking_queue EXCEPT ![proc] = EmptyQueues]
             /\ frames' = [frames EXCEPT ![proc] = <<>>]
             /\ buffer' = [buffer EXCEPT ![proc] = <<>>]
             /\ from_pid' = [from_pid EXCEPT ![proc] = 0]
             /\ UNCHANGED <<pid, ret, signal_table, signals_fired, signals_enabled, sleeping>>)

\* get_all_proc_info: the index of the last slot filled; the idle process has
\* slot 0, every process that is not STOPPED the next one.
get_all_proc_info == Cardinality({p \in Slots : curr_state[p] # STOPPED})

-----------------------------------------------------------------------------
\* The state in which dispatch() first switches to the root process: the table
\* initialised in order, the root process created in its first pcb.
Init ==
    /\ pid = [p \in Procs |-> IF p = IdleProc THEN 0
                              ELSE IF p = 1 THEN 1 + PCB_TABLE_SIZE ELSE p]
    /\ curr_state = [p \in Procs |-> IF p = IdleProc THEN BLOCKED
                                     ELSE IF p = 1 THEN RUNNING ELSE STOPPED]
    /\ ret = [p \in Procs |-> 0]
    /\ blocking_proc = [p \in Procs |-> NULL]
    /\ blocking_queue_name = [p \in Procs |-> IF p = 1 THEN NO_BLOCKER ELSE SENDER]
    /\ blocking_queue = [p \in Procs |-> EmptyQueues]
    /\ \E t \in new_signal_tables :
           signal_table = [p \in Procs |-> IF p = 1 THEN t ELSE [s \in Signals |-> NULL]]
    /\ signals_fired = [p \in Procs |-> {}]
    /\ signals_enabled = [p \in Procs |-> p = 1]
    /\ ready = <<>>
    /\ stopped = [i \in 1..(PCB_TABLE_SIZE - 1) |-> i + 1]
    /\ sleeping = <<>>
    /\ currproc = 1
    /\ mode = "kernel"
    /\ halted = FALSE
    /\ frames = [p \in Procs |-> <<>>]
    /\ buffer = [p \in Procs |-> <<>>]
    /\ from_pid = [p \in Procs |-> 0]
=============================================================================
