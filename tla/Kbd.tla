---------------------------------- MODULE Kbd ----------------------------------
(***************************************************************************)
(* Devices: the descriptors of the processes (src/c/di_calls.c), the       *)
(* keyboard driver (src/c/kbd.c), and the handlers of sysopen, sysclose,   *)
(* sysread, syswrite, sysioctl and of the keyboard interrupt (disp.c),     *)
(* added to the kernel of module Disp.                                     *)
(*                                                                         *)
(* The two devices are the keyboard without (0) and with (1) echo; they    *)
(* share one driver and all of its state.  Scan codes are translated to    *)
(* characters before the model starts; a key that gives none is no event.  *)
(***************************************************************************)
EXTENDS Disp

CONSTANTS
    PCB_NUM_FDS,            \* descriptors of a process
    KEYBOARD_BUFFER_SIZE,   \* size of the ring buffer; one place stays empty
    Keys,                   \* the characters that are typed
    EofChars,               \* the characters that processes make the EOF
    ReadLens,               \* lengths passed to read, as verify_usrptr wants them
    NullBuffers,            \* whether a NULL buffer is passed to write
    TaskBound               \* no read starts while so many are counted (search bound)

ASSUME FdAssumption  == PCB_NUM_FDS \in Nat \ {0}
ASSUME KeyAssumption ==
    /\ KEYBOARD_BUFFER_SIZE \in Nat \ {0}
    /\ Keys \subseteq Nat \ {0} /\ EofChars \subseteq Nat
    /\ ReadLens \subseteq Nat \ {0} /\ NullBuffers \subseteq BOOLEAN
    /\ TaskBound \in Nat

Fds             == 0..(PCB_NUM_FDS - 1)
FdArgs          == Fds \cup {PCB_NUM_FDS}
Devices         == {0, 1}
CLOSED          == -1
NEWLINE         == 10
KBD_DEFAULT_EOF == 4
BLOCKERR        == -5

VARIABLES
    fd_table,               \* the device of each descriptor of each pcb
    g_kbd_refcount,         \* open descriptors
    g_kbd_current_type,     \* which of the two devices they are
    g_kbd_done,             \* EOF was typed
    enabled,                \* the keyboard's interrupt line is not masked
    task,                   \* g_kbd_task_list: one read per pcb
    g_kbd_task_refcount,    \* reads that wait
    g_keyboard_buffer, g_keyboard_eof, g_keyboard_echo_flag

kbdVars == <<g_kbd_refcount, g_kbd_current_type, g_kbd_done, enabled, task,
             g_kbd_task_refcount, g_keyboard_buffer, g_keyboard_eof, g_keyboard_echo_flag>>
devVars == <<fd_table, kbdVars>>
allVars == <<vars, devVars>>

NoFds   == [fd \in Fds |-> CLOSED]
Open(p) == {fd \in Fds : fd_table[p][fd] # CLOSED}

KbdInit ==
    /\ Init
    /\ fd_table = [p \in Slots |-> NoFds]
    /\ g_kbd_refcount = 0 /\ g_kbd_current_type = 0 /\ g_kbd_done = FALSE /\ enabled = FALSE
    /\ task = [p \in Slots |-> [waiting_on_read |-> FALSE, buflen |-> 0, buf |-> <<>>]]
    /\ g_kbd_task_refcount = 0
    /\ g_keyboard_buffer = <<>> /\ g_keyboard_eof = 0 /\ g_keyboard_echo_flag = 0

-----------------------------------------------------------------------------
(* Opening and closing *)

\* kbd_open: another descriptor for the device that is open, or the first.
kbd_open(echo_flag) ==
    \/ /\ g_kbd_refcount > 0
       /\ g_kbd_refcount' = g_kbd_refcount + 1
       /\ UNCHANGED <<g_kbd_current_type, g_kbd_done, enabled, g_keyboard_buffer,
                      g_keyboard_eof, g_keyboard_echo_flag>>
    \/ /\ g_kbd_refcount = 0
       /\ g_kbd_refcount' = 1
       /\ g_kbd_current_type' = echo_flag
       /\ g_kbd_done' = FALSE
       /\ g_keyboard_buffer' = <<>>
       /\ g_keyboard_eof' = KBD_DEFAULT_EOF
       /\ g_keyboard_echo_flag' = echo_flag
       /\ enabled' = TRUE

\* di_open: the lowest free descriptor, if there is one and the driver agrees.
di_open(device_no) ==
    LET free  == Fds \ Open(currproc)
        EBUSY == g_kbd_refcount > 0 /\ g_kbd_current_type # device_no
        ok    == device_no \in Devices /\ free # {} /\ ~EBUSY
    IN  \/ ~ok /\ Return(SYSERR) /\ UNCHANGED devVars
        \/ /\ ok
           /\ Asserting(g_kbd_refcount = 0 => ~task[currproc].waiting_on_read,
                /\ ret' = [ret EXCEPT ![currproc] = Min(free)]
                /\ UNCHANGED <<pcbVars, signalVars, userVars, listVars>>)
           /\ kbd_open(device_no)
           /\ fd_table' = [fd_table EXCEPT ![currproc][Min(free)] = device_no]
           /\ UNCHANGED <<task, g_kbd_task_refcount>>

dispatch_syscall_open == Syscall("OPEN") /\ \E device_no \in Devices \cup {-1} : di_open(device_no)

\* Mutant: overlooks the last descriptor.
closable_but_last(fds) == {fd \in fds : fd < PCB_NUM_FDS - 1}

\* The descriptors that are closed when proc closes those in fds, lowest first:
\* kbd_close refuses (EBADF) when nothing is open.
closable(fds) == {fd \in fds : Cardinality({f \in fds : f <= fd}) <= g_kbd_refcount}

\* Mutant: stays enabled.
enabled_after_any_close(closed) == enabled

\* The last close disables the keyboard.
enabled_after_close(closed) ==
    enabled /\ (closed = {} \/ Cardinality(closed) < g_kbd_refcount)

\* Mutant: leaves the read waiting.
task_not_closed(proc, closed) == task

\* A close ends the read of the process, whichever descriptor it was for.
task_after_close(proc, closed) ==
    [task EXCEPT ![proc].waiting_on_read = @ /\ closed = {}]

\* kbd_close, for each of these descriptors: and the read of proc
\* that waited is counted no more.
kbd_close(proc, closed) ==
    LET waits == closed # {} /\ task[proc].waiting_on_read
    IN  /\ fd_table' = [fd_table EXCEPT ![proc] =
                            [fd \in Fds |-> IF fd \in closed THEN CLOSED ELSE @[fd]]]
        /\ g_kbd_refcount' = g_kbd_refcount - Cardinality(closed)
        /\ enabled' = enabled_after_close(closed)
        /\ task' = task_after_close(proc, closed)
        /\ g_kbd_task_refcount' = g_kbd_task_refcount - (IF waits THEN 1 ELSE 0)
        /\ UNCHANGED <<g_kbd_current_type, g_kbd_done, g_keyboard_buffer, g_keyboard_eof,
                       g_keyboard_echo_flag>>

dispatch_syscall_close ==
    /\ Syscall("CLOSE")
    /\ \E fd \in FdArgs :
         LET closed == closable({fd} \cap Open(currproc))
         IN  Return(IF closed = {} THEN SYSERR ELSE 0) /\ kbd_close(currproc, closed)

-----------------------------------------------------------------------------
(* Characters and the reads that wait for them *)

\* The order of g_kbd_task_list, which is indexed by pid % KBD_TASK_LIST_SIZE.
TaskOrder == [i \in 1..PCB_TABLE_SIZE |-> IF i = 1 THEN PCB_TABLE_SIZE ELSE i - 1]

\* The processes of a set, in the order of a list of processes.
InOrder(list, set) ==
    FoldLeft(LAMBDA s, p : IF p \in set THEN Append(s, p) ELSE s, <<>>, list)

\* What characters change, and the processes whose reads they end, in order.
Keyboard == [task |-> task, refcount |-> g_kbd_task_refcount, done |-> g_kbd_done,
             enabled |-> enabled, buffer |-> g_keyboard_buffer, unblocked |-> <<>>]

\* Mutant: does not look for a full buffer.
read_ends_at_newline(c, t) == c = g_keyboard_eof \/ c = NEWLINE

\* Mutant: does not look for EOF.
read_ends_when_full(c, t) == c = NEWLINE \/ Len(t.buf) = t.buflen

\* Character c ends a read, now t.
read_ends(c, t) == c = g_keyboard_eof \/ c = NEWLINE \/ Len(t.buf) = t.buflen

\* keyboard_process_char, keyboard_handle_eof: the character goes to every read
\* that waits, and ends those that are full; a newline ends them all, an EOF
\* ends them all and the input.
keyboard_process_char(k, c) ==
    LET eof     == c = g_keyboard_eof
        waiting == {p \in Slots : k.task[p].waiting_on_read}
        written == [p \in Slots |-> IF p \in waiting /\ ~eof
                                    THEN [k.task[p] EXCEPT !.buf = Append(@, c)] ELSE k.task[p]]
        ended   == {p \in waiting : read_ends(c, written[p])}
    IN  [k EXCEPT !.task      = [p \in Slots |-> [written[p] EXCEPT !.waiting_on_read =
                                                      @ /\ p \notin ended]],
                  !.refcount  = @ - Cardinality(ended),
                  !.done      = @ \/ eof,
                  !.enabled   = @ /\ ~eof,
                  !.unblocked = @ \o InOrder(TaskOrder, ended)]

\* Mutant: leaves what was typed ahead for later.
keyboard_flush_buffer_later(k) == k

\* keyboard_flush_buffer: characters typed ahead, while a read waits.
keyboard_flush_buffer(k) ==
    FoldLeft(LAMBDA s, c : IF s.refcount > 0
                           THEN [keyboard_process_char(s, c) EXCEPT !.buffer = Tail(@)] ELSE s,
             k, k.buffer)

Becomes(k) ==
    /\ task' = k.task /\ g_kbd_task_refcount' = k.refcount /\ g_kbd_done' = k.done
    /\ enabled' = k.enabled /\ g_keyboard_buffer' = k.buffer
    /\ UNCHANGED <<fd_table, g_kbd_refcount, g_kbd_current_type, g_keyboard_eof,
                   g_keyboard_echo_flag>>

\* keyboard_unblock_proc: the task's process gets the length as its return
\* value, and is made READY if it is BLOCKED, whatever it is blocked on.
unblocked_ret(k) ==
    [p \in Procs |-> IF p \in ToSet(k.unblocked) THEN Len(k.task[p].buf) ELSE ret[p]]

\* Mutant: the edge case is forgotten.
unblocked_procs_any(k) == k.unblocked

unblocked_procs(k) == InOrder(k.unblocked, InState(BLOCKED))

unblocked_ready(k) == ready \o unblocked_procs(k)

unblocked_state(k) ==
    [p \in Procs |-> IF p \in ToSet(unblocked_procs(k)) THEN READY ELSE curr_state[p]]

unblocked_name(k) ==
    [p \in Procs |-> IF p \in ToSet(unblocked_procs(k)) THEN NO_BLOCKER
                     ELSE blocking_queue_name[p]]

\* kbd_read: the characters typed ahead may be enough; else the process blocks.
kbd_read(buflen) ==
    LET started == [task EXCEPT ![currproc] =
                        [waiting_on_read |-> TRUE, buflen |-> buflen, buf |-> <<>>]]
        k    == keyboard_flush_buffer([Keyboard EXCEPT !.task = started, !.refcount = @ + 1])
        got  == Len(k.task[currproc].buf)
        over == got = buflen \/ k.done
    IN  /\ Becomes(k)
        /\ ret' = [unblocked_ret(k) EXCEPT ![currproc] = IF over THEN got ELSE BLOCKERR]
        /\ \/ /\ over
              /\ ready' = unblocked_ready(k) /\ curr_state' = unblocked_state(k)
              /\ blocking_queue_name' = unblocked_name(k)
              /\ UNCHANGED currproc
           \/ /\ ~over
              /\ get_next_proc(unblocked_ready(k), [unblocked_state(k) EXCEPT ![currproc] = BLOCKED])
              /\ blocking_queue_name' = [unblocked_name(k) EXCEPT ![currproc] = DEVICE]
        /\ UNCHANGED <<pid, blocking_proc, blocking_queue, signalVars, userVars, stopped, sleeping,
                       halted>>

\* di_read: -1 for a descriptor that is not open.
di_read(fd, buflen) ==
    \/ fd \notin Open(currproc) /\ Return(SYSERR) /\ UNCHANGED devVars
    \/ /\ fd \in Open(currproc)
       /\ g_kbd_task_refcount < TaskBound
       /\ kbd_read(buflen)

dispatch_syscall_read ==
    /\ Syscall("READ")
    /\ \E fd \in FdArgs, buflen \in ReadLens :
         \/ Return(SYSERR) /\ UNCHANGED devVars                         \* bad buffer
         \/ di_read(fd, buflen)

\* di_write asserts that there is a buffer.  A keyboard cannot be written to:
\* -1, as for a descriptor that is not open.
di_write(null) ==
    /\ Asserting(~null,
         /\ ret' = [ret EXCEPT ![currproc] = -1]
         /\ UNCHANGED <<pcbVars, signalVars, userVars, listVars>>)
    /\ UNCHANGED devVars

\* The handler goes on after a buffer was found bad.
dispatch_syscall_write == Syscall("WRITE") /\ \E null \in NullBuffers : di_write(null)

kbd_ioctl ==
    /\ \/ /\ \E c \in EofChars : g_keyboard_eof' = c
          /\ Return(0) /\ UNCHANGED g_keyboard_echo_flag
       \/ /\ \E echo \in {0, 1} : g_keyboard_echo_flag' = echo
          /\ Return(0) /\ UNCHANGED g_keyboard_eof
       \/ /\ \E value \in {g_keyboard_eof, g_keyboard_echo_flag, SYSERR} :
                Return(value)                                           \* or unknown
          /\ UNCHANGED <<g_keyboard_eof, g_keyboard_echo_flag>>
    /\ UNCHANGED <<fd_table, g_kbd_refcount, g_kbd_current_type, g_kbd_done, enabled,
                   task, g_kbd_task_refcount, g_keyboard_buffer>>

di_ioctl(fd) ==
    \/ fd \notin Open(currproc) /\ Return(SYSERR) /\ UNCHANGED devVars
    \/ fd \in Open(currproc) /\ kbd_ioctl

dispatch_syscall_ioctl == Syscall("IOCTL") /\ \E fd \in FdArgs : di_ioctl(fd)

\* keyboard_handler, keyboard_isr: a character goes to the reads that wait or
\* else into the buffer, if it has room; the running process goes on.
keyboard_handler ==
    /\ mode = "user" /\ ~halted /\ enabled
    /\ mode' = "kernel"
    /\ \E c \in Keys :
         LET room == Len(g_keyboard_buffer) < KEYBOARD_BUFFER_SIZE - 1
             k    == IF g_kbd_task_refcount > 0 THEN keyboard_process_char(Keyboard, c)
                     ELSE [Keyboard EXCEPT !.buffer = IF room THEN Append(@, c) ELSE @]
         IN  /\ Becomes(k)
             /\ ret' = unblocked_ret(k)
             /\ ready' = unblocked_ready(k) /\ curr_state' = unblocked_state(k)
             /\ blocking_queue_name' = unblocked_name(k)
    /\ UNCHANGED <<pid, blocking_proc, blocking_queue, signalVars, userVars, stopped, sleeping,
                   currproc, halted>>

-----------------------------------------------------------------------------
\* A step of the rest of the kernel: cleanup_proc closes the descriptors of the
\* process it stops, and get_next_available_pcb clears those of a new one.
kernel_step ==
    /\ Next
    /\ IF curr_state'[currproc] = STOPPED
       THEN kbd_close(currproc, closable(Open(currproc)))
       ELSE /\ fd_table' = [p \in Slots |-> IF curr_state[p] = STOPPED /\ curr_state'[p] = READY
                                            THEN NoFds ELSE fd_table[p]]
            /\ UNCHANGED kbdVars

KbdNext ==
    \/ kernel_step
    \/ keyboard_handler
    \/ dispatch_syscall_open
    \/ dispatch_syscall_close
    \/ dispatch_syscall_read
    \/ dispatch_syscall_write
    \/ dispatch_syscall_ioctl

KbdSpec == KbdInit /\ [][KbdNext]_allVars

-----------------------------------------------------------------------------
\* The driver counts the open descriptors of all processes, dead ones have
\* none, and all are the same device ("Only 1 keyboard type is allowed to be
\* open at a time", kbd.c).
OpenCount ==
    /\ g_kbd_refcount = Cardinality({e \in Slots \X Fds : e[2] \in Open(e[1])})
    /\ \A p \in Slots : \A fd \in Open(p) :
           curr_state[p] # STOPPED /\ fd_table[p][fd] = g_kbd_current_type

\* The keyboard interrupts exactly while someone has it open and no EOF was
\* typed: kbd_open, kbd_close and keyboard_handle_eof, in any order.
EnabledWhileOpen == enabled <=> (g_kbd_refcount > 0 /\ ~g_kbd_done)

\* Only processes that have the keyboard open have a read that waits: no
\* character is written to the memory of a dead process, and the assertion of
\* kbd_open holds although reads are left waiting by signals and by EOF.
OnlyHoldersWait == \A p \in Slots : task[p].waiting_on_read => Open(p) # {}

\* No character is typed ahead while a read waits for it, and every read that
\* waits is counted, or keyboard_isr would not look for it.
TypedAheadOnlyIfUnread ==
    LET waiting == {p \in Slots : task[p].waiting_on_read}
    IN  /\ Cardinality(waiting) <= g_kbd_task_refcount
        /\ g_keyboard_buffer # <<>> => g_kbd_task_refcount = 0

\* A read that waits has room for the next character.
RoomToWrite == \A p \in Slots : task[p].waiting_on_read => Len(task[p].buf) < task[p].buflen

\* A newline that was typed ahead ended the read of p before the buffer was
\* full; kbd_read blocks the process all the same.
LineTypedAhead(p) ==
    LET t == task[p]
    IN  ~t.waiting_on_read /\ t.buf # <<>> /\ Last(t.buf) = NEWLINE /\ Len(t.buf) < t.buflen

\* A process that is blocked in a read can be woken by a key: its read waits,
\* keyboard_isr looks for reads, the keyboard interrupts and EOF was not typed
\* (EOF ends all reads, whatever character it is by then, and a read after it
\* returns).  The one other case is the line that was typed ahead: that process
\* nothing will wake, the end of input not either, although keyboard_handle_eof
\* (kbd.c:332) is there for "waking all blocked processes".
BlockedReadersListen ==
    \A p \in Slots : curr_state[p] = BLOCKED /\ blocking_queue_name[p] = DEVICE =>
        \/ /\ task[p].waiting_on_read /\ ~g_kbd_done
           /\ g_kbd_task_refcount > 0 /\ enabled /\ Open(p) # {}
        \/ LineTypedAhead(p)

=============================================================================
