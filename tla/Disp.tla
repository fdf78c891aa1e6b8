--------------------------------- MODULE Disp ---------------------------------
(***************************************************************************)
(* The dispatcher (src/c/disp.c): the loop that runs the current process   *)
(* until it enters the kernel, and handles what it entered for.  The       *)
(* kernel runs with interrupts off, so a handler is one step; everything a *)
(* process does between two of its system calls is unobserved.             *)
(***************************************************************************)
EXTENDS Msg, Signal

dispatch_syscall_create ==
    /\ Syscall("CREATE")
    /\ \/ \E code \in {EINVAL, ENOMEM} : Return(code)   \* bad function, no stack
       \/ stopped = <<>> /\ Return(EPROCLIMIT)
       \/ create
       \/ create_without_table

syscall_yield ==
    /\ Syscall("YIELD")
    /\ get_next_proc(add_proc_to_queue(ready, currproc),
                     [curr_state EXCEPT ![currproc] = READY])
    /\ UNCHANGED <<pid, ret, blocking_proc, blocking_queue_name, blocking_queue, signalVars,
                   userVars, stopped, sleeping, halted>>

syscall_stop == Syscall("STOP") /\ cleanup_proc

syscall_getpid == Syscall("GETPID") /\ Return(pid[currproc])

dispatch_syscall_puts == Syscall("PUTS") /\ Ignore

dispatch_syscall_wait ==
    /\ Syscall("WAIT")
    /\ \E target \in PidArgs :
         LET proc == pid_to_proc(target)
         IN  \/ proc = NULL /\ Return(SYSPID_DNE)
             \/ /\ proc # NULL
                /\ block_on(proc, WAITING, 0)
                /\ UNCHANGED <<pid, signalVars, userVars, stopped, sleeping, halted>>

\* fill_proc_info asserts that its slot is inside the caller's arrays.
dispatch_syscall_getcputimes ==
    /\ Syscall("CPUTIMES")
    /\ \/ Return(-1)                                        \* bad pointer
       \/ Asserting(get_all_proc_info < PCB_TABLE_SIZE,
            /\ ret' = [ret EXCEPT ![currproc] = get_all_proc_info]
            /\ UNCHANGED <<pcbVars, signalVars, userVars, listVars>>)

Next ==
    \/ ctsw_contextswitch
    \/ timer_handler
    \/ dispatch_syscall_create
    \/ syscall_yield
    \/ syscall_stop
    \/ syscall_getpid
    \/ dispatch_syscall_kill
    \/ dispatch_syscall_wait
    \/ dispatch_syscall_puts
    \/ dispatch_syscall_send
    \/ dispatch_syscall_recv
    \/ dispatch_syscall_sleep
    \/ dispatch_syscall_getcputimes
    \/ dispatch_syscall_sighandler
    \/ dispatch_syscall_sigreturn

\* The kernel always gets back to a process (it never waits), and the clock
\* always gets through: an interrupt that arrives while the kernel runs is
\* held by the interrupt controller until the next process runs.
Fairness == WF_vars(ctsw_contextswitch) /\ SF_vars(timer_handler)

Spec     == Init /\ [][Next]_vars
FairSpec == Spec /\ Fairness

-----------------------------------------------------------------------------
QueueTypes ==
    /\ ready \in Seq(Slots) /\ stopped \in Seq(Slots) /\ sleeping \in Seq(Slots)
    /\ blocking_queue \in [Procs -> [Queues -> Seq(Slots)]]

PcbTypes ==
    /\ curr_state \in [Procs -> ProcStates]
    /\ blocking_proc \in [Procs -> Slots \cup {NULL}]
    /\ blocking_queue_name \in [Procs -> Blockers]
    /\ currproc \in Procs
    /\ mode \in {"kernel", "user"} /\ halted \in BOOLEAN

SignalTypes ==
    /\ signal_table \in [Procs -> [Signals -> Nat]]
    /\ signals_fired \in [Procs -> SUBSET Signals]
    /\ signals_enabled \in [Procs -> BOOLEAN]

ValueTypes ==
    /\ pid \in [Procs -> Nat] /\ ret \in [Procs -> Int]
    /\ frames \in [Procs -> Seq([ret : Int, handler : Nat])]
    /\ buffer \in [Procs -> Seq(Nat)] /\ from_pid \in [Procs -> Int]

\* Every variable has its type.
TypeOK == QueueTypes /\ PcbTypes /\ SignalTypes /\ ValueTypes

\* Each pcb is in the one list its state says (pcb.c links all lists through
\* the same next_proc/prev_proc, so a pcb in two lists corrupts both): READY
\* and STOPPED in the queue of that state, SLEEP in the delta list, a blocked
\* sender, receiver or waiter in that queue of the process it waits for.
InState(s)      == {p \in Slots : curr_state[p] = s}
Asleep          == {p \in Slots : curr_state[p] = BLOCKED /\ blocking_queue_name[p] = SLEEP}
BlockedOn(o, q) == {p \in Slots : /\ curr_state[p] = BLOCKED
                                  /\ blocking_queue_name[p] = q /\ blocking_proc[p] = o}
QueueIntegrity ==
    /\ Lists(ready, InState(READY))
    /\ Lists(stopped, InState(STOPPED))
    /\ Lists(sleeping, Asleep)
    /\ \A o \in Slots, q \in Queues : Lists(blocking_queue[o][q], BlockedOn(o, q))

\* What a pcb says it is blocked on agrees with its state: a process that can
\* run has no blocker (cleanup_proc and the signal code trust this), and one
\* blocked in a queue names the owner.
BlockersMatchStates ==
    \A p \in Slots :
        /\ curr_state[p] # BLOCKED => blocking_proc[p] = NULL
        /\ curr_state[p] \in {READY, RUNNING} => blocking_queue_name[p] = NO_BLOCKER
        /\ curr_state[p] = BLOCKED =>
              /\ blocking_queue_name[p] # NO_BLOCKER
              /\ blocking_proc[p] # NULL <=> blocking_queue_name[p] \in Queues

\* Nobody waits for a dead process: cleanup_proc releases everyone blocked on
\* the pcb, and nobody can block on it again before it is recycled.
NoOrphans ==
    \A p \in Slots : blocking_proc[p] # NULL => curr_state[blocking_proc[p]] # STOPPED

\* One process at a time is RUNNING, and it is the one being dispatched.
OneRunning == \A p \in Procs : curr_state[p] = RUNNING <=> p = currproc

\* No ASSERT of the kernel fails.
NeverHalts == ~halted

\* The pcb to be recycled is one whose pids are multiples of the table size (the
\* last), and its next pid would pass INT_MAX.
PidsRunOut ==
    /\ stopped # <<>>
    /\ pid[Head(stopped)] + PCB_TABLE_SIZE > INT_MAX
    /\ pid[Head(stopped)] % PCB_TABLE_SIZE = 0

\* Every pcb of the table is in use.
TableFull == \A p \in Slots : curr_state[p] # STOPPED

\* Two assertions of the modelled kernel can fail, and only these: the one of
\* get_next_available_pcb on the pid (pcb.c:151) once pids have passed INT_MAX,
\* and the one of fill_proc_info (pcb.c:250) when the table is full.
KnownFailure ==
    \/ dispatch_syscall_create /\ PidsRunOut
    \/ dispatch_syscall_getcputimes /\ TableFull
HaltsOnlyWhen == [][halted' # halted => KnownFailure]_vars

\* A send and the receive it matches never both stay blocked: whoever makes
\* the second call finds the first (send, recv, recv_any).
NoMissedRendezvous ==
    \A s, d \in Slots :
        (curr_state[s] = BLOCKED /\ blocked_in(s, d, SENDER))
            => ~(curr_state[d] = BLOCKED /\ \/ blocking_queue_name[d] = RECEIVE_ANY
                                            \/ blocked_in(d, s, RECEIVER))

\* A signal that may be delivered is never left behind a call that blocks: it
\* ends the call, or it came while a handler runs with signals disabled.  And
\* a process is never in user mode with a signal that may be delivered.
NoSignalLeftBehind ==
    \A p \in Slots :
        /\ curr_state[p] = BLOCKED => ~deliverable(p)
        /\ mode = "user" /\ currproc = p => ~deliverable(p)

\* Handlers do not nest: signals are enabled exactly when no handler runs, so
\* sigreturn always restores the context that the handler interrupted.
HandlersNeverNest ==
    \A p \in Slots : curr_state[p] # STOPPED =>
        /\ Len(frames[p]) <= 1
        /\ signals_enabled[p] <=> frames[p] = <<>>

-----------------------------------------------------------------------------
\* The ticks that a sleeper has left.
left == [p \in Slots |->
           IF p \in ToSet(sleeping)
           THEN ticks_until[CHOOSE i \in DOMAIN sleeping : sleeping[i] = p] ELSE 0]

\* The ticks that a sleeper has left beyond the sleeper before it.
beyond(p) == LET i == CHOOSE j \in DOMAIN sleeping : sleeping[j] = p
             IN  left[p] - (IF i = 1 THEN 0 ELSE left[sleeping[i - 1]])

\* A blocked call of p ends in this step.
Ends(p) == curr_state[p] = BLOCKED /\ curr_state'[p] # BLOCKED

\* Every blocked call ends for a reason its return value tells: the owner of
\* the queue died (the value chosen when the call blocked), a signal came
\* (the value of resolve_blocking), or the peer's call completed it.  A sleeper
\* that a signal wakes is told its delta: what it had left beyond the sleeper
\* before it in the list, which is not the time left that syssleep promises
\* (syscall.c:174) unless it is the first.
Reason(p) ==
    LET why  == blocking_queue_name[p]
        dies == why \in Queues /\ curr_state'[blocking_proc[p]] = STOPPED
        signalled == signals_fired'[p] # {}
    IN  CASE why = WAITING -> \/ dies /\ ret'[p] = 0
                              \/ signalled /\ ret'[p] = SYSWAIT_SIGNALLED
          [] why \in {SENDER, RECEIVER} -> \/ dies /\ ret'[p] = SYSPID_DNE
                                           \/ signalled /\ ret'[p] = PROC_SIGNALLED
                                           \/ /\ currproc = blocking_proc[p]
                                              /\ ret'[p] = SYSPID_OK /\ ret'[currproc] = SYSPID_OK
          [] why = RECEIVE_ANY -> \/ signalled /\ ret'[p] = PROC_SIGNALLED
                                  \/ /\ from_pid'[p] = pid[currproc]
                                     /\ ret'[p] = SYSPID_OK /\ ret'[currproc] = SYSPID_OK
          [] why = SLEEP -> \/ signalled /\ ret'[p] = beyond(p) * TICK_LENGTH_IN_MS
                            \/ left[p] = 1 /\ ret'[p] = 0
          [] OTHER -> FALSE
CallsEndForAReason == [][\A p \in Slots : Ends(p) => Reason(p)]_vars

\* What msg.c does is what Rendezvous promises.
call == [p \in Slots |->
           IF curr_state[p] # BLOCKED THEN [op |-> "none"]
           ELSE CASE blocking_queue_name[p] = SENDER ->
                       [op |-> "send", peer |-> blocking_proc[p]]
                  [] blocking_queue_name[p] \in {RECEIVER, RECEIVE_ANY} ->
                       [op |-> "recv", peer |-> blocking_proc[p]]
                  [] OTHER -> [op |-> "none"]]
R == INSTANCE Rendezvous WITH
        Parties <- Slots, Any <- NULL, Success <- SYSPID_OK,
        Failures <- {SYSPID_DNE, PROC_SIGNALLED}, Copied <- copied,
        Fresh <- LAMBDA m : Blank(Len(m)),
        memory <- buffer, from <- from_pid, answer <- ret, name <- pid
ImplementsRendezvous == R!Spec

\* What sleep.c does is what Countdown promises, and its clock is the timer.
C == INSTANCE Countdown WITH Sleepers <- Slots,
        Durations <- {ticks(t) : t \in SleepTimes \ {0}}
ImplementsCountdown == C!Spec
EveryTickCounts == [][timer_handler => C!Tick]_vars

-----------------------------------------------------------------------------
\* Round robin: a READY process is run after finitely many ticks, whatever
\* the others do.
ReadyRuns == \A p \in Slots : curr_state[p] = READY ~> curr_state[p] = RUNNING

\* A sleeper is woken, whatever the others do (shorter sleeps included).
SleepersWake == \A p \in Slots : p \in ToSet(sleeping) ~> p \notin ToSet(sleeping)
=============================================================================
