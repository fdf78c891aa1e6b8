-------------------------------- MODULE Signal --------------------------------
(***************************************************************************)
(* Signals (set_proc_signal, resolve_blocking, call_highest_priority_signal*)
(* in src/c/pcb.c, src/c/signal.c, the switch to user mode in src/c/ctsw.c *)
(* and the handlers of syskill, syssighandler, syssigreturn in disp.c).    *)
(***************************************************************************)
EXTENDS Sleep

\* Signal numbers that processes pass: the valid ones and one on either side.
SignalArgs == Signals \cup {-1, SIGNAL_TABLE_SIZE}

\* Mutant: an interrupted call keeps the value chosen when it blocked.
interrupted_ret_kept(proc) ==
    IF blocking_queue_name[proc] = SLEEP THEN woken_ret(proc) ELSE ret

\* resolve_blocking: what an interrupted call returns, by what it blocked on.
interrupted_ret(proc) ==
    LET why == blocking_queue_name[proc]
    IN  IF why = SLEEP THEN woken_ret(proc)
        ELSE [ret EXCEPT ![proc] = IF why = WAITING THEN SYSWAIT_SIGNALLED
                                   ELSE IF why = DEVICE THEN SYSERR
                                   ELSE PROC_SIGNALLED]

\* What resolve_blocking asserts of a BLOCKED process.
resolvable(proc) ==
    /\ blocking_queue_name[proc] # NO_BLOCKER
    /\ blocking_proc[proc] = NULL <=> blocking_queue_name[proc] \notin Queues

\* Mutant: leaves proc in the queue of another process.
resolve_blocking_in_queue(proc) ==
    /\ sleeping' = IF blocking_queue_name[proc] = SLEEP
                   THEN remove_proc_from_queue(sleeping, proc) ELSE sleeping
    /\ blocking_proc' = [blocking_proc EXCEPT ![proc] = NULL]
    /\ blocking_queue_name' = [blocking_queue_name EXCEPT ![proc] = NO_BLOCKER]
    /\ ret' = [interrupted_ret(proc) EXCEPT ![currproc] = 0]
    /\ curr_state' = [curr_state EXCEPT ![proc] = READY]
    /\ ready' = add_proc_to_queue(ready, proc)
    /\ UNCHANGED <<pid, blocking_queue, stopped, currproc>>

\* resolve_blocking takes proc out of whatever list it is blocked in; it is
\* then made READY.
resolve_blocking(proc) ==
    LET why == blocking_queue_name[proc]
    IN  /\ sleeping' = IF why = SLEEP THEN remove_proc_from_queue(sleeping, proc) ELSE sleeping
        /\ blocking_queue' = IF why \in Queues
                             THEN [blocking_queue EXCEPT ![blocking_proc[proc]][why] =
                                       remove_proc_from_queue(@, proc)]
                             ELSE blocking_queue
        /\ blocking_proc' = [blocking_proc EXCEPT ![proc] = NULL]
        /\ blocking_queue_name' = [blocking_queue_name EXCEPT ![proc] = NO_BLOCKER]
        /\ ret' = [interrupted_ret(proc) EXCEPT ![currproc] = 0]
        /\ curr_state' = [curr_state EXCEPT ![proc] = READY]
        /\ ready' = add_proc_to_queue(ready, proc)
        /\ UNCHANGED <<pid, stopped, currproc>>

\* Mutant: marks the signal, but does not end the call.
set_proc_signal_only(proc, signal) ==
    /\ signals_fired' = [signals_fired EXCEPT ![proc] = @ \cup {signal}]
    /\ ret' = [ret EXCEPT ![currproc] = 0]
    /\ UNCHANGED <<pcbVars, listVars, signal_table, signals_enabled, frames, userVars, halted>>

\* set_proc_signal for a signal with a handler: mark it, and end whatever
\* call the target is blocked in.
set_proc_signal(proc, signal) ==
    Asserting(curr_state[proc] = BLOCKED => resolvable(proc),
      /\ signals_fired' = [signals_fired EXCEPT ![proc] = @ \cup {signal}]
      /\ \/ curr_state[proc] = BLOCKED /\ resolve_blocking(proc)
         \/ /\ curr_state[proc] # BLOCKED
            /\ ret' = [ret EXCEPT ![currproc] = 0]
            /\ UNCHANGED <<pcbVars, listVars>>
      /\ UNCHANGED <<signal_table, signals_enabled, frames, userVars>>)

dispatch_syscall_kill ==
    /\ Syscall("KILL")
    /\ \E target \in PidArgs, signal \in SignalArgs :
         LET proc == pid_to_proc(target)
         IN  \/ proc = NULL /\ Return(SYSKILL_TARGET_DNE)
             \/ proc # NULL /\ signal \notin Signals /\ Return(SYSKILL_INVALID_SIGNAL)
             \/ /\ proc # NULL /\ signal \in Signals
                /\ \/ signal_table[proc][signal] = NULL /\ Return(0)
                   \/ signal_table[proc][signal] # NULL /\ set_proc_signal(proc, signal)

dispatch_syscall_sighandler ==
    /\ Syscall("SIGHANDLER")
    /\ \E signal \in SignalArgs, new_handler \in Handlers \cup {NULL} :
         \/ signal \notin Signals /\ Return(SYSHANDLER_INVALID_SIGNAL)
         \/ signal \in Signals /\ Return(SYSHANDLER_INVALID_FUNCPTR)    \* a bad pointer
         \/ /\ signal \in Signals
            /\ signal_table' = [signal_table EXCEPT ![currproc][signal] = new_handler]
            /\ ret' = [ret EXCEPT ![currproc] = 0]
            /\ UNCHANGED <<pcbVars, signals_fired, signals_enabled, frames, userVars,
                           listVars, halted>>

\* syssigreturn, from the trampoline under the handler: the interrupted
\* context comes back with the return value saved in it.
sigreturn ==
    LET saved == frames[currproc]
    IN  /\ saved # <<>>
        /\ ret' = [ret EXCEPT ![currproc] = Last(saved).ret]
        /\ frames' = [frames EXCEPT ![currproc] = Front(saved)]
        /\ signals_enabled' = [signals_enabled EXCEPT ![currproc] = TRUE]
        /\ UNCHANGED <<pcbVars, signal_table, signals_fired, userVars, listVars, halted>>

\* With a bad pointer the process is killed.
dispatch_syscall_sigreturn ==
    /\ Syscall("SIGRETURN")
    /\ sigreturn \/ cleanup_proc

-----------------------------------------------------------------------------
\* Mutant: leaves signals enabled.
call_highest_priority_signal_enabled(proc) ==
    LET signal == Max(signals_fired[proc])
    IN  /\ signals_fired' = [signals_fired EXCEPT ![proc] = @ \ {signal}]
        /\ frames' = [frames EXCEPT ![proc] =
              Append(@, [ret |-> ret[proc], handler |-> signal_table[proc][signal]])]
        /\ UNCHANGED <<signal_table, signals_enabled>>

\* call_highest_priority_signal and signal(): the handler of the highest
\* pending signal is put on top of the user's stack, which saves the return
\* value the process was about to see; signals are disabled until it returns.
call_highest_priority_signal(proc) ==
    LET signal == Max(signals_fired[proc])
    IN  /\ signals_fired' = [signals_fired EXCEPT ![proc] = @ \ {signal}]
        /\ signals_enabled' = [signals_enabled EXCEPT ![proc] = FALSE]
        /\ frames' = [frames EXCEPT ![proc] =
              Append(@, [ret |-> ret[proc], handler |-> signal_table[proc][signal]])]
        /\ UNCHANGED signal_table

deliverable(proc) == signals_fired[proc] # {} /\ signals_enabled[proc]

\* ctsw_contextswitch: deliver a signal, then run the process.  It sees ret in
\* its eax; when it next enters the kernel, ret is whatever eax then holds.
ctsw_contextswitch ==
    /\ mode = "kernel" /\ ~halted
    /\ mode' = "user"
    /\ \/ deliverable(currproc) /\ call_highest_priority_signal(currproc)
       \/ ~deliverable(currproc) /\ UNCHANGED signalVars
    /\ \E eax \in Registers : ret' = [ret EXCEPT ![currproc] = eax]
    /\ UNCHANGED <<pcbVars, userVars, listVars, halted>>
=============================================================================
