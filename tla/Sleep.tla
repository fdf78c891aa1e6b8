-------------------------------- MODULE Sleep --------------------------------
(***************************************************************************)
(* Sleeping processes (src/c/sleep.c and the handlers of syssleep and of   *)
(* the timer in src/c/disp.c).  g_sleeping_list is a delta list: the ret   *)
(* field of a sleeper is the number of ticks it sleeps beyond the sleeper  *)
(* before it.                                                              *)
(***************************************************************************)
EXTENDS Pcb

\* The sum of the deltas of the first i sleepers: the ticks until the i-th wakes.
ticks_until[i \in 0..Len(sleeping)] ==
    IF i = 0 THEN 0 ELSE ticks_until[i - 1] + ret[sleeping[i]]

\* The number of ticks of a sleep: the time rounded up.
ticks(time) == (time + TICK_LENGTH_IN_MS - 1) \div TICK_LENGTH_IN_MS

\* add_to_sleeping_list stops at the first entry that wakes at or after time.
insert_position(time) ==
    Min({i \in 1..Len(sleeping) : time <= ticks_until[i]} \cup {Len(sleeping) + 1})

\* Mutant: the sleeper after the new one keeps its delta.
inserted_ret_only(i, delta) == [ret EXCEPT ![currproc] = delta]

\* The deltas after currproc is inserted at i: the sleeper after it gives up
\* what currproc now sleeps.
inserted_ret(i, delta) ==
    [p \in Procs |-> IF p = currproc THEN delta
                     ELSE IF i <= Len(sleeping) /\ p = sleeping[i] THEN ret[p] - delta
                     ELSE ret[p]]

\* sleep: the running process enters the delta list.
sleep(milliseconds) ==
    LET time  == ticks(milliseconds)
        i     == insert_position(time)
    IN  /\ sleeping' = InsertAt(sleeping, i, currproc)
        /\ ret' = inserted_ret(i, time - ticks_until[i - 1])
        /\ blocking_queue_name' = [blocking_queue_name EXCEPT ![currproc] = SLEEP]
        /\ blocking_proc' = [blocking_proc EXCEPT ![currproc] = NULL]
        /\ get_next_proc(ready, [curr_state EXCEPT ![currproc] = BLOCKED])
        /\ UNCHANGED <<pid, blocking_queue, signalVars, userVars, stopped, halted>>

dispatch_syscall_sleep ==
    /\ Syscall("SLEEP")
    /\ \E milliseconds \in SleepTimes :
         \/ milliseconds = 0 /\ Ignore
         \/ milliseconds # 0 /\ sleep(milliseconds)

\* Mutant: tells the sleeper its delta in ticks.
woken_ret_in_ticks(proc) ==
    LET i == CHOOSE j \in DOMAIN sleeping : sleeping[j] = proc
    IN  [p \in Procs |-> IF i < Len(sleeping) /\ p = sleeping[i + 1] THEN ret[p] + ret[proc]
                         ELSE ret[p]]

\* wake, of a process that need not be the first: the sleeper after it takes
\* over its delta (remove_from_sleeping_list).
woken_ret(proc) ==
    LET i == CHOOSE j \in DOMAIN sleeping : sleeping[j] = proc
    IN  [p \in Procs |-> IF p = proc THEN ret[proc] * TICK_LENGTH_IN_MS
                         ELSE IF i < Len(sleeping) /\ p = sleeping[i + 1] THEN ret[p] + ret[proc]
                         ELSE ret[p]]

-----------------------------------------------------------------------------
\* Mutant: takes one from every delta.
ticked_all(p) == ret[p] - 1

\* tick takes one time slice from the first delta ...
ticked(p) == ret[p] - (IF p = Head(sleeping) THEN 1 ELSE 0)

\* Mutant: one sleeper a tick.
expired_one == IF sleeping # <<>> /\ ticked(Head(sleeping)) <= 0 THEN 1 ELSE 0

\* ... and wakes the sleepers at the front whose delta is used up.  (A delta
\* is never negative, so removing them leaves the next delta as it is.)
expired ==
    Min({i \in 1..Len(sleeping) : ticked(sleeping[i]) > 0} \cup {Len(sleeping) + 1}) - 1

timer_handler ==
    LET woken == SubSeq(sleeping, 1, expired)
        r     == enqueue_ready(ready \o woken, currproc)
        asleep(p) == /\ curr_state[p] = BLOCKED
                     /\ blocking_queue_name[p] = SLEEP /\ blocking_proc[p] = NULL
    IN  /\ mode = "user" /\ ~halted
        /\ mode' = "kernel"
        /\ Asserting((\A p \in ToSet(woken) : asleep(p)) /\ curr_state[currproc] # READY,
             /\ sleeping' = SubSeq(sleeping, expired + 1, Len(sleeping))
             /\ ret' = [p \in Procs |->
                          IF p \in ToSet(woken) THEN ticked(p) * TICK_LENGTH_IN_MS
                          ELSE IF p \in ToSet(sleeping) THEN ticked(p)
                          ELSE ret[p]]
             /\ blocking_queue_name' = [p \in Procs |-> IF p \in ToSet(woken) THEN NO_BLOCKER
                                                        ELSE blocking_queue_name[p]]
             /\ get_next_proc(r, [p \in Procs |->
                                    IF p = currproc \/ p \in ToSet(woken) THEN READY
                                    ELSE curr_state[p]])
             /\ UNCHANGED <<pid, blocking_proc, blocking_queue, signalVars, userVars, stopped>>)
=============================================================================
