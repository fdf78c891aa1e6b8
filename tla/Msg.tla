--------------------------------- MODULE Msg ---------------------------------
(***************************************************************************)
(* Message passing between processes (src/c/msg.c and the handlers of      *)
(* syssend and sysrecv in src/c/disp.c).  A send and a receive rendezvous: *)
(* whoever comes first blocks, whoever comes second copies the message and *)
(* makes the other READY.                                                  *)
(*                                                                         *)
(* buffer[p] is the user memory whose address p passed: a sender's message *)
(* (its length is the len argument), or the memory a receiver wants filled.*)
(***************************************************************************)
EXTENDS Pcb

\* lib/libxc/strncpy.c: the first n bytes of dst become those of src up to
\* src's first NUL, and NULs from there on.
strncpy(dst, src, n) ==
    [i \in DOMAIN dst |->
        IF i > n THEN dst[i]
        ELSE IF \E j \in 1..i : src[j] = 0 THEN 0 ELSE src[i]]

MinLen(a, b) == IF a <= b THEN a ELSE b

\* What a receive buffer holds after a message was copied into it.
copied(recv_buf, send_buf) ==
    strncpy(recv_buf, send_buf, MinLen(Len(recv_buf), Len(send_buf)))

\* Memory a receiver hands over: len bytes, none of which looks like a message.
Blank(len) == [i \in 1..len |-> 255]

\* remove_proc_from_blocking_queue succeeds for proc in owner's queue.
blocked_in(proc, owner, queue) ==
    blocking_proc[proc] = owner /\ blocking_queue_name[proc] = queue

\* Mutant: overlooks a receive from anyone.
receiver_waits_for_me(src, dest) == blocked_in(dest, src, RECEIVER)

\* A receiver that send(src, dest) finds waiting.
receiver_waits(src, dest) ==
    \/ blocking_queue_name[dest] = RECEIVE_ANY
    \/ blocked_in(dest, src, RECEIVER)

\* Mutant: the return value is set only when the call ends.
block_on_without_code(owner, queue, code) ==
    /\ blocking_queue' = [blocking_queue EXCEPT ![owner][queue] = add_proc_to_queue(@, currproc)]
    /\ blocking_proc' = [blocking_proc EXCEPT ![currproc] = owner]
    /\ blocking_queue_name' = [blocking_queue_name EXCEPT ![currproc] = queue]
    /\ get_next_proc(ready, [curr_state EXCEPT ![currproc] = BLOCKED])
    /\ UNCHANGED ret

\* add_proc_to_blocking_queue for the running process, which blocks with the
\* return value that holds if the owner is killed first.
block_on(owner, queue, code) ==
    /\ blocking_queue' = [blocking_queue EXCEPT ![owner][queue] = add_proc_to_queue(@, currproc)]
    /\ blocking_proc' = [blocking_proc EXCEPT ![currproc] = owner]
    /\ blocking_queue_name' = [blocking_queue_name EXCEPT ![currproc] = queue]
    /\ ret' = [ret EXCEPT ![currproc] = code]
    /\ get_next_proc(ready, [curr_state EXCEPT ![currproc] = BLOCKED])

-----------------------------------------------------------------------------
\* send, case 1: dest has been waiting for src, the running process.
send_now(dest, message) ==
    LET src == currproc
        any == blocking_queue_name[dest] = RECEIVE_ANY
    IN  /\ receiver_waits(src, dest)
        /\ Asserting(curr_state[dest] = BLOCKED,
             /\ blocking_queue' = IF any THEN blocking_queue
                                  ELSE [blocking_queue EXCEPT ![src][RECEIVER] =
                                            remove_proc_from_queue(@, dest)]
             /\ blocking_proc' = [blocking_proc EXCEPT ![dest] = IF any THEN @ ELSE NULL]
             /\ blocking_queue_name' = [blocking_queue_name EXCEPT ![dest] = NO_BLOCKER]
             /\ from_pid' = [from_pid EXCEPT ![dest] = IF any THEN pid[src] ELSE @]
             /\ buffer' = [buffer EXCEPT ![src] = message, ![dest] = copied(@, message)]
             /\ ret' = [ret EXCEPT ![dest] = SYSPID_OK, ![src] = SYSPID_OK]
             /\ curr_state' = [curr_state EXCEPT ![dest] = READY]
             /\ ready' = add_proc_to_queue(ready, dest)
             /\ UNCHANGED <<pid, signalVars, stopped, sleeping, currproc>>)

\* send, case 2: nobody waits, block in dest's SENDER queue.
send_blocks(dest, message) ==
    /\ ~receiver_waits(currproc, dest)
    /\ block_on(dest, SENDER, SYSPID_DNE)
    /\ buffer' = [buffer EXCEPT ![currproc] = message]
    /\ UNCHANGED <<pid, signalVars, from_pid, stopped, sleeping, halted>>

dispatch_syscall_send ==
    /\ Syscall("SEND")
    /\ \E dest_pid \in PidArgs :
         LET dest == pid_to_proc(dest_pid)
         IN  \/ dest_pid = pid[currproc] /\ Return(SYSPID_ME)
             \/ dest_pid # pid[currproc] /\ Return(SYSERR_OTHER)  \* bad buffer or len
             \/ dest_pid # pid[currproc] /\ dest = NULL /\ Return(SYSPID_DNE)
             \/ /\ dest_pid # pid[currproc] /\ dest # NULL
                /\ \E message \in Messages : send_now(dest, message) \/ send_blocks(dest, message)

-----------------------------------------------------------------------------
\* recv and recv_any, case 1: src is blocked sending to the running process.
recv_now(src, len) ==
    LET dest == currproc
    IN  Asserting(curr_state[src] = BLOCKED,
          /\ blocking_queue' = [blocking_queue EXCEPT ![dest][SENDER] =
                                    remove_proc_from_queue(@, src)]
          /\ blocking_proc' = [blocking_proc EXCEPT ![src] = NULL]
          /\ blocking_queue_name' = [blocking_queue_name EXCEPT ![src] = NO_BLOCKER]
          /\ from_pid' = [from_pid EXCEPT ![dest] = pid[src]]
          /\ buffer' = [buffer EXCEPT ![dest] = copied(Blank(len), buffer[src])]
          /\ ret' = [ret EXCEPT ![src] = SYSPID_OK, ![dest] = SYSPID_OK]
          /\ curr_state' = [curr_state EXCEPT ![src] = READY]
          /\ ready' = add_proc_to_queue(ready, src)
          /\ UNCHANGED <<pid, signalVars, stopped, sleeping, currproc>>)

\* recv from one process
recv(src, len) ==
    \/ blocked_in(src, currproc, SENDER) /\ recv_now(src, len)
    \/ /\ ~blocked_in(src, currproc, SENDER)
       /\ block_on(src, RECEIVER, SYSPID_DNE)
       /\ buffer' = [buffer EXCEPT ![currproc] = Blank(len)]
       /\ from_pid' = [from_pid EXCEPT ![currproc] = pid[src]]
       /\ UNCHANGED <<pid, signalVars, stopped, sleeping, halted>>

\* recv from any process: the one that has waited longest, else block
recv_any(len) ==
    LET senders == blocking_queue[currproc][SENDER]
    IN  \/ /\ senders # <<>>
           /\ IF blocked_in(Head(senders), currproc, SENDER)
              THEN recv_now(Head(senders), len)
              ELSE Return(SYSERR_OTHER)
        \/ /\ senders = <<>>
           /\ blocking_queue_name' = [blocking_queue_name EXCEPT ![currproc] = RECEIVE_ANY]
           /\ ret' = [ret EXCEPT ![currproc] = SYSPID_DNE]
           /\ buffer' = [buffer EXCEPT ![currproc] = Blank(len)]
           /\ from_pid' = [from_pid EXCEPT ![currproc] = 0]
           /\ get_next_proc(ready, [curr_state EXCEPT ![currproc] = BLOCKED])
           /\ UNCHANGED <<pid, blocking_proc, blocking_queue, signalVars,
                          stopped, sleeping, halted>>

dispatch_syscall_recv ==
    /\ Syscall("RECV")
    /\ \/ Return(SYSERR_OTHER)                                \* bad pointer or len
       \/ \E from \in PidArgs \cup {0} :
            LET src == pid_to_proc(from)
            IN  \/ from = pid[currproc] /\ Return(SYSPID_ME)
                \/ from # 0 /\ from # pid[currproc] /\ src = NULL /\ Return(SYSPID_DNE)
                \/ \E len \in RecvLens :
                     \/ from = 0 /\ recv_any(len)
                     \/ from # pid[currproc] /\ src # NULL /\ recv(src, len)
=============================================================================
