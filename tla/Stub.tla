---------------------------------- MODULE Stub ----------------------------------
(***************************************************************************)
(* The stubs of src/c/syscall.c, instruction by instruction, with the      *)
(* timer interrupt between any two of them.  syscall0 to syscall3 push the *)
(* request and their arguments, trap, pop what they pushed into the static *)
(* variable request_reg, move eax there, and return what it holds.  There  *)
(* is one request_reg for all processes.                                   *)
(***************************************************************************)
EXTENDS Naturals, Sequences, TLC

CONSTANTS
    Procs,          \* processes
    Words,          \* arguments
    Results         \* values that the kernel returns

\* The request of each stub, and how many arguments it pushes; syssend and
\* sysrecv call syssendbuf and sysrecvbuf.  sysstop and syssigreturn, which do
\* not return, are left out.
ProcessCalls == [CREATE |-> 2, YIELD |-> 0, GETPID |-> 0, KILL |-> 2, WAIT |-> 1, PUTS |-> 1]
MessageCalls == [SEND |-> 3, RECV |-> 3]
TimeAndSignalCalls == [SLEEP |-> 1, CPUTIMES |-> 1, SIGHANDLER |-> 3]
DeviceCalls == [OPEN |-> 1, CLOSE |-> 1, WRITE |-> 3, READ |-> 3, IOCTL |-> 3]
Arguments == ProcessCalls @@ MessageCalls @@ TimeAndSignalCalls @@ DeviceCalls

VARIABLES
    running,        \* the process on the CPU
    request_reg,
    pc,             \* next instruction of the stub of each process
    pushed,         \* words on its stack above the stub's frame
    eax,
    answer,         \* what the kernel returned
    result          \* what the stub returned

stubVars == <<running, request_reg, pc, pushed, eax, answer, result>>

StubInit ==
    /\ running \in Procs /\ request_reg = 0
    /\ pc = [p \in Procs |-> "call"] /\ pushed = [p \in Procs |-> <<>>]
    /\ eax = [p \in Procs |-> 0] /\ answer = eax /\ result = eax

At(place, next) == pc[running] = place /\ pc' = [pc EXCEPT ![running] = next]

\* The last argument is pushed first, the request last.
push_and_int ==
    /\ At("call", "int")
    /\ \E request \in DOMAIN Arguments : \E args \in [1..Arguments[request] -> Words] :
           pushed' = [pushed EXCEPT ![running] = <<request>> \o args]
    /\ UNCHANGED <<running, request_reg, eax, answer, result>>

\* The kernel handles the call; who runs next is its choice.
kernel ==
    /\ At("int", "pop")
    /\ \E value \in Results : /\ eax' = [eax EXCEPT ![running] = value]
                              /\ answer' = [answer EXCEPT ![running] = value]
    /\ running' \in Procs
    /\ UNCHANGED <<request_reg, pushed, result>>

pop_request_reg ==
    /\ pc[running] = "pop"
    /\ request_reg' = Head(pushed[running])
    /\ pushed' = [pushed EXCEPT ![running] = Tail(@)]
    /\ pc' = [pc EXCEPT ![running] = IF Len(pushed[running]) = 1 THEN "movl" ELSE "pop"]
    /\ UNCHANGED <<running, eax, answer, result>>

movl_eax_request_reg ==
    /\ At("movl", "return")
    /\ request_reg' = eax[running]
    /\ UNCHANGED <<running, pushed, eax, answer, result>>

return_request_reg ==
    /\ At("return", "call")
    /\ result' = [result EXCEPT ![running] = request_reg]
    /\ UNCHANGED <<running, request_reg, pushed, eax, answer>>

\* The registers of a process are saved and restored.
timer == /\ running' \in Procs \ {running}
         /\ UNCHANGED <<request_reg, pc, pushed, eax, answer, result>>

StubNext == \/ push_and_int \/ kernel \/ pop_request_reg \/ movl_eax_request_reg
            \/ return_request_reg \/ timer

StubSpec == StubInit /\ [][StubNext]_stubVars

-----------------------------------------------------------------------------
\* syscall.c:283, "The syscall return value is stored in %eax. It is moved into
\* request_reg and returned from the syscall": a call that is over has returned
\* what the kernel answered.
OwnResult == \A p \in Procs : pc[p] = "call" => result[p] = answer[p]
=============================================================================
