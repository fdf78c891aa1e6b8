------------------------------ MODULE Rendezvous ------------------------------
(***************************************************************************)
(* What syssend and sysrecv promise, without the queues of src/c/pcb.c: a  *)
(* process has at most one call pending; a send and the receive it matches *)
(* complete together, with success for both, in the step in which the      *)
(* second of them is made, and that step writes the message (and, for a    *)
(* receive from anyone, the sender's pid) into the receiver's memory.      *)
(* Otherwise a pending call can only be cancelled, because the peer died   *)
(* or a signal came: it then fails, and nothing is written.                *)
(***************************************************************************)
CONSTANTS Parties,              \* the processes
          Any,                  \* "from anyone"
          Success, Failures,    \* return codes
          Copied(_, _),         \* receiver's memory after a message is copied
          Fresh(_)              \* memory m of a receiver before that

VARIABLES call,                 \* the pending call of each process
          memory,               \* the buffer it passed
          from,                 \* the sender it was told of
          answer,               \* the return value of its last call
          name                  \* its pid

NoCall     == [op |-> "none"]
Send(to)   == [op |-> "send", peer |-> to]
Recv(peer) == [op |-> "recv", peer |-> peer]

\* Whether call s of process p is a send that call r of process q receives.
Match(p, s, q, r) == s = Send(q) /\ r \in {Recv(p), Recv(Any)}

Untouched(S) == \A p \in S : memory'[p] = memory[p] /\ from'[p] = from[p]

Init == call = [p \in Parties |-> NoCall]

\* A call that finds no partner waits.
Post(p, c) ==
    /\ call[p] = NoCall
    /\ \A q \in Parties : ~Match(p, c, q, call[q]) /\ ~Match(q, call[q], p, c)
    /\ call' = [call EXCEPT ![p] = c]
    /\ Untouched(Parties \ {p})

\* The sender p comes second: it finds q waiting to receive.
MeetReceiver(p, q) ==
    /\ call[p] = NoCall
    /\ Match(p, Send(q), q, call[q])
    /\ call' = [call EXCEPT ![q] = NoCall]
    /\ memory'[q] = Copied(memory[q], memory'[p])
    /\ from'[q] = name[p]
    /\ answer'[p] = Success /\ answer'[q] = Success
    /\ Untouched(Parties \ {p, q})

\* The receiver p comes second: it finds q waiting to send.
MeetSender(p, q) ==
    /\ call[p] = NoCall
    /\ call[q] = Send(p)
    /\ call' = [call EXCEPT ![q] = NoCall]
    /\ memory'[p] = Copied(Fresh(memory'[p]), memory[q])
    /\ from'[p] = name[q]
    /\ answer'[p] = Success /\ answer'[q] = Success
    /\ Untouched(Parties \ {p})

\* Process p, which has no call pending, dies or signals: calls of others fail.
Cancel(p) ==
    /\ call[p] = NoCall
    /\ \E S \in SUBSET {q \in Parties : call[q] # NoCall} :
         /\ call' = [q \in Parties |-> IF q \in S THEN NoCall ELSE call[q]]
         /\ \A q \in S : answer'[q] \in Failures
    /\ Untouched(Parties \ {p})

Next ==
    \E p \in Parties :
        \/ \E q \in Parties : Post(p, Send(q)) \/ MeetReceiver(p, q) \/ MeetSender(p, q)
        \/ \E q \in Parties \cup {Any} : Post(p, Recv(q))
        \/ Cancel(p)

Spec == Init /\ [][Next]_<<call, memory, from>>
=============================================================================
